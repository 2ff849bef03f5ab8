------------------------------ MODULE Upgrades ------------------------------
(***************************************************************************)
(* The upgrade scheduler of reconciler/scheduler.py and the release handoff*)
(* of reconciler/service.py for one Arr source, with the Fence tick that   *)
(* records replacements for candidates it gave up (runtime.py).            *)
(*                                                                         *)
(* A step of the Reconciler's thread is one call to another service or one *)
(* persist; the tick, Arr, an import or a crash can come in between.       *)
(*                                                                         *)
(* Time is relative: a wait is what is left until a moment, and Tick is one*)
(* unit.  A run samples the clock once and takes less than a unit, so time *)
(* passes between runs only.  What is overdue for longer than Overdue is   *)
(* overdue for Overdue.  Of the two search budgets the model has one: both *)
(* count the same events.  Operations that nothing refers to any more are  *)
(* used again, since every search takes a fresh UUID.                      *)
(***************************************************************************)
EXTENDS Integers, Sequences, FiniteSetsExt

CONSTANTS
  Entities,      \* Arr ids, positive numbers
  Released,      \* how long ago each entity was released, at the start
  Scope,         \* the series of an episode, a movie itself
  Ops,           \* operation ids: 1 .. n
  MinimumAge, Horizon, FinalSearch,
  CooldownBase, CooldownFactor, CooldownCap, MaxAttempts,
  PerRun, GrabsPerRun, PerHour, Hour,
  RetryBase, RetryFactor, RetryCap,
  ReplaceBase, ReplaceFactor, ReplaceCap,
  Overdue, MaxFiles, MaxInvalidations, MaxFaults, MaxCrashes

ASSUME UpgradesConstants ==
  /\ Entities \subseteq Nat \ {0} /\ Ops \subseteq Nat \ {0} /\ IsFiniteSet(Entities)
  /\ Released \in [Entities -> Nat]
  /\ DOMAIN Scope = Entities
  /\ {MinimumAge, Horizon, CooldownBase, CooldownCap, Overdue} \subseteq Nat
  /\ {CooldownFactor, MaxAttempts, PerRun, GrabsPerRun, PerHour, Hour, MaxFiles} \subseteq Nat \ {0}
  /\ {RetryBase, RetryFactor, RetryCap, ReplaceBase, ReplaceFactor, ReplaceCap} \subseteq Nat \ {0}
  /\ RetryBase <= RetryCap /\ ReplaceBase <= ReplaceCap
  /\ FinalSearch \in BOOLEAN
  /\ {MaxInvalidations, MaxFaults, MaxCrashes} \subseteq Nat

VARIABLES
  age,        \* how long ago each entity was released
  file,       \* the generation of each entity's file
  checkpoint, \* schedule: the last completed search of an entity
  retry,      \* schedule: technical failures of an entity
  replacement,\* schedule: a candidate of the entity was given up
  budget,     \* schedule: what is left of the hour of each counted search
  recorded,   \* schedule: operations whose completion is recorded
  cursor,     \* schedule: the fairness cursor
  intent,     \* reconciliation state: one record per operation
  fence,      \* the Fence's reservation of each operation
  arr,        \* the grab of each operation in Arr
  rec,        \* the Reconciler's thread
  emits,      \* the entity whose replacement the Fence tick is about to record
  answers,    \* answers Arr gave for an entity's file
  asked,      \* what is left of the hour of each answer
  given, faults, crashes

schedule == <<checkpoint, retry, replacement, budget, recorded, cursor>>
ghosts == <<answers, asked>>
bounds == <<given, faults, crashes>>
vars == <<age, file, schedule, intent, fence, arr, rec, emits, ghosts, bounds>>

No == 0
NoCheckpoint == [gen |-> No, attempts |-> 0, terminal |-> FALSE, wait |-> 0]
NoRetry == [gen |-> No, failures |-> 0, wait |-> 0]
NoReplacement == [due |-> FALSE, failures |-> 0, wait |-> 0]
NoIntent == [entity |-> No, gen |-> No, terminal |-> FALSE, again |-> FALSE,
             attempted |-> FALSE, observed |-> FALSE]
Idle == [pc |-> "idle", todo |-> {}, files |-> <<>>, due |-> <<>>, entity |-> No, op |-> No,
         answer |-> "none", fresh |-> FALSE, searched |-> 0, grabs |-> 0]

UpgradesInit ==
  /\ age = Released
  /\ file = [e \in Entities |-> 1]
  /\ checkpoint = [e \in Entities |-> NoCheckpoint]
  /\ retry = [e \in Entities |-> NoRetry]
  /\ replacement = [e \in Entities |-> NoReplacement]
  /\ budget = <<>> /\ recorded = {} /\ cursor = 0
  /\ intent = [op \in Ops |-> NoIntent]
  /\ fence = [op \in Ops |-> "none"] /\ arr = [op \in Ops |-> "none"]
  /\ rec = Idle /\ emits = No
  /\ answers = [e \in Entities |-> [gen |-> No, count |-> 0]] /\ asked = <<>>
  /\ given = 0 /\ faults = 0 /\ crashes = 0

-----------------------------------------------------------------------------
(* Waiting times.  They are integers, so what the code rounds up is exact. *)

Capped(n, cap) == IF cap # 0 /\ n > cap THEN cap ELSE n

\* base * factor ** exponent
Grown(base, factor, exponent) ==
  LET grown[n \in 0 .. exponent] == IF n = 0 THEN base ELSE grown[n - 1] * factor
  IN  grown[exponent]

\* Mutant: the configured maximum is forgotten.
CooldownUncapped(attempts) == Grown(CooldownBase, CooldownFactor, attempts)

Cooldown(attempts) == Capped(Grown(CooldownBase, CooldownFactor, attempts - 1), CooldownCap)
RetryDelay(failures) == Capped(Grown(RetryBase, RetryFactor, failures - 1), RetryCap)
ReplaceDelay(failures) == Capped(Grown(ReplaceBase, ReplaceFactor, failures), ReplaceCap)

\* next_search_at of an entity with file generation g; a wait that is positive is
\* not over, and one that never ends is as good as one that is not over yet.
NotYet == 1
NextSearchIn(e, g) ==
  CASE age[e] < MinimumAge -> NotYet
    [] age[e] >= MinimumAge /\ replacement[e].due -> replacement[e].wait
    [] age[e] >= MinimumAge /\ ~replacement[e].due /\ age[e] >= Horizon ->
         IF FinalSearch /\ ~(checkpoint[e].gen = g /\ checkpoint[e].terminal) THEN 0 ELSE NotYet
    [] OTHER ->
         CASE checkpoint[e].gen = g /\ checkpoint[e].attempts >= MaxAttempts -> NotYet
           [] ~(checkpoint[e].gen = g /\ checkpoint[e].attempts >= MaxAttempts)
                /\ retry[e].gen = g -> retry[e].wait
           [] OTHER -> IF checkpoint[e].gen = g THEN checkpoint[e].wait ELSE 0

Due(e, g) == NextSearchIn(e, g) <= 0

\* Unobserved requests keep their entity from being searched.
Requested(op) == intent[op].entity # No /\ ~intent[op].observed

\* Mutant: a request stops counting when its grab was attempted.
PendingUnattempted ==
  {intent[op].entity : op \in {o \in Ops : Requested(o) /\ ~intent[o].attempted}}
Pending == {intent[op].entity : op \in {o \in Ops : Requested(o)}}

\* Replacements first, then by time, release and id.
Earlier(a, b) ==
  LET key(e) == <<IF replacement[e].due THEN 0 ELSE 1, NextSearchIn(e, rec.files[e]),
                  0 - Released[e], e>>
      first == {i \in 1 .. 4 : key(a)[i] # key(b)[i]} IN
  first # {} /\ key(a)[Min(first)] < key(b)[Min(first)]

\* Scopes in order of appearance, turned by the cursor, one entity of each per round.
Fairer(D, a, b) ==
  LET before(e) == {d \in D : Earlier(d, e)}
      scopes == {Scope[e] : e \in D}
      appears(s) == Min({Cardinality(before(e)) : e \in {d \in D : Scope[d] = s}})
      place(e) == (Cardinality({s \in scopes : appears(s) < appears(Scope[e])}) - cursor)
                    % Cardinality(scopes)
      round(e) == Cardinality({d \in before(e) : Scope[d] = Scope[e]}) IN
  round(a) < round(b) \/ (round(a) = round(b) /\ place(a) < place(b))

\* The entities D in that order; there is one.
FairOrder(D) ==
  {due \in [1 .. Cardinality(D) -> D] :
     \A i, j \in DOMAIN due : i < j => due[i] # due[j] /\ Fairer(D, due[i], due[j])}

DueNow == {e \in DOMAIN rec.files : Due(e, rec.files[e]) /\ e \notin Pending}

\* The cursor is used modulo the number of scopes that are due.
Turns == FoldSet(LAMBDA a, b : a * b, 1, 1 .. Cardinality({Scope[e] : e \in Entities}))

-----------------------------------------------------------------------------
(* Writing the schedule.                                                   *)

RecordCompleted(e, g, terminal, op) ==
  LET attempts == 1 + IF checkpoint[e].gen = g THEN checkpoint[e].attempts ELSE 0 IN
  /\ checkpoint' = [checkpoint EXCEPT ![e] =
       [gen |-> g, attempts |-> attempts, terminal |-> terminal, wait |-> Cooldown(attempts)]]
  /\ retry' = [retry EXCEPT ![e] = NoRetry]
  /\ replacement' = [replacement EXCEPT ![e] = NoReplacement]
  /\ recorded' = recorded \union ({op} \ {No})

RecordTransientFailure(e, g) ==
  LET failures == 1 + IF retry[e].gen = g THEN retry[e].failures ELSE 0
      again == replacement[e].failures + 1 IN
  IF replacement[e].due
  THEN /\ replacement' = [replacement EXCEPT ![e] =
            [due |-> TRUE, failures |-> again, wait |-> ReplaceDelay(again)]]
       /\ UNCHANGED retry
  ELSE /\ retry' = [retry EXCEPT ![e] =
            [gen |-> g, failures |-> failures, wait |-> RetryDelay(failures)]]
       /\ UNCHANGED replacement

-----------------------------------------------------------------------------
(* The Reconciler's thread.                                                *)

Least(S) == {op \in S : \A o \in S : op <= o}
At(pc) == rec.pc = pc
To(pc) == rec' = [rec EXCEPT !.pc = pc]

Fault == faults < MaxFaults /\ faults' = faults + 1

StartRun ==
  /\ At("idle")
  /\ rec' = [Idle EXCEPT !.pc = "recover", !.todo = {op \in Ops : Requested(op)}]
  /\ UNCHANGED <<age, file, schedule, intent, fence, arr, emits, ghosts, bounds>>

RecoverNext ==
  /\ At("recover")
  /\ \/ rec.todo = {} /\ To("inventory")
     \/ \E op \in Least(rec.todo) :
          rec' = [rec EXCEPT !.todo = @ \ {op}, !.op = op,
                             !.pc = IF intent[op].attempted THEN "observe" ELSE "admit"]
  /\ UNCHANGED <<age, file, schedule, intent, fence, arr, emits, ghosts, bounds>>

\* _recover_intent returns: to the run that took the operation up, or to recover().
Handed(bound) ==
  rec' = IF ~rec.fresh THEN [rec EXCEPT !.pc = "recover", !.op = No]
         ELSE IF bound THEN [rec EXCEPT !.pc = "complete"]
         ELSE [rec EXCEPT !.pc = "next", !.op = No, !.entity = No, !.fresh = FALSE]

\* Only admitted requests are posted; pre_admit says yes again to one that it has.
Admit ==
  /\ At("admit")
  /\ \/ /\ fence' = [fence EXCEPT ![rec.op] = IF @ = "none" THEN "reserved" ELSE @]
        /\ To("attempt")
        /\ UNCHANGED faults
     \/ /\ Fault /\ Handed(FALSE)
        /\ \E f \in {fence[rec.op], "reserved"} : fence' = [fence EXCEPT ![rec.op] = f]
  /\ UNCHANGED <<age, file, schedule, intent, arr, emits, ghosts, given, crashes>>

\* Mutant: the attempt is written down when the release has been posted.
MarkAttemptedLate ==
  /\ At("attempt")
  /\ To("post")
  /\ UNCHANGED <<age, file, schedule, intent, fence, arr, emits, ghosts, bounds>>

MarkAttempted ==
  /\ At("attempt")
  /\ intent' = [intent EXCEPT ![rec.op].attempted = TRUE]
  /\ To("post")
  /\ UNCHANGED <<age, file, schedule, fence, arr, emits, ghosts, bounds>>

\* The answer to the POST is not looked at; it may not have arrived.
GrabRelease ==
  /\ At("post")
  /\ \/ /\ arr' = [arr EXCEPT ![rec.op] = IF @ = "none" THEN "posted" ELSE "twice"]
        /\ UNCHANGED faults
     \/ Fault /\ UNCHANGED arr
  /\ To("observe")
  /\ UNCHANGED <<age, file, schedule, intent, fence, emits, ghosts, given, crashes>>

\* One grab of the title behind the watermark, none before it, and its queue row.
ObserveGrab ==
  /\ At("observe")
  /\ \/ /\ IF arr[rec.op] = "grabbed" /\ ~intent[rec.op].again THEN To("bind") ELSE Handed(FALSE)
        /\ UNCHANGED faults
     \/ Fault /\ Handed(FALSE)
  /\ UNCHANGED <<age, file, schedule, intent, fence, arr, emits, ghosts, given, crashes>>

\* The Fence answers yes for what it has bound already, and no for what it gave up
\* and for a torrent that carries the tag of another reservation.  A binding that is
\* not confirmed yet may take effect all the same.
BindGrab ==
  LET bound == [fence EXCEPT ![rec.op] = IF @ = "reserved" THEN "active" ELSE @] IN
  /\ At("bind")
  /\ \/ /\ fence' = bound
        /\ IF fence[rec.op] \in {"gone", "taken"} THEN Handed(FALSE) ELSE To("mark")
        /\ UNCHANGED faults
     \/ Fault /\ Handed(FALSE) /\ fence' \in {fence, bound}
  /\ UNCHANGED <<age, file, schedule, intent, arr, emits, ghosts, given, crashes>>

\* Mutant: the request is not marked, since the search is recorded anyway.
MarkObservedUnsaved ==
  /\ At("mark")
  /\ Handed(TRUE)
  /\ UNCHANGED <<age, file, schedule, intent, fence, arr, emits, ghosts, bounds>>

MarkObserved ==
  /\ At("mark")
  /\ intent' = [intent EXCEPT ![rec.op].observed = TRUE]
  /\ Handed(TRUE)
  /\ UNCHANGED <<age, file, schedule, fence, arr, emits, ghosts, bounds>>

\* What was not listed is not searched in this run.
Inventory ==
  /\ At("inventory")
  /\ \/ rec' = [rec EXCEPT !.pc = "sync", !.files = file] /\ UNCHANGED faults
     \/ Fault /\ To("sync")
  /\ UNCHANGED <<age, file, schedule, intent, fence, arr, emits, ghosts, given, crashes>>

\* Requests that were bound, but whose completed search was not recorded any more.
Unsynced == {op \in Ops : intent[op].observed /\ op \notin recorded}

SyncCompleted ==
  /\ At("sync")
  /\ \/ /\ \E op \in Least(Unsynced) :
             RecordCompleted(intent[op].entity, intent[op].gen, intent[op].terminal, op)
        /\ UNCHANGED rec
     \/ /\ Unsynced = {}
        /\ \E due \in FairOrder(DueNow) : rec' = [rec EXCEPT !.pc = "next", !.due = due]
        /\ UNCHANGED <<checkpoint, retry, replacement, recorded>>
  /\ UNCHANGED <<age, file, budget, cursor, intent, fence, arr, emits, ghosts, bounds>>

WithinBudget == Len(budget) < PerHour
RunMayGoOn == rec.searched < PerRun /\ WithinBudget /\ rec.grabs < GrabsPerRun

NextEntity ==
  /\ At("next")
  /\ rec' = IF rec.due = <<>> THEN Idle
            ELSE IF RunMayGoOn
            THEN [rec EXCEPT !.pc = "search", !.due = Tail(@), !.entity = Head(rec.due)]
            ELSE [rec EXCEPT !.due = Tail(@)]
  /\ UNCHANGED <<age, file, schedule, intent, fence, arr, emits, ghosts, bounds>>

\* Operations that nothing will ask about any more.
Spare == {op \in Ops : intent[op] = NoIntent
            \/ (intent[op].observed /\ op \in recorded /\ fence[op] \in {"gone", "done"})}

\* What the properties count: the answers for a file.
Answered(before, g) ==
  [gen |-> g, count |-> IF before.gen = g THEN before.count + 1 ELSE 1]

\* Arr's answer, with a release whose title may be in its history already.  A failed
\* search is retried and is not counted.
ApprovedRelease ==
  LET e == rec.entity IN
  /\ At("search")
  /\ cursor' = (cursor + 1) % Turns
  /\ \/ /\ \E answer \in {"none", "new", "again"} :
             /\ answer # "none" => Spare # {}
             /\ rec' = [rec EXCEPT !.pc = "count", !.answer = answer]
        /\ asked' = Append(asked, Hour)
        /\ answers' = [answers EXCEPT ![e] = Answered(@, rec.files[e])]
        /\ UNCHANGED <<retry, replacement, faults>>
     \/ /\ Fault
        /\ RecordTransientFailure(e, rec.files[e])
        /\ rec' = [rec EXCEPT !.pc = "next", !.entity = No]
        /\ UNCHANGED ghosts
  /\ UNCHANGED <<age, file, checkpoint, budget, recorded, intent, fence, arr, emits,
                 given, crashes>>

\* Mutant: only a search that finds nothing is counted.
CountSearchWithoutGrab ==
  LET e == rec.entity IN
  /\ At("count")
  /\ budget' = IF rec.answer = "none" THEN Append(budget, Hour) ELSE budget
  /\ replacement' = [replacement EXCEPT ![e] = NoReplacement]
  /\ rec' = [rec EXCEPT !.searched = @ + 1,
                        !.grabs = IF rec.answer = "none" THEN @ ELSE @ + 1,
                        !.pc = IF rec.answer = "none" THEN "complete" ELSE "client"]
  /\ UNCHANGED <<age, file, checkpoint, retry, recorded, cursor, intent, fence, arr,
                 emits, ghosts, bounds>>

\* A valid answer uses up the budget and settles a replacement.
CountSearch ==
  LET e == rec.entity IN
  /\ At("count")
  /\ budget' = Append(budget, Hour)
  /\ replacement' = [replacement EXCEPT ![e] = NoReplacement]
  /\ rec' = [rec EXCEPT !.searched = @ + 1,
                        !.grabs = IF rec.answer = "none" THEN @ ELSE @ + 1,
                        !.pc = IF rec.answer = "none" THEN "complete" ELSE "client"]
  /\ UNCHANGED <<age, file, checkpoint, retry, recorded, cursor, intent, fence, arr,
                 emits, ghosts, bounds>>

\* execute_selected records the request with its sealed release, once the client
\* and the watermark are known; without them nothing of the search is recorded.
RecordIntent ==
  /\ At("client")
  /\ \/ /\ \E op \in Least(Spare) :
             /\ intent' = [intent EXCEPT ![op] =
                  [entity |-> rec.entity, gen |-> rec.files[rec.entity],
                   terminal |-> age[rec.entity] >= Horizon, again |-> rec.answer = "again",
                   attempted |-> FALSE, observed |-> FALSE]]
             /\ fence' = [fence EXCEPT ![op] = "none"] /\ arr' = [arr EXCEPT ![op] = "none"]
             /\ recorded' = recorded \ {op}
             /\ rec' = [rec EXCEPT !.pc = "admit", !.op = op, !.fresh = TRUE]
        /\ UNCHANGED faults
     \/ /\ Fault
        /\ rec' = [rec EXCEPT !.pc = "next", !.entity = No]
        /\ UNCHANGED <<intent, fence, arr, recorded>>
  /\ UNCHANGED <<age, file, checkpoint, retry, replacement, budget, cursor, emits, ghosts,
                 given, crashes>>

CompleteSearch ==
  LET e == rec.entity IN
  /\ At("complete")
  /\ RecordCompleted(e, rec.files[e], age[e] >= Horizon, rec.op)
  /\ rec' = [rec EXCEPT !.pc = "next", !.op = No, !.entity = No, !.fresh = FALSE]
  /\ UNCHANGED <<age, file, budget, cursor, intent, fence, arr, emits, ghosts, bounds>>

-----------------------------------------------------------------------------
(* The Fence tick, Arr, imports, time and a restart.                       *)

\* The history intake sees the grab before the request is bound to it: the torrent
\* gets the tag of a reservation of the intake's own, for good.
IntakeTakes(op) ==
  /\ fence[op] = "reserved" /\ arr[op] = "grabbed"
  /\ fence' = [fence EXCEPT ![op] = "taken"]
  /\ UNCHANGED <<age, file, schedule, intent, arr, rec, emits, ghosts, bounds>>

\* The Fence has the torrent, for the request or for the intake's reservation.
Transfers(op) == fence[op] = "active" \/ (fence[op] = "taken" /\ arr[op] = "grabbed")

\* The reservation is persisted as invalidated, then the replacement is recorded.
GiveUp(op) ==
  /\ Transfers(op) /\ emits = No /\ given < MaxInvalidations
  /\ \/ fence[op] = "active" /\ fence' = [fence EXCEPT ![op] = "gone"] /\ UNCHANGED arr
     \/ fence[op] = "taken" /\ arr' = [arr EXCEPT ![op] = "left"] /\ UNCHANGED fence
  /\ emits' = intent[op].entity
  /\ given' = given + 1
  /\ UNCHANGED <<age, file, schedule, intent, rec, ghosts, faults, crashes>>

RecordCandidateInvalidated ==
  /\ emits # No
  /\ replacement' = IF replacement[emits].due THEN replacement
                    ELSE [replacement EXCEPT ![emits] =
                            [due |-> TRUE, failures |-> 0, wait |-> ReplaceBase]]
  /\ emits' = No
  /\ UNCHANGED <<age, file, checkpoint, retry, budget, recorded, cursor, intent, fence,
                 arr, rec, ghosts, bounds>>

ArrGrabs(op) ==
  /\ arr[op] = "posted"
  /\ arr' = [arr EXCEPT ![op] = "grabbed"]
  /\ UNCHANGED <<age, file, schedule, intent, fence, rec, emits, ghosts, bounds>>

\* The transfer is imported: the entity has a new file, and the queue row is gone.
Import(op) ==
  LET e == intent[op].entity IN
  /\ Transfers(op) /\ file[e] < MaxFiles
  /\ fence' = IF fence[op] = "active" THEN [fence EXCEPT ![op] = "done"] ELSE fence
  /\ arr' = [arr EXCEPT ![op] = "left"]
  /\ file' = [file EXCEPT ![e] = @ + 1]
  /\ UNCHANGED <<age, schedule, intent, rec, emits, ghosts, bounds>>

Later(wait) == IF wait > 0 - Overdue THEN wait - 1 ELSE wait
\* What is left of every event a unit later; those that nothing is left of are gone.
Shift(events) ==
  LET kept[n \in 0 .. Len(events)] ==
        IF n = 0 THEN <<>>
        ELSE IF events[n] > 1 THEN Append(kept[n - 1], events[n] - 1) ELSE kept[n - 1]
  IN  kept[Len(events)]

\* Mutant: events stay in the budget.
ShiftNothing(events) == events

PruneBudget(events) == Shift(events)

Pass ==
  /\ rec = Idle /\ emits = No
  /\ age' = [e \in Entities |-> IF age[e] < Horizon THEN age[e] + 1 ELSE age[e]]
  /\ checkpoint' = [e \in Entities |->
       IF checkpoint[e].gen = No THEN NoCheckpoint ELSE [checkpoint[e] EXCEPT !.wait = Later(@)]]
  /\ retry' = [e \in Entities |->
       IF retry[e].gen = No THEN NoRetry ELSE [retry[e] EXCEPT !.wait = Later(@)]]
  /\ replacement' = [e \in Entities |->
       IF replacement[e].due THEN [replacement[e] EXCEPT !.wait = Later(@)] ELSE NoReplacement]
  /\ budget' = PruneBudget(budget) /\ asked' = Shift(asked)
  /\ UNCHANGED <<answers, file, recorded, cursor, intent, fence, arr, rec, emits, bounds>>

Crash ==
  /\ crashes < MaxCrashes
  /\ rec # Idle \/ emits # No
  /\ crashes' = crashes + 1
  /\ rec' = Idle /\ emits' = No
  /\ UNCHANGED <<age, file, schedule, intent, fence, arr, ghosts, given, faults>>

ReconcilerStep ==
  \/ StartRun \/ RecoverNext \/ Inventory \/ SyncCompleted \/ NextEntity
  \/ ApprovedRelease \/ CountSearch \/ RecordIntent \/ CompleteSearch
  \/ Admit \/ MarkAttempted \/ GrabRelease \/ ObserveGrab \/ BindGrab \/ MarkObserved

UpgradesNext ==
  \/ ReconcilerStep \/ RecordCandidateInvalidated
  \/ \E op \in Ops : IntakeTakes(op) \/ GiveUp(op) \/ ArrGrabs(op) \/ Import(op)
  \/ Pass \/ Crash

\* Both threads run for ever and time passes between two runs; Arr grabs what was
\* posted.  Nothing else has to happen.
Spec ==
  /\ UpgradesInit /\ [][UpgradesNext]_vars
  /\ WF_vars(ReconcilerStep) /\ WF_vars(RecordCandidateInvalidated)
  /\ SF_vars(Pass) /\ \A op \in Ops : WF_vars(ArrGrabs(op))

-----------------------------------------------------------------------------
(* Types.                                                                  *)

\* No wait is longer than its cap, where there is one.
Waits(cap) == {wait \in Int : wait >= 0 - Overdue /\ (cap # 0 => wait <= cap)}
UpgradesTypeOK ==
  /\ \A e \in Entities :
       /\ age[e] \in 0 .. Horizon \union {Released[e]} /\ file[e] \in 1 .. MaxFiles
       /\ checkpoint[e].gen \in 0 .. file[e]
       /\ checkpoint[e].wait \in Waits(CooldownCap)
       /\ (checkpoint[e].gen = No) = (checkpoint[e].attempts = 0)
       /\ retry[e].gen \in 0 .. file[e] /\ retry[e].wait \in Waits(RetryCap)
       /\ replacement[e].wait \in Waits(ReplaceCap)
  /\ recorded \subseteq {op \in Ops : intent[op].observed}
  /\ \A op \in Ops :
       /\ fence[op] \in {"none", "reserved", "active", "taken", "gone", "done"}
       /\ arr[op] \in {"none", "posted", "grabbed", "left", "twice"}
       /\ intent[op].observed => intent[op].attempted
  /\ rec.entity \in Entities \union {No} /\ rec.op \in Ops \union {No}
  /\ emits \in Entities \union {No}

-----------------------------------------------------------------------------
(* Safety.                                                                 *)

\* A request is posted to Arr once, whatever is retried, recovered or restarted.
GrabbedOnce == \A op \in Ops : arr[op] # "twice"

\* Arr is never asked for a second release of an entity while a request for it is
\* unsettled, over crashes and recovery.
OneRequestPerEntity ==
  \A a, b \in Ops :
    Requested(a) /\ Requested(b) /\ intent[a].entity = intent[b].entity => a = b

\* No more answers in an hour than the budget, but for one that a restart kept from
\* being counted.
BudgetKept == Len(asked) <= PerHour + crashes

\* A file is searched for as often as the policy says and once finally, and once more
\* for each candidate given up, each failed handoff and each restart.
AttemptsBounded ==
  \A e \in Entities :
    answers[e].count <= MaxAttempts + (IF FinalSearch THEN 1 ELSE 0) + given + faults + crashes

\* Neither the hour nor the policy of a file is exceeded.
SearchesBounded == BudgetKept /\ AttemptsBounded

-----------------------------------------------------------------------------
(* Liveness.                                                               *)

\* A request that stays pending for ever: its POST never reached Arr, its title was
\* in the history before, the history intake took the torrent for a reservation of its
\* own, or the Fence gave the torrent up or saw it imported before the Reconciler
\* marked it.
Abandoned(op) ==
  /\ Requested(op) /\ intent[op].attempted
  /\ arr[op] = "none" \/ intent[op].again \/ fence[op] \in {"taken", "gone", "done"}

\* Every grab is handed over in the end, unless it is abandoned.
EveryGrabHandedOver ==
  \A op \in Ops :
    []<>~(Requested(op) /\ arr[op] = "grabbed") \/ <>[]Abandoned(op)

\* No entity is due for ever: budgets, failures and the turns of the other series
\* delay its search and a replacement's, only an abandoned request prevents it.
EveryDueSearched ==
  \A e \in Entities :
    []<>~Due(e, file[e]) \/ <>[](\E op \in Ops : Abandoned(op) /\ intent[op].entity = e)
=============================================================================
