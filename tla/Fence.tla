------------------------------- MODULE Fence -------------------------------
(***************************************************************************)
(* The Fence service on top of its ledger: fence/service.py and its calls  *)
(* from the runtime's threads (runtime.py, fence/daemon.py), the torrents  *)
(* and tags of qBittorrent, the history of one Arr, a runtime that stops   *)
(* and starts again, and the requests the Reconciler and the Publisher     *)
(* make of the Fence.                                                      *)
(*                                                                         *)
(* A thread executes one method at a time, in steps that end where another *)
(* thread, qBittorrent or a crash can come in between: after each persist, *)
(* and before and after each call that changes a torrent.  The calls       *)
(* between acquire and release of the qBittorrent mutation lease are one   *)
(* generic section: observe, effect, read back.                            *)
(*                                                                         *)
(* A persist (clone, save, replace_with) is one step here: what threads    *)
(* can lose when they persist at once is not part of this module.  A call  *)
(* that fails, a reply that is lost and a reading that is not yet as it    *)
(* should be are faults; MaxFaults bounds them and MaxCrashes the stops.   *)
(* Torrents are started and stopped by the Fence alone, apart from a share *)
(* limit that stops a seeding torrent.                                     *)
(***************************************************************************)
EXTENDS FenceLedger, Sequences

CONSTANTS
  Target,          \* [Requested -> LaterHashes]: what a release request grabs
  Expected,        \* [Hashes -> Sizes]: size announced by Arr
  Actual,          \* [Hashes -> Sizes]: size reported by qBittorrent
  UserGrabs,       \* hashes a user grabs in Arr
  Observed,        \* the source has an Arr observer (poll_external)
  ShareLimits,     \* qBittorrent stops a torrent that has seeded enough
  Forgets,         \* Arr drops the queue row of a grab that was published
  Threads,         \* subset of {"tick", "recon", "pub", "rpc"}
  MaxFaults, MaxCrashes

ASSUME FenceConstants ==
  /\ Target \in [Requested -> LaterHashes]
  /\ Expected \in [Hashes -> Sizes] /\ Actual \in [Hashes -> Sizes]
  /\ UserGrabs \subseteq LaterHashes
  /\ {Observed, ShareLimits, Forgets} \subseteq BOOLEAN
  /\ IsFiniteSet(LaterHashes) /\ Cardinality(LaterHashes) <= MaxHistory
  /\ Observed => Cardinality(LaterHashes) <= Cardinality(External)
  /\ "tick" \in Threads /\ Threads \subseteq {"tick", "recon", "pub", "rpc"}
  /\ MaxFaults \in Nat /\ MaxCrashes \in Nat

VARIABLES
  torrent,       \* qBittorrent's state of each hash
  tags,          \* the fence tags on each torrent
  history,       \* grabs in Arr history, oldest first; ids are positions
  gone,          \* grabs that are no longer in the Arr queue
  attempted,     \* the Reconciler's grab of each request
  handed,        \* requests whose handoff the Reconciler has marked observed
  th,            \* what each thread is doing
  lease,         \* holder of the qBittorrent mutation lease
  batch,         \* the grabs poll_external is adopting: next position and last
  terminals,     \* terminals the tick is handing to the Publisher
  accepted,      \* terminals the Publisher has a publication of
  phase,         \* "down", "boot" or "up"
  faults, crashes

qbittorrent == <<torrent, tags>>
arr == <<history, gone>>
reconciler == <<attempted, handed>>
intake == <<batch, terminals, accepted>>
vars == <<ledger, qbittorrent, arr, reconciler, intake, th, lease, phase, faults, crashes>>

\* A thread is at a place of its program, serving op (for the caller, own), with
\* the job its next lease section does, the caller it returns to, and a stack of
\* the records its recover loops have left: bind_grab may call recover again.
Idle == [at |-> "idle", op |-> "none", job |-> "none", base |-> "none",
         own |-> "none", todo |-> <<>>]
NoBatch == [next |-> 1, last |-> 0]

FenceInit ==
  /\ LedgerInit
  /\ torrent = [h \in Hashes |-> IF h \in PriorHashes THEN "stopped" ELSE "absent"]
  /\ tags = [h \in Hashes |-> {}]
  /\ history = <<>> /\ gone = {}
  /\ attempted = [op \in Requested |-> "no"]
  /\ handed = {}
  /\ th = [t \in Threads |-> Idle]
  /\ lease = "free"
  /\ batch = NoBatch
  /\ terminals = {} /\ accepted = {}
  /\ phase = "down"
  /\ faults = 0 /\ crashes = 0

-----------------------------------------------------------------------------
(* Control *)

Fault == faults < MaxFaults /\ faults' = faults + 1
NoFault == UNCHANGED faults

\* A call that needs condition comes back refused, unclear or failed.
Declined(condition) == IF condition THEN Fault ELSE NoFault

Become(t, thread) == th' = [th EXCEPT ![t] = thread]
GoTo(t, place) == Become(t, [th[t] EXCEPT !.at = place])
Do(t, place, job) == Become(t, [th[t] EXCEPT !.at = place, !.job = job])

\* Where a call that returned ok to its caller continues.
Continue(r, ok) ==
  CASE r.todo # <<>> -> [r EXCEPT !.at = "loop", !.op = "none", !.job = "none"]
    [] r.todo = <<>> /\ r.base = "boot" -> [Idle EXCEPT !.at = "reopen"]
    [] r.todo = <<>> /\ r.base = "tick" -> [Idle EXCEPT !.at = "poll"]
    [] r.todo = <<>> /\ r.base = "poll" -> [Idle EXCEPT !.at = IF ok THEN "adopted" ELSE "publish"]
    [] r.todo = <<>> /\ r.base = "dispatch" ->
         IF ok THEN [r EXCEPT !.at = "receipt", !.job = "none"] ELSE [Idle EXCEPT !.at = "dispatch"]
    [] r.todo = <<>> /\ r.base = "request" /\ ok -> [Idle EXCEPT !.at = "handed", !.own = r.own]
    [] OTHER -> Idle

Return(t, ok) == Become(t, Continue(th[t], ok))

\* An exception leaves every loop.  tick() catches it and the terminals are
\* still collected; nothing catches it while the runtime starts.
Raise(t) ==
  /\ Become(t, IF th[t].base \in {"tick", "poll"} THEN [Idle EXCEPT !.at = "publish"] ELSE Idle)
  /\ phase' = IF phase = "boot" THEN "down" ELSE phase

\* The durable records a loop over state.records() will visit, with the state
\* each of them had when the loop began.
Snapshot(states) == [op \in Ops |-> IF state[op] \in states THEN state[op] ELSE "none"]

Recoverable ==
  {"grab_bound", "tag_intent_recorded", "qbittorrent_stopped", "activation_intent_recorded",
   "resume_intent_recorded", "pause_intent_recorded", "freeze_intent_recorded"}
  \cup IF MayQuiesce THEN {"qbittorrent_active", "qbittorrent_managed"} ELSE {}

StartLoop(t, base, states) ==
  Become(t, [Idle EXCEPT !.at = "loop", !.base = base, !.todo = <<Snapshot(states)>>])

\* The thread with op taken off the records its innermost loop has left.
Taken(t, op) ==
  [th[t] EXCEPT !.op = op, !.todo = <<[Head(@) EXCEPT ![op] = "none"]>> \o Tail(@)]

-----------------------------------------------------------------------------
(* Observations of qBittorrent *)

Owned(op) == hash[op] # NoHash /\ tags[hash[op]] = {op}
IsStopped(op) == hash[op] # NoHash /\ torrent[hash[op]] \in {"stopped", "complete"}
IsActive(op) == hash[op] # NoHash /\ torrent[hash[op]] \in {"running", "seeding"}

\* Mutant: the owner tags are not looked at.
StoppedOnly(h) == torrent[h] \in {"stopped", "complete"}

\* observe_existing_stopped: an untagged stopped torrent.
StoppedAndFree(h) == torrent[h] \in {"stopped", "complete"} /\ tags[h] = {}

\* A magnet without metadata is accounted with the requested size.
AccountedBytes(op) ==
  IF op \in PostPnr \cup Historical THEN {Actual[hash[op]]}
  ELSE {Actual[hash[op]], requested[op]}

Started(h) == [torrent EXCEPT ![h] = IF @ = "complete" THEN "seeding" ELSE
                                     IF @ = "stopped" THEN "running" ELSE @]
Stopped(h) == [torrent EXCEPT ![h] = IF @ = "seeding" THEN "complete" ELSE
                                     IF @ = "running" THEN "stopped" ELSE @]
-----------------------------------------------------------------------------
(* recover() and the loops of quiesce(): one visit per record *)

Visits(t, op, seen) ==
  th[t].at = "loop" /\ Head(th[t].todo)[op] # "none" /\ Head(th[t].todo)[op] \in seen

Skip(t, op) == Become(t, [Taken(t, op) EXCEPT !.op = "none"]) /\ UNCHANGED ledger
Enter(t, op, place, job) == Become(t, [Taken(t, op) EXCEPT !.at = place, !.job = job])

LoopPause(t, op) ==
  /\ Visits(t, op, {"qbittorrent_active", "qbittorrent_managed"})
  /\ NoFault
  /\ \/ RequestPause(op) /\ Enter(t, op, "acquire", "pause")
     \/ ~CanRequestPause(op) /\ Skip(t, op)

LoopActivate(t, op) ==
  /\ Visits(t, op, {"activation_intent_recorded"})
  /\ Enter(t, op, "ready", "activate") /\ NoFault /\ UNCHANGED ledger

LoopBind(t, op) ==
  /\ Visits(t, op, {"grab_bound"})
  /\ Enter(t, op, IF op \in PostPnr \cup Historical THEN "claim" ELSE "bind", "none")
  /\ NoFault /\ UNCHANGED ledger

\* The tag was applied or not before the interruption: only its readback counts.
CanRetag(op) ==
  lease = "free" /\ state[op] = "tag_intent_recorded" /\ Owned(op) /\ IsStopped(op)

LoopRetag(t, op) ==
  /\ Visits(t, op, {"tag_intent_recorded"})
  /\ \/ /\ CanRetag(op)
        /\ \E size \in AccountedBytes(op) : MarkTagged(op, size)
        /\ IF op \notin PostPnr \cup Historical /\ WithinCapacity'
           THEN \/ Enter(t, op, "request", "resume") /\ NoFault
                \/ Become(t, [Taken(t, op) EXCEPT !.op = "none"]) /\ Fault
           ELSE Become(t, [Taken(t, op) EXCEPT !.op = "none"]) /\ NoFault
     \/ Declined(CanRetag(op)) /\ Skip(t, op)



LoopStopped(t, op) ==
  /\ Visits(t, op, {"qbittorrent_stopped"})
  /\ LET proceeds == op \notin PostPnr \cup Historical /\ WithinCapacity IN
     \/ proceeds /\ NoFault /\ Enter(t, op, "request", "resume") /\ UNCHANGED ledger
     \/ Declined(proceeds) /\ Skip(t, op)

LoopResume(t, op) ==
  /\ Visits(t, op, {"resume_intent_recorded"})
  /\ NoFault /\ UNCHANGED ledger
  /\ IF quiescing THEN Skip(t, op) ELSE Enter(t, op, "ready", "resume")

\* Mutant: only an interrupted pause is driven again.
LoopStopPauseOnly(t, op) ==
  /\ Visits(t, op, {"pause_intent_recorded", "freeze_intent_recorded"})
  /\ NoFault /\ UNCHANGED ledger
  /\ IF state[op] = "pause_intent_recorded" /\ state[op] = Head(th[t].todo)[op]
     THEN Enter(t, op, "acquire", "pause")
     ELSE Skip(t, op)

\* An interrupted pause or freeze is driven again.
LoopStop(t, op) ==
  /\ Visits(t, op, {"pause_intent_recorded", "freeze_intent_recorded"})
  /\ NoFault /\ UNCHANGED ledger
  /\ IF state[op] = Head(th[t].todo)[op]
     THEN Enter(t, op, "acquire", IF state[op] = "pause_intent_recorded" THEN "pause" ELSE "freeze")
     ELSE Skip(t, op)

LoopReopen(t, op) ==
  /\ Visits(t, op, {"qbittorrent_paused"})
  /\ \/ WithinCapacity /\ NoFault /\ Enter(t, op, "request", "resume") /\ UNCHANGED ledger
     \/ Declined(WithinCapacity) /\ Skip(t, op)

LoopDone(t) ==
  /\ th[t].at = "loop" /\ \A op \in Ops : Head(th[t].todo)[op] = "none"
  /\ Become(t, Continue([th[t] EXCEPT !.todo = Tail(@)], TRUE))
  /\ phase' = IF th[t].base = "reopen" THEN "up" ELSE phase
  /\ NoFault /\ UNCHANGED ledger

Loop(t) ==
  /\ \/ /\ \E op \in Ops :
              \/ LoopPause(t, op) \/ LoopActivate(t, op) \/ LoopBind(t, op)
              \/ LoopRetag(t, op) \/ LoopStopped(t, op) \/ LoopResume(t, op)
              \/ LoopStop(t, op) \/ LoopReopen(t, op)
        /\ UNCHANGED phase
     \/ LoopDone(t)
  /\ UNCHANGED <<qbittorrent, arr, reconciler, intake, lease, crashes>>

-----------------------------------------------------------------------------
(* bind_grab, the claim of an adoption, freeze, and the way to a resume *)

\* The stopped torrent is seen, the grab becomes durable; the tag intent is a
\* persist of its own.
BindNew(t) ==
  LET op == th[t].op
      h == IF hash[op] = NoHash THEN Target[op] ELSE hash[op]
  IN /\ th[t].at = "bind" /\ state[op] \in {"pre_admitted", "grab_bound"}
     /\ \/ /\ StoppedAndFree(h) /\ NoFault /\ GoTo(t, "tag")
           /\ BindObservedGrab(op, h) \/ (state[op] = "grab_bound" /\ UNCHANGED ledger)
        \/ Declined(StoppedAndFree(h)) /\ Return(t, FALSE) /\ UNCHANGED ledger

\* bind_grab of an operation that is bound already: an unfinished one makes it
\* run recover(), and it answers from the state it had read before.
BindAgain(t) ==
  LET op == th[t].op IN
  /\ th[t].at = "bind" /\ state[op] \notin {"pre_admitted", "grab_bound"}
  /\ IF state[op] \in {"tag_intent_recorded", "qbittorrent_stopped", "resume_intent_recorded"}
     THEN Become(t, [th[t] EXCEPT !.at = "loop", !.op = "none",
                                  !.todo = <<Snapshot(Recoverable)>> \o @])
     ELSE Return(t, state[op] \in {"qbittorrent_active", "terminal", "released"})
  /\ NoFault /\ UNCHANGED ledger

BindTag(t) ==
  LET op == th[t].op IN
  /\ th[t].at = "tag" /\ NoFault
  /\ \/ RequestTag(op) /\ Do(t, "acquire", "tag")
     \/ state[op] # "grab_bound" /\ Return(t, FALSE) /\ UNCHANGED ledger

Claim(t) ==
  LET op == th[t].op IN
  /\ th[t].at = "claim"
  /\ \/ RequestTag(op) /\ NoFault /\ Do(t, "acquire", "claim")
     \/ /\ CanRetag(op) /\ NoFault /\ Return(t, TRUE)
        /\ \E size \in AccountedBytes(op) : MarkTagged(op, size)
     \/ /\ state[op] # "grab_bound" /\ Declined(CanRetag(op))
        /\ Return(t, FALSE) /\ UNCHANGED ledger

\* Mutant: the resume intent is not persisted before the resume.
RequestUnrecorded(t) ==
  /\ th[t].at = "request" /\ NoFault
  /\ GoTo(t, IF th[t].job = "start" THEN "acquire" ELSE "ready")
  /\ UNCHANGED <<ledger, phase>>

Request(t) ==
  LET op == th[t].op IN
  /\ th[t].at = "request" /\ NoFault
  /\ \/ /\ RequestResume(op)
        /\ GoTo(t, IF th[t].job = "start" THEN "acquire" ELSE "ready")
        /\ UNCHANGED phase
     \/ /\ ~CanRequestResume(op) /\ UNCHANGED ledger
        /\ IF th[t].job = "start" \/ th[t].base = "reopen"
           THEN Return(t, FALSE) /\ UNCHANGED phase
           ELSE Raise(t)

\* freeze(), for the Publisher.
Freeze(t) ==
  LET op == th[t].op IN
  /\ th[t].at = "freeze" /\ NoFault
  /\ \/ RequestFreeze(op) /\ Do(t, "acquire", "freeze")
     \/ /\ state[op] # "terminal" /\ Return(t, state[op] = "qbittorrent_frozen")
        /\ UNCHANGED ledger

\* _ready_for_resume asks the other services: time passes before the lease.
Ready(t) ==
  LET op == th[t].op
      proceeds == /\ ~quiescing /\ WithinCapacity
                  /\ th[t].job = "activate" => state[op] = "activation_intent_recorded"
  IN /\ th[t].at = "ready" /\ UNCHANGED ledger
     /\ \/ proceeds /\ NoFault /\ GoTo(t, "acquire")
        \/ Declined(proceeds) /\ Return(t, FALSE)

Bind(t) ==
  /\ \/ (BindNew(t) \/ BindAgain(t) \/ BindTag(t) \/ Claim(t) \/ Freeze(t) \/ Ready(t)) /\ UNCHANGED phase
     \/ Request(t)
  /\ UNCHANGED <<qbittorrent, arr, reconciler, intake, lease, crashes>>
-----------------------------------------------------------------------------
(* One section under the mutation lease *)

Tagging == {"tag", "claim"}
Starting == {"start", "resume", "activate"}
Stopping == {"pause", "freeze"}

\* What the section must see of the torrent before it acts, and afterwards.
Fit(t) == LET op == th[t].op IN
  IF th[t].job \in Tagging THEN StoppedAndFree(hash[op]) ELSE Owned(op)


Done(t) == LET op == th[t].op IN
  Owned(op) /\ IF th[t].job \in Starting THEN IsActive(op) ELSE IsStopped(op)

\* Activation persists its outcome inside the lease, the others after it.
LeaseAtSettle(t) == IF th[t].job = "activate" THEN t ELSE "free"

Acquire(t) ==
  /\ th[t].at = "acquire"
  /\ LET proceeds == lease = "free" /\ Fit(t) IN
     \/ /\ proceeds /\ NoFault
        /\ IF th[t].job \notin Tagging /\ Done(t)
           THEN GoTo(t, "settle") /\ lease' = LeaseAtSettle(t)
           ELSE GoTo(t, "effect") /\ lease' = t
     \/ Declined(proceeds) /\ Return(t, FALSE) /\ UNCHANGED lease
  /\ UNCHANGED <<ledger, qbittorrent>>

\* Mutant: the caller's operation is tagged, not the record's.
AppliedForCaller(t) ==
  LET op == th[t].op h == hash[op] IN
  IF th[t].job \in Tagging
  THEN tags' = [tags EXCEPT ![h] = @ \cup {th[t].own}] /\ UNCHANGED torrent
  ELSE /\ torrent' = IF th[t].job \in Starting THEN Started(h) ELSE Stopped(h)
       /\ UNCHANGED tags

Applied(t) ==
  LET op == th[t].op h == hash[op] IN
  IF th[t].job \in Tagging
  THEN tags' = [tags EXCEPT ![h] = @ \cup {op}] /\ UNCHANGED torrent
  ELSE /\ torrent' = IF th[t].job \in Starting THEN Started(h) ELSE Stopped(h)
       /\ UNCHANGED tags

\* The call takes effect and is answered, or takes effect and the answer is
\* lost, or has no effect.
Effect(t) ==
  /\ th[t].at = "effect"
  /\ \/ Applied(t) /\ NoFault /\ GoTo(t, "readback") /\ UNCHANGED lease
     \/ /\ Applied(t) \/ UNCHANGED qbittorrent
        /\ Fault /\ Return(t, FALSE) /\ lease' = "free"
  /\ UNCHANGED ledger

\* Ownership becomes durable before the lease is released.
ReadbackTag(t) ==
  LET op == th[t].op IN
  /\ th[t].at = "readback" /\ th[t].job \in Tagging /\ Done(t)
  /\ \/ /\ \E size \in AccountedBytes(op) : MarkTagged(op, size)
        /\ \/ /\ NoFault
              /\ IF th[t].job = "claim" \/ ~WithinCapacity'
                 THEN Return(t, th[t].job = "claim")
                 ELSE Do(t, "request", "start")
           \/ th[t].job = "tag" /\ WithinCapacity' /\ Fault /\ Return(t, FALSE)
     \/ state[op] # "tag_intent_recorded" /\ NoFault /\ Return(t, FALSE) /\ UNCHANGED ledger
  /\ lease' = "free" /\ UNCHANGED qbittorrent

ReadbackActivity(t) ==
  /\ th[t].at = "readback" /\ th[t].job \notin Tagging /\ Done(t)
  /\ NoFault /\ GoTo(t, "settle") /\ lease' = LeaseAtSettle(t)
  /\ UNCHANGED <<ledger, qbittorrent>>

ReadbackFails(t) ==
  /\ th[t].at = "readback" /\ Declined(Done(t))
  /\ Return(t, FALSE) /\ lease' = "free"
  /\ UNCHANGED <<ledger, qbittorrent>>

\* Mutant: a pause is recorded although the Fence was reopened meanwhile.
SettlesAfterReopen(job, op) ==
  CASE job \in {"start", "resume"} -> MarkActive(op)
    [] job = "activate" -> MarkHistoricalManaged(op)
    [] job = "pause" -> /\ Moves(op, {"pause_intent_recorded"}, "qbittorrent_paused")
                        /\ UNCHANGED <<hash, bytes, requested, activation, candidate,
                                       quiescing, watermark>>
    [] job = "freeze" -> MarkFrozen(op)

Settles(job, op) ==
  CASE job \in {"start", "resume"} -> MarkActive(op)
    [] job = "activate" -> MarkHistoricalManaged(op)
    [] job = "pause" -> MarkPaused(op)
    [] job = "freeze" -> MarkFrozen(op)

CanSettle(job, op) ==
  CASE job \in {"start", "resume"} -> CanMarkActive(op)
    [] job = "activate" -> CanMarkManaged(op)
    [] job = "pause" -> CanMarkPaused(op)
    [] job = "freeze" -> CanMarkFrozen(op)

\* The durable state follows the effect.  The ledger may have moved on since the
\* section began: then only recovery's resume lets the exception out.
Settle(t) ==
  LET op == th[t].op job == th[t].job IN
  /\ th[t].at = "settle" /\ NoFault
  /\ \/ Settles(job, op) /\ Return(t, TRUE) /\ UNCHANGED phase
     \/ /\ ~CanSettle(job, op) /\ UNCHANGED ledger
        /\ IF job = "resume" THEN Raise(t) ELSE Return(t, FALSE) /\ UNCHANGED phase
  /\ lease' = IF job = "activate" THEN "free" ELSE lease
  /\ UNCHANGED qbittorrent

Section(t) ==
  /\ \/ /\ \/ Acquire(t) \/ Effect(t) \/ ReadbackTag(t)
           \/ ReadbackActivity(t) \/ ReadbackFails(t)
        /\ UNCHANGED phase
     \/ Settle(t)
  /\ UNCHANGED <<arr, reconciler, intake, crashes>>

-----------------------------------------------------------------------------
(* The tick: recover, poll Arr, hand terminals to the Publisher *)

Free(t) == phase = "up" /\ th[t].at = "idle"

Tick ==
  /\ Free("tick") /\ StartLoop("tick", "tick", Recoverable)
  /\ NoFault /\ UNCHANGED <<ledger, intake>>

\* external_grabs_after: one later grab that is not in the queue, and nothing is
\* observed at all.
Unlisted == \E i \in DOMAIN history : i > watermark /\ history[i] \in gone

Poll ==
  /\ th["tick"].at = "poll"
  /\ \/ /\ ~Observed /\ NoFault /\ Become("tick", [Idle EXCEPT !.at = "publish"])
        /\ UNCHANGED <<ledger, intake>>
     \/ /\ Observed /\ watermark = NoWatermark /\ NoFault
        /\ RecordWatermark(Len(history))
        /\ Become("tick", [Idle EXCEPT !.at = "publish"])
        /\ UNCHANGED intake
     \/ /\ Observed /\ watermark # NoWatermark /\ ~Unlisted /\ NoFault
        /\ batch' = [next |-> watermark + 1, last |-> Len(history)]
        /\ Become("tick", [Idle EXCEPT !.at = "batch"])
        /\ UNCHANGED <<ledger, terminals, accepted>>
     \/ /\ Observed /\ Declined(watermark = NoWatermark \/ ~Unlisted)
        /\ Become("tick", [Idle EXCEPT !.at = "publish"])
        /\ UNCHANGED <<ledger, intake>>

BindNext(op) ==
  Become("tick", [Idle EXCEPT !.at = "bind", !.op = op, !.own = op, !.base = "poll"])

\* Mutant: a grab that cannot be adopted is passed over.
AdoptNextOrSkip ==
  LET h == history[batch.next]
      known == {op \in External : hash[op] = h}
  IN /\ th["tick"].at = "batch" /\ batch.next <= batch.last
     /\ \/ \E op \in known :
             ~quiescing /\ NoFault /\ BindNext(op) /\ UNCHANGED ledger
        \/ \E op \in External :
             AdoptExternal(op, h, Expected[h]) /\ NoFault /\ BindNext(op)
        \/ /\ Declined(known # {} \/ RoomFor(Expected[h]))
           /\ Become("tick", [Idle EXCEPT !.at = "adopted"]) /\ UNCHANGED ledger
     /\ UNCHANGED intake

\* Every grab after the watermark is adopted, whoever asked Arr for it.
AdoptNext ==
  LET h == history[batch.next]
      known == {op \in External : hash[op] = h}
      proceeds == ~quiescing /\ (known # {} \/ RoomFor(Expected[h]))
  IN /\ th["tick"].at = "batch" /\ batch.next <= batch.last
     /\ \/ \E op \in known :
             ~quiescing /\ NoFault /\ BindNext(op) /\ UNCHANGED ledger
        \/ \E op \in External :
             AdoptExternal(op, h, Expected[h]) /\ NoFault /\ BindNext(op)
        \/ /\ Declined(proceeds)
           /\ Become("tick", [Idle EXCEPT !.at = "publish"]) /\ UNCHANGED ledger
     /\ UNCHANGED intake

Adopted ==
  /\ th["tick"].at = "adopted"
  /\ batch' = [batch EXCEPT !.next = @ + 1]
  /\ Become("tick", [Idle EXCEPT !.at = "batch"])
  /\ NoFault /\ UNCHANGED <<ledger, terminals, accepted>>

AdvanceWatermark ==
  /\ th["tick"].at = "batch" /\ batch.next > batch.last
  /\ RecordWatermark(batch.last)
  /\ Become("tick", [Idle EXCEPT !.at = "publish"])
  /\ NoFault /\ UNCHANGED intake

PendingTerminals ==
  /\ th["tick"].at = "publish"
  /\ Become("tick", [Idle EXCEPT !.at = "collect",
       !.todo = <<Snapshot({"qbittorrent_active", "terminal", "qbittorrent_frozen"})>>])
  /\ batch' = NoBatch /\ NoFault /\ UNCHANGED <<ledger, terminals, accepted>>

\* observe(): a completed transfer is durable before its terminal is handed on.
Collect(op) ==
  LET t == "tick"
      done == state[op] = "qbittorrent_active" /\ Owned(op) /\ torrent[hash[op]] = "seeding"
      held == state[op] \in {"terminal", "qbittorrent_frozen"}
  IN /\ th[t].at = "collect" /\ Head(th[t].todo)[op] # "none"
     /\ Become(t, [Taken(t, op) EXCEPT !.op = "none"])
     /\ \/ done /\ Complete(op) /\ NoFault /\ terminals' = terminals \cup {op}
        \/ held /\ NoFault /\ terminals' = terminals \cup {op} /\ UNCHANGED ledger
        \/ ~held /\ Declined(done) /\ UNCHANGED <<ledger, terminals>>
     /\ UNCHANGED <<batch, accepted>>

Collected ==
  /\ th["tick"].at = "collect" /\ \A op \in Ops : Head(th["tick"].todo)[op] = "none"
  /\ Become("tick", [Idle EXCEPT !.at = "dispatch"])
  /\ NoFault /\ UNCHANGED <<ledger, intake>>

\* The Publisher serves one terminal at a time behind its work gate.  It may
\* want the torrent stopped before it copies; it may have nothing to say yet.
GateOpen == \A t \in Threads : th[t].base \notin {"dispatch", "retry"}
Serve(t, op, place, base) ==
  Become(t, [Idle EXCEPT !.at = place, !.op = op, !.own = op, !.base = base])

Dispatch(op) ==
  /\ th["tick"].at = "dispatch" /\ op \in terminals /\ GateOpen
  /\ terminals' = terminals \ {op}
  /\ \/ /\ NoFault /\ accepted' = accepted \cup {op}
        /\ \E place \in {"freeze", "receipt"} : Serve("tick", op, place, "dispatch")
     \/ Fault /\ accepted' \in {accepted, accepted \cup {op}} /\ UNCHANGED th
  /\ UNCHANGED <<ledger, batch>>

\* Mutant: custody is accepted in whatever state the reservation is.
ReceiptUnchecked ==
  LET op == th["tick"].op IN
  /\ th["tick"].at = "receipt" /\ NoFault
  /\ state' = [state EXCEPT ![op] = "released"]
  /\ UNCHANGED <<hash, bytes, requested, activation, candidate, quiescing, watermark, intake>>
  /\ Become("tick", [Idle EXCEPT !.at = "dispatch"])

\* The receipt of the Publisher releases a reservation that is terminal or frozen.
Receipt ==
  LET op == th["tick"].op IN
  /\ th["tick"].at = "receipt"
  /\ \/ AcceptCustody(op) /\ NoFault
     \/ Declined(state[op] \in {"terminal", "qbittorrent_frozen"}) /\ UNCHANGED ledger
  /\ Become("tick", [Idle EXCEPT !.at = "dispatch"])
  /\ UNCHANGED intake

Dispatched ==
  /\ th["tick"].at = "dispatch" /\ terminals = {}
  /\ Become("tick", Idle) /\ NoFault /\ UNCHANGED <<ledger, intake>>

TickStep ==
  /\ \/ Tick \/ Poll \/ AdoptNext \/ Adopted \/ AdvanceWatermark \/ PendingTerminals
     \/ (\E op \in Ops : Collect(op) \/ Dispatch(op)) \/ Collected \/ Receipt \/ Dispatched
  /\ UNCHANGED <<qbittorrent, arr, reconciler, lease, phase, crashes>>
-----------------------------------------------------------------------------
(* The Publisher's retry thread *)

Retry(op) ==
  /\ Free("pub") /\ GateOpen /\ op \in accepted /\ state[op] = "terminal"
  /\ Serve("pub", op, "freeze", "retry") /\ NoFault /\ UNCHANGED ledger

PublisherStep ==
  /\ \E op \in Ops : Retry(op)
  /\ UNCHANGED <<qbittorrent, arr, reconciler, intake, lease, phase, crashes>>

-----------------------------------------------------------------------------
(* The Reconciler's thread: one release request *)

\* Admission of a new request, or of one admitted before the runtime stopped.
RequestRelease(op) ==
  /\ Free("recon") /\ attempted[op] = "no"
  /\ \/ PreAdmit(op, Expected[Target[op]])
     \/ state[op] \notin {"none", "released"} /\ ~quiescing /\ UNCHANGED ledger
  /\ Become("recon", [Idle EXCEPT !.at = "attempt", !.own = op])
  /\ UNCHANGED reconciler

\* The attempt is durable before Arr is asked: it is never asked twice.
RecordAttempt ==
  LET op == th["recon"].own IN
  /\ th["recon"].at = "attempt"
  /\ attempted' = [attempted EXCEPT ![op] = "recorded"]
  /\ GoTo("recon", "post") /\ UNCHANGED <<ledger, handed>>

PostGrab ==
  LET op == th["recon"].own IN
  /\ th["recon"].at = "post"
  /\ attempted' = [attempted EXCEPT ![op] = "posted"]
  /\ Become("recon", Idle) /\ UNCHANGED <<ledger, handed>>

\* Mutant: the handoff counts although the Fence said no.
HandOverOnce(op) ==
  /\ Free("recon") /\ attempted[op] # "no" /\ op \notin handed
  /\ \E i \in DOMAIN history : history[i] = Target[op]
  /\ Become("recon", [Idle EXCEPT !.at = "handed", !.own = op])
  /\ UNCHANGED <<ledger, reconciler>>

\* observe_grab: the grab is in Arr history and its row in the queue.
GrabObserved(op) ==
  Target[op] \notin gone /\ \E i \in DOMAIN history : history[i] = Target[op]

\* A grab that is observed is handed to the Fence.
HandOver(op) ==
  /\ Free("recon") /\ attempted[op] # "no" /\ op \notin handed
  /\ GrabObserved(op)
  /\ Serve("recon", op, "bind", "request") /\ UNCHANGED <<ledger, reconciler>>

MarkObserved ==
  /\ th["recon"].at = "handed"
  /\ handed' = handed \cup {th["recon"].own}
  /\ Become("recon", Idle) /\ UNCHANGED <<ledger, attempted>>

ReconcilerStep ==
  /\ \/ \E op \in Requested : RequestRelease(op) \/ HandOver(op)
     \/ RecordAttempt \/ PostGrab \/ MarkObserved
  /\ NoFault
  /\ UNCHANGED <<qbittorrent, arr, intake, lease, phase, crashes>>

-----------------------------------------------------------------------------
(* The contract handlers nobody in this runtime calls *)

Quiesce ==
  /\ BeginQuiescence \/ (MayQuiesce /\ quiescing /\ UNCHANGED ledger)
  /\ StartLoop("rpc", "quiesce", {"qbittorrent_active", "qbittorrent_managed"})

Reopen ==
  /\ EndQuiescence \/ (MayQuiesce /\ ~quiescing /\ UNCHANGED ledger)
  /\ StartLoop("rpc", "reopen", {"qbittorrent_paused"})

\* The historical adoption reserves what qBittorrent reports, the other what
\* Arr announced.  A repeated message goes on with the claim.
Adopt(op, h) ==
  /\ \/ /\ StoppedAndFree(h)
        /\ AdoptPostPnr(op, h, IF op \in Historical THEN Actual[h] ELSE Expected[h])
     \/ state[op] \in {"grab_bound", "tag_intent_recorded"} /\ hash[op] = h /\ UNCHANGED ledger
  /\ Serve("rpc", op, "claim", "adopt")

Activate(op) ==
  /\ ~quiescing /\ WithinCapacity
  /\ \/ lease = "free" /\ Owned(op) /\ IsStopped(op) /\ RequestHistoricalActivation(op)
     \/ activation[op] = "intent" /\ UNCHANGED ledger
  /\ Become("rpc", [Idle EXCEPT !.at = "ready", !.op = op, !.own = op,
                                !.job = "activate", !.base = "adopt"])

ContractStep ==
  /\ "rpc" \in Threads /\ Free("rpc")
  /\ \/ Quiesce \/ Reopen
     \/ \E op \in PostPnr \cup Historical, h \in PriorHashes : Adopt(op, h)
     \/ \E op \in Historical : Activate(op)
  /\ NoFault
  /\ UNCHANGED <<qbittorrent, arr, reconciler, intake, lease, phase, crashes>>

-----------------------------------------------------------------------------
(* Arr and qBittorrent on their own *)

\* A grab, the user's or the Reconciler's, adds its torrent stopped, unless
\* qBittorrent has had it since before the baseline.
ArrGrabs(h) ==
  /\ h \in UserGrabs \/ \E op \in Requested : Target[op] = h /\ attempted[op] = "posted"
  /\ \A i \in DOMAIN history : history[i] # h
  /\ history' = Append(history, h)
  /\ torrent' = [torrent EXCEPT ![h] = IF @ = "absent" THEN "stopped" ELSE @]
  /\ UNCHANGED <<tags, gone>>

\* Once the release is published the row leaves the queue.
ArrForgets(h) ==
  /\ Forgets /\ h \notin gone
  /\ \E op \in Ops : hash[op] = h /\ state[op] = "released"
  /\ gone' = gone \cup {h}
  /\ UNCHANGED <<qbittorrent, history>>

Downloads(h) ==
  /\ torrent[h] = "running"
  /\ torrent' = [torrent EXCEPT ![h] = "seeding"]
  /\ UNCHANGED <<tags, arr>>

ShareLimit(h) ==
  /\ ShareLimits /\ torrent[h] = "seeding"
  /\ torrent' = [torrent EXCEPT ![h] = "complete"]
  /\ UNCHANGED <<tags, arr>>

Environment ==
  /\ \E h \in Hashes : ArrGrabs(h) \/ ArrForgets(h) \/ Downloads(h) \/ ShareLimit(h)
  /\ NoFault
  /\ UNCHANGED <<ledger, reconciler, intake, th, lease, phase, crashes>>

-----------------------------------------------------------------------------
(* Start and stop of the runtime *)

\* The store is loaded, then recover() runs on the startup thread.
Boot ==
  /\ phase = "down" /\ Loadable
  /\ phase' = "boot" /\ StartLoop("tick", "boot", Recoverable)
  /\ UNCHANGED <<ledger, lease, intake, crashes>>

\* Then quiesce(enabled=False).
BootReopen ==
  /\ th["tick"].at = "reopen"
  /\ EndQuiescence \/ (~quiescing /\ UNCHANGED ledger)
  /\ StartLoop("tick", "reopen", {"qbittorrent_paused"})
  /\ UNCHANGED <<phase, lease, intake, crashes>>

\* What threads were doing is lost, what they persisted is not.
Crash ==
  /\ phase # "down" /\ crashes < MaxCrashes
  /\ crashes' = crashes + 1 /\ phase' = "down"
  /\ th' = [t \in Threads |-> Idle] /\ lease' = "free"
  /\ batch' = NoBatch /\ terminals' = {}
  /\ UNCHANGED <<ledger, accepted>>

RuntimeStep ==
  /\ Boot \/ BootReopen \/ Crash
  /\ NoFault /\ UNCHANGED <<qbittorrent, arr, reconciler>>

-----------------------------------------------------------------------------
ThreadStep(t) == Loop(t) \/ Bind(t) \/ Section(t)

Next ==
  \/ \E t \in Threads : ThreadStep(t)
  \/ TickStep
  \/ "pub" \in Threads /\ PublisherStep
  \/ "recon" \in Threads /\ ReconcilerStep
  \/ ContractStep
  \/ Environment
  \/ RuntimeStep

Spec == FenceInit /\ [][Next]_vars
\* The scheduler runs every thread, a stopped runtime is started again, Arr
\* adds what it was asked for and qBittorrent downloads what runs.  Faults are
\* bounded by MaxFaults, so every call is answered in the end.
Fairness ==
  /\ \A t \in Threads : WF_vars(ThreadStep(t))
  /\ WF_vars(TickStep)
  /\ WF_vars("recon" \in Threads /\ ReconcilerStep)
  /\ WF_vars(Environment)
  /\ WF_vars(Boot /\ NoFault /\ UNCHANGED <<qbittorrent, arr, reconciler>>)
  /\ WF_vars(BootReopen /\ NoFault /\ UNCHANGED <<qbittorrent, arr, reconciler>>)

FairSpec == Spec /\ Fairness

-----------------------------------------------------------------------------
(* Properties *)

\* States reached only after the tag intent, and only after a resume intent,
\* was durable.
Tagged == ReservationState \ {"pre_admitted", "grab_bound"}
Resumed == Tagged \ {"tag_intent_recorded", "qbittorrent_stopped"}

FenceTypeOK ==
  /\ LedgerTypeOK
  /\ torrent \in [Hashes -> {"absent", "stopped", "running", "seeding", "complete"}]
  /\ tags \in [Hashes -> SUBSET Ops]
  /\ history \in Seq(Hashes) /\ gone \subseteq Hashes
  /\ attempted \in [Requested -> {"no", "recorded", "posted"}] /\ handed \subseteq Requested
  /\ \A t \in Threads :
       /\ th[t].op \in Ops \cup {"none"} /\ th[t].own \in Ops \cup {"none"}
       /\ \A i \in DOMAIN th[t].todo : th[t].todo[i] \in [Ops -> ReservationState \cup {"none"}]
  /\ lease \in Threads \cup {"free"}
  /\ terminals \subseteq Ops /\ accepted \subseteq Ops
  /\ faults \in 0..MaxFaults /\ crashes \in 0..MaxCrashes

\* "records ownership before tagging": whatever was interrupted, lost or
\* repeated, a torrent never carries the tag of a reservation that has no
\* durable tag intent for that very hash (fence/service.py bind_grab, claim).
TagHasIntent ==
  \A h \in Hashes : \A op \in tags[h] : hash[op] = h /\ state[op] \in Tagged

\* No torrent is ever tagged for two reservations, even when two of them name
\* its hash and two threads bind at once: the second stopped observation,
\* under the lease, decides (service.py 763-771).
SingleOwner == \A h \in Hashes : Cardinality(tags[h]) <= 1

\* "records ownership before resuming": a torrent that runs is owned by one
\* reservation whose resume was durable before qBittorrent was told.
RunHasIntent ==
  \A h \in Hashes : torrent[h] \in {"running", "seeding"} =>
    \E op \in tags[h] : hash[op] = h /\ state[op] \in Resumed

\* Whatever the service has done to a torrent, the ledger knew before.
EffectHasIntent == TagHasIntent /\ RunHasIntent

\* What freeze() promises: "Durably stop one terminal owned hash for a Publisher
\* hardlink copy."  While the ledger says frozen the torrent is stopped.  It is
\* not so: a resume that the Reconciler's recovery had begun can land after it.
FrozenStaysStopped == \A op \in Ops : state[op] = "qbittorrent_frozen" => IsStopped(op)

\* What the guards before each resume are for: it is requested only while what is
\* reserved fits the capacity, also when observed sizes raised it above what was
\* admitted.  It is not so: another thread may raise it after the guard.
ResumeWithinCapacity ==
  [][\A op \in Ops :
       state[op] # "resume_intent_recorded" /\ state'[op] = "resume_intent_recorded"
         => WithinCapacity]_vars

\* The watermark passes a grab only when the grab is owned durably: faults in
\* the middle of a batch, crashes and retries skip nothing (poll_external).
NoGrabSkipped ==
  [][watermark # NoWatermark =>
       \A i \in (watermark + 1)..watermark' :
         \E op \in External : hash[op] = history[i] /\ state[op] \in Tagged]_vars

\* The Reconciler marks a request observed, and never looks at it again, only
\* when the Fence owns its torrent durably: bind_grab never answers yes on a
\* grab that recovery could not find (reconciler/service.py 128-133).
HandedIsOwned == \A op \in handed : state[op] \in Tagged

\* Every user grab after the baseline is adopted, downloaded, handed to the
\* Publisher and released, however calls fail or the runtime stops, and
\* although only MaxInflight of them are admitted at a time.  A tag that was
\* lost after its intent is the one thing that stops it: recovery never repeats it.
TagLost == \E op \in Ops : state[op] = "tag_intent_recorded" /\ ~Owned(op)

Unadopted(h) == \E i \in DOMAIN history : history[i] = h /\ watermark \in 0..(i - 1)

EveryGrabReleased ==
  \A h \in UserGrabs :
    Unadopted(h) ~> (TagLost \/ \E op \in External : hash[op] = h /\ state[op] = "released")

\* What the README promises of a start after a persisted quiescence: the runtime
\* "first recovers the owned work and then reopens it".  It is not so when the
\* recovery meets a torrent that it would resume while the Fence is quiescing.
StartCompletes == phase = "boot" ~> phase = "up"
=============================================================================
