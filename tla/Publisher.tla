----------------------------- MODULE Publisher -----------------------------
(***************************************************************************)
(* The Publisher for one asset slot: the publications of publisher/model.py*)
(* and publisher/service.py, the generation directories, the pointer and   *)
(* the public routes of publisher/generation.py, and the three threads of  *)
(* runtime.py that work on them: the Fence tick offers terminals, the      *)
(* retry thread resumes what is pending and the import thread bootstraps   *)
(* what Arr's history says was imported.                                   *)
(*                                                                         *)
(* Another thread, Jellyfin, Arr or a crash can come in between any two    *)
(* steps: a step is one call that changes a file, one question to another  *)
(* service, or one half of a persist.  A persist clones the publications   *)
(* and changes the clone (Prepare), then saves it and swaps it in          *)
(* (Persist); saving and swapping are one step, so what a restart loads is *)
(* what the threads see.  A persist that begins while another one is       *)
(* between its halves is an overlap; MaxOverlaps bounds them, MaxFaults    *)
(* the calls that fail and MaxCrashes the restarts.                        *)
(*                                                                         *)
(* The bundle of a download is a payload and one sidecar.  The catalog     *)
(* expectation that is persisted just before the notification mark is      *)
(* folded into it: the paths of the catalog do not change here.            *)
(***************************************************************************)
EXTENDS Naturals, Sequences, FiniteSetsExt

CONSTANTS
  Terminals,   \* downloads the Fence offers: their operations are UUIDv4
  History,     \* downloads in the order Arr imports them: history ids, UUIDv5
  Threads,     \* subset of {"tick", "retry", "imports"}
  PageSize,    \* import_reconciliation.max_imports_per_poll
  MaxOverlaps, MaxFaults, MaxCrashes,
  No

Imports == 1 .. Len(History)
Ops == Terminals \union Imports

ASSUME PublisherConstants ==
  /\ Threads \subseteq {"tick", "retry", "imports"} /\ Threads # {}
  /\ PageSize \in Nat \ {0}
  /\ {MaxOverlaps, MaxFaults, MaxCrashes} \subseteq Nat
  /\ Len(History) \in Nat
  /\ No \notin Ops /\ No \notin Threads /\ Terminals \intersect Imports = {}

VARIABLES
  book,      \* the publications, saved and in memory
  gen,       \* the directory of each generation
  visible,   \* the generation behind the private pointer
  route,     \* the generation behind the public payload and sidecar
  catalog,   \* the generation Jellyfin last scanned, and whether it was told
  fence,     \* the Fence's reservation of each terminal
  arr,       \* how far Arr has imported its history
  cursor,    \* the durable import cursor
  gate,      \* holder of publisher_work_lock
  th,        \* what each thread is doing
  overlaps, faults, crashes

files == <<gen, visible, route>>
outside == <<catalog, fence, arr>>
bounds == <<overlaps, faults, crashes>>
vars == <<book, files, outside, cursor, gate, th, bounds>>

States == <<"custody_reserved", "candidate_verified", "generation_intent",
            "catalog_pending", "delivered">>
Absent == [state |-> "none", previous |-> No, notified |-> FALSE, observed |-> FALSE]
Idle == [pc |-> "idle", op |-> No, todo |-> {}, then |-> "none", snap |-> No, upto |-> 0]

PublisherInit ==
  /\ book = [op \in Ops |-> Absent]
  /\ gen = [op \in Ops |-> "absent"]
  /\ visible = No
  /\ route = [payload |-> No, sidecar |-> No]
  /\ catalog = [seen |-> No, told |-> FALSE]
  /\ fence = [op \in Terminals |-> "active"]
  /\ arr = 0 /\ cursor = 0
  /\ gate = No
  /\ th = [t \in Threads |-> Idle]
  /\ overlaps = 0 /\ faults = 0 /\ crashes = 0

-----------------------------------------------------------------------------
(* What the steps look at.                                                 *)

InState(op, s) == book[op].state = s
Committed(op) == book[op].state \in {"catalog_pending", "delivered"}
\* Mutant: a publication that waits for the catalog does not count.
UnresolvedIntentOnly(op) == book[op].state \in {"candidate_verified", "generation_intent"}
Unresolved(op) == book[op].state \notin {"none", "custody_reserved", "delivered"}

Content(op) == IF op \in Imports THEN History[op] ELSE op

\* Exactly one import of the download is in Arr's history.
Identified(d) == Cardinality({i \in 1 .. arr : History[i] = d}) = 1

\* generation_payload finds the renamed payload, whatever the sidecar is called.
HasPayload(g) == g # No /\ gen[g] \in {"halfway", "whole"}

\* A public file may be replaced when it is a file of a generation that still
\* exists, or has the bytes of the one that replaces it.
Replaceable(g, op) == g = No \/ gen[g] # "absent" \/ Content(g) = Content(op)

CanExpose(op) ==
  /\ Replaceable(route.payload, op)
  /\ gen[op] = "whole" => Replaceable(route.sidecar, op)

\* Mutant: a public file that exists is left alone.
ExposeOnce(op) ==
  route' = IF route.payload # No THEN route ELSE [payload |-> op, sidecar |-> op]

Expose(op) ==
  route' = [payload |-> op, sidecar |-> IF gen[op] = "whole" THEN op ELSE route.sidecar]

\* The catalog item and the stream have the size and the digest of the bundle.
Seen(op) == catalog.seen # No /\ Content(catalog.seen) = Content(op)
Plays(op) == route.payload # No /\ Content(route.payload) = Content(op)

-----------------------------------------------------------------------------
(* A thread: what it does next, and what it is told when a call returns.   *)

Stage(s) == CHOOSE i \in 0 .. 5 : IF i = 0 THEN s = "none" ELSE States[i] = s
StagePc == <<"verify", "commit", "publish", "ensure">>

Goes(t, r) == th' = [th EXCEPT ![t] = r]
At(t, pc) == th[t].pc = pc
To(t, pc) == Goes(t, [th[t] EXCEPT !.pc = pc])

\* Mutant: the receipt does not wait for a publication that was accepted.
ReturnAnyway(t, ok) ==
  LET r == [th[t] EXCEPT !.then = "none", !.snap = No] IN
  IF t = "tick"
  THEN gate' = No /\ Goes(t, [r EXCEPT !.pc = "receipt"])
  ELSE Goes(t, [r EXCEPT !.pc = "next", !.op = No]) /\ UNCHANGED gate

\* The processor returned: the tick leaves the gate, and has a receipt when the
\* answer was true; the other two go on to the next operation.
Return(t, ok) ==
  LET r == [th[t] EXCEPT !.then = "none", !.snap = No] IN
  IF t = "tick"
  THEN /\ gate' = No
       /\ Goes(t, IF ok THEN [r EXCEPT !.pc = "receipt"]
                  ELSE [r EXCEPT !.pc = "next", !.op = No])
  ELSE /\ Goes(t, [r EXCEPT !.pc = "next", !.op = No])
       /\ UNCHANGED gate

\* An operation that is not in the publications is a KeyError: it ends the tick
\* and the retry, and an import is passed over.
Unknown(t) ==
  IF t = "imports" THEN Return(t, FALSE) ELSE Goes(t, Idle) /\ gate' = No

\* The processor reads the publication again after each stage and takes the next
\* stage only when the state is the one that stage is for.
Onward(t, done, b) ==
  LET s == Stage(b[th[t].op].state) IN
  IF s = 0 THEN Unknown(t)
  ELSE IF s > done /\ s <= 4
       THEN /\ Goes(t, [th[t] EXCEPT !.pc = StagePc[s], !.then = "none", !.snap = No])
            /\ UNCHANGED gate
       ELSE Return(t, s >= 4)

-----------------------------------------------------------------------------
(* A persist.                                                              *)

Between(t) == th[t].pc = "persist"
Overlaps(t) == \E u \in Threads \ {t} : Between(u)

Prepare(t, r, then) ==
  /\ Overlaps(t) => overlaps < MaxOverlaps
  /\ overlaps' = IF Overlaps(t) THEN overlaps + 1 ELSE overlaps
  /\ Goes(t, [th[t] EXCEPT !.pc = "persist", !.then = then,
                           !.snap = [book EXCEPT ![th[t].op] = r]])

\* A transition whose guard the publication no longer satisfies raises.
Transition(t, s, r, then) ==
  IF InState(th[t].op, s)
  THEN Prepare(t, r, then) /\ UNCHANGED gate
  ELSE Return(t, FALSE) /\ UNCHANGED overlaps

Persist(t) ==
  /\ Between(t)
  /\ book' = th[t].snap
  /\ CASE th[t].then = "accepted" ->
              /\ Goes(t, [th[t] EXCEPT !.pc = "enter", !.then = "none", !.snap = No])
              /\ UNCHANGED gate
       [] th[t].then = "adopted" -> Onward(t, 0, book')
       [] th[t].then = "verified" -> Onward(t, 1, book')
       [] th[t].then = "intended" -> Onward(t, 2, book')
       [] th[t].then = "committed" -> Onward(t, 3, book')
       [] OTHER -> /\ Goes(t, [th[t] EXCEPT !.pc = th[t].then, !.then = "none", !.snap = No])
                   /\ UNCHANGED gate
  /\ UNCHANGED <<files, outside, cursor, bounds>>

-----------------------------------------------------------------------------
(* custody_reserved to candidate_verified: correlate with Arr's import,    *)
(* freeze the torrent the staging file is linked to, verify the bundle.    *)

Freezes(op) ==
  /\ fence[op] \in {"terminal", "frozen"}
  /\ fence' = [fence EXCEPT ![op] = "frozen"]

Verify(t) ==
  LET op == th[t].op IN
  /\ At(t, "verify")
  /\ \/ /\ op \in Terminals /\ Identified(op) /\ Freezes(op)
        /\ Transition(t, "custody_reserved",
                      [book[op] EXCEPT !.state = "candidate_verified"], "verified")
     \/ /\ ~(op \in Terminals /\ Identified(op) /\ fence[op] \in {"terminal", "frozen"})
        /\ Return(t, FALSE)
        /\ UNCHANGED <<fence, overlaps>>
  /\ UNCHANGED <<book, files, catalog, arr, cursor, faults, crashes>>

(* candidate_verified to generation_intent, unless another publication of  *)
(* the slot is under way.  _generation_id accepts version 4 only.          *)

AcceptedPredecessor(op, g) == g = No \/ g \in Terminals \ {op}

\* The check is made on the publications in memory, the clone is taken after it.
Commit(t) ==
  LET op == th[t].op IN
  /\ At(t, "commit")
  /\ IF InState(op, "candidate_verified") /\ \A other \in Ops \ {op} : ~Unresolved(other)
     THEN To(t, "intend") /\ UNCHANGED gate
     ELSE Return(t, FALSE)
  /\ UNCHANGED <<book, files, outside, cursor, bounds>>

RecordIntent(t) ==
  LET op == th[t].op IN
  /\ At(t, "intend")
  /\ IF AcceptedPredecessor(op, visible)
     THEN Transition(t, "candidate_verified",
                     [book[op] EXCEPT !.state = "generation_intent", !.previous = visible],
                     "intended")
     ELSE Return(t, FALSE) /\ UNCHANGED overlaps
  /\ UNCHANGED <<book, files, outside, cursor, faults, crashes>>

-----------------------------------------------------------------------------
(* generation_intent to catalog_pending: AssetGenerationPublisher.publish. *)
(* The pointer is exchanged only when it shows the predecessor that the    *)
(* intent recorded, as the publication was read at the start; a generation *)
(* that is already shown is repaired.                                      *)

\* Mutant: a generation that is already shown is a changed slot.
PublishNoRepair(t) ==
  LET op == th[t].op IN
  /\ At(t, "publish")
  /\ \/ /\ ~InState(op, "generation_intent") \/ visible # book[op].previous
        /\ Onward(t, 3, book) /\ UNCHANGED gen
     \/ /\ InState(op, "generation_intent") /\ visible = book[op].previous
        /\ IF HasPayload(op) THEN To(t, "point") /\ UNCHANGED gen
           ELSE To(t, "payload") /\ gen' = [gen EXCEPT ![op] = "copied"]
        /\ UNCHANGED gate
  /\ UNCHANGED <<book, visible, route, outside, cursor, bounds>>

Publish(t) ==
  LET op == th[t].op IN
  /\ At(t, "publish")
  /\ \/ /\ ~InState(op, "generation_intent") \/ visible \notin {op, book[op].previous}
        /\ Onward(t, 3, book) /\ UNCHANGED gen
     \/ /\ InState(op, "generation_intent") /\ visible = op
        /\ To(t, "expose") /\ UNCHANGED <<gen, gate>>
     \/ /\ InState(op, "generation_intent") /\ visible # op /\ visible = book[op].previous
        /\ IF HasPayload(op) THEN To(t, "point") /\ UNCHANGED gen
           ELSE To(t, "payload") /\ gen' = [gen EXCEPT ![op] = "copied"]
        /\ UNCHANGED gate
  /\ UNCHANGED <<book, visible, route, outside, cursor, bounds>>

\* _normalize_bundle renames the payload, then the sidecars.
Normalize(t) ==
  LET op == th[t].op IN
  /\ \/ At(t, "payload") /\ gen' = [gen EXCEPT ![op] = "halfway"] /\ To(t, "sidecar")
     \/ At(t, "sidecar") /\ gen' = [gen EXCEPT ![op] = "whole"] /\ To(t, "point")
  /\ UNCHANGED <<book, visible, route, outside, cursor, gate, bounds>>

\* The pointer is compared with the same predecessor once more, and only the
\* holder of the gate moves it.
Point(t) ==
  /\ At(t, "point")
  /\ visible' = th[t].op /\ To(t, "expose")
  /\ UNCHANGED <<book, gen, route, outside, cursor, gate, bounds>>

ExposeRoutes(t) ==
  LET op == th[t].op IN
  /\ At(t, "expose")
  /\ IF CanExpose(op) THEN Expose(op) /\ To(t, "seal") /\ UNCHANGED gate
     ELSE Onward(t, 3, book) /\ UNCHANGED route
  /\ UNCHANGED <<book, gen, visible, outside, cursor, bounds>>

MarkCommitted(t) ==
  LET op == th[t].op IN
  /\ At(t, "seal")
  /\ Transition(t, "generation_intent", [book[op] EXCEPT !.state = "catalog_pending"],
                "committed")
  /\ UNCHANGED <<book, files, outside, cursor, faults, crashes>>

-----------------------------------------------------------------------------
(* catalog_pending to delivered: repair the routes, notify Jellyfin once   *)
(* it is recorded that this was attempted, observe the item, play it.      *)

EnsureIdentity(t) ==
  LET op == th[t].op IN
  /\ At(t, "ensure")
  /\ IF HasPayload(op) /\ visible = op /\ CanExpose(op)
     THEN Expose(op) /\ To(t, "notify") /\ UNCHANGED gate
     ELSE Return(t, FALSE) /\ UNCHANGED route
  /\ UNCHANGED <<book, gen, visible, outside, cursor, bounds>>

Notify(t) ==
  LET op == th[t].op IN
  /\ At(t, "notify")
  /\ \/ ~InState(op, "catalog_pending") /\ Return(t, FALSE) /\ UNCHANGED overlaps
     \/ /\ InState(op, "catalog_pending")
        /\ IF book[op].notified
           THEN To(t, IF Seen(op) THEN "found" ELSE "submit") /\ UNCHANGED overlaps
           ELSE Prepare(t, [book[op] EXCEPT !.notified = TRUE], "submit")
        /\ UNCHANGED gate
  /\ UNCHANGED <<book, files, outside, cursor, faults, crashes>>

Submit(t) ==
  /\ At(t, "submit")
  /\ catalog' = [catalog EXCEPT !.told = TRUE]
  /\ To(t, "observe")
  /\ UNCHANGED <<book, files, fence, arr, cursor, gate, bounds>>

\* Mutant: any item at the path will do.
ObserveAny(t) ==
  LET op == th[t].op IN
  /\ At(t, "observe")
  /\ IF catalog.seen # No THEN To(t, "found") /\ UNCHANGED gate ELSE Return(t, Committed(op))
  /\ UNCHANGED <<book, files, outside, cursor, bounds>>

Observe(t) ==
  LET op == th[t].op IN
  /\ At(t, "observe")
  /\ IF Seen(op) THEN To(t, "found") /\ UNCHANGED gate ELSE Return(t, Committed(op))
  /\ UNCHANGED <<book, files, outside, cursor, bounds>>

MarkObserved(t) ==
  LET op == th[t].op IN
  /\ At(t, "found")
  /\ IF InState(op, "catalog_pending") /\ book[op].notified
     THEN Prepare(t, [book[op] EXCEPT !.observed = TRUE], "play") /\ UNCHANGED gate
     ELSE Return(t, FALSE) /\ UNCHANGED overlaps
  /\ UNCHANGED <<book, files, outside, cursor, faults, crashes>>

DirectPlay(t) ==
  /\ At(t, "play")
  /\ IF Plays(th[t].op) THEN To(t, "deliver") /\ UNCHANGED gate
     ELSE Return(t, Committed(th[t].op))
  /\ UNCHANGED <<book, files, outside, cursor, bounds>>

\* Mutant: the predecessor is not forgotten.
MarkDeliveredOnly(t) ==
  LET op == th[t].op IN
  /\ At(t, "deliver")
  /\ IF InState(op, "catalog_pending") /\ book[op].notified /\ book[op].observed
     THEN /\ Prepare(t, [book[op] EXCEPT !.state = "delivered"], "collect")
          /\ UNCHANGED gate
     ELSE Return(t, FALSE) /\ UNCHANGED overlaps
  /\ UNCHANGED <<book, files, outside, cursor, faults, crashes>>

MarkDelivered(t) ==
  LET op == th[t].op IN
  /\ At(t, "deliver")
  /\ IF InState(op, "catalog_pending") /\ book[op].notified /\ book[op].observed
     THEN /\ Prepare(t, [book[op] EXCEPT !.state = "delivered", !.previous = No], "collect")
          /\ UNCHANGED gate
     ELSE Return(t, FALSE) /\ UNCHANGED overlaps
  /\ UNCHANGED <<book, files, outside, cursor, faults, crashes>>

\* Mutant: what is shown is not kept once it is delivered.
RetainedPending ==
  UNION {{op, book[op].previous} :
      op \in {o \in Ops : book[o].state \in {"generation_intent", "catalog_pending"}}}

\* Generations and predecessors of what is not delivered stay, and what is shown.
Retained ==
  {visible} \union UNION {{op, book[op].previous} :
      op \in {o \in Ops : book[o].state \in {"generation_intent", "catalog_pending"}}}

GarbageCollect(t) ==
  /\ At(t, "collect")
  /\ gen' = [g \in Ops |-> IF g \in Retained THEN gen[g] ELSE "absent"]
  /\ Onward(t, 4, book)
  /\ UNCHANGED <<book, visible, route, outside, cursor, bounds>>

-----------------------------------------------------------------------------
(* The Fence tick: pending terminals are offered one after the other; the  *)
(* custody is accepted before the gate is taken.                           *)

Offered == {op \in Terminals : fence[op] \in {"terminal", "frozen"}}

Tick ==
  /\ At("tick", "idle") /\ Offered # {}
  /\ Goes("tick", [Idle EXCEPT !.pc = "next", !.todo = Offered])
  /\ UNCHANGED <<book, files, outside, cursor, gate, bounds>>

\* A terminal that is known already is held as it is.
Hold(op) ==
  IF book[op].state # "none" THEN book
  ELSE [book EXCEPT ![op] = [Absent EXCEPT !.state = "custody_reserved"]]

AcceptTerminal ==
  /\ At("tick", "next")
  /\ \/ /\ th["tick"].todo = {}
        /\ Goes("tick", Idle)
        /\ UNCHANGED overlaps
     \/ \E op \in th["tick"].todo :
          /\ Overlaps("tick") => overlaps < MaxOverlaps
          /\ overlaps' = IF Overlaps("tick") THEN overlaps + 1 ELSE overlaps
          /\ Goes("tick", [th["tick"] EXCEPT !.pc = "persist", !.op = op, !.todo = @ \ {op},
                     !.then = "accepted", !.snap = Hold(op)])
  /\ UNCHANGED <<book, files, outside, cursor, gate, faults, crashes>>

Enter ==
  /\ At("tick", "enter") /\ gate = No
  /\ gate' = "tick"
  /\ To("tick", "look")
  /\ UNCHANGED <<book, files, outside, cursor, bounds>>

Look(t) ==
  /\ At(t, "look")
  /\ Onward(t, 0, book)
  /\ UNCHANGED <<book, files, outside, cursor, bounds>>

\* The receipt that process() allows releases the torrent.
Receipt ==
  /\ At("tick", "receipt")
  /\ fence' = [fence EXCEPT ![th["tick"].op] = "released"]
  /\ Goes("tick", [th["tick"] EXCEPT !.pc = "next", !.op = No])
  /\ UNCHANGED <<book, files, catalog, arr, cursor, gate, bounds>>

-----------------------------------------------------------------------------
(* The retry thread: every publication once, under the gate.               *)

Pending == {op \in Ops : book[op].state \notin {"none", "delivered"}}

StartRetry ==
  /\ At("retry", "idle") /\ gate = No /\ Pending # {}
  /\ gate' = "retry"
  /\ Goes("retry", [Idle EXCEPT !.pc = "next", !.todo = Pending])
  /\ UNCHANGED <<book, files, outside, cursor, bounds>>

RetryNext ==
  /\ At("retry", "next")
  /\ \/ th["retry"].todo = {} /\ Goes("retry", Idle) /\ gate' = No
     \/ /\ \E op \in th["retry"].todo :
             Goes("retry", [th["retry"] EXCEPT !.pc = "look", !.op = op, !.todo = @ \ {op}])
        /\ UNCHANGED gate
  /\ UNCHANGED <<book, files, outside, cursor, bounds>>

-----------------------------------------------------------------------------
(* The import thread: a page of the history behind the cursor, oldest      *)
(* first; the cursor moves to the end of the page when it has been tried.  *)

Page == {i \in cursor + 1 .. arr : i <= cursor + PageSize}

StartImports ==
  /\ At("imports", "idle") /\ gate = No /\ Page # {}
  /\ gate' = "imports"
  /\ Goes("imports", [Idle EXCEPT !.pc = "next", !.todo = Page, !.upto = Max(Page)])
  /\ UNCHANGED <<book, files, outside, cursor, bounds>>

Oldest(S) == {i \in S : \A j \in S : i <= j}

Adopt(i) ==
  IF book[i].state # "none" THEN book
  ELSE [book EXCEPT ![i] = [Absent EXCEPT !.state = "candidate_verified"]]

\* Mutant: an import that cannot be identified ends the pass.
BootstrapOrStop ==
  /\ At("imports", "next")
  /\ \E i \in Oldest(th["imports"].todo) :
       IF Identified(History[i])
       THEN /\ Goes("imports", [th["imports"] EXCEPT !.pc = "persist", !.op = i, !.todo = @ \ {i},
                       !.then = "adopted", !.snap = Adopt(i)])
            /\ UNCHANGED gate
       ELSE Goes("imports", Idle) /\ gate' = No
  /\ UNCHANGED <<book, files, outside, cursor, bounds>>

\* An import that cannot be identified is passed over.
Bootstrap ==
  /\ At("imports", "next")
  /\ \E i \in Oldest(th["imports"].todo) :
       LET rest == [th["imports"] EXCEPT !.todo = @ \ {i}] IN
       IF Identified(History[i])
       THEN /\ Overlaps("imports") => overlaps < MaxOverlaps
            /\ overlaps' = IF Overlaps("imports") THEN overlaps + 1 ELSE overlaps
            /\ Goes("imports", [rest EXCEPT !.pc = "persist", !.op = i, !.then = "adopted",
                                            !.snap = Adopt(i)])
       ELSE Goes("imports", rest) /\ UNCHANGED overlaps
  /\ UNCHANGED <<book, files, outside, cursor, gate, faults, crashes>>

SaveCursor ==
  /\ At("imports", "next") /\ th["imports"].todo = {}
  /\ cursor' = th["imports"].upto
  /\ gate' = No
  /\ Goes("imports", Idle)
  /\ UNCHANGED <<book, files, outside, bounds>>

-----------------------------------------------------------------------------
(* Faults, Jellyfin, the Fence's transfers, Arr, and a restart.            *)

\* A call of the step fails: an exception that the processor catches, or a
\* persist that does not reach the disk.  What had been sent stays sent.
Fails(t) ==
  /\ faults < MaxFaults
  /\ faults' = faults + 1
  /\ th[t].pc \notin {"idle", "next", "enter", "look", "receipt"}
  /\ IF th[t].then = "accepted"
     THEN Goes(t, [Idle EXCEPT !.pc = "next", !.todo = th[t].todo]) /\ UNCHANGED gate
     ELSE Return(t, th[t].pc \in {"submit", "observe", "play"} /\ Committed(th[t].op))
  /\ UNCHANGED <<book, files, outside, cursor, overlaps, crashes>>

JellyfinScans ==
  /\ catalog.told
  /\ catalog' = [seen |-> route.payload, told |-> FALSE]
  /\ UNCHANGED <<book, files, fence, arr, cursor, gate, th, bounds>>

TransferEnds(op) ==
  /\ fence[op] = "active"
  /\ fence' = [fence EXCEPT ![op] = "terminal"]
  /\ UNCHANGED <<book, files, catalog, arr, cursor, gate, th, bounds>>

ArrImports ==
  /\ arr < Len(History)
  /\ History[arr + 1] \in Terminals => fence[History[arr + 1]] # "active"
  /\ arr' = arr + 1
  /\ UNCHANGED <<book, files, catalog, fence, cursor, gate, th, bounds>>

Crash ==
  /\ crashes < MaxCrashes
  /\ crashes' = crashes + 1
  /\ \E t \in Threads : th[t] # Idle
  /\ th' = [t \in Threads |-> Idle] /\ gate' = No
  /\ UNCHANGED <<book, files, outside, cursor, overlaps, faults>>

Work(t) ==
  \/ Persist(t) \/ Look(t) \/ Verify(t) \/ Commit(t) \/ RecordIntent(t)
  \/ Publish(t) \/ Normalize(t) \/ Point(t) \/ ExposeRoutes(t) \/ MarkCommitted(t)
  \/ EnsureIdentity(t) \/ Notify(t) \/ Submit(t) \/ Observe(t) \/ MarkObserved(t)
  \/ DirectPlay(t) \/ MarkDelivered(t) \/ GarbageCollect(t)

TickStep == Tick \/ AcceptTerminal \/ Enter \/ Receipt
RetryStep == StartRetry \/ RetryNext
ImportStep == StartImports \/ Bootstrap \/ SaveCursor

Step(t) ==
  \/ Work(t)
  \/ t = "tick" /\ TickStep
  \/ t = "retry" /\ RetryStep
  \/ t = "imports" /\ ImportStep

World == JellyfinScans \/ ArrImports \/ \E op \in Terminals : TransferEnds(op)

PublisherNext ==
  \/ \E t \in Threads : Step(t) \/ Fails(t)
  \/ World \/ Crash

\* Each thread runs its passes for ever, and gets the gate when it waits for it:
\* the others leave it for at least a second between two passes.  Jellyfin scans
\* what it was told and Arr imports what is complete.
Spec ==
  /\ PublisherInit /\ [][PublisherNext]_vars
  /\ \A t \in Threads : SF_vars(Step(t))
  /\ WF_vars(World)

-----------------------------------------------------------------------------
(* Types.  A record holds what from_records accepts.                       *)

Records == [state : {States[i] : i \in 1 .. 5} \union {"none"},
            previous : Ops \union {No}, notified : BOOLEAN, observed : BOOLEAN]

RecordValid(op) ==
  LET r == book[op] IN
  /\ r \in Records
  /\ r.previous # No => r.state \in {"generation_intent", "catalog_pending"}
  /\ r.previous # No => r.previous \in Terminals \ {op}
  /\ r.observed => r.notified
  /\ r.state = "delivered" => r.observed

PublisherTypeOK ==
  /\ \A op \in Ops : RecordValid(op)
  /\ gen \in [Ops -> {"absent", "copied", "halfway", "whole"}]
  /\ visible \in Ops \union {No}
  /\ route \in [payload : Ops \union {No}, sidecar : Ops \union {No}]
  /\ catalog \in [seen : Ops \union {No}, told : BOOLEAN]
  /\ fence \in [Terminals -> {"active", "terminal", "frozen", "released"}]
  /\ gate \in Threads \union {No}
  /\ cursor <= arr /\ arr <= Len(History)

-----------------------------------------------------------------------------
(* The slot keeps what Slot promises.                                      *)
Promise == INSTANCE Slot WITH
  Generations <- Ops, NoGeneration <- No,
  sealed <- {g \in Ops : HasPayload(g)}

\* A player of the asset always has a complete generation, whatever fails, stops
\* or runs at once: publish() and garbage_collect() implement the slot.
KeepsSlotPromise == Promise!SlotSpec

\* While no persists overlap, the receipt that lets the Fence drop the torrent is
\* given only when its copy is the generation that is shown, or was delivered before
\* a later one.
ReleasedIsServed ==
  [][\A op \in Terminals :
       fence'[op] = "released" /\ fence[op] # "released" /\ overlaps = 0 =>
         visible = op \/ InState(op, "delivered")]_vars

\* Delivered means that the asset plays that generation: while no persists overlap,
\* it is behind the pointer, the public file and the catalog item when the record
\* says so.
DeliveredIsServed ==
  [][\A op \in Ops :
       book'[op].state = "delivered" /\ ~InState(op, "delivered") /\ overlaps = 0 =>
         visible = op /\ Plays(op) /\ Seen(op)]_vars

\* The public file is the one of the generation behind the pointer as soon as that
\* generation's publication is committed, and keeps to it.
RouteFollowsPointer ==
  \A op \in Ops : Committed(op) /\ visible = op => Plays(op)

\* The generation that an upgrade replaces is complete on disk.
PredecessorKept ==
  \A op \in Ops : book[op].previous # No => HasPayload(book[op].previous)

\* No two generations of the asset are on their way to the catalog, the tick's accepts
\* and the retries of the other threads being serialized as the documentation says.
OneUnderWay ==
  \A op, other \in Ops :
    {book[op].state, book[other].state} \subseteq {"generation_intent", "catalog_pending"}
      => op = other

\* While no persists overlap, an upgrade can be gone back on until it is delivered,
\* and only one is under way.
UpgradeReversible == overlaps = 0 => PredecessorKept /\ OneUnderWay

\* An identified terminal is delivered in the end, unless two verified
\* publications of the asset wait for each other or the asset shows an import.
Contended == \E op, other \in Ops : op # other
  /\ InState(op, "candidate_verified") /\ InState(other, "candidate_verified")
EveryTerminalDelivered ==
  \A op \in Terminals :
    fence[op] # "active" /\ Identified(op)
      ~> InState(op, "delivered") \/ Contended \/ visible \in Imports

\* The import thread gets to the end of what Arr has imported, over any number of
\* restarts, and what it passed is in the publications, as the import's own or as the
\* one of the download that the Fence offered: unless a call failed for it, Arr's
\* identity of it is ambiguous, or an overlapping persist dropped it.
Accounted(i) == \E op \in {i, History[i]} \intersect Ops : ~InState(op, "none")
EveryImportAccounted ==
  \A i \in Imports :
    arr >= i ~>
      /\ cursor >= i
      /\ overlaps = 0 /\ faults = 0 /\ Identified(History[i]) => Accounted(i)

\* What is delivered already gets no publication of its import.
PublishedIsLeftAlone ==
  [][\A i \in Imports :
       History[i] \in Terminals /\ InState(History[i], "delivered") /\ InState(i, "none")
         => book'[i].state = "none"]_vars
=============================================================================
