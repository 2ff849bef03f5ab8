--------------------------- MODULE UpgradesProofs ---------------------------
(***************************************************************************)
(* What holds of the requests the Reconciler records and posts and of the  *)
(* searches it makes for them, for every set of entities and operations,   *)
(* every policy, and any number of failed calls and restarts.              *)
(*                                                                         *)
(* Three invariants build on each other: that of the requests, that of the *)
(* schedule, and that of the searches, which counts for every file the     *)
(* searches that are recorded, open, lost or owed.                         *)
(***************************************************************************)
EXTENDS Upgrades, FiniteSetTheorems, TLAPS

Request ==
  [entity : Entities \union {No}, gen : Nat, terminal : BOOLEAN, again : BOOLEAN,
   attempted : BOOLEAN, observed : BOOLEAN]
Places ==
  {"idle", "recover", "inventory", "sync", "next", "search", "count", "client", "admit",
   "attempt", "post", "observe", "bind", "mark", "complete"}
Thread ==
  [pc : Places, todo : SUBSET Ops, files : {<<>>} \union [Entities -> Nat],
   due : Seq(Entities), entity : Entities \union {No}, op : Ops \union {No},
   answer : {"none", "new", "again"}, fresh : BOOLEAN, searched : Nat, grabs : Nat]

Types ==
  /\ age \in [Entities -> Nat] /\ file \in [Entities -> Nat]
  /\ intent \in [Ops -> Request]
  /\ fence \in [Ops -> {"none", "reserved", "active", "taken", "gone", "done"}]
  /\ arr \in [Ops -> {"none", "posted", "grabbed", "left", "twice"}]
  /\ rec \in Thread
  /\ rec.due # <<>> \/ rec.entity # No => rec.files \in [Entities -> Nat]

\* What was not attempted is neither in Arr nor bound, and the thread posts what it has
\* just marked and nothing else.
Posts ==
  /\ \A op \in Ops : ~intent[op].attempted => arr[op] = "none" /\ fence[op] \in {"none", "reserved"}
  /\ rec.pc \in {"admit", "attempt", "post", "observe", "bind", "mark"} => rec.op \in Ops
  /\ rec.pc \in {"admit", "attempt"} => ~intent[rec.op].attempted
  /\ rec.pc \in {"post", "observe", "bind", "mark"} => intent[rec.op].attempted
  /\ rec.pc = "post" => arr[rec.op] = "none" /\ fence[rec.op] \in {"none", "reserved"}

\* What the run still has to search has no request, and is on its list once.
Awaits ==
  /\ \A i \in DOMAIN rec.due : rec.due[i] \notin Pending
  /\ \A i, j \in DOMAIN rec.due : rec.due[i] = rec.due[j] => i = j
  /\ rec.pc \in {"search", "count", "client"} =>
       /\ rec.entity \in Entities /\ rec.entity \notin Pending
       /\ \A i \in DOMAIN rec.due : rec.due[i] # rec.entity

UpgradesInv == Types /\ Posts /\ GrabbedOnce /\ Awaits /\ OneRequestPerEntity

-----------------------------------------------------------------------------
(* The steps.                                                              *)

\* _recover_intent ends: the thread goes on, and what it has to search stays the same.
LEMMA HandedIs ==
  ASSUME rec \in Thread, NEW b \in BOOLEAN, Handed(b)
  PROVE  /\ rec' \in Thread /\ rec'.pc \in {"recover", "complete", "next"}
         /\ rec'.due = rec.due /\ rec'.files = rec.files
         /\ rec'.entity = rec.entity \/ rec'.entity = No
<1>1. CASE ~rec.fresh
  BY <1>1 DEF Handed, Thread, Places, No
<1>2. CASE rec.fresh /\ b
  BY <1>2 DEF Handed, Thread, Places, No
<1>3. CASE rec.fresh /\ ~b
  BY <1>3 DEF Handed, Thread, Places, No
<1> QED BY <1>1, <1>2, <1>3 DEF Thread

\* A step to another place takes everything along.
LEMMA ToIs ==
  ASSUME rec \in Thread, NEW pc \in Places, To(pc)
  PROVE  /\ rec' \in Thread /\ rec'.pc = pc /\ rec'.op = rec.op
         /\ rec'.due = rec.due /\ rec'.files = rec.files /\ rec'.entity = rec.entity
BY DEF To, Thread

\* An idle thread has nothing in its hand.
LEMMA IdleIs ==
  /\ Idle \in Thread /\ Idle.pc = "idle" /\ Idle.due = <<>> /\ Idle.entity = No
  /\ Idle.files = <<>>
<1>1. <<>> \in Seq(Entities)
  OBVIOUS
<1> QED BY <1>1 DEF Idle, Thread, Places, No

\* The order of a run lists every entity that is due once.
LEMMA FairOrderIs ==
  ASSUME Types, NEW due \in FairOrder(DueNow)
  PROVE  /\ due \in Seq(Entities)
         /\ \A i \in DOMAIN due : due[i] \in DueNow
         /\ \A i, j \in DOMAIN due : due[i] = due[j] => i = j
<1> DEFINE n == Cardinality(DueNow)
<1>1. DueNow \subseteq Entities
  <2>1. rec.files \in {<<>>} \union [Entities -> Nat]
    BY DEF Types, Thread
  <2>2. DOMAIN rec.files \subseteq Entities
    BY <2>1
  <2> QED BY <2>2 DEF DueNow
<1>2. n \in Nat
  BY <1>1, FS_Subset, FS_CardinalityType, UpgradesConstants
<1>3. due \in [1 .. n -> DueNow]
  BY DEF FairOrder
<1>4. \A i, j \in DOMAIN due : i < j => due[i] # due[j]
  BY DEF FairOrder
<1> HIDE DEF n
<1>5. due \in [1 .. n -> Entities]
  BY <1>1, <1>3
<1>6. due \in Seq(Entities)
  BY <1>2, <1>5
<1>7. \A i \in DOMAIN due : i \in Int /\ due[i] \in DueNow
  BY <1>2, <1>3
<1>8. ASSUME NEW i \in DOMAIN due, NEW j \in DOMAIN due, due[i] = due[j] PROVE i = j
  <2>1. i < j \/ j < i \/ i = j
    BY <1>7
  <2> QED BY <1>4, <1>8, <2>1
<1> QED BY <1>6, <1>7, <1>8

\* A due list of entities that are listed is empty where nothing is.
LEMMA NothingListed ==
  ASSUME Types, NEW due \in FairOrder(DueNow), due # <<>> PROVE rec.files \in [Entities -> Nat]
<1>1. rec.files \in {<<>>} \union [Entities -> Nat]
  BY DEF Types, Thread
<1>2. CASE rec.files = <<>>
  <2>1. DueNow = {}
    BY <1>2 DEF DueNow
  <2>2. \A i \in DOMAIN due : FALSE
    BY <2>1, FairOrderIs
  <2>3. due \in Seq(Entities)
    BY FairOrderIs
  <2>4. due = <<>>
    <3>1. DOMAIN due = 1 .. Len(due) /\ Len(due) \in Nat
      BY <2>3
    <3>2. Len(due) = 0
      BY <2>2, <3>1
    <3> QED BY <2>3, <3>2
  <2> QED BY <2>4
<1> QED BY <1>1, <1>2

\* Every step of the thread leaves it where it can be.
LEMMA ThreadTyped ==
  ASSUME Types, UpgradesNext
  PROVE  /\ rec' \in Thread
         /\ rec'.due # <<>> \/ rec'.entity # No => rec'.files \in [Entities -> Nat]
<1> DEFINE Listed == rec'.due # <<>> \/ rec'.entity # No => rec'.files \in [Entities -> Nat]
<1>1. rec \in Thread /\ (rec.due # <<>> \/ rec.entity # No => rec.files \in [Entities -> Nat])
  BY DEF Types
<1>2. CASE UNCHANGED rec
  BY <1>1, <1>2
<1>3. CASE rec' = Idle
  BY <1>3, IdleIs
<1>4. ASSUME NEW b \in BOOLEAN, Handed(b) PROVE rec' \in Thread /\ Listed
  BY <1>1, <1>4, HandedIs
<1>5. ASSUME NEW pc \in Places, To(pc) PROVE rec' \in Thread /\ Listed
  BY <1>1, <1>5, ToIs
<1>6. CASE StartRun
  BY <1>6, IdleIs DEF StartRun, Thread, Places
<1>7. CASE RecoverNext
  <2>1. CASE To("inventory")
    BY <1>5, <2>1 DEF Places
  <2>2. CASE \E op \in Least(rec.todo) :
               rec' = [rec EXCEPT !.todo = @ \ {op}, !.op = op,
                                  !.pc = IF intent[op].attempted THEN "observe" ELSE "admit"]
    <3>1. PICK op \in rec.todo :
               rec' = [rec EXCEPT !.todo = @ \ {op}, !.op = op,
                                  !.pc = IF intent[op].attempted THEN "observe" ELSE "admit"]
      BY <2>2 DEF Least
    <3>2. op \in Ops
      BY <1>1 DEF Thread
    <3> QED BY <1>1, <3>1, <3>2 DEF Thread, Places
  <2> QED BY <1>7, <2>1, <2>2 DEF RecoverNext
<1>8. CASE Inventory
  <2>1. CASE rec' = [rec EXCEPT !.pc = "sync", !.files = file]
    BY <1>1, <2>1 DEF Types, Thread, Places
  <2> QED BY <1>5, <1>8, <2>1 DEF Inventory, Places
<1>9. CASE SyncCompleted
  <2>1. ASSUME NEW due \in FairOrder(DueNow), rec' = [rec EXCEPT !.pc = "next", !.due = due]
        PROVE  rec' \in Thread /\ Listed
    <3>1. due \in Seq(Entities)
      BY FairOrderIs
    <3>2. due # <<>> => rec.files \in [Entities -> Nat]
      BY NothingListed
    <3> QED BY <1>1, <2>1, <3>1, <3>2 DEF Thread, Places
  <2> QED BY <1>2, <1>9, <2>1 DEF SyncCompleted
<1>10. CASE NextEntity
  <2>1. CASE rec.due # <<>>
    <3>1. rec.due \in Seq(Entities) /\ rec.files \in [Entities -> Nat]
      BY <1>1, <2>1 DEF Thread
    <3>2. Tail(rec.due) \in Seq(Entities) /\ Head(rec.due) \in Entities
      BY <2>1, <3>1
    <3>3. \/ rec' = [rec EXCEPT !.pc = "search", !.due = Tail(rec.due), !.entity = Head(rec.due)]
          \/ rec' = [rec EXCEPT !.due = Tail(rec.due)]
      BY <1>10, <2>1 DEF NextEntity
    <3> QED BY <1>1, <3>1, <3>2, <3>3 DEF Thread, Places
  <2> QED BY <1>3, <1>10, <2>1 DEF NextEntity
<1>11. CASE ApprovedRelease
  <2>1. CASE \E answer \in {"none", "new", "again"} :
               rec' = [rec EXCEPT !.pc = "count", !.answer = answer]
    BY <1>1, <2>1 DEF Thread, Places
  <2>2. CASE rec' = [rec EXCEPT !.pc = "next", !.entity = No]
    BY <1>1, <2>2 DEF Thread, Places, No
  <2> QED BY <1>11, <2>1, <2>2 DEF ApprovedRelease
<1>12. CASE CountSearch
  <2>1. /\ rec.searched + 1 \in Nat
        /\ (IF rec.answer = "none" THEN rec.grabs ELSE rec.grabs + 1) \in Nat
        /\ (IF rec.answer = "none" THEN "complete" ELSE "client") \in Places
    BY <1>1 DEF Thread, Places
  <2>2. rec' = [rec EXCEPT !.searched = rec.searched + 1,
                           !.grabs = IF rec.answer = "none" THEN rec.grabs ELSE rec.grabs + 1,
                           !.pc = IF rec.answer = "none" THEN "complete" ELSE "client"]
    BY <1>12 DEF CountSearch
  <2> QED BY <1>1, <2>1, <2>2 DEF Thread
<1>13. CASE RecordIntent
  <2>1. ASSUME NEW op \in Least(Spare),
               rec' = [rec EXCEPT !.pc = "admit", !.op = op, !.fresh = TRUE]
        PROVE  rec' \in Thread /\ Listed
    <3>1. op \in Ops
      BY DEF Least, Spare
    <3> QED BY <1>1, <2>1, <3>1 DEF Thread, Places
  <2>2. CASE rec' = [rec EXCEPT !.pc = "next", !.entity = No]
    BY <1>1, <2>2 DEF Thread, Places, No
  <2> QED BY <1>13, <2>1, <2>2 DEF RecordIntent
<1>14. CASE CompleteSearch
  <2>1. rec' = [rec EXCEPT !.pc = "next", !.op = No, !.entity = No, !.fresh = FALSE]
    BY <1>14 DEF CompleteSearch
  <2> QED BY <1>1, <2>1 DEF Thread, Places, No
<1>15. CASE Admit \/ MarkAttempted \/ GrabRelease \/ ObserveGrab \/ BindGrab \/ MarkObserved
  <2>1. \/ \E pc \in Places : To(pc)
        \/ \E b \in BOOLEAN : Handed(b)
    BY <1>15
       DEF Admit, MarkAttempted, GrabRelease, ObserveGrab, BindGrab, MarkObserved, Places
  <2> QED BY <1>4, <1>5, <2>1
<1>16. CASE RecordCandidateInvalidated \/ Pass \/ Crash
  BY <1>2, <1>3, <1>16 DEF RecordCandidateInvalidated, Pass, Crash
<1>17. CASE \E op \in Ops : GiveUp(op) \/ IntakeTakes(op) \/ ArrGrabs(op) \/ Import(op)
  BY <1>2, <1>17 DEF GiveUp, IntakeTakes, ArrGrabs, Import
<1> QED
  BY <1>6, <1>7, <1>8, <1>9, <1>10, <1>11, <1>12, <1>13, <1>14, <1>15, <1>16, <1>17
     DEF UpgradesNext, ReconcilerStep

\* A request is recorded, attempted or settled, and keeps its entity.
LEMMA RequestsTyped ==
  ASSUME UpgradesInv, UpgradesNext
  PROVE  /\ intent' \in [Ops -> Request]
         /\ fence' \in [Ops -> {"none", "reserved", "active", "taken", "gone", "done"}]
         /\ arr' \in [Ops -> {"none", "posted", "grabbed", "left", "twice"}]
<1>1. Types /\ Posts
  BY DEF UpgradesInv
<1>2. CASE UNCHANGED <<intent, fence, arr>>
  BY <1>1, <1>2 DEF Types
<1>3. CASE RecordIntent /\ ~UNCHANGED <<intent, fence, arr>>
  <2>1. rec.entity \in Entities /\ rec \in Thread /\ rec.files \in [Entities -> Nat]
    <3>1. rec.pc = "client"
      BY <1>3 DEF RecordIntent, At
    <3>2. rec.entity \in Entities
      BY <3>1 DEF UpgradesInv, Awaits
    <3> QED BY <1>1, <3>2, UpgradesConstants DEF Types, No
  <2>2. PICK op \in Ops :
          /\ intent' = [intent EXCEPT ![op] =
               [entity |-> rec.entity, gen |-> rec.files[rec.entity],
                terminal |-> age[rec.entity] >= Horizon, again |-> rec.answer = "again",
                attempted |-> FALSE, observed |-> FALSE]]
          /\ fence' = [fence EXCEPT ![op] = "none"] /\ arr' = [arr EXCEPT ![op] = "none"]
    BY <1>3 DEF RecordIntent, Least, Spare
  <2> DEFINE t == age[rec.entity] >= Horizon
             a == rec.answer = "again"
             r == [entity |-> rec.entity, gen |-> rec.files[rec.entity],
                   terminal |-> t, again |-> a, attempted |-> FALSE, observed |-> FALSE]
  <2>3. t \in BOOLEAN /\ a \in BOOLEAN
    BY <2>1, <1>1, UpgradesConstants DEF Types
  <2>4. r \in Request
    <3> HIDE DEF t, a
    <3> QED BY <2>1, <2>3 DEF Request
  <2>5. intent' = [intent EXCEPT ![op] = r]
    BY <2>2
  <2> HIDE DEF r
  <2> QED BY ZenonT(40), <1>1, <2>2, <2>4, <2>5 DEF Types
<1>4. CASE MarkAttempted \/ MarkObserved
  <2>1. rec.op \in Ops /\ UNCHANGED <<fence, arr>>
    BY <1>1, <1>4 DEF MarkAttempted, MarkObserved, At, Posts
  <2>2. \/ intent' = [intent EXCEPT ![rec.op].attempted = TRUE]
        \/ intent' = [intent EXCEPT ![rec.op].observed = TRUE]
    BY <1>4 DEF MarkAttempted, MarkObserved
  <2>3. intent' \in [Ops -> Request]
    <3>1. intent[rec.op] \in Request
      BY <1>1, <2>1 DEF Types
    <3>2. PICK r \in Request : intent' = [intent EXCEPT ![rec.op] = r]
      BY <2>2, <3>1 DEF Request
    <3> QED BY <1>1, <2>1, <3>2 DEF Types
  <2> QED BY <1>1, <2>1, <2>3 DEF Types
<1>5. CASE Admit \/ GrabRelease \/ BindGrab
  <2>1. rec.op \in Ops /\ UNCHANGED intent
    BY <1>1, <1>5 DEF Admit, GrabRelease, BindGrab, At, Posts
  <2>2. CASE Admit
    BY ZenonT(40), <1>1, <2>1, <2>2 DEF Types, Admit
  <2>3. CASE GrabRelease
    BY <1>1, <2>1, <2>3 DEF Types, GrabRelease
  <2>4. CASE BindGrab
    BY <1>1, <2>1, <2>4 DEF Types, BindGrab
  <2> QED BY <1>5, <2>2, <2>3, <2>4
<1>6. CASE \E op \in Ops : GiveUp(op) \/ IntakeTakes(op) \/ ArrGrabs(op) \/ Import(op)
  BY <1>1, <1>6 DEF Types, GiveUp, IntakeTakes, ArrGrabs, Import
<1> QED
  BY <1>2, <1>3, <1>4, <1>5, <1>6
     DEF UpgradesNext, ReconcilerStep, StartRun, RecoverNext, Inventory, SyncCompleted,
         NextEntity, ApprovedRelease, CountSearch, CompleteSearch, ObserveGrab,
         RecordCandidateInvalidated, Pass, Crash

\* Every step keeps the types.
LEMMA TypesNext == ASSUME UpgradesInv, UpgradesNext PROVE Types'
<1>1. Types
  BY DEF UpgradesInv
<1>2. age' \in [Entities -> Nat] /\ file' \in [Entities -> Nat]
  <2>1. CASE UNCHANGED <<age, file>>
    BY <1>1, <2>1 DEF Types
  <2>2. CASE Pass
    BY <1>1, <2>2 DEF Types, Pass
  <2>3. ASSUME NEW op \in Ops, Import(op) PROVE age' \in [Entities -> Nat] /\ file' \in [Entities -> Nat]
    <3>1. age' = age /\ file' = [file EXCEPT ![intent[op].entity] = file[intent[op].entity] + 1]
      BY <2>3 DEF Import
    <3>2. \A e \in Entities : file[e] + 1 \in Nat
      BY <1>1 DEF Types
    <3> QED BY <1>1, <3>1, <3>2 DEF Types
  <2> QED
    BY <2>1, <2>2, <2>3
       DEF UpgradesNext, ReconcilerStep, StartRun, RecoverNext, Inventory, SyncCompleted,
           NextEntity, ApprovedRelease, CountSearch, CompleteSearch, ObserveGrab, RecordIntent,
           RecordCandidateInvalidated, Crash, Admit, MarkAttempted, GrabRelease, BindGrab,
           MarkObserved, GiveUp, IntakeTakes, ArrGrabs
<1>3. rec' \in Thread /\ (rec'.due # <<>> \/ rec'.entity # No => rec'.files \in [Entities -> Nat])
  BY <1>1, ThreadTyped
<1> QED BY <1>2, <1>3, RequestsTyped DEF Types

-----------------------------------------------------------------------------
(* A request is posted once.                                               *)

\* Where the requests, the Fence and Arr stay as they are, only the place of the thread
\* matters.
LEMMA PostsOfPlace ==
  ASSUME Posts, GrabbedOnce, UNCHANGED <<intent, fence, arr>>,
         rec' = rec \/ rec'.pc \notin {"admit", "attempt", "post", "observe", "bind", "mark"}
  PROVE  Posts' /\ GrabbedOnce'
BY DEF Posts, GrabbedOnce

\* The end of _recover_intent is no step of the handoff.
LEMMA PostsOfHanded ==
  ASSUME Types, Posts, GrabbedOnce, NEW b \in BOOLEAN, Handed(b),
         \A op \in Ops : /\ arr'[op] # "twice"
                         /\ ~intent'[op].attempted =>
                              arr'[op] = "none" /\ fence'[op] \in {"none", "reserved"}
  PROVE  Posts' /\ GrabbedOnce'
<1>1. rec'.pc \in {"recover", "complete", "next"}
  BY HandedIs DEF Types
<1> QED BY <1>1 DEF Posts, GrabbedOnce

\* The steps of a handoff keep what holds of the posts.
LEMMA PostsOfHandoff ==
  ASSUME Types, Posts, GrabbedOnce,
         Admit \/ MarkAttempted \/ GrabRelease \/ ObserveGrab \/ BindGrab \/ MarkObserved
  PROVE  Posts' /\ GrabbedOnce'
<1> USE DEF Types
<1>1. rec \in Thread /\ rec.op \in Ops
  BY DEF Posts, Admit, MarkAttempted, GrabRelease, ObserveGrab, BindGrab, MarkObserved, At
<1>2. CASE Admit
  <2>1. /\ ~intent[rec.op].attempted /\ fence[rec.op] \in {"none", "reserved"}
        /\ UNCHANGED <<intent, arr>>
    BY <1>1, <1>2 DEF Posts, Admit, At
  <2>2. PICK f \in {"none", "reserved"} : fence' = [fence EXCEPT ![rec.op] = f]
    BY <1>2, <2>1 DEF Admit
  <2>3. \A op \in Ops : /\ arr'[op] # "twice"
                        /\ ~intent'[op].attempted =>
                             arr'[op] = "none" /\ fence'[op] \in {"none", "reserved"}
    BY <1>1, <2>1, <2>2 DEF Posts, GrabbedOnce
  <2>4. CASE To("attempt")
    <3>1. rec'.pc = "attempt" /\ rec'.op = rec.op
      BY <1>1, <2>4, ToIs DEF Places
    <3> QED BY <1>1, <2>1, <2>3, <3>1 DEF Posts, GrabbedOnce
  <2> QED BY <1>2, <2>3, <2>4, PostsOfHanded DEF Admit
<1>3. CASE MarkAttempted
  <2>1. rec.pc = "attempt" /\ UNCHANGED <<fence, arr>>
    BY <1>3 DEF MarkAttempted, At
  <2>2. arr[rec.op] = "none" /\ fence[rec.op] \in {"none", "reserved"}
    BY <1>1, <2>1 DEF Posts
  <2>3. \A op \in Ops : intent'[op].attempted = (op = rec.op \/ intent[op].attempted)
    BY <1>1, <1>3 DEF MarkAttempted, Request
  <2>4. rec'.pc = "post" /\ rec'.op = rec.op
    BY <1>1, <1>3, ToIs DEF MarkAttempted, Places
  <2> QED BY <1>1, <2>1, <2>2, <2>3, <2>4 DEF Posts, GrabbedOnce
<1>4. CASE GrabRelease
  <2>1. rec.pc = "post" /\ UNCHANGED <<intent, fence>>
    BY <1>4 DEF GrabRelease, At
  <2>2. arr[rec.op] = "none" /\ intent[rec.op].attempted
    BY <1>1, <2>1 DEF Posts
  <2>3. arr' = arr \/ arr' = [arr EXCEPT ![rec.op] = "posted"]
    BY <1>4, <2>2 DEF GrabRelease
  <2>4. rec'.pc = "observe" /\ rec'.op = rec.op
    BY <1>1, <1>4, ToIs DEF GrabRelease, Places
  <2> QED BY <1>1, <2>1, <2>2, <2>3, <2>4 DEF Posts, GrabbedOnce
<1>5. CASE ObserveGrab
  <2>1. rec.pc = "observe" /\ UNCHANGED <<intent, fence, arr>>
    BY <1>5 DEF ObserveGrab, At
  <2>2. CASE To("bind")
    <3>1. rec'.pc = "bind" /\ rec'.op = rec.op
      BY <1>1, <2>2, ToIs DEF Places
    <3> QED BY <1>1, <2>1, <3>1 DEF Posts, GrabbedOnce
  <2>3. CASE Handed(FALSE)
    BY <2>1, <2>3, PostsOfHanded DEF Posts, GrabbedOnce
  <2> QED BY <1>5, <2>2, <2>3 DEF ObserveGrab
<1>6. CASE BindGrab
  <2>1. rec.pc = "bind" /\ UNCHANGED <<intent, arr>>
    BY <1>6 DEF BindGrab, At
  <2>2. intent[rec.op].attempted
    BY <2>1 DEF Posts
  <2>3. \A op \in Ops : op # rec.op => fence'[op] = fence[op]
    BY <1>6 DEF BindGrab
  <2>4. \A op \in Ops : /\ arr'[op] # "twice"
                        /\ ~intent'[op].attempted =>
                             arr'[op] = "none" /\ fence'[op] \in {"none", "reserved"}
    BY <1>1, <2>1, <2>2, <2>3 DEF Posts, GrabbedOnce
  <2>5. CASE To("mark")
    <3>1. rec'.pc = "mark" /\ rec'.op = rec.op
      BY <1>1, <2>5, ToIs DEF Places
    <3> QED BY <1>1, <2>1, <2>2, <2>4, <3>1 DEF Posts, GrabbedOnce
  <2>6. CASE Handed(FALSE)
    BY <2>4, <2>6, PostsOfHanded
  <2> QED BY <1>6, <2>5, <2>6 DEF BindGrab
<1>7. CASE MarkObserved
  <2>1. UNCHANGED <<fence, arr>> /\ Handed(TRUE)
    BY <1>7 DEF MarkObserved
  <2>2. \A op \in Ops : intent'[op].attempted = intent[op].attempted
    BY <1>1, <1>7 DEF MarkObserved, Request
  <2>3. \A op \in Ops : /\ arr'[op] # "twice"
                        /\ ~intent'[op].attempted =>
                             arr'[op] = "none" /\ fence'[op] \in {"none", "reserved"}
    BY <2>1, <2>2 DEF Posts, GrabbedOnce
  <2> QED BY <2>1, <2>3, PostsOfHanded
<1> QED BY <1>2, <1>3, <1>4, <1>5, <1>6, <1>7

\* Every step keeps what holds of the posts.
LEMMA PostsNext ==
  ASSUME Types, Posts, GrabbedOnce, UpgradesNext
  PROVE  Posts' /\ GrabbedOnce'
<1>1. rec \in Thread
  BY DEF Types
<1>2. CASE \/ StartRun \/ Inventory \/ SyncCompleted \/ NextEntity \/ ApprovedRelease
           \/ CountSearch \/ CompleteSearch \/ RecordCandidateInvalidated \/ Pass \/ Crash
  <2>1. UNCHANGED <<intent, fence, arr>>
    BY <1>2
       DEF StartRun, Inventory, SyncCompleted, NextEntity, ApprovedRelease, CountSearch,
           CompleteSearch, RecordCandidateInvalidated, Pass, Crash
  <2>2. rec' = rec \/ rec'.pc \notin {"admit", "attempt", "post", "observe", "bind", "mark"}
    <3>1. CASE StartRun \/ Crash
      BY <3>1, IdleIs DEF StartRun, Crash, Thread
    <3>6. CASE NextEntity
      <4>1. rec.pc = "next"
        BY <3>6 DEF NextEntity, At
      <4>2. rec' = Idle \/ rec'.pc = "search" \/ rec'.pc = "next"
        BY <1>1, <3>6, <4>1 DEF NextEntity, Thread
      <4> QED BY <4>2, IdleIs
    <3>2. CASE Inventory \/ SyncCompleted \/ ApprovedRelease
      BY <1>1, <3>2 DEF Inventory, SyncCompleted, ApprovedRelease, To, Thread
    <3>3. CASE CountSearch
      BY <1>1, <3>3 DEF CountSearch, Thread
    <3>4. CASE CompleteSearch
      BY <1>1, <3>4 DEF CompleteSearch, Thread
    <3>5. CASE RecordCandidateInvalidated \/ Pass
      BY <3>5 DEF RecordCandidateInvalidated, Pass
    <3> QED BY <1>2, <3>1, <3>2, <3>3, <3>4, <3>5, <3>6
  <2> QED BY <2>1, <2>2, PostsOfPlace
<1>3. CASE RecoverNext
  <2>1. UNCHANGED <<intent, fence, arr>>
    BY <1>3 DEF RecoverNext
  <2>2. CASE To("inventory")
    <3>1. rec'.pc = "inventory"
      BY <1>1, <2>2, ToIs DEF Places
    <3> QED BY <2>1, <3>1, PostsOfPlace
  <2>3. ASSUME NEW op \in rec.todo,
               rec' = [rec EXCEPT !.todo = @ \ {op}, !.op = op,
                                  !.pc = IF intent[op].attempted THEN "observe" ELSE "admit"]
        PROVE  Posts' /\ GrabbedOnce'
    <3>1. /\ op \in Ops /\ rec'.op = op
          /\ rec'.pc = IF intent[op].attempted THEN "observe" ELSE "admit"
      BY <1>1, <2>3 DEF Thread
    <3> QED BY <2>1, <3>1 DEF Posts, GrabbedOnce
  <2> QED BY <1>3, <2>2, <2>3 DEF RecoverNext, Least
<1>4. CASE RecordIntent
  <2>1. ASSUME NEW op \in Ops,
               intent' = [intent EXCEPT ![op] =
                 [entity |-> rec.entity, gen |-> rec.files[rec.entity],
                  terminal |-> age[rec.entity] >= Horizon, again |-> rec.answer = "again",
                  attempted |-> FALSE, observed |-> FALSE]],
               fence' = [fence EXCEPT ![op] = "none"], arr' = [arr EXCEPT ![op] = "none"],
               rec' = [rec EXCEPT !.pc = "admit", !.op = op, !.fresh = TRUE]
        PROVE  Posts' /\ GrabbedOnce'
    <3>1. intent'[op].attempted = FALSE /\ \A o \in Ops : o # op => intent'[o] = intent[o]
      BY <2>1 DEF Types
    <3>2. rec'.pc = "admit" /\ rec'.op = op
      BY <1>1, <2>1 DEF Thread
    <3>3. \A o \in Ops : /\ arr'[o] = IF o = op THEN "none" ELSE arr[o]
                         /\ fence'[o] = IF o = op THEN "none" ELSE fence[o]
      BY <2>1 DEF Types
    <3> QED BY <3>1, <3>2, <3>3 DEF Posts, GrabbedOnce
  <2>2. CASE rec' = [rec EXCEPT !.pc = "next", !.entity = No] /\ UNCHANGED <<intent, fence, arr>>
    <3>1. rec'.pc = "next"
      BY <1>1, <2>2 DEF Thread
    <3> QED BY <2>2, <3>1, PostsOfPlace
  <2> QED BY <1>4, <2>1, <2>2 DEF RecordIntent, Least, Spare
<1>5. ASSUME NEW op \in Ops, GiveUp(op) \/ IntakeTakes(op) \/ ArrGrabs(op) \/ Import(op)
      PROVE  Posts' /\ GrabbedOnce'
  <2>1. UNCHANGED <<intent, rec>> /\ intent[op].attempted
    <3>1. arr[op] \in {"posted", "grabbed"} \/ fence[op] = "active"
      BY <1>5 DEF GiveUp, IntakeTakes, ArrGrabs, Import, Transfers
    <3>2. intent[op].attempted
      BY <3>1 DEF Posts
    <3> QED BY <1>5, <3>2 DEF GiveUp, IntakeTakes, ArrGrabs, Import
  <2>2. \A o \in Ops : o # op => arr'[o] = arr[o] /\ fence'[o] = fence[o]
    BY <1>5 DEF GiveUp, IntakeTakes, ArrGrabs, Import, Types
  <2>3. arr'[op] # "twice" /\ ~(rec.pc = "post" /\ rec.op = op)
    BY <1>5 DEF GiveUp, IntakeTakes, ArrGrabs, Import, Transfers, Posts, GrabbedOnce, Types
  <2> QED BY <2>1, <2>2, <2>3 DEF Posts, GrabbedOnce
<1> QED
  BY <1>2, <1>3, <1>4, <1>5, PostsOfHandoff DEF UpgradesNext, ReconcilerStep

-----------------------------------------------------------------------------
(* An entity has one request.                                              *)

\* Where no request is recorded, one request stays one, and no entity gets one.
LEMMA PendingShrinks ==
  ASSUME Types, OneRequestPerEntity,
         \A op \in Ops : Requested(op)' => Requested(op) /\ intent'[op].entity = intent[op].entity
  PROVE  OneRequestPerEntity' /\ Pending' \subseteq Pending
BY DEF OneRequestPerEntity, Pending

\* Every step but RecordIntent records no request.
LEMMA RequestsStay ==
  ASSUME Types, Posts, UpgradesNext, ~RecordIntent
  PROVE  \A op \in Ops :
           Requested(op)' => Requested(op) /\ intent'[op].entity = intent[op].entity
<1>1. CASE UNCHANGED intent
  BY <1>1 DEF Requested
<1>2. CASE MarkAttempted
  <2>1. rec.op \in Ops
    BY <1>2 DEF Posts, MarkAttempted, At
  <2>2. \A op \in Ops : /\ intent'[op].entity = intent[op].entity
                        /\ intent'[op].observed = intent[op].observed
    BY <1>2, <2>1 DEF MarkAttempted, Types, Request
  <2> QED BY <2>2 DEF Requested
<1>3. CASE MarkObserved
  <2>1. rec.op \in Ops
    BY <1>3 DEF Posts, MarkObserved, At
  <2>2. \A op \in Ops : /\ intent'[op].entity = intent[op].entity
                        /\ intent[op].observed => intent'[op].observed
    BY <1>3, <2>1 DEF MarkObserved, Types, Request
  <2> QED BY <2>2 DEF Requested
<1> QED
  BY <1>1, <1>2, <1>3
     DEF UpgradesNext, ReconcilerStep, StartRun, RecoverNext, Inventory, SyncCompleted,
         NextEntity, ApprovedRelease, CountSearch, CompleteSearch, Admit, GrabRelease,
         ObserveGrab, BindGrab, RecordCandidateInvalidated, GiveUp, IntakeTakes, ArrGrabs, Import, Pass, Crash

\* While no request is recorded, the list of the run and the entity at hand stay free.
LEMMA AwaitsOfSame ==
  ASSUME Awaits, Pending' \subseteq Pending, rec'.due = rec.due,
         rec'.pc \in {"search", "count", "client"} =>
           rec.pc \in {"search", "count", "client"} /\ rec'.entity = rec.entity
  PROVE  Awaits'
BY DEF Awaits

\* Nothing awaits a thread that has no list.
LEMMA AwaitsOfNone ==
  ASSUME rec'.due = <<>>, rec'.pc \notin {"search", "count", "client"} PROVE Awaits'
<1>1. DOMAIN rec'.due = {}
  OBVIOUS
<1> QED BY <1>1 DEF Awaits

\* The run takes the first entity of its list.
LEMMA AwaitsOfNext ==
  ASSUME Types, Awaits, NextEntity PROVE Awaits'
<1>1. rec \in Thread /\ rec.due \in Seq(Entities) /\ rec.pc = "next" /\ Pending' = Pending
  BY DEF Types, Thread, NextEntity, At, Pending, Requested
<1>2. CASE rec.due = <<>>
  <2>1. rec' = Idle
    BY <1>2 DEF NextEntity
  <2> QED BY <2>1, IdleIs, AwaitsOfNone
<1>3. CASE rec.due # <<>>
  <2> DEFINE due == rec.due
  <2>1. /\ rec'.due = Tail(due)
        /\ rec'.pc \in {"search", "next"}
        /\ rec'.pc = "search" => rec'.entity = Head(due)
    BY <1>1, <1>3 DEF NextEntity, Thread
  <2>2. /\ Len(due) \in Nat \ {0} /\ DOMAIN due = 1 .. Len(due)
        /\ Head(due) = due[1] /\ 1 \in DOMAIN due
        /\ DOMAIN Tail(due) = 1 .. Len(due) - 1
        /\ \A i \in 1 .. Len(due) - 1 : Tail(due)[i] = due[i + 1] /\ i + 1 \in DOMAIN due
    BY <1>1, <1>3
  <2>3. /\ \A i \in DOMAIN due : due[i] \in Entities /\ due[i] \notin Pending
        /\ \A i, j \in DOMAIN due : due[i] = due[j] => i = j
    BY <1>1 DEF Awaits
  <2>4. ASSUME NEW i \in DOMAIN Tail(due)
        PROVE  i \in Int /\ Tail(due)[i] \notin Pending /\ Tail(due)[i] # Head(due)
    <3>1. i \in 1 .. Len(due) - 1 /\ i \in Int /\ i + 1 # 1
      BY <2>2
    <3>2. Tail(due)[i] = due[i + 1] /\ i + 1 \in DOMAIN due
      BY <2>2, <3>1
    <3> QED BY <2>2, <2>3, <3>1, <3>2
  <2>5. ASSUME NEW i \in DOMAIN Tail(due), NEW j \in DOMAIN Tail(due),
               Tail(due)[i] = Tail(due)[j]
        PROVE  i = j
    <3>1. i \in 1 .. Len(due) - 1 /\ j \in 1 .. Len(due) - 1
      BY <2>2
    <3>2. i + 1 = j + 1
      BY <2>2, <2>3, <2>5, <3>1
    <3> QED BY <3>1, <3>2
  <2>6. Head(due) \in Entities /\ Head(due) \notin Pending
    BY <2>2, <2>3
  <2> HIDE DEF due
  <2> QED BY <1>1, <2>1, <2>4, <2>5, <2>6 DEF Awaits
<1> QED BY <1>2, <1>3

\* A run starts from the entities that are due now.
LEMMA AwaitsOfSync ==
  ASSUME Types, Awaits, SyncCompleted PROVE Awaits'
<1>1. rec \in Thread /\ Pending' = Pending
  <2>1. UNCHANGED intent
    BY DEF SyncCompleted
  <2> QED BY <2>1 DEF Types, Pending, Requested
<1>2. CASE UNCHANGED rec
  BY <1>1, <1>2, AwaitsOfSame
<1>3. ASSUME NEW due \in FairOrder(DueNow), rec' = [rec EXCEPT !.pc = "next", !.due = due]
      PROVE  Awaits'
  <2>1. rec'.pc = "next" /\ rec'.due = due
    BY <1>1, <1>3 DEF Thread
  <2>2. /\ \A i \in DOMAIN due : due[i] \notin Pending
        /\ \A i, j \in DOMAIN due : due[i] = due[j] => i = j
    BY FairOrderIs DEF DueNow
  <2> QED BY <1>1, <2>1, <2>2 DEF Awaits
<1> QED BY <1>2, <1>3 DEF SyncCompleted

\* The request that is recorded is the only one of its entity, and no other entity on the
\* list gets one.
LEMMA RecordedAlone ==
  ASSUME Types, Awaits, OneRequestPerEntity, RecordIntent
  PROVE  Awaits' /\ OneRequestPerEntity'
<1>1. /\ rec \in Thread /\ rec.pc = "client"
      /\ rec.entity \notin Pending /\ \A i \in DOMAIN rec.due : rec.due[i] # rec.entity
  BY DEF Types, Awaits, RecordIntent, At
<1>2. ASSUME NEW op \in Spare, NEW r,
             r.entity = rec.entity, r.observed = FALSE,
             intent' = [intent EXCEPT ![op] = r],
             rec' = [rec EXCEPT !.pc = "admit", !.op = op, !.fresh = TRUE]
      PROVE  Awaits' /\ OneRequestPerEntity'
  <2>1. op \in Ops /\ intent'[op] = r /\ \A o \in Ops : o # op => intent'[o] = intent[o]
    BY <1>2 DEF Types, Spare
  <2>2. \A o \in Ops : Requested(o)' => o = op \/ (Requested(o) /\ intent'[o] = intent[o])
    BY <2>1 DEF Requested
  <2>3. \A o \in Ops : Requested(o) => intent[o].entity # rec.entity
    BY <1>1 DEF Pending
  <2>4. OneRequestPerEntity'
    BY <1>2, <2>1, <2>2, <2>3 DEF OneRequestPerEntity
  <2>5. Pending' \subseteq Pending \union {rec.entity}
    BY <1>2, <2>1, <2>2 DEF Pending
  <2>6. rec'.due = rec.due /\ rec'.pc = "admit"
    BY <1>1, <1>2 DEF Thread
  <2> QED BY <1>1, <2>4, <2>5, <2>6 DEF Awaits
<1>3. CASE rec' = [rec EXCEPT !.pc = "next", !.entity = No] /\ UNCHANGED intent
  <2>1. rec'.due = rec.due /\ rec'.pc = "next"
    BY <1>1, <1>3 DEF Thread
  <2>2. Pending' = Pending /\ (OneRequestPerEntity' <=> OneRequestPerEntity)
    BY <1>3 DEF Pending, OneRequestPerEntity, Requested
  <2> QED BY <2>1, <2>2, AwaitsOfSame
<1> QED
  <2>1. ASSUME NEW op \in Least(Spare),
               intent' = [intent EXCEPT ![op] =
                 [entity |-> rec.entity, gen |-> rec.files[rec.entity],
                  terminal |-> age[rec.entity] >= Horizon, again |-> rec.answer = "again",
                  attempted |-> FALSE, observed |-> FALSE]],
               rec' = [rec EXCEPT !.pc = "admit", !.op = op, !.fresh = TRUE]
        PROVE  Awaits' /\ OneRequestPerEntity'
    <3> DEFINE r == [entity |-> rec.entity, gen |-> rec.files[rec.entity],
                     terminal |-> age[rec.entity] >= Horizon, again |-> rec.answer = "again",
                     attempted |-> FALSE, observed |-> FALSE]
    <3>1. r.entity = rec.entity /\ r.observed = FALSE /\ intent' = [intent EXCEPT ![op] = r]
      BY <2>1
    <3>2. op \in Spare
      BY DEF Least
    <3> HIDE DEF r
    <3> QED BY <1>2, <2>1, <3>1, <3>2
  <2> QED BY <1>3, <2>1 DEF RecordIntent

\* Every step keeps what holds of the list.
LEMMA AwaitsNext ==
  ASSUME UpgradesInv, UpgradesNext PROVE Awaits' /\ OneRequestPerEntity'
<1>1. Types /\ Posts /\ Awaits /\ OneRequestPerEntity /\ rec \in Thread
  BY DEF UpgradesInv, Types
<1>2. CASE RecordIntent
  BY <1>1, <1>2, RecordedAlone
<1>3. CASE ~RecordIntent
  <2>1. OneRequestPerEntity' /\ Pending' \subseteq Pending
    BY <1>1, <1>3, RequestsStay, PendingShrinks
  <2> DEFINE Same ==
        /\ rec'.due = rec.due
        /\ rec'.pc \in {"search", "count", "client"} =>
             rec.pc \in {"search", "count", "client"} /\ rec'.entity = rec.entity
  <2>2. CASE Same
    BY <1>1, <2>1, <2>2, AwaitsOfSame
  <2>3. CASE StartRun
    <3>1. rec'.due = <<>> /\ rec'.pc = "recover"
      BY <2>3, IdleIs DEF StartRun, Thread
    <3> QED BY <2>1, <3>1, AwaitsOfNone
  <2>4. CASE Crash
    BY <2>1, <2>4, IdleIs, AwaitsOfNone DEF Crash
  <2>5. CASE NextEntity
    BY <1>1, <2>1, <2>5, AwaitsOfNext
  <2>6. CASE SyncCompleted
    BY <1>1, <2>1, <2>6, AwaitsOfSync
  <2>7. CASE RecoverNext \/ Inventory \/ CompleteSearch
    <3>1. Same
      <4>1. CASE RecoverNext
        BY <1>1, <4>1 DEF RecoverNext, To, Thread
      <4>2. CASE Inventory
        BY <1>1, <4>2 DEF Inventory, To, Thread
      <4>3. CASE CompleteSearch
        BY <1>1, <4>3 DEF CompleteSearch, Thread
      <4> QED BY <2>7, <4>1, <4>2, <4>3
    <3> QED BY <2>2, <3>1
  <2>8. CASE ApprovedRelease \/ CountSearch
    <3>1. rec.pc \in {"search", "count"}
      BY <2>8 DEF ApprovedRelease, CountSearch, At
    <3>2. rec'.due = rec.due /\ (rec'.entity = rec.entity \/ rec'.pc = "next")
      <4>1. CASE ApprovedRelease
        BY <1>1, <4>1 DEF ApprovedRelease, Thread
      <4>2. CASE CountSearch
        BY <1>1, <4>2 DEF CountSearch, Thread
      <4> QED BY <2>8, <4>1, <4>2
    <3> QED BY <2>2, <3>1, <3>2
  <2>9. CASE Admit \/ MarkAttempted \/ GrabRelease \/ ObserveGrab \/ BindGrab \/ MarkObserved
    <3>1. \/ \E pc \in Places \ {"search", "count", "client"} : To(pc)
          \/ \E b \in BOOLEAN : Handed(b)
      BY <2>9
         DEF Admit, MarkAttempted, GrabRelease, ObserveGrab, BindGrab, MarkObserved, Places
    <3>2. ASSUME NEW pc \in Places \ {"search", "count", "client"}, To(pc) PROVE Same
      BY <1>1, <3>2, ToIs
    <3>3. ASSUME NEW b \in BOOLEAN, Handed(b) PROVE Same
      BY <1>1, <3>3, HandedIs
    <3> QED BY <2>2, <3>1, <3>2, <3>3
  <2>10. CASE \/ RecordCandidateInvalidated \/ Pass
              \/ \E op \in Ops : GiveUp(op) \/ IntakeTakes(op) \/ ArrGrabs(op) \/ Import(op)
    <3>1. UNCHANGED rec
      BY <2>10 DEF RecordCandidateInvalidated, Pass, GiveUp, IntakeTakes, ArrGrabs, Import
    <3> QED BY <2>2, <3>1
  <2> QED
    BY <1>3, <2>3, <2>4, <2>5, <2>6, <2>7, <2>8, <2>9, <2>10 DEF UpgradesNext, ReconcilerStep
<1> QED BY <1>2, <1>3

-----------------------------------------------------------------------------
\* The initial state has the invariant.
LEMMA UpgradesInvInit == ASSUME UpgradesInit PROVE UpgradesInv
<1>1. /\ intent = [op \in Ops |-> NoIntent] /\ NoIntent \in Request
      /\ fence = [op \in Ops |-> "none"] /\ arr = [op \in Ops |-> "none"] /\ rec = Idle
  BY DEF UpgradesInit, NoIntent, Request, No
<1>2. \A op \in Ops : ~Requested(op)
  BY <1>1 DEF Requested, NoIntent
<1>3. Types
  <2>1. age \in [Entities -> Nat] /\ file \in [Entities -> Nat]
    BY UpgradesConstants DEF UpgradesInit
  <2> QED BY <1>1, <2>1, IdleIs DEF Types
<1>4. Posts /\ GrabbedOnce
  BY <1>1, IdleIs DEF Posts, GrabbedOnce
<1>5. Awaits
  <2>1. DOMAIN rec.due = {}
    BY <1>1, IdleIs
  <2> QED BY <1>1, <2>1, IdleIs DEF Awaits
<1>6. OneRequestPerEntity
  BY <1>2 DEF OneRequestPerEntity
<1> QED BY <1>3, <1>4, <1>5, <1>6 DEF UpgradesInv

\* The invariant of the requests holds in every behaviour.
LEMMA UpgradesInvHolds == Spec => []UpgradesInv
<1>1. UpgradesInv /\ [UpgradesNext]_vars => UpgradesInv'
  <2> SUFFICES ASSUME UpgradesInv, [UpgradesNext]_vars PROVE UpgradesInv'
    OBVIOUS
  <2>1. CASE UpgradesNext
    <3>1. Types'
      BY <2>1, TypesNext
    <3>2. Posts' /\ GrabbedOnce'
      BY <2>1, PostsNext DEF UpgradesInv
    <3> QED BY <2>1, <3>1, <3>2, AwaitsNext DEF UpgradesInv
  <2>2. CASE UNCHANGED vars
    BY <2>2 DEF vars, UpgradesInv, Types, Posts, GrabbedOnce, Awaits, Pending, Requested,
                OneRequestPerEntity
  <2> QED BY <2>1, <2>2
<1> QED BY <1>1, UpgradesInvInit, PTL DEF Spec

\* A release is posted to Arr once: the attempt is on record before the call, and what is
\* on record as attempted is only looked for, by this run and by every one after a restart.
THEOREM ReleaseIsGrabbedOnce == Spec => []GrabbedOnce
BY UpgradesInvHolds, PTL DEF UpgradesInv

\* No entity is ever searched, in this run or after a restart, while a request for it is
\* unsettled: two of them would fetch it twice.
THEOREM EntityIsRequestedOnce == Spec => []OneRequestPerEntity
BY UpgradesInvHolds, PTL DEF UpgradesInv

-----------------------------------------------------------------------------
(* Waits and what is left of the hour.                                     *)

\* Induction on the natural numbers: a set of counterexamples has a least one.
LEMMA SmallestNumber ==
  ASSUME NEW C, C \subseteq Nat, C # {} PROVE \E n \in C : \A m \in C : n <= m
<1>1. PICK n \in C : \A m \in C : <<m, n>> \notin OpToRel(<, Nat)
  BY NatLessThanWellFounded, WFMin
<1>2. ASSUME NEW m \in C PROVE n <= m
  <2>1. m \in Nat /\ n \in Nat /\ <<m, n>> \in Nat \X Nat
    OBVIOUS
  <2>2. ~(m < n)
    BY <1>1, <2>1 DEF OpToRel
  <2> QED BY <2>1, <2>2
<1> QED BY <1>2

\* The function that Grown defines, for one exponent.
IsGrown(g, base, factor, n) ==
  g = [k \in 0 .. n |-> IF k = 0 THEN base ELSE g[k - 1] * factor]

\* There is such a function for every exponent, and what grows from a number is one.
LEMMA GrownIsNat ==
  ASSUME NEW base \in Nat, NEW factor \in Nat, NEW n \in Nat
  PROVE  Grown(base, factor, n) \in Nat
<1> DEFINE Is(g, k) == IsGrown(g, base, factor, k)
           C == {k \in Nat : ~ \E g : Is(g, k)}
<1>1. ASSUME C # {} PROVE FALSE
  <2>1. PICK k \in C : \A m \in C : k <= m
    <3>1. C \subseteq Nat
      OBVIOUS
    <3> HIDE DEF C
    <3> QED BY <1>1, <3>1, SmallestNumber
  <2>2. k \in Nat
    OBVIOUS
  <2>3. CASE k = 0
    <3>1. Is([i \in 0 .. 0 |-> base], 0)
      BY DEF IsGrown
    <3> QED BY <2>3, <3>1
  <2>4. CASE k # 0
    <3>1. k - 1 \notin C /\ k - 1 \in Nat
      <4> HIDE DEF C
      <4> QED BY <2>1, <2>2, <2>4
    <3>2. PICK g : Is(g, k - 1)
      BY <3>1
    <3>3. Is([i \in 0 .. k |-> IF i = k THEN g[k - 1] * factor ELSE g[i]], k)
      BY <2>2, <2>4, <3>2 DEF IsGrown
    <3> QED BY <3>3
  <2> QED BY <2>3, <2>4
<1> DEFINE g == CHOOSE g : Is(g, n)
<1>2. Is(g, n)
  BY <1>1
<1>3. Grown(base, factor, n) = g[n]
  BY DEF Grown, IsGrown
<1> HIDE DEF g
<1> DEFINE D == {k \in 0 .. n : g[k] \notin Nat}
<1>4. ASSUME D # {} PROVE FALSE
  <2>1. PICK k \in D : \A m \in D : k <= m
    <3>1. D \subseteq Nat
      OBVIOUS
    <3> HIDE DEF D
    <3> QED BY <1>4, <3>1, SmallestNumber
  <2>2. g[k] = IF k = 0 THEN base ELSE g[k - 1] * factor
    BY <1>2 DEF IsGrown
  <2>3. k # 0 => g[k - 1] \in Nat
    BY <2>1
  <2> QED BY <2>1, <2>2, <2>3
<1> QED BY <1>3, <1>4

\* Cooldowns and delays are numbers no longer than their caps.
LEMMA DelaysAreWaits ==
  ASSUME NEW n \in Nat \ {0}
  PROVE  /\ Cooldown(n) \in Nat /\ (CooldownCap # 0 => Cooldown(n) <= CooldownCap)
         /\ RetryDelay(n) \in 0 .. RetryCap /\ ReplaceDelay(n) \in 0 .. ReplaceCap
<1>1. n - 1 \in Nat
  OBVIOUS
<1>2. ASSUME NEW base \in Nat, NEW factor \in Nat, NEW k \in Nat, NEW cap \in Nat
      PROVE  /\ Capped(Grown(base, factor, k), cap) \in Nat
             /\ cap # 0 => Capped(Grown(base, factor, k), cap) <= cap
  BY GrownIsNat DEF Capped
<1>3. /\ {CooldownBase, CooldownFactor, CooldownCap, RetryBase, RetryFactor, RetryCap,
          ReplaceBase, ReplaceFactor, ReplaceCap} \subseteq Nat
      /\ RetryCap # 0 /\ ReplaceCap # 0
  BY UpgradesConstants
<1>4. Cooldown(n) \in Nat /\ (CooldownCap # 0 => Cooldown(n) <= CooldownCap)
  BY <1>1, <1>2, <1>3 DEF Cooldown
<1>5. RetryDelay(n) \in Nat /\ RetryDelay(n) <= RetryCap
  BY <1>1, <1>2, <1>3 DEF RetryDelay
<1>6. ReplaceDelay(n) \in Nat /\ ReplaceDelay(n) <= ReplaceCap
  BY <1>2, <1>3 DEF ReplaceDelay
<1> QED BY <1>3, <1>4, <1>5, <1>6

\* The events that more than h is left of.
Left(s, h) == {i \in DOMAIN s : s[i] > h}
One(p) == IF p THEN 1 ELSE 0

\* What is left of a list of events can be counted.
LEMMA LeftIsFinite ==
  ASSUME NEW s \in Seq(Int), NEW h PROVE IsFiniteSet(Left(s, h)) /\ Cardinality(Left(s, h)) \in Nat
<1>1. Left(s, h) \subseteq 1 .. Len(s) /\ Len(s) \in Nat
  BY DEF Left
<1>2. IsFiniteSet(1 .. Len(s))
  BY <1>1, FS_Interval
<1> QED BY <1>1, <1>2, FS_Subset, FS_CardinalityType

\* An event more is counted while more than h is left of it.
LEMMA LeftOfAppend ==
  ASSUME NEW s \in Seq(Int), NEW x \in Int, NEW h \in Int
  PROVE  Cardinality(Left(Append(s, x), h)) = Cardinality(Left(s, h)) + One(x > h)
<1> DEFINE n == Len(s) + 1
<1>1. /\ DOMAIN Append(s, x) = 1 .. n /\ DOMAIN s = 1 .. n - 1 /\ n \in Nat
      /\ \A i \in 1 .. n - 1 : Append(s, x)[i] = s[i]
      /\ Append(s, x)[n] = x
  OBVIOUS
<1>2. n \notin Left(s, h)
  BY <1>1 DEF Left
<1>3. Left(Append(s, x), h) = IF x > h THEN Left(s, h) \union {n} ELSE Left(s, h)
  <2> HIDE DEF n
  <2>1. ASSUME NEW i \in 1 .. n PROVE i = n \/ i \in 1 .. n - 1
    BY <1>1
  <2> QED BY <1>1, <2>1 DEF Left
<1>4. Cardinality(Left(s, h) \union {n}) = Cardinality(Left(s, h)) + 1
  BY <1>2, LeftIsFinite, FS_AddElement
<1>5. Cardinality(Left(s, h)) \in Nat
  BY LeftIsFinite
<1> HIDE DEF n
<1> QED BY <1>3, <1>4, <1>5 DEF One

\* The function that Shift defines, for one length.
IsKept(g, s, n) ==
  g = [k \in 0 .. n |-> IF k = 0 THEN <<>>
                        ELSE IF s[k] > 1 THEN Append(g[k - 1], s[k] - 1) ELSE g[k - 1]]

\* A unit later there are as many events that more than h is left of as there were that
\* more than h + 1 was left of.
LEMMA ShiftIs ==
  ASSUME NEW m \in Nat, NEW s \in Seq(1 .. m)
  PROVE  /\ Shift(s) \in Seq(1 .. m)
         /\ \A h \in Nat : Cardinality(Left(Shift(s), h)) = Cardinality(Left(s, h + 1))
<1> DEFINE len == Len(s)
           C == {k \in Nat : ~ \E g : IsKept(g, s, k)}
<1>0. len \in Nat /\ DOMAIN s = 1 .. len /\ \A i \in 1 .. len : s[i] \in 1 .. m
  OBVIOUS
<1>1. ASSUME C # {} PROVE FALSE
  <2>1. PICK k \in C : \A j \in C : k <= j
    <3>1. C \subseteq Nat
      OBVIOUS
    <3> HIDE DEF C
    <3> QED BY <1>1, <3>1, SmallestNumber
  <2>2. k \in Nat
    OBVIOUS
  <2>3. CASE k = 0
    <3>1. IsKept([i \in 0 .. 0 |-> <<>>], s, 0)
      BY DEF IsKept
    <3> QED BY <2>3, <3>1
  <2>4. CASE k # 0
    <3>1. k - 1 \notin C /\ k - 1 \in Nat
      <4> HIDE DEF C
      <4> QED BY <2>1, <2>2, <2>4
    <3>2. PICK g : IsKept(g, s, k - 1)
      BY <3>1
    <3> DEFINE last == IF s[k] > 1 THEN Append(g[k - 1], s[k] - 1) ELSE g[k - 1]
               f == [i \in 0 .. k |-> IF i = k THEN last ELSE g[i]]
    <3>3. ASSUME NEW i \in 0 .. k
          PROVE  f[i] = IF i = 0 THEN <<>>
                        ELSE IF s[i] > 1 THEN Append(f[i - 1], s[i] - 1) ELSE f[i - 1]
      <4>1. CASE i = k
        <5>1. f[i] = last /\ f[i - 1] = g[k - 1]
          BY <2>2, <2>4, <4>1
        <5> QED BY <2>4, <4>1, <5>1
      <4>2. CASE i # k
        <5>1. i \in 0 .. k - 1 /\ f[i] = g[i] /\ (i # 0 => f[i - 1] = g[i - 1])
          BY <2>2, <4>2
        <5>2. g[i] = IF i = 0 THEN <<>>
                     ELSE IF s[i] > 1 THEN Append(g[i - 1], s[i] - 1) ELSE g[i - 1]
          BY <3>2, <5>1 DEF IsKept
        <5> HIDE DEF f
        <5> QED BY <5>1, <5>2
      <4> QED BY <4>1, <4>2
    <3>4. f = [i \in 0 .. k |-> f[i]]
      OBVIOUS
    <3> HIDE DEF f
    <3>5. IsKept(f, s, k)
      BY <3>3, <3>4 DEF IsKept
    <3> QED BY <3>5
  <2> QED BY <2>3, <2>4
<1> DEFINE g == CHOOSE g : IsKept(g, s, len)
<1>2. IsKept(g, s, len)
  BY <1>0, <1>1
<1>3. Shift(s) = g[len]
  BY DEF Shift, IsKept
<1> HIDE DEF g, C
<1> DEFINE Before(k, h) == {i \in 1 .. k : s[i] > h + 1}
           Good(k) == /\ g[k] \in Seq(1 .. m)
                      /\ \A h \in Nat : Cardinality(Left(g[k], h)) = Cardinality(Before(k, h))
           D == {k \in 0 .. len : ~Good(k)}
<1>4. ASSUME D # {} PROVE FALSE
  <2>1. PICK k \in D : \A j \in D : k <= j
    <3>1. D \subseteq Nat
      OBVIOUS
    <3> HIDE DEF D
    <3> QED BY <1>4, <3>1, SmallestNumber
  <2>2. k \in 0 .. len /\ k \in Nat /\ ~Good(k)
    BY <2>1
  <2>3. g[k] = IF k = 0 THEN <<>>
               ELSE IF s[k] > 1 THEN Append(g[k - 1], s[k] - 1) ELSE g[k - 1]
    BY <1>2, <2>2 DEF IsKept
  <2>4. CASE k = 0
    <3>1. \A h \in Nat : Left(<<>>, h) = {} /\ Before(k, h) = {}
      BY <2>4 DEF Left
    <3>2. g[k] = <<>> /\ <<>> \in Seq(1 .. m)
      BY <2>3, <2>4
    <3> HIDE DEF Before
    <3> QED BY <2>2, <3>1, <3>2
  <2>5. CASE k # 0
    <3>1. Good(k - 1) /\ k \in 1 .. len /\ s[k] \in 1 .. m
      <4>1. k - 1 \in 0 .. len /\ ~(k <= k - 1)
        BY <1>0, <2>2, <2>5
      <4>2. k - 1 \notin D
        <5> HIDE DEF D
        <5> QED BY <2>1, <4>1
      <4>3. Good(k - 1)
        <5> HIDE DEF Good
        <5> QED BY <4>1, <4>2
      <4> HIDE DEF Good
      <4> QED BY <1>0, <2>2, <2>5, <4>3
    <3>2. ASSUME NEW h \in Nat
          PROVE  Cardinality(Before(k, h)) = Cardinality(Before(k - 1, h)) + One(s[k] > h + 1)
      <4>1. Before(k, h) = IF s[k] > h + 1 THEN Before(k - 1, h) \union {k} ELSE Before(k - 1, h)
        BY <2>2, <2>5
      <4>2. IsFiniteSet(Before(k - 1, h)) /\ k \notin Before(k - 1, h)
        <5>1. IsFiniteSet(1 .. k - 1)
          BY <2>2, FS_Interval
        <5> QED BY <2>2, <5>1, FS_Subset
      <4>3. /\ Cardinality(Before(k - 1, h) \union {k}) = Cardinality(Before(k - 1, h)) + 1
            /\ Cardinality(Before(k - 1, h)) \in Nat
        BY <4>2, FS_AddElement, FS_CardinalityType
      <4> HIDE DEF Before
      <4> QED BY <4>1, <4>3 DEF One
    <3>3. CASE s[k] > 1
      <4> DEFINE x == s[k] - 1
      <4>1. x \in 1 .. m /\ x \in Int /\ g[k - 1] \in Seq(1 .. m) /\ g[k - 1] \in Seq(Int)
        <5>1. x \in 1 .. m /\ x \in Int
          BY <3>1, <3>3
        <5>2. g[k - 1] \in Seq(1 .. m)
          BY <3>1
        <5>3. g[k - 1] \in Seq(Int)
          BY <5>2
        <5> QED BY <5>1, <5>2, <5>3
      <4>2. g[k] = Append(g[k - 1], x) /\ g[k] \in Seq(1 .. m)
        <5>1. g[k] = Append(g[k - 1], x)
          BY <2>3, <2>5, <3>3
        <5> HIDE DEF x
        <5>2. Append(g[k - 1], x) \in Seq(1 .. m)
          BY <4>1
        <5> QED BY <5>1, <5>2
      <4>3. ASSUME NEW h \in Nat
            PROVE  Cardinality(Left(g[k], h)) = Cardinality(Before(k, h))
        <5>1. Cardinality(Left(g[k], h)) = Cardinality(Left(g[k - 1], h)) + One(x > h)
          BY <4>1, <4>2, LeftOfAppend
        <5>2. (x > h) <=> (s[k] > h + 1)
          BY <3>1
        <5> HIDE DEF Before, x
        <5> QED BY <3>1, <3>2, <5>1, <5>2 DEF One
      <4> QED BY <2>2, <4>2, <4>3
    <3>4. CASE ~(s[k] > 1)
      <4>1. g[k] = g[k - 1]
        BY <2>3, <2>5, <3>4
      <4>2. ASSUME NEW h \in Nat
            PROVE  Cardinality(Left(g[k], h)) = Cardinality(Before(k, h))
        <5>1. ~(s[k] > h + 1)
          BY <3>1, <3>4
        <5>2. IsFiniteSet(Before(k - 1, h))
          <6>1. IsFiniteSet(1 .. k - 1)
            BY <2>2, FS_Interval
          <6> QED BY <6>1, FS_Subset
        <5>3. Cardinality(Before(k - 1, h)) \in Nat
          BY <5>2, FS_CardinalityType
        <5> HIDE DEF Before
        <5> QED BY <3>1, <3>2, <4>1, <5>1, <5>3 DEF One
      <4> QED BY <2>2, <3>1, <4>1, <4>2
    <3> QED BY <3>3, <3>4
  <2> QED BY <2>4, <2>5
<1>5. Good(len)
  <2>1. len \in 0 .. len
    BY <1>0
  <2> HIDE DEF Good
  <2> QED BY <1>4, <2>1
<1>6. \A h \in Nat : Before(len, h) = Left(s, h + 1)
  BY <1>0 DEF Left
<1> QED BY <1>3, <1>5, <1>6

-----------------------------------------------------------------------------
(* The schedule.                                                           *)

\* The places of _recover_intent.
Handoff == {"admit", "attempt", "post", "observe", "bind", "mark"}

\* The types of the schedule, of what the properties count and of the bounds.
ScheduleTypes ==
  /\ checkpoint \in
       [Entities -> [gen : Nat, attempts : Nat, terminal : BOOLEAN, wait : Waits(CooldownCap)]]
  /\ retry \in [Entities -> [gen : Nat, failures : Nat, wait : Waits(RetryCap)]]
  /\ replacement \in [Entities -> [due : BOOLEAN, failures : Nat, wait : Waits(ReplaceCap)]]
  /\ answers \in [Entities -> [gen : Nat, count : Nat]]
  /\ budget \in Seq(1 .. Hour) /\ asked \in Seq(1 .. Hour)
  /\ emits \in Entities \union {No}
  /\ given \in Nat /\ faults \in Nat /\ crashes \in Nat

\* The entity a step works on is one of those it listed, and each request is taken up
\* where it was left: recovery comes before the inventory, the completed searches of what
\* it bound are recorded before the run searches, and a run settles its own request last.
Follows ==
  /\ \A op \in rec.todo : Requested(op)
  /\ rec.pc \in Handoff => Requested(rec.op) /\ rec.op \notin rec.todo
  /\ rec.pc \notin Handoff \union {"complete"} => rec.op = No /\ ~rec.fresh
  /\ rec.pc \in {"next", "search", "count", "client"} => Unsynced = {}
  /\ rec.fresh => rec.op \in Ops /\ Unsynced \subseteq {rec.op}
  /\ rec.pc = "complete" =>
       /\ rec.entity \in Entities
       /\ \A i \in DOMAIN rec.due : rec.due[i] # rec.entity
       /\ IF rec.op = No THEN ~rec.fresh /\ rec.entity \notin Pending /\ Unsynced = {}
          ELSE rec.fresh /\ intent[rec.op].observed /\ rec.op \notin recorded
  /\ rec.fresh =>
       /\ rec.entity \in Entities /\ intent[rec.op].entity = rec.entity
       /\ intent[rec.op].gen = rec.files[rec.entity]
       /\ intent[rec.op].terminal = (age[rec.entity] >= Horizon)
  /\ rec.pc \in {"idle", "recover", "inventory", "sync"} \/ (rec.pc \in Handoff /\ ~rec.fresh) =>
       rec.due = <<>>

\* No record is about a file that is not there yet.
Dated ==
  /\ \A e \in Entities :
       /\ age[e] \in 0 .. Horizon \union {Released[e]} /\ file[e] \in 1 .. MaxFiles
       /\ checkpoint[e].gen <= file[e] /\ retry[e].gen <= file[e]
       /\ (checkpoint[e].gen = No) = (checkpoint[e].attempts = 0)
       /\ checkpoint[e].gen = No => ~checkpoint[e].terminal
  /\ rec.files # <<>> => \A e \in Entities : rec.files[e] \in 1 .. file[e]
  /\ \A op \in Ops : intent[op].entity # No => intent[op].gen \in 1 .. file[intent[op].entity]

\* What is recorded was observed, what was observed was attempted, and what was attempted
\* is a request.
Settled ==
  /\ recorded \subseteq {op \in Ops : intent[op].observed}
  /\ \A op \in Ops : /\ intent[op].observed => intent[op].attempted
                     /\ intent[op].attempted => intent[op].entity # No

\* What holds of the schedule, the requests and the thread between any two steps.
ScheduleInv == UpgradesInv /\ ScheduleTypes /\ Follows /\ Dated /\ Settled

\* The completed searches of a file.
Attempts(e, g) == IF checkpoint[e].gen = g THEN checkpoint[e].attempts ELSE 0

\* What recording a completed search writes.
LEMMA CompletedIs ==
  ASSUME ScheduleTypes, NEW e \in Entities, NEW g \in Nat, NEW t \in BOOLEAN, NEW op,
         RecordCompleted(e, g, t, op)
  PROVE  /\ checkpoint' \in [Entities ->
              [gen : Nat, attempts : Nat, terminal : BOOLEAN, wait : Waits(CooldownCap)]]
         /\ retry' \in [Entities -> [gen : Nat, failures : Nat, wait : Waits(RetryCap)]]
         /\ replacement' \in
              [Entities -> [due : BOOLEAN, failures : Nat, wait : Waits(ReplaceCap)]]
         /\ checkpoint'[e].gen = g /\ checkpoint'[e].attempts = Attempts(e, g) + 1
         /\ checkpoint'[e].terminal = t /\ replacement'[e].due = FALSE /\ retry'[e].gen = No
         /\ \A f \in Entities : f # e => /\ checkpoint'[f] = checkpoint[f] /\ retry'[f] = retry[f]
                                         /\ replacement'[f] = replacement[f]
         /\ recorded' = recorded \union ({op} \ {No})
<1> DEFINE n == 1 + Attempts(e, g)
           r == [gen |-> g, attempts |-> n, terminal |-> t, wait |-> Cooldown(n)]
<1>1. n \in Nat \ {0}
  BY DEF ScheduleTypes, Attempts
<1>2. Cooldown(n) \in Waits(CooldownCap)
  BY <1>1, DelaysAreWaits, UpgradesConstants DEF Waits
<1>3. r \in [gen : Nat, attempts : Nat, terminal : BOOLEAN, wait : Waits(CooldownCap)]
  <2> HIDE DEF n
  <2> QED BY <1>1, <1>2
<1>4. checkpoint' = [checkpoint EXCEPT ![e] = r]
  BY DEF RecordCompleted, Attempts
<1>5. r.gen = g /\ r.attempts = Attempts(e, g) + 1 /\ r.terminal = t
  <2>1. Attempts(e, g) \in Nat
    BY DEF ScheduleTypes, Attempts
  <2> HIDE DEF Attempts
  <2> QED BY <2>1
<1>6. 0 \in Waits(RetryCap) /\ 0 \in Waits(ReplaceCap)
  BY UpgradesConstants DEF Waits
<1>7. /\ NoRetry \in [gen : Nat, failures : Nat, wait : Waits(RetryCap)]
      /\ NoReplacement \in [due : BOOLEAN, failures : Nat, wait : Waits(ReplaceCap)]
      /\ NoRetry.gen = No /\ NoReplacement.due = FALSE
  BY <1>6 DEF NoRetry, NoReplacement, No
<1> HIDE DEF r
<1>8. /\ retry' = [retry EXCEPT ![e] = NoRetry]
      /\ replacement' = [replacement EXCEPT ![e] = NoReplacement]
      /\ recorded' = recorded \union ({op} \ {No})
  BY DEF RecordCompleted
<1> QED BY <1>3, <1>4, <1>5, <1>7, <1>8 DEF ScheduleTypes

\* A failed search is retried later; it settles no replacement and asks for none.
LEMMA FailureIs ==
  ASSUME ScheduleTypes, NEW e \in Entities, NEW g \in Nat, RecordTransientFailure(e, g)
  PROVE  /\ retry' \in [Entities -> [gen : Nat, failures : Nat, wait : Waits(RetryCap)]]
         /\ replacement' \in
              [Entities -> [due : BOOLEAN, failures : Nat, wait : Waits(ReplaceCap)]]
         /\ \A f \in Entities : replacement'[f].due = replacement[f].due
         /\ \A f \in Entities : retry'[f].gen = retry[f].gen \/ (f = e /\ retry'[f].gen = g)
<1> DEFINE n == 1 + IF retry[e].gen = g THEN retry[e].failures ELSE 0
           m == replacement[e].failures + 1
<1>1. n \in Nat \ {0} /\ m \in Nat \ {0}
  <2>1. retry[e].failures \in Nat /\ replacement[e].failures \in Nat
    BY DEF ScheduleTypes
  <2> QED BY <2>1
<1>2. RetryDelay(n) \in Waits(RetryCap) /\ ReplaceDelay(m) \in Waits(ReplaceCap)
  BY <1>1, DelaysAreWaits, UpgradesConstants DEF Waits
<1>3. CASE replacement[e].due
  <2>1. /\ replacement' = [replacement EXCEPT ![e] =
              [due |-> TRUE, failures |-> m, wait |-> ReplaceDelay(m)]]
        /\ retry' = retry
    BY <1>3 DEF RecordTransientFailure
  <2> HIDE DEF m
  <2> QED BY <1>1, <1>2, <1>3, <2>1 DEF ScheduleTypes
<1>4. CASE ~replacement[e].due
  <2>1. /\ retry' = [retry EXCEPT ![e] = [gen |-> g, failures |-> n, wait |-> RetryDelay(n)]]
        /\ replacement' = replacement
    BY <1>4 DEF RecordTransientFailure
  <2> HIDE DEF n
  <2> QED BY <1>1, <1>2, <2>1 DEF ScheduleTypes
<1> QED BY <1>3, <1>4

\* Time changes no record but for its wait.
LEMMA PassIs ==
  ASSUME ScheduleTypes, Types, Pass
  PROVE  /\ checkpoint' \in [Entities ->
              [gen : Nat, attempts : Nat, terminal : BOOLEAN, wait : Waits(CooldownCap)]]
         /\ retry' \in [Entities -> [gen : Nat, failures : Nat, wait : Waits(RetryCap)]]
         /\ replacement' \in
              [Entities -> [due : BOOLEAN, failures : Nat, wait : Waits(ReplaceCap)]]
         /\ \A e \in Entities :
              /\ checkpoint'[e].gen = checkpoint[e].gen /\ retry'[e].gen = retry[e].gen
              /\ replacement'[e].due = replacement[e].due
              /\ age'[e] = IF age[e] < Horizon THEN age[e] + 1 ELSE age[e]
              /\ IF checkpoint[e].gen = No
                 THEN checkpoint'[e].attempts = 0 /\ ~checkpoint'[e].terminal
                 ELSE /\ checkpoint'[e].attempts = checkpoint[e].attempts
                      /\ checkpoint'[e].terminal = checkpoint[e].terminal
<1>1. /\ age' = [e \in Entities |-> IF age[e] < Horizon THEN age[e] + 1 ELSE age[e]]
      /\ checkpoint' = [e \in Entities |->
           IF checkpoint[e].gen = No THEN NoCheckpoint ELSE [checkpoint[e] EXCEPT !.wait = Later(@)]]
      /\ retry' = [e \in Entities |->
           IF retry[e].gen = No THEN NoRetry ELSE [retry[e] EXCEPT !.wait = Later(@)]]
      /\ replacement' = [e \in Entities |->
           IF replacement[e].due THEN [replacement[e] EXCEPT !.wait = Later(@)] ELSE NoReplacement]
  BY DEF Pass
<1>2. ASSUME NEW cap \in Nat, NEW w \in Waits(cap) PROVE Later(w) \in Waits(cap)
  BY UpgradesConstants DEF Later, Waits
<1>3. ASSUME NEW cap \in Nat PROVE 0 \in Waits(cap)
  BY UpgradesConstants DEF Waits
<1>4. CooldownCap \in Nat /\ RetryCap \in Nat /\ ReplaceCap \in Nat
  BY UpgradesConstants
<1>5. \A e \in Entities : /\ Later(checkpoint[e].wait) \in Waits(CooldownCap)
                          /\ Later(retry[e].wait) \in Waits(RetryCap)
                          /\ Later(replacement[e].wait) \in Waits(ReplaceCap)
  BY <1>2, <1>4 DEF ScheduleTypes
<1>6. /\ NoCheckpoint \in [gen : Nat, attempts : Nat, terminal : BOOLEAN, wait : Waits(CooldownCap)]
      /\ NoRetry \in [gen : Nat, failures : Nat, wait : Waits(RetryCap)]
      /\ NoReplacement \in [due : BOOLEAN, failures : Nat, wait : Waits(ReplaceCap)]
      /\ NoRetry.gen = No /\ NoReplacement.due = FALSE
      /\ NoCheckpoint.gen = No /\ NoCheckpoint.attempts = 0 /\ ~NoCheckpoint.terminal
  BY <1>3, <1>4 DEF NoCheckpoint, NoRetry, NoReplacement, No
<1> HIDE DEF Later
<1>7. ASSUME NEW e \in Entities
      PROVE  /\ checkpoint'[e] \in [gen : Nat, attempts : Nat, terminal : BOOLEAN, wait : Waits(CooldownCap)]
             /\ checkpoint'[e].gen = checkpoint[e].gen
             /\ IF checkpoint[e].gen = No
                THEN checkpoint'[e].attempts = 0 /\ ~checkpoint'[e].terminal
                ELSE /\ checkpoint'[e].attempts = checkpoint[e].attempts
                     /\ checkpoint'[e].terminal = checkpoint[e].terminal
  BY <1>1, <1>5, <1>6 DEF ScheduleTypes
<1>8. ASSUME NEW e \in Entities
      PROVE  /\ retry'[e] \in [gen : Nat, failures : Nat, wait : Waits(RetryCap)]
             /\ retry'[e].gen = retry[e].gen
  BY <1>1, <1>5, <1>6 DEF ScheduleTypes
<1>9. ASSUME NEW e \in Entities
      PROVE  /\ replacement'[e] \in [due : BOOLEAN, failures : Nat, wait : Waits(ReplaceCap)]
             /\ replacement'[e].due = replacement[e].due
  BY <1>1, <1>5, <1>6 DEF ScheduleTypes
<1> QED BY <1>1, <1>7, <1>8, <1>9

-----------------------------------------------------------------------------
(* The steps keep the schedule.                                            *)

\* The steps that write the schedule, and what they record.
LEMMA RecordsOf ==
  ASSUME ScheduleInv, CompleteSearch \/ (SyncCompleted /\ UNCHANGED rec)
  PROVE  \/ UNCHANGED <<checkpoint, retry, replacement, recorded>> /\ SyncCompleted /\ Unsynced = {}
         \/ \E e \in Entities, g \in Nat, t \in BOOLEAN, op \in Ops \union {No} :
              /\ RecordCompleted(e, g, t, op)
              /\ g \in 1 .. file[e]
              /\ op \in Ops => /\ intent[op].entity = e /\ intent[op].gen = g
                               /\ intent[op].terminal = t /\ intent[op].observed
                               /\ op \notin recorded
              /\ CompleteSearch => /\ e = rec.entity /\ g = rec.files[e] /\ op = rec.op
                                   /\ t = (age[e] >= Horizon)
              /\ SyncCompleted => op \in Ops
<1>1. Types /\ Follows /\ Dated /\ Settled
  BY DEF ScheduleInv, UpgradesInv
<1>2. CASE CompleteSearch
  <2> DEFINE e == rec.entity
             g == rec.files[e]
             t == age[e] >= Horizon
  <2>1. rec.pc = "complete" /\ RecordCompleted(e, g, t, rec.op)
    BY <1>2 DEF CompleteSearch, At
  <2>2. e \in Entities /\ e # No /\ rec.op \in Ops \union {No}
    BY <1>1, <2>1, UpgradesConstants DEF Follows, Types, Thread, No
  <2>3. rec.files \in [Entities -> Nat] /\ rec.files # <<>>
    <3>1. rec.files \in [Entities -> Nat]
      BY <1>1, <2>2 DEF Types
    <3>2. <<>> \notin [Entities -> Nat]
      BY <2>2
    <3> QED BY <3>1, <3>2
  <2>4. g \in Nat /\ g \in 1 .. file[e] /\ t \in BOOLEAN
    <3>1. g \in 1 .. file[e] /\ file[e] \in Nat
      BY <1>1, <2>2, <2>3 DEF Dated, Types
    <3>2. g \in Nat
      <4> HIDE DEF g
      <4> QED BY <3>1
    <3> QED BY <3>1, <3>2
  <2>5. rec.op \in Ops => /\ intent[rec.op].entity = e /\ intent[rec.op].gen = g
                          /\ intent[rec.op].terminal = t /\ intent[rec.op].observed
                          /\ rec.op \notin recorded
    BY <1>1, <2>1, UpgradesConstants DEF Follows, No
  <2>6. ~SyncCompleted
    BY <2>1 DEF SyncCompleted, At
  <2> HIDE DEF e, g, t
  <2> QED BY <2>1, <2>2, <2>4, <2>5, <2>6 DEF e, g, t
<1>3. CASE SyncCompleted /\ UNCHANGED rec /\ Unsynced = {}
  BY <1>3 DEF SyncCompleted, Least
<1>4. CASE SyncCompleted /\ UNCHANGED rec /\ Unsynced # {}
  <2>1. PICK op \in Unsynced :
          RecordCompleted(intent[op].entity, intent[op].gen, intent[op].terminal, op)
    BY <1>4 DEF SyncCompleted, Least
  <2>2. op \in Ops /\ intent[op].observed /\ op \notin recorded /\ intent[op] \in Request
    BY <1>1 DEF Unsynced, Types
  <2>3. intent[op].entity \in Entities /\ intent[op].gen \in 1 .. file[intent[op].entity]
    BY <1>1, <2>2 DEF Settled, Dated, Request
  <2>4. ~CompleteSearch
    BY <1>4 DEF CompleteSearch, SyncCompleted, At
  <2> QED BY <2>1, <2>2, <2>3, <2>4 DEF Request
<1> QED BY <1>2, <1>3, <1>4

\* A new event is an hour long.
LEMMA Appended ==
  ASSUME NEW s \in Seq(1 .. Hour) PROVE Append(s, Hour) \in Seq(1 .. Hour)
<1>1. Hour \in 1 .. Hour
  <2>1. Hour \in Nat \ {0}
    BY UpgradesConstants
  <2> QED BY <2>1
<1> QED BY <1>1

\* Every step writes records of their types.
LEMMA ScheduleTypesNext ==
  ASSUME ScheduleInv, UpgradesNext PROVE ScheduleTypes'
<1>1. ScheduleTypes /\ Types /\ Awaits /\ Posts
  BY DEF ScheduleInv, UpgradesInv
<1>2. CASE UNCHANGED <<checkpoint, retry, replacement, answers, budget, asked, emits>>
           /\ given' = given /\ faults' \in Nat /\ crashes' = crashes
  BY <1>1, <1>2 DEF ScheduleTypes
<1>3. CASE CompleteSearch \/ (SyncCompleted /\ UNCHANGED rec)
  <2>1. UNCHANGED <<answers, budget, asked, emits, given, faults, crashes>>
    BY <1>3 DEF CompleteSearch, SyncCompleted, ghosts, bounds
  <2>2. CASE UNCHANGED <<checkpoint, retry, replacement>>
    BY <1>1, <2>1, <2>2 DEF ScheduleTypes
  <2>3. ASSUME NEW e \in Entities, NEW g \in Nat, NEW t \in BOOLEAN, NEW op,
               RecordCompleted(e, g, t, op)
        PROVE  ScheduleTypes'
    <3>1. /\ checkpoint' \in [Entities ->
               [gen : Nat, attempts : Nat, terminal : BOOLEAN, wait : Waits(CooldownCap)]]
          /\ retry' \in [Entities -> [gen : Nat, failures : Nat, wait : Waits(RetryCap)]]
          /\ replacement' \in
               [Entities -> [due : BOOLEAN, failures : Nat, wait : Waits(ReplaceCap)]]
      BY <1>1, <2>3, CompletedIs
    <3> QED BY <1>1, <2>1, <3>1 DEF ScheduleTypes
  <2> QED BY <1>3, <2>2, <2>3, RecordsOf
<1>4. CASE ApprovedRelease
  <2>1. rec.entity \in Entities /\ rec.files[rec.entity] \in Nat
    <3>1. rec.entity \in Entities
      BY <1>1, <1>4 DEF ApprovedRelease, At, Awaits
    <3> QED BY <1>1, <3>1, UpgradesConstants DEF Types, No
  <2>2. UNCHANGED <<checkpoint, budget, emits, given, crashes>>
    BY <1>4 DEF ApprovedRelease
  <2>3. CASE /\ asked' = Append(asked, Hour) /\ UNCHANGED <<retry, replacement, faults>>
             /\ answers' = [answers EXCEPT ![rec.entity] = Answered(@, rec.files[rec.entity])]
    <3>1. Answered(answers[rec.entity], rec.files[rec.entity]) \in [gen : Nat, count : Nat]
      BY <1>1, <2>1 DEF ScheduleTypes, Answered
    <3>2. answers' \in [Entities -> [gen : Nat, count : Nat]]
      BY <1>1, <2>3, <3>1 DEF ScheduleTypes
    <3>3. asked' \in Seq(1 .. Hour)
      BY <1>1, <2>3, Appended DEF ScheduleTypes
    <3> QED BY <1>1, <2>2, <2>3, <3>2, <3>3 DEF ScheduleTypes
  <2>4. CASE Fault /\ RecordTransientFailure(rec.entity, rec.files[rec.entity]) /\ UNCHANGED ghosts
    <3>1. faults' \in Nat
      BY <1>1, <2>4 DEF Fault, ScheduleTypes
    <3> QED BY <1>1, <2>1, <2>2, <2>4, <3>1, FailureIs DEF ScheduleTypes, ghosts
  <2> QED BY <1>4, <2>3, <2>4 DEF ApprovedRelease
<1>5. CASE CountSearch
  <2>1. /\ budget' = Append(budget, Hour)
        /\ replacement' = [replacement EXCEPT ![rec.entity] = NoReplacement]
        /\ UNCHANGED <<checkpoint, retry, emits, answers, asked, given, faults, crashes>>
    BY <1>5 DEF CountSearch, ghosts, bounds
  <2>2. NoReplacement \in [due : BOOLEAN, failures : Nat, wait : Waits(ReplaceCap)]
    BY UpgradesConstants DEF NoReplacement, Waits
  <2>3. budget' \in Seq(1 .. Hour)
    BY <1>1, <2>1, Appended DEF ScheduleTypes
  <2> QED BY <1>1, <2>1, <2>2, <2>3 DEF ScheduleTypes
<1>6. CASE Pass
  <2>1. UNCHANGED <<answers, emits, given, faults, crashes>>
    BY <1>6 DEF Pass, bounds
  <2>2. budget' \in Seq(1 .. Hour) /\ asked' \in Seq(1 .. Hour)
    BY <1>1, <1>6, ShiftIs, UpgradesConstants DEF Pass, PruneBudget, ScheduleTypes
  <2> QED BY <1>1, <1>6, <2>1, <2>2, PassIs DEF ScheduleTypes
<1>7. CASE Crash
  <2>1. /\ UNCHANGED <<checkpoint, retry, replacement, budget, answers, asked, given, faults>>
        /\ crashes' = crashes + 1 /\ emits' = No
    BY <1>7 DEF Crash, schedule, ghosts
  <2>2. crashes' \in Nat
    BY <1>1, <2>1 DEF ScheduleTypes
  <2> QED BY <1>1, <2>1, <2>2 DEF ScheduleTypes
<1>8. CASE RecordCandidateInvalidated
  <2>1. /\ UNCHANGED <<checkpoint, retry, budget, answers, asked, given, faults, crashes>>
        /\ emits' = No /\ emits \in Entities
    BY <1>1, <1>8 DEF RecordCandidateInvalidated, ghosts, bounds, ScheduleTypes
  <2>2. [due |-> TRUE, failures |-> 0, wait |-> ReplaceBase]
           \in [due : BOOLEAN, failures : Nat, wait : Waits(ReplaceCap)]
    BY UpgradesConstants DEF Waits
  <2>3. replacement' \in [Entities -> [due : BOOLEAN, failures : Nat, wait : Waits(ReplaceCap)]]
    BY <1>1, <1>8, <2>1, <2>2 DEF RecordCandidateInvalidated, ScheduleTypes
  <2> QED BY <1>1, <2>1, <2>3 DEF ScheduleTypes
<1>9. ASSUME NEW op \in Ops, GiveUp(op) PROVE ScheduleTypes'
  <2>1. /\ UNCHANGED <<checkpoint, retry, replacement, budget, answers, asked, faults, crashes>>
        /\ emits' = intent[op].entity /\ given' = given + 1
    BY <1>9 DEF GiveUp, schedule, ghosts
  <2>2. emits' \in Entities \union {No} /\ given' \in Nat
    BY <1>1, <2>1 DEF Types, Request, ScheduleTypes
  <2> QED BY <1>1, <2>1, <2>2 DEF ScheduleTypes
<1>10. ASSUME NEW op \in Ops, IntakeTakes(op) \/ ArrGrabs(op) \/ Import(op) PROVE ScheduleTypes'
  <2>1. /\ UNCHANGED <<checkpoint, retry, replacement, answers, budget, asked, emits>>
        /\ given' = given /\ faults' = faults /\ crashes' = crashes
    BY <1>10 DEF IntakeTakes, ArrGrabs, Import, schedule, ghosts, bounds
  <2> QED BY <1>1, <2>1 DEF ScheduleTypes
<1>11. CASE \/ StartRun \/ RecoverNext \/ Inventory \/ NextEntity \/ RecordIntent
            \/ Admit \/ MarkAttempted \/ GrabRelease \/ ObserveGrab \/ BindGrab \/ MarkObserved
            \/ (SyncCompleted /\ ~UNCHANGED rec)
  <2>1. /\ UNCHANGED <<checkpoint, retry, replacement, answers, budget, asked, emits>>
        /\ given' = given /\ crashes' = crashes /\ (faults' = faults \/ Fault)
    BY <1>11
       DEF StartRun, RecoverNext, Inventory, SyncCompleted, NextEntity, RecordIntent, Admit,
           MarkAttempted, GrabRelease, ObserveGrab, BindGrab, MarkObserved, schedule, ghosts, bounds
  <2>2. faults' \in Nat
    BY <1>1, <2>1 DEF Fault, ScheduleTypes
  <2> QED BY <1>2, <2>1, <2>2
<1> QED
  BY <1>3, <1>4, <1>5, <1>6, <1>7, <1>8, <1>9, <1>10, <1>11 DEF UpgradesNext, ReconcilerStep

\* Where _recover_intent leaves the thread.
LEMMA HandedMoves ==
  ASSUME rec \in Thread, NEW b \in BOOLEAN, Handed(b)
  PROVE  /\ rec'.todo = rec.todo /\ rec'.due = rec.due /\ rec'.files = rec.files
         /\ ~rec.fresh => rec'.pc = "recover" /\ rec'.op = No /\ ~rec'.fresh /\ rec'.entity = rec.entity
         /\ rec.fresh /\ b =>
              rec'.pc = "complete" /\ rec'.op = rec.op /\ rec'.fresh /\ rec'.entity = rec.entity
         /\ rec.fresh /\ ~b => rec'.pc = "next" /\ rec'.op = No /\ ~rec'.fresh /\ rec'.entity = No
<1>1. CASE ~rec.fresh
  BY <1>1 DEF Handed, Thread
<1>2. CASE rec.fresh /\ b
  BY <1>2 DEF Handed, Thread
<1>3. CASE rec.fresh /\ ~b
  BY <1>3 DEF Handed, Thread
<1> QED BY <1>1, <1>2, <1>3

\* A step to another place leaves the rest of the thread as it is.
LEMMA ToMoves ==
  ASSUME rec \in Thread, NEW pc \in Places, To(pc)
  PROVE  /\ rec'.pc = pc /\ rec'.op = rec.op /\ rec'.fresh = rec.fresh
         /\ rec'.todo = rec.todo /\ rec'.due = rec.due /\ rec'.files = rec.files
         /\ rec'.entity = rec.entity
BY DEF To, Thread

\* What a step does to the requests: one is recorded, or the thread's own is marked.
LEMMA RequestRecorded ==
  ASSUME ScheduleInv, RecordIntent
  PROVE  \/ /\ Fault /\ UNCHANGED <<intent, fence, arr, recorded>>
            /\ rec'.pc = "next" /\ rec'.op = rec.op /\ rec'.fresh = rec.fresh
            /\ rec'.todo = rec.todo /\ rec'.due = rec.due /\ rec'.files = rec.files
            /\ rec'.entity = No
         \/ \E op \in Spare :
              /\ intent'[op].entity = rec.entity /\ intent'[op].gen = rec.files[rec.entity]
              /\ intent'[op].terminal = (age[rec.entity] >= Horizon)
              /\ intent'[op].attempted = FALSE /\ intent'[op].observed = FALSE
              /\ \A o \in Ops : o # op => intent'[o] = intent[o]
              /\ recorded' = recorded \ {op} /\ UNCHANGED faults
              /\ rec'.pc = "admit" /\ rec'.op = op /\ rec'.fresh = TRUE
              /\ rec'.todo = rec.todo /\ rec'.due = rec.due /\ rec'.files = rec.files
              /\ rec'.entity = rec.entity
<1>1. rec \in Thread /\ intent \in [Ops -> Request]
  BY DEF ScheduleInv, UpgradesInv, Types
<1>2. CASE /\ Fault /\ UNCHANGED <<intent, fence, arr, recorded>>
           /\ rec' = [rec EXCEPT !.pc = "next", !.entity = No]
  BY <1>1, <1>2 DEF Thread
<1>3. ASSUME NEW op \in Least(Spare),
             intent' = [intent EXCEPT ![op] =
               [entity |-> rec.entity, gen |-> rec.files[rec.entity],
                terminal |-> age[rec.entity] >= Horizon, again |-> rec.answer = "again",
                attempted |-> FALSE, observed |-> FALSE]],
             recorded' = recorded \ {op}, UNCHANGED faults,
             rec' = [rec EXCEPT !.pc = "admit", !.op = op, !.fresh = TRUE]
      PROVE  \E o \in Spare : 
              /\ intent'[o].entity = rec.entity /\ intent'[o].gen = rec.files[rec.entity]
              /\ intent'[o].terminal = (age[rec.entity] >= Horizon)
              /\ intent'[o].attempted = FALSE /\ intent'[o].observed = FALSE
              /\ \A p \in Ops : p # o => intent'[p] = intent[p]
              /\ recorded' = recorded \ {o} /\ UNCHANGED faults
              /\ rec'.pc = "admit" /\ rec'.op = o /\ rec'.fresh = TRUE
              /\ rec'.todo = rec.todo /\ rec'.due = rec.due /\ rec'.files = rec.files
              /\ rec'.entity = rec.entity
  <2>1. op \in Spare /\ op \in Ops
    BY DEF Least, Spare
  <2> DEFINE r == [entity |-> rec.entity, gen |-> rec.files[rec.entity],
                   terminal |-> age[rec.entity] >= Horizon, again |-> rec.answer = "again",
                   attempted |-> FALSE, observed |-> FALSE]
  <2>2. intent' = [intent EXCEPT ![op] = r]
    BY <1>3
  <2>3. /\ r.entity = rec.entity /\ r.gen = rec.files[rec.entity]
        /\ r.terminal = (age[rec.entity] >= Horizon)
        /\ r.attempted = FALSE /\ r.observed = FALSE
    OBVIOUS
  <2> HIDE DEF r
  <2>4. intent'[op] = r /\ \A o \in Ops : o # op => intent'[o] = intent[o]
    BY <1>1, <2>1, <2>2
  <2>5. /\ rec'.pc = "admit" /\ rec'.op = op /\ rec'.fresh = TRUE
        /\ rec'.todo = rec.todo /\ rec'.due = rec.due /\ rec'.files = rec.files
        /\ rec'.entity = rec.entity
    BY <1>1, <1>3 DEF Thread
  <2> QED BY <1>3, <2>1, <2>3, <2>4, <2>5
<1> QED BY <1>2, <1>3 DEF RecordIntent

\* Every other step leaves the requests as they are, but for the two marks.
LEMMA RequestsKept ==
  ASSUME ScheduleInv, UpgradesNext, ~RecordIntent
  PROVE  \A op \in Ops :
           /\ intent'[op].entity = intent[op].entity /\ intent'[op].gen = intent[op].gen
           /\ intent'[op].terminal = intent[op].terminal
           /\ intent'[op].attempted = (intent[op].attempted \/ (MarkAttempted /\ op = rec.op))
           /\ intent'[op].observed = (intent[op].observed \/ (MarkObserved /\ op = rec.op))
<1>1. rec \in Thread /\ intent \in [Ops -> Request] /\ Posts
  BY DEF ScheduleInv, UpgradesInv, Types
<1>2. CASE UNCHANGED intent /\ ~MarkAttempted /\ ~MarkObserved
  <2>1. \A op \in Ops : intent[op].attempted \in BOOLEAN /\ intent[op].observed \in BOOLEAN
    BY <1>1 DEF Request
  <2> QED BY <1>2, <2>1
<1>3. CASE MarkAttempted
  <2>1. rec.op \in Ops /\ ~MarkObserved
    BY <1>1, <1>3 DEF Posts, MarkAttempted, MarkObserved, At
  <2> QED BY <1>1, <1>3, <2>1 DEF MarkAttempted, Request
<1>4. CASE MarkObserved
  <2>1. rec.op \in Ops /\ ~MarkAttempted
    BY <1>1, <1>4 DEF Posts, MarkAttempted, MarkObserved, At
  <2> QED BY <1>1, <1>4, <2>1 DEF MarkObserved, Request
<1> QED
  BY <1>2, <1>3, <1>4
     DEF UpgradesNext, ReconcilerStep, StartRun, RecoverNext, Inventory, SyncCompleted,
         NextEntity, ApprovedRelease, CountSearch, CompleteSearch, Admit, GrabRelease,
         ObserveGrab, BindGrab, RecordCandidateInvalidated, GiveUp, IntakeTakes, ArrGrabs, Import, Pass, Crash

\* Operations are recorded by the steps that record a completed search, and forgotten
\* when they are used again.
LEMMA RecordedMoves ==
  ASSUME ScheduleInv, UpgradesNext, ~RecordIntent
  PROVE  \/ UNCHANGED recorded
         \/ \E op \in Ops : /\ recorded' = recorded \union {op} /\ intent[op].observed
                            /\ op \notin recorded /\ UNCHANGED intent
<1>1. CASE CompleteSearch \/ (SyncCompleted /\ UNCHANGED rec)
  <2>1. UNCHANGED intent
    BY <1>1 DEF CompleteSearch, SyncCompleted
  <2>2. CASE UNCHANGED recorded
    BY <2>2
  <2>3. ASSUME NEW e \in Entities, NEW g \in Nat, NEW t \in BOOLEAN, NEW op \in Ops \union {No},
               RecordCompleted(e, g, t, op),
               op \in Ops => intent[op].observed /\ op \notin recorded
        PROVE  \/ UNCHANGED recorded
               \/ \E o \in Ops : /\ recorded' = recorded \union {o} /\ intent[o].observed
                                 /\ o \notin recorded /\ UNCHANGED intent
    <3>1. recorded' = recorded \union ({op} \ {No})
      BY <2>3 DEF RecordCompleted
    <3>2. \A o \in Ops : o # No
      BY UpgradesConstants DEF No
    <3>3. CASE op = No
      BY <3>1, <3>3
    <3>4. CASE op \in Ops
      <4>1. recorded' = recorded \union {op}
        BY <3>1, <3>2, <3>4
      <4> QED BY <2>1, <2>3, <3>4, <4>1
    <3> QED BY <3>3, <3>4
  <2> QED BY <1>1, <2>2, <2>3, RecordsOf
<1>2. CASE ~(CompleteSearch \/ (SyncCompleted /\ UNCHANGED rec))
  BY <1>2
     DEF UpgradesNext, ReconcilerStep, StartRun, RecoverNext, Inventory, SyncCompleted,
         NextEntity, ApprovedRelease, CountSearch, Admit, MarkAttempted, MarkObserved,
         GrabRelease, ObserveGrab, BindGrab, RecordCandidateInvalidated, GiveUp, IntakeTakes, ArrGrabs,
         Import, Pass, Crash, schedule
<1> QED BY <1>1, <1>2

\* The marks of a request are set in their order.
LEMMA SettledNext ==
  ASSUME ScheduleInv, UpgradesNext PROVE Settled'
<1>1. Settled /\ Posts /\ Follows /\ Types
  BY DEF ScheduleInv, UpgradesInv
<1>2. CASE RecordIntent
  <2>1. CASE UNCHANGED <<intent, recorded>>
    BY <1>1, <2>1 DEF Settled
  <2>2. ASSUME NEW op \in Spare,
               intent'[op].attempted = FALSE, intent'[op].observed = FALSE,
               \A o \in Ops : o # op => intent'[o] = intent[o], recorded' = recorded \ {op}
        PROVE  Settled'
    BY <1>1, <2>2 DEF Settled
  <2> QED BY <1>2, <2>1, <2>2, RequestRecorded
<1>3. CASE ~RecordIntent
  <2>1. \A op \in Ops :
          /\ intent'[op].entity = intent[op].entity
          /\ intent'[op].attempted = (intent[op].attempted \/ (MarkAttempted /\ op = rec.op))
          /\ intent'[op].observed = (intent[op].observed \/ (MarkObserved /\ op = rec.op))
    BY <1>3, RequestsKept
  <2>2. MarkAttempted => intent[rec.op].entity # No
    BY <1>1 DEF MarkAttempted, At, Follows, Handoff, Requested
  <2>3. MarkObserved => intent[rec.op].attempted
    BY <1>1 DEF MarkObserved, At, Posts
  <2>4. recorded' \subseteq {op \in Ops : intent'[op].observed}
    <3>1. recorded \subseteq {op \in Ops : intent'[op].observed}
      BY <1>1, <2>1 DEF Settled
    <3>2. CASE UNCHANGED recorded
      BY <3>1, <3>2
    <3>3. ASSUME NEW op \in Ops, recorded' = recorded \union {op}, intent[op].observed
          PROVE  recorded' \subseteq {o \in Ops : intent'[o].observed}
      BY <2>1, <3>1, <3>3
    <3> QED BY <1>3, <3>2, <3>3, RecordedMoves
  <2>5. \A op \in Ops : /\ intent'[op].observed => intent'[op].attempted
                        /\ intent'[op].attempted => intent'[op].entity # No
    BY <1>1, <2>1, <2>2, <2>3 DEF Settled
  <2> QED BY <2>4, <2>5 DEF Settled
<1> QED BY <1>2, <1>3

\* No step writes of a file that is not there yet.
LEMMA DatedNext ==
  ASSUME ScheduleInv, UpgradesNext PROVE Dated'
<1>1. Types /\ ScheduleTypes /\ Dated /\ Settled /\ Posts /\ Awaits /\ rec \in Thread
  BY DEF ScheduleInv, UpgradesInv, Types
\* Files are only replaced by later ones, and only the inventory reads them.
<1>2. \A e \in Entities : file'[e] \in Nat /\ file[e] <= file'[e] /\ file'[e] \in 1 .. MaxFiles
  <2>1. CASE UNCHANGED file
    BY <1>1, <2>1 DEF Dated, Types
  <2>2. ASSUME NEW op \in Ops, Import(op)
        PROVE  \A e \in Entities : file'[e] \in Nat /\ file[e] <= file'[e] /\ file'[e] \in 1 .. MaxFiles
    <3>1. /\ intent[op].entity \in Entities
          /\ file' = [file EXCEPT ![intent[op].entity] = file[intent[op].entity] + 1]
          /\ file[intent[op].entity] < MaxFiles
      BY <1>1, <2>2 DEF Import, Transfers, Posts, Settled, Types, Request
    <3>2. MaxFiles \in Nat
      BY UpgradesConstants
    <3>3. \A e \in Entities : file[e] \in Nat /\ file[e] \in 1 .. MaxFiles
      BY <1>1 DEF Types, Dated
    <3> QED BY <1>1, <3>1, <3>2, <3>3 DEF Types
  <2> QED
    BY <2>1, <2>2
       DEF UpgradesNext, ReconcilerStep, StartRun, RecoverNext, Inventory, SyncCompleted,
           NextEntity, ApprovedRelease, CountSearch, CompleteSearch, ObserveGrab, RecordIntent,
           RecordCandidateInvalidated, Crash, Admit, MarkAttempted, GrabRelease, BindGrab,
           MarkObserved, GiveUp, IntakeTakes, ArrGrabs, Pass
<1>3. \A e \in Entities : age'[e] \in 0 .. Horizon \union {Released[e]}
  <2>1. CASE UNCHANGED age
    BY <1>1, <2>1 DEF Dated
  <2>2. CASE Pass
    <3>1. \A e \in Entities : age'[e] = IF age[e] < Horizon THEN age[e] + 1 ELSE age[e]
      BY <1>1, <2>2, PassIs
    <3>2. Horizon \in Nat /\ \A e \in Entities : age[e] \in Nat /\ Released[e] \in Nat
      BY <1>1, UpgradesConstants DEF Types
    <3>3. \A e \in Entities : age[e] \in 0 .. Horizon \/ age[e] = Released[e]
      BY <1>1 DEF Dated
    <3> QED BY <3>1, <3>2, <3>3
  <2> QED
    BY <2>1, <2>2
       DEF UpgradesNext, ReconcilerStep, StartRun, RecoverNext, Inventory, SyncCompleted,
           NextEntity, ApprovedRelease, CountSearch, CompleteSearch, ObserveGrab, RecordIntent,
           RecordCandidateInvalidated, Crash, Admit, MarkAttempted, GrabRelease, BindGrab,
           MarkObserved, GiveUp, IntakeTakes, ArrGrabs, Import
<1>4. \A e \in Entities : /\ file[e] \in Nat /\ age[e] \in Nat /\ checkpoint[e].gen \in Nat
                          /\ retry[e].gen \in Nat /\ checkpoint[e].attempts \in Nat
  BY <1>1 DEF Types, ScheduleTypes
\* The thread knows only files that it listed.
<1>5. rec'.files # <<>> => \A e \in Entities : rec'.files[e] \in 1 .. file'[e]
  <2>1. CASE rec'.files = rec.files \/ rec'.files = <<>>
    BY <1>1, <1>2, <1>4, <2>1 DEF Dated
  <2>2. CASE Inventory
    <3>1. rec'.files = rec.files \/ (rec'.files = file /\ file' = file)
      BY <1>1, <2>2 DEF Inventory, To, Thread
    <3> QED BY <1>2, <1>4, <2>1, <3>1, <1>1 DEF Dated
  <2>3. ASSUME ~Inventory PROVE rec'.files = rec.files \/ rec'.files = <<>>
    <3>1. CASE UNCHANGED rec \/ rec' = Idle
      BY <3>1, IdleIs
    <3>2. CASE StartRun
      BY <3>2, IdleIs DEF StartRun, Thread
    <3>3. CASE RecoverNext \/ SyncCompleted \/ ApprovedRelease \/ CountSearch \/ CompleteSearch
      BY <1>1, <3>3
         DEF RecoverNext, SyncCompleted, ApprovedRelease, CountSearch, CompleteSearch, To, Thread
    <3>4. CASE NextEntity
      BY <1>1, <3>1, <3>4 DEF NextEntity, Thread
    <3>5. CASE RecordIntent
      BY <3>5, RequestRecorded
    <3>6. CASE Admit \/ MarkAttempted \/ GrabRelease \/ ObserveGrab \/ BindGrab \/ MarkObserved
      <4>1. \/ \E pc \in Places : To(pc)
            \/ \E b \in BOOLEAN : Handed(b)
        BY <3>6
           DEF Admit, MarkAttempted, GrabRelease, ObserveGrab, BindGrab, MarkObserved, Places
      <4> QED BY <1>1, <4>1, HandedMoves, ToMoves
    <3> QED
      BY <2>3, <3>1, <3>2, <3>3, <3>4, <3>5, <3>6
         DEF UpgradesNext, ReconcilerStep, RecordCandidateInvalidated, Crash, GiveUp, IntakeTakes, ArrGrabs,
             Import, Pass
  <2> QED BY <2>1, <2>2, <2>3
\* A request is for a file the thread knows.
<1>6. \A op \in Ops : intent'[op].entity # No => intent'[op].gen \in 1 .. file'[intent'[op].entity]
  <2>1. \A op \in Ops : intent[op] \in Request
    BY <1>1 DEF Types
  <2>2. ASSUME NEW op \in Ops, intent'[op].entity = intent[op].entity, intent'[op].gen = intent[op].gen,
               intent[op].entity # No
        PROVE  intent'[op].gen \in 1 .. file'[intent'[op].entity]
    <3>1. intent[op].entity \in Entities /\ intent[op].gen \in 1 .. file[intent[op].entity]
      BY <1>1, <2>1, <2>2 DEF Dated, Request
    <3> QED BY <1>2, <1>4, <2>2, <3>1
  <2>3. CASE RecordIntent
    <3>1. UNCHANGED file /\ rec.entity \in Entities /\ rec.entity # No
      BY <1>1, <2>3, UpgradesConstants DEF RecordIntent, At, Awaits, No
    <3>2. rec.files[rec.entity] \in 1 .. file[rec.entity]
      <4>1. rec.files \in [Entities -> Nat]
        BY <1>1, <3>1 DEF Types
      <4>2. <<>> \notin [Entities -> Nat]
        BY <3>1
      <4> QED BY <1>1, <3>1, <4>1, <4>2 DEF Dated
    <3>3. CASE UNCHANGED intent
      BY <2>2, <3>3
    <3>4. ASSUME NEW op \in Spare, intent'[op].entity = rec.entity, intent'[op].gen = rec.files[rec.entity],
                 \A o \in Ops : o # op => intent'[o] = intent[o]
          PROVE  \A o \in Ops : intent'[o].entity # No => intent'[o].gen \in 1 .. file'[intent'[o].entity]
      BY <2>2, <3>1, <3>2, <3>4
    <3> QED BY <2>3, <3>3, <3>4, RequestRecorded
  <2>4. CASE ~RecordIntent
    BY <2>2, <2>4, RequestsKept
  <2> QED BY <2>3, <2>4
\* A record of a search is one of a file that was listed.
<1>7. ASSUME NEW e \in Entities
      PROVE  /\ checkpoint'[e].gen <= file'[e] /\ retry'[e].gen <= file'[e]
             /\ (checkpoint'[e].gen = No) = (checkpoint'[e].attempts = 0)
             /\ checkpoint'[e].gen = No => ~checkpoint'[e].terminal
  <2>1. /\ checkpoint[e].gen <= file[e] /\ retry[e].gen <= file[e]
        /\ (checkpoint[e].gen = No) = (checkpoint[e].attempts = 0)
        /\ checkpoint[e].gen = No => ~checkpoint[e].terminal
        /\ file[e] <= file'[e] /\ file'[e] \in Nat
    BY <1>1, <1>2 DEF Dated
  <2>2. CASE UNCHANGED <<checkpoint, retry>>
    BY <1>4, <2>1, <2>2
  <2>3. CASE CompleteSearch \/ (SyncCompleted /\ UNCHANGED rec)
    <3>1. ASSUME NEW f \in Entities, NEW g \in Nat, NEW t \in BOOLEAN, NEW op,
                 RecordCompleted(f, g, t, op), g \in 1 .. file[f]
          PROVE  /\ checkpoint'[e].gen <= file'[e] /\ retry'[e].gen <= file'[e]
                 /\ (checkpoint'[e].gen = No) = (checkpoint'[e].attempts = 0)
                 /\ checkpoint'[e].gen = No => ~checkpoint'[e].terminal
      <4>1. CASE e # f
        <5>1. checkpoint'[e] = checkpoint[e] /\ retry'[e] = retry[e]
          BY <3>1, <4>1 DEF RecordCompleted
        <5> QED BY <1>4, <2>1, <5>1
      <4>2. CASE e = f
        <5>1. /\ checkpoint'[e].gen = g /\ checkpoint'[e].attempts = Attempts(e, g) + 1
              /\ retry'[e].gen = No
          BY <1>1, <3>1, <4>2, CompletedIs
        <5>2. Attempts(e, g) \in Nat
          BY <1>4 DEF Attempts
        <5> QED BY <1>4, <2>1, <3>1, <4>2, <5>1, <5>2 DEF No
      <4> QED BY <4>1, <4>2
    <3> QED BY <2>2, <2>3, <3>1, RecordsOf
  <2>4. CASE ApprovedRelease
    <3>1. rec.entity \in Entities /\ UNCHANGED <<file, checkpoint>> /\ rec.files \in [Entities -> Nat]
      BY <1>1, <2>4, UpgradesConstants DEF ApprovedRelease, At, Awaits, Types, No
    <3>2. rec.files[rec.entity] \in 1 .. file[rec.entity]
      <4>1. <<>> \notin [Entities -> Nat]
        BY <3>1
      <4> QED BY <1>1, <3>1, <4>1 DEF Dated
    <3>3. CASE UNCHANGED retry
      BY <2>2, <3>1, <3>3
    <3>4. CASE RecordTransientFailure(rec.entity, rec.files[rec.entity])
      <4>1. retry'[e].gen = retry[e].gen \/ (e = rec.entity /\ retry'[e].gen = rec.files[rec.entity])
        BY <1>1, <3>1, <3>4, FailureIs
      <4> QED BY <1>4, <2>1, <3>1, <3>2, <4>1
    <3> QED BY <2>4, <3>3, <3>4 DEF ApprovedRelease
  <2>5. CASE Pass
    BY <1>1, <1>4, <2>1, <2>5, PassIs
  <2>6. CASE \/ StartRun \/ RecoverNext \/ Inventory \/ NextEntity \/ CountSearch \/ RecordIntent
             \/ Admit \/ MarkAttempted \/ GrabRelease \/ ObserveGrab \/ BindGrab \/ MarkObserved
             \/ RecordCandidateInvalidated \/ Crash
             \/ (SyncCompleted /\ ~UNCHANGED rec)
             \/ \E op \in Ops : GiveUp(op) \/ IntakeTakes(op) \/ ArrGrabs(op) \/ Import(op)
    <3>1. UNCHANGED <<checkpoint, retry>>
      BY <2>6
         DEF StartRun, RecoverNext, Inventory, SyncCompleted, NextEntity, CountSearch,
             RecordIntent, Admit, MarkAttempted, MarkObserved, GrabRelease, ObserveGrab,
             BindGrab, RecordCandidateInvalidated, GiveUp, IntakeTakes, ArrGrabs, Import, Crash, schedule
    <3> QED BY <2>2, <3>1
  <2> QED BY <2>3, <2>4, <2>5, <2>6 DEF UpgradesNext, ReconcilerStep
<1> QED BY <1>2, <1>3, <1>5, <1>6, <1>7 DEF Dated

\* While the requests and what is recorded of them stay, a thread that stays or goes back
\* to its beginning follows its course.
LEMMA FollowsOfSame ==
  ASSUME Follows, rec \in Thread, UNCHANGED <<intent, recorded>>,
         \/ UNCHANGED rec /\ (rec.fresh => UNCHANGED age)
         \/ rec' = Idle
  PROVE  Follows'
<1>1. CASE UNCHANGED rec /\ (rec.fresh => UNCHANGED age)
  BY <1>1 DEF Follows, Requested, Unsynced, Pending
<1>2. CASE rec' = Idle
  <2>1. rec'.todo = {} /\ rec'.pc = "idle" /\ rec'.op = No /\ ~rec'.fresh /\ rec'.due = <<>>
    BY <1>2 DEF Idle
  <2> QED BY <2>1 DEF Follows, Handoff
<1> QED BY <1>1, <1>2

\* _recover_intent ends without a binding.
LEMMA FollowsOfHanded ==
  ASSUME Follows, rec \in Thread, rec.pc \in Handoff, UNCHANGED <<intent, recorded, age>>,
         Handed(FALSE)
  PROVE  Follows'
<1>1. /\ rec'.todo = rec.todo /\ rec'.due = rec.due /\ rec'.files = rec.files
      /\ ~rec.fresh => rec'.pc = "recover" /\ rec'.op = No /\ ~rec'.fresh
      /\ rec.fresh => rec'.pc = "next" /\ rec'.op = No /\ ~rec'.fresh
  BY HandedMoves
<1>2. \A op \in rec.todo : Requested(op)'
  BY DEF Follows, Requested
<1>3. Unsynced' = Unsynced
  BY DEF Unsynced
<1>4. CASE ~rec.fresh
  BY <1>1, <1>2, <1>4 DEF Follows, Handoff
<1>5. CASE rec.fresh
  <2>1. rec.op \notin Unsynced
    BY DEF Follows, Requested, Unsynced
  <2>2. Unsynced' = {}
    BY <1>3, <1>5, <2>1 DEF Follows
  <2> QED BY <1>1, <1>2, <1>5, <2>2 DEF Follows, Handoff
<1> QED BY <1>4, <1>5

\* The next step of the handoff is about the same request.
LEMMA FollowsOfTo ==
  ASSUME Follows, rec \in Thread, rec.pc \in Handoff, UNCHANGED <<recorded, age>>,
         \A op \in Ops : /\ intent'[op].entity = intent[op].entity
                         /\ intent'[op].gen = intent[op].gen
                         /\ intent'[op].terminal = intent[op].terminal
                         /\ intent'[op].observed = intent[op].observed,
         rec.op \in Ops, NEW pc \in Handoff, To(pc)
  PROVE  Follows'
<1>1. /\ rec'.pc = pc /\ rec'.op = rec.op /\ rec'.fresh = rec.fresh
      /\ rec'.todo = rec.todo /\ rec'.due = rec.due /\ rec'.files = rec.files
      /\ rec'.entity = rec.entity
  BY ToMoves DEF Handoff, Places
<1>2. rec.todo \subseteq Ops
  BY DEF Thread
<1>3. \A op \in Ops : Requested(op)' = Requested(op)
  BY DEF Requested
<1>4. Unsynced' = Unsynced
  BY DEF Unsynced
<1> QED BY <1>1, <1>2, <1>3, <1>4 DEF Follows, Handoff

\* The places of a handoff follow each other.
LEMMA FollowsHandoff ==
  ASSUME ScheduleInv,
         Admit \/ MarkAttempted \/ GrabRelease \/ ObserveGrab \/ BindGrab \/ MarkObserved
  PROVE  Follows'
<1>1. Follows /\ Posts /\ Types /\ Awaits /\ Settled /\ rec \in Thread
  BY DEF ScheduleInv, UpgradesInv, Types
<1>2. rec.pc \in Handoff /\ rec.op \in Ops /\ UNCHANGED <<recorded, age>>
  BY <1>1 DEF Posts, Admit, MarkAttempted, GrabRelease, ObserveGrab, BindGrab, MarkObserved, At,
              Handoff, schedule
<1>3. ASSUME UNCHANGED intent, NEW pc \in Handoff, To(pc) PROVE Follows'
  BY <1>1, <1>2, <1>3, FollowsOfTo
<1>4. ASSUME UNCHANGED intent, Handed(FALSE) PROVE Follows'
  BY <1>1, <1>2, <1>4, FollowsOfHanded
<1>5. CASE Admit \/ GrabRelease \/ ObserveGrab \/ BindGrab
  BY <1>3, <1>4, <1>5 DEF Admit, GrabRelease, ObserveGrab, BindGrab, Handoff
<1>6. CASE MarkAttempted
  <2>1. \A op \in Ops : /\ intent'[op].entity = intent[op].entity
                        /\ intent'[op].gen = intent[op].gen
                        /\ intent'[op].terminal = intent[op].terminal
                        /\ intent'[op].observed = intent[op].observed
    BY <1>1, <1>2, <1>6 DEF MarkAttempted, Types, Request
  <2>2. To("post") /\ "post" \in Handoff
    BY <1>6 DEF MarkAttempted, Handoff
  <2> QED BY <1>1, <1>2, <2>1, <2>2, FollowsOfTo
<1>7. CASE MarkObserved
  <2>1. \A op \in Ops : /\ intent'[op].entity = intent[op].entity
                        /\ intent'[op].gen = intent[op].gen
                        /\ intent'[op].terminal = intent[op].terminal
                        /\ intent'[op].observed = (intent[op].observed \/ op = rec.op)
    BY <1>1, <1>2, <1>7 DEF MarkObserved, Types, Request
  <2>2. Requested(rec.op) /\ rec.op \notin rec.todo /\ rec.todo \subseteq Ops
    BY <1>1, <1>2 DEF Follows, Thread
  <2>3. \A op \in rec.todo : Requested(op)'
    BY <1>1, <2>1, <2>2 DEF Follows, Requested
  <2>4. Unsynced' = Unsynced \union {rec.op}
    <3>1. rec.op \notin recorded
      BY <1>1, <2>2 DEF Settled, Requested
    <3> QED BY <1>2, <2>1, <3>1 DEF Unsynced
  <2>5. Handed(TRUE)
    BY <1>7 DEF MarkObserved
  <2>6. CASE ~rec.fresh
    <3>1. /\ rec'.todo = rec.todo /\ rec'.due = rec.due
          /\ rec'.pc = "recover" /\ rec'.op = No /\ ~rec'.fresh
      BY <1>1, <2>5, <2>6, HandedMoves
    <3> QED BY <1>1, <1>2, <2>3, <2>6, <3>1 DEF Follows, Handoff
  <2>7. CASE rec.fresh
    <3>1. /\ rec'.todo = rec.todo /\ rec'.due = rec.due /\ rec'.files = rec.files
          /\ rec'.pc = "complete" /\ rec'.op = rec.op /\ rec'.fresh /\ rec'.entity = rec.entity
      BY <1>1, <2>5, <2>7, HandedMoves
    <3>2. /\ rec.entity \in Entities /\ intent[rec.op].entity = rec.entity
          /\ intent[rec.op].gen = rec.files[rec.entity]
          /\ intent[rec.op].terminal = (age[rec.entity] >= Horizon)
          /\ Unsynced \subseteq {rec.op}
      BY <1>1, <2>7 DEF Follows
    <3>3. \A i \in DOMAIN rec.due : rec.due[i] # rec.entity
      BY <1>1, <1>2, <2>2, <3>2 DEF Awaits, Pending
    <3>4. rec.op # No /\ rec.op \notin recorded
      BY <1>1, <1>2, <2>2, UpgradesConstants DEF Settled, Requested, No
    <3>5. /\ rec'.fresh /\ rec'.op \in Ops /\ Unsynced' \subseteq {rec'.op}
          /\ rec'.entity \in Entities
          /\ intent'[rec'.op].entity = rec'.entity
          /\ intent'[rec'.op].gen = rec'.files[rec'.entity]
          /\ intent'[rec'.op].terminal = (age'[rec'.entity] >= Horizon)
      BY <1>2, <2>1, <2>4, <3>1, <3>2
    <3>6. /\ intent'[rec'.op].observed /\ rec'.op # No /\ rec'.op \notin recorded'
          /\ \A i \in DOMAIN rec'.due : rec'.due[i] # rec'.entity
      BY ZenonT(40), <1>2, <2>1, <3>1, <3>3, <3>4
    <3>7. \A op \in rec'.todo : Requested(op)'
      BY <2>3, <3>1
    <3> QED BY <3>1, <3>5, <3>6, <3>7 DEF Follows, Handoff
  <2> QED BY <2>6, <2>7
<1> QED BY <1>5, <1>6, <1>7

\* Every step leaves the thread where the next one expects it.
LEMMA FollowsNext ==
  ASSUME ScheduleInv, UpgradesNext PROVE Follows'
<1>1. Follows /\ Posts /\ Types /\ Awaits /\ Settled /\ Dated /\ ScheduleTypes /\ rec \in Thread
  BY DEF ScheduleInv, UpgradesInv, Types
<1>2. CASE RecordCandidateInvalidated \/ Pass \/ Crash
           \/ \E op \in Ops : GiveUp(op) \/ IntakeTakes(op) \/ ArrGrabs(op) \/ Import(op)
  <2>1. UNCHANGED <<intent, recorded>>
    BY <1>2 DEF RecordCandidateInvalidated, Pass, Crash, GiveUp, IntakeTakes, ArrGrabs, Import, schedule
  <2>2. \/ UNCHANGED rec /\ (rec.fresh => UNCHANGED age)
        \/ rec' = Idle
    BY <1>2 DEF RecordCandidateInvalidated, Pass, Crash, GiveUp, IntakeTakes, ArrGrabs, Import, Idle
  <2> QED BY <1>1, <2>1, <2>2, FollowsOfSame
<1>3. CASE StartRun
  <2>1. /\ UNCHANGED <<intent, recorded>> /\ rec'.todo = {op \in Ops : Requested(op)}
        /\ rec'.pc = "recover" /\ rec'.op = No /\ ~rec'.fresh /\ rec'.due = <<>>
    BY <1>3 DEF StartRun, schedule, Idle
  <2>2. \A op \in rec'.todo : Requested(op)'
    BY <2>1 DEF Requested
  <2> QED BY <2>1, <2>2 DEF Follows, Handoff
<1>4. CASE RecoverNext
  <2>1. UNCHANGED <<intent, recorded>> /\ rec.pc = "recover"
    BY <1>4 DEF RecoverNext, At, schedule
  <2>2. /\ \A op \in rec.todo : Requested(op)' /\ Requested(op)
        /\ rec.op = No /\ ~rec.fresh /\ rec.due = <<>>
    BY <1>1, <2>1 DEF Follows, Requested, Handoff
  <2>3. CASE To("inventory")
    <3>1. /\ rec'.pc = "inventory" /\ rec'.op = rec.op /\ rec'.fresh = rec.fresh
          /\ rec'.todo = rec.todo /\ rec'.due = rec.due
      BY <1>1, <2>3, ToMoves DEF Places
    <3> QED BY <2>2, <3>1 DEF Follows, Handoff
  <2>4. ASSUME NEW op \in rec.todo,
               rec' = [rec EXCEPT !.todo = @ \ {op}, !.op = op,
                                  !.pc = IF intent[op].attempted THEN "observe" ELSE "admit"]
        PROVE  Follows'
    <3>1. /\ rec'.todo = rec.todo \ {op} /\ rec'.op = op /\ rec'.fresh = rec.fresh
          /\ rec'.due = rec.due /\ rec'.pc \in {"observe", "admit"}
      BY <1>1, <2>4 DEF Thread
    <3> QED BY <2>2, <3>1 DEF Follows, Handoff
  <2> QED BY <1>4, <2>3, <2>4 DEF RecoverNext, Least
<1>5. CASE Inventory
  <2>1. UNCHANGED <<intent, recorded>> /\ rec.pc = "inventory"
    BY <1>5 DEF Inventory, At, schedule
  <2>2. /\ \A op \in rec.todo : Requested(op)'
        /\ rec.op = No /\ ~rec.fresh /\ rec.due = <<>>
    BY <1>1, <2>1 DEF Follows, Requested, Handoff
  <2>3. /\ rec'.pc = "sync" /\ rec'.op = rec.op /\ rec'.fresh = rec.fresh
        /\ rec'.todo = rec.todo /\ rec'.due = rec.due
    BY <1>1, <1>5 DEF Inventory, To, Thread
  <2> QED BY <2>2, <2>3 DEF Follows, Handoff
<1>6. CASE SyncCompleted
  <2>1. UNCHANGED intent /\ rec.pc = "sync"
    BY <1>6 DEF SyncCompleted, At
  <2>2. /\ \A op \in rec.todo : Requested(op)'
        /\ rec.op = No /\ ~rec.fresh /\ rec.due = <<>>
    BY <1>1, <2>1 DEF Follows, Requested, Handoff
  <2>3. CASE UNCHANGED rec
    BY <2>1, <2>2, <2>3 DEF Follows, Handoff
  <2>4. ASSUME Unsynced = {}, UNCHANGED recorded, NEW due,
               rec' = [rec EXCEPT !.pc = "next", !.due = due]
        PROVE  Follows'
    <3>1. /\ rec'.pc = "next" /\ rec'.op = rec.op /\ rec'.fresh = rec.fresh
          /\ rec'.todo = rec.todo
      BY <1>1, <2>4 DEF Thread
    <3>2. Unsynced' = {}
      BY <2>1, <2>4 DEF Unsynced
    <3> QED BY <2>2, <3>1, <3>2 DEF Follows, Handoff
  <2> QED BY <1>6, <2>3, <2>4 DEF SyncCompleted
<1>7. CASE NextEntity
  <2>1. UNCHANGED <<intent, recorded, age>> /\ rec.pc = "next"
    BY <1>7 DEF NextEntity, At, schedule
  <2>2. /\ \A op \in rec.todo : Requested(op)'
        /\ rec.op = No /\ ~rec.fresh /\ Unsynced' = {}
    BY <1>1, <2>1 DEF Follows, Requested, Handoff, Unsynced
  <2>3. CASE rec' = Idle
    BY <1>1, <2>1, <2>3, FollowsOfSame
  <2>4. CASE rec' # Idle
    <3>1. /\ rec'.pc \in {"next", "search"} /\ rec'.op = rec.op /\ rec'.fresh = rec.fresh
          /\ rec'.todo = rec.todo
      BY <1>1, <1>7, <2>1, <2>4 DEF NextEntity, Thread
    <3> QED BY <2>2, <3>1 DEF Follows, Handoff
  <2> QED BY <2>3, <2>4
<1>8. CASE ApprovedRelease \/ CountSearch
  <2>1. UNCHANGED <<intent, recorded, age>> /\ rec.pc \in {"search", "count"}
    BY <1>8 DEF ApprovedRelease, CountSearch, At
  <2>2. /\ \A op \in rec.todo : Requested(op)'
        /\ rec.op = No /\ ~rec.fresh /\ Unsynced' = {} /\ Unsynced = {}
    BY <1>1, <2>1 DEF Follows, Requested, Handoff, Unsynced
  <2>3. /\ rec'.pc \in {"next", "count", "client"} \/ (rec'.pc = "complete" /\ rec'.entity = rec.entity)
        /\ rec'.op = rec.op /\ rec'.fresh = rec.fresh
        /\ rec'.todo = rec.todo /\ rec'.due = rec.due
    <3>1. CASE ApprovedRelease
      BY <1>1, <3>1 DEF ApprovedRelease, Thread
    <3>2. CASE CountSearch
      BY <1>1, <3>2 DEF CountSearch, Thread
    <3> QED BY <1>8, <3>1, <3>2
  <2>4. Pending' = Pending
    BY <2>1 DEF Pending, Requested
  <2>5. /\ rec.entity \in Entities /\ rec.entity \notin Pending
        /\ \A i \in DOMAIN rec.due : rec.due[i] # rec.entity
    BY <1>1, <2>1 DEF Awaits
  <2> QED BY <2>2, <2>3, <2>4, <2>5 DEF Follows, Handoff
<1>9. CASE RecordIntent
  <2>1. rec.pc = "client" /\ UNCHANGED age
    BY <1>9 DEF RecordIntent, At
  <2>2. /\ \A op \in rec.todo : Requested(op)
        /\ rec.op = No /\ ~rec.fresh /\ Unsynced = {} /\ rec.todo \subseteq Ops /\ rec.entity \in Entities
    BY <1>1, <2>1 DEF Follows, Handoff, Thread, Awaits
  <2>3. CASE /\ UNCHANGED <<intent, recorded>>
             /\ rec'.pc = "next" /\ rec'.op = rec.op /\ rec'.fresh = rec.fresh
             /\ rec'.todo = rec.todo
    <3>1. Unsynced' = {} /\ \A op \in rec.todo : Requested(op)'
      BY <2>2, <2>3 DEF Unsynced, Requested
    <3> QED BY <2>2, <2>3, <3>1 DEF Follows, Handoff
  <2>4. ASSUME NEW op \in Spare,
               intent'[op].entity = rec.entity, intent'[op].gen = rec.files[rec.entity],
               intent'[op].terminal = (age[rec.entity] >= Horizon),
               intent'[op].observed = FALSE,
               \A o \in Ops : o # op => intent'[o] = intent[o],
               recorded' = recorded \ {op},
               rec'.pc = "admit", rec'.op = op, rec'.fresh = TRUE,
               rec'.todo = rec.todo, rec'.files = rec.files, rec'.entity = rec.entity
        PROVE  Follows'
    <3>1. op \in Ops /\ ~Requested(op) /\ Requested(op)'
      BY <2>2, <2>4, UpgradesConstants DEF Spare, Requested, NoIntent, No
    <3>2. op \notin rec.todo /\ \A o \in rec.todo : Requested(o)'
      BY <2>2, <2>4, <3>1 DEF Requested
    <3>3. Unsynced' = {}
      BY <2>2, <2>4 DEF Unsynced
    <3> QED BY <2>1, <2>2, <2>4, <3>1, <3>2, <3>3 DEF Follows, Handoff
  <2> QED BY <1>9, <2>3, <2>4, RequestRecorded
<1>10. CASE CompleteSearch
  <2>1. rec.pc = "complete" /\ UNCHANGED <<intent, age>>
    BY <1>10 DEF CompleteSearch, At
  <2>2. /\ rec'.pc = "next" /\ rec'.op = No /\ ~rec'.fresh /\ rec'.todo = rec.todo
    BY <1>1, <1>10 DEF CompleteSearch, Thread
  <2>3. recorded' = recorded \union ({rec.op} \ {No})
    BY <1>10 DEF CompleteSearch, RecordCompleted
  <2>4. Unsynced \subseteq {rec.op} /\ (rec.op = No => Unsynced = {})
    BY <1>1, <2>1 DEF Follows
  <2>5. Unsynced' = {}
    BY <2>1, <2>3, <2>4 DEF Unsynced
  <2>6. \A op \in rec.todo : Requested(op)'
    BY <1>1, <2>1 DEF Follows, Requested
  <2> QED BY <2>2, <2>5, <2>6 DEF Follows, Handoff
<1>11. CASE Admit \/ MarkAttempted \/ GrabRelease \/ ObserveGrab \/ BindGrab \/ MarkObserved
  BY <1>11, FollowsHandoff
<1> QED
  BY <1>2, <1>3, <1>4, <1>5, <1>6, <1>7, <1>8, <1>9, <1>10, <1>11 DEF UpgradesNext, ReconcilerStep

\* The initial schedule has the invariant.
LEMMA ScheduleInvInit == ASSUME UpgradesInit PROVE ScheduleInv
<1>1. UpgradesInv
  BY UpgradesInvInit
<1>2. /\ rec = Idle /\ recorded = {} /\ intent = [op \in Ops |-> NoIntent]
      /\ age = Released /\ file = [e \in Entities |-> 1]
      /\ checkpoint = [e \in Entities |-> NoCheckpoint]
      /\ retry = [e \in Entities |-> NoRetry]
      /\ replacement = [e \in Entities |-> NoReplacement]
      /\ answers = [e \in Entities |-> [gen |-> No, count |-> 0]]
      /\ budget = <<>> /\ asked = <<>> /\ emits = No /\ given = 0 /\ faults = 0 /\ crashes = 0
  BY DEF UpgradesInit
<1>3. ScheduleTypes
  <2>1. 0 \in Waits(CooldownCap) /\ 0 \in Waits(RetryCap) /\ 0 \in Waits(ReplaceCap)
    BY UpgradesConstants DEF Waits
  <2>2. <<>> \in Seq(1 .. Hour)
    OBVIOUS
  <2> QED BY <1>2, <2>1, <2>2 DEF ScheduleTypes, NoCheckpoint, NoRetry, NoReplacement, No
<1>4. Follows
  BY <1>2 DEF Follows, Handoff, Idle
<1>5. Dated
  <2>1. \A e \in Entities : /\ age[e] = Released[e] /\ file[e] = 1 /\ checkpoint[e].gen = 0
                            /\ checkpoint[e].attempts = 0 /\ retry[e].gen = 0
                            /\ ~checkpoint[e].terminal
    BY <1>2 DEF NoCheckpoint, NoRetry, No
  <2>2. MaxFiles \in Nat \ {0}
    BY UpgradesConstants
  <2>3. rec.files = <<>> /\ \A op \in Ops : intent[op].entity = No
    BY <1>2 DEF NoIntent, Idle
  <2> QED BY <2>1, <2>2, <2>3 DEF Dated, No
<1>6. Settled
  BY <1>2 DEF Settled, NoIntent
<1> QED BY <1>1, <1>3, <1>4, <1>5, <1>6 DEF ScheduleInv

\* The invariant of the requests, one step at a time.
LEMMA UpgradesInvNext == ASSUME UpgradesInv, UpgradesNext PROVE UpgradesInv'
<1>1. Types'
  BY TypesNext
<1>2. Posts' /\ GrabbedOnce'
  BY PostsNext DEF UpgradesInv
<1> QED BY <1>1, <1>2, AwaitsNext DEF UpgradesInv

\* Every step keeps the invariant of the schedule.
LEMMA ScheduleInvNext == ASSUME ScheduleInv, UpgradesNext PROVE ScheduleInv'
BY UpgradesInvNext, ScheduleTypesNext, FollowsNext, DatedNext, SettledNext DEF ScheduleInv

\* So does a stuttering step.
LEMMA ScheduleInvSame == ASSUME ScheduleInv, UNCHANGED vars PROVE ScheduleInv'
<1>1. UNCHANGED <<age, file, checkpoint, retry, replacement, budget, recorded, intent, fence,
                  arr, rec, emits, answers, asked, given, faults, crashes>>
  BY DEF vars, schedule, ghosts, bounds
<1>2. UpgradesInv'
  BY <1>1 DEF ScheduleInv, UpgradesInv, Types, Posts, GrabbedOnce, Awaits, Pending, Requested,
              OneRequestPerEntity
<1>3. ScheduleTypes'
  BY <1>1 DEF ScheduleInv, ScheduleTypes
<1>4. Follows'
  BY <1>1, FollowsOfSame DEF ScheduleInv, UpgradesInv, Types
<1>5. Dated' /\ Settled'
  BY <1>1 DEF ScheduleInv, Dated, Settled
<1> QED BY <1>2, <1>3, <1>4, <1>5 DEF ScheduleInv

\* The invariant of the schedule holds in every behaviour.
LEMMA ScheduleInvHolds == Spec => []ScheduleInv
<1>1. ScheduleInv /\ [UpgradesNext]_vars => ScheduleInv'
  BY ScheduleInvNext, ScheduleInvSame
<1> QED BY <1>1, ScheduleInvInit, PTL DEF Spec

\* Every record of the schedule is about a file that is or was there, no wait is longer than
\* its cap, and what is recorded was observed, and attempted before: for every policy, however
\* long the backoff (cooldown_for_completed_searches, record_completed and the two records of
\* a failure in reconciler/scheduler.py).
THEOREM UpgradesAreTyped == Spec => []UpgradesTypeOK
<1>1. ScheduleInv => UpgradesTypeOK
  <2> SUFFICES ASSUME ScheduleInv PROVE UpgradesTypeOK
    OBVIOUS
  <2>1. Types /\ ScheduleTypes /\ Dated /\ Settled
    BY DEF ScheduleInv, UpgradesInv
  <2>2. ASSUME NEW e \in Entities
        PROVE  /\ age[e] \in 0 .. Horizon \union {Released[e]} /\ file[e] \in 1 .. MaxFiles
               /\ checkpoint[e].gen \in 0 .. file[e]
               /\ checkpoint[e].wait \in Waits(CooldownCap)
               /\ (checkpoint[e].gen = No) = (checkpoint[e].attempts = 0)
               /\ retry[e].gen \in 0 .. file[e] /\ retry[e].wait \in Waits(RetryCap)
               /\ replacement[e].wait \in Waits(ReplaceCap)
    <3>1. /\ checkpoint[e].gen \in Nat /\ retry[e].gen \in Nat /\ file[e] \in Nat
          /\ checkpoint[e].wait \in Waits(CooldownCap) /\ retry[e].wait \in Waits(RetryCap)
          /\ replacement[e].wait \in Waits(ReplaceCap)
      BY <2>1 DEF Types, ScheduleTypes
    <3> QED BY <2>1, <3>1 DEF Dated
  <2>3. ASSUME NEW op \in Ops
        PROVE  /\ fence[op] \in {"none", "reserved", "active", "taken", "gone", "done"}
               /\ arr[op] \in {"none", "posted", "grabbed", "left", "twice"}
               /\ intent[op].observed => intent[op].attempted
    BY <2>1 DEF Types, Settled
  <2>4. /\ recorded \subseteq {op \in Ops : intent[op].observed}
        /\ rec.entity \in Entities \union {No} /\ rec.op \in Ops \union {No}
        /\ emits \in Entities \union {No}
    BY <2>1 DEF Settled, Types, Thread, ScheduleTypes
  <2> QED BY <2>2, <2>3, <2>4 DEF UpgradesTypeOK
<1> QED BY <1>1, ScheduleInvHolds, PTL

-----------------------------------------------------------------------------
(* The budget of the hour.                                                 *)

\* The budget counts what Arr answered, but for the answer in hand and those that a restart
\* kept from being counted; and so it will at every later moment h.
Counted ==
  /\ Len(budget) <= PerHour
  /\ rec.pc \in {"search", "count"} => WithinBudget
  /\ \A h \in Nat :
       Cardinality(Left(asked, h)) <= Cardinality(Left(budget, h)) + crashes + One(rec.pc = "count")

\* One is the indicator of a condition.
LEMMA OneIs == ASSUME NEW p PROVE One(p) \in {0, 1}
BY DEF One

\* Both lists of events can be counted.
LEMMA LeftIsNat ==
  ASSUME ScheduleTypes, NEW h \in Int
  PROVE  /\ Cardinality(Left(asked, h)) \in Nat /\ Cardinality(Left(budget, h)) \in Nat
         /\ asked \in Seq(Int) /\ budget \in Seq(Int)
<1>1. asked \in Seq(Int) /\ budget \in Seq(Int)
  <2>1. Hour \in Nat
    BY UpgradesConstants
  <2>2. asked \in Seq(1 .. Hour) /\ budget \in Seq(1 .. Hour)
    BY DEF ScheduleTypes
  <2> QED BY <2>1, <2>2
<1> QED BY <1>1, LeftIsFinite

\* The whole of a list of events is what more than nothing is left of.
LEMMA LeftIsLen ==
  ASSUME NEW m \in Nat, NEW s \in Seq(1 .. m) PROVE Cardinality(Left(s, 0)) = Len(s)
<1>1. Left(s, 0) = 1 .. Len(s) /\ Len(s) \in Nat
  <2>1. Len(s) \in Nat /\ \A i \in DOMAIN s : s[i] \in 1 .. m
    OBVIOUS
  <2>2. DOMAIN s = 1 .. Len(s)
    OBVIOUS
  <2> QED BY <2>1, <2>2 DEF Left
<1> DEFINE n == Len(s)
<1>2. Cardinality(1 .. n) = IF 1 > n THEN 0 ELSE n - 1 + 1
  <2>1. n \in Int /\ 1 \in Int
    BY <1>1
  <2> HIDE DEF n
  <2> QED BY <2>1, FS_Interval
<1>3. Cardinality(1 .. Len(s)) = Len(s)
  BY <1>1, <1>2
<1> QED BY <1>1, <1>3

\* Less is left of the events later.
LEMMA LeftShrinks ==
  ASSUME NEW s \in Seq(Int), NEW h \in Int
  PROVE  Cardinality(Left(s, h + 1)) <= Cardinality(Left(s, h))
<1>1. Left(s, h + 1) \subseteq Left(s, h)
  <2>1. \A i \in DOMAIN s : s[i] \in Int
    OBVIOUS
  <2> QED BY <2>1 DEF Left
<1> QED BY <1>1, LeftIsFinite, FS_Subset

\* No event is longer than the hour.
LEMMA LeftOfNone ==
  ASSUME NEW m \in Nat, NEW s \in Seq(1 .. m), NEW h \in Nat, m <= h
  PROVE  Cardinality(Left(s, h)) = 0
<1>1. Left(s, h) = {}
  <2>1. \A i \in DOMAIN s : s[i] \in 1 .. m
    OBVIOUS
  <2> QED BY <2>1 DEF Left
<1> QED BY <1>1, FS_EmptySet

\* A step counts an answer at most once, and the thread asks only within the budget.
LEMMA CountedNext ==
  ASSUME ScheduleInv, Counted, UpgradesNext PROVE Counted'
<1>1. ScheduleTypes /\ ScheduleTypes' /\ Types /\ rec \in Thread
  BY ScheduleTypesNext DEF ScheduleInv, UpgradesInv, Types
<1>2. /\ crashes \in Nat /\ Hour \in Nat \ {0} /\ PerHour \in Nat /\ Len(budget) \in Nat
      /\ asked \in Seq(1 .. Hour) /\ budget \in Seq(1 .. Hour)
  BY <1>1, UpgradesConstants DEF ScheduleTypes
<1>3. CASE /\ UNCHANGED <<budget, asked, crashes>>
           /\ rec'.pc \in {"search", "count"} => rec.pc \in {"search", "count"} \/ WithinBudget
           /\ (rec'.pc = "count") = (rec.pc = "count")
  BY <1>3 DEF Counted, WithinBudget
<1>4. CASE ApprovedRelease
  <2>1. UNCHANGED <<budget, crashes>> /\ rec.pc = "search"
    BY <1>4 DEF ApprovedRelease, At
  <2>2. CASE rec'.pc = "count" /\ asked' = Append(asked, Hour)
    <3>1. ASSUME NEW h \in Nat
          PROVE  Cardinality(Left(asked', h)) <= Cardinality(Left(budget, h)) + crashes + 1
      <4>1. Cardinality(Left(asked', h)) = Cardinality(Left(asked, h)) + One(Hour > h)
        BY <1>1, <1>2, <2>2, LeftIsNat, LeftOfAppend
      <4>2. Cardinality(Left(asked, h)) <= Cardinality(Left(budget, h)) + crashes
        <5>1. /\ Cardinality(Left(asked, h)) <= Cardinality(Left(budget, h)) + crashes + One(rec.pc = "count")
              /\ One(rec.pc = "count") = 0
          BY <2>1 DEF Counted, One
        <5> QED BY SMTT(30), <1>1, <1>2, <5>1, LeftIsNat
      <4>3. One(Hour > h) \in {0, 1}
        BY OneIs
      <4>4. Cardinality(Left(asked, h)) \in Nat /\ Cardinality(Left(budget, h)) \in Nat
        BY <1>1, LeftIsNat
      <4> QED BY <1>2, <4>1, <4>2, <4>3, <4>4
    <3>2. One(rec'.pc = "count") = 1
      BY <2>2 DEF One
    <3> QED BY <2>1, <2>2, <3>1, <3>2 DEF Counted, WithinBudget
  <2>3. CASE rec'.pc = "next" /\ UNCHANGED asked
    <3>1. (rec'.pc = "count") = (rec.pc = "count")
      BY <2>1, <2>3
    <3> QED BY <1>3, <2>1, <2>3, <3>1
  <2>4. \/ rec'.pc = "count" /\ asked' = Append(asked, Hour)
        \/ rec'.pc = "next" /\ UNCHANGED asked
    BY <1>1, <1>4 DEF ApprovedRelease, ghosts, Thread
  <2> QED BY <2>2, <2>3, <2>4
<1>5. CASE CountSearch
  <2>1. /\ rec.pc = "count" /\ UNCHANGED <<asked, crashes>> /\ budget' = Append(budget, Hour)
        /\ rec'.pc \in {"complete", "client"}
    BY <1>1, <1>5 DEF CountSearch, At, ghosts, bounds, Thread
  <2>2. Len(budget') <= PerHour
    BY <1>2, <2>1 DEF Counted, WithinBudget
  <2>3. ASSUME NEW h \in Nat
        PROVE  Cardinality(Left(asked, h)) <= Cardinality(Left(budget', h)) + crashes
    <3>1. Cardinality(Left(budget', h)) = Cardinality(Left(budget, h)) + One(Hour > h)
      BY <1>1, <1>2, <2>1, LeftIsNat, LeftOfAppend
    <3>2. Cardinality(Left(asked, h)) <= Cardinality(Left(budget, h)) + crashes + 1
      <4>1. /\ Cardinality(Left(asked, h)) <= Cardinality(Left(budget, h)) + crashes + One(rec.pc = "count")
            /\ One(rec.pc = "count") = 1
        BY <2>1 DEF Counted, One
      <4> QED BY <4>1
    <3>3. CASE Hour > h
      BY SMTT(30), <1>1, <1>2, <3>1, <3>2, <3>3, LeftIsNat DEF One
    <3>4. CASE ~(Hour > h)
      <4>1. Cardinality(Left(asked, h)) = 0
        BY <1>2, <3>4, LeftOfNone
      <4>2. One(Hour > h) = 0
        BY <3>4 DEF One
      <4>3. Cardinality(Left(budget, h)) \in Nat
        BY <1>1, LeftIsNat
      <4> QED BY <1>2, <3>1, <4>1, <4>2, <4>3
    <3> QED BY <3>3, <3>4
  <2>4. One(rec'.pc = "count") = 0 /\ \A h \in Nat : Cardinality(Left(budget', h)) \in Nat
    <3>1. budget' \in Seq(1 .. Hour)
      BY <1>1 DEF ScheduleTypes
    <3>2. budget' \in Seq(Int)
      BY <1>2, <3>1
    <3> QED BY <2>1, <3>2, LeftIsFinite DEF One
  <2>5. \A h \in Nat : Cardinality(Left(asked', h))
                         <= Cardinality(Left(budget', h)) + crashes' + One(rec'.pc = "count")
    BY <1>2, <2>1, <2>3, <2>4
  <2> QED BY <2>1, <2>2, <2>5 DEF Counted
<1>6. CASE Pass
  <2>1. /\ budget' = Shift(budget) /\ asked' = Shift(asked) /\ UNCHANGED crashes
        /\ rec.pc = "idle" /\ rec' = rec
    BY <1>6, IdleIs DEF Pass, PruneBudget, bounds
  <2>2. \A h \in Nat : /\ Cardinality(Left(budget', h)) = Cardinality(Left(budget, h + 1))
                       /\ Cardinality(Left(asked', h)) = Cardinality(Left(asked, h + 1))
    BY <1>2, <2>1, ShiftIs
  <2>3. Len(budget') <= PerHour
    <3>1. budget' \in Seq(1 .. Hour)
      BY <1>1 DEF ScheduleTypes
    <3>2. /\ Len(budget') = Cardinality(Left(budget', 0)) /\ Len(budget) = Cardinality(Left(budget, 0))
          /\ Cardinality(Left(budget', 0)) = Cardinality(Left(budget, 0 + 1))
      BY <1>2, <2>2, <3>1, LeftIsLen
    <3>3. Cardinality(Left(budget, 0 + 1)) <= Cardinality(Left(budget, 0))
      BY <1>1, LeftIsNat, LeftShrinks
    <3>4. Cardinality(Left(budget, 0 + 1)) \in Nat
      BY <1>1, LeftIsNat
    <3> QED BY <1>2, <3>2, <3>3, <3>4 DEF Counted
  <2>4. \A h \in Nat :
          Cardinality(Left(asked, h + 1)) <= Cardinality(Left(budget, h + 1)) + crashes + One(rec.pc = "count")
    <3>1. \A h \in Nat : h + 1 \in Nat
      OBVIOUS
    <3> QED BY <3>1 DEF Counted
  <2> QED BY <2>1, <2>2, <2>3, <2>4 DEF Counted
<1>7. CASE Crash
  <2>1. UNCHANGED <<budget, asked>> /\ crashes' = crashes + 1 /\ rec'.pc = "idle"
    BY <1>7, IdleIs DEF Crash, schedule, ghosts
  <2>2. ASSUME NEW h \in Nat
        PROVE  Cardinality(Left(asked, h)) <= Cardinality(Left(budget, h)) + crashes' + One(rec'.pc = "count")
    <3>1. One(rec.pc = "count") \in {0, 1} /\ One(rec'.pc = "count") = 0
      BY <2>1, OneIs DEF One
    <3>2. Cardinality(Left(asked, h)) <= Cardinality(Left(budget, h)) + crashes + One(rec.pc = "count")
      BY DEF Counted
    <3>3. Cardinality(Left(asked, h)) \in Nat /\ Cardinality(Left(budget, h)) \in Nat
      BY <1>1, LeftIsNat
    <3> QED BY <1>2, <2>1, <3>1, <3>2, <3>3
  <2> QED BY <2>1, <2>2 DEF Counted
<1>8. CASE \/ StartRun \/ RecoverNext \/ Inventory \/ SyncCompleted \/ RecordIntent
           \/ CompleteSearch
  <2>1. UNCHANGED <<budget, asked, crashes>>
    BY <1>8 DEF StartRun, RecoverNext, Inventory, SyncCompleted, RecordIntent, CompleteSearch,
                schedule, ghosts, bounds
  <2>2. rec.pc \notin {"search", "count"} /\ rec'.pc \notin {"search", "count"}
    <3>1. CASE StartRun
      BY <1>1, <3>1 DEF StartRun, At, Idle
    <3>2. CASE RecoverNext \/ Inventory \/ CompleteSearch
      BY <1>1, <3>2 DEF RecoverNext, Inventory, CompleteSearch, At, To, Thread
    <3>3. CASE SyncCompleted
      BY <1>1, <3>3 DEF SyncCompleted, At, Thread
    <3>4. CASE RecordIntent
      BY <1>1, <3>4, RequestRecorded DEF RecordIntent, At
    <3> QED BY <1>8, <3>1, <3>2, <3>3, <3>4
  <2> QED BY <1>3, <2>1, <2>2
<1>9. CASE NextEntity
  <2>1. UNCHANGED <<budget, asked, crashes>> /\ rec.pc = "next"
    BY <1>9 DEF NextEntity, At, schedule, ghosts, bounds
  <2>2. rec'.pc \in {"idle", "next", "search"} /\ (rec'.pc = "search" => WithinBudget)
    BY <1>1, <1>9, <2>1, IdleIs DEF NextEntity, RunMayGoOn, Thread
  <2> QED BY <1>3, <2>1, <2>2
<1>10. CASE Admit \/ MarkAttempted \/ GrabRelease \/ ObserveGrab \/ BindGrab \/ MarkObserved
  <2>1. UNCHANGED <<budget, asked, crashes>> /\ rec.pc \in Handoff
    BY <1>10 DEF Admit, MarkAttempted, GrabRelease, ObserveGrab, BindGrab, MarkObserved, At,
                 schedule, ghosts, bounds, Handoff
  <2>2. \/ \E pc \in Places \ {"search", "count"} : To(pc)
        \/ \E b \in BOOLEAN : Handed(b)
    BY <1>10 DEF Admit, MarkAttempted, GrabRelease, ObserveGrab, BindGrab, MarkObserved, Places
  <2>3. rec'.pc \notin {"search", "count"}
    BY <1>1, <2>2, HandedIs, ToMoves
  <2> QED BY <1>3, <2>1, <2>3 DEF Handoff
<1>11. CASE RecordCandidateInvalidated
            \/ \E op \in Ops : GiveUp(op) \/ IntakeTakes(op) \/ ArrGrabs(op) \/ Import(op)
  <2>1. UNCHANGED <<budget, asked, crashes, rec>>
    BY <1>11 DEF RecordCandidateInvalidated, GiveUp, IntakeTakes, ArrGrabs, Import, schedule, ghosts, bounds
  <2> QED BY <1>3, <2>1
<1> QED
  BY <1>4, <1>5, <1>6, <1>7, <1>8, <1>9, <1>10, <1>11 DEF UpgradesNext, ReconcilerStep

\* At first nothing was asked and nothing is counted.
LEMMA CountedInit == ASSUME UpgradesInit PROVE Counted
<1>1. budget = <<>> /\ asked = <<>> /\ rec.pc = "idle" /\ crashes = 0
  BY IdleIs DEF UpgradesInit
<1>2. PerHour \in Nat
  BY UpgradesConstants
<1>3. \A h \in Nat : Left(asked, h) = {} /\ Left(budget, h) = {}
  BY <1>1 DEF Left
<1>4. Cardinality({}) = 0 /\ One(rec.pc = "count") = 0
  BY <1>1, FS_EmptySet DEF One
<1> QED BY <1>1, <1>2, <1>3, <1>4 DEF Counted

\* No hour has more answers than the budget, but for one for each restart: the run asks only
\* within the budget, and counts an answer before it asks again (UpgradeScheduler.run,
\* within_budget).
LEMMA BudgetIsKept == Spec => []BudgetKept
<1>1. ScheduleInv /\ Counted /\ [UpgradesNext]_vars => Counted'
  <2>1. ASSUME Counted, UNCHANGED vars PROVE Counted'
    BY <2>1 DEF vars, schedule, ghosts, bounds, Counted, WithinBudget
  <2> QED BY <2>1, CountedNext
<1>2. ScheduleInv /\ Counted => BudgetKept
  <2> SUFFICES ASSUME ScheduleInv, Counted PROVE BudgetKept
    OBVIOUS
  <2>1. ScheduleTypes
    BY DEF ScheduleInv
  <2>2. /\ Hour \in Nat /\ PerHour \in Nat /\ asked \in Seq(1 .. Hour) /\ budget \in Seq(1 .. Hour)
        /\ crashes \in Nat
    BY <2>1, UpgradesConstants DEF ScheduleTypes
  <2>3. Len(asked) <= Len(budget) + crashes + One(rec.pc = "count")
    <3>1. Len(asked) = Cardinality(Left(asked, 0)) /\ Len(budget) = Cardinality(Left(budget, 0))
      BY <2>2, LeftIsLen
    <3> QED BY <3>1 DEF Counted
  <2>4. One(rec.pc = "count") \in {0, 1} /\ Len(budget) \in Nat /\ Len(asked) \in Nat
    BY <2>2, OneIs
  <2>5. Len(budget) <= PerHour /\ (One(rec.pc = "count") = 1 => Len(budget) < PerHour)
    BY DEF Counted, WithinBudget, One
  <2> QED BY <2>2, <2>3, <2>4, <2>5 DEF BudgetKept
<1> QED BY <1>1, <1>2, CountedInit, ScheduleInvHolds, PTL DEF Spec

-----------------------------------------------------------------------------
(* The searches of a file.                                                 *)

\* A search is open from Arr's answer until its completion is recorded: first in the hand
\* of the thread, then as a request, which may be bound and not recorded yet.
InHand(e) ==
  /\ rec.entity = e
  /\ rec.pc \in {"count", "client"} \/ (rec.pc = "complete" /\ rec.op = No)
\* The thread has the search for this file in its hand.
Holding(e, g) == InHand(e) /\ rec.files[e] = g
\* A request whose completed search is not recorded yet.
Open(op) == intent[op].entity # No /\ (~intent[op].observed \/ op \notin recorded)
OpenFor(op, e, g) == Open(op) /\ intent[op].entity = e /\ intent[op].gen = g
OpenAt(e, g) == Holding(e, g) \/ \E op \in Ops : OpenFor(op, e, g)

\* No entity has two open requests.
OneOpen ==
  \A a, b \in Ops : Open(a) /\ Open(b) /\ intent[a].entity = intent[b].entity => a = b

\* What is open is about the file that was answered for last.
Latest ==
  /\ \A op \in Ops : Open(op) => intent[op].gen = answers[intent[op].entity].gen
  /\ \A e \in Entities : InHand(e) => answers[e].gen = rec.files[e]

\* Final searches are those behind the horizon, and nothing comes after them.
Final ==
  /\ \A e \in Entities : checkpoint[e].terminal => age[e] >= Horizon
  /\ \A op \in Ops : Open(op) => IF intent[op].terminal THEN age[intent[op].entity] >= Horizon
                                 ELSE ~checkpoint[intent[op].entity].terminal

\* The final search of a file is recorded or open.  A search that settles a replacement is
\* not it.
FinalDone(e, g) == checkpoint[e].gen = g /\ checkpoint[e].terminal
\* The answer arrived, and the replacement it settles is still due.
Settling(e, g) == rec.pc = "count" /\ Holding(e, g)
FinalAt(e, g) ==
  /\ FinalSearch
  /\ \/ FinalDone(e, g)
     \/ Holding(e, g) /\ age[e] >= Horizon /\ ~(Settling(e, g) /\ replacement[e].due)
     \/ \E op \in Ops : OpenFor(op, e, g) /\ intent[op].terminal

\* The searches that candidates were given up for and that were not made yet.
Credit(e, g) == One(emits = e) + One(replacement[e].due /\ ~Settling(e, g))

\* Every answer is a completed search, an open one, or was lost.
AnswersCounted ==
  \A e \in Entities, g \in Nat :
    answers[e].gen = g =>
      answers[e].count <= Attempts(e, g) + One(OpenAt(e, g)) + faults + crashes

\* The searches made for a file, the one being made and those owed for candidates that
\* were given up.
AttemptsCounted ==
  \A e \in Entities, g \in Nat :
    Attempts(e, g) + One(OpenAt(e, g)) + Credit(e, g) <= MaxAttempts + One(FinalAt(e, g)) + given
\* Nothing is owed but for candidates that were given up.
CreditsGiven == \A e \in Entities : One(emits = e) + One(replacement[e].due) <= given

\* What the run may still search.
Allowed(e, g) ==
  \/ replacement[e].due
  \/ FinalSearch /\ age[e] >= Horizon /\ ~FinalDone(e, g)
  \/ Attempts(e, g) < MaxAttempts
\* The run still has the entity to search.
Listed(e) == (\E i \in DOMAIN rec.due : rec.due[i] = e) \/ (rec.pc = "search" /\ rec.entity = e)
\* All that the run still has to search may be searched.
Permitted == \A e \in Entities, g \in Nat : Listed(e) /\ rec.files[e] = g => Allowed(e, g)

\* What holds of the searches of every file.
SearchesInv ==
  OneOpen /\ Latest /\ Final /\ AnswersCounted /\ AttemptsCounted /\ CreditsGiven

\* Everything that is counted is a number.
LEMMA NumbersAre ==
  ASSUME ScheduleTypes, NEW e \in Entities, NEW g \in Nat
  PROVE  /\ Attempts(e, g) \in Nat /\ One(OpenAt(e, g)) \in {0, 1} /\ One(FinalAt(e, g)) \in {0, 1}
         /\ One(emits = e) \in {0, 1} /\ One(replacement[e].due) \in {0, 1}
         /\ One(replacement[e].due /\ ~Settling(e, g)) \in {0, 1}
         /\ Credit(e, g) \in Nat /\ Credit(e, g) <= One(emits = e) + One(replacement[e].due)
         /\ answers[e].gen \in Nat /\ answers[e].count \in Nat
         /\ given \in Nat /\ faults \in Nat /\ crashes \in Nat /\ MaxAttempts \in Nat
<1>1. Attempts(e, g) \in Nat
  BY DEF Attempts, ScheduleTypes
<1>2. /\ One(OpenAt(e, g)) \in {0, 1} /\ One(FinalAt(e, g)) \in {0, 1}
      /\ One(emits = e) \in {0, 1} /\ One(replacement[e].due) \in {0, 1}
      /\ One(replacement[e].due /\ ~Settling(e, g)) \in {0, 1}
  BY OneIs
<1>3. One(replacement[e].due /\ ~Settling(e, g)) <= One(replacement[e].due)
  BY DEF One
<1>4. Credit(e, g) \in Nat /\ Credit(e, g) <= One(emits = e) + One(replacement[e].due)
  BY <1>2, <1>3 DEF Credit
<1>5. answers[e].gen \in Nat /\ answers[e].count \in Nat
  BY DEF ScheduleTypes
<1>6. given \in Nat /\ faults \in Nat /\ crashes \in Nat /\ MaxAttempts \in Nat
  BY UpgradesConstants DEF ScheduleTypes
<1> QED BY <1>1, <1>2, <1>4, <1>5, <1>6

\* A step that leaves the searches for a file alone leaves their numbers as they are.
PairAside(e, g) ==
  /\ \A op \in Ops : /\ OpenFor(op, e, g)' <=> OpenFor(op, e, g)
                     /\ OpenFor(op, e, g) => intent'[op].terminal = intent[op].terminal
  /\ Holding(e, g)' <=> Holding(e, g)
  /\ Holding(e, g) => age'[e] = age[e] /\ ((rec'.pc = "count") <=> (rec.pc = "count"))
  /\ Attempts(e, g)' = Attempts(e, g) /\ (FinalDone(e, g)' <=> FinalDone(e, g))
  /\ replacement'[e].due <=> replacement[e].due
  /\ (emits' = e) <=> (emits = e)

\* What leaves a file alone changes none of its numbers.
LEMMA PairSame ==
  ASSUME NEW e \in Entities, NEW g \in Nat, PairAside(e, g)
  PROVE  /\ Attempts(e, g)' = Attempts(e, g) /\ One(OpenAt(e, g))' = One(OpenAt(e, g))
         /\ One(FinalAt(e, g))' = One(FinalAt(e, g)) /\ Credit(e, g)' = Credit(e, g)
         /\ One(emits = e)' = One(emits = e)
         /\ One(replacement[e].due)' = One(replacement[e].due)
<1>1. OpenAt(e, g)' <=> OpenAt(e, g)
  BY DEF PairAside, OpenAt
<1>2. Settling(e, g)' <=> Settling(e, g)
  BY DEF PairAside, Settling
<1>3. FinalAt(e, g)' <=> FinalAt(e, g)
  BY <1>2 DEF PairAside, FinalAt
<1> QED BY <1>1, <1>2, <1>3 DEF PairAside, One, Credit

\* A step beside the searches opens none and ends none.
Aside ==
  /\ \A op \in Ops : /\ Open(op)' <=> Open(op)
                     /\ Open(op) => /\ intent'[op].entity = intent[op].entity
                                    /\ intent'[op].gen = intent[op].gen
                                    /\ intent'[op].terminal = intent[op].terminal
  /\ \A e \in Entities :
       /\ InHand(e)' <=> InHand(e)
       /\ InHand(e) => /\ rec'.files = rec.files /\ age'[e] = age[e]
                       /\ (rec'.pc = "count") <=> (rec.pc = "count")
       /\ age[e] >= Horizon => age'[e] >= Horizon
       /\ checkpoint'[e].gen = checkpoint[e].gen /\ checkpoint'[e].attempts = checkpoint[e].attempts
       /\ checkpoint'[e].terminal <=> checkpoint[e].terminal
       /\ replacement'[e].due <=> replacement[e].due
  /\ UNCHANGED <<answers, emits, given, crashes>>
  /\ faults' = faults \/ faults' = faults + 1

\* A step beside the searches keeps their invariant.
LEMMA SearchesAside ==
  ASSUME ScheduleInv, SearchesInv, Aside PROVE SearchesInv'
<1>1. ScheduleTypes /\ intent \in [Ops -> Request]
  BY DEF ScheduleInv, UpgradesInv, Types
<1>2. ASSUME NEW op \in Ops, Open(op)
      PROVE  intent[op].entity \in Entities
  BY <1>1, <1>2 DEF Open, Request
<1>3. OneOpen'
  BY DEF SearchesInv, OneOpen, Aside
<1>4. Latest'
  <2>1. \A op \in Ops : Open(op)' => intent'[op].gen = answers'[intent'[op].entity].gen
    BY DEF SearchesInv, Latest, Aside
  <2>2. \A e \in Entities : InHand(e)' => answers'[e].gen = rec'.files[e]
    BY DEF SearchesInv, Latest, Aside
  <2> QED BY <2>1, <2>2 DEF Latest
<1>5. Final'
  <2>1. \A e \in Entities : checkpoint'[e].terminal => age'[e] >= Horizon
    BY DEF SearchesInv, Final, Aside
  <2>2. ASSUME NEW op \in Ops, Open(op)'
        PROVE  IF intent'[op].terminal THEN age'[intent'[op].entity] >= Horizon
               ELSE ~checkpoint'[intent'[op].entity].terminal
    <3>1. Open(op) /\ intent'[op].entity = intent[op].entity /\ intent'[op].terminal = intent[op].terminal
      BY <2>2 DEF Aside
    <3>2. intent[op].entity \in Entities
      BY <1>2, <3>1
    <3>3. IF intent[op].terminal THEN age[intent[op].entity] >= Horizon
          ELSE ~checkpoint[intent[op].entity].terminal
      BY <3>1 DEF SearchesInv, Final
    <3>4. /\ age[intent[op].entity] >= Horizon => age'[intent[op].entity] >= Horizon
          /\ checkpoint'[intent[op].entity].terminal <=> checkpoint[intent[op].entity].terminal
      BY <3>2 DEF Aside
    <3> QED BY <3>1, <3>3, <3>4
  <2> QED BY <2>1, <2>2 DEF Final
<1>6. ASSUME NEW e \in Entities, NEW g \in Nat
      PROVE  /\ Attempts(e, g)' = Attempts(e, g) /\ One(OpenAt(e, g))' = One(OpenAt(e, g))
             /\ One(FinalAt(e, g))' = One(FinalAt(e, g)) /\ Credit(e, g)' = Credit(e, g)
             /\ One(emits = e)' = One(emits = e)
             /\ One(replacement[e].due)' = One(replacement[e].due)
  <2>1. Attempts(e, g)' = Attempts(e, g) /\ (FinalDone(e, g)' <=> FinalDone(e, g))
    BY DEF Attempts, FinalDone, Aside
  <2>2. \A op \in Ops : /\ OpenFor(op, e, g)' <=> OpenFor(op, e, g)
                        /\ OpenFor(op, e, g) => intent'[op].terminal = intent[op].terminal
    BY DEF OpenFor, Aside
  <2>3. /\ InHand(e)' <=> InHand(e)
        /\ InHand(e) => rec'.files[e] = rec.files[e]
    BY DEF Aside
  <2>4. /\ Holding(e, g)' <=> Holding(e, g)
        /\ Holding(e, g) => age'[e] = age[e] /\ ((rec'.pc = "count") <=> (rec.pc = "count"))
    BY <2>3 DEF Holding, Aside
  <2>5. (replacement'[e].due <=> replacement[e].due) /\ emits' = emits
    BY DEF Aside
  <2>6. PairAside(e, g)
    BY <2>1, <2>2, <2>4, <2>5 DEF PairAside
  <2> QED BY <2>6, PairSame
<1>7. given' = given /\ answers' = answers /\ crashes' = crashes /\ (faults' = faults \/ faults' = faults + 1)
  BY DEF Aside
<1>8. AnswersCounted'
  <2>1. ASSUME NEW e \in Entities, NEW g \in Nat, answers'[e].gen = g
        PROVE  answers'[e].count <= Attempts(e, g)' + One(OpenAt(e, g))' + faults' + crashes'
    <3>1. answers[e].count <= Attempts(e, g) + One(OpenAt(e, g)) + faults + crashes
      BY <1>7, <2>1 DEF SearchesInv, AnswersCounted
    <3>2. Attempts(e, g)' = Attempts(e, g) /\ One(OpenAt(e, g))' = One(OpenAt(e, g))
      BY <1>6
    <3>3. /\ Attempts(e, g) \in Nat /\ One(OpenAt(e, g)) \in {0, 1} /\ faults \in Nat /\ crashes \in Nat
          /\ answers[e].count \in Nat
      BY <1>1, NumbersAre
    <3> QED BY <1>7, <3>1, <3>2, <3>3
  <2> QED BY <2>1 DEF AnswersCounted
<1>9. AttemptsCounted'
  BY <1>6, <1>7 DEF SearchesInv, AttemptsCounted
<1>10. CreditsGiven'
  BY <1>6, <1>7 DEF SearchesInv, CreditsGiven
<1> QED BY <1>3, <1>4, <1>5, <1>8, <1>9, <1>10 DEF SearchesInv

\* Where the requests and what is recorded of them stay, what is open stays.
LEMMA OpenSame ==
  ASSUME UNCHANGED <<intent, recorded>>
  PROVE  \A op \in Ops : /\ Open(op)' <=> Open(op)
                         /\ Open(op) => /\ intent'[op].entity = intent[op].entity
                                        /\ intent'[op].gen = intent[op].gen
                                        /\ intent'[op].terminal = intent[op].terminal
BY DEF Open

\* The schedule stays, for what the searches are counted by.
LEMMA SameSchedule ==
  ASSUME UNCHANGED <<age, checkpoint, replacement>>
  PROVE  \A e \in Entities :
       /\ age'[e] = age[e]
       /\ age[e] >= Horizon => age'[e] >= Horizon
       /\ checkpoint'[e].gen = checkpoint[e].gen /\ checkpoint'[e].attempts = checkpoint[e].attempts
       /\ checkpoint'[e].terminal <=> checkpoint[e].terminal
       /\ replacement'[e].due <=> replacement[e].due
OBVIOUS

\* The thread has no answer in its hand before the step and after it.
LEMMA NothingInHand ==
  ASSUME rec.pc \notin {"count", "client"}, rec'.pc \notin {"count", "client"},
         rec.pc = "complete" => rec.op # No, rec'.pc = "complete" => rec'.op # No
  PROVE  \A e \in Entities : ~InHand(e) /\ ~InHand(e)'
BY DEF InHand

\* Most steps of the thread are beside the searches: a failed search is one of them.
LEMMA AsideOfThread ==
  ASSUME ScheduleInv,
         \/ StartRun \/ RecoverNext \/ Inventory \/ NextEntity
         \/ (SyncCompleted /\ UNCHANGED <<checkpoint, replacement, recorded>>)
         \/ (ApprovedRelease /\ UNCHANGED ghosts)
         \/ Admit \/ MarkAttempted \/ GrabRelease \/ ObserveGrab \/ BindGrab \/ MarkObserved
  PROVE  Aside
<1>1. /\ Types /\ ScheduleTypes /\ Follows /\ Settled /\ Posts /\ rec \in Thread
      /\ intent \in [Ops -> Request] /\ Awaits
  BY DEF ScheduleInv, UpgradesInv, Types
<1>2. \A op \in Ops : op # No
  BY UpgradesConstants DEF No
<1>3. CASE StartRun \/ RecoverNext \/ Inventory \/ NextEntity
           \/ (SyncCompleted /\ UNCHANGED <<checkpoint, replacement, recorded>>)
  <2>1. /\ UNCHANGED <<age, checkpoint, replacement, intent, recorded, answers, emits, given, crashes>>
        /\ faults' = faults \/ faults' = faults + 1
    BY <1>3 DEF StartRun, RecoverNext, Inventory, NextEntity, SyncCompleted, schedule, ghosts, bounds, Fault
  <2>2. /\ rec.pc \notin {"count", "client", "complete"} /\ rec'.pc \notin {"count", "client", "complete"}
    <3>1. CASE StartRun
      BY <1>1, <3>1 DEF StartRun, At, Idle
    <3>2. CASE RecoverNext \/ Inventory
      BY <1>1, <3>2 DEF RecoverNext, Inventory, At, To, Thread
    <3>3. CASE NextEntity
      BY <1>1, <3>3 DEF NextEntity, At, Idle, Thread
    <3>4. CASE SyncCompleted
      BY <1>1, <3>4 DEF SyncCompleted, At, Thread
    <3> QED BY <1>3, <3>1, <3>2, <3>3, <3>4
  <2>3. \A e \in Entities : ~InHand(e) /\ ~InHand(e)'
    BY <2>2, NothingInHand
  <2> QED BY <2>1, <2>3, OpenSame, SameSchedule DEF Aside
<1>4. CASE ApprovedRelease /\ UNCHANGED ghosts
  <2>1. /\ UNCHANGED <<age, checkpoint, intent, recorded, answers, emits, given, crashes>>
        /\ rec.pc = "search" /\ rec.entity \in Entities
    BY <1>1, <1>4 DEF ApprovedRelease, ghosts, At, Awaits
  <2>2. /\ RecordTransientFailure(rec.entity, rec.files[rec.entity]) /\ Fault
        /\ rec' = [rec EXCEPT !.pc = "next", !.entity = No]
    <3>1. asked' # Append(asked, Hour)
      <4>1. asked \in Seq(1 .. Hour) /\ asked' = asked
        BY <1>1, <1>4 DEF ScheduleTypes, ghosts
      <4>2. Len(Append(asked, Hour)) = Len(asked) + 1 /\ Len(asked) \in Nat
        BY <4>1
      <4> QED BY <4>1, <4>2
    <3> QED BY <1>4, <3>1 DEF ApprovedRelease
  <2>3. faults' = faults + 1 /\ rec'.pc = "next"
    BY <1>1, <2>2 DEF Fault, Thread
  <2>4. \A e \in Entities : ~InHand(e) /\ ~InHand(e)'
    BY <2>1, <2>3, NothingInHand
  <2>5. rec.files[rec.entity] \in Nat
    BY <1>1, <2>1, UpgradesConstants DEF Types, No
  <2>6. \A e \in Entities : replacement'[e].due = replacement[e].due
    BY <1>1, <2>1, <2>2, <2>5, FailureIs
  <2>7. \A e \in Entities :
          /\ age[e] >= Horizon => age'[e] >= Horizon
          /\ checkpoint'[e].gen = checkpoint[e].gen /\ checkpoint'[e].attempts = checkpoint[e].attempts
          /\ checkpoint'[e].terminal <=> checkpoint[e].terminal
    BY <2>1
  <2> QED BY <2>1, <2>3, <2>4, <2>6, <2>7, OpenSame DEF Aside
<1>5. CASE Admit \/ MarkAttempted \/ GrabRelease \/ ObserveGrab \/ BindGrab \/ MarkObserved
  <2>1. /\ UNCHANGED <<age, checkpoint, replacement, recorded, answers, emits, given, crashes>>
        /\ faults' = faults \/ faults' = faults + 1
        /\ rec.pc \in Handoff
    BY <1>5 DEF Admit, MarkAttempted, GrabRelease, ObserveGrab, BindGrab, MarkObserved, schedule,
                ghosts, bounds, Fault, At, Handoff
  <2>2. \A op \in Ops :
          /\ intent'[op].entity = intent[op].entity /\ intent'[op].gen = intent[op].gen
          /\ intent'[op].terminal = intent[op].terminal
          /\ intent'[op].observed = (intent[op].observed \/ (MarkObserved /\ op = rec.op))
    <3>1. UpgradesNext
      BY <1>5 DEF UpgradesNext, ReconcilerStep
    <3>2. ~RecordIntent
      BY <2>1 DEF RecordIntent, At, Handoff
    <3> QED BY <3>1, <3>2, RequestsKept
  <2>3. rec.op \in Ops /\ rec.op \notin recorded
    BY <1>1, <2>1 DEF Follows, Posts, Requested, Settled, Handoff
  <2>4. \A op \in Ops : Open(op)' <=> Open(op)
    BY <2>1, <2>2, <2>3 DEF Open
  <2>5. rec'.pc \notin {"count", "client"} /\ (rec'.pc = "complete" => rec'.op # No)
    <3>1. \/ \E pc \in Places \ {"count", "client", "complete"} : To(pc)
          \/ \E b \in BOOLEAN : Handed(b)
      BY <1>5 DEF Admit, MarkAttempted, GrabRelease, ObserveGrab, BindGrab, MarkObserved, Places
    <3>2. ASSUME NEW pc \in Places \ {"count", "client", "complete"}, To(pc)
          PROVE  rec'.pc \notin {"count", "client"} /\ (rec'.pc = "complete" => rec'.op # No)
      BY <1>1, <3>2, ToMoves
    <3>3. ASSUME NEW b \in BOOLEAN, Handed(b)
          PROVE  rec'.pc \notin {"count", "client"} /\ (rec'.pc = "complete" => rec'.op # No)
      BY <1>1, <1>2, <2>3, <3>3, HandedMoves
    <3> QED BY <3>1, <3>2, <3>3
  <2>6. \A e \in Entities : ~InHand(e) /\ ~InHand(e)'
    <3>1. rec.pc \notin {"count", "client", "complete"}
      BY <2>1 DEF Handoff
    <3> QED BY <2>5, <3>1, NothingInHand
  <2>7. \A e \in Entities :
          /\ age[e] >= Horizon => age'[e] >= Horizon
          /\ checkpoint'[e].gen = checkpoint[e].gen /\ checkpoint'[e].attempts = checkpoint[e].attempts
          /\ checkpoint'[e].terminal <=> checkpoint[e].terminal
          /\ replacement'[e].due <=> replacement[e].due
    BY <2>1
  <2> QED BY <2>1, <2>2, <2>4, <2>6, <2>7 DEF Aside
<1> QED BY <1>3, <1>4, <1>5

\* Time, Arr and imports are beside the searches.
LEMMA AsideOfOthers ==
  ASSUME ScheduleInv, Pass \/ \E op \in Ops : IntakeTakes(op) \/ ArrGrabs(op) \/ Import(op)
  PROVE  Aside
<1>1. Types /\ ScheduleTypes /\ Dated /\ rec \in Thread
  BY DEF ScheduleInv, UpgradesInv, Types
<1>2. CASE \E op \in Ops : IntakeTakes(op) \/ ArrGrabs(op) \/ Import(op)
  <2>1. UNCHANGED <<age, checkpoint, replacement, intent, recorded, answers, emits, given, crashes, rec, faults>>
    BY <1>2 DEF IntakeTakes, ArrGrabs, Import, schedule, ghosts, bounds
  <2>2. \A e \in Entities : InHand(e)' <=> InHand(e)
    BY <2>1 DEF InHand
  <2> QED BY <2>1, <2>2, OpenSame, SameSchedule DEF Aside
<1>3. CASE Pass
  <2>1. UNCHANGED <<intent, recorded, answers, emits, given, crashes, rec, faults>> /\ rec = Idle
    BY <1>3 DEF Pass, bounds
  <2>2. \A e \in Entities : ~InHand(e)' /\ ~InHand(e)
    BY <2>1 DEF InHand, Idle
  <2>3. ASSUME NEW e \in Entities
        PROVE  /\ age[e] >= Horizon => age'[e] >= Horizon
               /\ checkpoint'[e].gen = checkpoint[e].gen
               /\ checkpoint'[e].attempts = checkpoint[e].attempts
               /\ checkpoint'[e].terminal <=> checkpoint[e].terminal
               /\ replacement'[e].due <=> replacement[e].due
    <3>1. /\ checkpoint'[e].gen = checkpoint[e].gen /\ replacement'[e].due = replacement[e].due
          /\ age'[e] = IF age[e] < Horizon THEN age[e] + 1 ELSE age[e]
          /\ IF checkpoint[e].gen = No
             THEN checkpoint'[e].attempts = 0 /\ ~checkpoint'[e].terminal
             ELSE /\ checkpoint'[e].attempts = checkpoint[e].attempts
                  /\ checkpoint'[e].terminal = checkpoint[e].terminal
      BY <1>1, <1>3, PassIs
    <3>2. /\ (checkpoint[e].gen = No) = (checkpoint[e].attempts = 0)
          /\ checkpoint[e].gen = No => ~checkpoint[e].terminal
      BY <1>1 DEF Dated
    <3>3. age[e] \in Nat /\ Horizon \in Nat
      BY <1>1, UpgradesConstants DEF Types
    <3>4. age[e] >= Horizon => age'[e] >= Horizon
      BY <3>1, <3>3
    <3> QED BY <3>1, <3>2, <3>4
  <2> QED BY <2>1, <2>2, <2>3, OpenSame DEF Aside
<1> QED BY <1>2, <1>3

\* No search is open for an entity without a request, when all that was bound is recorded.
LEMMA NoneOpen ==
  ASSUME Unsynced = {}, NEW e \in Entities, e \notin Pending
  PROVE  \A op \in Ops : Open(op) => intent[op].entity # e
BY DEF Open, Unsynced, Pending, Requested

\* What the thread has in its hand is the only open search of the entity.
LEMMA HeldAlone ==
  ASSUME ScheduleInv, NEW e \in Entities, InHand(e)
  PROVE  \A op \in Ops : Open(op) => intent[op].entity # e
<1>1. Follows /\ Awaits
  BY DEF ScheduleInv, UpgradesInv
<1>2. Unsynced = {} /\ e \notin Pending
  BY <1>1 DEF InHand, Follows, Awaits
<1> QED BY <1>2, NoneOpen

\* Arr's answer opens a search.
LEMMA AnswerArrives ==
  ASSUME ScheduleInv, SearchesInv, Permitted, ApprovedRelease, ~UNCHANGED ghosts
  PROVE  SearchesInv'
<1>1. Types /\ ScheduleTypes /\ Follows /\ Awaits /\ rec \in Thread
  BY DEF ScheduleInv, UpgradesInv, Types
<1>2. /\ rec.pc = "search" /\ rec.entity \in Entities /\ rec.entity \notin Pending /\ Unsynced = {}
      /\ rec.files \in [Entities -> Nat]
  BY <1>1, UpgradesConstants DEF ApprovedRelease, At, Awaits, Follows, Types, No
<1>3. PICK e \in Entities : e = rec.entity
  BY <1>2
<1>4. PICK g \in Nat : g = rec.files[e]
  BY <1>2
<1>5. /\ UNCHANGED <<age, checkpoint, replacement, intent, recorded, emits, given, faults, crashes>>
      /\ answers' = [answers EXCEPT ![e] = Answered(@, g)]
      /\ rec'.pc = "count" /\ rec'.entity = e /\ rec'.files = rec.files
  <2>1. ~(UNCHANGED ghosts)
    OBVIOUS
  <2> QED BY <1>1, <1>3, <1>4, <2>1 DEF ApprovedRelease, Thread
<1>6. \A op \in Ops : Open(op) => intent[op].entity # e
  BY <1>2, <1>3, NoneOpen
<1>7. \A f \in Entities : ~InHand(f) /\ (InHand(f)' <=> f = e)
  BY <1>2, <1>5 DEF InHand
<1>8. ASSUME NEW f \in Entities, NEW h \in Nat
      PROVE  ~Holding(f, h) /\ (Holding(f, h)' <=> f = e /\ h = g)
  BY <1>4, <1>5, <1>7 DEF Holding
<1>9. \A op \in Ops, f \in Entities, h \in Nat :
        OpenFor(op, f, h)' <=> OpenFor(op, f, h)
  BY <1>5 DEF OpenFor, Open
<1>10. \A f \in Entities, h \in Nat :
         /\ Attempts(f, h)' = Attempts(f, h) /\ (FinalDone(f, h)' <=> FinalDone(f, h))
  BY <1>5 DEF Attempts, FinalDone
<1>11. ASSUME NEW f \in Entities, NEW h \in Nat, ~(f = e /\ h = g)
       PROVE  PairAside(f, h)
  BY <1>5, <1>8, <1>9, <1>10, <1>11 DEF PairAside
<1>12. /\ answers'[e].gen = g
       /\ answers'[e].count = IF answers[e].gen = g THEN answers[e].count + 1 ELSE 1
       /\ \A f \in Entities : f # e => answers'[f] = answers[f]
  BY <1>1, <1>5 DEF ScheduleTypes, Answered
<1>13. OpenAt(e, g)' /\ ~OpenAt(e, g)
  BY <1>6, <1>8 DEF OpenAt, OpenFor
<1>14. One(OpenAt(e, g))' = 1 /\ One(OpenAt(e, g)) = 0
  BY <1>13 DEF One
<1>15. OneOpen'
  BY <1>5 DEF SearchesInv, OneOpen, Open
<1>16. Latest'
  <2>1. \A op \in Ops : Open(op)' => intent'[op].gen = answers'[intent'[op].entity].gen
    <3>1. \A op \in Ops : Open(op) => intent[op].entity \in Entities
      BY <1>1 DEF Open, Types, Request
    <3> QED BY <1>5, <1>6, <1>12, <3>1 DEF SearchesInv, Latest, Open
  <2>2. \A f \in Entities : InHand(f)' => answers'[f].gen = rec'.files[f]
    BY <1>4, <1>5, <1>7, <1>12
  <2> QED BY <2>1, <2>2 DEF Latest
<1>17. Final'
  BY <1>5 DEF SearchesInv, Final, Open
<1>18. AnswersCounted'
  <2>1. ASSUME NEW f \in Entities, NEW h \in Nat, answers'[f].gen = h
        PROVE  answers'[f].count <= Attempts(f, h)' + One(OpenAt(f, h))' + faults' + crashes'
    <3>1. answers[f].gen = h => answers[f].count <= Attempts(f, h) + One(OpenAt(f, h)) + faults + crashes
      BY DEF SearchesInv, AnswersCounted
    <3>2. /\ Attempts(f, h) \in Nat /\ One(OpenAt(f, h)) \in {0, 1} /\ faults \in Nat /\ crashes \in Nat
          /\ answers[f].count \in Nat
      BY <1>1, NumbersAre
    <3>3. CASE f # e
      <4>1. Attempts(f, h)' = Attempts(f, h) /\ One(OpenAt(f, h))' = One(OpenAt(f, h))
        BY <1>11, <3>3, PairSame
      <4> QED BY <1>5, <1>12, <2>1, <3>1, <3>2, <3>3, <4>1
    <3>4. CASE f = e
      <4>1. h = g
        BY <1>12, <2>1, <3>4
      <4>2. Attempts(f, h)' = Attempts(f, h) /\ One(OpenAt(f, h))' = 1 /\ One(OpenAt(f, h)) = 0
        BY <1>10, <1>14, <3>4, <4>1
      <4> QED BY <1>5, <1>12, <3>1, <3>2, <3>4, <4>1, <4>2
    <3> QED BY <3>3, <3>4
  <2> QED BY <2>1 DEF AnswersCounted
<1>19. AttemptsCounted'
  <2>1. ASSUME NEW f \in Entities, NEW h \in Nat
        PROVE  Attempts(f, h)' + One(OpenAt(f, h))' + Credit(f, h)'
                 <= MaxAttempts + One(FinalAt(f, h))' + given
    <3>1. Attempts(f, h) + One(OpenAt(f, h)) + Credit(f, h) <= MaxAttempts + One(FinalAt(f, h)) + given
      BY DEF SearchesInv, AttemptsCounted
    <3>2. CASE ~(f = e /\ h = g)
      BY <1>11, <3>1, <3>2, PairSame
    <3>3. CASE f = e /\ h = g
      <4> DEFINE a == Attempts(e, g)
                 em == One(emits = e)
                 due == replacement[e].due
      <4>1. /\ a \in Nat /\ em \in {0, 1} /\ given \in Nat /\ MaxAttempts \in Nat
            /\ One(due) \in {0, 1}
        BY <1>1, NumbersAre
      <4>2. ~Settling(e, g) /\ Settling(e, g)'
        BY <1>5, <1>8 DEF Settling
      <4>3. Credit(e, g) = em + One(due) /\ Credit(e, g)' = em
        BY <1>5, <4>1, <4>2 DEF Credit, One
      <4>4. FinalAt(e, g) <=> FinalSearch /\ FinalDone(e, g)
        BY <1>6, <1>8 DEF FinalAt, OpenFor
      <4>5. FinalAt(e, g)' <=> FinalSearch /\ (FinalDone(e, g) \/ (age[e] >= Horizon /\ ~due))
        <5>1. \A op \in Ops : ~OpenFor(op, e, g)'
          BY <1>6, <1>9 DEF OpenFor
        <5> QED BY <1>5, <1>8, <1>10, <4>2, <5>1 DEF FinalAt
      <4>6. a + em + One(due) <= MaxAttempts + One(FinalAt(e, g)) + given /\ em + One(due) <= given
        <5>1. em + One(due) <= given
          BY DEF SearchesInv, CreditsGiven
        <5>2. a + 0 + (em + One(due)) <= MaxAttempts + One(FinalAt(e, g)) + given
          BY <1>14, <3>1, <3>3, <4>3
        <5> HIDE DEF a, em, due
        <5> QED BY <4>1, <5>1, <5>2
      <4>7. /\ One(FinalAt(e, g)) = (IF FinalAt(e, g) THEN 1 ELSE 0)
            /\ One(FinalAt(e, g))' = (IF FinalAt(e, g)' THEN 1 ELSE 0)
            /\ One(due) = (IF due THEN 1 ELSE 0)
        BY DEF One
      <4>8. Allowed(e, g)
        <5>1. Listed(e)
          BY <1>2, <1>3 DEF Listed
        <5> QED BY <1>4, <5>1 DEF Permitted
      <4>9. due \/ (FinalSearch /\ age[e] >= Horizon /\ ~FinalDone(e, g)) \/ a < MaxAttempts
        BY <4>8 DEF Allowed
      <4>10. a + 1 + em <= MaxAttempts + One(FinalAt(e, g))' + given
        <5> HIDE DEF a, em, due
        <5>1. CASE due
          BY <4>1, <4>4, <4>5, <4>6, <4>7, <5>1
        <5>2. CASE ~due /\ FinalSearch /\ age[e] >= Horizon /\ ~FinalDone(e, g)
          BY <4>1, <4>4, <4>5, <4>6, <4>7, <5>2
        <5>3. CASE ~due /\ a < MaxAttempts
          BY <4>1, <4>6, <4>7, <5>3
        <5> QED BY <4>9, <5>1, <5>2, <5>3
      <4>11. Attempts(f, h)' = a
        BY <1>10, <3>3
      <4> QED BY <1>14, <3>3, <4>3, <4>10, <4>11
    <3> QED BY <3>2, <3>3
  <2> QED BY <1>5, <2>1 DEF AttemptsCounted
<1>20. CreditsGiven'
  BY <1>5 DEF SearchesInv, CreditsGiven, One
<1> QED BY <1>15, <1>16, <1>17, <1>18, <1>19, <1>20 DEF SearchesInv

\* Counting a search uses up the replacement it settles.
LEMMA SearchIsCounted ==
  ASSUME ScheduleInv, SearchesInv, CountSearch PROVE SearchesInv'
<1>1. Types /\ ScheduleTypes /\ Follows /\ Awaits /\ rec \in Thread
  BY DEF ScheduleInv, UpgradesInv, Types
<1>2. PICK e \in Entities : e = rec.entity /\ rec.pc = "count" /\ rec.op = No
  BY <1>1 DEF CountSearch, At, Awaits, Follows, Handoff
<1>3. /\ UNCHANGED <<age, checkpoint, intent, recorded, emits, answers, given, faults, crashes>>
      /\ replacement' = [replacement EXCEPT ![e] = NoReplacement]
      /\ rec'.pc \in {"complete", "client"} /\ rec'.entity = e /\ rec'.files = rec.files
      /\ rec'.op = No
  BY <1>1, <1>2 DEF CountSearch, ghosts, bounds, Thread
<1>4. /\ ~replacement'[e].due
      /\ \A f \in Entities : f # e => replacement'[f].due = replacement[f].due
  BY <1>1, <1>3 DEF ScheduleTypes, NoReplacement
<1>5. \A f \in Entities : /\ InHand(f)' <=> InHand(f)
                          /\ InHand(f) => f = e
  BY <1>2, <1>3 DEF InHand
<1>6. \A f \in Entities, h \in Nat :
        /\ Holding(f, h)' <=> Holding(f, h)
        /\ Holding(f, h) => f = e
        /\ Attempts(f, h)' = Attempts(f, h) /\ (FinalDone(f, h)' <=> FinalDone(f, h))
  BY <1>3, <1>5 DEF Holding, Attempts, FinalDone
<1>7. \A op \in Ops, f \in Entities, h \in Nat :
        OpenFor(op, f, h)' <=> OpenFor(op, f, h)
  BY <1>3 DEF OpenFor, Open
<1>8. OneOpen' /\ Latest' /\ Final'
  <2>1. OneOpen'
    BY <1>3 DEF SearchesInv, OneOpen, Open
  <2>2. Latest'
    BY <1>3, <1>5 DEF SearchesInv, Latest, Open
  <2>3. Final'
    BY <1>3 DEF SearchesInv, Final, Open
  <2> QED BY <2>1, <2>2, <2>3
<1>9. \A f \in Entities, h \in Nat : One(OpenAt(f, h))' = One(OpenAt(f, h))
  BY <1>6, <1>7 DEF OpenAt, One
<1>10. AnswersCounted'
  BY <1>3, <1>6, <1>9 DEF SearchesInv, AnswersCounted
<1>11. AttemptsCounted'
  <2>1. ASSUME NEW f \in Entities, NEW h \in Nat
        PROVE  Attempts(f, h)' + One(OpenAt(f, h))' + Credit(f, h)'
                 <= MaxAttempts + One(FinalAt(f, h))' + given
    <3>1. Attempts(f, h) + One(OpenAt(f, h)) + Credit(f, h) <= MaxAttempts + One(FinalAt(f, h)) + given
      BY DEF SearchesInv, AttemptsCounted
    <3>2. CASE f # e
      <4>1. PairAside(f, h)
        BY <1>3, <1>4, <1>6, <1>7, <3>2 DEF PairAside
      <4> QED BY <3>1, <4>1, PairSame
    <3>3. CASE f = e
      <4>1. Credit(e, h)' = One(emits = e) + 0
        BY <1>3, <1>4 DEF Credit, One
      <4>2. FinalAt(e, h) => FinalAt(e, h)'
        <5>1. ~Settling(e, h)'
          BY <1>3 DEF Settling
        <5> QED BY <1>3, <1>6, <1>7, <5>1 DEF FinalAt
      <4>3. One(FinalAt(e, h)) <= One(FinalAt(e, h))' /\ One(FinalAt(e, h))' \in {0, 1}
        BY <4>2 DEF One
      <4>4. /\ One(emits = e) + 0 <= Credit(e, h) /\ One(emits = e) \in {0, 1}
            /\ One(FinalAt(e, h)) \in {0, 1} /\ One(OpenAt(e, h)) \in {0, 1} /\ Attempts(e, h) \in Nat
            /\ Credit(e, h) \in Nat /\ MaxAttempts \in Nat /\ given \in Nat
        <5>1. /\ One(emits = e) \in {0, 1} /\ One(replacement[e].due /\ ~Settling(e, h)) \in {0, 1}
              /\ Credit(e, h) \in Nat
              /\ One(FinalAt(e, h)) \in {0, 1} /\ One(OpenAt(e, h)) \in {0, 1} /\ Attempts(e, h) \in Nat
              /\ MaxAttempts \in Nat /\ given \in Nat
          BY <1>1, NumbersAre
        <5>2. Credit(e, h) = One(emits = e) + One(replacement[e].due /\ ~Settling(e, h))
          BY DEF Credit
        <5> QED BY <5>1, <5>2
      <4>5. Attempts(e, h) + One(OpenAt(e, h)) + Credit(e, h)' <= MaxAttempts + One(FinalAt(e, h))' + given
        BY <3>1, <3>3, <4>1, <4>3, <4>4
      <4> QED BY <1>6, <1>9, <3>3, <4>5
    <3> QED BY <3>2, <3>3
  <2> QED BY <1>3, <2>1 DEF AttemptsCounted
<1>12. CreditsGiven'
  <2>1. ASSUME NEW f \in Entities PROVE One(emits = f) + One(replacement'[f].due) <= given
    <3>1. One(emits = f) + One(replacement[f].due) <= given
      BY DEF SearchesInv, CreditsGiven
    <3>2. One(replacement'[f].due) <= One(replacement[f].due) /\ One(replacement'[f].due) \in {0, 1}
      BY <1>4 DEF One
    <3>3. One(emits = f) \in {0, 1} /\ One(replacement[f].due) \in {0, 1} /\ given \in Nat
      BY <1>1, OneIs DEF ScheduleTypes
    <3> QED BY <3>1, <3>2, <3>3
  <2> QED BY <1>3, <2>1 DEF CreditsGiven, One
<1> QED BY <1>8, <1>10, <1>11, <1>12 DEF SearchesInv

\* What the thread had in its hand becomes a request.
LEMMA RequestOpens ==
  ASSUME ScheduleInv, SearchesInv, RecordIntent, UNCHANGED faults PROVE SearchesInv'
<1>1. Types /\ ScheduleTypes /\ Follows /\ Awaits /\ rec \in Thread
  BY DEF ScheduleInv, UpgradesInv, Types
<1>2. PICK e \in Entities : e = rec.entity /\ rec.pc = "client"
  BY <1>1 DEF RecordIntent, At, Awaits
<1>3. InHand(e) /\ \A f \in Entities : InHand(f) => f = e
  BY <1>2 DEF InHand
<1>4. \A op \in Ops : Open(op) => intent[op].entity # e
  BY <1>3, HeldAlone
<1>5. PICK g \in Nat : g = rec.files[e] /\ g = answers[e].gen
  <2>1. answers[e].gen \in Nat /\ answers[e].gen = rec.files[e]
    BY <1>1, <1>3 DEF ScheduleTypes, SearchesInv, Latest
  <2> QED BY <2>1
<1>6. PICK op \in Spare :
        /\ intent'[op].entity = e /\ intent'[op].gen = g
        /\ intent'[op].terminal = (age[e] >= Horizon) /\ intent'[op].observed = FALSE
        /\ \A o \in Ops : o # op => intent'[o] = intent[o]
        /\ recorded' = recorded \ {op} /\ rec'.pc = "admit"
  <2>1. ~Fault
    BY <1>1 DEF Fault, ScheduleTypes
  <2> QED BY <1>2, <1>5, <2>1, RequestRecorded
<1>7. UNCHANGED <<age, checkpoint, replacement, emits, answers, given, faults, crashes>>
  BY DEF RecordIntent, ghosts
<1>8. op \in Ops /\ ~Open(op) /\ Open(op)' /\ e # No
  BY <1>6, UpgradesConstants DEF Spare, Open, NoIntent, No
<1>9. \A o \in Ops : o # op => (Open(o)' <=> Open(o))
  BY <1>6 DEF Open
<1>10. \A f \in Entities : ~InHand(f)'
  BY <1>6 DEF InHand
<1>11. ASSUME NEW f \in Entities, NEW h \in Nat
       PROVE  /\ One(OpenAt(f, h))' = One(OpenAt(f, h)) /\ One(FinalAt(f, h))' = One(FinalAt(f, h))
              /\ Credit(f, h)' = Credit(f, h) /\ Attempts(f, h)' = Attempts(f, h)
  <2>1. /\ ~Holding(f, h)' /\ ~Settling(f, h)' /\ ~Settling(f, h)
        /\ Holding(f, h) <=> f = e /\ h = g
    BY <1>2, <1>3, <1>5, <1>10 DEF Holding, Settling
  <2>2. \A o \in Ops :
          /\ o # op => /\ OpenFor(o, f, h)' <=> OpenFor(o, f, h)
                       /\ intent'[o].terminal = intent[o].terminal
          /\ ~OpenFor(op, f, h) /\ (OpenFor(op, f, h)' <=> f = e /\ h = g)
    BY <1>6, <1>8, <1>9 DEF OpenFor
  <2>3. OpenAt(f, h)' <=> OpenAt(f, h)
    BY <1>8, <2>1, <2>2 DEF OpenAt
  <2>4. FinalDone(f, h)' <=> FinalDone(f, h)
    BY <1>7 DEF FinalDone
  <2>5. FinalAt(f, h)' <=> FinalAt(f, h)
    <3>1. (\E o \in Ops : OpenFor(o, f, h)' /\ intent'[o].terminal)
            <=> \/ \E o \in Ops : OpenFor(o, f, h) /\ intent[o].terminal
                \/ f = e /\ h = g /\ age[e] >= Horizon
      BY <1>6, <1>8, <2>2
    <3>2. FinalAt(f, h)' <=> FinalSearch /\ (FinalDone(f, h) \/ \E o \in Ops : OpenFor(o, f, h)' /\ intent'[o].terminal)
      BY <2>1, <2>4 DEF FinalAt
    <3>3. FinalAt(f, h) <=> /\ FinalSearch
                            /\ \/ FinalDone(f, h)
                               \/ f = e /\ h = g /\ age[e] >= Horizon
                               \/ \E o \in Ops : OpenFor(o, f, h) /\ intent[o].terminal
      BY <2>1 DEF FinalAt
    <3> QED BY <3>1, <3>2, <3>3
  <2>6. Credit(f, h)' = Credit(f, h)
    BY <1>7, <2>1 DEF Credit, One
  <2>7. Attempts(f, h)' = Attempts(f, h)
    BY <1>7 DEF Attempts
  <2> QED BY <2>3, <2>5, <2>6, <2>7 DEF One
<1>12. OneOpen'
  BY <1>4, <1>6, <1>8, <1>9 DEF SearchesInv, OneOpen
<1>13. Latest'
  <2>1. \A o \in Ops : Open(o)' => intent'[o].gen = answers'[intent'[o].entity].gen
    BY <1>5, <1>6, <1>7, <1>9 DEF SearchesInv, Latest
  <2> QED BY <1>10, <2>1 DEF Latest
<1>14. Final'
  <2>1. ASSUME NEW o \in Ops, Open(o)'
        PROVE  IF intent'[o].terminal THEN age'[intent'[o].entity] >= Horizon
               ELSE ~checkpoint'[intent'[o].entity].terminal
    BY <1>6, <1>7, <1>9, <2>1 DEF SearchesInv, Final
  <2> QED BY <1>7, <2>1 DEF SearchesInv, Final
<1>15. AnswersCounted' /\ AttemptsCounted'
  BY <1>7, <1>11 DEF SearchesInv, AnswersCounted, AttemptsCounted
<1>16. CreditsGiven'
  BY <1>7 DEF SearchesInv, CreditsGiven, One
<1> QED BY <1>12, <1>13, <1>14, <1>15, <1>16 DEF SearchesInv

\* What the thread had in its hand is lost with a failed call or a restart.
LEMMA AnswerIsLost ==
  ASSUME ScheduleInv, SearchesInv,
         Crash \/ (RecordIntent /\ ~UNCHANGED faults)
  PROVE  SearchesInv'
<1>1. Types /\ ScheduleTypes /\ rec \in Thread
  BY DEF ScheduleInv, UpgradesInv, Types
<1>2. /\ UNCHANGED <<age, checkpoint, replacement, intent, recorded, answers, given>>
      /\ emits' = emits \/ emits' = No
      /\ faults' + crashes' = faults + crashes + 1
      /\ rec'.pc \in {"idle", "next"}
  <2>1. faults \in Nat /\ crashes \in Nat
    BY <1>1 DEF ScheduleTypes
  <2>2. CASE Crash
    <3>1. /\ UNCHANGED <<age, checkpoint, replacement, intent, recorded, answers, given, faults>>
          /\ emits' = No /\ crashes' = crashes + 1 /\ rec'.pc = "idle"
      BY <2>2, IdleIs DEF Crash, schedule, ghosts
    <3> QED BY <2>1, <3>1
  <2>3. CASE RecordIntent /\ ~UNCHANGED faults
    <3>1. /\ UNCHANGED <<age, checkpoint, replacement, answers, given, emits, crashes>>
      BY <2>3 DEF RecordIntent, ghosts
    <3>2. Fault /\ UNCHANGED <<intent, recorded>> /\ rec'.pc = "next"
      BY <2>3, RequestRecorded
    <3> QED BY <2>1, <3>1, <3>2 DEF Fault
  <2> QED BY <2>2, <2>3
<1>3. \A f \in Entities : ~InHand(f)'
  BY <1>2 DEF InHand
<1>4. \A op \in Ops : Open(op)' <=> Open(op)
  BY <1>2 DEF Open
<1>5. \A e \in Entities : e # No
  BY UpgradesConstants DEF No
<1>6. ASSUME NEW f \in Entities, NEW h \in Nat
      PROVE  /\ Attempts(f, h)' = Attempts(f, h) /\ One(OpenAt(f, h)) <= One(OpenAt(f, h))' + 1
             /\ One(OpenAt(f, h))' + Credit(f, h)' + One(FinalAt(f, h))
                  <= One(OpenAt(f, h)) + Credit(f, h) + One(FinalAt(f, h))'
  <2>1. ~Holding(f, h)' /\ ~Settling(f, h)'
    BY <1>3 DEF Holding, Settling
  <2>2. \A op \in Ops : /\ OpenFor(op, f, h)' <=> OpenFor(op, f, h)
                        /\ intent'[op].terminal = intent[op].terminal
    BY <1>2, <1>4 DEF OpenFor
  <2>3. (FinalDone(f, h)' <=> FinalDone(f, h)) /\ Attempts(f, h)' = Attempts(f, h)
    BY <1>2 DEF FinalDone, Attempts
  <2> DEFINE em == One(emits = f)
             em2 == One(emits' = f)
             due == replacement[f].due
  <2>4. em2 <= em /\ em \in {0, 1} /\ em2 \in {0, 1} /\ One(due) \in {0, 1}
    BY <1>2, <1>5 DEF One
  <2>5. /\ Credit(f, h)' = em2 + One(due)
        /\ Credit(f, h) = em + One(due /\ ~Settling(f, h))
    BY <1>2, <2>1 DEF Credit, One
  <2>6. /\ One(OpenAt(f, h)) \in {0, 1} /\ One(OpenAt(f, h))' \in {0, 1}
        /\ One(FinalAt(f, h)) \in {0, 1} /\ One(FinalAt(f, h))' \in {0, 1}
    BY DEF One
  <2>7. CASE ~Holding(f, h)
    <3>1. ~Settling(f, h) /\ (OpenAt(f, h)' <=> OpenAt(f, h)) /\ (FinalAt(f, h)' <=> FinalAt(f, h))
      BY <2>1, <2>2, <2>3, <2>7 DEF Settling, OpenAt, FinalAt
    <3>2. /\ One(OpenAt(f, h))' = One(OpenAt(f, h)) /\ One(FinalAt(f, h))' = One(FinalAt(f, h))
          /\ One(due /\ ~Settling(f, h)) = One(due)
      BY <3>1 DEF One
    <3> HIDE DEF em, em2, due
    <3> QED BY <2>3, <2>4, <2>5, <2>6, <3>2
  <2>8. CASE Holding(f, h)
    <3>1. \A op \in Ops : ~OpenFor(op, f, h)
      BY <2>8, HeldAlone DEF Holding, OpenFor
    <3>2. OpenAt(f, h) /\ ~OpenAt(f, h)'
      BY <2>1, <2>2, <2>8, <3>1 DEF OpenAt
    <3>3. One(OpenAt(f, h)) = 1 /\ One(OpenAt(f, h))' = 0
      BY <3>2 DEF One
    <3>4. CASE Settling(f, h) /\ due
      <4>1. FinalAt(f, h) <=> FinalAt(f, h)'
        BY <2>1, <2>2, <2>3, <3>1, <3>4 DEF FinalAt
      <4>2. One(FinalAt(f, h)) = One(FinalAt(f, h))' /\ One(due /\ ~Settling(f, h)) = 0
        BY <3>4, <4>1 DEF One
      <4> HIDE DEF em, em2, due
      <4> QED BY <2>3, <2>4, <2>5, <2>6, <3>3, <4>2
    <3>5. CASE ~(Settling(f, h) /\ due)
      <4>1. One(due /\ ~Settling(f, h)) = One(due)
        BY <3>5 DEF One
      <4> HIDE DEF em, em2, due
      <4> QED BY <2>3, <2>4, <2>5, <2>6, <3>3, <4>1
    <3> QED BY <3>4, <3>5
  <2> QED BY <2>7, <2>8
<1>7. OneOpen' /\ Latest' /\ Final'
  <2>1. OneOpen'
    BY <1>2, <1>4 DEF SearchesInv, OneOpen
  <2>2. Latest'
    BY <1>2, <1>3, <1>4 DEF SearchesInv, Latest
  <2>3. Final'
    BY <1>2, <1>4 DEF SearchesInv, Final
  <2> QED BY <2>1, <2>2, <2>3
<1>8. AnswersCounted'
  <2>1. ASSUME NEW f \in Entities, NEW h \in Nat, answers'[f].gen = h
        PROVE  answers'[f].count <= Attempts(f, h)' + One(OpenAt(f, h))' + faults' + crashes'
    <3>1. answers[f].count <= Attempts(f, h) + One(OpenAt(f, h)) + faults + crashes
      BY <1>2, <2>1 DEF SearchesInv, AnswersCounted
    <3>2. /\ Attempts(f, h) \in Nat /\ One(OpenAt(f, h)) \in {0, 1} /\ faults \in Nat /\ crashes \in Nat
          /\ answers[f].count \in Nat
      BY <1>1, NumbersAre
    <3>3. One(OpenAt(f, h))' \in {0, 1} /\ faults' \in Nat /\ crashes' \in Nat
      <4>1. faults' \in Nat /\ crashes' \in Nat
        <5>1. UpgradesNext
          BY DEF UpgradesNext, ReconcilerStep
        <5>2. ScheduleTypes'
          BY <5>1, ScheduleTypesNext
        <5> QED BY <5>2 DEF ScheduleTypes
      <4> QED BY <4>1 DEF One
    <3>4. Attempts(f, h)' = Attempts(f, h) /\ One(OpenAt(f, h)) <= One(OpenAt(f, h))' + 1
      BY <1>6
    <3>5. answers'[f].count = answers[f].count /\ faults' + crashes' = faults + crashes + 1
      BY <1>2
    <3>6. PICK a \in Nat : a = Attempts(f, h) /\ a = Attempts(f, h)'
      BY <3>2, <3>4
    <3>7. PICK b \in {0, 1} : b = One(OpenAt(f, h))
      BY <3>2
    <3>8. PICK c \in {0, 1} : c = One(OpenAt(f, h))'
      BY <3>3
    <3>9. PICK x \in Nat, y \in Nat : x = faults' /\ y = crashes'
      BY <3>3
    <3>10. answers[f].count <= a + b + faults + crashes /\ b <= c + 1
      BY <3>1, <3>4, <3>6, <3>7, <3>8
    <3>11. x + y = faults + crashes + 1
      BY <3>5, <3>9
    <3>12. answers[f].count <= a + c + x + y
      BY <3>2, <3>10, <3>11
    <3> QED BY <3>5, <3>6, <3>8, <3>9, <3>12
  <2> QED BY <2>1 DEF AnswersCounted
<1>9. AttemptsCounted'
  <2>1. ASSUME NEW f \in Entities, NEW h \in Nat
        PROVE  Attempts(f, h)' + One(OpenAt(f, h))' + Credit(f, h)'
                 <= MaxAttempts + One(FinalAt(f, h))' + given
    <3>1. Attempts(f, h) + One(OpenAt(f, h)) + Credit(f, h) <= MaxAttempts + One(FinalAt(f, h)) + given
      BY DEF SearchesInv, AttemptsCounted
    <3>2. /\ Attempts(f, h) \in Nat /\ One(OpenAt(f, h)) \in {0, 1} /\ One(FinalAt(f, h)) \in {0, 1}
          /\ Credit(f, h) \in Nat /\ MaxAttempts \in Nat /\ given \in Nat
      BY <1>1, NumbersAre
    <3>3. One(OpenAt(f, h))' \in {0, 1} /\ One(FinalAt(f, h))' \in {0, 1} /\ Credit(f, h)' \in Nat
      <4>1. /\ One(emits = f)' \in {0, 1} /\ One(replacement[f].due /\ ~Settling(f, h))' \in {0, 1}
        BY DEF One
      <4>2. Credit(f, h)' \in Nat
        BY <4>1 DEF Credit
      <4> QED BY <4>2 DEF One
    <3> QED BY <1>6, <3>1, <3>2, <3>3
  <2> QED BY <1>2, <2>1 DEF AttemptsCounted
<1>10. CreditsGiven'
  <2>1. ASSUME NEW f \in Entities PROVE One(emits' = f) + One(replacement[f].due) <= given
    <3>1. One(emits = f) + One(replacement[f].due) <= given /\ given \in Nat
      BY <1>1 DEF SearchesInv, CreditsGiven, ScheduleTypes
    <3>2. One(emits' = f) <= One(emits = f) /\ One(emits = f) \in {0, 1} /\ One(emits' = f) \in {0, 1}
          /\ One(replacement[f].due) \in {0, 1}
      BY <1>2, <1>5 DEF One
    <3> QED BY <3>1, <3>2
  <2> QED BY <1>2, <2>1 DEF CreditsGiven, One
<1> QED BY <1>7, <1>8, <1>9, <1>10 DEF SearchesInv

\* Recording a completed search ends it: what was open is one attempt more.
LEMMA SearchEnds ==
  ASSUME ScheduleInv, SearchesInv,
         NEW e \in Entities, NEW g \in Nat, NEW t \in BOOLEAN, NEW op \in Ops \union {No},
         RecordCompleted(e, g, t, op),
         UNCHANGED <<age, intent, emits, answers, given, faults, crashes>>,
         rec'.pc \notin {"count", "client", "complete"},
         op \in Ops => OpenFor(op, e, g) /\ intent[op].terminal = t /\ intent[op].observed
                       /\ \A f \in Entities : ~InHand(f),
         op = No => Holding(e, g) /\ t = (age[e] >= Horizon) /\ rec.pc = "complete"
  PROVE  SearchesInv'
<1>1. Types /\ ScheduleTypes /\ rec \in Thread
  BY DEF ScheduleInv, UpgradesInv, Types
<1>2. \A o \in Ops : o # No
  BY UpgradesConstants DEF No
<1>3. \A f \in Entities : InHand(f) => f = e /\ op = No
  BY DEF Holding, InHand
<1>4. \A f \in Entities : ~InHand(f)'
  BY DEF InHand
<1>5. \A o \in Ops : Open(o) /\ intent[o].entity = e => o = op
  <2>1. CASE op = No
    BY <2>1, HeldAlone DEF Holding
  <2>2. CASE op \in Ops
    BY <2>2 DEF OpenFor, SearchesInv, OneOpen
  <2> QED BY <2>1, <2>2
<1>6. /\ checkpoint'[e].gen = g /\ checkpoint'[e].attempts = Attempts(e, g) + 1
      /\ checkpoint'[e].terminal = t /\ ~replacement'[e].due
  <2> DEFINE n == 1 + IF checkpoint[e].gen = g THEN checkpoint[e].attempts ELSE 0
  <2>1. /\ checkpoint' = [checkpoint EXCEPT ![e] =
              [gen |-> g, attempts |-> n, terminal |-> t, wait |-> Cooldown(n)]]
        /\ replacement' = [replacement EXCEPT ![e] = NoReplacement]
    BY DEF RecordCompleted
  <2>2. n = Attempts(e, g) + 1
    BY <1>1 DEF Attempts, ScheduleTypes
  <2> HIDE DEF n
  <2>3. checkpoint'[e] = [gen |-> g, attempts |-> n, terminal |-> t, wait |-> Cooldown(n)]
    BY <1>1, <2>1 DEF ScheduleTypes
  <2>4. ~replacement'[e].due
    BY <1>1, <2>1 DEF ScheduleTypes, NoReplacement
  <2> QED BY <2>2, <2>3, <2>4
<1>7. \A f \in Entities : f # e => checkpoint'[f] = checkpoint[f] /\ replacement'[f] = replacement[f]
  BY DEF RecordCompleted
<1>8. recorded' = recorded \union ({op} \ {No})
  BY DEF RecordCompleted
<1>9. \A o \in Ops : Open(o)' <=> Open(o) /\ o # op
  BY <1>2, <1>8 DEF Open
<1>10. \A o \in Ops : Open(o)' => intent[o].entity # e /\ Open(o) /\ intent[o].entity \in Entities
  BY <1>1, <1>5, <1>9 DEF Open, Types, Request
<1>11. answers[e].gen = g
  <2>1. CASE op = No
    BY <2>1 DEF Holding, SearchesInv, Latest
  <2>2. CASE op \in Ops
    BY <2>2 DEF OpenFor, SearchesInv, Latest
  <2> QED BY <2>1, <2>2
<1>12. (t => age[e] >= Horizon) /\ (checkpoint[e].terminal => t)
  <2>1. CASE op = No
    BY <2>1 DEF SearchesInv, Final
  <2>2. CASE op \in Ops
    BY <2>2 DEF OpenFor, SearchesInv, Final
  <2> QED BY <2>1, <2>2
<1>13. FinalAt(e, g) => FinalSearch /\ t
  <2>1. FinalDone(e, g) => t
    BY <1>12 DEF FinalDone
  <2>2. Holding(e, g) /\ age[e] >= Horizon => t
    BY <1>3 DEF Holding
  <2>3. \A o \in Ops : OpenFor(o, e, g) /\ intent[o].terminal => t
    BY <1>2, <1>5 DEF OpenFor
  <2> QED BY <2>1, <2>2, <2>3 DEF FinalAt
<1>14. OpenAt(e, g)
  BY DEF OpenAt
<1>15. ASSUME NEW h \in Nat
       PROVE  ~OpenAt(e, h)' /\ Credit(e, h)' = One(emits = e) + 0
  <2>1. ~Holding(e, h)'
    BY <1>4 DEF Holding
  <2>2. \A o \in Ops : ~OpenFor(o, e, h)'
    BY <1>10 DEF OpenFor
  <2> QED BY <1>6, <2>1, <2>2 DEF OpenAt, Credit, One
<1>16. ASSUME NEW f \in Entities, NEW h \in Nat, f # e PROVE PairAside(f, h)
  <2>1. \A o \in Ops : OpenFor(o, f, h)' <=> OpenFor(o, f, h)
    <3>1. \A o \in Ops : OpenFor(o, f, h) => o # op
      BY <1>2, <1>16 DEF OpenFor
    <3> QED BY <1>9, <3>1 DEF OpenFor
  <2>2. ~Holding(f, h) /\ ~Holding(f, h)'
    BY <1>3, <1>4, <1>16 DEF Holding
  <2>3. Attempts(f, h)' = Attempts(f, h) /\ (FinalDone(f, h)' <=> FinalDone(f, h))
    BY <1>7, <1>16 DEF Attempts, FinalDone
  <2> QED BY <1>7, <1>16, <2>1, <2>2, <2>3 DEF PairAside
<1>17. OneOpen' /\ Latest' /\ Final'
  <2>1. OneOpen'
    BY <1>9 DEF SearchesInv, OneOpen
  <2>2. Latest'
    BY <1>4, <1>9 DEF SearchesInv, Latest
  <2>3. \A f \in Entities : checkpoint'[f].terminal => age[f] >= Horizon
    BY <1>6, <1>7, <1>12 DEF SearchesInv, Final
  <2>4. \A o \in Ops : Open(o)' => IF intent[o].terminal THEN age[intent[o].entity] >= Horizon
                                   ELSE ~checkpoint'[intent[o].entity].terminal
    BY <1>7, <1>10 DEF SearchesInv, Final
  <2>5. Final'
    BY <2>3, <2>4 DEF Final
  <2> QED BY <2>1, <2>2, <2>5
<1>18. AnswersCounted'
  <2>1. ASSUME NEW f \in Entities, NEW h \in Nat, answers[f].gen = h
        PROVE  answers[f].count <= Attempts(f, h)' + One(OpenAt(f, h))' + faults + crashes
    <3>1. answers[f].count <= Attempts(f, h) + One(OpenAt(f, h)) + faults + crashes
      BY <2>1 DEF SearchesInv, AnswersCounted
    <3>2. CASE f # e
      BY <1>16, <3>1, <3>2, PairSame
    <3>3. CASE f = e
      <4>1. h = g
        BY <1>11, <2>1, <3>3
      <4>2. Attempts(e, g)' = Attempts(e, g) + 1
        BY <1>6 DEF Attempts
      <4>3. One(OpenAt(e, g)) = 1 /\ One(OpenAt(e, g))' = 0
        BY <1>14, <1>15 DEF One
      <4>4. /\ Attempts(e, g) \in Nat /\ faults \in Nat /\ crashes \in Nat /\ answers[e].count \in Nat
        BY <1>1, NumbersAre
      <4>5. answers[e].count <= Attempts(e, g)' + One(OpenAt(e, g))' + faults + crashes
        BY <3>1, <3>3, <4>1, <4>2, <4>3, <4>4
      <4> QED BY <3>3, <4>1, <4>5
    <3> QED BY <3>2, <3>3
  <2> QED BY <2>1 DEF AnswersCounted
<1>19. AttemptsCounted'
  <2>1. ASSUME NEW f \in Entities, NEW h \in Nat
        PROVE  Attempts(f, h)' + One(OpenAt(f, h))' + Credit(f, h)'
                 <= MaxAttempts + One(FinalAt(f, h))' + given
    <3>1. Attempts(f, h) + One(OpenAt(f, h)) + Credit(f, h) <= MaxAttempts + One(FinalAt(f, h)) + given
      BY DEF SearchesInv, AttemptsCounted
    <3>2. CASE f # e
      BY <1>16, <3>1, <3>2, PairSame
    <3>3. CASE f = e
      <4>1. One(OpenAt(e, h))' = 0 /\ Credit(e, h)' = One(emits = e) + 0
        BY <1>15 DEF One
      <4>2. /\ One(emits = e) \in {0, 1} /\ One(FinalAt(e, h)) \in {0, 1} /\ One(FinalAt(e, h))' \in {0, 1}
            /\ Attempts(e, h) \in Nat /\ Credit(e, h) \in Nat /\ One(replacement[e].due) \in {0, 1}
            /\ MaxAttempts \in Nat /\ given \in Nat
        <5>1. One(FinalAt(e, h))' \in {0, 1}
          BY DEF One
        <5> QED BY <1>1, <5>1, NumbersAre
      <4>3. CASE h # g
        <5>1. Attempts(e, h)' = 0
          BY <1>6, <4>3 DEF Attempts
        <5>2. One(emits = e) + One(replacement[e].due) <= given
          BY DEF SearchesInv, CreditsGiven
        <5>3. Attempts(e, h)' + One(OpenAt(e, h))' + Credit(e, h)' <= MaxAttempts + One(FinalAt(e, h))' + given
          BY <4>1, <4>2, <5>1, <5>2
        <5> QED BY <3>3, <5>3
      <4>4. CASE h = g
        <5>1. Attempts(e, h)' = Attempts(e, h) + 1
          BY <1>6, <4>4 DEF Attempts
        <5>2. One(OpenAt(e, h)) = 1
          BY <1>14, <4>4 DEF One
        <5>3. One(FinalAt(e, h)) <= One(FinalAt(e, h))'
          <6>1. FinalAt(e, g) => FinalAt(e, g)'
            <7>1. FinalSearch /\ t => FinalAt(e, g)'
              BY <1>6 DEF FinalAt, FinalDone
            <7> QED BY <1>13, <7>1
          <6> QED BY <4>4, <6>1 DEF One
        <5>4. One(emits = e) + 0 <= Credit(e, h)
          <6>1. One(replacement[e].due /\ ~Settling(e, h)) \in {0, 1}
            BY OneIs
          <6> QED BY <4>2, <6>1 DEF Credit
        <5>5. Attempts(e, h)' + One(OpenAt(e, h))' + Credit(e, h)' <= MaxAttempts + One(FinalAt(e, h))' + given
          BY <3>1, <3>3, <4>1, <4>2, <5>1, <5>2, <5>3, <5>4
        <5> QED BY <3>3, <5>5
      <4> QED BY <4>3, <4>4
    <3> QED BY <3>2, <3>3
  <2> QED BY <2>1 DEF AttemptsCounted
<1>20. CreditsGiven'
  <2>1. ASSUME NEW f \in Entities PROVE One(emits = f) + One(replacement'[f].due) <= given
    <3>1. One(emits = f) + One(replacement[f].due) <= given
      BY DEF SearchesInv, CreditsGiven
    <3>2. One(replacement'[f].due) <= One(replacement[f].due) /\ One(replacement'[f].due) \in {0, 1}
      BY <1>6, <1>7 DEF One
    <3>3. One(emits = f) \in {0, 1} /\ One(replacement[f].due) \in {0, 1} /\ given \in Nat
      BY <1>1, OneIs DEF ScheduleTypes
    <3> QED BY <3>1, <3>2, <3>3
  <2> QED BY <2>1 DEF CreditsGiven, One
<1> QED BY <1>17, <1>18, <1>19, <1>20 DEF SearchesInv

\* A completed search is recorded by the run that made it or, after a restart, by the next.
LEMMA SearchIsRecorded ==
  ASSUME ScheduleInv, SearchesInv,
         \/ CompleteSearch
         \/ SyncCompleted /\ UNCHANGED rec /\ ~UNCHANGED <<checkpoint, replacement, recorded>>
  PROVE  SearchesInv'
<1>1. Types /\ ScheduleTypes /\ Follows /\ rec \in Thread /\ Settled
  BY DEF ScheduleInv, UpgradesInv, Types
<1>2. UNCHANGED <<age, intent, emits, answers, given, faults, crashes>>
  BY DEF CompleteSearch, SyncCompleted, ghosts, bounds
<1>3. PICK e \in Entities, g \in Nat, t \in BOOLEAN, op \in Ops \union {No} :
        /\ RecordCompleted(e, g, t, op)
        /\ op \in Ops => /\ intent[op].entity = e /\ intent[op].gen = g
                         /\ intent[op].terminal = t /\ intent[op].observed
                         /\ op \notin recorded
        /\ CompleteSearch => /\ e = rec.entity /\ g = rec.files[e] /\ op = rec.op
                             /\ t = (age[e] >= Horizon)
        /\ SyncCompleted => op \in Ops
  <2>1. ~(UNCHANGED <<checkpoint, retry, replacement, recorded>> /\ SyncCompleted)
    BY DEF CompleteSearch, SyncCompleted, At
  <2> QED BY <2>1, RecordsOf
<1>4. \A o \in Ops : o # No
  BY UpgradesConstants DEF No
<1>5. op \in Ops => OpenFor(op, e, g)
  <2>1. e # No
    BY UpgradesConstants DEF No
  <2> QED BY <1>3, <2>1 DEF OpenFor, Open
<1>6. rec'.pc \notin {"count", "client", "complete"}
      /\ (op \in Ops => \A f \in Entities : ~InHand(f))
      /\ (op = No => Holding(e, g) /\ t = (age[e] >= Horizon) /\ rec.pc = "complete")
  <2>1. CASE CompleteSearch
    <3>1. rec.pc = "complete" /\ rec'.pc = "next"
      BY <1>1, <2>1 DEF CompleteSearch, At, Thread
    <3> QED BY <1>3, <1>4, <2>1, <3>1 DEF InHand, Holding
  <2>2. CASE SyncCompleted /\ UNCHANGED rec
    <3>1. rec.pc = "sync" /\ rec'.pc = "sync"
      BY <2>2 DEF SyncCompleted, At
    <3> QED BY <1>3, <1>4, <2>2, <3>1 DEF InHand
  <2> QED BY <2>1, <2>2
<1> QED BY <1>2, <1>3, <1>5, <1>6, SearchEnds

\* A candidate is given up: one search more is owed, and allowed.
LEMMA CandidateGivenUp ==
  ASSUME ScheduleInv, SearchesInv, NEW op \in Ops, GiveUp(op) PROVE SearchesInv'
<1>1. ScheduleTypes
  BY DEF ScheduleInv
<1>2. /\ UNCHANGED <<age, checkpoint, replacement, recorded, intent, rec, answers, faults, crashes>>
      /\ given' = given + 1 /\ emits = No
  BY DEF GiveUp, schedule, ghosts
<1>3. \A f \in Entities : InHand(f)' <=> InHand(f)
  BY <1>2 DEF InHand
<1>4. OneOpen' /\ Latest' /\ Final'
  BY <1>2, <1>3 DEF SearchesInv, OneOpen, Latest, Final, Open
<1>5. ASSUME NEW f \in Entities, NEW h \in Nat
      PROVE  /\ Attempts(f, h)' = Attempts(f, h) /\ One(OpenAt(f, h))' = One(OpenAt(f, h))
             /\ One(FinalAt(f, h))' = One(FinalAt(f, h)) /\ Credit(f, h)' <= Credit(f, h) + 1
             /\ Credit(f, h)' \in Nat
  <2>1. (Holding(f, h)' <=> Holding(f, h)) /\ (Settling(f, h)' <=> Settling(f, h))
    BY <1>2, <1>3 DEF Holding, Settling
  <2>2. \A o \in Ops : OpenFor(o, f, h)' <=> OpenFor(o, f, h)
    BY <1>2 DEF OpenFor, Open
  <2>3. Attempts(f, h)' = Attempts(f, h) /\ (FinalDone(f, h)' <=> FinalDone(f, h))
    BY <1>2 DEF Attempts, FinalDone
  <2>4. (OpenAt(f, h)' <=> OpenAt(f, h)) /\ (FinalAt(f, h)' <=> FinalAt(f, h))
    BY <1>2, <2>1, <2>2, <2>3 DEF OpenAt, FinalAt
  <2>5. One(replacement[f].due /\ ~Settling(f, h))' = One(replacement[f].due /\ ~Settling(f, h))
    BY <1>2, <2>1 DEF One
  <2>6. /\ One(emits = f)' \in {0, 1} /\ One(emits = f) \in {0, 1}
        /\ One(replacement[f].due /\ ~Settling(f, h)) \in {0, 1}
    BY DEF One
  <2>7. Credit(f, h)' <= Credit(f, h) + 1 /\ Credit(f, h)' \in Nat
    <3>1. Credit(f, h)' = One(emits = f)' + One(replacement[f].due /\ ~Settling(f, h))
      BY <2>5 DEF Credit
    <3> QED BY <2>6, <3>1 DEF Credit
  <2> QED BY <2>3, <2>4, <2>7 DEF One
<1>6. AnswersCounted'
  BY <1>2, <1>5 DEF SearchesInv, AnswersCounted
<1>7. AttemptsCounted'
  <2>1. ASSUME NEW f \in Entities, NEW h \in Nat
        PROVE  Attempts(f, h)' + One(OpenAt(f, h))' + Credit(f, h)'
                 <= MaxAttempts + One(FinalAt(f, h))' + given'
    <3>1. Attempts(f, h) + One(OpenAt(f, h)) + Credit(f, h) <= MaxAttempts + One(FinalAt(f, h)) + given
      BY DEF SearchesInv, AttemptsCounted
    <3>2. /\ Attempts(f, h) \in Nat /\ One(OpenAt(f, h)) \in {0, 1} /\ One(FinalAt(f, h)) \in {0, 1}
          /\ Credit(f, h) \in Nat /\ MaxAttempts \in Nat /\ given \in Nat
      BY <1>1, NumbersAre
    <3> QED BY <1>2, <1>5, <3>1, <3>2
  <2> QED BY <2>1 DEF AttemptsCounted
<1>8. CreditsGiven'
  <2>1. ASSUME NEW f \in Entities PROVE One(emits' = f) + One(replacement[f].due) <= given + 1
    <3>1. One(emits = f) + One(replacement[f].due) <= given
      BY DEF SearchesInv, CreditsGiven
    <3>2. /\ One(emits = f) \in {0, 1} /\ One(replacement[f].due) \in {0, 1} /\ given \in Nat
          /\ One(emits' = f) \in {0, 1}
      BY <1>1, OneIs DEF ScheduleTypes
    <3> QED BY <3>1, <3>2
  <2> QED BY <1>2, <2>1 DEF CreditsGiven, One
<1> QED BY <1>4, <1>6, <1>7, <1>8 DEF SearchesInv

\* The replacement is recorded: what was owed by the tick is owed by the schedule, but for
\* a search that is just settling it.
LEMMA ReplacementRecorded ==
  ASSUME ScheduleInv, SearchesInv, RecordCandidateInvalidated PROVE SearchesInv'
<1>1. ScheduleTypes
  BY DEF ScheduleInv
<1>2. PICK e \in Entities : e = emits
  BY <1>1 DEF RecordCandidateInvalidated, ScheduleTypes
<1>3. /\ UNCHANGED <<age, checkpoint, recorded, intent, rec, answers, given, faults, crashes>>
      /\ emits' = No
      /\ replacement' = IF replacement[e].due THEN replacement
                        ELSE [replacement EXCEPT ![e] =
                                [due |-> TRUE, failures |-> 0, wait |-> ReplaceBase]]
  BY <1>2 DEF RecordCandidateInvalidated, ghosts, bounds
<1>4. replacement'[e].due /\ \A f \in Entities : f # e => replacement'[f].due = replacement[f].due
  BY <1>1, <1>3 DEF ScheduleTypes
<1>5. \A f \in Entities : InHand(f)' <=> InHand(f)
  BY <1>3 DEF InHand
<1>6. \A f \in Entities : f # No
  BY UpgradesConstants DEF No
<1>7. OneOpen' /\ Latest' /\ Final'
  BY <1>3, <1>5 DEF SearchesInv, OneOpen, Latest, Final, Open
<1>8. ASSUME NEW f \in Entities, NEW h \in Nat
      PROVE  /\ Holding(f, h)' <=> Holding(f, h)
             /\ Settling(f, h)' <=> Settling(f, h)
             /\ \A o \in Ops : OpenFor(o, f, h)' <=> OpenFor(o, f, h)
             /\ Attempts(f, h)' = Attempts(f, h) /\ (FinalDone(f, h)' <=> FinalDone(f, h))
             /\ One(OpenAt(f, h))' = One(OpenAt(f, h))
  <2>1. (Holding(f, h)' <=> Holding(f, h)) /\ (Settling(f, h)' <=> Settling(f, h))
    BY <1>3, <1>5 DEF Holding, Settling
  <2>2. \A o \in Ops : OpenFor(o, f, h)' <=> OpenFor(o, f, h)
    BY <1>3 DEF OpenFor, Open
  <2>3. Attempts(f, h)' = Attempts(f, h) /\ (FinalDone(f, h)' <=> FinalDone(f, h))
    BY <1>3 DEF Attempts, FinalDone
  <2>4. OpenAt(f, h)' <=> OpenAt(f, h)
    BY <2>1, <2>2 DEF OpenAt
  <2> QED BY <2>1, <2>2, <2>3, <2>4 DEF One
<1>9. AnswersCounted'
  BY <1>3, <1>8 DEF SearchesInv, AnswersCounted
<1>10. AttemptsCounted'
  <2>1. ASSUME NEW f \in Entities, NEW h \in Nat
        PROVE  Attempts(f, h)' + One(OpenAt(f, h))' + Credit(f, h)'
                 <= MaxAttempts + One(FinalAt(f, h))' + given
    <3>1. Attempts(f, h) + One(OpenAt(f, h)) + Credit(f, h) <= MaxAttempts + One(FinalAt(f, h)) + given
      BY DEF SearchesInv, AttemptsCounted
    <3>2. CASE f # e
      <4>1. PairAside(f, h)
        BY <1>2, <1>3, <1>4, <1>6, <1>8, <3>2 DEF PairAside
      <4> QED BY <3>1, <4>1, PairSame
    <3>3. CASE f = e
      <4>1. /\ One(emits = e) = 1 /\ One(emits = e)' = 0
            /\ One(replacement[e].due /\ ~Settling(e, h))' = One(~Settling(e, h))
        BY <1>2, <1>3, <1>4, <1>6, <1>8 DEF One
      <4>2. /\ Credit(e, h) = 1 + One(replacement[e].due /\ ~Settling(e, h))
            /\ Credit(e, h)' = 0 + One(~Settling(e, h))
        BY <4>1 DEF Credit
      <4>3. /\ One(FinalAt(e, h)) \in {0, 1} /\ One(FinalAt(e, h))' \in {0, 1}
            /\ Attempts(e, h) \in Nat /\ One(OpenAt(e, h)) \in {0, 1} /\ MaxAttempts \in Nat
            /\ given \in Nat
        <5>1. One(FinalAt(e, h))' \in {0, 1}
          BY DEF One
        <5> QED BY <1>1, <5>1, NumbersAre
      <4>4. CASE Settling(e, h)
        <5>1. One(~Settling(e, h)) = 0 /\ One(replacement[e].due /\ ~Settling(e, h)) = 0
          BY <4>4 DEF One
        <5>2. Attempts(e, h) + One(OpenAt(e, h)) + Credit(e, h)' <= MaxAttempts + One(FinalAt(e, h))' + given
          BY <3>1, <3>3, <4>2, <4>3, <5>1
        <5> QED BY <1>8, <3>3, <5>2
      <4>5. CASE ~Settling(e, h)
        <5>1. One(~Settling(e, h)) = 1 /\ One(replacement[e].due /\ ~Settling(e, h)) \in {0, 1}
          BY <4>5 DEF One
        <5>2. FinalAt(e, h)' <=> FinalAt(e, h)
          BY <1>3, <1>8, <4>5 DEF FinalAt
        <5>3. One(FinalAt(e, h))' = One(FinalAt(e, h))
          BY <5>2 DEF One
        <5>4. Attempts(e, h) + One(OpenAt(e, h)) + Credit(e, h)' <= MaxAttempts + One(FinalAt(e, h))' + given
          BY <3>1, <3>3, <4>2, <4>3, <5>1, <5>3
        <5> QED BY <1>8, <3>3, <5>4
      <4> QED BY <4>4, <4>5
    <3> QED BY <3>2, <3>3
  <2> QED BY <1>3, <2>1 DEF AttemptsCounted
<1>11. CreditsGiven'
  <2>1. ASSUME NEW f \in Entities PROVE One(emits' = f) + One(replacement'[f].due) <= given
    <3>1. One(emits = f) + One(replacement[f].due) <= given
      BY DEF SearchesInv, CreditsGiven
    <3>2. One(emits = f) \in {0, 1} /\ One(replacement[f].due) \in {0, 1} /\ given \in Nat
      BY <1>1, OneIs DEF ScheduleTypes
    <3>3. CASE f # e
      <4>1. One(emits' = f) = One(emits = f) /\ One(replacement'[f].due) = One(replacement[f].due)
        BY <1>2, <1>3, <1>4, <1>6, <3>3 DEF One
      <4> QED BY <3>1, <4>1
    <3>4. CASE f = e
      <4>1. One(emits' = f) = 0 /\ One(emits = f) = 1 /\ One(replacement'[f].due) \in {0, 1}
        BY <1>2, <1>3, <1>6, <3>4 DEF One
      <4> QED BY <3>1, <3>2, <4>1
    <3> QED BY <3>3, <3>4
  <2> QED BY <1>3, <2>1 DEF CreditsGiven, One
<1> QED BY <1>7, <1>9, <1>10, <1>11 DEF SearchesInv

-----------------------------------------------------------------------------
(* What the run may search.                                                *)

\* With nothing to search there is nothing to permit.
LEMMA EmptyListPermits ==
  ASSUME rec.due = <<>>, rec.pc # "search" PROVE Permitted
<1>1. \A e \in Entities : ~Listed(e)
  BY DEF Listed
<1> QED BY <1>1 DEF Permitted

\* What is due may be searched.
LEMMA DueIsAllowed ==
  ASSUME ScheduleTypes, Types, NEW e \in Entities, NEW g \in Nat, Due(e, g) PROVE Allowed(e, g)
<1>1. /\ age[e] \in Nat /\ Horizon \in Nat /\ MinimumAge \in Nat /\ MaxAttempts \in Nat \ {0}
      /\ checkpoint[e].attempts \in Nat
  BY UpgradesConstants DEF Types, ScheduleTypes
<1>2. CASE replacement[e].due
  BY <1>2 DEF Allowed
<1>3. CASE ~replacement[e].due /\ age[e] >= Horizon
  BY <1>1, <1>3 DEF Due, NextSearchIn, NotYet, Allowed, FinalDone
<1>4. CASE ~replacement[e].due /\ ~(age[e] >= Horizon)
  <2>1. age[e] >= MinimumAge
    BY <1>1 DEF Due, NextSearchIn, NotYet
  <2>2. ~(checkpoint[e].gen = g /\ checkpoint[e].attempts >= MaxAttempts)
    BY <1>1, <1>4, <2>1 DEF Due, NextSearchIn, NotYet
  <2>3. Attempts(e, g) < MaxAttempts
    BY <1>1, <2>2 DEF Attempts
  <2> QED BY <2>3 DEF Allowed
<1> QED BY <1>2, <1>3, <1>4

\* What was permitted stays so, for an entity that nothing is recorded about.
LEMMA PermittedKept ==
  ASSUME Permitted,
         \A e \in Entities : Listed(e)' =>
           /\ Listed(e) /\ rec'.files[e] = rec.files[e]
           /\ replacement[e].due => replacement'[e].due
           /\ age'[e] = age[e] /\ checkpoint'[e] = checkpoint[e]
  PROVE  Permitted'
<1>1. ASSUME NEW e \in Entities, NEW g \in Nat, Listed(e)', rec'.files[e] = g PROVE Allowed(e, g)'
  <2>1. Allowed(e, g)
    BY <1>1 DEF Permitted
  <2>2. Attempts(e, g)' = Attempts(e, g) /\ (FinalDone(e, g)' <=> FinalDone(e, g))
    BY <1>1 DEF Attempts, FinalDone
  <2> QED BY <1>1, <2>1, <2>2 DEF Allowed
<1> QED BY <1>1 DEF Permitted

\* The list is made of what is due, and nothing recorded in the meantime is about an entity
\* that is still on it.
LEMMA PermittedNext ==
  ASSUME ScheduleInv, Permitted, UpgradesNext PROVE Permitted'
<1>1. Types /\ ScheduleTypes /\ Follows /\ Awaits /\ rec \in Thread
  BY DEF ScheduleInv, UpgradesInv, Types
<1>2. CASE rec'.due = <<>> /\ rec'.pc # "search"
  BY <1>2 DEF Permitted, Listed
<1>3. CASE StartRun \/ Crash \/ Pass
  BY <1>2, <1>3, IdleIs DEF StartRun, Crash, Pass, Idle
<1>4. CASE RecoverNext \/ Inventory \/ (SyncCompleted /\ UNCHANGED rec)
  <2>1. rec.due = <<>>
    BY <1>1, <1>4 DEF RecoverNext, Inventory, SyncCompleted, At, Follows
  <2>2. rec'.due = rec.due /\ rec'.pc # "search"
    BY <1>1, <1>4 DEF RecoverNext, Inventory, SyncCompleted, At, To, Thread
  <2> QED BY <1>2, <2>1, <2>2
<1>5. CASE SyncCompleted /\ ~UNCHANGED rec
  <2>1. PICK due \in FairOrder(DueNow) : rec' = [rec EXCEPT !.pc = "next", !.due = due]
    BY <1>5 DEF SyncCompleted
  <2>2. /\ UNCHANGED <<age, checkpoint, replacement>>
    BY <1>5 DEF SyncCompleted
  <2>3. rec'.pc = "next" /\ rec'.due = due /\ rec'.files = rec.files
    BY <1>1, <2>1 DEF Thread
  <2>4. ASSUME NEW e \in Entities, NEW g \in Nat, Listed(e)', rec'.files[e] = g PROVE Allowed(e, g)'
    <3>1. PICK i \in DOMAIN due : due[i] = e
      BY <2>3, <2>4 DEF Listed
    <3>2. Due(e, g)
      BY <1>1, <2>3, <2>4, <3>1, FairOrderIs DEF DueNow
    <3>3. Allowed(e, g)
      BY <1>1, <3>2, DueIsAllowed
    <3> QED BY <2>2, <3>3 DEF Allowed, Attempts, FinalDone
  <2> QED BY <2>4 DEF Permitted
\* The thread takes the next one off the list.
<1>6. CASE NextEntity
  <2>1. UNCHANGED <<age, checkpoint, replacement>> /\ rec.pc = "next"
    BY <1>6 DEF NextEntity, At, schedule
  <2>2. CASE rec.due = <<>>
    BY <1>2, <1>6, <2>2, IdleIs DEF NextEntity
  <2>3. CASE rec.due # <<>>
    <3>1. /\ rec'.due = Tail(rec.due) /\ rec'.files = rec.files
          /\ rec'.pc = "search" => rec'.entity = Head(rec.due)
      BY <1>1, <1>6, <2>1, <2>3 DEF NextEntity, Thread
    <3>2. \A i \in DOMAIN Tail(rec.due) : i + 1 \in DOMAIN rec.due /\ Tail(rec.due)[i] = rec.due[i + 1]
      BY <1>1, <2>3 DEF Thread
    <3>3. 1 \in DOMAIN rec.due /\ Head(rec.due) = rec.due[1]
      BY <1>1, <2>3 DEF Thread
    <3>4. \A e \in Entities : Listed(e)' => Listed(e)
      BY <3>1, <3>2, <3>3 DEF Listed
    <3> QED BY <2>1, <3>1, <3>4, PermittedKept
  <2> QED BY <2>2, <2>3
<1>7. CASE ApprovedRelease
  <2>1. UNCHANGED <<age, checkpoint>> /\ rec.entity \in Entities
    BY <1>1, <1>7 DEF ApprovedRelease, At, Awaits
  <2>2. rec'.due = rec.due /\ rec'.files = rec.files /\ rec'.pc # "search"
    BY <1>1, <1>7 DEF ApprovedRelease, Thread
  <2>3. rec.files[rec.entity] \in Nat
    BY <1>1, <2>1, UpgradesConstants DEF Types, No
  <2>4. \A e \in Entities : replacement'[e].due = replacement[e].due
    <3>1. CASE UNCHANGED replacement
      BY <3>1
    <3>2. CASE RecordTransientFailure(rec.entity, rec.files[rec.entity])
      BY <1>1, <2>1, <2>3, <3>2, FailureIs
    <3> QED BY <1>7, <3>1, <3>2 DEF ApprovedRelease
  <2>5. \A e \in Entities : Listed(e)' => Listed(e)
    BY <2>2 DEF Listed
  <2> QED BY <2>1, <2>2, <2>4, <2>5, PermittedKept
\* What is recorded is about an entity that is not on the list any more.
<1>8. CASE CountSearch
  <2>1. /\ UNCHANGED <<age, checkpoint>>
        /\ replacement' = [replacement EXCEPT ![rec.entity] = NoReplacement]
        /\ \A i \in DOMAIN rec.due : rec.due[i] # rec.entity
    BY <1>1, <1>8 DEF CountSearch, At, Awaits
  <2>2. rec'.due = rec.due /\ rec'.files = rec.files /\ rec'.pc # "search"
    BY <1>1, <1>8 DEF CountSearch, Thread
  <2>3. \A e \in Entities : Listed(e)' => Listed(e) /\ e # rec.entity
    BY <2>1, <2>2 DEF Listed
  <2>4. \A e \in Entities : e # rec.entity => replacement'[e] = replacement[e]
    BY <1>1, <2>1 DEF ScheduleTypes
  <2> QED BY <2>1, <2>2, <2>3, <2>4, PermittedKept
<1>9. CASE CompleteSearch
  <2>1. /\ UNCHANGED age /\ RecordCompleted(rec.entity, rec.files[rec.entity], age[rec.entity] >= Horizon, rec.op)
        /\ \A i \in DOMAIN rec.due : rec.due[i] # rec.entity
    BY <1>1, <1>9 DEF CompleteSearch, At, Follows
  <2>2. rec'.due = rec.due /\ rec'.files = rec.files /\ rec'.pc # "search"
    BY <1>1, <1>9 DEF CompleteSearch, Thread
  <2>3. \A e \in Entities : Listed(e)' => Listed(e) /\ e # rec.entity
    BY <2>1, <2>2 DEF Listed
  <2>4. \A e \in Entities : e # rec.entity => replacement'[e] = replacement[e] /\ checkpoint'[e] = checkpoint[e]
    BY <1>1, <2>1 DEF ScheduleTypes, RecordCompleted
  <2> QED BY <2>1, <2>2, <2>3, <2>4, PermittedKept
<1>10. CASE RecordIntent
  <2>1. UNCHANGED <<age, checkpoint, replacement>>
    BY <1>10 DEF RecordIntent
  <2>2. rec'.due = rec.due /\ rec'.files = rec.files /\ rec'.pc # "search"
    BY <1>10, RequestRecorded
  <2>3. \A e \in Entities : Listed(e)' => Listed(e)
    BY <2>2 DEF Listed
  <2> QED BY <2>1, <2>2, <2>3, PermittedKept
<1>11. CASE Admit \/ MarkAttempted \/ GrabRelease \/ ObserveGrab \/ BindGrab \/ MarkObserved
  <2>1. UNCHANGED <<age, checkpoint, replacement>>
    BY <1>11 DEF Admit, MarkAttempted, GrabRelease, ObserveGrab, BindGrab, MarkObserved, schedule
  <2>2. \/ \E pc \in Places \ {"search"} : To(pc)
        \/ \E b \in BOOLEAN : Handed(b)
    BY <1>11 DEF Admit, MarkAttempted, GrabRelease, ObserveGrab, BindGrab, MarkObserved, Places
  <2>3. rec'.due = rec.due /\ rec'.files = rec.files /\ rec'.pc # "search"
    BY <1>1, <2>2, HandedIs, ToMoves
  <2>4. \A e \in Entities : Listed(e)' => Listed(e)
    BY <2>3 DEF Listed
  <2> QED BY <2>1, <2>3, <2>4, PermittedKept
<1>12. CASE \E op \in Ops : GiveUp(op) \/ IntakeTakes(op) \/ ArrGrabs(op) \/ Import(op)
  <2>1. UNCHANGED <<age, checkpoint, replacement, rec>>
    BY <1>12 DEF GiveUp, IntakeTakes, ArrGrabs, Import, schedule
  <2>2. \A e \in Entities : Listed(e)' => Listed(e)
    BY <2>1 DEF Listed
  <2> QED BY <2>1, <2>2, PermittedKept
<1>13. CASE RecordCandidateInvalidated
  <2>1. UNCHANGED <<age, checkpoint, rec>>
    BY <1>13 DEF RecordCandidateInvalidated
  <2>2. \A e \in Entities : Listed(e)' => Listed(e)
    BY <2>1 DEF Listed
  <2>3. \A e \in Entities : replacement[e].due => replacement'[e].due
    BY <1>1, <1>13 DEF RecordCandidateInvalidated, ScheduleTypes
  <2> QED BY <2>1, <2>2, <2>3, PermittedKept
<1> QED
  BY <1>3, <1>4, <1>5, <1>6, <1>7, <1>8, <1>9, <1>10, <1>11, <1>12, <1>13
     DEF UpgradesNext, ReconcilerStep

-----------------------------------------------------------------------------
(* The searches are bounded.                                               *)

\* Every step keeps the invariant of the searches.
LEMMA SearchesNext ==
  ASSUME ScheduleInv, SearchesInv, Permitted, UpgradesNext PROVE SearchesInv'
<1>1. CASE StartRun \/ RecoverNext \/ Inventory \/ NextEntity
           \/ (SyncCompleted /\ UNCHANGED <<checkpoint, replacement, recorded>>)
           \/ (ApprovedRelease /\ UNCHANGED ghosts)
           \/ Admit \/ MarkAttempted \/ GrabRelease \/ ObserveGrab \/ BindGrab \/ MarkObserved
  BY <1>1, AsideOfThread, SearchesAside
<1>2. CASE Pass \/ \E op \in Ops : IntakeTakes(op) \/ ArrGrabs(op) \/ Import(op)
  BY <1>2, AsideOfOthers, SearchesAside
<1>3. CASE ApprovedRelease /\ ~UNCHANGED ghosts
  BY <1>3, AnswerArrives
<1>4. CASE SyncCompleted /\ ~UNCHANGED <<checkpoint, replacement, recorded>>
  <2>1. UNCHANGED rec
    BY <1>4 DEF SyncCompleted
  <2>2. ~UNCHANGED <<checkpoint, replacement, recorded>>
    BY <1>4
  <2> QED BY <1>4, <2>1, <2>2, SearchIsRecorded
<1>5. CASE CompleteSearch
  BY <1>5, SearchIsRecorded
<1>6. CASE CountSearch
  BY <1>6, SearchIsCounted
<1>7. CASE RecordIntent
  BY <1>7, RequestOpens, AnswerIsLost
<1>8. CASE Crash
  BY <1>8, AnswerIsLost
<1>9. CASE RecordCandidateInvalidated
  BY <1>9, ReplacementRecorded
<1>10. ASSUME NEW op \in Ops, GiveUp(op) PROVE SearchesInv'
  BY <1>10, CandidateGivenUp
<1> QED
  BY <1>1, <1>2, <1>3, <1>4, <1>5, <1>6, <1>7, <1>8, <1>9, <1>10 DEF UpgradesNext, ReconcilerStep

\* At first nothing was searched and nothing is listed.
LEMMA SearchesInit == ASSUME UpgradesInit PROVE SearchesInv /\ Permitted
<1>1. /\ rec = Idle /\ recorded = {} /\ intent = [op \in Ops |-> NoIntent]
      /\ checkpoint = [e \in Entities |-> NoCheckpoint]
      /\ replacement = [e \in Entities |-> NoReplacement]
      /\ answers = [e \in Entities |-> [gen |-> No, count |-> 0]]
      /\ emits = No /\ given = 0 /\ faults = 0 /\ crashes = 0
  BY DEF UpgradesInit
<1>2. \A op \in Ops : ~Open(op)
  BY <1>1 DEF Open, NoIntent
<1>3. \A e \in Entities : ~InHand(e)
  BY <1>1 DEF InHand, Idle
<1>4. \A e \in Entities : /\ e # No /\ ~checkpoint[e].terminal /\ checkpoint[e].attempts = 0
                          /\ ~replacement[e].due /\ answers[e].count = 0
  BY <1>1, UpgradesConstants DEF NoCheckpoint, NoReplacement, No
<1>5. OneOpen /\ Latest /\ Final
  BY <1>2, <1>3, <1>4 DEF OneOpen, Latest, Final
<1>6. ASSUME NEW e \in Entities, NEW g \in Nat
      PROVE  /\ Attempts(e, g) = 0 /\ One(OpenAt(e, g)) = 0 /\ Credit(e, g) = 0
             /\ One(FinalAt(e, g)) = 0
  <2>1. ~OpenAt(e, g) /\ ~FinalAt(e, g)
    BY <1>2, <1>3, <1>4 DEF OpenAt, OpenFor, Holding, FinalAt, FinalDone
  <2>2. One(emits = e) = 0 /\ One(replacement[e].due /\ ~Settling(e, g)) = 0
    BY <1>1, <1>4 DEF One
  <2> QED BY <1>4, <2>1, <2>2 DEF Attempts, Credit, One
<1>7. AnswersCounted
  BY <1>1, <1>4, <1>6 DEF AnswersCounted
<1>8. AttemptsCounted
  <2>1. MaxAttempts \in Nat
    BY UpgradesConstants
  <2> QED BY <1>1, <1>6, <2>1 DEF AttemptsCounted
<1>9. CreditsGiven
  BY <1>1, <1>4 DEF CreditsGiven, One
<1>10. Permitted
  <2>1. rec.due = <<>> /\ rec.pc # "search"
    BY <1>1, IdleIs
  <2> QED BY <2>1, EmptyListPermits
<1> QED BY <1>5, <1>7, <1>8, <1>9, <1>10 DEF SearchesInv

\* A stuttering step keeps it.
LEMMA SearchesSame == ASSUME ScheduleInv, SearchesInv, Permitted, UNCHANGED vars PROVE SearchesInv' /\ Permitted'
<1>1. UNCHANGED <<age, file, checkpoint, replacement, recorded, intent, rec, emits, answers,
                  given, faults, crashes>>
  BY DEF vars, schedule, ghosts, bounds
<1>2. Aside
  <2>1. \A e \in Entities : InHand(e)' <=> InHand(e)
    BY <1>1 DEF InHand
  <2> QED BY <1>1, <2>1, OpenSame, SameSchedule DEF Aside
<1>3. Permitted'
  <2>1. \A e \in Entities : Listed(e)' => Listed(e)
    BY <1>1 DEF Listed
  <2> QED BY <1>1, <2>1, PermittedKept
<1> QED BY <1>2, <1>3, SearchesAside

\* No hour and no file has more searches than the policy allows, but for one for each
\* candidate given up, each failed call and each restart: for every policy, any number of
\* entities and any interleaving with the Fence tick, Arr, imports and restarts
\* (UpgradeScheduler.run, next_search_at, record_completed and within_budget).
THEOREM SearchesAreBounded == Spec => []SearchesBounded
<1>1. ScheduleInv /\ SearchesInv /\ Permitted /\ [UpgradesNext]_vars => SearchesInv' /\ Permitted'
  BY SearchesNext, PermittedNext, SearchesSame
<1>2. ScheduleInv /\ SearchesInv => AttemptsBounded
  <2> SUFFICES ASSUME ScheduleInv, SearchesInv, NEW e \in Entities
               PROVE  answers[e].count
                        <= MaxAttempts + (IF FinalSearch THEN 1 ELSE 0) + given + faults + crashes
    BY DEF AttemptsBounded
  <2>1. ScheduleTypes
    BY DEF ScheduleInv
  <2>2. PICK g \in Nat : answers[e].gen = g
    BY <2>1 DEF ScheduleTypes
  <2>3. /\ answers[e].count <= Attempts(e, g) + One(OpenAt(e, g)) + faults + crashes
        /\ Attempts(e, g) + One(OpenAt(e, g)) + Credit(e, g) <= MaxAttempts + One(FinalAt(e, g)) + given
    BY <2>2 DEF SearchesInv, AnswersCounted, AttemptsCounted
  <2>4. /\ Attempts(e, g) \in Nat /\ One(OpenAt(e, g)) \in {0, 1} /\ One(FinalAt(e, g)) \in {0, 1}
        /\ Credit(e, g) \in Nat /\ answers[e].count \in Nat
        /\ given \in Nat /\ faults \in Nat /\ crashes \in Nat /\ MaxAttempts \in Nat
    BY <2>1, NumbersAre
  <2>5. One(FinalAt(e, g)) <= IF FinalSearch THEN 1 ELSE 0
    BY DEF One, FinalAt
  <2>6. (IF FinalSearch THEN 1 ELSE 0) \in {0, 1}
    OBVIOUS
  <2> QED BY <2>3, <2>4, <2>5, <2>6
<1>3. BudgetKept /\ AttemptsBounded => SearchesBounded
  BY DEF SearchesBounded
<1> QED BY <1>1, <1>2, <1>3, SearchesInit, ScheduleInvHolds, BudgetIsKept, PTL DEF Spec
=============================================================================
