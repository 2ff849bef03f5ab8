-------------------------- MODULE PublisherProofs --------------------------
(***************************************************************************)
(* What holds of the Publisher for every set of downloads and threads,     *)
(* every import history, and any number of overlapping persists, failed    *)
(* calls and restarts.                                                     *)
(***************************************************************************)
EXTENDS Publisher, TLAPS

StateNames == {"none", "custody_reserved", "candidate_verified", "generation_intent",
               "catalog_pending", "delivered"}
Places == {"idle", "next", "enter", "look", "receipt", "persist", "verify", "commit", "intend",
           "publish", "ensure", "payload", "sidecar", "point", "expose", "seal", "notify", "submit",
           "observe", "found", "play", "deliver", "collect"}
Thens == {"none", "accepted", "adopted", "verified", "intended", "committed", "submit", "play",
          "collect"}

\* What from_records accepts as the record of one publication, and of all of them.
Valid(op, r) ==
  /\ r.previous # No => r.state \in {"generation_intent", "catalog_pending"}
  /\ r.previous # No => r.previous \in Terminals \ {op}
  /\ r.observed => r.notified
  /\ r.state = "delivered" => r.observed
Books == {b \in [Ops -> Records] : \A op \in Ops : Valid(op, b[op])}

Thread == [pc : Places, op : Ops \union {No}, todo : SUBSET Ops, then : Thens,
           snap : Books \union {No}, upto : Nat]

\* What a place says of the thread that is there.
Fits(t, r) ==
  /\ r.pc \notin {"idle", "next"} => r.op \in Ops /\ (t = "tick" => r.op \in Terminals)
  /\ r.pc = "persist" => r.snap \in Books /\ r.then # "none"
  /\ r.pc # "persist" => r.then = "none"
  /\ r.pc \in {"enter", "receipt"} \/ r.then = "accepted" => t = "tick"
  /\ t = "tick" => r.todo \subseteq Terminals
  /\ t = "imports" => r.todo \subseteq Imports /\ r.upto <= arr

ThreadsTyped == th \in [Threads -> Thread] /\ \A t \in Threads : Fits(t, th[t])

Typed ==
  /\ book \in Books
  /\ gen \in [Ops -> {"absent", "copied", "halfway", "whole"}]
  /\ visible \in Ops \union {No}
  /\ route \in [payload : Ops \union {No}, sidecar : Ops \union {No}]
  /\ catalog \in [seen : Ops \union {No}, told : BOOLEAN]
  /\ fence \in [Terminals -> {"active", "terminal", "frozen", "released"}]
  /\ arr \in 0 .. Len(History) /\ cursor \in 0 .. arr
  /\ gate \in Threads \union {No}
  /\ overlaps \in Nat /\ faults \in Nat /\ crashes \in Nat
  /\ ThreadsTyped

-----------------------------------------------------------------------------
(* Operators.                                                              *)

LEMMA Named ==
  /\ No \notin Ops /\ No \notin Threads /\ Terminals \subseteq Ops /\ Imports \subseteq Ops
  /\ Len(History) \in Nat /\ Imports \subseteq Nat /\ Threads \subseteq {"tick", "retry", "imports"}
BY PublisherConstants DEF Ops, Imports

LEMMA RecordsAre ==
  Records = [state : StateNames, previous : Ops \union {No}, notified : BOOLEAN,
             observed : BOOLEAN]
<1>1. {States[i] : i \in 1 .. 5} \union {"none"} = StateNames
  <2>1. \A i \in 1 .. 5 : i = 1 \/ i = 2 \/ i = 3 \/ i = 4 \/ i = 5
    OBVIOUS
  <2>2. /\ States[1] = "custody_reserved" /\ States[2] = "candidate_verified"
        /\ States[3] = "generation_intent" /\ States[4] = "catalog_pending"
        /\ States[5] = "delivered"
    BY DEF States
  <2> QED BY <2>1, <2>2 DEF StateNames
<1> QED BY <1>1 DEF Records

LEMMA StageIs ==
  /\ Stage("none") = 0 /\ Stage("custody_reserved") = 1 /\ Stage("candidate_verified") = 2
  /\ Stage("generation_intent") = 3 /\ Stage("catalog_pending") = 4 /\ Stage("delivered") = 5
<1>1. \A i \in 0 .. 5 : i = 0 \/ i = 1 \/ i = 2 \/ i = 3 \/ i = 4 \/ i = 5
  OBVIOUS
<1>2. /\ States[1] = "custody_reserved" /\ States[2] = "candidate_verified"
      /\ States[3] = "generation_intent" /\ States[4] = "catalog_pending"
      /\ States[5] = "delivered"
  BY DEF States
<1> HIDE DEF States
<1>3. ASSUME NEW s, NEW n \in 0 .. 5,
             \A i \in 0 .. 5 : (IF i = 0 THEN s = "none" ELSE States[i] = s) <=> i = n
      PROVE  Stage(s) = n
  BY <1>3 DEF Stage
<1>4. Stage("none") = 0
  BY <1>1, <1>2, <1>3
<1>5. Stage("custody_reserved") = 1
  BY <1>1, <1>2, <1>3
<1>6. Stage("candidate_verified") = 2
  BY <1>1, <1>2, <1>3
<1>7. Stage("generation_intent") = 3
  BY <1>1, <1>2, <1>3
<1>8. Stage("catalog_pending") = 4
  BY <1>1, <1>2, <1>3
<1>9. Stage("delivered") = 5
  BY <1>1, <1>2, <1>3
<1> QED BY <1>4, <1>5, <1>6, <1>7, <1>8, <1>9

-----------------------------------------------------------------------------
(* The steps of one thread.                                                *)

\* Thread t goes to pc with its next persist to do; the others stay.
Moves(t, pc, then) ==
  /\ th' \in [Threads -> Thread]
  /\ \A u \in Threads \ {t} : th'[u] = th[u]
  /\ th'[t].pc = pc /\ th'[t].then = then
  /\ th'[t].todo = th[t].todo /\ th'[t].upto = th[t].upto

LEMMA GoesIs ==
  ASSUME ThreadsTyped, NEW t \in Threads, NEW r \in Thread, Goes(t, r)
  PROVE  th' \in [Threads -> Thread] /\ th'[t] = r /\ \A u \in Threads \ {t} : th'[u] = th[u]
BY DEF ThreadsTyped, Goes

LEMMA ToIs ==
  ASSUME ThreadsTyped, NEW t \in Threads, NEW pc \in Places, To(t, pc)
  PROVE  Moves(t, pc, th[t].then) /\ th'[t].op = th[t].op
<1> DEFINE r == [th[t] EXCEPT !.pc = pc]
<1>1. th[t] \in Thread
  BY DEF ThreadsTyped
<1>2. /\ r \in Thread /\ r.pc = pc /\ r.op = th[t].op /\ r.then = th[t].then
      /\ r.todo = th[t].todo /\ r.upto = th[t].upto
  BY <1>1 DEF Thread
<1>3. Goes(t, r)
  BY DEF To
<1> HIDE DEF r
<1> QED BY <1>2, <1>3, GoesIs DEF Moves

LEMMA ReturnIs ==
  ASSUME ThreadsTyped, NEW t \in Threads, NEW ok \in BOOLEAN, Return(t, ok)
  PROVE  /\ Moves(t, IF t = "tick" /\ ok THEN "receipt" ELSE "next", "none")
         /\ t = "tick" /\ ok => th'[t].op = th[t].op
         /\ gate' = IF t = "tick" THEN No ELSE gate
<1> DEFINE r == [th[t] EXCEPT !.then = "none", !.snap = No]
           a == [r EXCEPT !.pc = "receipt"]
           b == [r EXCEPT !.pc = "next", !.op = No]
<1>1. th[t] \in Thread
  BY DEF ThreadsTyped
<1>2. r \in Thread /\ r.op = th[t].op /\ r.todo = th[t].todo /\ r.upto = th[t].upto
      /\ r.then = "none"
  BY <1>1 DEF Thread, Thens
<1>3. Goes(t, IF t = "tick" /\ ok THEN a ELSE b) /\ gate' = IF t = "tick" THEN No ELSE gate
  BY DEF Return
<1> HIDE DEF r
<1>4. a \in Thread /\ a.pc = "receipt" /\ a.then = "none" /\ a.op = th[t].op
      /\ a.todo = th[t].todo /\ a.upto = th[t].upto
  BY <1>2 DEF Thread, Places
<1>5. b \in Thread /\ b.pc = "next" /\ b.then = "none"
      /\ b.todo = th[t].todo /\ b.upto = th[t].upto
  BY <1>2 DEF Thread, Places
<1> HIDE DEF a, b
<1> QED BY <1>3, <1>4, <1>5, GoesIs DEF Moves

LEMMA IdleIs == Idle \in Thread /\ Idle.pc = "idle" /\ Idle.then = "none" /\ Idle.todo = {}
BY DEF Idle, Thread, Places, Thens

LEMMA UnknownIs ==
  ASSUME ThreadsTyped, NEW t \in Threads, Unknown(t)
  PROVE  /\ th' \in [Threads -> Thread] /\ \A u \in Threads \ {t} : th'[u] = th[u]
         /\ th'[t].pc \in {"idle", "next"} /\ th'[t].then = "none"
         /\ t = "imports" => th'[t].pc = "next" /\ th'[t].todo = th[t].todo /\ th'[t].upto = th[t].upto
         /\ t # "imports" => th'[t].pc = "idle" /\ th'[t].todo = {}
         /\ gate' = IF t = "imports" THEN gate ELSE No
<1>1. CASE t = "imports"
  BY <1>1, ReturnIs DEF Unknown, Moves
<1>2. CASE t # "imports"
  BY <1>2, GoesIs, IdleIs DEF Unknown
<1> QED BY <1>1, <1>2

LEMMA BookIs ==
  ASSUME NEW b \in Books, NEW op \in Ops
  PROVE  b[op] \in Records /\ b[op].state \in StateNames /\ Valid(op, b[op])
         /\ b[op].previous \in Ops \union {No}
BY RecordsAre DEF Books

\* Where the processor goes after a stage.
LEMMA OnwardIs ==
  ASSUME ThreadsTyped, NEW t \in Threads, th[t].op \in Ops, NEW b \in Books,
         NEW done \in 0 .. 4, Onward(t, done, b)
  PROVE  LET s == b[th[t].op].state IN
         \/ s = "none" /\ Unknown(t)
         \/ /\ Moves(t, th'[t].pc, "none") /\ UNCHANGED gate /\ th'[t].op = th[t].op
            /\ \/ th'[t].pc = "verify" /\ s = "custody_reserved"
               \/ th'[t].pc = "commit" /\ s = "candidate_verified"
               \/ th'[t].pc = "publish" /\ s = "generation_intent"
               \/ th'[t].pc = "ensure" /\ s = "catalog_pending"
         \/ s \notin {"none", "catalog_pending", "delivered"} /\ Return(t, FALSE)
         \/ s = "delivered" /\ Return(t, TRUE)
         \/ s = "catalog_pending" /\ done = 4 /\ Return(t, TRUE)
<1> DEFINE s == b[th[t].op].state
<1>1. s \in StateNames
  BY BookIs
<1> HIDE DEF s
<1> DEFINE n == Stage(s)
<1>2. n \in 0 .. 5 /\ (n = 0 <=> s = "none") /\ (n = 1 <=> s = "custody_reserved")
      /\ (n = 2 <=> s = "candidate_verified") /\ (n = 3 <=> s = "generation_intent")
      /\ (n = 4 <=> s = "catalog_pending") /\ (n = 5 <=> s = "delivered")
  BY <1>1, StageIs DEF StateNames
<1>3. IF n = 0 THEN Unknown(t)
      ELSE IF n > done /\ n <= 4
           THEN /\ Goes(t, [th[t] EXCEPT !.pc = StagePc[n], !.then = "none", !.snap = No])
                /\ UNCHANGED gate
           ELSE Return(t, n >= 4)
  BY DEF Onward, s
<1> HIDE DEF n
<1>4. CASE n = 0
  BY <1>2, <1>3, <1>4 DEF s
<1>5. CASE n # 0 /\ n > done /\ n <= 4
  <2> DEFINE r == [th[t] EXCEPT !.pc = StagePc[n], !.then = "none", !.snap = No]
  <2>1. StagePc[1] = "verify" /\ StagePc[2] = "commit" /\ StagePc[3] = "publish"
        /\ StagePc[4] = "ensure"
    BY DEF StagePc
  <2>2. n = 1 \/ n = 2 \/ n = 3 \/ n = 4
    BY <1>2, <1>5
  <2>3. StagePc[n] \in Places
    BY <2>1, <2>2 DEF Places
  <2>4. th[t] \in Thread
    BY DEF ThreadsTyped
  <2>5. r \in Thread /\ r.pc = StagePc[n] /\ r.then = "none" /\ r.op = th[t].op
        /\ r.todo = th[t].todo /\ r.upto = th[t].upto
    BY <2>3, <2>4 DEF Thread, Thens
  <2>6. Goes(t, r) /\ UNCHANGED gate
    BY <1>3, <1>5
  <2> HIDE DEF r
  <2>7. Moves(t, th'[t].pc, "none") /\ th'[t].op = th[t].op /\ th'[t].pc = StagePc[n]
    BY <2>5, <2>6, GoesIs DEF Moves
  <2> QED BY <1>2, <2>1, <2>2, <2>6, <2>7 DEF s
<1>6. CASE n # 0 /\ ~(n > done /\ n <= 4)
  <2>1. Return(t, n >= 4)
    BY <1>3, <1>6
  <2>2. CASE n >= 4
    <3>1. Return(t, TRUE)
      BY <2>1, <2>2
    <3>2. n = 5 \/ (n = 4 /\ done = 4)
      BY <1>2, <1>6, <2>2
    <3> QED BY <1>2, <3>1, <3>2 DEF s
  <2>3. CASE ~(n >= 4)
    <3>1. Return(t, FALSE)
      <4>1. (n >= 4) = FALSE
        BY <1>2, <2>3
      <4> QED BY <2>1, <4>1
    <3>2. n = 1 \/ n = 2 \/ n = 3
      BY <1>2, <1>6, <2>3
    <3> QED BY <1>2, <3>1, <3>2 DEF s
  <2> QED BY <2>2, <2>3
<1> QED BY <1>4, <1>5, <1>6

LEMMA PrepareIs ==
  ASSUME ThreadsTyped, book \in Books, NEW t \in Threads, th[t].op \in Ops,
         NEW r \in Records, Valid(th[t].op, r), NEW then \in Thens, Prepare(t, r, then)
  PROVE  /\ Moves(t, "persist", then) /\ th'[t].op = th[t].op
         /\ th'[t].snap \in Books /\ th'[t].snap = [book EXCEPT ![th[t].op] = r]
         /\ Overlaps(t) => overlaps < MaxOverlaps
         /\ overlaps' = IF Overlaps(t) THEN overlaps + 1 ELSE overlaps
<1> DEFINE b == [book EXCEPT ![th[t].op] = r]
           q == [th[t] EXCEPT !.pc = "persist", !.then = then, !.snap = b]
<1>1. th[t] \in Thread
  BY DEF ThreadsTyped
<1>2. b \in Books
  BY DEF Books
<1>3. Goes(t, q)
  BY DEF Prepare
<1> HIDE DEF b
<1>4. q \in Thread /\ q.pc = "persist" /\ q.then = then /\ q.snap = b /\ q.op = th[t].op
      /\ q.todo = th[t].todo /\ q.upto = th[t].upto
  BY <1>1, <1>2 DEF Thread, Places
<1> HIDE DEF q
<1>5. Moves(t, "persist", then) /\ th'[t].op = th[t].op /\ th'[t].snap = b
  BY <1>3, <1>4, GoesIs DEF Moves
<1> QED BY <1>2, <1>5 DEF Prepare, b

\* The processor runs under the gate: all but the tick's offers and receipts.
Holds(t, r) ==
  r.pc # "idle" /\ r.then # "accepted" /\ ~(t = "tick" /\ r.pc \in {"next", "enter", "receipt"})

Gated == \A t \in Threads : Holds(t, th[t]) => gate = t

\* One step of thread t, which keeps the gate or leaves it.
Turn(t) ==
  /\ th' \in [Threads -> Thread] /\ \A u \in Threads \ {t} : th'[u] = th[u]
  /\ Fits(t, th'[t])
  /\ \/ gate' = gate /\ (Holds(t, th'[t]) => Holds(t, th[t]))
     \/ gate' = No /\ Holds(t, th[t]) /\ ~Holds(t, th'[t])

\* Thread t is working on a publication under the gate.
Busy(t) ==
  /\ Holds(t, th[t]) /\ th[t].pc \notin {"idle", "next", "enter", "receipt"}
  /\ th[t].then # "accepted"
  /\ th[t].op \in Ops /\ (t = "tick" => th[t].op \in Terminals)

LEMMA BusyIs ==
  ASSUME ThreadsTyped, NEW t \in Threads, th[t].pc \notin {"idle", "next", "enter", "receipt"},
         th[t].then # "accepted"
  PROVE  Busy(t)
BY DEF ThreadsTyped, Fits, Holds, Busy

LEMMA TurnsOf ==
  ASSUME ThreadsTyped, NEW t \in Threads, Busy(t)
  PROVE  /\ \A ok \in BOOLEAN : Return(t, ok) => Turn(t)
         /\ Unknown(t) => Turn(t)
         /\ \A pc \in Places \ {"idle", "next", "enter", "receipt", "persist"} :
              Moves(t, pc, "none") /\ th'[t].op = th[t].op /\ UNCHANGED gate => Turn(t)
         /\ \A then \in Thens \ {"none", "accepted"} :
              Moves(t, "persist", then) /\ th'[t].op = th[t].op /\ th'[t].snap \in Books
                /\ UNCHANGED gate => Turn(t)
<1>1. Fits(t, th[t]) /\ Holds(t, th[t])
  BY DEF ThreadsTyped, Busy
<1>2. ASSUME NEW ok \in BOOLEAN, Return(t, ok) PROVE Turn(t)
  <2>1. /\ Moves(t, IF t = "tick" /\ ok THEN "receipt" ELSE "next", "none")
        /\ t = "tick" /\ ok => th'[t].op = th[t].op
        /\ gate' = IF t = "tick" THEN No ELSE gate
    BY <1>2, ReturnIs
  <2>2. Fits(t, th'[t])
    BY <1>1, <2>1 DEF Moves, Fits, Busy
  <2>3. t = "tick" => ~Holds(t, th'[t])
    BY <2>1 DEF Moves, Holds
  <2> QED BY <1>1, <2>1, <2>2, <2>3 DEF Moves, Turn
<1>3. ASSUME Unknown(t) PROVE Turn(t)
  <2>1. /\ th' \in [Threads -> Thread] /\ \A u \in Threads \ {t} : th'[u] = th[u]
        /\ th'[t].pc \in {"idle", "next"} /\ th'[t].then = "none"
        /\ t = "imports" => th'[t].pc = "next" /\ th'[t].todo = th[t].todo
                            /\ th'[t].upto = th[t].upto
        /\ t # "imports" => th'[t].pc = "idle" /\ th'[t].todo = {}
        /\ gate' = IF t = "imports" THEN gate ELSE No
    BY <1>3, UnknownIs
  <2>2. Fits(t, th'[t])
    BY <1>1, <2>1 DEF Fits
  <2> QED BY <1>1, <2>1, <2>2 DEF Turn, Holds
<1>4. ASSUME NEW pc \in Places \ {"idle", "next", "enter", "receipt", "persist"},
             Moves(t, pc, "none"), th'[t].op = th[t].op, UNCHANGED gate
      PROVE  Turn(t)
  <2>1. Fits(t, th'[t])
    BY <1>1, <1>4 DEF Moves, Fits, Busy
  <2> QED BY <1>1, <1>4, <2>1 DEF Moves, Turn
<1>5. ASSUME NEW then \in Thens \ {"none", "accepted"},
             Moves(t, "persist", then), th'[t].op = th[t].op, th'[t].snap \in Books,
             UNCHANGED gate
      PROVE  Turn(t)
  <2>1. Fits(t, th'[t])
    BY <1>1, <1>5 DEF Moves, Fits, Busy
  <2> QED BY <1>1, <1>5, <2>1 DEF Moves, Turn
<1> QED BY <1>2, <1>3, <1>4, <1>5

LEMMA TurnsOn ==
  ASSUME ThreadsTyped, NEW t \in Threads, Busy(t), NEW b \in Books, NEW done \in 0 .. 4,
         Onward(t, done, b)
  PROVE  Turn(t)
<1>1. th[t].op \in Ops
  BY DEF Busy
<1>2. \/ Unknown(t)
      \/ /\ Moves(t, th'[t].pc, "none") /\ UNCHANGED gate /\ th'[t].op = th[t].op
         /\ th'[t].pc \in {"verify", "commit", "publish", "ensure"}
      \/ Return(t, FALSE)
      \/ Return(t, TRUE)
  BY <1>1, OnwardIs
<1> QED BY <1>2, TurnsOf DEF Places

LEMMA TurnsTo ==
  ASSUME ThreadsTyped, NEW t \in Threads, Busy(t), th[t].pc # "persist",
         NEW pc \in Places \ {"idle", "next", "enter", "receipt", "persist"},
         To(t, pc), UNCHANGED gate
  PROVE  Turn(t)
<1>1. th[t].then = "none"
  BY DEF ThreadsTyped, Fits
<1> QED BY <1>1, ToIs, TurnsOf

LEMMA TurnsDown ==
  ASSUME ThreadsTyped, book \in Books, NEW t \in Threads, Busy(t),
         NEW r \in Records, Valid(th[t].op, r),
         NEW then \in Thens \ {"none", "accepted"}, Prepare(t, r, then), UNCHANGED gate
  PROVE  Turn(t)
<1>1. th[t].op \in Ops
  BY DEF Busy
<1> QED BY <1>1, PrepareIs, TurnsOf

LEMMA PersistIs ==
  ASSUME ThreadsTyped, NEW t \in Threads, Persist(t)
  PROVE  /\ book' = th[t].snap /\ book' \in Books /\ th[t].op \in Ops
         /\ \/ th[t].then = "accepted" /\ Moves(t, "enter", "none") /\ th'[t].op = th[t].op
               /\ UNCHANGED gate
            \/ /\ Busy(t)
               /\ \/ th[t].then = "adopted" /\ Onward(t, 0, book')
                  \/ th[t].then = "verified" /\ Onward(t, 1, book')
                  \/ th[t].then = "intended" /\ Onward(t, 2, book')
                  \/ th[t].then = "committed" /\ Onward(t, 3, book')
                  \/ th[t].then \in {"submit", "play", "collect"} /\ UNCHANGED gate
                     /\ Moves(t, th[t].then, "none") /\ th'[t].op = th[t].op
<1>1. th[t].pc = "persist" /\ book' = th[t].snap /\ th[t] \in Thread /\ Fits(t, th[t])
  BY DEF Persist, Between, ThreadsTyped
<1>2. th[t].snap \in Books /\ th[t].op \in Ops /\ th[t].then # "none"
  BY <1>1 DEF Fits
<1>3. ASSUME NEW pc \in Places,
             Goes(t, [th[t] EXCEPT !.pc = pc, !.then = "none", !.snap = No])
      PROVE  Moves(t, pc, "none") /\ th'[t].op = th[t].op
  <2> DEFINE r == [th[t] EXCEPT !.pc = pc, !.then = "none", !.snap = No]
  <2>1. r \in Thread /\ r.pc = pc /\ r.then = "none" /\ r.op = th[t].op
        /\ r.todo = th[t].todo /\ r.upto = th[t].upto
    BY <1>1 DEF Thread, Thens
  <2>2. Goes(t, r)
    BY <1>3
  <2> HIDE DEF r
  <2> QED BY <2>1, <2>2, GoesIs DEF Moves
<1>4. CASE th[t].then = "accepted"
  <2>1. Goes(t, [th[t] EXCEPT !.pc = "enter", !.then = "none", !.snap = No]) /\ UNCHANGED gate
    BY <1>4 DEF Persist
  <2> QED BY <1>1, <1>2, <1>3, <1>4, <2>1 DEF Places
<1>5. CASE th[t].then \in {"adopted", "verified", "intended", "committed"}
  <2>1. Busy(t)
    BY <1>1, <1>5, BusyIs
  <2> QED BY <1>1, <1>2, <1>5, <2>1 DEF Persist
<1>6. CASE th[t].then \in {"submit", "play", "collect"}
  <2>1. Busy(t)
    BY <1>1, <1>6, BusyIs
  <2>2. Goes(t, [th[t] EXCEPT !.pc = th[t].then, !.then = "none", !.snap = No])
        /\ UNCHANGED gate
    BY <1>6 DEF Persist
  <2>3. th[t].then \in Places
    BY <1>6 DEF Places
  <2> QED BY <1>1, <1>2, <1>3, <1>6, <2>1, <2>2, <2>3
<1> QED BY <1>1, <1>2, <1>4, <1>5, <1>6 DEF Thread, Thens

\* The records that the processor writes are valid again.
LEMMA RecordsWritten ==
  ASSUME NEW op \in Ops, NEW q \in Records, Valid(op, q)
  PROVE  /\ q.state = "custody_reserved" =>
              LET r == [q EXCEPT !.state = "candidate_verified"] IN r \in Records /\ Valid(op, r)
         /\ \A g \in Ops \union {No} : AcceptedPredecessor(op, g) =>
              LET r == [q EXCEPT !.state = "generation_intent", !.previous = g] IN
              r \in Records /\ Valid(op, r)
         /\ q.state = "generation_intent" =>
              LET r == [q EXCEPT !.state = "catalog_pending"] IN r \in Records /\ Valid(op, r)
         /\ LET r == [q EXCEPT !.notified = TRUE] IN r \in Records /\ Valid(op, r)
         /\ q.notified => LET r == [q EXCEPT !.observed = TRUE] IN r \in Records /\ Valid(op, r)
         /\ q.observed => LET r == [q EXCEPT !.state = "delivered", !.previous = No] IN
                          r \in Records /\ Valid(op, r)
<1> USE RecordsAre
<1>1. ASSUME q.state = "custody_reserved"
      PROVE  LET r == [q EXCEPT !.state = "candidate_verified"] IN r \in Records /\ Valid(op, r)
  BY <1>1 DEF Valid, StateNames
<1>2. ASSUME NEW g \in Ops \union {No}, AcceptedPredecessor(op, g)
      PROVE  LET r == [q EXCEPT !.state = "generation_intent", !.previous = g] IN
             r \in Records /\ Valid(op, r)
  BY <1>2 DEF Valid, StateNames, AcceptedPredecessor
<1>3. ASSUME q.state = "generation_intent"
      PROVE  LET r == [q EXCEPT !.state = "catalog_pending"] IN r \in Records /\ Valid(op, r)
  BY <1>3 DEF Valid, StateNames
<1>4. LET r == [q EXCEPT !.notified = TRUE] IN r \in Records /\ Valid(op, r)
  BY DEF Valid
<1>5. ASSUME q.notified
      PROVE  LET r == [q EXCEPT !.observed = TRUE] IN r \in Records /\ Valid(op, r)
  BY <1>5 DEF Valid
<1>6. ASSUME q.observed
      PROVE  LET r == [q EXCEPT !.state = "delivered", !.previous = No] IN
             r \in Records /\ Valid(op, r)
  BY <1>6 DEF Valid, StateNames
<1> QED BY <1>1, <1>2, <1>3, <1>4, <1>5, <1>6

\* What each step of the processor is to its thread.
LEMMA WorkIs ==
  ASSUME Typed, NEW t \in Threads, Work(t), ~Persist(t)
  PROVE  Busy(t) /\ th[t].pc # "persist" /\ th[t].then = "none" /\ UNCHANGED book
<1>1. th[t].pc \notin {"idle", "next", "enter", "receipt", "persist"} /\ UNCHANGED book
  BY DEF Work, At, Look, Verify, Commit, RecordIntent, Publish, Normalize, Point, ExposeRoutes,
         MarkCommitted, EnsureIdentity, Notify, Submit, Observe, MarkObserved, DirectPlay, MarkDelivered,
         GarbageCollect
<1>2. th[t].then = "none"
  BY <1>1 DEF Typed, ThreadsTyped, Fits
<1> QED BY <1>1, <1>2, BusyIs DEF Typed

LEMMA WorkTurns ==
  ASSUME Typed, NEW t \in Threads, Work(t), ~Persist(t)
  PROVE  Turn(t)
<1> DEFINE op == th[t].op
           q == book[op]
<1>0. /\ Busy(t) /\ th[t].pc # "persist" /\ ThreadsTyped /\ book \in Books /\ op \in Ops
      /\ q \in Records /\ Valid(op, q)
  BY WorkIs, BookIs DEF Busy, Typed
<1>1. \A ok \in BOOLEAN : Return(t, ok) => Turn(t)
  BY <1>0, TurnsOf
<1>2. \A done \in 0 .. 4 : Onward(t, done, book) => Turn(t)
  BY <1>0, TurnsOn
<1>3. \A pc \in {"look", "intend", "payload", "sidecar", "point", "expose", "seal", "notify", "submit",
                 "observe", "found", "play", "deliver", "collect"} :
        To(t, pc) /\ UNCHANGED gate => Turn(t)
  BY <1>0, TurnsTo DEF Places
<1>4. \A r \in Records, then \in Thens \ {"none", "accepted"} :
        Valid(op, r) /\ Prepare(t, r, then) /\ UNCHANGED gate => Turn(t)
  BY <1>0, TurnsDown
<1>5. ASSUME NEW s, NEW r \in Records, NEW then \in Thens \ {"none", "accepted"}, 
             q.state = s => Valid(op, r), Transition(t, s, r, then)
      PROVE  Turn(t)
  BY <1>1, <1>4, <1>5 DEF Transition, InState
<1>6. Committed(op) \in BOOLEAN
  BY DEF Committed
<1> HIDE DEF op, q
<1>7. CASE Look(t)
  BY <1>2, <1>7 DEF Look
<1>8. CASE Verify(t)
  <2>1. CASE Return(t, FALSE)
    BY <1>1, <2>1
  <2>2. CASE Transition(t, "custody_reserved", [q EXCEPT !.state = "candidate_verified"],
                        "verified")
    <3>1. CASE q.state = "custody_reserved"
      BY <1>0, <1>5, <2>2, <3>1, RecordsWritten DEF Thens
    <3>2. CASE q.state # "custody_reserved"
      BY <1>1, <2>2, <3>2 DEF Transition, InState, q, op
    <3> QED BY <3>1, <3>2
  <2> QED BY <1>8, <2>1, <2>2 DEF Verify, op, q
<1>9a. CASE Commit(t)
  BY <1>1, <1>3, <1>9a DEF Commit
<1>9. CASE RecordIntent(t)
  <2>1. CASE Return(t, FALSE)
    BY <1>1, <2>1
  <2>2. CASE /\ Transition(t, "candidate_verified",
                  [q EXCEPT !.state = "generation_intent", !.previous = visible], "intended")
             /\ AcceptedPredecessor(op, visible)
    <3>1. visible \in Ops \union {No}
      BY DEF Typed
    <3> QED BY <1>0, <1>5, <2>2, <3>1, RecordsWritten DEF Thens
  <2> QED BY <1>9, <2>1, <2>2 DEF RecordIntent, op, q
<1>10. CASE Publish(t)
  BY <1>2, <1>3, <1>10 DEF Publish
<1>11. CASE Normalize(t)
  BY <1>3, <1>11 DEF Normalize
<1>12. CASE Point(t)
  BY <1>3, <1>12 DEF Point
<1>13. CASE ExposeRoutes(t)
  BY <1>2, <1>3, <1>13 DEF ExposeRoutes
<1>14. CASE MarkCommitted(t)
  <2>1. Transition(t, "generation_intent", [q EXCEPT !.state = "catalog_pending"], "committed")
    BY <1>14 DEF MarkCommitted, op, q
  <2>2. CASE q.state = "generation_intent"
    BY <1>0, <1>5, <2>1, <2>2, RecordsWritten DEF Thens
  <2>3. CASE q.state # "generation_intent"
    BY <1>1, <2>1, <2>3 DEF Transition, InState, q, op
  <2> QED BY <2>2, <2>3
<1>15. CASE EnsureIdentity(t)
  BY <1>1, <1>3, <1>15 DEF EnsureIdentity
<1>16. CASE Notify(t)
  <2>1. CASE Return(t, FALSE)
    BY <1>1, <2>1
  <2>2. CASE (To(t, "found") \/ To(t, "submit")) /\ UNCHANGED gate
    BY <1>3, <2>2
  <2>3. CASE Prepare(t, [q EXCEPT !.notified = TRUE], "submit") /\ UNCHANGED gate
    BY <1>0, <1>4, <2>3, RecordsWritten DEF Thens
  <2> QED BY <1>16, <2>1, <2>2, <2>3 DEF Notify, op, q
<1>17. CASE Submit(t)
  BY <1>3, <1>17 DEF Submit
<1>18. CASE Observe(t)
  BY <1>1, <1>3, <1>6, <1>18 DEF Observe, op
<1>19. CASE MarkObserved(t)
  <2>1. CASE Return(t, FALSE)
    BY <1>1, <2>1
  <2>2. CASE Prepare(t, [q EXCEPT !.observed = TRUE], "play") /\ UNCHANGED gate /\ q.notified
    BY <1>0, <1>4, <2>2, RecordsWritten DEF Thens
  <2> QED BY <1>19, <2>1, <2>2 DEF MarkObserved, op, q
<1>20. CASE DirectPlay(t)
  BY <1>1, <1>3, <1>6, <1>20 DEF DirectPlay, op
<1>21. CASE MarkDelivered(t)
  <2>1. CASE Return(t, FALSE)
    BY <1>1, <2>1
  <2>2. CASE /\ Prepare(t, [q EXCEPT !.state = "delivered", !.previous = No], "collect")
             /\ UNCHANGED gate /\ q.observed
    BY <1>0, <1>4, <2>2, RecordsWritten DEF Thens
  <2> QED BY <1>21, <2>1, <2>2 DEF MarkDelivered, op, q
<1>22. CASE GarbageCollect(t)
  BY <1>2, <1>22 DEF GarbageCollect
<1> QED
  BY <1>7, <1>8, <1>9a, <1>9, <1>10, <1>11, <1>12, <1>13, <1>14, <1>15, <1>16, <1>17, <1>18, <1>19,
     <1>20, <1>21, <1>22 DEF Work

\* One step of thread t, which may also take the free gate.
Turns(t) ==
  /\ th' \in [Threads -> Thread] /\ \A u \in Threads \ {t} : th'[u] = th[u]
  /\ Fits(t, th'[t])
  /\ \/ gate' = gate /\ (Holds(t, th'[t]) => Holds(t, th[t]))
     \/ gate' = No /\ Holds(t, th[t]) /\ ~Holds(t, th'[t])
     \/ gate = No /\ gate' = t

LEMMA HoldIs ==
  ASSUME Typed, NEW op \in Ops
  PROVE  /\ Hold(op) \in Books /\ Adopt(op) \in Books
         /\ \A o \in Ops : /\ o # op => Hold(op)[o] = book[o] /\ Adopt(op)[o] = book[o]
                           /\ book[o].state # "none" => Hold(op)[o] = book[o] /\ Adopt(op)[o] = book[o]
         /\ book[op].state = "none" => /\ Hold(op)[op].state = "custody_reserved"
                                       /\ Adopt(op)[op].state = "candidate_verified"
                                       /\ Hold(op)[op].previous = No /\ Adopt(op)[op].previous = No
<1>1. book \in Books
  BY DEF Typed
<1>2. ASSUME NEW s \in StateNames \ {"delivered"}
      PROVE  LET r == [Absent EXCEPT !.state = s] IN
             r \in Records /\ Valid(op, r) /\ r.previous = No /\ r.state = s
  BY RecordsAre DEF Absent, StateNames, Valid
<1>3. ASSUME NEW r \in Records, Valid(op, r)
      PROVE  LET b == [book EXCEPT ![op] = r] IN
             b \in Books /\ b[op] = r /\ \A o \in Ops : o # op => b[o] = book[o]
  BY <1>1, <1>3 DEF Books
<1>4. book[op].state = "none" =>
        /\ Hold(op) = [book EXCEPT ![op] = [Absent EXCEPT !.state = "custody_reserved"]]
        /\ Adopt(op) = [book EXCEPT ![op] = [Absent EXCEPT !.state = "candidate_verified"]]
  BY DEF Hold, Adopt
<1>5. book[op].state # "none" => Hold(op) = book /\ Adopt(op) = book
  BY DEF Hold, Adopt
<1>6. "custody_reserved" \in StateNames \ {"delivered"}
      /\ "candidate_verified" \in StateNames \ {"delivered"}
  BY DEF StateNames
<1>7. CASE book[op].state # "none"
  BY <1>1, <1>5, <1>7
<1>8. CASE book[op].state = "none"
  <2> DEFINE x == [Absent EXCEPT !.state = "custody_reserved"]
             y == [Absent EXCEPT !.state = "candidate_verified"]
  <2>1. /\ x \in Records /\ Valid(op, x) /\ x.previous = No /\ x.state = "custody_reserved"
        /\ y \in Records /\ Valid(op, y) /\ y.previous = No /\ y.state = "candidate_verified"
    BY <1>2, <1>6
  <2> HIDE DEF x, y
  <2>2. Hold(op) = [book EXCEPT ![op] = x] /\ Adopt(op) = [book EXCEPT ![op] = y]
    BY <1>4, <1>8 DEF x, y
  <2> QED BY ZenonT(40), <1>3, <1>8, <2>1, <2>2
<1> QED BY <1>7, <1>8

\* The tick outside the gate: it lists what the Fence offers, holds one publication after
\* the other and gives receipts.
LEMMA TickIs ==
  ASSUME Typed, "tick" \in Threads
  PROVE  /\ Tick => /\ Turns("tick") /\ UNCHANGED gate
                    /\ th'["tick"].pc = "next" /\ th'["tick"].then = "none"
         /\ AcceptTerminal =>
              /\ Turns("tick") /\ UNCHANGED gate
              /\ \/ th'["tick"].pc = "idle" /\ th'["tick"].then = "none" /\ UNCHANGED overlaps
                 \/ /\ th'["tick"].pc = "persist" /\ th'["tick"].then = "accepted"
                    /\ th'["tick"].op \in Terminals /\ th'["tick"].snap = Hold(th'["tick"].op)
                    /\ Overlaps("tick") => overlaps < MaxOverlaps
                    /\ overlaps' = IF Overlaps("tick") THEN overlaps + 1 ELSE overlaps
         /\ Enter => Turns("tick") /\ gate = No /\ gate' = "tick" /\ Moves("tick", "look", "none")
         /\ Receipt => Turns("tick") /\ UNCHANGED gate
                       /\ th'["tick"].pc = "next" /\ th'["tick"].then = "none"
<1> DEFINE t == "tick"
<1>0. ThreadsTyped /\ th[t] \in Thread /\ Fits(t, th[t])
  BY DEF Typed, ThreadsTyped
<1>1. ASSUME Tick
      PROVE  Turns(t) /\ UNCHANGED gate /\ th'[t].pc = "next" /\ th'[t].then = "none"
  <2> DEFINE r == [Idle EXCEPT !.pc = "next", !.todo = Offered]
  <2>1. /\ r \in Thread /\ r.pc = "next" /\ r.then = "none" /\ r.todo \subseteq Terminals
    BY Named DEF Idle, Thread, Places, Thens, Offered
  <2>2. Goes(t, r) /\ UNCHANGED gate
    BY <1>1 DEF Tick
  <2> HIDE DEF r
  <2>3. th' \in [Threads -> Thread] /\ th'[t] = r /\ \A u \in Threads \ {t} : th'[u] = th[u]
    BY <1>0, <2>1, <2>2, GoesIs
  <2> QED BY <2>1, <2>2, <2>3 DEF Turns, Fits, Holds
<1>2. ASSUME AcceptTerminal
      PROVE  /\ Turns(t) /\ UNCHANGED gate
             /\ \/ th'[t].pc = "idle" /\ th'[t].then = "none" /\ UNCHANGED overlaps
                \/ /\ th'[t].pc = "persist" /\ th'[t].then = "accepted"
                   /\ th'[t].op \in Terminals /\ th'[t].snap = Hold(th'[t].op)
                   /\ Overlaps(t) => overlaps < MaxOverlaps
                   /\ overlaps' = IF Overlaps(t) THEN overlaps + 1 ELSE overlaps
  <2>1. CASE Goes(t, Idle) /\ UNCHANGED overlaps
    <3>1. th' \in [Threads -> Thread] /\ th'[t] = Idle /\ \A u \in Threads \ {t} : th'[u] = th[u]
      BY <1>0, <2>1, IdleIs, GoesIs
    <3> QED BY <1>2, <2>1, <3>1, IdleIs DEF AcceptTerminal, Turns, Fits, Holds
  <2>2. ASSUME NEW op \in th[t].todo,
               Goes(t, [th[t] EXCEPT !.pc = "persist", !.op = op, !.todo = @ \ {op},
                          !.then = "accepted", !.snap = Hold(op)])
        PROVE  /\ Turns(t) /\ th'[t].pc = "persist" /\ th'[t].then = "accepted"
               /\ th'[t].op = op /\ op \in Terminals /\ th'[t].snap = Hold(op)
    <3> DEFINE r == [th[t] EXCEPT !.pc = "persist", !.op = op, !.todo = @ \ {op},
                       !.then = "accepted", !.snap = Hold(op)]
    <3>1. op \in Terminals /\ op \in Ops /\ Hold(op) \in Books /\ th[t].todo \subseteq Terminals
      BY <1>0, Named, HoldIs DEF Fits
    <3>2. /\ r \in Thread /\ r.pc = "persist" /\ r.then = "accepted" /\ r.op = op
          /\ r.snap = Hold(op) /\ r.todo \subseteq Terminals
      BY <1>0, <3>1 DEF Thread, Places, Thens
    <3>3. Goes(t, r)
      BY <2>2
    <3> HIDE DEF r
    <3>4. th' \in [Threads -> Thread] /\ th'[t] = r /\ \A u \in Threads \ {t} : th'[u] = th[u]
      BY <1>0, <3>2, <3>3, GoesIs
    <3>5. gate' = gate
      BY <1>2 DEF AcceptTerminal
    <3>6. Fits(t, r) /\ ~Holds(t, r)
      BY <3>1, <3>2 DEF Fits, Holds
    <3> QED BY <3>1, <3>2, <3>4, <3>5, <3>6 DEF Turns
  <2>3. UNCHANGED gate
    BY <1>2 DEF AcceptTerminal
  <2> QED BY <1>2, <2>1, <2>2, <2>3 DEF AcceptTerminal
<1>3. ASSUME Enter
      PROVE  Turns(t) /\ gate = No /\ gate' = t /\ Moves(t, "look", "none")
  <2>1. th[t].pc = "enter" /\ th[t].then = "none"
    BY <1>0, <1>3 DEF Enter, At, Fits
  <2>2. Moves(t, "look", "none") /\ th'[t].op = th[t].op
    BY <1>0, <1>3, <2>1, ToIs DEF Enter, Places
  <2>3. Fits(t, th'[t])
    BY <1>0, <2>1, <2>2 DEF Fits, Moves
  <2> QED BY <1>3, <2>2, <2>3 DEF Enter, Turns, Moves
<1>4. ASSUME Receipt
      PROVE  Turns(t) /\ UNCHANGED gate /\ th'[t].pc = "next" /\ th'[t].then = "none"
  <2> DEFINE r == [th[t] EXCEPT !.pc = "next", !.op = No]
  <2>1. th[t].then = "none" /\ th[t].todo \subseteq Terminals
    BY <1>0, <1>4 DEF Receipt, At, Fits
  <2>2. r \in Thread /\ r.pc = "next" /\ r.then = "none" /\ r.todo = th[t].todo
    BY <1>0, <2>1 DEF Thread, Places
  <2>3. Goes(t, r) /\ UNCHANGED gate
    BY <1>4 DEF Receipt
  <2> HIDE DEF r
  <2>4. th' \in [Threads -> Thread] /\ th'[t] = r /\ \A u \in Threads \ {t} : th'[u] = th[u]
    BY <1>0, <2>2, <2>3, GoesIs
  <2> QED BY <2>1, <2>2, <2>3, <2>4 DEF Turns, Fits, Holds
<1> QED BY <1>1, <1>2, <1>3, <1>4

LEMMA RetryIs ==
  ASSUME Typed, "retry" \in Threads, StartRetry \/ RetryNext
  PROVE  Turns("retry") /\ th'["retry"].then = "none" /\ th'["retry"].pc \in {"idle", "next", "look"}
<1> DEFINE t == "retry"
<1>0. ThreadsTyped /\ th[t] \in Thread /\ Fits(t, th[t])
  BY DEF Typed, ThreadsTyped
<1>1. CASE StartRetry
  <2> DEFINE r == [Idle EXCEPT !.pc = "next", !.todo = Pending]
  <2>1. r \in Thread /\ r.pc = "next" /\ r.then = "none"
    BY DEF Idle, Thread, Places, Thens, Pending
  <2>2. Goes(t, r) /\ gate = No /\ gate' = t
    BY <1>1 DEF StartRetry
  <2> HIDE DEF r
  <2>3. th' \in [Threads -> Thread] /\ th'[t] = r /\ \A u \in Threads \ {t} : th'[u] = th[u]
    BY <1>0, <2>1, <2>2, GoesIs
  <2> QED BY <2>1, <2>2, <2>3 DEF Turns, Fits
<1>2. CASE RetryNext
  <2>1. th[t].pc = "next" /\ th[t].then = "none" /\ Holds(t, th[t])
    BY <1>0, <1>2 DEF RetryNext, At, Fits, Holds
  <2>2. CASE Goes(t, Idle) /\ gate' = No
    <3>1. th' \in [Threads -> Thread] /\ th'[t] = Idle /\ \A u \in Threads \ {t} : th'[u] = th[u]
      BY <1>0, <2>2, IdleIs, GoesIs
    <3>2. Fits(t, Idle) /\ ~Holds(t, Idle)
      BY IdleIs DEF Fits, Holds
    <3> QED BY <2>1, <2>2, <3>1, <3>2, IdleIs DEF Turns
  <2>3. ASSUME NEW op \in th[t].todo, UNCHANGED gate,
               Goes(t, [th[t] EXCEPT !.pc = "look", !.op = op, !.todo = @ \ {op}])
        PROVE  Turns(t) /\ th'[t].then = "none" /\ th'[t].pc = "look"
    <3> DEFINE r == [th[t] EXCEPT !.pc = "look", !.op = op, !.todo = @ \ {op}]
    <3>1. op \in Ops
      BY <1>0 DEF Thread
    <3>2. r \in Thread /\ r.pc = "look" /\ r.then = "none" /\ r.op = op
      BY <1>0, <2>1, <3>1 DEF Thread, Places
    <3>3. Goes(t, r)
      BY <2>3
    <3> HIDE DEF r
    <3>4. th' \in [Threads -> Thread] /\ th'[t] = r /\ \A u \in Threads \ {t} : th'[u] = th[u]
      BY <1>0, <3>2, <3>3, GoesIs
    <3>5. Fits(t, r)
      BY <3>1, <3>2 DEF Fits
    <3> QED BY <2>1, <2>3, <3>2, <3>4, <3>5 DEF Turns
  <2> QED BY <1>2, <2>2, <2>3, IdleIs, GoesIs, <1>0 DEF RetryNext
<1> QED BY <1>1, <1>2

LEMMA PageIs ==
  ASSUME Typed, Page # {}
  PROVE  Page \subseteq Imports /\ Max(Page) \in Nat /\ Max(Page) <= arr
<1>0. arr \in Nat /\ cursor \in Nat /\ PageSize \in Nat \ {0} /\ Len(History) \in Nat
      /\ arr <= Len(History)
  BY PublisherConstants DEF Typed
<1>1. Page \subseteq Imports /\ \A i \in Page : i \in Nat /\ i <= arr
  BY <1>0 DEF Page, Imports
<1>2. \E m \in Page : \A i \in Page : m >= i
  <2> DEFINE m == IF arr <= cursor + PageSize THEN arr ELSE cursor + PageSize
  <2>1. m \in Page /\ \A i \in Page : m >= i
    BY <1>0 DEF Page
  <2> QED BY <2>1
<1>3. Max(Page) \in Page
  BY <1>2 DEF Max
<1> QED BY <1>1, <1>3

LEMMA ImportsIs ==
  ASSUME Typed, "imports" \in Threads, StartImports \/ Bootstrap \/ SaveCursor
  PROVE  /\ Turns("imports")
         /\ \/ th'["imports"].then = "none" /\ th'["imports"].pc \in {"idle", "next"}
               /\ UNCHANGED overlaps
            \/ /\ th'["imports"].then = "adopted" /\ th'["imports"].pc = "persist"
               /\ th'["imports"].op \in Imports /\ th'["imports"].snap = Adopt(th'["imports"].op)
               /\ Overlaps("imports") => overlaps < MaxOverlaps
               /\ overlaps' = IF Overlaps("imports") THEN overlaps + 1 ELSE overlaps
<1> DEFINE t == "imports"
<1>0. ThreadsTyped /\ th[t] \in Thread /\ Fits(t, th[t])
  BY DEF Typed, ThreadsTyped
<1>1. CASE StartImports
  <2> DEFINE r == [Idle EXCEPT !.pc = "next", !.todo = Page, !.upto = Max(Page)]
  <2>1. Page \subseteq Imports /\ Max(Page) \in Nat /\ Max(Page) <= arr
    BY <1>1, PageIs DEF StartImports
  <2>2. r \in Thread /\ r.pc = "next" /\ r.then = "none" /\ r.todo = Page /\ r.upto = Max(Page)
    BY <2>1, Named DEF Idle, Thread, Places, Thens
  <2>3. Goes(t, r) /\ gate = No /\ gate' = t /\ UNCHANGED overlaps
    BY <1>1 DEF StartImports, bounds
  <2> HIDE DEF r
  <2>4. th' \in [Threads -> Thread] /\ th'[t] = r /\ \A u \in Threads \ {t} : th'[u] = th[u]
    BY <1>0, <2>2, <2>3, GoesIs
  <2> QED BY <2>1, <2>2, <2>3, <2>4 DEF Turns, Fits
<1>2. CASE Bootstrap
  <2>1. th[t].pc = "next" /\ th[t].then = "none" /\ Holds(t, th[t]) /\ UNCHANGED gate
        /\ th[t].todo \subseteq Imports /\ th[t].upto <= arr
    BY <1>0, <1>2 DEF Bootstrap, At, Fits, Holds
  <2>2. ASSUME NEW i \in Oldest(th[t].todo), Goes(t, [th[t] EXCEPT !.todo = @ \ {i}])
        PROVE  Turns(t) /\ th'[t].then = "none" /\ th'[t].pc = "next"
    <3> DEFINE r == [th[t] EXCEPT !.todo = @ \ {i}]
    <3>1. r \in Thread /\ r.pc = "next" /\ r.then = "none" /\ r.todo \subseteq th[t].todo
          /\ r.upto = th[t].upto
      BY <1>0, <2>1 DEF Thread
    <3> HIDE DEF r
    <3>2. th' \in [Threads -> Thread] /\ th'[t] = r /\ \A u \in Threads \ {t} : th'[u] = th[u]
      BY <1>0, <2>2, <3>1, GoesIs DEF r
    <3>3. Fits(t, r)
      BY <2>1, <3>1 DEF Fits
    <3> QED BY <2>1, <3>1, <3>2, <3>3 DEF Turns
  <2>3. ASSUME NEW i \in Oldest(th[t].todo),
               Goes(t, [[th[t] EXCEPT !.todo = @ \ {i}] EXCEPT !.pc = "persist", !.op = i,
                          !.then = "adopted", !.snap = Adopt(i)])
        PROVE  /\ Turns(t) /\ th'[t].then = "adopted" /\ th'[t].pc = "persist"
               /\ th'[t].op = i /\ i \in Imports /\ th'[t].snap = Adopt(i)
    <3> DEFINE r == [[th[t] EXCEPT !.todo = @ \ {i}] EXCEPT !.pc = "persist", !.op = i,
                       !.then = "adopted", !.snap = Adopt(i)]
    <3>1. i \in Imports /\ i \in Ops
      BY <2>1, Named DEF Oldest
    <3>2. Adopt(i) \in Books
      BY <3>1, HoldIs
    <3>3. r \in Thread /\ r.pc = "persist" /\ r.then = "adopted" /\ r.op = i /\ r.snap = Adopt(i)
          /\ r.todo \subseteq th[t].todo /\ r.upto = th[t].upto
      BY <1>0, <3>1, <3>2 DEF Thread, Places, Thens
    <3> HIDE DEF r
    <3>4. th' \in [Threads -> Thread] /\ th'[t] = r /\ \A u \in Threads \ {t} : th'[u] = th[u]
      BY <1>0, <2>3, <3>3, GoesIs DEF r
    <3>5. Fits(t, r)
      BY <2>1, <3>1, <3>2, <3>3 DEF Fits
    <3> QED BY <2>1, <3>1, <3>3, <3>4, <3>5 DEF Turns
  <2> QED BY <1>2, <2>2, <2>3 DEF Bootstrap
<1>3. CASE SaveCursor
  <2>1. th[t].pc = "next" /\ th[t].then = "none" /\ Holds(t, th[t])
    BY <1>0, <1>3 DEF SaveCursor, At, Fits, Holds
  <2>2. Goes(t, Idle) /\ gate' = No /\ UNCHANGED overlaps
    BY <1>3 DEF SaveCursor, bounds
  <2>3. th' \in [Threads -> Thread] /\ th'[t] = Idle /\ \A u \in Threads \ {t} : th'[u] = th[u]
    BY <1>0, <2>2, IdleIs, GoesIs
  <2>4. Fits(t, Idle) /\ ~Holds(t, Idle)
    <3>1. Idle.upto = 0 /\ 0 <= arr
      BY DEF Idle, Typed
    <3> QED BY <3>1, IdleIs DEF Fits, Holds
  <2> QED BY <2>1, <2>2, <2>3, <2>4, IdleIs DEF Turns
<1> QED BY <1>1, <1>2, <1>3

LEMMA FailsIs ==
  ASSUME Typed, NEW t \in Threads, Fails(t)
  PROVE  /\ Turns(t) /\ th'[t].then = "none"
         /\ UNCHANGED <<book, files, outside, cursor, overlaps, crashes>> /\ faults' = faults + 1
         /\ \/ th'[t].pc = "next"
            \/ Busy(t) /\ th'[t].pc = "receipt" /\ th'[t].op = th[t].op
               /\ th[t].pc \in {"submit", "observe", "play"} /\ Committed(th[t].op)
<1>0. ThreadsTyped /\ th[t] \in Thread /\ Fits(t, th[t])
  BY DEF Typed, ThreadsTyped
<1>1. UNCHANGED <<book, files, outside, cursor, overlaps, crashes>> /\ faults' = faults + 1
  BY DEF Fails
<1>2. CASE th[t].then = "accepted"
  <2> DEFINE r == [Idle EXCEPT !.pc = "next", !.todo = th[t].todo]
  <2>1. t = "tick" /\ th[t].todo \subseteq Terminals
    BY <1>0, <1>2 DEF Fits
  <2>2. r \in Thread /\ r.pc = "next" /\ r.then = "none" /\ r.todo = th[t].todo
    BY <1>0 DEF Idle, Thread, Places, Thens
  <2>3. Goes(t, r) /\ UNCHANGED gate
    BY <1>2 DEF Fails
  <2> HIDE DEF r
  <2>4. th' \in [Threads -> Thread] /\ th'[t] = r /\ \A u \in Threads \ {t} : th'[u] = th[u]
    BY <1>0, <2>2, <2>3, GoesIs
  <2> QED BY <1>1, <2>1, <2>2, <2>3, <2>4 DEF Turns, Fits, Holds
<1>3. CASE th[t].then # "accepted"
  <2>1. Busy(t)
    BY <1>0, <1>3, BusyIs DEF Fails
  <2>2. Return(t, th[t].pc \in {"submit", "observe", "play"} /\ Committed(th[t].op))
    BY <1>3 DEF Fails
  <2>3. (th[t].pc \in {"submit", "observe", "play"} /\ Committed(th[t].op)) \in BOOLEAN
    BY DEF Committed
  <2>4. Turn(t)
    BY <1>0, <2>1, <2>2, <2>3, TurnsOf
  <2>5. CASE th[t].pc \in {"submit", "observe", "play"} /\ Committed(th[t].op)
    <3>1. Return(t, TRUE)
      BY <2>2, <2>5
    <3>2. Moves(t, IF t = "tick" THEN "receipt" ELSE "next", "none")
          /\ (t = "tick" => th'[t].op = th[t].op)
      BY <1>0, <3>1, ReturnIs
    <3> QED BY <1>1, <2>1, <2>4, <2>5, <3>2 DEF Moves, Turn, Turns
  <2>6. CASE ~(th[t].pc \in {"submit", "observe", "play"} /\ Committed(th[t].op))
    <3>1. Return(t, FALSE)
      <4>1. (th[t].pc \in {"submit", "observe", "play"} /\ Committed(th[t].op)) = FALSE
        BY <2>6
      <4> QED BY <2>2, <4>1
    <3>2. Moves(t, "next", "none")
      BY <1>0, <3>1, ReturnIs
    <3> QED BY <1>1, <2>4, <3>2 DEF Moves, Turn, Turns
  <2> QED BY <2>5, <2>6
<1> QED BY <1>2, <1>3

LEMMA StepTurns ==
  ASSUME Typed, NEW t \in Threads, Step(t) \/ Fails(t)
  PROVE  Turns(t)
<1>1. CASE Fails(t)
  BY <1>1, FailsIs
<1>2. CASE Persist(t)
  <2>1. ThreadsTyped /\ Fits(t, th[t])
    BY DEF Typed, ThreadsTyped
  <2>2. CASE th[t].then = "accepted" /\ Moves(t, "enter", "none") /\ th'[t].op = th[t].op
             /\ UNCHANGED gate
    <3>1. Fits(t, th'[t]) /\ ~Holds(t, th'[t])
      BY <1>2, <2>1, <2>2 DEF Fits, Moves, Holds, Persist, Between
    <3> QED BY <2>2, <3>1 DEF Moves, Turns
  <2>3. CASE Busy(t)
    <3>1. \A done \in 0 .. 4 : Onward(t, done, book') => Turn(t)
      BY <1>2, <2>1, <2>3, PersistIs, TurnsOn
    <3>2. \A pc \in {"submit", "play", "collect"} :
            Moves(t, pc, "none") /\ th'[t].op = th[t].op /\ UNCHANGED gate => Turn(t)
      BY <2>1, <2>3, TurnsOf DEF Places
    <3>3. Turn(t)
      BY <1>2, <2>1, <2>3, <3>1, <3>2, PersistIs DEF Busy
    <3> QED BY <3>3 DEF Turn, Turns
  <2> QED BY <1>2, <2>1, <2>2, <2>3, PersistIs
<1>3. CASE Work(t) /\ ~Persist(t)
  BY <1>3, WorkTurns DEF Turn, Turns
<1>4. CASE t = "tick" /\ TickStep
  BY <1>4, TickIs DEF TickStep
<1>5. CASE t = "retry" /\ RetryStep
  BY <1>5, RetryIs DEF RetryStep
<1>6. CASE t = "imports" /\ ImportStep
  BY <1>6, ImportsIs DEF ImportStep
<1> QED BY <1>1, <1>2, <1>3, <1>4, <1>5, <1>6 DEF Step

-----------------------------------------------------------------------------
(* Types and the gate.                                                     *)

LEMMA InitTyped == PublisherInit => Typed /\ Gated
<1> SUFFICES ASSUME PublisherInit PROVE Typed /\ Gated
  OBVIOUS
<1>1. book \in Books
  BY RecordsAre DEF PublisherInit, Books, Absent, Valid, StateNames
<1>2. \A t \in Threads : th[t] = Idle
  BY DEF PublisherInit
<1>3. ThreadsTyped
  <2>1. Idle.upto = 0 /\ arr = 0
    BY DEF Idle, PublisherInit
  <2> QED BY <1>2, <2>1, IdleIs DEF PublisherInit, ThreadsTyped, Fits
<1>4. Typed
  BY <1>1, <1>3, Named DEF PublisherInit, Typed
<1> QED BY <1>2, <1>4, IdleIs DEF Gated, Holds

LEMMA StepTyped ==
  ASSUME Typed, NEW t \in Threads, Step(t) \/ Fails(t)
  PROVE  Typed'
<1> USE DEF files, outside, bounds
<1>0. th[t].pc \notin {"idle", "next"} => th[t].op \in Ops /\ (t = "tick" => th[t].op \in Terminals)
  BY DEF Typed, ThreadsTyped, Fits
<1>1. ThreadsTyped' /\ gate' \in Threads \union {No}
  <2>1. Turns(t)
    BY StepTurns
  <2>2. arr' = arr
    BY DEF Step, Work, Fails, Persist, Look, Verify, Commit, RecordIntent, Publish, Normalize, Point,
           ExposeRoutes,
           MarkCommitted, EnsureIdentity, Notify, Submit, Observe, MarkObserved, DirectPlay,
           MarkDelivered, GarbageCollect, TickStep, RetryStep, ImportStep, Tick, AcceptTerminal,
           Enter, Receipt, StartRetry, RetryNext, StartImports, Bootstrap, SaveCursor
  <2> QED BY <2>1, <2>2 DEF Typed, ThreadsTyped, Turns, Fits
<1>2. CASE Fails(t)
  <2>1. UNCHANGED <<book, files, outside, cursor, overlaps, crashes>> /\ faults' = faults + 1
    BY <1>2, FailsIs
  <2>2. faults' \in Nat
    BY <2>1 DEF Typed
  <2> QED BY <1>1, <2>1, <2>2 DEF Typed
<1>3. CASE Persist(t)
  <2>1. book' \in Books /\ UNCHANGED <<files, outside, cursor, bounds>>
    BY <1>3, PersistIs DEF Persist, Typed
  <2> QED BY <1>1, <2>1 DEF Typed
<1>4. overlaps' \in {overlaps, overlaps + 1} => overlaps' \in Nat
  BY DEF Typed
<1>5. CASE Look(t) \/ Commit(t) \/ RecordIntent(t) \/ MarkCommitted(t) \/ Notify(t) \/ Observe(t) \/ MarkObserved(t)
           \/ DirectPlay(t) \/ MarkDelivered(t)
  <2>1. UNCHANGED <<book, files, outside, cursor, faults, crashes>>
    BY <1>5 DEF Look, Commit, RecordIntent, MarkCommitted, Notify, Observe, MarkObserved, DirectPlay,
                MarkDelivered
  <2>2. overlaps' \in {overlaps, overlaps + 1}
    BY <1>5 DEF Look, Commit, RecordIntent, MarkCommitted, Notify, Observe, MarkObserved, DirectPlay,
                MarkDelivered, Transition, Prepare
  <2> QED BY <1>1, <1>4, <2>1, <2>2 DEF Typed
<1>6. CASE Verify(t)
  <2>1. UNCHANGED <<book, files, catalog, arr, cursor, faults, crashes>>
    BY <1>6 DEF Verify
  <2>2. overlaps' \in {overlaps, overlaps + 1}
    BY <1>6 DEF Verify, Transition, Prepare
  <2>3. fence' \in [Terminals -> {"active", "terminal", "frozen", "released"}]
    <3>1. fence' = fence \/ fence' = [fence EXCEPT ![th[t].op] = "frozen"]
      BY <1>6 DEF Verify, Freezes
    <3> QED BY <3>1 DEF Typed
  <2> QED BY <1>1, <1>4, <2>1, <2>2, <2>3 DEF Typed
<1>7. CASE Publish(t) \/ Normalize(t) \/ GarbageCollect(t)
  <2>1. UNCHANGED <<book, visible, route, outside, cursor, bounds>>
    BY <1>7 DEF Publish, Normalize, GarbageCollect
  <2>2. gen' \in [Ops -> {"absent", "copied", "halfway", "whole"}]
    BY <1>7 DEF Publish, Normalize, GarbageCollect, Typed
  <2> QED BY <1>1, <2>1, <2>2 DEF Typed
<1>8. CASE Point(t)
  <2>1. UNCHANGED <<book, gen, route, outside, cursor, bounds>>
    BY <1>8 DEF Point
  <2>2. visible' \in Ops \union {No}
    BY <1>0, <1>8 DEF Point, At, Typed
  <2> QED BY <1>1, <2>1, <2>2 DEF Typed
<1>9. CASE ExposeRoutes(t) \/ EnsureIdentity(t)
  <2>1. UNCHANGED <<book, gen, visible, outside, cursor, bounds>>
    BY <1>9 DEF ExposeRoutes, EnsureIdentity
  <2>2. route' \in [payload : Ops \union {No}, sidecar : Ops \union {No}]
    <3>1. th[t].op \in Ops
      BY <1>0, <1>9 DEF ExposeRoutes, EnsureIdentity, At
    <3>2. \/ route' = route
          \/ \E s \in {th[t].op, route.sidecar} :
               route' = [payload |-> th[t].op, sidecar |-> s]
      BY <1>9 DEF ExposeRoutes, EnsureIdentity, Expose
    <3>3. route \in [payload : Ops \union {No}, sidecar : Ops \union {No}]
      BY DEF Typed
    <3> QED BY <3>1, <3>2, <3>3
  <2> QED BY <1>1, <2>1, <2>2 DEF Typed
<1>10. CASE Submit(t)
  <2>1. catalog' \in [seen : Ops \union {No}, told : BOOLEAN]
    BY <1>10 DEF Submit, Typed
  <2> QED BY <1>1, <1>10, <2>1 DEF Submit, Typed
<1>11. CASE t = "tick" /\ TickStep
  <2>1. UNCHANGED <<book, files, catalog, arr, cursor, faults, crashes>>
    BY <1>11 DEF TickStep, Tick, AcceptTerminal, Enter, Receipt
  <2>2. overlaps' \in {overlaps, overlaps + 1}
    BY <1>11 DEF TickStep, Tick, AcceptTerminal, Enter, Receipt
  <2>3. fence' \in [Terminals -> {"active", "terminal", "frozen", "released"}]
    BY <1>11 DEF TickStep, Tick, AcceptTerminal, Enter, Receipt, Typed
  <2> QED BY <1>1, <1>4, <2>1, <2>2, <2>3 DEF Typed
<1>12. CASE t = "retry" /\ RetryStep
  BY <1>1, <1>12 DEF RetryStep, StartRetry, RetryNext, Typed
<1>13. CASE t = "imports" /\ ImportStep
  <2>1. UNCHANGED <<book, files, outside, faults, crashes>>
    BY <1>13 DEF ImportStep, StartImports, Bootstrap, SaveCursor
  <2>2. overlaps' \in {overlaps, overlaps + 1}
    BY <1>13 DEF ImportStep, StartImports, Bootstrap, SaveCursor
  <2>3. th[t].upto \in Nat /\ th[t].upto <= arr
    BY <1>13 DEF Typed, ThreadsTyped, Fits, Thread
  <2>4. cursor' \in 0 .. arr
    <3>1. cursor' = cursor \/ cursor' = th[t].upto
      BY <1>13 DEF ImportStep, StartImports, Bootstrap, SaveCursor
    <3>2. arr \in Nat
      BY Named DEF Typed
    <3> QED BY <2>3, <3>1, <3>2 DEF Typed
  <2> QED BY <1>1, <1>4, <2>1, <2>2, <2>4 DEF Typed
<1> QED BY <1>2, <1>3, <1>5, <1>6, <1>7, <1>8, <1>9, <1>10, <1>11, <1>12, <1>13 DEF Step, Work

LEMMA NextTyped == Typed /\ Gated /\ [PublisherNext]_vars => (Typed /\ Gated)'
<1> SUFFICES ASSUME Typed, Gated, [PublisherNext]_vars PROVE (Typed /\ Gated)'
  OBVIOUS
<1> USE DEF files, outside, bounds
<1>1. ASSUME NEW t \in Threads, Step(t) \/ Fails(t) PROVE (Typed /\ Gated)'
  <2>1. Turns(t)
    BY <1>1, StepTurns
  <2>2. Gated'
    BY <2>1, Named DEF Turns, Gated
  <2> QED BY <1>1, <2>2, StepTyped
<1>2. CASE World
  <2>1. UNCHANGED <<book, files, cursor, gate, th, bounds>>
    BY <1>2 DEF World, JellyfinScans, TransferEnds, ArrImports
  <2>2. /\ catalog' \in [seen : Ops \union {No}, told : BOOLEAN]
        /\ fence' \in [Terminals -> {"active", "terminal", "frozen", "released"}]
    <3>1. catalog' = catalog \/ catalog' = [seen |-> route.payload, told |-> FALSE]
      BY <1>2 DEF World, JellyfinScans, TransferEnds, ArrImports
    <3>2. fence' = fence \/ \E op \in Terminals : fence' = [fence EXCEPT ![op] = "terminal"]
      BY <1>2 DEF World, JellyfinScans, TransferEnds, ArrImports
    <3>3. catalog' \in [seen : Ops \union {No}, told : BOOLEAN]
      <4>1. catalog \in [seen : Ops \union {No}, told : BOOLEAN] /\ route.payload \in Ops \union {No}
        BY DEF Typed
      <4>2. \A g \in Ops \union {No} :
              [seen |-> g, told |-> FALSE] \in [seen : Ops \union {No}, told : BOOLEAN]
        OBVIOUS
      <4> QED BY <3>1, <4>1, <4>2
    <3>4. fence' \in [Terminals -> {"active", "terminal", "frozen", "released"}]
      BY <3>2 DEF Typed
    <3> QED BY <3>3, <3>4
  <2>3. arr' \in 0 .. Len(History) /\ arr <= arr'
    BY <1>2, Named DEF World, JellyfinScans, TransferEnds, ArrImports, Typed
  <2>4. cursor \in 0 .. arr'
    BY <2>3, Named DEF Typed
  <2>5. ThreadsTyped'
    <3>1. ASSUME NEW t \in Threads PROVE Fits(t, th[t])'
      <4>1. Fits(t, th[t]) /\ th[t].upto \in Nat /\ arr \in Nat /\ arr' \in Nat
        BY <2>3, Named DEF Typed, ThreadsTyped, Thread
      <4> QED BY <2>1, <2>3, <4>1 DEF Fits
    <3> QED BY <2>1, <3>1 DEF Typed, ThreadsTyped
  <2> QED BY <2>1, <2>2, <2>3, <2>4, <2>5 DEF Typed, Gated
<1>3. CASE Crash
  <2>1. /\ UNCHANGED <<book, files, outside, cursor, overlaps, faults>> /\ gate' = No
        /\ \A t \in Threads : th'[t] = Idle
    BY <1>3 DEF Crash
  <2>2. ThreadsTyped'
    <3>1. Idle.upto = 0 /\ 0 <= arr
      BY DEF Idle, Typed
    <3> QED BY <1>3, <2>1, <3>1, IdleIs DEF Crash, ThreadsTyped, Fits
  <2>3. crashes' \in Nat
    BY <1>3 DEF Crash, Typed
  <2> QED BY <2>1, <2>2, <2>3, IdleIs DEF Typed, Gated, Holds
<1>4. CASE UNCHANGED vars
  BY <1>4 DEF vars, Typed, Gated, ThreadsTyped, Fits
<1> QED BY <1>1, <1>2, <1>3, <1>4 DEF PublisherNext

-----------------------------------------------------------------------------
(* Where a step of the processor leaves its thread.                        *)

\* The thread is done with the publication, or goes on to its receipt.
Ends(t) ==
  /\ UNCHANGED overlaps /\ th'[t].then = "none"
  /\ \/ th'[t].pc \in {"idle", "next"}
     \/ /\ th'[t].pc = "receipt" /\ t = "tick" /\ th'[t].op = th[t].op
        /\ \/ InState(th[t].op, "delivered")
           \/ InState(th[t].op, "catalog_pending") /\ th[t].pc \in {"observe", "play", "collect"}

\* It takes the stage for the publication's state.
Starts(t) ==
  /\ UNCHANGED overlaps /\ th'[t].then = "none" /\ th'[t].op = th[t].op
  /\ \/ th'[t].pc \in {"verify", "commit", "ensure"}
     \/ th'[t].pc = "publish" /\ InState(th[t].op, "generation_intent")

\* It goes on with the stage.
Continues(t) ==
  LET op == th[t].op
      from(pc, to) == th[t].pc = pc /\ th'[t].pc = to IN
  /\ UNCHANGED overlaps /\ th'[t].then = "none" /\ th'[t].op = op
  /\ \/ from("commit", "intend") /\ \A other \in Ops \ {op} : ~Unresolved(other)
     \/ from("publish", "expose") /\ visible = op
     \/ from("publish", "payload")
     \/ from("publish", "point") /\ HasPayload(op)
     \/ from("payload", "sidecar") \/ from("sidecar", "point") \/ from("point", "expose")
     \/ from("expose", "seal") \/ from("ensure", "notify")
     \/ from("notify", "found") /\ Seen(op)
     \/ from("notify", "submit") \/ from("submit", "observe")
     \/ from("observe", "found") /\ Seen(op)
     \/ from("play", "deliver")

\* It has written the next record and is about to persist it.
Writes(t) ==
  LET op == th[t].op
      q == book[op]
      from(pc, then, r) == /\ th[t].pc = pc /\ th'[t].then = then
                           /\ r \in Records /\ th'[t].snap = [book EXCEPT ![op] = r] IN
  /\ th'[t].pc = "persist" /\ th'[t].op = op /\ th'[t].snap \in Books
  /\ Overlaps(t) => overlaps < MaxOverlaps
  /\ overlaps' = IF Overlaps(t) THEN overlaps + 1 ELSE overlaps
  /\ \/ /\ q.state = "custody_reserved"
        /\ from("verify", "verified", [q EXCEPT !.state = "candidate_verified"])
     \/ /\ q.state = "candidate_verified"
        /\ from("intend", "intended",
                [q EXCEPT !.state = "generation_intent", !.previous = visible])
     \/ /\ q.state = "generation_intent"
        /\ from("seal", "committed", [q EXCEPT !.state = "catalog_pending"])
     \/ /\ q.state = "catalog_pending"
        /\ \/ from("notify", "submit", [q EXCEPT !.notified = TRUE])
           \/ from("found", "play", [q EXCEPT !.observed = TRUE])
           \/ from("deliver", "collect", [q EXCEPT !.state = "delivered", !.previous = No])

LEMMA WorkGoes ==
  ASSUME Typed, NEW t \in Threads, Work(t), ~Persist(t)
  PROVE  Ends(t) \/ Starts(t) \/ Continues(t) \/ Writes(t)
<1> DEFINE op == th[t].op
           q == book[op]
<1>0. /\ Busy(t) /\ th[t].pc # "persist" /\ th[t].then = "none" /\ ThreadsTyped /\ book \in Books
      /\ op \in Ops /\ q \in Records /\ Valid(op, q) /\ UNCHANGED book
  BY WorkIs, BookIs DEF Busy, Typed
<1>1. ASSUME Return(t, FALSE), UNCHANGED overlaps PROVE Ends(t)
  <2>1. Moves(t, "next", "none")
    BY <1>0, <1>1, ReturnIs
  <2> QED BY <1>1, <2>1 DEF Moves, Ends
<1>2. ASSUME Return(t, TRUE), UNCHANGED overlaps,
             \/ InState(op, "delivered")
             \/ InState(op, "catalog_pending") /\ th[t].pc \in {"observe", "play", "collect"}
      PROVE  Ends(t)
  <2>1. Moves(t, IF t = "tick" THEN "receipt" ELSE "next", "none")
        /\ (t = "tick" => th'[t].op = op)
    BY <1>0, <1>2, ReturnIs
  <2> QED BY <1>2, <2>1 DEF Moves, Ends
<1>3. ASSUME Return(t, Committed(op)), UNCHANGED overlaps, th[t].pc \in {"observe", "play"}
      PROVE  Ends(t)
  <2>1. CASE Committed(op)
    <3>1. Return(t, TRUE)
      BY <1>3, <2>1 DEF Committed
    <3> QED BY <1>2, <1>3, <2>1, <3>1 DEF Committed, InState
  <2>2. CASE ~Committed(op)
    <3>1. Return(t, FALSE)
      <4>1. Committed(op) = FALSE
        BY <2>2 DEF Committed
      <4> QED BY <1>3, <4>1
    <3> QED BY <1>1, <1>3, <3>1
  <2> QED BY <2>1, <2>2
<1>4. ASSUME NEW done \in 0 .. 4, Onward(t, done, book), UNCHANGED overlaps,
             done = 4 => th[t].pc = "collect"
      PROVE  Ends(t) \/ Starts(t)
  <2>1. CASE Unknown(t)
    BY <1>0, <1>4, <2>1, UnknownIs DEF Ends
  <2>2. CASE Return(t, FALSE)
    BY <1>1, <1>4, <2>2
  <2>3. CASE q.state = "delivered" /\ Return(t, TRUE)
    BY <1>2, <1>4, <2>3 DEF InState
  <2>4. CASE q.state = "catalog_pending" /\ done = 4 /\ Return(t, TRUE)
    BY <1>2, <1>4, <2>4 DEF InState
  <2>5. CASE /\ Moves(t, th'[t].pc, "none") /\ th'[t].op = op
             /\ \/ th'[t].pc = "verify" \/ th'[t].pc = "commit" \/ th'[t].pc = "ensure"
                \/ th'[t].pc = "publish" /\ q.state = "generation_intent"
    BY <1>4, <2>5 DEF Moves, Starts, InState
  <2> HIDE DEF op
  <2>6. \/ Unknown(t) \/ Return(t, FALSE)
        \/ q.state = "delivered" /\ Return(t, TRUE)
        \/ q.state = "catalog_pending" /\ done = 4 /\ Return(t, TRUE)
        \/ /\ Moves(t, th'[t].pc, "none") /\ th'[t].op = op
           /\ \/ th'[t].pc = "verify" \/ th'[t].pc = "commit" \/ th'[t].pc = "ensure"
              \/ th'[t].pc = "publish" /\ q.state = "generation_intent"
    BY <1>0, <1>4, OnwardIs DEF op
  <2> QED BY <2>1, <2>2, <2>3, <2>4, <2>5, <2>6
<1>5. ASSUME NEW pc \in Places, To(t, pc)
      PROVE  th'[t].pc = pc /\ th'[t].then = "none" /\ th'[t].op = op
  BY <1>0, <1>5, ToIs DEF Moves
<1>6. ASSUME NEW r \in Records, Valid(op, r), NEW then \in Thens, Prepare(t, r, then)
      PROVE  /\ th'[t].pc = "persist" /\ th'[t].then = then /\ th'[t].op = op
             /\ th'[t].snap \in Books /\ th'[t].snap = [book EXCEPT ![op] = r]
             /\ Overlaps(t) => overlaps < MaxOverlaps
             /\ overlaps' = IF Overlaps(t) THEN overlaps + 1 ELSE overlaps
  BY <1>0, <1>6, PrepareIs DEF Moves
<1>7. CASE Look(t)
  BY <1>4, <1>7 DEF Look, bounds
<1>8. CASE Verify(t)
  <2> DEFINE r == [q EXCEPT !.state = "candidate_verified"]
  <2>1. CASE Return(t, FALSE) /\ UNCHANGED overlaps
    BY <1>1, <2>1
  <2>2. CASE Prepare(t, r, "verified") /\ q.state = "custody_reserved"
    <3>1. r \in Records /\ Valid(op, r)
      BY <1>0, <2>2, RecordsWritten
    <3> QED BY <1>6, <1>8, <2>2, <3>1 DEF Verify, At, Writes, Thens
  <2> QED BY <1>8, <2>1, <2>2 DEF Verify, Transition, InState
<1>9a. CASE Commit(t)
  <2>1. th[t].pc = "commit" /\ UNCHANGED overlaps
    BY <1>9a DEF Commit, At, bounds
  <2>2. CASE Return(t, FALSE)
    BY <1>1, <2>1, <2>2
  <2>3. CASE To(t, "intend") /\ \A other \in Ops \ {op} : ~Unresolved(other)
    BY <1>5, <2>1, <2>3 DEF Continues, Places
  <2> QED BY <1>9a, <2>2, <2>3 DEF Commit
<1>9. CASE RecordIntent(t)
  <2> DEFINE r == [q EXCEPT !.state = "generation_intent", !.previous = visible]
  <2>1. CASE Return(t, FALSE) /\ UNCHANGED overlaps
    BY <1>1, <2>1
  <2>2. CASE /\ Prepare(t, r, "intended") /\ q.state = "candidate_verified"
             /\ AcceptedPredecessor(op, visible)
    <3>1. r \in Records /\ Valid(op, r)
      BY <1>0, <2>2, RecordsWritten DEF Typed
    <3> QED BY <1>6, <1>9, <2>2, <3>1 DEF RecordIntent, At, Writes, Thens
  <2> QED BY <1>9, <2>1, <2>2 DEF RecordIntent, Transition, InState
<1>10. CASE Publish(t)
  <2>1. th[t].pc = "publish" /\ UNCHANGED overlaps
    BY <1>10 DEF Publish, At, bounds
  <2>2. CASE Onward(t, 3, book)
    BY <1>4, <2>1, <2>2
  <2>3. CASE \/ visible = op /\ To(t, "expose")
             \/ HasPayload(op) /\ To(t, "point")
             \/ To(t, "payload")
    BY <1>5, <2>1, <2>3 DEF Continues, Places
  <2> QED BY <1>10, <2>2, <2>3 DEF Publish
<1>11. CASE Normalize(t)
  BY <1>5, <1>11 DEF Normalize, At, bounds, Continues, Places
<1>12. CASE Point(t)
  BY <1>5, <1>12 DEF Point, At, bounds, Continues, Places
<1>13. CASE ExposeRoutes(t)
  <2>1. th[t].pc = "expose" /\ UNCHANGED overlaps
    BY <1>13 DEF ExposeRoutes, At, bounds
  <2>2. CASE Onward(t, 3, book)
    BY <1>4, <2>1, <2>2
  <2>3. CASE To(t, "seal")
    BY <1>5, <2>1, <2>3 DEF Continues, Places
  <2> QED BY <1>13, <2>2, <2>3 DEF ExposeRoutes
<1>14. CASE MarkCommitted(t)
  <2> DEFINE r == [q EXCEPT !.state = "catalog_pending"]
  <2>1. CASE Return(t, FALSE) /\ UNCHANGED overlaps
    BY <1>1, <2>1
  <2>2. CASE Prepare(t, r, "committed") /\ q.state = "generation_intent"
    <3>1. r \in Records /\ Valid(op, r)
      BY <1>0, <2>2, RecordsWritten
    <3> QED BY <1>6, <1>14, <2>2, <3>1 DEF MarkCommitted, At, Writes, Thens
  <2> QED BY <1>14, <2>1, <2>2 DEF MarkCommitted, Transition, InState
<1>15. CASE EnsureIdentity(t)
  <2>1. th[t].pc = "ensure" /\ UNCHANGED overlaps
    BY <1>15 DEF EnsureIdentity, At, bounds
  <2> QED BY <1>1, <1>5, <1>15, <2>1 DEF EnsureIdentity, Continues, Places
<1>16. CASE Notify(t)
  <2> DEFINE r == [q EXCEPT !.notified = TRUE]
  <2>1. CASE Return(t, FALSE) /\ UNCHANGED overlaps
    BY <1>1, <2>1
  <2>2. CASE ((To(t, "found") /\ Seen(op)) \/ To(t, "submit")) /\ UNCHANGED overlaps
    BY <1>5, <1>16, <2>2 DEF Notify, At, Continues, Places
  <2>3. CASE Prepare(t, r, "submit") /\ q.state = "catalog_pending"
    <3>1. r \in Records /\ Valid(op, r)
      BY <1>0, RecordsWritten
    <3> QED BY <1>6, <1>16, <2>3, <3>1 DEF Notify, At, Writes, Thens
  <2> QED BY <1>16, <2>1, <2>2, <2>3 DEF Notify, InState
<1>17. CASE Submit(t)
  BY <1>5, <1>17 DEF Submit, At, bounds, Continues, Places
<1>18. CASE Observe(t)
  <2>1. th[t].pc = "observe" /\ UNCHANGED overlaps
    BY <1>18 DEF Observe, At, bounds
  <2> QED BY <1>3, <1>5, <1>18, <2>1 DEF Observe, Continues, Places
<1>19. CASE MarkObserved(t)
  <2> DEFINE r == [q EXCEPT !.observed = TRUE]
  <2>1. CASE Return(t, FALSE) /\ UNCHANGED overlaps
    BY <1>1, <2>1
  <2>2. CASE Prepare(t, r, "play") /\ q.state = "catalog_pending" /\ q.notified
    <3>1. r \in Records /\ Valid(op, r)
      BY <1>0, <2>2, RecordsWritten
    <3> QED BY <1>6, <1>19, <2>2, <3>1 DEF MarkObserved, At, Writes, Thens
  <2> QED BY <1>19, <2>1, <2>2 DEF MarkObserved, InState
<1>20. CASE DirectPlay(t)
  <2>1. th[t].pc = "play" /\ UNCHANGED overlaps
    BY <1>20 DEF DirectPlay, At, bounds
  <2> QED BY <1>3, <1>5, <1>20, <2>1 DEF DirectPlay, Continues, Places
<1>21. CASE MarkDelivered(t)
  <2> DEFINE r == [q EXCEPT !.state = "delivered", !.previous = No]
  <2>1. CASE Return(t, FALSE) /\ UNCHANGED overlaps
    BY <1>1, <2>1
  <2>2. CASE Prepare(t, r, "collect") /\ q.state = "catalog_pending" /\ q.observed
    <3>1. r \in Records /\ Valid(op, r)
      BY <1>0, <2>2, RecordsWritten
    <3> QED BY <1>6, <1>21, <2>2, <3>1 DEF MarkDelivered, At, Writes, Thens
  <2> QED BY <1>21, <2>1, <2>2 DEF MarkDelivered, InState
<1>22. CASE GarbageCollect(t)
  BY <1>4, <1>22 DEF GarbageCollect, At, bounds
<1> QED
  BY <1>7, <1>8, <1>9a, <1>9, <1>10, <1>11, <1>12, <1>13, <1>14, <1>15, <1>16, <1>17, <1>18, <1>19,
     <1>20, <1>21, <1>22 DEF Work

LEMMA PersistGoes ==
  ASSUME Typed, NEW t \in Threads, Persist(t)
  PROVE  LET op == th[t].op
             goes(pc) == th'[t].pc = pc /\ th'[t].op = op IN
         /\ th[t].pc = "persist" /\ th[t].then # "none" /\ op \in Ops
         /\ book' = th[t].snap /\ book' \in Books
         /\ UNCHANGED <<files, outside, cursor, bounds>> /\ th'[t].then = "none"
         /\ \/ th[t].then = "accepted" /\ goes("enter")
            \/ /\ th[t].then \in {"adopted", "verified", "intended", "committed"}
               /\ \/ th'[t].pc \in {"idle", "next"}
                  \/ goes("verify") \/ goes("commit") \/ goes("ensure")
                  \/ goes("publish") /\ book'[op].state = "generation_intent"
                  \/ goes("receipt") /\ t = "tick" /\ book'[op].state = "delivered"
            \/ th[t].then \in {"submit", "play", "collect"} /\ goes(th[t].then)
<1>0. ThreadsTyped /\ th[t].pc = "persist" /\ Fits(t, th[t])
  BY DEF Typed, ThreadsTyped, Persist, Between
<1>1. /\ th[t].then # "none" /\ th[t].op \in Ops /\ book' = th[t].snap /\ book' \in Books
      /\ UNCHANGED <<files, outside, cursor, bounds>>
  BY <1>0, PersistIs DEF Persist, Fits
<1>2. CASE th[t].then = "accepted" /\ Moves(t, "enter", "none") /\ th'[t].op = th[t].op
  BY <1>0, <1>1, <1>2 DEF Moves
<1>3. CASE /\ th[t].then \in {"submit", "play", "collect"} /\ Moves(t, th[t].then, "none")
           /\ th'[t].op = th[t].op
  BY <1>0, <1>1, <1>3 DEF Moves
<1>4. ASSUME th[t].then \in {"adopted", "verified", "intended", "committed"},
             NEW done \in 0 .. 3, Onward(t, done, book')
      PROVE  /\ th'[t].then = "none"
             /\ \/ th'[t].pc \in {"idle", "next"}
                \/ /\ th'[t].op = th[t].op
                   /\ \/ th'[t].pc \in {"verify", "commit", "ensure"}
                      \/ th'[t].pc = "publish" /\ book'[th[t].op].state = "generation_intent"
                      \/ th'[t].pc = "receipt" /\ t = "tick"
                         /\ book'[th[t].op].state = "delivered"
  <2> DEFINE s == book'[th[t].op].state
  <2>1. CASE Unknown(t)
    BY <1>0, <2>1, UnknownIs
  <2>2. CASE Return(t, FALSE)
    BY <1>0, <2>2, ReturnIs DEF Moves
  <2>3. CASE s = "delivered" /\ Return(t, TRUE)
    BY <1>0, <2>3, ReturnIs DEF Moves
  <2>4. CASE /\ Moves(t, th'[t].pc, "none") /\ th'[t].op = th[t].op
             /\ \/ th'[t].pc = "verify" \/ th'[t].pc = "commit" \/ th'[t].pc = "ensure"
                \/ th'[t].pc = "publish" /\ s = "generation_intent"
    BY <2>4 DEF Moves
  <2>5. done \in 0 .. 4 /\ done # 4
    OBVIOUS
  <2>6. \/ Unknown(t) \/ Return(t, FALSE)
        \/ s = "delivered" /\ Return(t, TRUE)
        \/ /\ Moves(t, th'[t].pc, "none") /\ th'[t].op = th[t].op
           /\ \/ th'[t].pc = "verify" \/ th'[t].pc = "commit" \/ th'[t].pc = "ensure"
              \/ th'[t].pc = "publish" /\ s = "generation_intent"
    BY <1>0, <1>1, <1>4, <2>5, OnwardIs
  <2> QED BY <2>1, <2>2, <2>3, <2>4, <2>6
<1>5. ASSUME th[t].then \in {"adopted", "verified", "intended", "committed"}
      PROVE  \E done \in 0 .. 3 : Onward(t, done, book')
  BY <1>0, <1>5, PersistIs
<1> QED BY <1>0, <1>1, <1>2, <1>3, <1>4, <1>5, PersistIs

-----------------------------------------------------------------------------
(* The promise to the players of the asset.                                *)

\* The pointer is moved to a complete generation only.
Pointed == \A t \in Threads : At(t, "point") => HasPayload(th[t].op)

LEMMA PayloadKept ==
  ASSUME Typed, NEW t \in Threads, Step(t) \/ Fails(t), NEW g \in Ops
  PROVE  /\ HasPayload(g) => HasPayload(g)' \/ (GarbageCollect(t) /\ g \notin Retained)
         /\ HasPayload(g)' => HasPayload(g) \/ (Normalize(t) /\ g = th[t].op)
<1>0. gen \in [Ops -> {"absent", "copied", "halfway", "whole"}]
  BY DEF Typed
<1>1. CASE UNCHANGED gen
  BY <1>1 DEF HasPayload
<1>2. CASE Publish(t)
  BY <1>0, <1>2 DEF Publish, HasPayload
<1>3. CASE Normalize(t)
  BY <1>0, <1>3 DEF Normalize, HasPayload
<1>4. CASE GarbageCollect(t)
  BY <1>0, <1>4 DEF GarbageCollect, HasPayload
<1> QED
  BY <1>1, <1>2, <1>3, <1>4
     DEF Step, Work, Fails, Persist, Look, Verify, Commit, RecordIntent, Point, ExposeRoutes, files, outside,
         MarkCommitted, EnsureIdentity, Notify, Submit, Observe, MarkObserved, DirectPlay,
         MarkDelivered, TickStep, RetryStep, ImportStep, Tick, AcceptTerminal, Enter, Receipt,
         StartRetry, RetryNext, StartImports, Bootstrap, SaveCursor

LEMMA NextPointed == Typed /\ Gated /\ Pointed /\ [PublisherNext]_vars => Pointed'
<1> SUFFICES ASSUME Typed, Gated, Pointed, [PublisherNext]_vars PROVE Pointed'
  OBVIOUS
<1>1. ASSUME NEW t \in Threads, Step(t) \/ Fails(t), NEW u \in Threads, At(u, "point")'
      PROVE  HasPayload(th[u].op)'
  <2>1. CASE u # t
    <3>1. th'[u] = th[u] /\ At(u, "point")
      BY <1>1, <2>1, StepTurns DEF Turns, At
    <3>2. th[u].op \in Ops /\ Holds(u, th[u])
      BY <3>1 DEF Typed, ThreadsTyped, Fits, At, Holds
    <3>3. ~GarbageCollect(t)
      <4>1. SUFFICES ASSUME GarbageCollect(t) PROVE FALSE
        OBVIOUS
      <4>2. Holds(t, th[t])
        BY <4>1 DEF Typed, ThreadsTyped, Fits, At, Holds, GarbageCollect
      <4> QED BY <2>1, <3>2, <4>2 DEF Gated
    <3> QED BY <1>1, <3>1, <3>2, <3>3, PayloadKept DEF Pointed
  <2>2. CASE u = t
    <3>0. th'[t].pc = "point"
      BY <1>1, <2>2 DEF At
    <3>1. Work(t) /\ ~Persist(t)
      <4>1. ~Fails(t)
        BY <3>0, FailsIs
      <4>2. ~Persist(t)
        BY <3>0, PersistGoes
      <4>3. ~(t = "tick" /\ TickStep)
        BY <3>0, TickIs DEF TickStep, Moves
      <4>4. ~(t = "retry" /\ RetryStep)
        BY <3>0, RetryIs DEF RetryStep
      <4>5. ~(t = "imports" /\ ImportStep)
        BY <3>0, ImportsIs DEF ImportStep
      <4> QED BY <1>1, <4>1, <4>2, <4>3, <4>4, <4>5 DEF Step
    <3>2. /\ th'[t].op = th[t].op
          /\ \/ th[t].pc = "publish" /\ HasPayload(th[t].op)
             \/ th[t].pc = "sidecar"
      BY <3>0, <3>1, WorkGoes DEF Ends, Starts, Continues, Writes
    <3>3. th[t].op \in Ops
      BY <3>1, WorkIs DEF Busy
    <3>4. CASE th[t].pc = "publish" /\ HasPayload(th[t].op)
      BY <1>1, <2>2, <3>2, <3>3, <3>4, PayloadKept DEF GarbageCollect, At
    <3>5. CASE th[t].pc = "sidecar"
      <4>1. Normalize(t)
        BY <3>1, <3>5 DEF Work, At, Look, Verify, Commit, RecordIntent, Publish, Point, ExposeRoutes,
              MarkCommitted, EnsureIdentity, Notify, Submit, Observe, MarkObserved, DirectPlay,
              MarkDelivered, GarbageCollect
      <4>2. gen'[th[t].op] = "whole"
        BY <3>3, <3>5, <4>1 DEF Normalize, At, Typed
      <4>3. th[t].op # No
        BY <3>3, Named
      <4> QED BY <2>2, <3>2, <4>2, <4>3 DEF HasPayload
    <3> QED BY <3>2, <3>4, <3>5
  <2> QED BY <2>1, <2>2
<1>2. CASE World
  BY <1>2 DEF World, JellyfinScans, TransferEnds, ArrImports, files, Pointed, At, HasPayload
<1>3. CASE Crash
  BY <1>3, IdleIs DEF Crash, Pointed, At
<1>4. CASE UNCHANGED vars
  BY <1>4 DEF vars, files, Pointed, At, HasPayload
<1> QED BY <1>1, <1>2, <1>3, <1>4 DEF PublisherNext, Pointed

\* What is typed, gated and pointed at holds of every behaviour.
LEMMA TypedHolds == Spec => [](Typed /\ Gated /\ Pointed)
<1>1. PublisherInit => Typed /\ Gated /\ Pointed
  BY InitTyped, IdleIs DEF PublisherInit, Pointed, At
<1>2. Typed /\ Gated /\ Pointed /\ [PublisherNext]_vars => (Typed /\ Gated /\ Pointed)'
  BY NextTyped, NextPointed
<1> QED BY <1>1, <1>2, PTL DEF Spec

\* Whatever fails, overlaps or restarts, the publications that are saved are ones that
\* from_records loads again, every path names a generation and the cursor never gets ahead
\* of Arr's history.
THEOREM PublisherIsTyped == Spec => []PublisherTypeOK
<1>1. Typed => PublisherTypeOK
  <2> SUFFICES ASSUME Typed PROVE PublisherTypeOK
    OBVIOUS
  <2>1. \A op \in Ops : RecordValid(op)
    <3> SUFFICES ASSUME NEW op \in Ops PROVE RecordValid(op)
      OBVIOUS
    <3>1. book[op] \in Records /\ Valid(op, book[op])
      BY BookIs DEF Typed
    <3> QED BY <3>1 DEF Valid, RecordValid
  <2>2. cursor <= arr /\ arr <= Len(History)
    BY Named DEF Typed
  <2> QED BY <2>1, <2>2 DEF Typed, PublisherTypeOK
<1> QED BY <1>1, TypedHolds, PTL

\* What is sealed in the canonical tree.
Whole == {g \in Ops : HasPayload(g)}

LEMMA SlotStep ==
  ASSUME Typed, Pointed, NEW t \in Threads, Step(t) \/ Fails(t)
  PROVE  \/ Whole' = Whole /\ visible' = visible
         \/ \E g \in Ops : g \notin Whole /\ Whole' = Whole \union {g} /\ visible' = visible
         \/ \E g \in Ops : g \in Whole /\ visible' = g /\ Whole' = Whole
         \/ \E G \in SUBSET Whole : visible \notin G /\ Whole' = Whole \ G /\ visible' = visible
<1>0. Whole' = {g \in Ops : HasPayload(g)'}
  BY DEF Whole
<1>1. CASE GarbageCollect(t)
  <2> DEFINE G == {g \in Whole : g \notin Retained}
  <2>1. visible' = visible /\ gen' = [g \in Ops |-> IF g \in Retained THEN gen[g] ELSE "absent"]
    BY <1>1 DEF GarbageCollect
  <2>2. visible \notin G
    BY DEF Retained
  <2>3. \A g \in Ops : HasPayload(g)' <=> HasPayload(g) /\ g \in Retained
    BY <2>1, Named DEF HasPayload
  <2>4. Whole' = Whole \ G
    BY <1>0, <2>3 DEF Whole
  <2> QED BY <2>1, <2>2, <2>4
<1>2. CASE Normalize(t)
  <2>1. th[t].op \in Ops /\ visible' = visible
    BY <1>2 DEF Normalize, Typed, ThreadsTyped, Fits, At
  <2>2. gen'[th[t].op] \in {"halfway", "whole"} /\ \A g \in Ops : g # th[t].op => gen'[g] = gen[g]
    BY <1>2, <2>1 DEF Normalize, Typed
  <2>3. Whole' = Whole \union {th[t].op}
    BY <1>0, <2>1, <2>2, Named DEF Whole, HasPayload
  <2> QED BY <2>1, <2>3
<1>3. CASE ~GarbageCollect(t) /\ ~Normalize(t)
  <2>1. Whole' = Whole
    BY <1>0, <1>3, PayloadKept DEF Whole
  <2>2. CASE Point(t) /\ visible' # visible
    <3>1. th[t].op \in Ops /\ visible' = th[t].op
      BY <2>2 DEF Point, At, Typed, ThreadsTyped, Fits
    <3>2. th[t].op \in Whole
      BY <2>2, <3>1 DEF Point, At, Pointed, Whole
    <3> QED BY <2>1, <3>1, <3>2
  <2>3. CASE ~Point(t)
    <3>1. visible' = visible
      BY <1>3, <2>3 DEF Step, Work, Fails, Persist, Look, Verify, Commit, RecordIntent, Publish, ExposeRoutes,
         MarkCommitted, EnsureIdentity, Notify, Submit, Observe, MarkObserved, DirectPlay,
         MarkDelivered, TickStep, RetryStep, ImportStep, Tick, AcceptTerminal, Enter, Receipt,
         StartRetry, RetryNext, StartImports, Bootstrap, SaveCursor, files
    <3> QED BY <2>1, <3>1
  <2> QED BY <2>1, <2>2, <2>3
<1> QED BY <1>1, <1>2, <1>3

\* The Publisher implements Slot for every set of downloads and threads: renaming a
\* payload seals a generation, exchanging the pointer advances to a sealed one, garbage
\* collection takes none that is shown, and no other step of any thread, no failed call
\* and no restart touches either.
THEOREM PublisherKeepsPromise == Spec => KeepsSlotPromise
<1>1. PublisherInit => Promise!SlotInit
  BY Named DEF PublisherInit, HasPayload, Promise!SlotInit
<1>2. Typed /\ Pointed /\ [PublisherNext]_vars => [Promise!SlotNext]_(Promise!slotVars)
  <2> SUFFICES ASSUME Typed, Pointed, [PublisherNext]_vars
               PROVE  [Promise!SlotNext]_(Promise!slotVars)
    OBVIOUS
  <2>0. Whole = {g \in Ops : HasPayload(g)} /\ Whole' = {g \in Ops : HasPayload(g)'}
    BY DEF Whole
  <2>1. CASE \/ Whole' = Whole /\ visible' = visible
             \/ \E g \in Ops : g \notin Whole /\ Whole' = Whole \union {g} /\ visible' = visible
             \/ \E g \in Ops : g \in Whole /\ visible' = g /\ Whole' = Whole
             \/ \E G \in SUBSET Whole : visible \notin G /\ Whole' = Whole \ G /\ visible' = visible
    <3> HIDE DEF Whole
    <3> QED BY <2>0, <2>1 DEF Promise!SlotNext, Promise!slotVars, Promise!Seal, Promise!Advance,
                              Promise!Collect
  <2>2. ASSUME NEW t \in Threads, Step(t) \/ Fails(t)
        PROVE  [Promise!SlotNext]_(Promise!slotVars)
    BY <2>1, <2>2, SlotStep
  <2>3. CASE World \/ Crash \/ UNCHANGED vars
    <3>1. UNCHANGED <<gen, visible>>
      BY <2>3 DEF World, JellyfinScans, TransferEnds, ArrImports, Crash, vars, files
    <3>2. Whole' = Whole /\ visible' = visible
      BY <3>1 DEF Whole, HasPayload
    <3> QED BY <2>1, <3>2
  <2> QED BY <2>2, <2>3 DEF PublisherNext
<1> QED BY <1>1, <1>2, TypedHolds, PTL DEF Spec, KeepsSlotPromise, Promise!SlotSpec

\* What is shown is complete.
Shown == visible # No => HasPayload(visible)

LEMMA ShownHolds == Spec => []Shown
<1>1. PublisherInit => Shown
  BY DEF PublisherInit, Shown
<1>2. Typed /\ Pointed /\ Shown /\ [PublisherNext]_vars => Shown'
  <2> SUFFICES ASSUME Typed, Pointed, Shown, [PublisherNext]_vars PROVE Shown'
    OBVIOUS
  <2>0. Shown = (visible # No => visible \in Whole)
    BY DEF Shown, Whole, Typed
  <2>1. ASSUME NEW t \in Threads, Step(t) \/ Fails(t) PROVE Shown'
    <3>1. Typed'
      BY <2>1, StepTyped
    <3>2. visible' # No => visible' \in Whole'
      <4> HIDE DEF Whole
      <4> QED BY <2>0, <2>1, SlotStep DEF Shown
    <3> QED BY <3>1, <3>2 DEF Shown, Whole, Typed
  <2>2. CASE World \/ Crash \/ UNCHANGED vars
    BY <2>2 DEF World, JellyfinScans, TransferEnds, ArrImports, Crash, vars, files, Shown,
                HasPayload
  <2> QED BY <2>1, <2>2 DEF PublisherNext
<1> QED BY <1>1, <1>2, TypedHolds, PTL DEF Spec
=============================================================================
