----------------------- MODULE PublisherOrderProofs -----------------------
(***************************************************************************)
(* What the order of the Publisher's steps is worth, for every set of      *)
(* downloads and threads and any number of failed calls and restarts: a    *)
(* public file follows the pointer, however many persists overlap; and     *)
(* while none do, an upgrade can be gone back on until it is delivered and *)
(* a receipt or a delivery speaks of what the asset plays.                 *)
(*                                                                         *)
(* The argument: the thread that holds the gate is the only one that moves *)
(* the pointer, the routes and the generations.  What comes in between its *)
(* steps is the tick, which accepts one custody or gives one receipt       *)
(* outside the gate.  Such an acceptance saves publications that are older *)
(* than those it replaces, and what the holder has written is newer:       *)
(* Ordered says how the three compare.                                     *)
(***************************************************************************)
EXTENDS PublisherProofs

-----------------------------------------------------------------------------
(* Where any step that is not a persist leaves its thread.                 *)

\* The thread takes no part in a publication, or has a receipt to give.
Rests(t) ==
  /\ UNCHANGED overlaps /\ th'[t].then = "none"
  /\ \/ th'[t].pc \in {"idle", "next", "look"}
     \/ /\ th'[t].pc = "receipt" /\ t = "tick" /\ th'[t].op = th[t].op /\ Busy(t)
        /\ \/ InState(th[t].op, "delivered")
           \/ /\ InState(th[t].op, "catalog_pending")
              /\ th[t].pc \in {"submit", "observe", "play", "collect"}

\* It is about to persist a custody that it accepted, or an import that it adopted.
Takes(t) ==
  /\ th[t].pc = "next" /\ th'[t].pc = "persist" /\ th'[t].op \in Ops
  /\ \/ t = "tick" /\ th'[t].then = "accepted" /\ th'[t].snap = Hold(th'[t].op)
     \/ t = "imports" /\ th'[t].then = "adopted" /\ th'[t].snap = Adopt(th'[t].op)
  /\ Overlaps(t) => overlaps < MaxOverlaps
  /\ overlaps' = IF Overlaps(t) THEN overlaps + 1 ELSE overlaps

LEMMA StartsImports ==
  ASSUME Typed, "imports" \in Threads, StartImports \/ SaveCursor
  PROVE  th'["imports"].pc # "persist"
<1>1. ThreadsTyped
  BY DEF Typed
<1>2. CASE StartImports
  BY <1>1, <1>2 DEF StartImports, Goes, Idle, ThreadsTyped
<1>3. CASE SaveCursor
  BY <1>1, <1>3 DEF SaveCursor, Goes, Idle, ThreadsTyped
<1> QED BY <1>2, <1>3

LEMMA StepGoes ==
  ASSUME Typed, NEW t \in Threads, Step(t) \/ Fails(t), ~Persist(t)
  PROVE  /\ UNCHANGED book
         /\ \/ Rests(t) \/ Takes(t)
            \/ /\ Busy(t) /\ th[t].pc # "persist" /\ th[t].then = "none"
               /\ Starts(t) \/ Continues(t) \/ Writes(t)
<1>1. CASE Fails(t)
  <2>1. CASE th'[t].pc = "next"
    BY <1>1, <2>1, FailsIs DEF Rests
  <2>2. CASE /\ Busy(t) /\ th'[t].pc = "receipt" /\ th'[t].op = th[t].op
             /\ th[t].pc \in {"submit", "observe", "play"} /\ Committed(th[t].op)
    <3>1. t = "tick"
      BY <1>1, <2>2, FailsIs DEF Turns, Fits
    <3> QED BY <1>1, <2>2, <3>1, FailsIs DEF Rests, Committed, InState
  <2> QED BY <1>1, <2>1, <2>2, FailsIs
<1>2. CASE Work(t)
  <2>1. /\ Busy(t) /\ th[t].pc # "persist" /\ th[t].then = "none" /\ UNCHANGED book
        /\ Ends(t) \/ Starts(t) \/ Continues(t) \/ Writes(t)
    BY <1>2, WorkIs, WorkGoes
  <2>2. Ends(t) => Rests(t)
    BY <2>1 DEF Ends, Rests
  <2> QED BY <2>1, <2>2
<1>3. CASE t = "tick" /\ TickStep
  <2>1. UNCHANGED book
    BY <1>3 DEF TickStep, Tick, AcceptTerminal, Enter, Receipt
  <2>2. CASE AcceptTerminal
    BY <1>3, <2>1, <2>2, TickIs, Named DEF Rests, Takes, AcceptTerminal, At
  <2>3. CASE Tick \/ Enter \/ Receipt
    <3>1. UNCHANGED overlaps
      BY <2>3 DEF Tick, Enter, Receipt, bounds
    <3>2. th'[t].then = "none" /\ th'[t].pc \in {"next", "look"}
      BY <1>3, <2>3, TickIs DEF Moves
    <3> QED BY <2>1, <3>1, <3>2 DEF Rests
  <2> QED BY <1>3, <2>2, <2>3 DEF TickStep
<1>4. CASE t = "retry" /\ RetryStep
  <2>1. UNCHANGED <<book, overlaps>>
    BY <1>4 DEF RetryStep, StartRetry, RetryNext, bounds
  <2> QED BY <1>4, <2>1, RetryIs DEF RetryStep, Rests
<1>5. CASE t = "imports" /\ ImportStep
  <2>1. UNCHANGED book
    BY <1>5 DEF ImportStep, StartImports, Bootstrap, SaveCursor
  <2>2. CASE th'[t].then = "none" /\ th'[t].pc \in {"idle", "next"} /\ UNCHANGED overlaps
    BY <2>1, <2>2 DEF Rests
  <2>3. CASE th'[t].pc = "persist"
    <3>1. ~StartImports /\ ~SaveCursor
      BY <1>5, <2>3, StartsImports
    <3>2. th[t].pc = "next"
      BY <1>5, <3>1 DEF ImportStep, Bootstrap, At
    <3> QED BY <1>5, <2>1, <2>3, <3>2, ImportsIs, Named DEF ImportStep, Takes
  <2> QED BY <1>5, <2>2, <2>3, ImportsIs DEF ImportStep
<1> QED BY <1>1, <1>2, <1>3, <1>4, <1>5 DEF Step

\* What a step does to what is shown.
LEMMA FilesGo ==
  ASSUME Typed, NEW t \in Threads, Step(t) \/ Fails(t)
  PROVE  LET op == th[t].op
             from(pc, to) == th[t].pc = pc /\ th'[t].pc = to IN
         /\ catalog'.seen = catalog.seen
         /\ visible' # visible => from("point", "expose")
         /\ from("point", "expose") => visible' = op
         /\ route' # route => from("expose", "seal") \/ from("ensure", "notify")
         /\ from("expose", "seal") => route'.payload = op
         /\ from("ensure", "notify") => route'.payload = op /\ visible = op
<1> USE DEF files, outside, At
<1>0. ThreadsTyped
  BY DEF Typed
<1>1. \A pc \in Places : To(t, pc) => th'[t].pc = pc
  BY <1>0, ToIs DEF Moves
<1>2. ASSUME Busy(t), NEW done \in 0 .. 4, Onward(t, done, book)
      PROVE  th'[t].pc \notin {"expose", "seal", "notify"}
  BY <1>0, <1>2, OnwardIs, UnknownIs, ReturnIs DEF Busy, Moves, Typed
<1>3. ASSUME Return(t, FALSE)
      PROVE  th'[t].pc \notin {"expose", "seal", "notify"}
  BY <1>0, <1>3, ReturnIs DEF Moves
<1>4. CASE Point(t)
  <2>1. th[t].pc = "point" /\ UNCHANGED <<route, catalog>>
    BY <1>4 DEF Point
  <2> QED BY <1>1, <1>4, <2>1 DEF Point, Places
<1>5. CASE ExposeRoutes(t)
  <2>1. th[t].pc = "expose" /\ UNCHANGED <<visible, catalog>> /\ Busy(t)
    BY <1>5, WorkIs DEF ExposeRoutes, Work, Persist, Between
  <2>2. Expose(th[t].op) => route'.payload = th[t].op
    BY DEF Expose
  <2> QED BY <1>1, <1>2, <1>5, <2>1, <2>2 DEF ExposeRoutes, Places
<1>6. CASE EnsureIdentity(t)
  <2>1. th[t].pc = "ensure" /\ UNCHANGED <<visible, catalog>>
    BY <1>6 DEF EnsureIdentity
  <2>2. Expose(th[t].op) => route'.payload = th[t].op
    BY DEF Expose
  <2> QED BY <1>1, <1>3, <1>6, <2>1, <2>2 DEF EnsureIdentity, Places
<1>7. CASE UNCHANGED <<visible, route>> /\ th[t].pc \notin {"point", "expose", "ensure"}
           /\ catalog'.seen = catalog.seen
  BY <1>7
<1>8. CASE Fails(t)
  <2>1. th'[t].pc \in {"next", "receipt"} /\ UNCHANGED <<visible, route, catalog>>
    BY <1>8, FailsIs
  <2> QED BY <2>1
<1>9. CASE Submit(t)
  <2>1. catalog'.seen = catalog.seen
    BY <1>9 DEF Submit, Typed
  <2> QED BY <1>7, <1>9, <2>1 DEF Submit
<1> QED
  BY <1>4, <1>5, <1>6, <1>7, <1>8, <1>9
     DEF Step, Work, Persist, Between, Look, Verify, Commit, RecordIntent, Publish, Normalize,
         MarkCommitted, Notify, Observe, MarkObserved, DirectPlay, MarkDelivered, GarbageCollect,
         TickStep, RetryStep, ImportStep, Tick, AcceptTerminal, Enter, Receipt,
         StartRetry, RetryNext, StartImports, Bootstrap, SaveCursor

\* Only the holder of the gate is at work; what else may be under way is the tick's custody.
LEMMA Alone ==
  ASSUME Typed, Gated, NEW t \in Threads, Holds(t, th[t]), NEW u \in Threads, u # t
  PROVE  /\ ~Holds(u, th[u])
         /\ Between(u) => u = "tick" /\ th[u].then = "accepted"
         /\ ~Between(u) => th[u].pc \in {"idle", "next", "enter", "receipt"}
<1>1. ~Holds(u, th[u])
  BY DEF Gated
<1>2. Fits(u, th[u])
  BY DEF Typed, ThreadsTyped
<1> QED BY <1>1, <1>2 DEF Holds, Fits, Between

\* What is about to be persisted: the publications as they were read, with one record on.
LEMMA SnapIs ==
  ASSUME Typed, NEW t \in Threads, th[t].pc # "persist",
         Takes(t) \/ (Busy(t) /\ Writes(t))
  PROVE  LET op == th'[t].op
             q == book[op]
             s == th'[t].snap
             r == s[op] IN
         /\ op \in Ops /\ s \in Books /\ \A o \in Ops \ {op} : s[o] = book[o]
         /\ \/ Takes(t) /\ r = q
            \/ /\ Takes(t) /\ q.state = "none" /\ r.previous = No
               /\ r.state \in {"custody_reserved", "candidate_verified"}
            \/ /\ ~Takes(t) /\ op = th[t].op
               /\ \/ /\ th'[t].then = "verified" /\ r.previous = q.previous
                     /\ q.state = "custody_reserved" /\ r.state = "candidate_verified"
                  \/ /\ th'[t].then = "intended" /\ r.previous = visible
                     /\ q.state = "candidate_verified" /\ r.state = "generation_intent"
                     /\ th[t].pc = "intend"
                  \/ /\ th'[t].then = "committed" /\ r.previous = q.previous
                     /\ q.state = "generation_intent" /\ r.state = "catalog_pending"
                     /\ th[t].pc = "seal"
                  \/ /\ r.previous = q.previous
                     /\ q.state = "catalog_pending" /\ r.state = "catalog_pending"
                     /\ \/ th[t].pc = "notify" /\ th'[t].then = "submit"
                        \/ th[t].pc = "found" /\ th'[t].then = "play"
                  \/ /\ th'[t].then = "collect" /\ r.previous = No
                     /\ q.state = "catalog_pending" /\ r.state = "delivered"
                     /\ th[t].pc = "deliver"
<1>1. book \in Books
  BY DEF Typed
<1>2. CASE Takes(t)
  <2> DEFINE op == th'[t].op
  <2>1. op \in Ops /\ (th'[t].snap = Hold(op) \/ th'[t].snap = Adopt(op))
    BY <1>2 DEF Takes
  <2> HIDE DEF op
  <2>2. /\ th'[t].snap \in Books /\ \A o \in Ops \ {op} : th'[t].snap[o] = book[o]
        /\ book[op].state # "none" => th'[t].snap[op] = book[op]
        /\ book[op].state = "none" => /\ th'[t].snap[op].previous = No
             /\ th'[t].snap[op].state \in {"custody_reserved", "candidate_verified"}
    BY <2>1, HoldIs
  <2> QED BY <1>2, <2>1, <2>2 DEF op
<1>3. CASE Busy(t) /\ Writes(t) /\ ~Takes(t)
  <2> DEFINE op == th[t].op
             q == book[op]
  <2>0. op \in Ops /\ q \in Records /\ th'[t].op = op /\ th'[t].snap \in Books
    BY <1>1, <1>3, BookIs DEF Busy, Writes
  <2>1. \A r \in Records : th'[t].snap = [book EXCEPT ![op] = r] =>
          th'[t].snap[op] = r /\ \A o \in Ops \ {op} : th'[t].snap[o] = book[o]
    BY <1>1, <2>0 DEF Books
  <2>2. /\ [q EXCEPT !.state = "candidate_verified"].state = "candidate_verified"
        /\ [q EXCEPT !.state = "candidate_verified"].previous = q.previous
        /\ [q EXCEPT !.state = "generation_intent", !.previous = visible].state
             = "generation_intent"
        /\ [q EXCEPT !.state = "generation_intent", !.previous = visible].previous = visible
        /\ [q EXCEPT !.state = "catalog_pending"].state = "catalog_pending"
        /\ [q EXCEPT !.state = "catalog_pending"].previous = q.previous
        /\ [q EXCEPT !.notified = TRUE].state = q.state
        /\ [q EXCEPT !.notified = TRUE].previous = q.previous
        /\ [q EXCEPT !.observed = TRUE].state = q.state
        /\ [q EXCEPT !.observed = TRUE].previous = q.previous
        /\ [q EXCEPT !.state = "delivered", !.previous = No].state = "delivered"
        /\ [q EXCEPT !.state = "delivered", !.previous = No].previous = No
    BY <2>0 DEF Records
  <2>3. PICK r \in Records :
          /\ th'[t].snap = [book EXCEPT ![op] = r]
          /\ \/ /\ th'[t].then = "verified" /\ q.state = "custody_reserved"
                /\ r = [q EXCEPT !.state = "candidate_verified"]
             \/ /\ th'[t].then = "intended" /\ q.state = "candidate_verified"
                /\ r = [q EXCEPT !.state = "generation_intent", !.previous = visible]
                /\ th[t].pc = "intend"
             \/ /\ th'[t].then = "committed" /\ q.state = "generation_intent"
                /\ r = [q EXCEPT !.state = "catalog_pending"] /\ th[t].pc = "seal"
             \/ /\ th'[t].then = "submit" /\ q.state = "catalog_pending"
                /\ r = [q EXCEPT !.notified = TRUE] /\ th[t].pc = "notify"
             \/ /\ th'[t].then = "play" /\ q.state = "catalog_pending"
                /\ r = [q EXCEPT !.observed = TRUE] /\ th[t].pc = "found"
             \/ /\ th'[t].then = "collect" /\ q.state = "catalog_pending"
                /\ r = [q EXCEPT !.state = "delivered", !.previous = No] /\ th[t].pc = "deliver"
    BY <1>3 DEF Writes
  <2>4. th'[t].snap[op] = r /\ \A o \in Ops \ {op} : th'[t].snap[o] = book[o]
    BY <2>1, <2>3
  <2> HIDE DEF q, op
  <2>5. \/ /\ th'[t].then = "verified" /\ r.previous = q.previous
           /\ q.state = "custody_reserved" /\ r.state = "candidate_verified"
        \/ /\ th'[t].then = "intended" /\ r.previous = visible
           /\ q.state = "candidate_verified" /\ r.state = "generation_intent"
           /\ th[t].pc = "intend"
        \/ /\ th'[t].then = "committed" /\ r.previous = q.previous
           /\ q.state = "generation_intent" /\ r.state = "catalog_pending"
           /\ th[t].pc = "seal"
        \/ /\ r.previous = q.previous
           /\ q.state = "catalog_pending" /\ r.state = "catalog_pending"
           /\ \/ th[t].pc = "notify" /\ th'[t].then = "submit"
              \/ th[t].pc = "found" /\ th'[t].then = "play"
        \/ /\ th'[t].then = "collect" /\ r.previous = No
           /\ q.state = "catalog_pending" /\ r.state = "delivered"
           /\ th[t].pc = "deliver"
    BY ZenonT(40), <2>2, <2>3
  <2> QED BY <1>3, <2>0, <2>4, <2>5 DEF q, op
<1> QED BY <1>2, <1>3

-----------------------------------------------------------------------------
(* Who has written what, and where the holder of the gate is.              *)

CommittedIn(b) == {op \in Ops : b[op].state \in {"catalog_pending", "delivered"}}
FollowIn(b) == \A op \in CommittedIn(b) : visible = op => route.payload = op

\* The saved publications lie between those of the tick's acceptance and the holder's.
Ordered ==
  /\ FollowIn(book)
  /\ \A t \in Threads : Between(t) =>
       /\ th[t].then = "accepted" => CommittedIn(th[t].snap) \subseteq CommittedIn(book)
       /\ th[t].then # "accepted" =>
            CommittedIn(book) \subseteq CommittedIn(th[t].snap) /\ FollowIn(th[t].snap)

\* The stage a thread is in: where it will be once it has persisted.
Doing(t) == IF th[t].pc = "persist" THEN th[t].then ELSE th[t].pc
Publishing == {"publish", "payload", "sidecar", "point"}
Exposed == {"seal", "committed", "notify", "submit", "observe", "found", "play", "deliver",
            "collect"}

\* From the pointer on, each stage keeps what the ones before it have established.
StageOf(t) ==
  LET op == th[t].op IN
  /\ Doing(t) \in Exposed \union {"expose"} => visible = op
  /\ Doing(t) \in Exposed => route.payload = op
  /\ Doing(t) \in {"found", "play", "deliver", "collect"} => Seen(op)
  /\ th[t].pc \in Publishing => op \notin CommittedIn(book)
Stages == \A t \in Threads : StageOf(t)

LEMMA DoingIs ==
  ASSUME Typed, NEW t \in Threads
  PROVE  /\ th[t].op \in Ops \union {No}
         /\ th[t].pc \notin {"idle", "next"} => th[t].op \in Ops
         /\ Between(t) => th[t].snap \in Books /\ th[t].then # "none" /\ th[t].op \in Ops
         /\ ~Between(t) => th[t].then = "none" /\ Doing(t) = th[t].pc
         /\ Doing(t) \in Exposed \union {"expose"} => Holds(t, th[t]) /\ th[t].op \in Ops
         /\ th[t].pc \in Publishing => Holds(t, th[t]) /\ th[t].op \in Ops
<1>1. th[t] \in Thread /\ Fits(t, th[t])
  BY DEF Typed, ThreadsTyped
<1>2. th[t].op \in Ops \union {No}
  BY <1>1 DEF Thread
<1> QED BY <1>1, <1>2 DEF Fits, Doing, Exposed, Publishing, Holds, Between

\* A step that persists nothing keeps the public file at the pointer.
LEMMA FollowKept ==
  ASSUME Typed, Gated, Ordered, Stages, NEW t \in Threads, Step(t) \/ Fails(t), ~Persist(t)
  PROVE  FollowIn(book)'
<1>1. UNCHANGED book
  BY StepGoes
<1>2. SUFFICES ASSUME NEW op \in CommittedIn(book), visible' = op PROVE route'.payload = op
  BY <1>1 DEF FollowIn, CommittedIn
<1>3. visible' = visible
  <2>1. SUFFICES ASSUME visible' # visible PROVE FALSE
    OBVIOUS
  <2>2. th[t].pc = "point" /\ visible' = th[t].op
    BY <2>1, FilesGo
  <2> QED BY <1>2, <2>2 DEF Stages, StageOf, Publishing
<1>4. CASE route' = route
  BY <1>2, <1>3, <1>4 DEF Ordered, FollowIn
<1>5. CASE route' # route
  <2>1. \/ th[t].pc = "expose" /\ th'[t].pc = "seal"
        \/ th[t].pc = "ensure" /\ th'[t].pc = "notify"
    BY <1>5, FilesGo
  <2>2. CASE th[t].pc = "expose" /\ th'[t].pc = "seal"
    <3>1. route'.payload = th[t].op /\ visible = th[t].op
      BY <2>2, FilesGo DEF Stages, StageOf, Doing
    <3> QED BY <1>2, <1>3, <3>1
  <2>3. CASE th[t].pc = "ensure" /\ th'[t].pc = "notify"
    <3>1. route'.payload = th[t].op /\ visible = th[t].op
      BY <2>3, FilesGo
    <3> QED BY <1>2, <1>3, <3>1
  <2> QED BY <2>1, <2>2, <2>3
<1> QED BY <1>4, <1>5

\* A snap that is taken now is no older than the publications it will replace.
LEMMA SnapOrdered ==
  ASSUME Typed, Ordered, Stages, NEW t \in Threads, th[t].pc # "persist",
         Takes(t) \/ (Busy(t) /\ Writes(t))
  PROVE  LET s == th'[t].snap IN
         /\ th'[t].then = "accepted" => CommittedIn(s) \subseteq CommittedIn(book)
         /\ th'[t].then # "accepted" => CommittedIn(book) \subseteq CommittedIn(s) /\ FollowIn(s)
<1> DEFINE op == th'[t].op
           q == book[op]
           s == th'[t].snap
           r == s[op]
<1>1. op \in Ops /\ s \in Books /\ (\A o \in Ops \ {op} : s[o] = book[o])
  BY SnapIs
<1>2. \/ r.state = q.state
      \/ /\ q.state \in {"none", "custody_reserved"}
         /\ r.state \in {"custody_reserved", "candidate_verified"}
      \/ /\ ~Takes(t) /\ q.state = "candidate_verified" /\ r.state = "generation_intent"
      \/ /\ ~Takes(t) /\ q.state = "generation_intent" /\ r.state = "catalog_pending"
         /\ th[t].pc = "seal" /\ op = th[t].op
      \/ ~Takes(t) /\ q.state = "catalog_pending" /\ r.state = "delivered"
  BY SnapIs
<1>3. th'[t].then = "accepted" => Takes(t)
  BY DEF Writes
<1> HIDE DEF op, s
<1>5. th'[t].then = "accepted" => CommittedIn(s) \subseteq CommittedIn(book)
  BY <1>1, <1>2, <1>3 DEF CommittedIn
<1>6. CommittedIn(book) \subseteq CommittedIn(s)
  BY <1>1, <1>2 DEF CommittedIn
<1>7. FollowIn(s)
  <2> SUFFICES ASSUME NEW o \in CommittedIn(s), visible = o PROVE route.payload = o
    BY DEF FollowIn
  <2>1. CASE o \in CommittedIn(book)
    BY <2>1 DEF Ordered, FollowIn
  <2>2. CASE o \notin CommittedIn(book)
    <3>1. th[t].pc = "seal" /\ o = th[t].op
      BY <1>1, <1>2, <2>2 DEF CommittedIn
    <3> QED BY <3>1 DEF Stages, StageOf, Doing, Exposed
  <2> QED BY <2>1, <2>2
<1> QED BY <1>5, <1>6, <1>7 DEF s

LEMMA StepOrdered ==
  ASSUME Typed, Gated, Ordered, Stages, NEW t \in Threads, Step(t) \/ Fails(t)
  PROVE  Ordered'
<1>0. Turns(t) /\ Typed'
  BY StepTurns, StepTyped
<1>1. \A u \in Threads \ {t} : th'[u] = th[u]
  BY <1>0 DEF Turns
<1>2. CASE Persist(t)
  <2>1. /\ book' = th[t].snap /\ Between(t) /\ th'[t].then = "none"
        /\ UNCHANGED <<visible, route>>
    BY <1>2, PersistGoes DEF files, Between
  <2>2. ~Between(t)'
    BY <1>0, <2>1, DoingIs DEF Turns, Fits, Between
  <2>3. FollowIn(book)'
    <3>1. FollowIn(th[t].snap)
      BY <2>1 DEF Ordered, FollowIn
    <3> QED BY <2>1, <3>1 DEF Ordered, FollowIn, CommittedIn
  <2>4. ASSUME NEW u \in Threads, Between(u)'
        PROVE  /\ th'[u].then = "accepted" => CommittedIn(th[u].snap)' \subseteq CommittedIn(book)'
               /\ th'[u].then # "accepted" =>
                    CommittedIn(book)' \subseteq CommittedIn(th[u].snap)' /\ FollowIn(th[u].snap)'
    <3>1. u # t /\ th'[u] = th[u] /\ Between(u)
      BY <1>1, <2>2, <2>4 DEF Between
    <3>2. \/ th[t].then = "accepted" /\ th[u].then # "accepted"
          \/ th[t].then # "accepted" /\ th[u].then = "accepted"
      <4>1. Fits(t, th[t]) /\ Fits(u, th[u])
        BY DEF Typed, ThreadsTyped
      <4>2. CASE th[t].then = "accepted"
        BY <3>1, <4>1, <4>2 DEF Fits
      <4>3. CASE th[t].then # "accepted"
        <5>1. Holds(t, th[t])
          BY <2>1, <4>3 DEF Holds, Between
        <5> QED BY <3>1, <4>3, <5>1, Alone
      <4> QED BY <4>2, <4>3
    <3>3. /\ CommittedIn(th[u].snap)' = CommittedIn(th[u].snap)
          /\ CommittedIn(book)' = CommittedIn(th[t].snap)
          /\ FollowIn(th[u].snap)' = FollowIn(th[u].snap)
      BY <2>1, <3>1 DEF CommittedIn, FollowIn
    <3> QED BY <2>1, <3>1, <3>2, <3>3 DEF Ordered
  <2> QED BY <2>3, <2>4 DEF Ordered
<1>3. CASE ~Persist(t)
  <2>1. UNCHANGED book /\ FollowIn(book)'
    BY <1>3, StepGoes, FollowKept
  <2>2. ASSUME NEW u \in Threads, u # t, Between(u)'
        PROVE  /\ th'[u].then = "accepted" => CommittedIn(th[u].snap)' \subseteq CommittedIn(book)'
               /\ th'[u].then # "accepted" =>
                    CommittedIn(book)' \subseteq CommittedIn(th[u].snap)' /\ FollowIn(th[u].snap)'
    <3>1. th'[u] = th[u] /\ Between(u)
      BY <1>1, <2>2 DEF Between
    <3>2. /\ CommittedIn(th[u].snap)' = CommittedIn(th[u].snap)
          /\ CommittedIn(book)' = CommittedIn(book)
      BY <2>1, <3>1 DEF CommittedIn
    <3>3. ASSUME th[u].then # "accepted" PROVE UNCHANGED <<visible, route>>
      <4>1. Fits(t, th[t]) /\ ~Holds(t, th[t])
        BY <2>2, <3>1, <3>3, Alone DEF Typed, ThreadsTyped
      <4>2. th[t].pc \notin {"point", "expose", "ensure"}
        BY <4>1 DEF Fits, Holds
      <4> QED BY <4>2, FilesGo
    <3> QED BY <3>1, <3>2, <3>3 DEF Ordered, FollowIn
  <2>3. ASSUME Between(t)'
        PROVE  /\ th'[t].then = "accepted" => CommittedIn(th[t].snap)' \subseteq CommittedIn(book)'
               /\ th'[t].then # "accepted" =>
                    CommittedIn(book)' \subseteq CommittedIn(th[t].snap)' /\ FollowIn(th[t].snap)'
    <3>1. th'[t].pc = "persist" /\ th'[t].then # "none"
      BY <1>0, <2>3, DoingIs DEF Between, Turns, Fits
    <3>2. Takes(t) \/ (Busy(t) /\ Writes(t))
      BY <1>3, <3>1, StepGoes DEF Rests, Starts, Continues
    <3>3. th[t].pc # "persist"
      BY <1>3, <3>1, StepGoes DEF Rests, Takes
    <3>4. UNCHANGED <<visible, route>>
      BY <3>1, FilesGo
    <3>5. /\ CommittedIn(th[t].snap)' = CommittedIn(th'[t].snap)
          /\ CommittedIn(book)' = CommittedIn(book)
          /\ FollowIn(th[t].snap)' = FollowIn(th'[t].snap)
      BY <2>1, <3>4 DEF CommittedIn, FollowIn
    <3> QED BY <3>2, <3>3, <3>5, SnapOrdered
  <2> QED BY <2>1, <2>2, <2>3 DEF Ordered
<1> QED BY <1>2, <1>3

LEMMA StepStages ==
  ASSUME Typed, Gated, Ordered, Stages, NEW t \in Threads, Step(t) \/ Fails(t)
  PROVE  Stages'
<1>0. Turns(t) /\ Typed'
  BY StepTurns, StepTyped
<1>1. catalog'.seen = catalog.seen /\ \A op : Seen(op)' <=> Seen(op)
  BY FilesGo DEF Seen
<1>2. ASSUME NEW u \in Threads, u # t PROVE StageOf(u)'
  <2>1. th'[u] = th[u] /\ Doing(u)' = Doing(u) /\ StageOf(u)
    BY <1>0, <1>2 DEF Turns, Doing, Stages
  <2>2. CASE Holds(u, th[u])
    <3>1. /\ ~Holds(t, th[t]) /\ (Between(t) => th[t].then = "accepted")
          /\ ~Between(t) => th[t].pc \in {"idle", "next", "enter", "receipt"}
      BY <1>2, <2>2, Alone
    <3>2. UNCHANGED <<visible, route>>
      BY <3>1, FilesGo DEF Between
    <3>3. CommittedIn(book') \subseteq CommittedIn(book)
      <4>1. CASE Persist(t)
        BY <3>1, <4>1, PersistGoes DEF Ordered, Persist
      <4>2. CASE ~Persist(t)
        BY <4>2, StepGoes
      <4> QED BY <4>1, <4>2
    <3>4. CommittedIn(book)' = CommittedIn(book')
      BY DEF CommittedIn
    <3> QED BY <1>1, <2>1, <3>2, <3>3, <3>4 DEF StageOf
  <2>3. CASE ~Holds(u, th[u])
    <3>1. Doing(u) \notin Exposed \union {"expose"} /\ th[u].pc \notin Publishing
      BY <2>3, DoingIs
    <3> QED BY <2>1, <3>1 DEF StageOf, Exposed
  <2> QED BY <2>2, <2>3
<1>3. StageOf(t)'
  <2> DEFINE op == th[t].op
  <2>0. StageOf(t) /\ Doing(t)' = IF th'[t].pc = "persist" THEN th'[t].then ELSE th'[t].pc
    BY DEF Stages, Doing
  <2>1. CASE Persist(t)
    <3>1. th[t].pc = "persist" /\ th'[t].then = "none" /\ UNCHANGED <<visible, route>>
      BY <2>1, PersistGoes DEF files
    <3>2. th'[t].pc # "persist"
      BY <1>0, <3>1 DEF Turns, Fits
    <3>3. CASE th'[t].pc \in {"enter", "idle", "next", "verify", "commit", "ensure", "receipt"}
      BY <2>0, <3>2, <3>3 DEF StageOf, Exposed, Publishing
    <3>4. CASE th'[t].pc = "publish" /\ th'[t].op = op /\ book'[op].state = "generation_intent"
      BY <2>0, <3>2, <3>4 DEF StageOf, Exposed, Publishing, CommittedIn
    <3>5. CASE th[t].then \in {"submit", "play", "collect"} /\ th'[t].pc = th[t].then
               /\ th'[t].op = op
      <4>1. Doing(t)' = Doing(t) /\ th'[t].pc \notin Publishing
        BY <2>0, <3>1, <3>2, <3>5 DEF Doing, Publishing
      <4> QED BY <1>1, <2>0, <3>1, <3>5, <4>1 DEF StageOf
    <3> QED BY <2>1, <3>3, <3>4, <3>5, PersistGoes
  <2>2. CASE ~Persist(t) /\ Rests(t)
    <3>1. th'[t].pc \in {"idle", "next", "look", "receipt"}
      BY <2>2 DEF Rests
    <3> QED BY <2>0, <3>1 DEF StageOf, Exposed, Publishing
  <2>3. CASE ~Persist(t) /\ Takes(t)
    <3>1. th'[t].pc = "persist" /\ th'[t].then \in {"accepted", "adopted"}
      BY <2>3 DEF Takes
    <3> QED BY <2>0, <3>1 DEF StageOf, Exposed, Publishing
  <2>4. CASE ~Persist(t) /\ Busy(t) /\ th[t].then = "none" /\ th[t].pc # "persist" /\ Starts(t)
    <3>1. UNCHANGED book /\ th'[t].op = op
      BY <2>4, StepGoes DEF Starts
    <3>2. CASE th'[t].pc \in {"verify", "commit", "ensure"}
      BY <2>0, <3>2 DEF StageOf, Exposed, Publishing
    <3>3. CASE th'[t].pc = "publish" /\ InState(op, "generation_intent")
      BY <2>0, <3>1, <3>3 DEF StageOf, Exposed, Publishing, CommittedIn, InState
    <3> QED BY <2>4, <3>2, <3>3 DEF Starts
  <2>5. CASE ~Persist(t) /\ Busy(t) /\ th[t].then = "none" /\ th[t].pc # "persist" /\ Continues(t)
    <3>1. UNCHANGED book /\ th'[t].op = op
      BY <2>5, StepGoes DEF Continues
    <3>2. CommittedIn(book)' = CommittedIn(book)
      BY <3>1 DEF CommittedIn
    <3>a. CASE th'[t].pc = "intend"
      BY <2>0, <3>a DEF StageOf, Exposed, Publishing
    <3>3. CASE th'[t].pc \in Publishing
      <4>1. th[t].pc \in Publishing
        BY <2>5, <3>3 DEF Continues, Publishing
      <4> QED BY <2>0, <3>1, <3>2, <3>3, <4>1 DEF StageOf, Exposed, Publishing
    <3>4. CASE th'[t].pc = "expose"
      <4>1. visible' = op
        <5>1. CASE th[t].pc = "point"
          BY <3>4, <5>1, FilesGo
        <5>2. CASE th[t].pc = "publish" /\ visible = op
          BY <5>2, FilesGo
        <5> QED BY <2>5, <3>4, <5>1, <5>2 DEF Continues
      <4> QED BY <2>0, <3>1, <3>4, <4>1 DEF StageOf, Exposed, Publishing
    <3>5. CASE th'[t].pc = "seal"
      <4>1. th[t].pc = "expose"
        BY <2>5, <3>5 DEF Continues
      <4>2. visible' = op /\ route'.payload = op
        BY <2>0, <3>5, <4>1, FilesGo DEF StageOf, Doing, Exposed
      <4> QED BY <2>0, <3>1, <3>5, <4>2 DEF StageOf, Exposed, Publishing
    <3>6. CASE th'[t].pc = "notify"
      <4>1. th[t].pc = "ensure"
        BY <2>5, <3>6 DEF Continues
      <4>2. visible' = op /\ route'.payload = op
        BY <3>6, <4>1, FilesGo
      <4> QED BY <2>0, <3>1, <3>6, <4>2 DEF StageOf, Exposed, Publishing
    <3>7. CASE th'[t].pc \in {"found", "submit", "observe", "deliver"}
      <4>1. /\ th[t].pc \in {"notify", "submit", "observe", "play"}
            /\ th'[t].pc = "found" => Seen(op)
            /\ th'[t].pc = "deliver" => th[t].pc = "play"
        BY <2>5, <3>7 DEF Continues
      <4>2. visible' = visible /\ route' = route
        BY <4>1, FilesGo
      <4>3. visible = op /\ route.payload = op /\ (th[t].pc = "play" => Seen(op))
        BY <2>0, <4>1 DEF StageOf, Doing, Exposed
      <4>4. Doing(t)' = th'[t].pc
        BY <2>0, <3>7
      <4>5. th'[t].pc \in {"found", "deliver"} => Seen(th[t].op)'
        BY <1>1, <3>1, <4>1, <4>3 DEF Seen
      <4>6. th'[t].pc \notin Publishing
        BY <3>7 DEF Publishing
      <4> QED BY <3>1, <3>7, <4>2, <4>3, <4>4, <4>5, <4>6 DEF StageOf, Exposed
    <3> QED BY <2>5, <3>a, <3>3, <3>4, <3>5, <3>6, <3>7 DEF Continues, Publishing
  <2>6. CASE ~Persist(t) /\ Busy(t) /\ th[t].then = "none" /\ th[t].pc # "persist" /\ Writes(t)
    <3>1. th'[t].op = op /\ th'[t].pc = "persist"
      BY <2>6 DEF Writes
    <3>2. \/ th'[t].then \in {"verified", "intended"}
          \/ th'[t].then = "committed" /\ th[t].pc = "seal"
          \/ th'[t].then = "submit" /\ th[t].pc = "notify"
          \/ th'[t].then = "play" /\ th[t].pc = "found"
          \/ th'[t].then = "collect" /\ th[t].pc = "deliver"
      BY <2>6 DEF Writes
    <3>3. visible' = visible /\ route' = route
      BY <3>1, FilesGo
    <3>4. Doing(t)' = th'[t].then /\ th'[t].pc \notin Publishing
      BY <2>0, <3>1 DEF Publishing
    <3>5. CASE th'[t].then \in {"verified", "intended"}
      BY <3>4, <3>5 DEF StageOf, Exposed
    <3>6. CASE th[t].pc \in {"seal", "notify", "found", "deliver"}
      <4>1. /\ visible = op /\ route.payload = op
            /\ th[t].pc \in {"found", "deliver"} => Seen(op)
        BY <2>0, <3>6 DEF StageOf, Doing, Exposed
      <4>2. Seen(th[t].op)' = Seen(op)
        BY <1>1, <3>1 DEF Seen
      <4> QED BY <3>1, <3>2, <3>3, <3>4, <4>1, <4>2 DEF StageOf
    <3> QED BY <3>2, <3>5, <3>6
  <2> QED BY <2>1, <2>2, <2>3, <2>4, <2>5, <2>6, StepGoes
<1> QED BY <1>2, <1>3 DEF Stages

LEMMA NextOrdered ==
  Typed /\ Gated /\ Ordered /\ Stages /\ [PublisherNext]_vars => (Ordered /\ Stages)'
<1> SUFFICES ASSUME Typed, Gated, Ordered, Stages, [PublisherNext]_vars
             PROVE  (Ordered /\ Stages)'
  OBVIOUS
<1>1. ASSUME NEW t \in Threads, Step(t) \/ Fails(t) PROVE (Ordered /\ Stages)'
  BY <1>1, StepOrdered, StepStages
<1>2. CASE UNCHANGED <<book, visible, route, th>>
           /\ (catalog'.seen = catalog.seen \/ catalog'.seen = route.payload)
  <2>1. Ordered'
    BY <1>2 DEF Ordered, FollowIn, CommittedIn, Between
  <2>2. ASSUME NEW t \in Threads PROVE StageOf(t)'
    <3>1. StageOf(t) /\ Doing(t)' = Doing(t)
      BY <1>2 DEF Stages, Doing
    <3>2. CommittedIn(book)' = CommittedIn(book)
      BY <1>2 DEF CommittedIn
    <3>3. ASSUME Doing(t) \in {"found", "play", "deliver", "collect"} PROVE Seen(th[t].op)'
      <4>1. Seen(th[t].op) /\ route.payload = th[t].op /\ th[t].op # No
        BY <3>1, <3>3, DoingIs, Named DEF StageOf, Exposed
      <4> QED BY <1>2, <4>1 DEF Seen
    <3> QED BY <1>2, <3>1, <3>2, <3>3 DEF StageOf
  <2> QED BY <2>1, <2>2 DEF Stages
<1>3. CASE World \/ UNCHANGED vars
  <2>1. UNCHANGED <<book, visible, route, th>>
    BY <1>3 DEF World, JellyfinScans, TransferEnds, ArrImports, files, vars
  <2>2. catalog'.seen = catalog.seen \/ catalog'.seen = route.payload
    BY <1>3 DEF World, JellyfinScans, TransferEnds, ArrImports, outside, vars
  <2> QED BY <1>2, <2>1, <2>2
<1>4. CASE Crash
  <2>1. /\ UNCHANGED <<book, visible, route>>
        /\ \A t \in Threads : th'[t].pc = "idle" /\ th'[t].then = "none"
    BY <1>4, IdleIs DEF Crash, files
  <2>2. Ordered'
    BY <2>1 DEF Ordered, FollowIn, CommittedIn, Between
  <2>3. Stages'
    BY <2>1 DEF Stages, StageOf, Doing, Exposed, Publishing
  <2> QED BY <2>2, <2>3
<1> QED BY <1>1, <1>3, <1>4 DEF PublisherNext

LEMMA OrderedHolds == Spec => [](Ordered /\ Stages)
<1>1. PublisherInit => Ordered /\ Stages
  <2> SUFFICES ASSUME PublisherInit PROVE Ordered /\ Stages
    OBVIOUS
  <2>1. /\ \A op \in Ops : book[op].state = "none"
        /\ \A t \in Threads : th[t].pc = "idle" /\ th[t].then = "none"
    BY IdleIs DEF PublisherInit, Absent
  <2> QED BY <2>1 DEF Ordered, Stages, StageOf, FollowIn, CommittedIn, Between, Doing,
                      Exposed, Publishing
<1>2. Typed /\ Gated /\ Ordered /\ Stages /\ [PublisherNext]_vars => (Ordered /\ Stages)'
  BY NextOrdered
<1> QED BY <1>1, <1>2, TypedHolds, PTL DEF Spec

\* The public file of the asset is the one of the generation behind the pointer from the
\* moment that its publication is committed, although pointer, file and record change one
\* by one and another thread's persist may bring older records back.
THEOREM RouteIsFollowed == Spec => []RouteFollowsPointer
<1>1. Typed /\ Ordered => RouteFollowsPointer
  <2> SUFFICES ASSUME Typed, Ordered, NEW op \in Ops, Committed(op), visible = op
               PROVE  Plays(op)
    BY DEF RouteFollowsPointer
  <2>1. route.payload = op
    BY DEF Ordered, FollowIn, CommittedIn, Committed
  <2> QED BY <2>1, Named DEF Plays
<1> QED BY <1>1, TypedHolds, OrderedHolds, PTL

-----------------------------------------------------------------------------
(* While no persists overlap, what a thread read is what its persist replaces. *)

SingleIn(b) ==
  \A op, other \in Ops :
    {b[op].state, b[other].state} \subseteq {"generation_intent", "catalog_pending"}
      => op = other
KeptIn(r) == r.previous # No => HasPayload(r.previous)
Alike(t) ==
  LET op == th[t].op
      s == th[t].snap IN
  /\ \A u \in Threads : Between(u) => u = t
  /\ \A o \in Ops \ {op} : s[o] = book[o]
  /\ KeptIn(s[op]) /\ SingleIn(s)
  /\ th[t].then = "accepted" =>
       \/ s[op] = book[op]
       \/ book[op].state = "none" /\ s[op].state = "custody_reserved" /\ s[op].previous = No
  /\ s[op].state = "delivered" => book[op].state = "delivered" \/ th[t].then = "collect"
\* What the check before an intent has seen is still so when the clone is taken.
Clear(t) == th[t].pc = "intend" => \A other \in Ops \ {th[t].op} : ~Unresolved(other)
Calm ==
  overlaps = 0 =>
    /\ \A op \in Ops : KeptIn(book[op])
    /\ SingleIn(book)
    /\ \A t \in Threads : Between(t) => Alike(t)
    /\ \A t \in Threads : Clear(t)

\* Garbage collection keeps every predecessor.
LEMMA PreviousKept ==
  ASSUME Typed, NEW t \in Threads, Step(t) \/ Fails(t), NEW op \in Ops, KeptIn(book[op]),
         NEW g \in Ops, g = book[op].previous
  PROVE  HasPayload(g)'
<1>1. book[op] \in Records /\ Valid(op, book[op]) /\ g # No
  BY BookIs, Named DEF Typed
<1>2. HasPayload(g) /\ g \in Retained
  BY <1>1 DEF KeptIn, Valid, Retained
<1> QED BY <1>2, PayloadKept

LEMMA StepCalm ==
  ASSUME Typed, Gated, Shown, Calm, NEW t \in Threads, Step(t) \/ Fails(t)
  PROVE  Calm'
<1>0. Turns(t) /\ \A u \in Threads \ {t} : th'[u] = th[u]
  BY StepTurns DEF Turns
<1> SUFFICES ASSUME overlaps' = 0
             PROVE  /\ (\A op \in Ops : KeptIn(book[op])') /\ SingleIn(book)'
                    /\ \A u \in Threads : (Between(u)' => Alike(u)') /\ Clear(u)'
  BY DEF Calm
<1>1. CASE Persist(t)
  <2>1. /\ book' = th[t].snap /\ Between(t) /\ th'[t].then = "none" /\ UNCHANGED <<gen, overlaps>>
        /\ th[t].op \in Ops
    BY <1>1, PersistGoes DEF files, bounds, Between
  <2>2. Alike(t) /\ \A op \in Ops : KeptIn(book[op])
    BY <2>1 DEF Calm
  <2>3. ASSUME NEW op \in Ops PROVE KeptIn(book[op])'
    <3>1. KeptIn(th[t].snap[op])
      BY <2>2 DEF Alike
    <3> QED BY <2>1, <3>1 DEF KeptIn, HasPayload
  <2>4. ASSUME NEW u \in Threads PROVE ~Between(u)'
    BY <1>0, <2>1, <2>2 DEF Turns, Fits, Between, Alike
  <2>5. SingleIn(book)'
    BY <2>1, <2>2 DEF Alike, SingleIn
  <2>6. ASSUME NEW u \in Threads PROVE Clear(u)'
    <3>1. th'[t].pc # "intend"
      BY <1>1, PersistGoes
    <3>2. SUFFICES ASSUME u # t, th[u].pc = "intend", th'[u] = th[u],
                          NEW other \in Ops \ {th[u].op}
                   PROVE  ~Unresolved(other)'
      BY <1>0, <3>1 DEF Clear
    <3>3. ~Unresolved(other)
      BY <2>1, <3>2 DEF Calm, Clear
    <3>4. th[t].then = "accepted"
      <4>1. Holds(u, th[u])
        BY <3>2 DEF Holds, Typed, ThreadsTyped, Fits
      <4> QED BY <2>1, <3>2, <4>1, Alone
    <3>5. \/ th[t].snap[other] = book[other]
          \/ th[t].snap[other].state = "custody_reserved"
      BY <2>2, <3>4 DEF Alike
    <3> QED BY <2>1, <3>3, <3>5 DEF Unresolved
  <2> QED BY <2>3, <2>4, <2>5, <2>6
<1>2. CASE ~Persist(t)
  <2>0. UNCHANGED book
    BY <1>2, StepGoes
  <2>1. Between(t)' => /\ th[t].pc # "persist" /\ (Takes(t) \/ (Busy(t) /\ Writes(t)))
                       /\ th'[t].pc = "persist" /\ th[t].pc # "collect"
                       /\ overlaps' = IF Overlaps(t) THEN overlaps + 1 ELSE overlaps
    <3>1. Between(t)' => th'[t].pc = "persist" /\ th'[t].then # "none"
      BY <1>0 DEF Between, Turns, Fits
    <3> QED BY <1>2, <3>1, StepGoes DEF Rests, Starts, Continues, Takes, Writes
  <2>2. overlaps = 0 /\ (Between(t)' => ~Overlaps(t))
    <3>1. overlaps' = overlaps \/ overlaps' = overlaps + 1
      BY <1>2, StepGoes DEF Rests, Starts, Continues, Takes, Writes
    <3> QED BY <2>1, <3>1 DEF Typed
  <2>3. /\ (\A op \in Ops : KeptIn(book[op])) /\ SingleIn(book)
        /\ \A u \in Threads : (Between(u) => Alike(u)) /\ Clear(u)
    BY <2>2 DEF Calm
  <2>4. ASSUME NEW op \in Ops PROVE KeptIn(book[op])'
    <3>1. book[op].previous \in Ops \union {No}
      BY BookIs DEF Typed
    <3>2. CASE book[op].previous = No
      BY <2>0, <3>2 DEF KeptIn
    <3>3. CASE book[op].previous \in Ops
      <4>1. PICK g \in Ops : g = book[op].previous
        BY <3>3
      <4>2. HasPayload(g)'
        BY <2>3, <4>1, PreviousKept
      <4> QED BY <2>0, <4>1, <4>2 DEF KeptIn
    <3> QED BY <3>1, <3>2, <3>3
  <2>5. ASSUME NEW u \in Threads, u # t, Between(u)' PROVE Alike(u)'
    <3>1. th'[u] = th[u] /\ Between(u) /\ Alike(u)
      BY <1>0, <2>3, <2>5 DEF Between
    <3>2. PICK op \in Ops : op = th[u].op
      BY <3>1, DoingIs
    <3>3. \A w \in Threads : Between(w)' => w = u
      <4>1. ~Between(t)'
        BY <2>2, <2>5, <3>1 DEF Overlaps
      <4> QED BY <1>0, <3>1, <4>1 DEF Alike, Between
    <3>4. KeptIn(th[u].snap[op])'
      <4>1. SUFFICES ASSUME th[u].snap[op].previous # No
                     PROVE  HasPayload(th[u].snap[op].previous)'
        BY <3>1 DEF KeptIn
      <4>2. th[u].snap[op].previous \in Ops \union {No}
        BY <3>1, DoingIs, BookIs
      <4>3. PICK g \in Ops : g = th[u].snap[op].previous
        BY <4>1, <4>2
      <4>4. HasPayload(g)'
        <5>1. CASE GarbageCollect(t)
          <6>1. Holds(t, th[t])
            BY <5>1 DEF GarbageCollect, At, Holds, Typed, ThreadsTyped, Fits
          <6>2. th[u].then = "accepted"
            BY <2>5, <3>1, <6>1, Alone
          <6>3. g = book[op].previous
            BY <3>1, <3>2, <4>1, <4>3, <6>2 DEF Alike
          <6> QED BY <2>3, <6>3, PreviousKept
        <5>2. CASE ~GarbageCollect(t)
          <6>1. HasPayload(g)
            BY <3>1, <3>2, <4>1, <4>3 DEF Alike, KeptIn
          <6> QED BY <5>2, <6>1, PayloadKept
        <5> QED BY <5>1, <5>2
      <4> QED BY <3>1, <4>3, <4>4
    <3>5. SingleIn(th[u].snap)'
      BY <3>1 DEF Alike, SingleIn
    <3> QED BY <2>0, <3>1, <3>2, <3>3, <3>4, <3>5 DEF Alike
  <2>6. ASSUME Between(t)' PROVE Alike(t)'
    <3>1. \A w \in Threads : Between(w)' => w = t
      BY <1>0, <2>2, <2>6 DEF Overlaps, Between
    <3>2. th'[t].op \in Ops /\ th'[t].snap \in Books
      BY <2>1, <2>6, SnapIs
    <3>3. PICK op \in Ops : op = th'[t].op
      BY <3>2
    <3>4. PICK s \in Books : s = th'[t].snap
      BY <3>2
    <3>5. /\ \A o \in Ops \ {op} : s[o] = book[o]
          /\ s[op].previous \in {No, book[op].previous, visible}
          /\ th'[t].then = "accepted" =>
               \/ s[op] = book[op]
               \/ /\ book[op].state = "none" /\ s[op].state = "custody_reserved"
                  /\ s[op].previous = No
          /\ s[op].state = "delivered" => book[op].state = "delivered" \/ th'[t].then = "collect"
      <4>1. th'[t].then = "accepted" => Takes(t) /\ s = Hold(op)
        BY <2>1, <2>6, <3>3, <3>4 DEF Takes, Writes
      <4>2. s = Hold(op) => \/ s[op] = book[op]
                            \/ /\ book[op].state = "none" /\ s[op].state = "custody_reserved"
                               /\ s[op].previous = No
        BY <3>3, HoldIs DEF Hold, Absent, Typed, Books
      <4> QED BY <2>1, <2>6, <3>3, <3>4, <4>1, <4>2, SnapIs
    <3>6. ASSUME s[op].previous # No PROVE HasPayload(s[op].previous)'
      <4>1. PICK g \in Ops : g = s[op].previous
        BY <3>6, BookIs
      <4>2. HasPayload(g)
        BY <2>3, <3>5, <3>6, <4>1 DEF KeptIn, Shown
      <4>3. ~GarbageCollect(t)
        BY <2>1, <2>6 DEF GarbageCollect, At
      <4> QED BY <4>1, <4>2, <4>3, PayloadKept
    <3>7. KeptIn(s[op])'
      BY <3>6 DEF KeptIn
    <3>8. SingleIn(s)
      <4>1. \/ s[op].state = book[op].state
            \/ s[op].state \in {"custody_reserved", "candidate_verified", "delivered"}
            \/ book[op].state = "generation_intent" /\ s[op].state = "catalog_pending"
            \/ th[t].pc = "intend" /\ op = th[t].op
        BY <2>1, <2>6, <3>3, <3>4, SnapIs
      <4>2. CASE ~(th[t].pc = "intend" /\ op = th[t].op)
        BY <2>3, <3>3, <3>5, <4>1, <4>2 DEF SingleIn
      <4>3. CASE th[t].pc = "intend" /\ op = th[t].op
        BY <2>3, <3>3, <3>5, <4>3 DEF Clear, Unresolved, SingleIn
      <4> QED BY <4>2, <4>3
    <3>9. SingleIn(th[t].snap)'
      BY <3>4, <3>8 DEF SingleIn
    <3> QED BY <2>0, <3>1, <3>3, <3>4, <3>5, <3>7, <3>9 DEF Alike
  <2>7. SingleIn(book)'
    BY <2>0, <2>3 DEF SingleIn
  <2>8. ASSUME NEW u \in Threads PROVE Clear(u)'
    <3>1. \A other \in Ops : Unresolved(other)' <=> Unresolved(other)
      BY <2>0 DEF Unresolved
    <3>2. CASE u # t
      BY <1>0, <2>3, <3>1, <3>2 DEF Clear
    <3>3. CASE u = t /\ th'[t].pc = "intend"
      <4>1. th'[t].op = th[t].op /\ \A other \in Ops \ {th[t].op} : ~Unresolved(other)
        BY <1>2, <3>3, StepGoes DEF Rests, Takes, Starts, Continues, Writes
      <4> QED BY <3>1, <3>3, <4>1 DEF Clear
    <3> QED BY <3>2, <3>3 DEF Clear
  <2> QED BY <2>4, <2>5, <2>6, <2>7, <2>8
<1> QED BY <1>1, <1>2

LEMMA CalmHolds == Spec => [](Shown /\ Calm)
<1>1. PublisherInit => Calm
  <2> SUFFICES ASSUME PublisherInit PROVE Calm
    OBVIOUS
  <2>1. /\ \A op \in Ops : book[op].previous = No /\ book[op].state = "none"
        /\ \A t \in Threads : th[t].pc = "idle"
    BY IdleIs DEF PublisherInit, Absent
  <2> QED BY <2>1 DEF Calm, KeptIn, SingleIn, Clear, Between
<1>2. Typed /\ Gated /\ Shown /\ Calm /\ [PublisherNext]_vars => Calm'
  <2> SUFFICES ASSUME Typed, Gated, Shown, Calm, [PublisherNext]_vars PROVE Calm'
    OBVIOUS
  <2>1. ASSUME NEW t \in Threads, Step(t) \/ Fails(t) PROVE Calm'
    BY <2>1, StepCalm
  <2>2. CASE World \/ UNCHANGED vars
    <3>1. UNCHANGED <<book, gen, th, overlaps>>
      BY <2>2 DEF World, JellyfinScans, TransferEnds, ArrImports, files, bounds, vars
    <3> QED BY <3>1 DEF Calm, KeptIn, SingleIn, Clear, Unresolved, Alike, Between, HasPayload
  <2>3. CASE Crash
    <3>1. UNCHANGED <<book, gen, overlaps>> /\ \A t \in Threads : th'[t].pc = "idle"
      BY <2>3, IdleIs DEF Crash, files
    <3> QED BY <3>1 DEF Calm, KeptIn, SingleIn, Clear, Between, HasPayload
  <2> QED BY <2>1, <2>2, <2>3 DEF PublisherNext
<1> QED BY <1>1, <1>2, TypedHolds, ShownHolds, PTL DEF Spec

\* While no persists overlap, never are two upgrades of the asset under way, although the
\* check for another one and the clone that the intent is written to are apart, and the
\* generation that an upgrade replaces is still complete on disk, so that the upgrade can
\* be gone back on until it is delivered.
THEOREM UpgradesAreReversible == Spec => []UpgradeReversible
<1>1. Calm => UpgradeReversible
  BY DEF Calm, SingleIn, KeptIn, UpgradeReversible, PredecessorKept, OneUnderWay
<1> QED BY <1>1, CalmHolds, PTL

\* Delivered means that the asset plays that generation: the record says so only when the
\* generation is behind the pointer, the public file and the catalog item, although each
\* of these was looked at some steps before and other threads ran in between.
THEOREM DeliveriesAreServed == Spec => DeliveredIsServed
<1> DEFINE Delivers ==
      \A op \in Ops :
        book'[op].state = "delivered" /\ ~InState(op, "delivered") /\ overlaps = 0 =>
          visible = op /\ Plays(op) /\ Seen(op)
<1>1. Typed /\ Stages /\ Calm /\ [PublisherNext]_vars => [Delivers]_vars
  <2> SUFFICES ASSUME Typed, Stages, Calm, PublisherNext, NEW op \in Ops,
                      book'[op].state = "delivered", ~InState(op, "delivered"), overlaps = 0
               PROVE  visible = op /\ Plays(op) /\ Seen(op)
    OBVIOUS
  <2>1. book' # book
    BY DEF InState
  <2>2. ~World /\ ~Crash
    BY <2>1 DEF World, JellyfinScans, TransferEnds, ArrImports, Crash
  <2>3. PICK t \in Threads : Step(t) \/ Fails(t)
    BY <2>2 DEF PublisherNext
  <2>4. Persist(t)
    BY <2>1, <2>3, StepGoes
  <2>5. book' = th[t].snap /\ Between(t) /\ th[t].pc = "persist" /\ Alike(t)
    BY <2>4, PersistGoes DEF Calm, Between
  <2>6. op = th[t].op /\ th[t].then = "collect"
    BY <2>5 DEF Alike, InState
  <2>7. visible = op /\ route.payload = op /\ Seen(op)
    BY <2>5, <2>6 DEF Stages, StageOf, Doing, Exposed
  <2> QED BY <2>7, Named DEF Plays
<1> QED BY <1>1, TypedHolds, OrderedHolds, CalmHolds, PTL DEF Spec, DeliveredIsServed
-----------------------------------------------------------------------------
(* The receipt is given outside the gate: what allowed it has to last.     *)

ServedIn(b, op) ==
  \/ b[op].state = "delivered"
  \/ b[op].state = "catalog_pending" /\ visible = op

\* While the tick has a receipt to give and no persists overlap, no other thread can take
\* its reason away.
Lasting(op, u) ==
  /\ Between(u) => ServedIn(th[u].snap, op)
  /\ th[u].pc \in Publishing => InState(th[u].op, "generation_intent")
Receipts ==
  "tick" \in Threads /\ th["tick"].pc = "receipt" /\ overlaps = 0 =>
    /\ ServedIn(book, th["tick"].op)
    /\ \A u \in Threads : Lasting(th["tick"].op, u)

LEMMA TickReceipts ==
  ASSUME Typed, Gated, Stages, "tick" \in Threads, Step("tick") \/ Fails("tick")
  PROVE  Receipts'
<1> DEFINE t == "tick"
<1>0. Turns(t)
  BY StepTurns
<1> SUFFICES ASSUME th'[t].pc = "receipt"
             PROVE  ServedIn(book, th[t].op)' /\ \A u \in Threads : Lasting(th[t].op, u)'
  BY DEF Receipts
<1>1. visible' = visible
  BY FilesGo
<1>2. /\ Holds(t, th[t])
      /\ th'[t].op = th[t].op
      /\ \/ book'[th[t].op].state = "delivered"
         \/ book'[th[t].op].state = "catalog_pending" /\ visible = th[t].op
  <2>1. CASE Persist(t)
    <3>1. th[t].then # "accepted" /\ th[t].pc = "persist"
      BY <2>1, PersistGoes
    <3> QED BY <2>1, <3>1, PersistGoes DEF Holds
  <2>2. CASE ~Persist(t)
    <3>1. Rests(t) /\ UNCHANGED book
      BY <2>2, StepGoes DEF Takes, Starts, Continues, Writes
    <3>2. th[t].pc \in {"submit", "observe", "play", "collect"} => visible = th[t].op
      BY DEF Stages, StageOf, Doing, Exposed
    <3> QED BY <3>1, <3>2 DEF Rests, Busy, InState
  <2> QED BY <2>1, <2>2
<1>3. ASSUME NEW u \in Threads PROVE Lasting(th[t].op, u)'
  <2>1. CASE u = t
    BY <1>0, <2>1 DEF Lasting, Between, Publishing
  <2>2. CASE u # t
    <3>1. th'[u] = th[u] /\ ~Between(u) /\ th[u].pc \in {"idle", "next", "enter", "receipt"}
      BY <1>0, <1>2, <2>2, Alone DEF Turns
    <3> QED BY <3>1 DEF Lasting, Between, Publishing
  <2> QED BY <2>1, <2>2
<1>4. ServedIn(book, th[t].op)'
  BY <1>1, <1>2 DEF ServedIn
<1> QED BY <1>3, <1>4

LEMMA OtherReceipts ==
  ASSUME Typed, Gated, Ordered, Stages, Calm, Receipts, NEW t \in Threads, t # "tick",
         Step(t) \/ Fails(t)
  PROVE  Receipts'
<1>0. Turns(t) /\ \A u \in Threads \ {t} : th'[u] = th[u]
  BY StepTurns DEF Turns
<1> SUFFICES ASSUME "tick" \in Threads, th["tick"].pc = "receipt", overlaps = 0
             PROVE  ServedIn(book, th["tick"].op)' /\ \A u \in Threads : Lasting(th["tick"].op, u)'
  <2>1. overlaps' \in {overlaps, overlaps + 1}
    BY PersistGoes, StepGoes DEF Rests, Takes, Starts, Continues, Writes, bounds
  <2>2. overlaps' = 0 => overlaps = 0
    BY <2>1 DEF Typed
  <2> QED BY <1>0, <2>2 DEF Receipts
<1>a. th["tick"].op \in Ops
  BY DoingIs
<1>b. PICK op \in Ops : op = th["tick"].op
  BY <1>a
<1>1. /\ ServedIn(book, op) /\ (\A u \in Threads : Lasting(op, u)) /\ th'["tick"] = th["tick"]
      /\ th'["tick"].op = op
  BY <1>0, <1>b DEF Receipts
<1>2. CASE Persist(t)
  <2>1. book' = th[t].snap /\ Between(t) /\ th[t].pc = "persist" /\ th[t].then # "accepted"
        /\ visible' = visible
    BY <1>2, PersistGoes DEF files, Between, Typed, ThreadsTyped, Fits
  <2>2. ServedIn(book', op) /\ visible' = visible
    BY <1>1, <2>1 DEF Lasting
  <2>3. ASSUME NEW u \in Threads, u # t PROVE ~Between(u)' /\ th'[u].pc \notin Publishing
    <3>1. Holds(t, th[t])
      BY <2>1 DEF Holds
    <3>2. /\ Between(u) => u = "tick"
          /\ ~Between(u) => th[u].pc \in {"idle", "next", "enter", "receipt"}
      BY <2>3, <3>1, Alone
    <3> QED BY <1>0, <2>3, <3>2 DEF Between, Publishing
  <2>4. ~Between(t)' /\ (th'[t].pc \in Publishing => InState(th[t].op, "generation_intent")')
    <3>1. th'[t].then = "none"
      BY <1>2, PersistGoes
    <3>2. ~Between(t)'
      BY <1>0, <3>1 DEF Turns, Fits, Between
    <3>3. th'[t].pc \in Publishing =>
            th'[t].op = th[t].op /\ book'[th[t].op].state = "generation_intent"
      BY <1>2, <3>2, PersistGoes DEF Publishing
    <3> QED BY <3>2, <3>3 DEF InState
  <2>5. \A u \in Threads : ~Between(u)' /\ (th[u].pc \in Publishing => InState(th[u].op, "generation_intent"))'
    BY <2>3, <2>4
  <2>6. ServedIn(book, th["tick"].op)'
    BY <1>1, <2>2 DEF ServedIn
  <2> QED BY <2>5, <2>6 DEF Lasting
<1>3. CASE ~Persist(t)
  <2>0. UNCHANGED book
    BY <1>3, StepGoes
  <2>1. ServedIn(book, op)'
    <3>1. CASE visible' = visible
      BY <1>1, <2>0, <3>1 DEF ServedIn
    <3>2. CASE visible' # visible
      <4>1. th[t].pc = "point"
        BY <3>2, FilesGo
      <4>2. book[th[t].op].state = "generation_intent" /\ th[t].op \in Ops
        BY <1>1, <4>1, DoingIs DEF Lasting, InState, Publishing
      <4>3. book[op].state # "catalog_pending"
        <5>1. SUFFICES ASSUME book[op].state = "catalog_pending" PROVE FALSE
          OBVIOUS
        <5>2. {book[op].state, book[th[t].op].state}
                 \subseteq {"generation_intent", "catalog_pending"}
          BY <4>2, <5>1
        <5>3. op = th[t].op
          BY <1>1, <4>2, <5>2 DEF Calm, SingleIn
        <5> QED BY <4>2, <5>1, <5>3
      <4> QED BY <1>1, <2>0, <4>3 DEF ServedIn
    <3> QED BY <3>1, <3>2
  <2>2. ASSUME NEW u \in Threads, u # t PROVE Lasting(op, u)'
    <3>1. th'[u] = th[u] /\ Lasting(op, u)
      BY <1>0, <1>1, <2>2
    <3>2. InState(th[u].op, "generation_intent")' <=> InState(th[u].op, "generation_intent")
      BY <2>0, <3>1 DEF InState
    <3>3. ASSUME Between(u) PROVE visible' = visible
      <4>1. u # "tick" /\ th[u].then # "accepted"
        BY <3>3 DEF Between, Typed, ThreadsTyped, Fits
      <4>2. ~Holds(t, th[t])
        BY <2>2, <3>3, <4>1, Alone
      <4>3. th[t].pc # "point"
        BY <4>2, DoingIs DEF Publishing
      <4> QED BY <4>3, FilesGo
    <3> QED BY <1>1, <3>1, <3>2, <3>3 DEF Lasting, Between, ServedIn
  <2>3. th'[t].pc \in Publishing => InState(th[t].op, "generation_intent")'
    <3>1. SUFFICES ASSUME th'[t].pc \in Publishing
                   PROVE  th'[t].op = th[t].op /\ InState(th[t].op, "generation_intent")
      BY <2>0 DEF InState
    <3>2. Starts(t) \/ Continues(t)
      BY <1>3, <3>1, StepGoes DEF Rests, Takes, Writes, Publishing
    <3>3. CASE Starts(t)
      BY <3>1, <3>3 DEF Starts, Publishing
    <3>4. CASE Continues(t)
      <4>1. th'[t].op = th[t].op /\ th[t].pc \in Publishing
        BY <3>1, <3>4 DEF Continues, Publishing
      <4> QED BY <1>1, <4>1 DEF Lasting
    <3> QED BY <3>2, <3>3, <3>4
  <2>4. ASSUME Between(t)' PROVE ServedIn(th[t].snap, op)'
    <3>1. th'[t].pc = "persist" /\ th'[t].then # "none"
      BY <1>0, <2>4 DEF Between, Turns, Fits
    <3>2. th[t].pc # "persist" /\ (Takes(t) \/ (Busy(t) /\ Writes(t)))
      BY <1>3, <3>1, StepGoes DEF Rests, Starts, Continues, Takes
    <3>3. visible' = visible
      BY <3>1, FilesGo
    <3>4. CASE op # th'[t].op
      BY <1>1, <3>2, <3>3, <3>4, SnapIs DEF ServedIn
    <3>5. CASE op = th'[t].op
      <4>1. th'[t].snap[op].state = book[op].state \/ th'[t].snap[op].state = "delivered"
        BY <1>1, <3>2, <3>5, SnapIs DEF ServedIn
      <4> QED BY <1>1, <3>3, <4>1 DEF ServedIn
    <3> QED BY <3>4, <3>5
  <2>5. Lasting(th["tick"].op, t)'
    BY <1>1, <2>3, <2>4 DEF Lasting
  <2>6. ServedIn(book, th["tick"].op)'
    BY <1>1, <2>1 DEF ServedIn
  <2>7. ASSUME NEW u \in Threads, u # t PROVE Lasting(th["tick"].op, u)'
    BY <1>1, <2>2, <2>7
  <2> QED BY <2>5, <2>6, <2>7
<1> QED BY <1>2, <1>3

LEMMA NextReceipts ==
  Typed /\ Gated /\ Ordered /\ Stages /\ Calm /\ Receipts /\ [PublisherNext]_vars => Receipts'
<1> SUFFICES ASSUME Typed, Gated, Ordered, Stages, Calm, Receipts, [PublisherNext]_vars
             PROVE  Receipts'
  OBVIOUS
<1>1. ASSUME NEW t \in Threads, Step(t) \/ Fails(t) PROVE Receipts'
  BY <1>1, TickReceipts, OtherReceipts
<1>2. CASE World \/ UNCHANGED vars
  <2>1. UNCHANGED <<book, visible, th, overlaps>>
    BY <1>2 DEF World, JellyfinScans, TransferEnds, ArrImports, files, bounds, vars
  <2> QED BY <2>1 DEF Receipts, Lasting, ServedIn, Between, InState
<1>3. CASE Crash
  BY <1>3, IdleIs DEF Crash, Receipts
<1> QED BY <1>1, <1>2, <1>3 DEF PublisherNext

LEMMA ReceiptsHold == Spec => []Receipts
<1>1. PublisherInit => Receipts
  BY IdleIs DEF PublisherInit, Receipts
<1>2. Typed /\ Gated /\ Ordered /\ Stages /\ Calm /\ Receipts /\ [PublisherNext]_vars => Receipts'
  BY NextReceipts
<1> QED BY <1>1, <1>2, TypedHolds, OrderedHolds, CalmHolds, PTL DEF Spec

\* While no persists overlap, the receipt that lets the Fence drop the torrent is given only
\* while its copy is the generation that is shown, or was delivered before a later one:
\* process() answered before the tick left the gate, and no thread that takes the gate in
\* between can undo it.
THEOREM ReceiptsAreServed == Spec => ReleasedIsServed
<1> DEFINE Served ==
      \A op \in Terminals :
        fence'[op] = "released" /\ fence[op] # "released" /\ overlaps = 0 =>
          visible = op \/ InState(op, "delivered")
<1>1. Typed /\ Receipts /\ [PublisherNext]_vars => [Served]_vars
  <2> SUFFICES ASSUME Typed, Receipts, PublisherNext, NEW op \in Terminals,
                      fence'[op] = "released", fence[op] # "released", overlaps = 0
               PROVE  visible = op \/ InState(op, "delivered")
    OBVIOUS
  <2>1. CASE "tick" \in Threads /\ Receipt
    <3>1. th["tick"].pc = "receipt" /\ op = th["tick"].op
      BY <2>1 DEF Receipt, At, Typed
    <3> QED BY <2>1, <3>1 DEF Receipts, ServedIn, InState
  <2>2. ASSUME NEW t \in Threads, Verify(t) PROVE FALSE
    BY <2>2 DEF Verify, Freezes, Typed
  <2>3. ASSUME NEW d \in Terminals, TransferEnds(d) PROVE FALSE
    BY <2>3 DEF TransferEnds, Typed
  <2>4. fence' # fence
    OBVIOUS
  <2>5. ~Crash /\ ~JellyfinScans /\ ~ArrImports
    BY <2>4 DEF Crash, JellyfinScans, ArrImports, outside
  <2>6. PICK t \in Threads : Step(t) \/ Fails(t)
    BY <2>3, <2>5 DEF PublisherNext, World
  <2>7. Verify(t) \/ (t = "tick" /\ Receipt)
    BY <2>4, <2>6
       DEF Step, Work, Fails, Persist, Look, Commit, RecordIntent, Publish, Normalize, Point,
           ExposeRoutes,            MarkCommitted, EnsureIdentity, Notify, Submit, Observe, MarkObserved, DirectPlay,
           MarkDelivered, GarbageCollect, TickStep, RetryStep, ImportStep, Tick, AcceptTerminal,
           Enter, StartRetry, RetryNext, StartImports, Bootstrap, SaveCursor, outside
  <2> QED BY <2>1, <2>2, <2>6, <2>7
<1> QED BY <1>1, TypedHolds, ReceiptsHold, PTL DEF Spec, ReleasedIsServed
=============================================================================
