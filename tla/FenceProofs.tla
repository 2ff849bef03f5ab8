---------------------------- MODULE FenceProofs ----------------------------
(***************************************************************************)
(* What holds of the Fence for every set of operations, torrents, sizes    *)
(* and threads, any policy, and any number of faults and stops: its ledger *)
(* takes only steps of FenceLedger, and qBittorrent is told nothing that   *)
(* the ledger does not know.                                               *)
(***************************************************************************)
EXTENDS Fence, FenceLedgerProofs

Places ==
  {"idle", "loop", "bind", "tag", "claim", "request", "freeze", "ready", "acquire", "effect",
   "readback", "settle", "reopen", "poll", "batch", "adopted", "publish", "collect", "dispatch",
   "receipt", "attempt", "post", "handed"}
Serving ==
  {"bind", "tag", "claim", "request", "freeze", "ready", "acquire", "effect", "readback",
   "settle", "receipt"}
InSection == {"acquire", "effect", "readback"}
Jobs == {"none"} \cup Tagging \cup Starting \cup Stopping
Bases ==
  {"none", "boot", "reopen", "tick", "poll", "dispatch", "retry", "request", "quiesce", "adopt"}
States == ReservationState \cup {"none"}

\* What a loop has seen of the states s.  It may be out of date, but a resume
\* that was seen intended stays intended.
Seen(s) ==
  {seen \in [Ops -> States] : \A op \in Ops : seen[op] \in Resumed => s[op] \in Resumed}

Thread(s) ==
  [at : Places, op : Ops \cup {"none"}, job : Jobs, base : Bases, own : Ops \cup {"none"},
   todo : Seq(Seen(s))]

\* What a place says of the thread that is there.
Placed(r) ==
  /\ r.at \in {"loop", "collect"} => r.todo # <<>>
  /\ r.at \in Serving => r.op \in Ops
  /\ r.at \in {"attempt", "post", "handed"} \/ r.base = "request" => r.own \in Requested
  /\ r.base = "poll" => r.own \in External
  /\ r.at = "request" => r.job \in {"start", "resume"}
  /\ r.at = "ready" => r.job \in {"resume", "activate"}
  /\ r.at \in InSection => r.job # "none"
  /\ r.at = "settle" => r.job \in Starting \cup Stopping
  /\ r.base = "dispatch" => r.todo = <<>> /\ r.at \notin {"loop", "bind"}

\* What a thread knows of the states s, whatever the others do meanwhile.
Knows(r, s) ==
  /\ r.at \in InSection /\ r.job \in Tagging => s[r.op] \in Tagged
  /\ r.at \in InSection \cup {"ready", "settle"} /\ r.job \in Starting => s[r.op] \in Resumed
  /\ r.at = "handed" => s[r.own] \in Tagged
  /\ r.base \in {"request", "poll"} =>
       /\ r.todo = <<>> /\ r.at \in Serving => r.op = r.own
       /\ r.todo # <<>> => s[r.own] \in Tagged

Sound(r, s) == r \in Thread(s) /\ Placed(r) /\ Knows(r, s)

ThreadsSound == th \in [Threads -> Thread(state)] /\ \A t \in Threads : Sound(th[t], state)

\* What was requested is a size.
RequestedFit == \A op \in Ops : state[op] # "none" => requested[op] \in Sizes

\* Arr grabs a torrent once.
Grabbed == {h \in LaterHashes : \E i \in DOMAIN history : history[i] = h}

HistoryFits ==
  /\ history \in Seq(LaterHashes)
  /\ Len(history) = Cardinality(Grabbed)

Types ==
  /\ torrent \in [Hashes -> {"absent", "stopped", "running", "seeding", "complete"}]
  /\ tags \in [Hashes -> SUBSET Ops]
  /\ gone \subseteq Hashes
  /\ attempted \in [Requested -> {"no", "recorded", "posted"}] /\ handed \subseteq Requested
  /\ lease \in Threads \cup {"free"}
  /\ terminals \subseteq Ops /\ accepted \subseteq Ops
  /\ batch \in [next : Nat \ {0}, last : 0 .. Len(history)]
  /\ faults \in 0 .. MaxFaults /\ crashes \in 0 .. MaxCrashes
  /\ \A op \in Ops : candidate[op] = "none"

Basic ==
  /\ SnapshotInv /\ RequestedFit
  /\ Types /\ HistoryFits
  /\ ThreadsSound

-----------------------------------------------------------------------------
(* Sequences and sets of states.                                           *)

LEMMA SeqFacts ==
  ASSUME NEW S, NEW q \in Seq(S), NEW x \in S
  PROVE  /\ <<x>> \o q \in Seq(S) /\ <<x>> \o q # <<>>
         /\ q # <<>> => Head(q) \in S /\ Tail(q) \in Seq(S)
OBVIOUS

LEMMA SeqWider == ASSUME NEW S, NEW T, S \subseteq T, NEW q \in Seq(S) PROVE q \in Seq(T)
OBVIOUS

LEMMA StateSets ==
  /\ Resumed \subseteq Tagged /\ Tagged \subseteq ReservationState
  /\ ~ "none" \in Tagged /\ ~ "pre_admitted" \in Tagged /\ ~ "grab_bound" \in Tagged
BY DEF Resumed, Tagged, ReservationState

LEMMA JobSets ==
  /\ Jobs = {"none", "tag", "claim", "start", "resume", "activate", "pause", "freeze"}
  /\ Tagging = {"tag", "claim"} /\ Starting = {"start", "resume", "activate"}
  /\ Stopping = {"pause", "freeze"}
BY DEF Jobs, Tagging, Starting, Stopping

\* Tags and resumes are never taken back, between s and z.
Onward(s, z) ==
  \A op \in Ops : (s[op] \in Tagged => z[op] \in Tagged) /\ (s[op] \in Resumed => z[op] \in Resumed)

LEMMA SeenKept ==
  ASSUME NEW s, NEW z, Onward(s, z), NEW q \in Seq(Seen(s)) PROVE q \in Seq(Seen(z))
<1>1. Seen(s) \subseteq Seen(z)
  BY DEF Seen, Onward
<1> QED BY <1>1, SeqWider

LEMMA ThreadKept == ASSUME NEW s, NEW z, Onward(s, z), NEW r \in Thread(s) PROVE r \in Thread(z)
BY SeenKept DEF Thread

LEMMA SoundKept == ASSUME NEW s, NEW z, Onward(s, z), NEW r, Sound(r, s) PROVE Sound(r, z)
<1>1. r \in Thread(z)
  BY ThreadKept DEF Sound
<1>2. /\ r.at \in Serving => r.op \in Ops
      /\ r.at \in {"attempt", "post", "handed"} \/ r.base = "request" => r.own \in Requested
      /\ r.base = "poll" => r.own \in External
  BY DEF Sound, Placed
<1>3. Knows(r, z)
  <2>1. Knows(r, s)
    BY DEF Sound
  <2> QED BY <1>2, <2>1 DEF Knows, Onward, InSection, Serving, Ops
<1> QED BY <1>1, <1>3 DEF Sound

-----------------------------------------------------------------------------
(* Where a step leaves a thread.                                           *)

LEMMA IdleIs ==
  Idle = [at |-> "idle", op |-> "none", job |-> "none", base |-> "none", own |-> "none", todo |-> <<>>]
BY DEF Idle

\* r with its place, operation, job and records left changed.
Altered(r, at, op, job, todo) == [r EXCEPT !.at = at, !.op = op, !.job = job, !.todo = todo]

\* A new task: an idle thread with a place, an operation and a base.
LEMMA TaskIs ==
  ASSUME NEW s, NEW at \in Places, NEW op \in Ops \cup {"none"}, NEW own \in Ops \cup {"none"},
         NEW base \in Bases, NEW job \in Jobs, NEW todo \in Seq(Seen(s))
  PROVE  LET a == [at |-> at, op |-> op, job |-> job, base |-> base, own |-> own, todo |-> todo] IN
         /\ a \in Thread(s)
         /\ a.at = at /\ a.op = op /\ a.job = job /\ a.base = base /\ a.own = own /\ a.todo = todo
BY DEF Thread

Outside == {"idle", "reopen", "poll", "batch", "adopted", "publish", "dispatch"}

LEMMA OutsideIs ==
  ASSUME NEW s, NEW at \in Outside
  PROVE  LET a == [Idle EXCEPT !.at = at] IN Sound(a, s) /\ a.at = at /\ a.base = "none"
<1> DEFINE a == [Idle EXCEPT !.at = at]
<1>1. a = [at |-> at, op |-> "none", job |-> "none", base |-> "none", own |-> "none", todo |-> <<>>]
  BY IdleIs
<1>2. at \in Places /\ "none" \in Jobs /\ "none" \in Bases /\ <<>> \in Seq(Seen(s))
  BY DEF Outside, Places, Jobs, Bases
<1> HIDE DEF a
<1>3. /\ a \in Thread(s)
      /\ a.at = at /\ a.op = "none" /\ a.job = "none" /\ a.base = "none" /\ a.todo = <<>>
  BY <1>1, <1>2, TaskIs
<1>4. Placed(a) /\ Knows(a, s)
  BY <1>3 DEF Placed, Knows, Outside, Serving, InSection
<1> QED BY <1>3, <1>4 DEF Sound, a

\* What a call has to leave for its caller.
Callable(r, ok, s) ==
  /\ r.base = "dispatch" => r.todo = <<>> /\ r.op \in Ops
  /\ r.base = "request" => r.own \in Requested
  /\ r.base = "poll" => r.own \in External
  /\ r.base \in {"request", "poll"} /\ (ok \/ r.todo # <<>>) => s[r.own] \in Tagged

LEMMA ContinueIs ==
  ASSUME NEW s, NEW r \in Thread(s), NEW ok \in BOOLEAN, Callable(r, ok, s)
  PROVE  LET c == Continue(r, ok) IN
         /\ Sound(c, s) /\ c.at \in Outside \cup {"loop", "receipt", "handed"}
         /\ c.at = "adopted" => ok /\ r.base = "poll"
         /\ c.base = "poll" => r.base = "poll" /\ c.own = r.own
         /\ c.at # "batch"
<1> DEFINE c == Continue(r, ok)
<1>1. r.todo \in Seq(Seen(s)) /\ r.op \in Ops \cup {"none"} /\ r.base \in Bases
      /\ r.job \in Jobs /\ r.own \in Ops \cup {"none"}
  BY DEF Thread
<1>0. /\ "none" \in Jobs /\ "none" \in Bases /\ "none" \in Ops \cup {"none"}
      /\ "loop" \in Places /\ "receipt" \in Places /\ "handed" \in Places /\ <<>> \in Seq(Seen(s))
  BY DEF Jobs, Bases, Places
<1>2. CASE r.todo # <<>>
  <2>1. c = Altered(r, "loop", "none", "none", r.todo)
    BY <1>1, <1>2 DEF Continue, Altered, Thread
  <2> HIDE DEF c
  <2>2. /\ c \in Thread(s) /\ c.at = "loop" /\ c.op = "none" /\ c.job = "none"
        /\ c.todo = r.todo /\ c.base = r.base /\ c.own = r.own
    BY <1>0, <1>1, <2>1 DEF Altered, Thread
  <2>3. Placed(c)
    BY <1>2, <2>2 DEF Placed, Callable, Serving, InSection
  <2>4. Knows(c, s)
    BY <1>2, <2>2 DEF Knows, Callable, Serving, InSection
  <2> QED BY <2>2, <2>3, <2>4 DEF Sound, c
<1>3. CASE r.todo = <<>> /\ r.base = "dispatch" /\ ok
  <2>1. c = Altered(r, "receipt", r.op, "none", r.todo)
    BY <1>1, <1>3 DEF Continue, Altered, Thread
  <2> HIDE DEF c
  <2>2. /\ c \in Thread(s) /\ c.at = "receipt" /\ c.op = r.op /\ c.job = "none"
        /\ c.todo = r.todo /\ c.base = r.base /\ c.own = r.own
    BY <1>0, <1>1, <2>1 DEF Altered, Thread
  <2>3. Placed(c)
    BY <1>3, <2>2 DEF Placed, Callable, Serving, InSection
  <2>4. Knows(c, s)
    BY <1>3, <2>2 DEF Knows, Callable, Serving, InSection
  <2> QED BY <1>3, <2>2, <2>3, <2>4 DEF Sound, c
<1>4. CASE r.todo = <<>> /\ r.base = "request" /\ ok
  <2>1. c = [at |-> "handed", op |-> "none", job |-> "none", base |-> "none", own |-> r.own,
             todo |-> <<>>]
    <3>1. c = [Idle EXCEPT !.at = "handed", !.own = r.own]
      BY <1>4 DEF Continue
    <3> QED BY <3>1, IdleIs
  <2> HIDE DEF c
  <2>3. /\ c \in Thread(s) /\ c.at = "handed" /\ c.op = "none" /\ c.job = "none"
        /\ c.todo = <<>> /\ c.base = "none" /\ c.own = r.own
    BY <1>0, <1>1, <2>1 DEF Thread
  <2>4. Placed(c)
    BY <1>4, <2>3 DEF Placed, Callable, Serving, InSection
  <2>5. Knows(c, s)
    BY <1>4, <2>3 DEF Knows, Callable, Serving, InSection
  <2> QED BY <1>4, <2>3, <2>4, <2>5 DEF Sound, c
<1>5. CASE r.todo = <<>> /\ ~(r.base \in {"dispatch", "request"} /\ ok)
  <2>1. \E at \in {"idle", "reopen", "poll", "adopted", "publish", "dispatch"} :
          /\ c = [Idle EXCEPT !.at = at]
          /\ at = "adopted" => ok /\ r.base = "poll"
    <3>1. Idle = [Idle EXCEPT !.at = "idle"]
      BY IdleIs
    <3> QED BY <1>5, <3>1 DEF Continue
  <2> HIDE DEF c
  <2> QED BY <2>1, OutsideIs DEF Outside, c
<1> QED BY <1>2, <1>3, <1>4, <1>5

\* A thread that has become r, in a step that takes nothing back.
LEMMA BecomeIs ==
  ASSUME ThreadsSound, NEW t \in Threads, Onward(state, state'), NEW r, Sound(r, state'),
         th' = [th EXCEPT ![t] = r]
  PROVE  ThreadsSound' /\ th'[t] = r /\ \A u \in Threads \ {t} : th'[u] = th[u]
<1>1. th'[t] = r /\ \A u \in Threads \ {t} : th'[u] = th[u]
  BY DEF ThreadsSound
<1>2. \A u \in Threads : Sound(th'[u], state')
  BY <1>1, SoundKept DEF ThreadsSound
<1>3. th' \in [Threads -> Thread(state')]
  BY <1>2 DEF ThreadsSound, Sound
<1> QED BY <1>1, <1>2, <1>3 DEF ThreadsSound

-----------------------------------------------------------------------------
(* The ways to leave a place.                                              *)

Others(t) == \A u \in Threads \ {t} : th'[u] = th[u]

\* Thread t is at another place of the same task.
Moved(t, at, op, job) ==
  /\ ThreadsSound' /\ Others(t)
  /\ th'[t].at = at /\ th'[t].op = op /\ th'[t].job = job
  /\ th'[t].base = th[t].base /\ th'[t].own = th[t].own

\* What a place asks of the job and the states.
Admits(at, job, op, s) ==
  /\ at = "request" => job \in {"start", "resume"}
  /\ at = "ready" => job \in {"resume", "activate"}
  /\ at \in InSection => job # "none"
  /\ at = "settle" => job \in Starting \cup Stopping
  /\ at \in InSection /\ job \in Tagging => s[op] \in Tagged
  /\ at \in InSection \cup {"ready", "settle"} /\ job \in Starting => s[op] \in Resumed

LEMMA DoIs ==
  ASSUME ThreadsSound, NEW t \in Threads, Onward(state, state'), th[t].at \in Serving,
         NEW at \in Serving \ {"bind"}, NEW job \in Jobs, Admits(at, job, th[t].op, state'),
         Do(t, at, job)
  PROVE  Moved(t, at, th[t].op, job)
<1> DEFINE r == th[t]
           a == [r EXCEPT !.at = at, !.job = job]
<1>1. r \in Thread(state') /\ Placed(r) /\ Knows(r, state')
  BY SoundKept DEF ThreadsSound, Sound
<1>2. th' = [th EXCEPT ![t] = a]
  BY DEF Do, Become
<1>3. r.at \in Serving
  OBVIOUS
<1> HIDE DEF r
<1>4. /\ a \in Thread(state') /\ a.at = at /\ a.job = job /\ a.op = r.op /\ a.base = r.base
      /\ a.own = r.own /\ a.todo = r.todo
  BY <1>1 DEF Thread, Places, Serving
<1> HIDE DEF a
<1>5. Placed(a)
  BY <1>1, <1>3, <1>4 DEF Placed, Admits, Serving, r
<1>6. Knows(a, state')
  BY <1>1, <1>3, <1>4 DEF Knows, Admits, Serving, InSection, r
<1>7. ThreadsSound' /\ th'[t] = a /\ Others(t)
  BY <1>1, <1>2, <1>4, <1>5, <1>6, BecomeIs DEF Sound, Others
<1> QED BY <1>4, <1>7 DEF Moved, r

LEMMA GoToIs ==
  ASSUME ThreadsSound, NEW t \in Threads, Onward(state, state'), th[t].at \in Serving,
         NEW at \in Serving \ {"bind"}, Admits(at, th[t].job, th[t].op, state'), GoTo(t, at)
  PROVE  Moved(t, at, th[t].op, th[t].job)
<1>1. th[t].job \in Jobs
  BY DEF ThreadsSound, Thread
<1>2. [th[t] EXCEPT !.at = at] = [th[t] EXCEPT !.at = at, !.job = th[t].job]
  BY DEF ThreadsSound, Thread
<1>3. Do(t, at, th[t].job)
  BY <1>2 DEF GoTo, Do, Become
<1> QED BY <1>1, <1>3, DoIs

\* Thread t has left its call.
Returned(t) ==
  /\ ThreadsSound' /\ Others(t)
  /\ th'[t].at \in Outside \cup {"loop", "receipt", "handed"} /\ th'[t].at # "batch"
  /\ th'[t].at = "adopted" => th[t].base = "poll" /\ state'[th[t].own] \in Tagged
  /\ th'[t].base = "poll" => th[t].base = "poll" /\ th'[t].own = th[t].own

LEMMA ReturnIs ==
  ASSUME ThreadsSound, NEW t \in Threads, Onward(state, state'), th[t].at \in Serving,
         NEW ok \in BOOLEAN, ok => state'[th[t].op] \in Tagged, Return(t, ok)
  PROVE  Returned(t)
<1> DEFINE r == th[t]
           c == Continue(r, ok)
<1>1. r \in Thread(state') /\ Placed(r) /\ Knows(r, state')
  BY SoundKept DEF ThreadsSound, Sound
<1>2. th' = [th EXCEPT ![t] = c]
  BY DEF Return, Become
<1>3. r.at \in Serving /\ (ok => state'[r.op] \in Tagged)
  OBVIOUS
<1> HIDE DEF r
<1>4. Callable(r, ok, state')
  BY <1>1, <1>3 DEF Callable, Placed, Knows
<1>5. /\ Sound(c, state') /\ c.at \in Outside \cup {"loop", "receipt", "handed"}
      /\ c.at = "adopted" => ok /\ r.base = "poll"
      /\ c.base = "poll" => r.base = "poll" /\ c.own = r.own
      /\ c.at # "batch"
  BY <1>1, <1>4, ContinueIs
<1> HIDE DEF c
<1>6. ThreadsSound' /\ th'[t] = c /\ Others(t)
  BY <1>2, <1>5, BecomeIs DEF Others
<1> QED BY <1>4, <1>5, <1>6 DEF Returned, Callable, r

LEMMA RaiseIs ==
  ASSUME ThreadsSound, NEW t \in Threads, Onward(state, state'), Raise(t)
  PROVE  Returned(t)
<1>1. PICK at \in {"publish", "idle"} : th' = [th EXCEPT ![t] = [Idle EXCEPT !.at = at]]
  <2>1. Idle = [Idle EXCEPT !.at = "idle"]
    BY IdleIs
  <2> QED BY <2>1 DEF Raise, Become
<1> DEFINE a == [Idle EXCEPT !.at = at]
<1>2. Sound(a, state') /\ a.at = at /\ a.base = "none"
  BY OutsideIs DEF Outside
<1> HIDE DEF a
<1>3. ThreadsSound' /\ th'[t] = a /\ Others(t)
  BY <1>1, <1>2, BecomeIs DEF Others, a
<1> QED BY <1>2, <1>3 DEF Returned, Outside

-----------------------------------------------------------------------------
(* Loops.                                                                  *)

LEMMA SnapshotSeen ==
  ASSUME LedgerTypeOK, NEW states, NEW s, Onward(state, s)
  PROVE  Snapshot(states) \in Seen(s)
<1>1. Snapshot(states) \in [Ops -> States]
  BY DEF Snapshot, LedgerTypeOK, States
<1>2. ASSUME NEW op \in Ops, Snapshot(states)[op] \in Resumed PROVE s[op] \in Resumed
  BY <1>2, StateSets DEF Snapshot, Onward
<1> QED BY <1>1, <1>2 DEF Seen

\* The records a loop has left once it has visited op.
Rest(todo, op) == <<[Head(todo) EXCEPT ![op] = "none"]>> \o Tail(todo)

LEMMA RestIs ==
  ASSUME NEW s, NEW todo \in Seq(Seen(s)), todo # <<>>, NEW op \in Ops
  PROVE  Rest(todo, op) \in Seq(Seen(s)) /\ Rest(todo, op) # <<>>
<1>1. Head(todo) \in Seen(s) /\ Tail(todo) \in Seq(Seen(s))
  BY SeqFacts
<1> DEFINE x == [Head(todo) EXCEPT ![op] = "none"]
<1>2. x \in Seen(s)
  BY <1>1, StateSets DEF Seen, States
<1> HIDE DEF x
<1> QED BY <1>1, <1>2, SeqFacts DEF Rest, x

LEMMA VisitIs ==
  ASSUME ThreadsSound, NEW t \in Threads, Onward(state, state'), th[t].at \in {"loop", "collect"},
         NEW op \in Ops, NEW o \in {op, "none"}, NEW at \in Places, NEW job \in Jobs,
         \/ at \in Serving /\ o = op /\ th[t].at = "loop"
         \/ at = th[t].at,
         Admits(at, job, op, state'),
         Become(t, Altered(th[t], at, o, job, Rest(th[t].todo, op)))
  PROVE  Moved(t, at, o, job)
<1> DEFINE r == th[t]
           rest == Rest(r.todo, op)
           a == Altered(r, at, o, job, rest)
<1>1. r \in Thread(state') /\ Placed(r) /\ Knows(r, state')
  BY SoundKept DEF ThreadsSound, Sound
<1>2. th' = [th EXCEPT ![t] = a]
  BY DEF Become
<1>3. /\ r.at \in {"loop", "collect"}
      /\ (at \in Serving /\ o = op /\ r.at = "loop") \/ at = r.at
  OBVIOUS
<1> HIDE DEF r
<1>4. r.todo \in Seq(Seen(state')) /\ r.todo # <<>>
  BY <1>1, <1>3 DEF Thread, Placed
<1>5. rest \in Seq(Seen(state')) /\ rest # <<>>
  BY <1>4, RestIs
<1> HIDE DEF rest
<1>6. /\ a \in Thread(state') /\ a.at = at /\ a.op = o /\ a.job = job /\ a.todo = rest
      /\ a.base = r.base /\ a.own = r.own
  BY <1>1, <1>5 DEF Thread, Altered
<1> HIDE DEF a
<1>7. Placed(a)
  BY <1>1, <1>3, <1>4, <1>5, <1>6 DEF Placed, Admits, Serving
<1>8. Knows(a, state')
  BY <1>1, <1>3, <1>4, <1>5, <1>6 DEF Knows, Admits, Serving, InSection
<1>9. ThreadsSound' /\ th'[t] = a /\ Others(t)
  BY <1>1, <1>2, <1>6, <1>7, <1>8, BecomeIs DEF Sound, Others
<1> QED BY <1>6, <1>9 DEF Moved, r

LEMMA TakenIs ==
  ASSUME ThreadsSound, NEW t \in Threads, NEW op \in Ops, NEW at, NEW job
  PROVE  /\ [Taken(t, op) EXCEPT !.at = at, !.job = job] =
              Altered(th[t], at, op, job, Rest(th[t].todo, op))
         /\ [Taken(t, op) EXCEPT !.op = "none"] =
              Altered(th[t], th[t].at, "none", th[t].job, Rest(th[t].todo, op))
<1>1. th[t] \in Thread(state)
  BY DEF ThreadsSound
<1>2. Taken(t, op) = [th[t] EXCEPT !.op = op, !.todo = Rest(th[t].todo, op)]
  BY <1>1 DEF Taken, Rest, Thread
<1> DEFINE rest == Rest(th[t].todo, op)
           r == th[t]
<1>3. /\ Taken(t, op) = [r EXCEPT !.op = op, !.todo = rest]
      /\ DOMAIN r = {"at", "op", "job", "base", "own", "todo"}
  BY <1>1, <1>2 DEF Thread
<1> HIDE DEF rest, r
<1>4. /\ [Taken(t, op) EXCEPT !.at = at, !.job = job] = Altered(r, at, op, job, rest)
      /\ [Taken(t, op) EXCEPT !.op = "none"] = Altered(r, r.at, "none", r.job, rest)
  BY ZenonT(40), <1>3 DEF Altered
<1> QED BY <1>4 DEF r, rest

LEMMA EnterIs ==
  ASSUME ThreadsSound, NEW t \in Threads, Onward(state, state'), th[t].at = "loop",
         NEW op \in Ops, NEW at \in Serving, NEW job \in Jobs, Admits(at, job, op, state'),
         Enter(t, op, at, job)
  PROVE  Moved(t, at, op, job)
<1>1. Become(t, Altered(th[t], at, op, job, Rest(th[t].todo, op)))
  BY TakenIs DEF Enter
<1>2. at \in Places
  BY DEF Serving, Places
<1> QED BY <1>1, <1>2, VisitIs

LEMMA PassIs ==
  ASSUME ThreadsSound, NEW t \in Threads, Onward(state, state'),
         th[t].at \in {"loop", "collect"},
         NEW op \in Ops, Become(t, [Taken(t, op) EXCEPT !.op = "none"])
  PROVE  Moved(t, th[t].at, "none", th[t].job)
<1>1. Become(t, Altered(th[t], th[t].at, "none", th[t].job, Rest(th[t].todo, op)))
  BY TakenIs
<1>2. th[t].at \in Places /\ th[t].job \in Jobs
  BY DEF ThreadsSound, Thread
<1>3. Admits(th[t].at, th[t].job, op, state')
  BY DEF Admits, InSection
<1> QED BY <1>1, <1>2, <1>3, VisitIs

\* A loop over the records begins, on its own or within a bind.
LEMMA StartLoopIs ==
  ASSUME ThreadsSound, LedgerTypeOK, NEW t \in Threads, Onward(state, state'),
         NEW base \in {"boot", "reopen", "tick", "quiesce"}, NEW states, StartLoop(t, base, states)
  PROVE  /\ ThreadsSound' /\ Others(t)
         /\ th'[t].at = "loop" /\ th'[t].base = base
<1> DEFINE x == Snapshot(states)
           q == <<x>>
           a == [Idle EXCEPT !.at = "loop", !.base = base, !.todo = q]
<1>1. th' = [th EXCEPT ![t] = a]
  BY DEF StartLoop, Become
<1>3. x \in Seen(state')
  BY SnapshotSeen
<1> HIDE DEF x
<1>4. q \in Seq(Seen(state')) /\ q # <<>>
  BY <1>3
<1> HIDE DEF q

<1>5. "loop" \in Places /\ "none" \in Jobs /\ base \in Bases
  BY DEF Places, Jobs, Bases
<1>6. /\ a \in Thread(state') /\ a.at = "loop" /\ a.op = "none" /\ a.job = "none"
      /\ a.base = base /\ a.todo # <<>>
  BY <1>4, <1>5, IdleIs DEF Thread
<1> HIDE DEF a
<1>7. Placed(a) /\ Knows(a, state')
  BY <1>6 DEF Placed, Knows, Serving, InSection
<1>8. ThreadsSound' /\ th'[t] = a /\ Others(t)
  BY <1>1, <1>6, <1>7, BecomeIs DEF Sound, Others
<1> QED BY <1>6, <1>8

LEMMA NestedIs ==
  ASSUME ThreadsSound, LedgerTypeOK, NEW t \in Threads, Onward(state, state'), th[t].at = "bind",
         state'[th[t].op] \in Tagged, NEW states,
         Become(t, [th[t] EXCEPT !.at = "loop", !.op = "none", !.todo = <<Snapshot(states)>> \o @])
  PROVE  Moved(t, "loop", "none", th[t].job)
<1> DEFINE r == th[t]
           x == Snapshot(states)
           a == [r EXCEPT !.at = "loop", !.op = "none", !.todo = <<x>> \o r.todo]
<1>1. r \in Thread(state') /\ Placed(r) /\ Knows(r, state')
  BY SoundKept DEF ThreadsSound, Sound
<1>2. th' = [th EXCEPT ![t] = a]
  BY DEF Become
<1>3. r.at = "bind" /\ state'[r.op] \in Tagged
  OBVIOUS
<1>4. x \in Seen(state')
  BY SnapshotSeen
<1> HIDE DEF r, x
<1>5. r.todo \in Seq(Seen(state')) /\ r.job \in Jobs
  BY <1>1 DEF Thread
<1>6. <<x>> \o r.todo \in Seq(Seen(state')) /\ <<x>> \o r.todo # <<>>
  BY <1>4, <1>5, SeqFacts
<1>7. /\ a \in Thread(state') /\ a.at = "loop" /\ a.op = "none" /\ a.job = r.job
      /\ a.todo # <<>> /\ a.base = r.base /\ a.own = r.own
  BY <1>1, <1>6 DEF Thread, Places
<1> HIDE DEF a
<1>8. Placed(a)
  BY <1>1, <1>3, <1>7 DEF Placed, Serving, InSection
<1>9. Knows(a, state')
  BY <1>1, <1>3, <1>7 DEF Knows, Serving, InSection
<1>10. ThreadsSound' /\ th'[t] = a /\ Others(t)
  BY <1>2, <1>7, <1>8, <1>9, BecomeIs DEF Sound, Others
<1> QED BY <1>7, <1>10 DEF Moved, r

LEMMA LoopDoneIs ==
  ASSUME ThreadsSound, NEW t \in Threads, Onward(state, state'), LoopDone(t)
  PROVE  Returned(t)
<1> DEFINE r == th[t]
           b == [r EXCEPT !.todo = Tail(r.todo)]
           c == Continue(b, TRUE)
<1>1. r \in Thread(state') /\ Placed(r) /\ Knows(r, state')
  BY SoundKept DEF ThreadsSound, Sound
<1>2. th' = [th EXCEPT ![t] = c] /\ r.at = "loop"
  BY DEF LoopDone, Become
<1> HIDE DEF r
<1>3. r.todo \in Seq(Seen(state')) /\ r.todo # <<>>
  BY <1>1, <1>2 DEF Thread, Placed
<1>4. Tail(r.todo) \in Seq(Seen(state'))
  BY <1>3, SeqFacts
<1>5. b \in Thread(state') /\ b.base = r.base /\ b.own = r.own /\ b.op = r.op
  BY <1>1, <1>4 DEF Thread
<1> HIDE DEF b
<1>6. Callable(b, TRUE, state')
  BY <1>1, <1>2, <1>3, <1>5 DEF Callable, Placed, Knows
<1>7. /\ Sound(c, state') /\ c.at \in Outside \cup {"loop", "receipt", "handed"}
      /\ c.at = "adopted" => r.base = "poll"
      /\ c.base = "poll" => r.base = "poll" /\ c.own = r.own
      /\ c.at # "batch"
  BY <1>5, <1>6, ContinueIs
<1> HIDE DEF c
<1>8. ThreadsSound' /\ th'[t] = c /\ Others(t)
  BY <1>2, <1>7, BecomeIs DEF Others
<1> QED BY <1>5, <1>6, <1>7, <1>8 DEF Returned, Callable, r

-----------------------------------------------------------------------------
(* Steps of the ledger.                                                    *)

\* What no step of the ledger takes back.
LEMMA LedgerOnward ==
  ASSUME SnapshotInv, [LedgerNext]_ledger
  PROVE  /\ Onward(state, state')
         /\ \A op \in Ops : hash[op] # NoHash => hash'[op] = hash[op]
         /\ \A op \in Ops : state[op] # "none" => state'[op] # "none" /\ requested'[op] = requested[op]
<1> DEFINE Kept ==
      /\ Onward(state, state')
      /\ \A op \in Ops : hash[op] # NoHash => hash'[op] = hash[op]
      /\ \A op \in Ops : state[op] # "none" => state'[op] # "none" /\ requested'[op] = requested[op]
<1> USE DEF SnapshotInv, LedgerTypeOK, HashesFit, Onward, Resumed, Tagged, ReservationState
<1>1. CASE UNCHANGED ledger
  BY <1>1 DEF ledger
<1>2. ASSUME NEW op \in Ops, Admission(op) PROVE Kept
  <2>1. ASSUME NEW h, NEW size, NEW to, Reserve(op, h, size, to) PROVE Kept
    BY <2>1 DEF Reserve, Moves
  <2> QED BY <1>2, <2>1 DEF Admission, PreAdmit, AdoptExternal, AdoptPostPnr
<1>3. ASSUME NEW op \in Ops, Acquisition(op) PROVE Kept
  BY <1>3 DEF Acquisition, BindObservedGrab, RequestTag, MarkTagged, RequestResume, MarkActive, Moves
<1>4. ASSUME NEW op \in Ops, Quiescence(op) PROVE Kept
  BY <1>4 DEF Quiescence, RequestPause, MarkPaused, Moves
<1>5. ASSUME NEW op \in Ops, Activation(op) PROVE Kept
  BY <1>5 DEF Activation, RequestHistoricalActivation, MarkHistoricalManaged, Moves
<1>6. ASSUME NEW op \in Ops, Custody(op) PROVE Kept
  BY <1>6 DEF Custody, Complete, RequestFreeze, MarkFrozen, AcceptCustody, Moves
<1>7. ASSUME NEW op \in Ops, Health(op) PROVE Kept
  BY <1>7 DEF Health, EnsureVideoCandidate, InvalidateVideoCandidate,
              ReleaseInvalidatedVideoCandidate, Moves
<1>8. CASE BeginQuiescence \/ EndQuiescence
  BY <1>8 DEF BeginQuiescence, EndQuiescence
<1>9. ASSUME NEW w \in 0..MaxHistory, RecordWatermark(w) PROVE Kept
  BY <1>9 DEF RecordWatermark
<1> QED BY <1>1, <1>2, <1>3, <1>4, <1>5, <1>6, <1>7, <1>8, <1>9 DEF LedgerNext

\* A reservation that is past its bind names a torrent, and sizes are sizes.
LEMMA BoundIs ==
  ASSUME SnapshotInv, RequestedFit, NEW op \in Ops, state[op] \in Tagged
  PROVE  /\ hash[op] \in Hashes /\ hash[op] # NoHash
         /\ requested[op] \in Sizes /\ AccountedBytes(op) \subseteq Sizes
<1>1. state[op] # "none" /\ state[op] # "pre_admitted"
  BY StateSets
<1>2. hash[op] # NoHash
  BY <1>1 DEF SnapshotInv, RecordsValid, RecordValid
<1>3. hash[op] \in Hashes
  BY <1>2 DEF SnapshotInv, LedgerTypeOK
<1>4. requested[op] \in Sizes /\ Actual[hash[op]] \in Sizes
  BY <1>1, <1>3, FenceConstants DEF RequestedFit
<1> QED BY <1>2, <1>3, <1>4 DEF AccountedBytes

LEMMA TagIsLedgerStep ==
  ASSUME SnapshotInv, RequestedFit, NEW op \in Ops, NEW size \in AccountedBytes(op),
         MarkTagged(op, size)
  PROVE  LedgerNext
<1>1. state[op] \in Tagged
  BY DEF MarkTagged, Moves, Tagged, ReservationState
<1>2. size \in Sizes
  BY <1>1, BoundIs
<1> QED BY <1>2 DEF LedgerNext, Acquisition

\* A loop visits one record or none.
LEMMA LoopLedger ==
  ASSUME SnapshotInv, RequestedFit, NEW t \in Threads, Loop(t)
  PROVE  LedgerNext \/ UNCHANGED ledger
<1>1. CASE LoopDone(t)
  BY <1>1 DEF LoopDone
<1>2. ASSUME NEW op \in Ops,
             \/ LoopActivate(t, op) \/ LoopBind(t, op) \/ LoopStopped(t, op) \/ LoopResume(t, op)
             \/ LoopStop(t, op) \/ LoopReopen(t, op)
      PROVE  UNCHANGED ledger
  BY <1>2 DEF LoopActivate, LoopBind, LoopStopped, LoopResume, LoopStop, LoopReopen, Skip
<1>3. ASSUME NEW op \in Ops, LoopPause(t, op) PROVE LedgerNext \/ UNCHANGED ledger
  BY <1>3 DEF LoopPause, Skip, LedgerNext, Quiescence
<1>4. ASSUME NEW op \in Ops, LoopRetag(t, op) PROVE LedgerNext \/ UNCHANGED ledger
  <2>1. UNCHANGED ledger \/ \E size \in AccountedBytes(op) : MarkTagged(op, size)
    BY <1>4 DEF LoopRetag, Skip
  <2> QED BY <2>1, TagIsLedgerStep
<1> QED BY <1>1, <1>2, <1>3, <1>4 DEF Loop

\* A grab is bound to a torrent that Arr grabbed after the baseline.
LEMMA BindLedger ==
  ASSUME SnapshotInv, RequestedFit, NEW t \in Threads, ThreadsSound, Bind(t)
  PROVE  LedgerNext \/ UNCHANGED ledger
<1> DEFINE op == th[t].op
<1>0. th[t].at \in Serving => op \in Ops
  BY DEF ThreadsSound, Sound, Placed
<1>1. CASE BindNew(t)
  <2>1. op \in Ops
    BY <1>0, <1>1 DEF BindNew, Serving
  <2> DEFINE h == IF hash[op] = NoHash THEN Target[op] ELSE hash[op]
  <2>2. UNCHANGED ledger \/ BindObservedGrab(op, h)
    BY <1>1 DEF BindNew
  <2>3. ASSUME BindObservedGrab(op, h) PROVE LedgerNext
    <3>1. h \in Hashes
      BY <2>3 DEF BindObservedGrab, Hashes
    <3> QED BY <2>1, <2>3, <3>1 DEF LedgerNext, Acquisition
  <2> QED BY <2>2, <2>3
<1>2. CASE BindAgain(t) \/ Ready(t)
  BY <1>2 DEF BindAgain, Ready
<1>3. CASE BindTag(t)
  BY <1>0, <1>3 DEF BindTag, Serving, LedgerNext, Acquisition
<1>4. CASE Claim(t)
  <2>1. op \in Ops
    BY <1>0, <1>4 DEF Claim, Serving
  <2>2. \/ UNCHANGED ledger \/ RequestTag(op)
        \/ \E size \in AccountedBytes(op) : MarkTagged(op, size)
    BY <1>4 DEF Claim
  <2> QED BY <2>1, <2>2, TagIsLedgerStep DEF LedgerNext, Acquisition
<1>5. CASE Freeze(t)
  BY <1>0, <1>5 DEF Freeze, Serving, LedgerNext, Custody
<1>6. CASE Request(t)
  BY <1>0, <1>6 DEF Request, Serving, LedgerNext, Acquisition
<1> QED BY <1>1, <1>2, <1>3, <1>4, <1>5, <1>6 DEF Bind

LEMMA SectionLedger ==
  ASSUME SnapshotInv, RequestedFit, NEW t \in Threads, ThreadsSound, Section(t)
  PROVE  LedgerNext \/ UNCHANGED ledger
<1> DEFINE op == th[t].op
<1>0. /\ th[t].at \in Serving => op \in Ops
      /\ th[t].at = "settle" => th[t].job \in Starting \cup Stopping
  BY DEF ThreadsSound, Sound, Placed
<1>1. CASE Acquire(t) \/ Effect(t) \/ ReadbackActivity(t) \/ ReadbackFails(t)
  BY <1>1 DEF Acquire, Effect, ReadbackActivity, ReadbackFails
<1>2. CASE ReadbackTag(t)
  <2>1. op \in Ops
    BY <1>0, <1>2 DEF ReadbackTag, Serving
  <2>2. UNCHANGED ledger \/ \E size \in AccountedBytes(op) : MarkTagged(op, size)
    BY <1>2 DEF ReadbackTag
  <2> QED BY <2>1, <2>2, TagIsLedgerStep
<1>3. CASE Settle(t)
  <2>1. op \in Ops /\ th[t].job \in Starting \cup Stopping
    BY <1>0, <1>3 DEF Settle, Serving
  <2>2. UNCHANGED ledger \/ Settles(th[t].job, op)
    BY <1>3 DEF Settle
  <2>3. ASSUME Settles(th[t].job, op)
        PROVE  MarkActive(op) \/ MarkHistoricalManaged(op) \/ MarkPaused(op) \/ MarkFrozen(op)
    BY <2>1, <2>3 DEF Settles, Starting, Stopping
  <2> QED BY <2>1, <2>2, <2>3 DEF LedgerNext, Acquisition, Activation, Quiescence, Custody
<1> QED BY <1>1, <1>2, <1>3 DEF Section

LEMMA HistoryIsShort ==
  ASSUME HistoryFits PROVE Len(history) \in 0 .. MaxHistory
<1>1. IsFiniteSet(LaterHashes) /\ Cardinality(LaterHashes) <= MaxHistory
  BY FenceConstants
<1>2. IsFiniteSet(Grabbed) /\ Cardinality(Grabbed) <= Cardinality(LaterHashes)
  <2>1. Grabbed \subseteq LaterHashes
    BY DEF Grabbed
  <2> QED BY <1>1, <2>1, FS_Subset
<1>3. Cardinality(Grabbed) \in Nat /\ Cardinality(LaterHashes) \in Nat
  BY <1>1, <1>2, FS_CardinalityType
<1>4. Len(history) = Cardinality(Grabbed)
  BY DEF HistoryFits
<1> QED BY <1>1, <1>2, <1>3, <1>4, HistoryIsBounded

LEMMA TickLedger ==
  ASSUME Basic, TickStep PROVE LedgerNext \/ UNCHANGED ledger
<1>1. CASE Tick \/ Adopted \/ PendingTerminals \/ Collected \/ Dispatched
           \/ \E op \in Ops : Dispatch(op)
  BY <1>1 DEF Tick, Adopted, PendingTerminals, Collected, Dispatched, Dispatch
<1>2. ASSUME NEW w \in 0 .. Len(history), RecordWatermark(w) PROVE LedgerNext
  <2>1. w \in 0 .. MaxHistory
    BY HistoryIsShort, HistoryIsBounded DEF Basic
  <2> QED BY <1>2, <2>1 DEF LedgerNext
<1>3. CASE Poll
  <2>1. Len(history) \in Nat
    BY HistoryIsShort DEF Basic
  <2> QED BY <1>2, <1>3, <2>1 DEF Poll
<1>4. CASE AdvanceWatermark
  <2>1. batch.last \in 0 .. Len(history)
    BY DEF Basic, Types
  <2> QED BY <1>2, <1>4, <2>1 DEF AdvanceWatermark
<1>5. CASE AdoptNext
  <2> DEFINE h == history[batch.next]
  <2>1. UNCHANGED ledger \/ \E op \in External : AdoptExternal(op, h, Expected[h])
    BY <1>5 DEF AdoptNext
  <2> HIDE DEF h
  <2>2. ASSUME NEW op \in External, AdoptExternal(op, h, Expected[h]) PROVE LedgerNext
    <3>1. h \in Hashes /\ Expected[h] \in Sizes /\ op \in Ops
      BY <2>2, FenceConstants DEF AdoptExternal, Hashes, Ops
    <3> QED BY <2>2, <3>1 DEF LedgerNext, Admission
  <2> QED BY <2>1, <2>2
<1>6. ASSUME NEW op \in Ops, Collect(op) PROVE LedgerNext \/ UNCHANGED ledger
  BY <1>6 DEF Collect, LedgerNext, Custody
<1>7. CASE Receipt
  <2>1. th["tick"].op \in Ops
    BY <1>7, FenceConstants DEF Receipt, Basic, ThreadsSound, Sound, Placed, Serving
  <2> QED BY <1>7, <2>1 DEF Receipt, LedgerNext, Custody
<1> QED BY <1>1, <1>3, <1>4, <1>5, <1>6, <1>7 DEF TickStep

LEMMA ReconcilerLedger ==
  ASSUME ReconcilerStep PROVE LedgerNext \/ UNCHANGED ledger
<1>1. CASE RecordAttempt \/ PostGrab \/ MarkObserved \/ \E op \in Requested : HandOver(op)
  BY <1>1 DEF RecordAttempt, PostGrab, MarkObserved, HandOver
<1>2. ASSUME NEW op \in Requested, RequestRelease(op) PROVE LedgerNext \/ UNCHANGED ledger
  <2>1. op \in Ops /\ Expected[Target[op]] \in Sizes
    BY FenceConstants DEF Ops, Hashes
  <2>2. UNCHANGED ledger \/ PreAdmit(op, Expected[Target[op]])
    BY <1>2 DEF RequestRelease
  <2> QED BY <2>1, <2>2 DEF LedgerNext, Admission
<1> QED BY <1>1, <1>2 DEF ReconcilerStep

LEMMA ContractLedger ==
  ASSUME ContractStep PROVE LedgerNext \/ UNCHANGED ledger
<1>1. CASE Quiesce \/ Reopen
  BY <1>1 DEF Quiesce, Reopen, LedgerNext
<1>2. ASSUME NEW op \in PostPnr \cup Historical, NEW h \in PriorHashes, Adopt(op, h)
      PROVE  LedgerNext \/ UNCHANGED ledger
  <2> DEFINE size == IF op \in Historical THEN Actual[h] ELSE Expected[h]
  <2>1. op \in Ops /\ h \in Hashes /\ size \in Sizes
    BY FenceConstants DEF Ops, Hashes
  <2>2. UNCHANGED ledger \/ AdoptPostPnr(op, h, size)
    BY <1>2 DEF Adopt
  <2> HIDE DEF size
  <2> QED BY <2>1, <2>2 DEF LedgerNext, Admission
<1>3. ASSUME NEW op \in Historical, Activate(op) PROVE LedgerNext \/ UNCHANGED ledger
  <2>1. op \in Ops
    BY DEF Ops
  <2> QED BY <1>3, <2>1 DEF Activate, LedgerNext, Activation
<1> QED BY <1>1, <1>2, <1>3 DEF ContractStep

LEMMA RuntimeLedger ==
  ASSUME RuntimeStep PROVE LedgerNext \/ UNCHANGED ledger
BY DEF RuntimeStep, Boot, BootReopen, Crash, LedgerNext

\* Whatever a thread does is one transition of the ledger, or none.
LEMMA NextLedger == ASSUME Basic, [Next]_vars PROVE [LedgerNext]_ledger
<1>1. CASE UNCHANGED vars
  BY <1>1 DEF vars
<1>2. ASSUME NEW t \in Threads, ThreadStep(t) PROVE [LedgerNext]_ledger
  BY <1>2, LoopLedger, BindLedger, SectionLedger DEF ThreadStep, Basic
<1>3. CASE PublisherStep \/ Environment
  BY <1>3 DEF PublisherStep, Retry, Environment
<1> QED
  BY <1>1, <1>2, <1>3, TickLedger, ReconcilerLedger, ContractLedger, RuntimeLedger DEF Next

-----------------------------------------------------------------------------
(* Where the steps of one thread lead.                                     *)

Carries(t) ==
  \/ Returned(t)
  \/ \E at \in Serving \cup {"loop"}, op \in Ops \cup {"none"}, job \in Jobs : Moved(t, at, op, job)

NotActing(t) == th'[t].at \notin {"effect", "readback", "settle"}

LEMMA VisitsIs ==
  ASSUME ThreadsSound, NEW t \in Threads, NEW op \in Ops, NEW seen, Visits(t, op, seen)
  PROVE  /\ th[t].at = "loop"
         /\ Head(th[t].todo)[op] \in seen
         /\ Head(th[t].todo)[op] \in Resumed => state[op] \in Resumed
<1>1. th[t].at = "loop" /\ Head(th[t].todo)[op] \in seen
  BY DEF Visits
<1>2. th[t].todo \in Seq(Seen(state)) /\ th[t].todo # <<>>
  BY <1>1 DEF ThreadsSound, Sound, Placed, Thread
<1>3. Head(th[t].todo) \in Seen(state)
  BY <1>2, SeqFacts
<1> QED BY <1>1, <1>3 DEF Seen

LEMMA LoopCarries ==
  ASSUME ThreadsSound, NEW t \in Threads, Onward(state, state'), Loop(t)
  PROVE  Carries(t) /\ NotActing(t)
<1>1. CASE LoopDone(t)
  <2>1. Returned(t)
    BY <1>1, LoopDoneIs
  <2> QED BY <2>1 DEF Carries, Returned, NotActing, Outside
<1>2. ASSUME NEW op \in Ops, th[t].at = "loop",
             NEW at \in {"acquire", "ready", "claim", "bind", "request"}, NEW job \in Jobs,
             Admits(at, job, op, state'), Enter(t, op, at, job)
      PROVE  Carries(t) /\ NotActing(t)
  <2>1. at \in Serving
    BY DEF Serving
  <2>2. Moved(t, at, op, job)
    BY <1>2, <2>1, EnterIs
  <2> QED BY <2>1, <2>2 DEF Carries, Moved, NotActing
<1>3. ASSUME NEW op \in Ops, th[t].at = "loop", Become(t, [Taken(t, op) EXCEPT !.op = "none"])
      PROVE  Carries(t) /\ NotActing(t)
  <2>1. Moved(t, "loop", "none", th[t].job)
    BY <1>3, PassIs
  <2>2. th[t].job \in Jobs
    BY DEF ThreadsSound, Thread
  <2> QED BY <2>1, <2>2 DEF Carries, Moved, NotActing
<1>4. ASSUME NEW op \in Ops, th[t].at = "loop", Skip(t, op)
      PROVE  Carries(t) /\ NotActing(t)
  BY <1>3, <1>4 DEF Skip
<1>5. ASSUME NEW op \in Ops, NEW job \in {"pause", "freeze"}
      PROVE  Admits("acquire", job, op, state') /\ job \in Jobs
  BY <1>5, JobSets DEF Admits, InSection
<1>6. ASSUME NEW op \in Ops, NEW at \in {"claim", "bind"}
      PROVE  Admits(at, "none", op, state') /\ "none" \in Jobs
  BY <1>6, JobSets DEF Admits, InSection
<1>7. ASSUME NEW op \in Ops
      PROVE  Admits("request", "resume", op, state') /\ "resume" \in Jobs
  BY <1>7, JobSets DEF Admits, InSection
<1>8. ASSUME NEW op \in Ops, NEW job \in {"resume", "activate"}, state[op] \in Resumed
      PROVE  Admits("ready", job, op, state') /\ job \in Jobs
  BY <1>8, JobSets DEF Admits, InSection, Onward
<1>9. ASSUME NEW op \in Ops, LoopPause(t, op) PROVE Carries(t) /\ NotActing(t)
  <2>1. th[t].at = "loop"
    BY <1>9, VisitsIs DEF LoopPause
  <2> QED BY <1>2, <1>4, <1>5, <1>9, <2>1 DEF LoopPause
<1>10. ASSUME NEW op \in Ops, LoopActivate(t, op) PROVE Carries(t) /\ NotActing(t)
  <2>1. th[t].at = "loop" /\ state[op] \in Resumed
    BY <1>10, VisitsIs DEF LoopActivate, Resumed, Tagged, ReservationState
  <2> QED BY <1>2, <1>8, <1>10, <2>1 DEF LoopActivate
<1>11. ASSUME NEW op \in Ops, LoopBind(t, op) PROVE Carries(t) /\ NotActing(t)
  <2>1. th[t].at = "loop"
    BY <1>11, VisitsIs DEF LoopBind
  <2> QED BY <1>2, <1>6, <1>11, <2>1 DEF LoopBind
<1>12. ASSUME NEW op \in Ops, LoopRetag(t, op) PROVE Carries(t) /\ NotActing(t)
  <2>1. th[t].at = "loop"
    BY <1>12, VisitsIs DEF LoopRetag
  <2>2. \/ Enter(t, op, "request", "resume") \/ Skip(t, op)
        \/ Become(t, [Taken(t, op) EXCEPT !.op = "none"])
    BY <1>12 DEF LoopRetag
  <2> QED BY <1>2, <1>3, <1>4, <1>7, <2>1, <2>2
<1>13. ASSUME NEW op \in Ops, LoopStopped(t, op) \/ LoopReopen(t, op) PROVE Carries(t) /\ NotActing(t)
  <2>1. th[t].at = "loop"
    BY <1>13, VisitsIs DEF LoopStopped, LoopReopen
  <2>2. Enter(t, op, "request", "resume") \/ Skip(t, op)
    BY <1>13 DEF LoopStopped, LoopReopen
  <2> QED BY <1>2, <1>4, <1>7, <2>1, <2>2
<1>14. ASSUME NEW op \in Ops, LoopResume(t, op) PROVE Carries(t) /\ NotActing(t)
  <2>1. th[t].at = "loop" /\ state[op] \in Resumed
    BY <1>14, VisitsIs DEF LoopResume, Resumed, Tagged, ReservationState
  <2> QED BY <1>2, <1>4, <1>8, <1>14, <2>1 DEF LoopResume
<1>15. ASSUME NEW op \in Ops, LoopStop(t, op) PROVE Carries(t) /\ NotActing(t)
  <2>1. th[t].at = "loop"
    BY <1>15, VisitsIs DEF LoopStop
  <2>2. Skip(t, op) \/ \E job \in {"pause", "freeze"} : Enter(t, op, "acquire", job)
    BY <1>15 DEF LoopStop
  <2> QED BY <1>2, <1>4, <1>5, <2>1, <2>2
<1> QED
  BY <1>1, <1>9, <1>10, <1>11, <1>12, <1>13, <1>14, <1>15 DEF Loop

LEMMA BindCarries ==
  ASSUME Basic, NEW t \in Threads, Onward(state, state'), Bind(t)
  PROVE  Carries(t) /\ NotActing(t)
<1> DEFINE op == th[t].op
<1>0. /\ ThreadsSound /\ LedgerTypeOK /\ th[t].job \in Jobs
      /\ th[t].at \in Serving => op \in Ops
  BY DEF Basic, SnapshotInv, ThreadsSound, Sound, Placed, Thread
<1>1. ASSUME NEW at \in {"tag", "acquire", "ready"}, NEW job \in Jobs, Moved(t, at, op, job), op \in Ops
      PROVE  Carries(t) /\ NotActing(t)
  BY <1>1 DEF Carries, Moved, NotActing, Serving
<1>2. ASSUME Returned(t) PROVE Carries(t) /\ NotActing(t)
  BY <1>2 DEF Carries, Returned, NotActing, Outside
<1>3. ASSUME th[t].at \in Serving, Return(t, FALSE) PROVE Carries(t) /\ NotActing(t)
  <2>1. Returned(t)
    BY <1>0, <1>3, ReturnIs
  <2> QED BY <1>2, <2>1
<1>4. ASSUME NEW ok \in BOOLEAN, th[t].at \in Serving, Return(t, ok), ok => state'[op] \in Tagged
      PROVE  Carries(t) /\ NotActing(t)
  <2>1. Returned(t)
    BY <1>0, <1>4, ReturnIs
  <2> QED BY <1>2, <2>1
<1>5. CASE BindNew(t)
  <2>1. th[t].at \in Serving
    BY <1>5 DEF BindNew, Serving
  <2>2. Return(t, FALSE) \/ GoTo(t, "tag")
    BY <1>5 DEF BindNew
  <2>3. Admits("tag", th[t].job, op, state') /\ "tag" \in Serving \ {"bind"}
    BY DEF Admits, InSection, Serving
  <2> QED BY <1>0, <1>1, <1>3, <2>1, <2>2, <2>3, GoToIs
<1>6. CASE BindAgain(t)
  <2>1. th[t].at = "bind" /\ "bind" \in Serving
    BY <1>6 DEF BindAgain, Serving
  <2>2. CASE state[op] \in {"tag_intent_recorded", "qbittorrent_stopped", "resume_intent_recorded"}
    <3>1. state'[op] \in Tagged
      BY <1>0, <2>1, <2>2 DEF Onward, Tagged, ReservationState
    <3>2. Moved(t, "loop", "none", th[t].job)
      BY <1>0, <1>6, <2>1, <2>2, <3>1, NestedIs DEF BindAgain
    <3> QED BY <1>0, <3>2 DEF Carries, Moved, NotActing
  <2>3. CASE state[op] \notin {"tag_intent_recorded", "qbittorrent_stopped", "resume_intent_recorded"}
    <3> DEFINE ok == state[op] \in {"qbittorrent_active", "terminal", "released"}
    <3>1. Return(t, ok) /\ ok \in BOOLEAN
      BY <1>6, <2>3 DEF BindAgain
    <3>2. ok => state'[op] \in Tagged
      BY <1>0, <2>1 DEF Onward, Tagged, ReservationState
    <3> HIDE DEF ok
    <3> QED BY <1>4, <2>1, <3>1, <3>2
  <2> QED BY <2>2, <2>3
<1>7. CASE BindTag(t)
  <2>1. th[t].at \in Serving
    BY <1>7 DEF BindTag, Serving
  <2>2. CASE RequestTag(op) /\ Do(t, "acquire", "tag")
    <3>1. state'[op] \in Tagged
      BY <1>0, <2>1, <2>2 DEF RequestTag, Moves, LedgerTypeOK, Tagged, ReservationState
    <3>2. Admits("acquire", "tag", op, state') /\ "tag" \in Jobs /\ "acquire" \in Serving \ {"bind"}
      BY <3>1, JobSets DEF Admits, InSection, Serving
    <3> QED BY <1>0, <1>1, <2>1, <2>2, <3>2, DoIs
  <2> QED BY <1>3, <1>7, <2>1, <2>2 DEF BindTag
<1>8. CASE Claim(t)
  <2>1. th[t].at \in Serving
    BY <1>8 DEF Claim, Serving
  <2>2. CASE RequestTag(op) /\ Do(t, "acquire", "claim")
    <3>1. state'[op] \in Tagged
      BY <1>0, <2>1, <2>2 DEF RequestTag, Moves, LedgerTypeOK, Tagged, ReservationState
    <3>2. Admits("acquire", "claim", op, state') /\ "claim" \in Jobs /\ "acquire" \in Serving \ {"bind"}
      BY <3>1, JobSets DEF Admits, InSection, Serving
    <3> QED BY <1>0, <1>1, <2>1, <2>2, <3>2, DoIs
  <2>3. CASE CanRetag(op) /\ Return(t, TRUE)
    <3>1. state'[op] \in Tagged
      BY <1>0, <2>1, <2>3 DEF CanRetag, Onward, Tagged, ReservationState
    <3> QED BY <1>4, <2>1, <2>3, <3>1
  <2>4. CASE Return(t, FALSE)
    BY <1>3, <2>1, <2>4
  <2> QED BY <1>8, <2>2, <2>3, <2>4 DEF Claim
<1>9. CASE Request(t)
  <2>1. th[t].at \in Serving
    BY <1>9 DEF Request, Serving
  <2>2. CASE RequestResume(op)
    <3> DEFINE at == IF th[t].job = "start" THEN "acquire" ELSE "ready"
    <3>1. state'[op] \in Resumed
      BY <1>0, <2>1, <2>2 DEF RequestResume, Moves, LedgerTypeOK, Resumed, Tagged, ReservationState
    <3>2. th[t].job \in {"start", "resume"}
      BY <1>9 DEF Request, Basic, ThreadsSound, Sound, Placed
    <3>3. Admits(at, th[t].job, op, state')
      BY <3>1, <3>2, JobSets DEF Admits, InSection
    <3>4. at \in {"acquire", "ready"} /\ at \in Serving \ {"bind"} /\ GoTo(t, at)
      <4>1. GoTo(t, at)
        BY <1>9, <2>2 DEF Request, RequestResume
      <4> QED BY <4>1 DEF Serving
    <3> HIDE DEF at
    <3>5. Moved(t, at, op, th[t].job)
      BY <1>0, <2>1, <3>3, <3>4, GoToIs
    <3> QED BY <1>0, <1>1, <2>1, <3>4, <3>5
  <2>3. CASE Return(t, FALSE)
    BY <1>3, <2>1, <2>3
  <2>4. CASE Raise(t)
    BY <1>0, <1>2, <2>4, RaiseIs
  <2> QED BY <1>9, <2>2, <2>3, <2>4 DEF Request
<1>10. CASE Freeze(t)
  <2>1. th[t].at \in Serving
    BY <1>10 DEF Freeze, Serving
  <2>2. CASE Do(t, "acquire", "freeze")
    <3>1. Admits("acquire", "freeze", op, state') /\ "freeze" \in Jobs /\ "acquire" \in Serving \ {"bind"}
      BY JobSets DEF Admits, InSection, Serving
    <3> QED BY <1>0, <1>1, <2>1, <2>2, <3>1, DoIs
  <2>3. CASE Return(t, state[op] = "qbittorrent_frozen")
    <3> DEFINE ok == state[op] = "qbittorrent_frozen"
    <3>1. (ok => state'[op] \in Tagged) /\ ok \in BOOLEAN /\ Return(t, ok)
      BY <1>0, <2>1, <2>3 DEF Onward, Tagged, ReservationState
    <3> HIDE DEF ok
    <3> QED BY <1>4, <2>1, <3>1
  <2> QED BY <1>10, <2>2, <2>3 DEF Freeze
<1>11. CASE Ready(t)
  <2>1. th[t].at \in Serving /\ th[t].at = "ready"
    BY <1>11 DEF Ready, Serving
  <2>2. CASE GoTo(t, "acquire")
    <3>1. th[t].job \in {"resume", "activate"} /\ state[op] \in Resumed
      BY <1>0, <2>1, JobSets DEF ThreadsSound, Sound, Placed, Knows
    <3>2. Admits("acquire", th[t].job, op, state') /\ "acquire" \in Serving \ {"bind"}
      BY <1>0, <2>1, <3>1, JobSets DEF Admits, InSection, Serving, Onward
    <3> QED BY <1>0, <1>1, <2>1, <2>2, <3>2, GoToIs
  <2> QED BY <1>3, <1>11, <2>1, <2>2 DEF Ready
<1> QED BY <1>5, <1>6, <1>7, <1>8, <1>9, <1>10, <1>11 DEF Bind

-----------------------------------------------------------------------------
(* The mutation lease.                                                     *)

\* The thread in a section holds the lease, and before it acts the torrent is
\* as it saw it: free for a tag, its own for anything else.
Holds(t) ==
  \/ th[t].at \in {"effect", "readback"}
  \/ th[t].at = "settle" /\ th[t].job = "activate"

Sees(t) ==
  th[t].at = "effect" =>
    IF th[t].job \in Tagging THEN tags[hash[th[t].op]] = {} ELSE Owned(th[t].op)

Leased == \A t \in Threads : (Holds(t) => lease = t) /\ Sees(t)

\* The hash of a reservation stays, once it is known.
HashKept == \A op \in Ops : hash[op] # NoHash => hash'[op] = hash[op]

LEMMA FreeIsNoThread == "free" \notin Threads
BY FenceConstants

\* What a thread saw of a torrent does not change under it.
LEMMA SeesKept ==
  ASSUME SnapshotInv, RequestedFit, ThreadsSound, Leased, HashKept, NEW u \in Threads,
         UNCHANGED tags, th'[u] = th[u]
  PROVE  Sees(u)'
<1> SUFFICES ASSUME th[u].at = "effect" PROVE Sees(u)'
  BY DEF Sees
<1>1. th[u].op \in Ops
  BY DEF ThreadsSound, Sound, Placed, Serving
<1>2. CASE th[u].job \in Tagging
  <2>1. state[th[u].op] \in Tagged
    BY <1>2 DEF ThreadsSound, Sound, Knows, InSection
  <2>2. hash[th[u].op] # NoHash
    BY <1>1, <2>1, BoundIs
  <2> QED BY <1>1, <1>2, <2>2 DEF Leased, Sees, HashKept
<1>3. CASE th[u].job \notin Tagging
  BY <1>1, <1>3 DEF Leased, Sees, Owned, HashKept
<1> QED BY <1>2, <1>3

\* A step of t that holds nothing afterwards and leaves the tags and the lease.
LEMMA LeaseKept ==
  ASSUME SnapshotInv, RequestedFit, ThreadsSound, Leased, HashKept, NEW t \in Threads,
         Others(t), UNCHANGED <<tags, lease>>, ~Holds(t)'
  PROVE  Leased'
<1>1. ASSUME NEW u \in Threads \ {t} PROVE (Holds(u)' => lease' = u) /\ Sees(u)'
  <2>1. th'[u] = th[u]
    BY DEF Others
  <2>2. Sees(u)'
    BY <2>1, SeesKept
  <2> QED BY <2>1, <2>2 DEF Leased, Holds
<1>2. Sees(t)'
  BY DEF Holds, Sees
<1> QED BY <1>1, <1>2 DEF Leased

\* A step of t that takes the lease, or that had it.
LEMMA LeaseTurns ==
  ASSUME ThreadsSound, Leased, NEW t \in Threads, Others(t),
         lease = "free" \/ lease = t, Holds(t)' => lease' = t, Sees(t)'
  PROVE  Leased'
<1>1. ASSUME NEW u \in Threads \ {t} PROVE ~Holds(u)' /\ Sees(u)'
  <2>1. th'[u] = th[u]
    BY DEF Others
  <2>2. ~Holds(u)
    BY FreeIsNoThread DEF Leased
  <2> QED BY <2>1, <2>2 DEF Holds, Sees
<1> QED BY <1>1 DEF Leased

\* From one place of a section to the next.
LEMMA OnInSection ==
  ASSUME ThreadsSound, NEW t \in Threads, Onward(state, state'), th[t].at \in InSection,
         NEW at \in {"effect", "readback", "settle"}, at = "settle" => th[t].job \notin Tagging,
         GoTo(t, at)
  PROVE  Moved(t, at, th[t].op, th[t].job) /\ Carries(t)
<1>1. /\ th[t].at \in Serving /\ th[t].op \in Ops /\ th[t].job \in Jobs /\ th[t].job # "none"
      /\ th[t].job \in Tagging => state'[th[t].op] \in Tagged
      /\ th[t].job \in Starting => state'[th[t].op] \in Resumed
  BY DEF ThreadsSound, Sound, Placed, Knows, Thread, InSection, Serving, Onward
<1>2. Admits(at, th[t].job, th[t].op, state') /\ at \in Serving \ {"bind"}
  BY <1>1, JobSets DEF Admits, InSection, Serving
<1>3. Moved(t, at, th[t].op, th[t].job)
  BY <1>1, <1>2, GoToIs
<1> QED BY <1>1, <1>2, <1>3 DEF Carries

LEMMA SectionCarries ==
  ASSUME Basic, Leased, NEW t \in Threads, Onward(state, state'), HashKept, Section(t)
  PROVE  Carries(t) /\ Leased'
<1> DEFINE op == th[t].op
           job == th[t].job
<1>0. /\ ThreadsSound /\ LedgerTypeOK /\ SnapshotInv /\ RequestedFit
      /\ job \in Jobs /\ lease \in Threads \cup {"free"}
      /\ th[t].at \in Serving => op \in Ops
      /\ th[t].at \in InSection => th[t].at \in Serving
      /\ th[t].at \in InSection => job # "none"
      /\ th[t].at = "settle" => job \in Starting \cup Stopping
  BY DEF Basic, Types, SnapshotInv, ThreadsSound, Sound, Placed, Thread, InSection, Serving
<1>1. th[t].at \in {"effect", "readback"} => lease = t
  BY DEF Leased, Holds
<1>2. ASSUME Returned(t) PROVE Carries(t) /\ ~Holds(t)' /\ Sees(t)' /\ Others(t)
  BY <1>2 DEF Carries, Returned, Holds, Sees, Outside
<1>3. ASSUME NEW ok \in BOOLEAN, th[t].at \in Serving, Return(t, ok), ok => state'[op] \in Tagged
      PROVE  Carries(t) /\ ~Holds(t)' /\ Sees(t)' /\ Others(t)
  <2>1. Returned(t)
    BY <1>0, <1>3, ReturnIs
  <2> QED BY <1>2, <2>1
<1>4. CASE Acquire(t)
  <2>1. th[t].at = "acquire" /\ th[t].at \in InSection /\ th[t].at \in Serving
    BY <1>0, <1>4 DEF Acquire, InSection
  <2>2. UNCHANGED <<ledger, tags>>
    BY <1>4 DEF Acquire, qbittorrent
  <2>3. CASE lease = "free" /\ Fit(t) /\ job \notin Tagging /\ GoTo(t, "settle") /\ lease' = LeaseAtSettle(t)
    <3>1. Moved(t, "settle", op, job) /\ Carries(t)
      BY <1>0, <2>1, <2>3, OnInSection
    <3>2. (Holds(t)' => lease' = t) /\ Sees(t)' /\ Others(t)
      BY <2>3, <3>1 DEF Holds, Sees, Moved, LeaseAtSettle
    <3> QED BY <1>0, <2>3, <3>1, <3>2, LeaseTurns
  <2>4. CASE lease = "free" /\ Fit(t) /\ GoTo(t, "effect") /\ lease' = t
    <3>1. Moved(t, "effect", op, job) /\ Carries(t)
      BY <1>0, <2>1, <2>4, OnInSection
    <3>2. IF job \in Tagging THEN tags[hash[op]] = {} ELSE Owned(op)
      BY <2>4 DEF Fit, StoppedAndFree
    <3>3. IF job \in Tagging THEN tags'[hash'[op]] = {} ELSE hash'[op] # NoHash /\ tags'[hash'[op]] = {op}
      BY <2>2, <3>2 DEF ledger, Owned
    <3>4. (Holds(t)' => lease' = t) /\ Sees(t)' /\ Others(t)
      BY <2>4, <3>1, <3>3 DEF Holds, Sees, Moved, Owned
    <3> QED BY <1>0, <2>4, <3>1, <3>4, LeaseTurns
  <2>5. CASE Return(t, FALSE) /\ UNCHANGED lease
    <3>1. Carries(t) /\ ~Holds(t)' /\ Others(t)
      BY <1>3, <2>1, <2>5
    <3> QED BY <1>0, <2>2, <2>5, <3>1, LeaseKept
  <2> QED BY <1>4, <2>3, <2>4, <2>5 DEF Acquire
<1>5. CASE Effect(t)
  <2>1. th[t].at = "effect" /\ th[t].at \in InSection /\ th[t].at \in Serving /\ lease = t
    BY <1>0, <1>1, <1>5 DEF Effect, InSection
  <2>2. CASE GoTo(t, "readback") /\ UNCHANGED lease
    <3>1. Moved(t, "readback", op, job) /\ Carries(t)
      BY <1>0, <2>1, <2>2, OnInSection
    <3>2. (Holds(t)' => lease' = t) /\ Sees(t)' /\ Others(t)
      BY <2>1, <2>2, <3>1 DEF Holds, Sees, Moved
    <3> QED BY <1>0, <2>1, <3>1, <3>2, LeaseTurns
  <2>3. CASE Return(t, FALSE) /\ lease' = "free"
    <3>1. Carries(t) /\ ~Holds(t)' /\ Sees(t)' /\ Others(t)
      BY <1>3, <2>1, <2>3
    <3> QED BY <1>0, <2>1, <3>1, LeaseTurns
  <2> QED BY <1>5, <2>2, <2>3 DEF Effect
<1>6. CASE ReadbackTag(t)
  <2>1. th[t].at = "readback" /\ th[t].at \in InSection /\ th[t].at \in Serving /\ lease = t
        /\ job \in Tagging /\ op \in Ops /\ lease' = "free"
    BY <1>0, <1>1, <1>6 DEF ReadbackTag, InSection, Serving
  <2>2. state'[op] \in Tagged
    BY <1>0, <2>1 DEF ThreadsSound, Sound, Knows, Onward
  <2>3. CASE \E ok \in BOOLEAN : Return(t, ok)
    <3>1. Carries(t) /\ ~Holds(t)' /\ Sees(t)' /\ Others(t)
      BY <1>3, <2>1, <2>2, <2>3
    <3> QED BY <1>0, <2>1, <3>1, LeaseTurns
  <2>4. CASE Do(t, "request", "start")
    <3>1. Admits("request", "start", op, state') /\ "start" \in Jobs /\ "request" \in Serving \ {"bind"}
      BY JobSets DEF Admits, InSection, Serving
    <3>2. Moved(t, "request", op, "start")
      BY <1>0, <2>1, <2>4, <3>1, DoIs
    <3>3. Carries(t) /\ ~Holds(t)' /\ Sees(t)' /\ Others(t)
      BY <2>1, <3>1, <3>2 DEF Carries, Moved, Holds, Sees
    <3> QED BY <1>0, <2>1, <3>3, LeaseTurns
  <2>5. (job = "claim") \in BOOLEAN /\ FALSE \in BOOLEAN
    OBVIOUS
  <2>6. Do(t, "request", "start") \/ Return(t, FALSE) \/ Return(t, job = "claim")
    BY <1>6 DEF ReadbackTag
  <2> QED BY <2>3, <2>4, <2>5, <2>6
<1>7. CASE ReadbackActivity(t)
  <2>1. th[t].at = "readback" /\ th[t].at \in InSection /\ lease = t /\ job \notin Tagging
        /\ GoTo(t, "settle") /\ lease' = LeaseAtSettle(t)
    BY <1>1, <1>7 DEF ReadbackActivity, InSection
  <2>2. Moved(t, "settle", op, job) /\ Carries(t)
    BY <1>0, <2>1, OnInSection
  <2>3. (Holds(t)' => lease' = t) /\ Sees(t)' /\ Others(t)
    BY <2>1, <2>2 DEF Holds, Sees, Moved, LeaseAtSettle
  <2> QED BY <1>0, <2>1, <2>2, <2>3, LeaseTurns
<1>8. CASE ReadbackFails(t)
  <2>1. th[t].at \in Serving /\ lease = t /\ Return(t, FALSE)
    BY <1>1, <1>8 DEF ReadbackFails, Serving
  <2>2. Carries(t) /\ ~Holds(t)' /\ Sees(t)' /\ Others(t)
    BY <1>3, <2>1
  <2> QED BY <1>0, <2>1, <2>2, LeaseTurns
<1>9. CASE Settle(t)
  <2>1. th[t].at = "settle" /\ th[t].at \in Serving /\ op \in Ops /\ job \in Starting \cup Stopping
        /\ UNCHANGED tags
    BY <1>0, <1>9 DEF Settle, Serving, qbittorrent
  <2>2. Carries(t) /\ ~Holds(t)' /\ Sees(t)' /\ Others(t)
    <3>1. CASE Settles(job, op) /\ Return(t, TRUE)
      <4>1. MarkActive(op) \/ MarkHistoricalManaged(op) \/ MarkPaused(op) \/ MarkFrozen(op)
        BY <2>1, <3>1 DEF Settles, Starting, Stopping
      <4>2. state'[op] \in Tagged
        BY <1>0, <2>1, <4>1 DEF MarkActive, MarkHistoricalManaged, MarkPaused, MarkFrozen, Moves,
                                LedgerTypeOK, Tagged, ReservationState
      <4> QED BY <1>3, <2>1, <3>1, <4>2
    <3>2. CASE Raise(t)
      <4>1. Returned(t)
        BY <1>0, <3>2, RaiseIs
      <4> QED BY <1>2, <4>1
    <3>3. CASE Return(t, FALSE)
      BY <1>3, <2>1, <3>3
    <3> QED BY <1>9, <3>1, <3>2, <3>3 DEF Settle
  <2>3. CASE job = "activate"
    <3>1. lease = t
      BY <2>1, <2>3 DEF Leased, Holds
    <3> QED BY <1>0, <2>2, <3>1, LeaseTurns
  <2>4. CASE job # "activate"
    <3>1. UNCHANGED lease
      BY <1>9, <2>4 DEF Settle
    <3> QED BY <1>0, <2>1, <2>2, <3>1, LeaseKept
  <2> QED BY <2>3, <2>4
<1> QED BY <1>4, <1>5, <1>6, <1>7, <1>8, <1>9 DEF Section

LEMMA ThreadStepCarries ==
  ASSUME Basic, Leased, NEW t \in Threads, ThreadStep(t), Onward(state, state'), HashKept
  PROVE  Carries(t) /\ Leased'
<1>1. ASSUME Loop(t) \/ Bind(t) PROVE Carries(t) /\ Leased'
  <2>1. Carries(t) /\ NotActing(t)
    BY <1>1, LoopCarries, BindCarries DEF Basic
  <2>2. Others(t)
    BY <2>1 DEF Carries, Returned, Moved
  <2>3. UNCHANGED <<tags, lease>>
    BY <1>1 DEF Loop, Bind, qbittorrent
  <2>4. ~Holds(t)'
    BY <2>1 DEF NotActing, Holds
  <2> QED BY <2>1, <2>2, <2>3, <2>4, LeaseKept DEF Basic
<1> QED BY <1>1, SectionCarries DEF ThreadStep

-----------------------------------------------------------------------------
(* The other steps.                                                        *)

\* A thread that starts a task.
Starts(t, at, base, own) ==
  /\ ThreadsSound' /\ Others(t)
  /\ th'[t].at = at /\ th'[t].base = base /\ th'[t].own = own

LEMMA PlainIs ==
  ASSUME ThreadsSound, NEW t \in Threads, Onward(state, state'), NEW at \in Outside,
         Become(t, [Idle EXCEPT !.at = at])
  PROVE  Starts(t, at, "none", "none")
<1> DEFINE a == [Idle EXCEPT !.at = at]
<1>1. Sound(a, state') /\ a.at = at /\ a.base = "none" /\ a.own = "none"
  BY OutsideIs, IdleIs
<1>2. th' = [th EXCEPT ![t] = a]
  BY DEF Become
<1> HIDE DEF a
<1>3. ThreadsSound' /\ th'[t] = a /\ Others(t)
  BY <1>1, <1>2, BecomeIs DEF Others
<1> QED BY <1>1, <1>3 DEF Starts

LEMMA RestsIs ==
  ASSUME ThreadsSound, NEW t \in Threads, Onward(state, state'), Become(t, Idle)
  PROVE  Starts(t, "idle", "none", "none")
<1>1. Idle = [Idle EXCEPT !.at = "idle"]
  BY IdleIs
<1> QED BY <1>1, PlainIs DEF Outside

LEMMA ServeIs ==
  ASSUME ThreadsSound, NEW t \in Threads, Onward(state, state'), NEW op \in Ops,
         NEW at \in {"bind", "claim", "freeze", "receipt"},
         NEW base \in {"poll", "dispatch", "retry", "request", "adopt"},
         base = "poll" => op \in External, base = "request" => op \in Requested,
         base = "dispatch" => at # "bind",
         Become(t, [Idle EXCEPT !.at = at, !.op = op, !.own = op, !.base = base])
  PROVE  Starts(t, at, base, op)
<1> DEFINE a == [Idle EXCEPT !.at = at, !.op = op, !.own = op, !.base = base]
<1>1. th' = [th EXCEPT ![t] = a]
  BY DEF Become
<1>2. at \in Places /\ base \in Bases /\ "none" \in Jobs /\ <<>> \in Seq(Seen(state'))
  BY DEF Places, Bases, Jobs
<1>3. /\ a \in Thread(state') /\ a.at = at /\ a.op = op /\ a.job = "none" /\ a.base = base
      /\ a.own = op /\ a.todo = <<>>
  BY <1>2, IdleIs DEF Thread
<1> HIDE DEF a
<1>4. Placed(a)
  BY <1>3 DEF Placed, Serving, InSection
<1>5. Knows(a, state')
  BY <1>3 DEF Knows, Serving, InSection
<1>6. ThreadsSound' /\ th'[t] = a /\ Others(t)
  BY <1>1, <1>3, <1>4, <1>5, BecomeIs DEF Sound, Others
<1> QED BY <1>3, <1>6 DEF Starts

LEMMA CollectIs ==
  ASSUME ThreadsSound, LedgerTypeOK, NEW t \in Threads, Onward(state, state'), NEW states,
         Become(t, [Idle EXCEPT !.at = "collect", !.todo = <<Snapshot(states)>>])
  PROVE  Starts(t, "collect", "none", "none")
<1> DEFINE x == Snapshot(states)
           q == <<x>>
           a == [Idle EXCEPT !.at = "collect", !.todo = q]
<1>1. th' = [th EXCEPT ![t] = a]
  BY DEF Become
<1>2. x \in Seen(state')
  BY SnapshotSeen
<1> HIDE DEF x
<1>3. q \in Seq(Seen(state')) /\ q # <<>>
  BY <1>2
<1> HIDE DEF q
<1>4. "collect" \in Places /\ "none" \in Jobs /\ "none" \in Bases
  BY DEF Places, Jobs, Bases
<1>5. /\ a \in Thread(state') /\ a.at = "collect" /\ a.op = "none" /\ a.job = "none"
      /\ a.base = "none" /\ a.own = "none" /\ a.todo = q
  BY <1>3, <1>4, IdleIs DEF Thread
<1> HIDE DEF a
<1>6. Placed(a) /\ Knows(a, state')
  BY <1>3, <1>5 DEF Placed, Knows, Serving, InSection
<1>7. ThreadsSound' /\ th'[t] = a /\ Others(t)
  BY <1>1, <1>5, <1>6, BecomeIs DEF Sound, Others
<1> QED BY <1>5, <1>7 DEF Starts

\* The places at which the tick starts a task, and what it serves there.
TickGoes ==
  \/ \E at \in Outside \cup {"collect"} : Starts("tick", at, "none", "none")
  \/ \E op \in External : Starts("tick", "bind", "poll", op)
  \/ \E op \in Ops, at \in {"freeze", "receipt"} : Starts("tick", at, "dispatch", op)
  \/ ThreadsSound' /\ Others("tick") /\ th'["tick"].at = "loop" /\ th'["tick"].base = "tick"
  \/ \E job \in Jobs : Moved("tick", "collect", "none", job)
  \/ ThreadsSound' /\ UNCHANGED th

LEMMA TickGoesOn ==
  ASSUME Basic, Onward(state, state'), TickStep
  PROVE  TickGoes
<1>0. "tick" \in Threads /\ ThreadsSound /\ LedgerTypeOK
  BY FenceConstants DEF Basic, SnapshotInv
<1>1. ASSUME NEW at \in Outside, Become("tick", [Idle EXCEPT !.at = at]) PROVE TickGoes
  BY <1>0, <1>1, PlainIs DEF TickGoes
<1>2. CASE Tick
  <2>1. StartLoop("tick", "tick", Recoverable)
    BY <1>2 DEF Tick
  <2> QED BY <1>0, <2>1, StartLoopIs DEF TickGoes
<1>3. CASE Poll
  BY <1>1, <1>3 DEF Poll, Outside
<1>4. CASE AdoptNext
  <2>1. Become("tick", [Idle EXCEPT !.at = "publish"]) \/ \E op \in External : BindNext(op)
    BY <1>4 DEF AdoptNext
  <2>2. ASSUME NEW op \in External, BindNext(op) PROVE TickGoes
    <3>1. op \in Ops
      BY DEF Ops
    <3> QED BY <1>0, <2>2, <3>1, ServeIs DEF BindNext, TickGoes
  <2> QED BY <1>1, <2>1, <2>2 DEF Outside
<1>5. CASE Adopted \/ AdvanceWatermark \/ Collected \/ Receipt
  BY <1>1, <1>5 DEF Adopted, AdvanceWatermark, Collected, Receipt, Outside
<1>6. CASE PendingTerminals
  BY <1>0, <1>6, CollectIs DEF PendingTerminals, TickGoes
<1>7. ASSUME NEW op \in Ops, Collect(op) PROVE TickGoes
  <2>1. th["tick"].at = "collect" /\ Become("tick", [Taken("tick", op) EXCEPT !.op = "none"])
    BY <1>7 DEF Collect
  <2>2. Moved("tick", "collect", "none", th["tick"].job)
    BY <1>0, <2>1, PassIs
  <2>3. th["tick"].job \in Jobs
    BY <1>0 DEF ThreadsSound, Thread
  <2> QED BY <2>2, <2>3 DEF TickGoes
<1>8. ASSUME NEW op \in Ops, Dispatch(op) PROVE TickGoes
  <2>1. CASE UNCHANGED th
    <3>1. ThreadsSound'
      BY <1>0, <2>1, SoundKept DEF ThreadsSound, Sound
    <3> QED BY <2>1, <3>1 DEF TickGoes
  <2>2. ASSUME NEW at \in {"freeze", "receipt"}, Serve("tick", op, at, "dispatch") PROVE TickGoes
    BY <1>0, <2>2, ServeIs DEF Serve, TickGoes
  <2> QED BY <1>8, <2>1, <2>2 DEF Dispatch
<1>9. CASE Dispatched
  <2>1. Become("tick", Idle)
    BY <1>9 DEF Dispatched
  <2> QED BY <1>0, <2>1, RestsIs DEF TickGoes, Outside
<1> QED BY <1>2, <1>3, <1>4, <1>5, <1>6, <1>7, <1>8, <1>9 DEF TickStep

LEMMA StillIs ==
  ASSUME Basic, Leased, Onward(state, state'), HashKept, UNCHANGED <<th, tags, lease>>
  PROVE  ThreadsSound' /\ Leased'
<1>1. ThreadsSound'
  BY SoundKept DEF Basic, ThreadsSound, Sound
<1>2. \A u \in Threads : Sees(u)'
  BY SeesKept DEF Basic
<1> QED BY <1>1, <1>2 DEF Leased, Holds

LEMMA ReconcilerGoes ==
  ASSUME Basic, Onward(state, state'), "recon" \in Threads, ReconcilerStep
  PROVE  ThreadsSound' /\ Others("recon") /\ ~Holds("recon")'
<1> DEFINE t == "recon"
           r == th[t]
<1>0. ThreadsSound
  BY DEF Basic
<1>1. ASSUME NEW op \in Requested, NEW at \in {"attempt", "post"}, NEW a, a.at = at, a.own = op,
             a.op = "none", a.job \in Jobs, a.base = "none", a.todo = <<>>,
             a \in Thread(state'), th' = [th EXCEPT ![t] = a]
      PROVE  ThreadsSound' /\ Others(t) /\ ~Holds(t)'
  <2>1. Placed(a) /\ Knows(a, state')
    BY <1>1 DEF Placed, Knows, Serving, InSection
  <2>2. ThreadsSound' /\ th'[t] = a /\ Others(t)
    BY <1>0, <1>1, <2>1, BecomeIs DEF Sound, Others
  <2> QED BY <1>1, <2>2 DEF Holds
<1>2. ASSUME NEW op \in Requested, RequestRelease(op) PROVE ThreadsSound' /\ Others(t) /\ ~Holds(t)'
  <2> DEFINE a == [Idle EXCEPT !.at = "attempt", !.own = op]
  <2>1. th' = [th EXCEPT ![t] = a]
    BY <1>2 DEF RequestRelease, Become
  <2>2. "attempt" \in Places /\ "none" \in Jobs /\ "none" \in Bases /\ <<>> \in Seq(Seen(state'))
        /\ op \in Ops
    BY DEF Places, Jobs, Bases, Ops
  <2>3. /\ a.at = "attempt" /\ a.own = op /\ a.op = "none" /\ a.job \in Jobs /\ a.base = "none"
        /\ a.todo = <<>> /\ a \in Thread(state')
    BY <2>2, IdleIs DEF Thread
  <2> HIDE DEF a
  <2> QED BY <1>1, <2>1, <2>3
<1>3. CASE RecordAttempt
  <2> DEFINE a == [r EXCEPT !.at = "post"]
  <2>1. th' = [th EXCEPT ![t] = a] /\ r.at = "attempt"
    BY <1>3 DEF RecordAttempt, GoTo, Become
  <2>2. r \in Thread(state') /\ Placed(r) /\ Knows(r, state')
    BY <1>0, SoundKept DEF ThreadsSound, Sound
  <2> HIDE DEF r
  <2>3. /\ a \in Thread(state') /\ a.at = "post" /\ a.own = r.own /\ a.op = r.op
        /\ a.job = r.job /\ a.base = r.base /\ a.todo = r.todo
    BY <2>2 DEF Thread, Places
  <2> HIDE DEF a
  <2>4. Placed(a)
    BY <2>1, <2>2, <2>3 DEF Placed, Serving, InSection
  <2>5. Knows(a, state')
    BY <2>1, <2>2, <2>3 DEF Knows, Serving, InSection
  <2>6. ThreadsSound' /\ th'[t] = a /\ Others(t)
    BY <1>0, <2>1, <2>3, <2>4, <2>5, BecomeIs DEF Sound, Others
  <2> QED BY <2>3, <2>6 DEF Holds
<1>4. CASE PostGrab \/ MarkObserved
  <2>1. Become(t, Idle)
    BY <1>4 DEF PostGrab, MarkObserved
  <2> QED BY <1>0, <2>1, RestsIs DEF Starts, Holds
<1>5. ASSUME NEW op \in Requested, HandOver(op) PROVE ThreadsSound' /\ Others(t) /\ ~Holds(t)'
  <2>1. op \in Ops
    BY DEF Ops
  <2>2. Become(t, [Idle EXCEPT !.at = "bind", !.op = op, !.own = op, !.base = "request"])
    BY <1>5 DEF HandOver, Serve
  <2>3. Starts(t, "bind", "request", op)
    BY <1>0, <2>1, <2>2, ServeIs
  <2> QED BY <2>3 DEF Starts, Holds
<1> QED BY <1>2, <1>3, <1>4, <1>5 DEF ReconcilerStep

LEMMA ContractGoes ==
  ASSUME Basic, Onward(state, state'), ContractStep
  PROVE  ThreadsSound' /\ Others("rpc") /\ ~Holds("rpc")'
<1> DEFINE t == "rpc"
<1>0. ThreadsSound /\ t \in Threads /\ LedgerTypeOK /\ AdoptionStates
  BY DEF Basic, SnapshotInv, ContractStep
<1>1. CASE Quiesce \/ Reopen
  <2>1. \E base \in {"quiesce", "reopen"} : \E states : StartLoop(t, base, states)
    BY <1>1 DEF Quiesce, Reopen
  <2>2. ThreadsSound' /\ Others(t) /\ th'[t].at = "loop"
    BY <1>0, <2>1, StartLoopIs
  <2> QED BY <2>2 DEF Holds
<1>2. ASSUME NEW op \in PostPnr \cup Historical, NEW h \in PriorHashes, Adopt(op, h)
      PROVE  ThreadsSound' /\ Others(t) /\ ~Holds(t)'
  <2>1. op \in Ops
    BY DEF Ops
  <2>2. Become(t, [Idle EXCEPT !.at = "claim", !.op = op, !.own = op, !.base = "adopt"])
    BY <1>2 DEF Adopt, Serve
  <2>3. Starts(t, "claim", "adopt", op)
    BY <1>0, <2>1, <2>2, ServeIs
  <2> QED BY <2>3 DEF Starts, Holds
<1>3. ASSUME NEW op \in Historical, Activate(op)
      PROVE  ThreadsSound' /\ Others(t) /\ ~Holds(t)'
  <2> DEFINE a == [Idle EXCEPT !.at = "ready", !.op = op, !.own = op, !.job = "activate",
                               !.base = "adopt"]
  <2>1. th' = [th EXCEPT ![t] = a]
    BY <1>3 DEF Activate, Become
  <2>2. "ready" \in Places /\ "activate" \in Jobs /\ "adopt" \in Bases /\ <<>> \in Seq(Seen(state'))
        /\ op \in Ops
    BY JobSets DEF Places, Bases, Ops
  <2>3. state'[op] \in Resumed
    <3>1. ASSUME RequestHistoricalActivation(op) PROVE state'[op] \in Resumed
      BY <1>0, <2>2, <3>1 DEF RequestHistoricalActivation, Moves, LedgerTypeOK, Resumed, Tagged,
                              ReservationState
    <3>2. ASSUME activation[op] = "intent" PROVE state'[op] \in Resumed
      BY <1>0, <2>2, <3>2 DEF AdoptionStates, Onward, Resumed, Tagged, ReservationState
    <3> QED BY <1>3, <3>1, <3>2 DEF Activate
  <2>4. /\ a \in Thread(state') /\ a.at = "ready" /\ a.op = op /\ a.own = op /\ a.job = "activate"
        /\ a.base = "adopt" /\ a.todo = <<>>
    BY <2>2, IdleIs DEF Thread
  <2> HIDE DEF a
  <2>5. Placed(a)
    BY <2>2, <2>4 DEF Placed, Serving, InSection
  <2>6. Knows(a, state')
    BY <2>3, <2>4 DEF Knows, Serving, InSection
  <2>7. ThreadsSound' /\ th'[t] = a /\ Others(t)
    BY <1>0, <2>1, <2>4, <2>5, <2>6, BecomeIs DEF Sound, Others
  <2> QED BY <2>4, <2>7 DEF Holds
<1> QED BY <1>1, <1>2, <1>3 DEF ContractStep

LEMMA RuntimeGoes ==
  ASSUME Basic, Leased, Onward(state, state'), HashKept, RuntimeStep
  PROVE  ThreadsSound' /\ Leased'
<1>0. ThreadsSound /\ LedgerTypeOK /\ "tick" \in Threads
  BY FenceConstants DEF Basic, SnapshotInv
<1>1. CASE Boot \/ BootReopen
  <2>1. \E base \in {"boot", "reopen"} : \E states : StartLoop("tick", base, states)
    BY <1>1 DEF Boot, BootReopen
  <2>2. ThreadsSound' /\ Others("tick") /\ th'["tick"].at = "loop"
    BY <1>0, <2>1, StartLoopIs
  <2>3. ~Holds("tick")'
    BY <2>2 DEF Holds
  <2>4. UNCHANGED <<tags, lease>>
    BY <1>1 DEF RuntimeStep, Boot, BootReopen, Crash, qbittorrent
  <2> QED BY <1>0, <2>2, <2>3, <2>4, LeaseKept DEF Basic
<1>2. CASE Crash
  <2>1. th' = [t \in Threads |-> Idle]
    BY <1>2 DEF Crash
  <2>2. Sound(Idle, state') /\ Idle.at = "idle"
    <3>1. Idle = [Idle EXCEPT !.at = "idle"]
      BY IdleIs
    <3> QED BY ZenonT(40), <3>1, OutsideIs DEF Outside
  <2>3. ThreadsSound'
    BY <2>1, <2>2 DEF ThreadsSound, Sound
  <2>4. Leased'
    BY <2>1, <2>2 DEF Leased, Holds, Sees
  <2> QED BY <2>3, <2>4
<1> QED BY <1>1, <1>2 DEF RuntimeStep

\* Every step leaves every thread sound, and the lease with who acts.
LEMMA NextThreads ==
  ASSUME Basic, Leased, [Next]_vars
  PROVE  ThreadsSound' /\ Leased'
<1>1. /\ Onward(state, state') /\ HashKept
      /\ ThreadsSound /\ SnapshotInv /\ RequestedFit
  BY NextLedger, LedgerOnward DEF Basic, HashKept
<1>2. CASE UNCHANGED vars
  BY <1>1, <1>2, StillIs DEF vars, qbittorrent
<1>3. ASSUME NEW t \in Threads, ThreadStep(t) PROVE ThreadsSound' /\ Leased'
  <2>1. Carries(t) /\ Leased'
    BY <1>1, <1>3, ThreadStepCarries
  <2> QED BY <2>1 DEF Carries, Returned, Moved
<1>4. CASE TickStep
  <2>1. UNCHANGED <<tags, lease>> /\ "tick" \in Threads
    BY <1>4, FenceConstants DEF TickStep, qbittorrent
  <2>2. CASE UNCHANGED th
    BY <1>1, <2>1, <2>2, StillIs
  <2>3. CASE ThreadsSound' /\ Others("tick") /\ ~Holds("tick")'
    BY <1>1, <2>1, <2>3, LeaseKept
  <2>4. ASSUME NEW at, NEW base, NEW own, Starts("tick", at, base, own),
               at \in Outside \cup {"collect", "bind", "freeze", "receipt"}
        PROVE  ThreadsSound' /\ Leased'
    BY <2>3, <2>4 DEF Starts, Holds, Outside
  <2>5. CASE ThreadsSound' /\ Others("tick") /\ th'["tick"].at = "loop"
    BY <2>3, <2>5 DEF Holds
  <2>6. ASSUME NEW job, Moved("tick", "collect", "none", job) PROVE ThreadsSound' /\ Leased'
    BY <2>3, <2>6 DEF Moved, Holds
  <2> QED BY <1>1, <1>4, <2>2, <2>4, <2>5, <2>6, TickGoesOn DEF TickGoes
<1>5. CASE "pub" \in Threads /\ PublisherStep
  <2>1. PICK op \in Ops : Retry(op)
    BY <1>5 DEF PublisherStep
  <2>2. Become("pub", [Idle EXCEPT !.at = "freeze", !.op = op, !.own = op, !.base = "retry"])
    BY <2>1 DEF Retry, Serve
  <2>3. Starts("pub", "freeze", "retry", op)
    BY <1>1, <1>5, <2>2, ServeIs
  <2>4. ThreadsSound' /\ Others("pub") /\ ~Holds("pub")' /\ UNCHANGED <<tags, lease>>
    BY <1>5, <2>3 DEF Starts, Holds, PublisherStep, qbittorrent
  <2> QED BY <1>1, <1>5, <2>4, LeaseKept
<1>6. CASE "recon" \in Threads /\ ReconcilerStep
  <2>1. ThreadsSound' /\ Others("recon") /\ ~Holds("recon")'
    BY <1>1, <1>6, ReconcilerGoes
  <2>2. UNCHANGED <<tags, lease>>
    BY <1>6 DEF ReconcilerStep, qbittorrent
  <2> QED BY <1>1, <1>6, <2>1, <2>2, LeaseKept
<1>7. CASE ContractStep
  <2>1. ThreadsSound' /\ Others("rpc") /\ ~Holds("rpc")' /\ "rpc" \in Threads
    BY <1>1, <1>7, ContractGoes DEF ContractStep
  <2>2. UNCHANGED <<tags, lease>>
    BY <1>7 DEF ContractStep, qbittorrent
  <2> QED BY <1>1, <2>1, <2>2, LeaseKept
<1>8. CASE Environment
  <2>1. UNCHANGED <<th, tags, lease>>
    BY <1>8 DEF Environment, ArrGrabs, ArrForgets, Downloads, ShareLimit, qbittorrent
  <2> QED BY <1>1, <2>1, StillIs
<1>9. CASE RuntimeStep
  BY <1>1, <1>9, RuntimeGoes
<1> QED BY <1>2, <1>3, <1>4, <1>5, <1>6, <1>7, <1>8, <1>9 DEF Next

-----------------------------------------------------------------------------
(* Data: candidates, sizes, torrents, the history of Arr.                  *)

\* Health is another module: no step of this one tracks a candidate.
NoCandidate == \A op \in Ops : candidate[op] = "none"

LEMMA CandidatesKept ==
  ASSUME Basic, [Next]_vars PROVE NoCandidate'
<1>0. NoCandidate /\ candidate \in [Ops -> {"none", "probing", "invalidated"}]
  BY DEF Basic, Types, NoCandidate, SnapshotInv, LedgerTypeOK
<1>1. ASSUME UNCHANGED candidate \/ \E op \in Ops : Complete(op) PROVE NoCandidate'
  BY <1>0, <1>1 DEF NoCandidate, Complete
<1>2. ASSUME UNCHANGED ledger PROVE NoCandidate'
  BY <1>1, <1>2 DEF ledger
<1>3. ASSUME NEW t \in Threads, Loop(t) PROVE NoCandidate'
  <2>1. UNCHANGED candidate
    BY <1>3 DEF Loop, LoopDone, LoopPause, LoopActivate, LoopBind, LoopRetag, LoopStopped,
                LoopResume, LoopStop, LoopReopen, Skip, RequestPause, MarkTagged, ledger
  <2> QED BY <1>1, <2>1
<1>4. ASSUME NEW t \in Threads, Bind(t) PROVE NoCandidate'
  <2>1. UNCHANGED candidate
    BY <1>4 DEF Bind, BindNew, BindAgain, BindTag, Claim, Freeze, Ready, Request,
                BindObservedGrab, RequestTag, MarkTagged, RequestResume, RequestFreeze, ledger
  <2> QED BY <1>1, <2>1
<1>5. ASSUME NEW t \in Threads, Section(t) PROVE NoCandidate'
  <2>1. ASSUME Settle(t) PROVE UNCHANGED candidate
    <3>1. th[t].job \in Starting \cup Stopping
      BY <2>1 DEF Settle, Basic, ThreadsSound, Sound, Placed
    <3> QED BY <2>1, <3>1 DEF Settle, Settles, Starting, Stopping, MarkActive,
               MarkHistoricalManaged, MarkPaused, MarkFrozen, ledger
  <2>2. ASSUME Acquire(t) \/ Effect(t) \/ ReadbackActivity(t) \/ ReadbackFails(t) \/ ReadbackTag(t)
        PROVE  UNCHANGED candidate
    BY <2>2 DEF Acquire, Effect, ReadbackActivity, ReadbackFails, ReadbackTag, MarkTagged, ledger
  <2> QED BY <1>1, <1>5, <2>1, <2>2 DEF Section
<1>6. CASE TickStep
  <2>1. UNCHANGED candidate \/ \E op \in Ops : Complete(op)
    BY <1>6 DEF TickStep, Tick, Poll, AdoptNext, Adopted, AdvanceWatermark, PendingTerminals,
                Collect, Dispatch, Collected, Receipt, Dispatched, RecordWatermark, AdoptExternal,
                Reserve, AcceptCustody, ledger
  <2> QED BY <1>1, <2>1
<1>7. CASE ReconcilerStep
  <2>1. UNCHANGED candidate
    BY <1>7 DEF ReconcilerStep, RequestRelease, HandOver, RecordAttempt, PostGrab, MarkObserved,
                PreAdmit, Reserve, ledger
  <2> QED BY <1>1, <2>1
<1>8. CASE ContractStep
  <2>1. UNCHANGED candidate
    BY <1>8 DEF ContractStep, Quiesce, Reopen, Adopt, Activate, BeginQuiescence, EndQuiescence,
                AdoptPostPnr, Reserve, RequestHistoricalActivation, ledger
  <2> QED BY <1>1, <2>1
<1>9. CASE PublisherStep \/ Environment
  BY <1>2, <1>9 DEF PublisherStep, Retry, Environment
<1>10. CASE RuntimeStep
  <2>1. UNCHANGED candidate
    BY <1>10 DEF RuntimeStep, Boot, BootReopen, Crash, EndQuiescence, ledger
  <2> QED BY <1>1, <2>1
<1>11. CASE UNCHANGED vars
  BY <1>2, <1>11 DEF vars
<1> QED
  BY <1>3, <1>4, <1>5, <1>6, <1>7, <1>8, <1>9, <1>10, <1>11 DEF Next, ThreadStep

LEMMA RequestedKept ==
  ASSUME SnapshotInv, RequestedFit, [LedgerNext]_ledger PROVE RequestedFit'
<1>1. ASSUME NEW op \in Ops, Admission(op) PROVE RequestedFit'
  <2>1. ASSUME NEW h, NEW size \in Sizes, NEW to, Reserve(op, h, size, to) PROVE RequestedFit'
    BY <2>1 DEF Reserve, Moves, RequestedFit, SnapshotInv, LedgerTypeOK
  <2> QED BY <1>1, <2>1 DEF Admission, PreAdmit, AdoptExternal, AdoptPostPnr
<1>2. ASSUME \A op \in Ops : state'[op] # "none" => state[op] # "none" PROVE RequestedFit'
  BY <1>2, LedgerOnward DEF RequestedFit
<1>3. ASSUME ~ \E op \in Ops : Admission(op), NEW o \in Ops, state[o] = "none"
      PROVE  state'[o] = "none"
  <2> USE DEF SnapshotInv, LedgerTypeOK
  <2>1. CASE UNCHANGED ledger
    BY <1>3, <2>1 DEF ledger
  <2>2. ASSUME NEW op \in Ops, Acquisition(op) \/ Quiescence(op) \/ Activation(op) PROVE state'[o] = "none"
    BY <1>3, <2>2 DEF Acquisition, Quiescence, Activation, BindObservedGrab, RequestTag, MarkTagged,
                      RequestResume, MarkActive, RequestPause, MarkPaused,
                      RequestHistoricalActivation, MarkHistoricalManaged, Moves
  <2>3. ASSUME NEW op \in Ops, Custody(op) \/ Health(op) PROVE state'[o] = "none"
    BY <1>3, <2>3 DEF Custody, Health, Complete, RequestFreeze, MarkFrozen, AcceptCustody, Moves,
                      EnsureVideoCandidate, InvalidateVideoCandidate,
                      ReleaseInvalidatedVideoCandidate
  <2>4. CASE BeginQuiescence \/ EndQuiescence \/ \E w \in 0..MaxHistory : RecordWatermark(w)
    BY <1>3, <2>4 DEF BeginQuiescence, EndQuiescence, RecordWatermark
  <2> QED BY <1>3, <2>1, <2>2, <2>3, <2>4 DEF LedgerNext
<1> QED BY <1>1, <1>2, <1>3

\* A grab makes the history one longer.
LEMMA HistoryGrows ==
  ASSUME HistoryFits, NEW h \in Hashes, ArrGrabs(h)
  PROVE  HistoryFits' /\ Len(history') = Len(history) + 1
<1>1. h \in LaterHashes
  BY FenceConstants DEF ArrGrabs
<1>2. /\ history \in Seq(LaterHashes) /\ history' = Append(history, h)
      /\ \A i \in DOMAIN history : history[i] # h
  BY DEF HistoryFits, ArrGrabs
<1>3. /\ history' \in Seq(LaterHashes) /\ Len(history') = Len(history) + 1
      /\ DOMAIN history' = DOMAIN history \cup {Len(history) + 1}
      /\ history'[Len(history) + 1] = h
      /\ \A i \in DOMAIN history : history'[i] = history[i]
  BY <1>1, <1>2
<1>4. Grabbed' = Grabbed \cup {h}
  BY <1>1, <1>3 DEF Grabbed
<1>5. IsFiniteSet(Grabbed) /\ h \notin Grabbed
  <2>1. Grabbed \subseteq LaterHashes
    BY DEF Grabbed
  <2> QED BY <1>2, <2>1, FenceConstants, FS_Subset DEF Grabbed
<1>6. Cardinality(Grabbed \cup {h}) = Cardinality(Grabbed) + 1
  BY <1>5, FS_AddElement
<1>7. Cardinality(Grabbed') = Cardinality(Grabbed) + 1
  BY <1>4, <1>6
<1> QED BY <1>3, <1>7 DEF HistoryFits

\* Only an effect and the environment touch a torrent.
LEMMA TouchesTorrents ==
  ASSUME [Next]_vars
  PROVE  \/ UNCHANGED <<qbittorrent, arr>>
         \/ \E t \in Threads : Effect(t) /\ UNCHANGED arr
         \/ Environment
<1>1. ASSUME NEW t \in Threads, ThreadStep(t)
      PROVE  UNCHANGED <<qbittorrent, arr>> \/ (Effect(t) /\ UNCHANGED arr)
  BY <1>1 DEF ThreadStep, Loop, Bind, Section, Acquire, ReadbackTag, ReadbackActivity,
              ReadbackFails, Settle
<1>2. CASE TickStep \/ PublisherStep \/ ReconcilerStep \/ ContractStep \/ RuntimeStep
  BY <1>2 DEF TickStep, PublisherStep, ReconcilerStep, ContractStep, RuntimeStep
<1>3. CASE UNCHANGED vars
  BY <1>3 DEF vars
<1> QED BY <1>1, <1>2, <1>3 DEF Next

TorrentState == {"absent", "stopped", "running", "seeding", "complete"}

LEMMA TorrentsTurn ==
  ASSUME torrent \in [Hashes -> TorrentState], NEW h \in Hashes
  PROVE  /\ Started(h) \in [Hashes -> TorrentState] /\ Stopped(h) \in [Hashes -> TorrentState]
         /\ \A k \in Hashes : /\ Started(h)[k] = "absent" <=> torrent[k] = "absent"
                              /\ Stopped(h)[k] = "absent" <=> torrent[k] = "absent"
BY DEF Started, Stopped, TorrentState

\* An effect is on the torrent of a reservation, and what it needs holds.
LEMMA ActsOnTorrent ==
  ASSUME Basic, Leased, NEW t \in Threads, th[t].at = "effect"
  PROVE  /\ th[t].op \in Ops /\ hash[th[t].op] \in Hashes
         /\ th[t].job \in Tagging => state[th[t].op] \in Tagged /\ tags[hash[th[t].op]] = {}
         /\ th[t].job \in Starting => state[th[t].op] \in Resumed /\ Owned(th[t].op)
         /\ th[t].job \in Tagging \cup Starting \cup Stopping
         /\ th[t].job \notin Tagging => Owned(th[t].op)
<1>1. /\ th[t].op \in Ops /\ th[t].job \in Jobs /\ th[t].job # "none"
      /\ th[t].job \in Tagging => state[th[t].op] \in Tagged
      /\ th[t].job \in Starting => state[th[t].op] \in Resumed
  BY DEF Basic, ThreadsSound, Sound, Placed, Knows, Thread, Serving, InSection
<1>2. IF th[t].job \in Tagging THEN tags[hash[th[t].op]] = {} ELSE Owned(th[t].op)
  BY DEF Leased, Sees
<1>3. th[t].job \in Tagging => hash[th[t].op] \in Hashes
  BY <1>1, BoundIs DEF Basic
<1>4. th[t].job \notin Tagging => hash[th[t].op] \in Hashes
  BY <1>1, <1>2 DEF Owned, Basic, SnapshotInv, LedgerTypeOK
<1> QED BY <1>1, <1>2, <1>3, <1>4, JobSets

LEMMA NextTorrents ==
  ASSUME Basic, Leased, [Next]_vars
  PROVE  /\ torrent' \in [Hashes -> TorrentState] /\ tags' \in [Hashes -> SUBSET Ops]
         /\ gone' \subseteq Hashes
         /\ HistoryFits' /\ Len(history) \in Nat /\ Len(history') \in Nat
         /\ Len(history) <= Len(history')
<1> DEFINE Kept == /\ torrent' \in [Hashes -> TorrentState] /\ tags' \in [Hashes -> SUBSET Ops]
                   /\ gone' \subseteq Hashes
                   /\ HistoryFits' /\ Len(history) \in Nat /\ Len(history') \in Nat
                   /\ Len(history) <= Len(history')
<1>0. /\ torrent \in [Hashes -> TorrentState] /\ tags \in [Hashes -> SUBSET Ops]
      /\ gone \subseteq Hashes /\ HistoryFits /\ Types /\ Len(history) \in Nat
      /\ LaterHashes \subseteq Hashes
  BY DEF Basic, Types, TorrentState, HistoryFits, Hashes
<1>01. UNCHANGED history => HistoryFits'
  BY <1>0 DEF HistoryFits, Grabbed
<1>1. ASSUME UNCHANGED <<tags, history, gone>>, torrent' \in [Hashes -> TorrentState]
      PROVE  Kept
  BY <1>0, <1>01, <1>1
<1>2. CASE UNCHANGED <<qbittorrent, arr>>
  BY <1>0, <1>1, <1>2 DEF qbittorrent, arr
<1>3. ASSUME NEW t \in Threads, Effect(t), UNCHANGED arr PROVE Kept
  <2> DEFINE op == th[t].op
             h == hash[op]
  <2>1. op \in Ops /\ h \in Hashes
    BY <1>3, ActsOnTorrent DEF Effect
  <2>3. CASE UNCHANGED qbittorrent
    BY <1>2, <1>3, <2>3
  <2>4. CASE UNCHANGED torrent /\ tags' = [tags EXCEPT ![h] = @ \cup {op}]
    <3>1. tags' \in [Hashes -> SUBSET Ops]
      BY <1>0, <2>1, <2>4
    <3>2. HistoryFits'
      BY <1>01, <1>3 DEF arr
    <3> QED BY <1>0, <1>3, <2>4, <3>1, <3>2 DEF arr
  <2>5. CASE UNCHANGED tags /\ torrent' \in {Started(h), Stopped(h)}
    BY <1>0, <1>1, <1>3, <2>1, <2>5, TorrentsTurn DEF arr
  <2> QED BY <1>3, <2>3, <2>4, <2>5 DEF Effect, Applied
<1>4. CASE Environment
  <2>1. ASSUME NEW h \in Hashes, ArrGrabs(h) PROVE Kept
    <3>1. HistoryFits' /\ Len(history') = Len(history) + 1
      BY <1>0, <2>1, HistoryGrows
    <3>2. torrent' \in [Hashes -> TorrentState]
      BY <1>0, <2>1 DEF ArrGrabs, TorrentState
    <3> QED BY <1>0, <2>1, <3>1, <3>2 DEF ArrGrabs
  <2>2. ASSUME NEW h \in Hashes, ArrForgets(h) PROVE Kept
    <3>1. HistoryFits'
      BY <1>01, <2>2 DEF ArrForgets
    <3> QED BY <1>0, <2>2, <3>1 DEF ArrForgets, qbittorrent
  <2>3. ASSUME NEW h \in Hashes, Downloads(h) \/ ShareLimit(h) PROVE Kept
    <3>1. torrent' \in [Hashes -> TorrentState]
      BY <1>0, <2>3 DEF Downloads, ShareLimit, TorrentState
    <3> QED BY <1>0, <1>1, <2>3, <3>1 DEF Downloads, ShareLimit, arr
  <2> QED BY <1>4, <2>1, <2>2, <2>3 DEF Environment
<1> QED BY <1>2, <1>3, <1>4, TouchesTorrents

\* The bounds of the model are kept.
LEMMA NextBounded ==
  ASSUME Types, [Next]_vars
  PROVE  faults' \in 0 .. MaxFaults /\ crashes' \in 0 .. MaxCrashes
<1>0. /\ faults \in 0 .. MaxFaults /\ crashes \in 0 .. MaxCrashes
      /\ MaxFaults \in Nat /\ MaxCrashes \in Nat
  BY FenceConstants DEF Types
<1>1. ASSUME NoFault \/ Fault \/ \E c \in BOOLEAN : Declined(c) PROVE faults' \in 0 .. MaxFaults
  BY <1>0, <1>1 DEF NoFault, Fault, Declined
<1>2. ASSUME NEW t \in Threads, Loop(t) PROVE NoFault \/ Fault
  BY <1>2 DEF Loop, LoopDone, LoopPause, LoopActivate, LoopBind, LoopRetag, LoopStopped,
              LoopResume, LoopStop, LoopReopen, Declined, NoFault
<1>3. ASSUME NEW t \in Threads, Bind(t) PROVE NoFault \/ Fault
  BY <1>3 DEF Bind, BindNew, BindAgain, BindTag, Claim, Freeze, Ready, Request, Declined, NoFault
<1>4. ASSUME NEW t \in Threads, Section(t) PROVE NoFault \/ Fault
  BY <1>4 DEF Section, Acquire, Effect, ReadbackTag, ReadbackActivity, ReadbackFails, Settle,
              Declined, NoFault
<1>5. CASE TickStep
  <2>1. NoFault \/ Fault
    BY <1>5 DEF TickStep, Tick, Poll, AdoptNext, Adopted, AdvanceWatermark, PendingTerminals,
                Collect, Dispatch, Collected, Receipt, Dispatched, Declined, NoFault
  <2> QED BY <1>0, <1>1, <1>5, <2>1 DEF TickStep
<1>6. CASE PublisherStep \/ ReconcilerStep \/ ContractStep \/ Environment
  BY <1>0, <1>1, <1>6 DEF PublisherStep, Retry, ReconcilerStep, ContractStep, Environment
<1>7. CASE RuntimeStep
  BY <1>0, <1>1, <1>7 DEF RuntimeStep, Boot, BootReopen, Crash
<1>8. CASE UNCHANGED vars
  BY <1>0, <1>8 DEF vars
<1> QED
  BY <1>0, <1>1, <1>2, <1>3, <1>4, <1>5, <1>6, <1>7, <1>8
     DEF Next, ThreadStep, Loop, Bind, Section

\* The attempts and the handoffs of the Reconciler are of its requests.
LEMMA NextReconciler ==
  ASSUME Basic, [Next]_vars
  PROVE  attempted' \in [Requested -> {"no", "recorded", "posted"}] /\ handed' \subseteq Requested
<1>0. attempted \in [Requested -> {"no", "recorded", "posted"}] /\ handed \subseteq Requested
  BY DEF Basic, Types
<1>1. CASE "recon" \in Threads /\ ReconcilerStep
  <2>1. th["recon"].at \in {"attempt", "post", "handed"} => th["recon"].own \in Requested
    BY <1>1 DEF Basic, ThreadsSound, Sound, Placed
  <2> QED BY <1>0, <1>1, <2>1 DEF ReconcilerStep, RequestRelease, HandOver, RecordAttempt,
                                  PostGrab, MarkObserved, reconciler
<1>2. CASE ~("recon" \in Threads /\ ReconcilerStep)
  <2>1. UNCHANGED reconciler
    BY <1>2 DEF Next, ThreadStep, Loop, Bind, Section, TickStep, PublisherStep, ContractStep,
                Environment, RuntimeStep, vars
  <2> QED BY <1>0, <2>1 DEF reconciler
<1> QED BY <1>1, <1>2

\* A batch ends within the history, and starts after a watermark.
LEMMA NextIntake ==
  ASSUME Basic, Leased, [Next]_vars
  PROVE  /\ terminals' \subseteq Ops /\ accepted' \subseteq Ops
         /\ batch' \in [next : Nat \ {0}, last : 0 .. Len(history')]
<1>0. /\ terminals \subseteq Ops /\ accepted \subseteq Ops
      /\ batch \in [next : Nat \ {0}, last : 0 .. Len(history)]
      /\ Len(history) \in Nat /\ Len(history') \in Nat /\ Len(history) <= Len(history')
      /\ watermark \in Nat \cup {NoWatermark}
  BY NextTorrents DEF Basic, Types, SnapshotInv, LedgerTypeOK
<1>1. ASSUME UNCHANGED batch PROVE batch' \in [next : Nat \ {0}, last : 0 .. Len(history')]
  <2>1. 0 .. Len(history) \subseteq 0 .. Len(history')
    BY <1>0
  <2> QED BY <1>0, <1>1, <2>1
<1>2. ASSUME batch' = NoBatch PROVE batch' \in [next : Nat \ {0}, last : 0 .. Len(history')]
  BY <1>0, <1>2 DEF NoBatch
<1>3. CASE TickStep
  <2>1. terminals' \subseteq Ops /\ accepted' \subseteq Ops
    BY <1>0, <1>3 DEF TickStep, Tick, Poll, AdoptNext, Adopted, AdvanceWatermark,
                PendingTerminals, Collect, Dispatch, Collected, Receipt, Dispatched, intake
  <2>2. CASE Poll /\ watermark # NoWatermark /\ batch' = [next |-> watermark + 1, last |-> Len(history)]
    BY <1>0, <1>3, <2>2, <2>1 DEF TickStep, arr, NoWatermark
  <2>3. CASE Adopted
    <3>1. batch' = [batch EXCEPT !.next = @ + 1]
      BY <2>3 DEF Adopted
    <3>2. batch' \in [next : Nat \ {0}, last : 0 .. Len(history)]
      BY <1>0, <3>1
    <3>3. 0 .. Len(history) \subseteq 0 .. Len(history')
      BY <1>0
    <3> QED BY <2>1, <3>2, <3>3
  <2>4. CASE UNCHANGED batch \/ batch' = NoBatch
    BY <1>1, <1>2, <2>1, <2>4
  <2> QED BY <1>3, <2>2, <2>3, <2>4 DEF TickStep, Tick, Poll, AdoptNext, AdvanceWatermark,
                PendingTerminals, Collect, Dispatch, Collected, Receipt, Dispatched, intake
<1>4. CASE RuntimeStep
  BY <1>0, <1>1, <1>2, <1>4 DEF RuntimeStep, Boot, BootReopen, Crash, intake
<1>5. CASE ~TickStep /\ ~RuntimeStep
  <2>1. UNCHANGED intake
    BY <1>5 DEF Next, ThreadStep, Loop, Bind, Section, PublisherStep, ReconcilerStep,
                ContractStep, Environment, vars
  <2> QED BY <1>0, <1>1, <2>1 DEF intake
<1> QED BY <1>3, <1>4, <1>5

LEMMA NextLease ==
  ASSUME Basic, [Next]_vars PROVE lease' \in Threads \cup {"free"}
<1>0. lease \in Threads \cup {"free"}
  BY DEF Basic, Types
<1>1. ASSUME NEW t \in Threads, Section(t) PROVE lease' \in Threads \cup {"free"}
  BY <1>0, <1>1 DEF Section, Acquire, Effect, ReadbackTag, ReadbackActivity, ReadbackFails,
                    Settle, LeaseAtSettle
<1>2. CASE Crash
  BY <1>2 DEF Crash
<1>3. ASSUME ~Crash, ~ \E t \in Threads : Section(t) PROVE UNCHANGED lease
  BY <1>3 DEF Next, ThreadStep, Loop, Bind, TickStep, PublisherStep, ReconcilerStep,
              ContractStep, Environment, RuntimeStep, Boot, BootReopen, vars
<1> QED BY <1>0, <1>1, <1>2, <1>3

-----------------------------------------------------------------------------
(* The invariant.                                                          *)

LEMMA InitBasic == FenceInit => Basic /\ Leased
<1> SUFFICES ASSUME FenceInit PROVE Basic /\ Leased
  OBVIOUS
<1>1. LedgerInit /\ SnapshotInv
  BY InitSnapshotInv DEF FenceInit
<1>2. RequestedFit
  BY <1>1 DEF LedgerInit, RequestedFit
<1>3. HistoryFits
  <2>1. history = <<>>
    BY DEF FenceInit
  <2>2. Grabbed = {}
    BY <2>1 DEF Grabbed
  <2>3. Cardinality(Grabbed) = 0
    BY <2>2, FS_EmptySet
  <2> QED BY <2>1, <2>3 DEF HistoryFits
<1>4. Types
  BY <1>1, FenceConstants DEF FenceInit, LedgerInit, Types, NoBatch
<1>5. ThreadsSound /\ Leased
  <2>1. Sound(Idle, state) /\ Idle.at = "idle"
    <3>1. Idle = [Idle EXCEPT !.at = "idle"]
      BY IdleIs
    <3> QED BY ZenonT(40), <3>1, OutsideIs DEF Outside
  <2>2. \A t \in Threads : th[t] = Idle
    BY DEF FenceInit
  <2> QED BY <2>1, <2>2 DEF FenceInit, ThreadsSound, Sound, Leased, Holds, Sees
<1> QED BY <1>1, <1>2, <1>3, <1>4, <1>5 DEF Basic

LEMMA NextBasic == Basic /\ Leased /\ [Next]_vars => Basic' /\ Leased'
<1> SUFFICES ASSUME Basic, Leased, [Next]_vars PROVE Basic' /\ Leased'
  OBVIOUS
<1>1. [LedgerNext]_ledger /\ SnapshotInv /\ RequestedFit
  BY NextLedger DEF Basic
<1>2. LedgerTypeOK'
  BY <1>1, NextTypeOK DEF SnapshotInv
<1>3. SnapshotInv'
  BY <1>1, <1>2, NextSnapshotInv DEF Basic, Types
<1>4. RequestedFit'
  BY <1>1, RequestedKept
<1>5. Types' /\ HistoryFits'
  BY CandidatesKept, NextTorrents, NextBounded, NextReconciler, NextIntake, NextLease
     DEF Types, Basic, TorrentState, NoCandidate
<1>6. ThreadsSound' /\ Leased'
  BY NextThreads
<1> QED BY <1>3, <1>4, <1>5, <1>6 DEF Basic

LEMMA BasicAlways == Spec => [](Basic /\ Leased)
BY InitBasic, NextBasic, PTL DEF Spec

\* Whatever threads, messages, faults and stops interleave, every step of the
\* Fence is one transition of the state model, or none (the persists of
\* fence/service.py, each a method of fence/model.py).
THEOREM FenceKeepsLedger == Spec => LedgerSpec
<1>1. FenceInit => LedgerInit
  BY DEF FenceInit
<1>2. Basic /\ [Next]_vars => [LedgerNext]_ledger
  BY NextLedger
<1> QED BY <1>1, <1>2, BasicAlways, PTL DEF Spec, LedgerSpec

\* Nor do threads, retries and restarts together get around the policy: both of
\* its limits hold of the running Fence, in count and in requested bytes.
THEOREM FencePolicyHolds == Spec => [](InflightBounded /\ RequestedWithinCapacity)
BY FenceKeepsLedger, InflightIsBounded, RequestsFitCapacity, PTL

\* Whatever was interrupted, the runtime can load its store and start, unless a
\* torrent that was adopted as a historical one has been grabbed again.
THEOREM FenceSnapshotsLoad == Spec => [](Loadable \/ Regrabbed)
<1>1. Basic => RecordsLoad
  BY SnapshotInvImpliesLoads DEF Basic, Types, SnapshotLoads, CandidatePaused
<1>2. RecordsLoad => Loadable \/ Regrabbed
  BY DEF Loadable
<1> QED BY <1>1, <1>2, BasicAlways, PTL

\* State, torrents, requests, threads and lease have the values they are meant
\* to have, the records a recovery loop has left included.
THEOREM FenceIsTyped == Spec => []FenceTypeOK
<1>1. Basic => FenceTypeOK
  <2> SUFFICES ASSUME Basic PROVE FenceTypeOK
    OBVIOUS
  <2>1. \A t \in Threads :
          /\ th[t].op \in Ops \cup {"none"} /\ th[t].own \in Ops \cup {"none"}
          /\ th[t].todo \in Seq(Seen(state))
    BY DEF Basic, ThreadsSound, Thread
  <2>2. \A t \in Threads : \A i \in DOMAIN th[t].todo : th[t].todo[i] \in Seen(state)
    BY <2>1
  <2>3. Seen(state) \subseteq [Ops -> ReservationState \cup {"none"}]
    BY DEF Seen, States
  <2>4. history \in Seq(Hashes)
    <3>1. LaterHashes \subseteq Hashes
      BY DEF Hashes
    <3> QED BY <3>1, SeqWider DEF Basic, HistoryFits
  <2> QED BY <2>1, <2>2, <2>3, <2>4 DEF FenceTypeOK, Basic, SnapshotInv, Types
<1> QED BY <1>1, BasicAlways, PTL

-----------------------------------------------------------------------------
(* What qBittorrent is told.                                               *)

LEMMA NextEffect ==
  ASSUME Basic, Leased, EffectHasIntent, [Next]_vars PROVE EffectHasIntent'
<1>0. /\ Onward(state, state') /\ HashKept
      /\ TagHasIntent /\ RunHasIntent
      /\ torrent \in [Hashes -> TorrentState] /\ tags \in [Hashes -> SUBSET Ops]
  BY NextLedger, LedgerOnward DEF Basic, HashKept, EffectHasIntent, Types, TorrentState
<1>1. ASSUME UNCHANGED tags,
             \A h \in Hashes : torrent'[h] \in {"running", "seeding"} => torrent[h] \in {"running", "seeding"}
      PROVE  EffectHasIntent'
  <2>1. TagHasIntent'
    BY <1>0, <1>1, HashIsNotNone DEF TagHasIntent, Onward, HashKept
  <2>2. RunHasIntent'
    BY <1>0, <1>1, HashIsNotNone DEF RunHasIntent, Onward, HashKept
  <2> QED BY <2>1, <2>2 DEF EffectHasIntent
<1>2. ASSUME NEW t \in Threads, Effect(t) PROVE EffectHasIntent'
  <2> DEFINE op == th[t].op
             h == hash[op]
  <2>1. /\ op \in Ops /\ h \in Hashes
        /\ th[t].job \in Tagging => state[op] \in Tagged /\ tags[h] = {}
        /\ th[t].job \in Starting => state[op] \in Resumed /\ tags[h] = {op}
        /\ th[t].job \in Tagging \cup Starting \cup Stopping
    BY <1>2, ActsOnTorrent DEF Effect, Owned
  <2>2. UNCHANGED <<state, hash>>
    BY <1>2 DEF Effect, ledger
  <2>3. CASE UNCHANGED qbittorrent
    BY <1>1, <2>3 DEF qbittorrent
  <2>4. CASE th[t].job \in Tagging /\ Applied(t)
    <3>1. UNCHANGED torrent /\ tags' = [tags EXCEPT ![h] = {op}]
      BY <2>1, <2>4 DEF Applied
    <3> HIDE DEF op, h
    <3>2. TagHasIntent'
      BY <1>0, <2>1, <2>2, <2>4, <3>1 DEF TagHasIntent, h
    <3>3. RunHasIntent'
      BY <1>0, <2>1, <2>2, <2>4, <3>1 DEF RunHasIntent
    <3> QED BY <3>2, <3>3 DEF EffectHasIntent
  <2>5. CASE th[t].job \in Starting /\ Applied(t)
    <3>1. UNCHANGED tags /\ torrent' = Started(h)
      BY <2>5, JobSets DEF Applied
    <3> HIDE DEF op, h
    <3>2. TagHasIntent'
      BY <1>0, <2>2, <3>1 DEF TagHasIntent
    <3>3. \A k \in Hashes : torrent'[k] = torrent[k] \/ k = h
      BY <1>0, <2>1, <3>1 DEF Started
    <3>4. RunHasIntent'
      BY <1>0, <2>1, <2>2, <2>5, <3>1, <3>3 DEF RunHasIntent, h
    <3> QED BY <3>2, <3>4 DEF EffectHasIntent
  <2>6. CASE th[t].job \in Stopping /\ Applied(t)
    <3>1. UNCHANGED tags /\ torrent' = Stopped(h)
      BY <2>6, JobSets DEF Applied
    <3>2. \A k \in Hashes : torrent'[k] \in {"running", "seeding"} => torrent[k] \in {"running", "seeding"}
      BY <1>0, <2>1, <3>1 DEF Stopped, TorrentState
    <3> QED BY <1>1, <3>1, <3>2
  <2> QED BY <1>2, <2>1, <2>3, <2>4, <2>5, <2>6 DEF Effect
<1>3. CASE Environment
  <2>1. \A h \in Hashes : torrent'[h] \in {"running", "seeding"} => torrent[h] \in {"running", "seeding"}
    BY <1>0, <1>3 DEF Environment, ArrGrabs, ArrForgets, Downloads, ShareLimit, qbittorrent, TorrentState
  <2>2. UNCHANGED tags
    BY <1>3 DEF Environment, ArrGrabs, ArrForgets, Downloads, ShareLimit, qbittorrent
  <2> QED BY <1>1, <2>1, <2>2
<1>4. CASE UNCHANGED <<qbittorrent, arr>>
  BY <1>1, <1>4 DEF qbittorrent
<1> QED BY <1>2, <1>3, <1>4, TouchesTorrents

\* A torrent is tagged for at most one reservation.
Owners == \A h \in Hashes : tags[h] = {} \/ \E op \in Ops : tags[h] = {op}

LEMMA NextOwners ==
  ASSUME Basic, Leased, Owners, [Next]_vars PROVE Owners'
<1>0. tags \in [Hashes -> SUBSET Ops]
  BY DEF Basic, Types
<1>1. CASE UNCHANGED tags
  BY <1>1 DEF Owners
<1>2. ASSUME NEW t \in Threads, Effect(t) PROVE Owners'
  <2> DEFINE op == th[t].op
             h == hash[op]
  <2>1. op \in Ops /\ h \in Hashes /\ (th[t].job \in Tagging => tags[h] = {})
    BY <1>2, ActsOnTorrent DEF Effect
  <2>2. UNCHANGED tags \/ tags' = [tags EXCEPT ![h] = {op}]
    BY <1>2, <2>1 DEF Effect, Applied, qbittorrent
  <2> HIDE DEF op, h
  <2> QED BY <1>0, <1>1, <2>1, <2>2 DEF Owners
<1>3. CASE Environment
  BY <1>1, <1>3 DEF Environment, ArrGrabs, ArrForgets, Downloads, ShareLimit, qbittorrent
<1> QED BY <1>1, <1>2, <1>3, TouchesTorrents DEF qbittorrent

\* Whatever was interrupted, lost or repeated, a torrent carries the tag of a
\* reservation only after its tag intent, and runs only after its resume intent.
THEOREM EffectsHaveIntents == Spec => []EffectHasIntent
<1>1. FenceInit => EffectHasIntent
  BY DEF FenceInit, EffectHasIntent, TagHasIntent, RunHasIntent
<1>2. Basic /\ Leased /\ EffectHasIntent /\ [Next]_vars => EffectHasIntent'
  BY NextEffect
<1> QED BY <1>1, <1>2, BasicAlways, PTL DEF Spec

\* However many reservations name a torrent and however many threads bind them
\* at once, one of them tags it.
THEOREM OwnerIsSingle == Spec => []SingleOwner
<1>1. FenceInit => Owners
  BY DEF FenceInit, Owners
<1>2. Basic /\ Leased /\ Owners /\ [Next]_vars => Owners'
  BY NextOwners
<1>3. Owners => SingleOwner
  BY SMTT(30), FS_EmptySet, FS_Singleton DEF Owners, SingleOwner
<1> QED BY <1>1, <1>2, <1>3, BasicAlways, PTL DEF Spec

\* The Reconciler marks a request observed only when the Fence owns its torrent
\* durably, whichever way bind_grab came to its answer.
THEOREM HandedAreOwned == Spec => []HandedIsOwned
<1>1. FenceInit => HandedIsOwned
  BY DEF FenceInit, HandedIsOwned
<1>2. ASSUME Basic, HandedIsOwned, [Next]_vars PROVE HandedIsOwned'
  <2>1. Onward(state, state') /\ handed \subseteq Ops
    BY <1>2, NextLedger, LedgerOnward DEF Basic, Types, Ops
  <2>2. CASE "recon" \in Threads /\ MarkObserved
    <3>1. th["recon"].own \in Ops /\ state[th["recon"].own] \in Tagged
      BY <1>2, <2>2 DEF MarkObserved, Basic, ThreadsSound, Sound, Placed, Knows, Ops
    <3> QED BY <1>2, <2>1, <2>2, <3>1 DEF MarkObserved, HandedIsOwned, Onward
  <2>3. CASE ~("recon" \in Threads /\ MarkObserved)
    <3>1. UNCHANGED handed
      BY <1>2, <2>3 DEF Next, ThreadStep, Loop, Bind, Section, TickStep, PublisherStep,
           ReconcilerStep, RequestRelease, HandOver, RecordAttempt, PostGrab, ContractStep,
           Environment, RuntimeStep, vars, reconciler
    <3> QED BY <1>2, <2>1, <3>1 DEF HandedIsOwned, Onward
  <2> QED BY <2>2, <2>3
<1> QED BY <1>1, <1>2, BasicAlways, PTL DEF Spec

-----------------------------------------------------------------------------
(* The intake of the Arr history.                                          *)

\* The i-th grab is owned durably.
Secured(i) ==
  /\ i \in 1 .. Len(history)
  /\ \E op \in External : hash[op] = history[i] /\ state[op] \in Tagged

InBatch == th["tick"].at \in {"batch", "adopted"} \/ th["tick"].base = "poll"

\* While the tick adopts a batch, what it has passed is secured, and the grab it
\* is at is the one its bind is about.
Intake ==
  /\ InBatch => watermark # NoWatermark /\ \A i \in (watermark + 1) .. (batch.next - 1) : Secured(i)
  /\ th["tick"].at = "adopted" => batch.next <= batch.last /\ Secured(batch.next)
  /\ th["tick"].base = "poll" =>
       batch.next <= batch.last /\ hash[th["tick"].own] = history[batch.next]

\* The history only grows, and what was secured stays secured.
LEMMA HistoryKept ==
  ASSUME Basic, [Next]_vars, NEW i \in 1 .. Len(history) PROVE history'[i] = history[i]
<1>1. CASE UNCHANGED arr
  BY <1>1 DEF arr
<1>2. CASE Environment
  <2>1. UNCHANGED history \/ \E h \in Hashes : ArrGrabs(h)
    BY <1>2 DEF Environment, ArrGrabs, ArrForgets, Downloads, ShareLimit, arr
  <2>2. ASSUME NEW h \in Hashes, ArrGrabs(h) PROVE history'[i] = history[i]
    <3>1. history \in Seq(LaterHashes) /\ history' = Append(history, h)
      BY <2>2 DEF ArrGrabs, Basic, HistoryFits
    <3> QED BY <3>1
  <2> QED BY <2>1, <2>2
<1> QED BY <1>1, <1>2, TouchesTorrents

LEMMA SecuredKept ==
  ASSUME Basic, Leased, [Next]_vars, NEW i, Secured(i) PROVE Secured(i)'
<1>1. Onward(state, state') /\ HashKept
  BY NextLedger, LedgerOnward DEF Basic, HashKept
<1>2. PICK op \in External : hash[op] = history[i] /\ state[op] \in Tagged
  BY DEF Secured
<1>3. i \in 1 .. Len(history) /\ history'[i] = history[i] /\ history[i] \in LaterHashes
  BY HistoryKept DEF Secured, Basic, HistoryFits
<1>4. op \in Ops /\ history[i] # NoHash
  BY <1>3, HashIsNotNone DEF Ops, Hashes
<1>5. hash'[op] = history'[i] /\ state'[op] \in Tagged
  BY <1>1, <1>2, <1>3, <1>4 DEF Onward, HashKept
<1>6. i \in 1 .. Len(history')
  BY <1>3, NextTorrents
<1> QED BY <1>5, <1>6 DEF Secured

\* Only the tick moves the watermark.
LEMMA WatermarkKept ==
  ASSUME Basic, [Next]_vars, ~TickStep PROVE UNCHANGED watermark
<1>1. CASE UNCHANGED ledger
  BY <1>1 DEF ledger
<1>2. ASSUME NEW t \in Threads, Loop(t) PROVE UNCHANGED watermark
  BY <1>2 DEF Loop, LoopDone, LoopPause, LoopActivate, LoopBind, LoopRetag, LoopStopped,
              LoopResume, LoopStop, LoopReopen, Skip, RequestPause, MarkTagged, ledger
<1>3. ASSUME NEW t \in Threads, Bind(t) PROVE UNCHANGED watermark
  BY <1>3 DEF Bind, BindNew, BindAgain, BindTag, Claim, Freeze, Ready, Request,
              BindObservedGrab, RequestTag, MarkTagged, RequestResume, RequestFreeze, ledger
<1>4. ASSUME NEW t \in Threads, Section(t) PROVE UNCHANGED watermark
  <2>1. ASSUME Settle(t) PROVE UNCHANGED watermark
    <3>1. th[t].job \in Starting \cup Stopping
      BY <2>1 DEF Settle, Basic, ThreadsSound, Sound, Placed
    <3> QED BY <2>1, <3>1 DEF Settle, Settles, Starting, Stopping, MarkActive,
               MarkHistoricalManaged, MarkPaused, MarkFrozen, ledger
  <2>2. ASSUME Acquire(t) \/ Effect(t) \/ ReadbackActivity(t) \/ ReadbackFails(t) \/ ReadbackTag(t)
        PROVE  UNCHANGED watermark
    BY <2>2 DEF Acquire, Effect, ReadbackActivity, ReadbackFails, ReadbackTag, MarkTagged, ledger
  <2> QED BY <1>4, <2>1, <2>2 DEF Section
<1>5. CASE ReconcilerStep
  BY <1>5 DEF ReconcilerStep, RequestRelease, HandOver, RecordAttempt, PostGrab, MarkObserved,
              PreAdmit, Reserve, ledger
<1>6. CASE ContractStep
  BY <1>6 DEF ContractStep, Quiesce, Reopen, Adopt, Activate, BeginQuiescence, EndQuiescence,
              AdoptPostPnr, Reserve, RequestHistoricalActivation, ledger
<1>7. CASE PublisherStep \/ Environment \/ RuntimeStep
  BY <1>1, <1>7 DEF PublisherStep, Retry, Environment, RuntimeStep, Boot, BootReopen, Crash,
                    EndQuiescence, ledger
<1> QED BY <1>2, <1>3, <1>4, <1>5, <1>6, <1>7 DEF Next, ThreadStep, vars, ledger

\* A step that neither moves the watermark nor the batch.
LEMMA IntakeKept ==
  ASSUME Basic, Leased, Intake, [Next]_vars, UNCHANGED <<watermark, batch>>,
         th'["tick"].at = "batch" => th["tick"].at = "batch",
         th'["tick"].at = "adopted" =>
           \/ th["tick"].at = "adopted"
           \/ th["tick"].base = "poll" /\ state'[th["tick"].own] \in Tagged,
         th'["tick"].base = "poll" => th["tick"].base = "poll" /\ th'["tick"].own = th["tick"].own
  PROVE  Intake'
<1>0. /\ "tick" \in Threads /\ HashKept
      /\ batch.next \in Nat \ {0} /\ batch.last \in 0 .. Len(history) /\ Len(history) \in Nat
      /\ history \in Seq(LaterHashes)
  BY FenceConstants, NextLedger, LedgerOnward, NextTorrents
     DEF Basic, HashKept, Types, HistoryFits
<1>1. InBatch' => InBatch
  BY DEF InBatch
<1>2. ASSUME th["tick"].base = "poll"
      PROVE  /\ batch.next \in 1 .. Len(history) /\ th["tick"].own \in External
             /\ hash'[th["tick"].own] = history'[batch.next]
  <2>1. batch.next \in 1 .. Len(history)
    BY <1>0, <1>2 DEF Intake
  <2>2. hash[th["tick"].own] = history[batch.next] /\ history[batch.next] \in LaterHashes
    BY <1>0, <1>2, <2>1 DEF Intake
  <2>3. th["tick"].own \in External /\ th["tick"].own \in Ops
    BY <1>0, <1>2 DEF Basic, ThreadsSound, Sound, Placed, Ops
  <2>4. hash[th["tick"].own] # NoHash
    BY <2>2, HashIsNotNone DEF Hashes
  <2>5. history'[batch.next] = history[batch.next]
    BY <2>1, HistoryKept
  <2> QED BY <1>0, <2>1, <2>2, <2>3, <2>4, <2>5 DEF HashKept
<1>3. \A i : Secured(i) => Secured(i)'
  BY SecuredKept
<1>4. ASSUME th["tick"].base = "poll", state'[th["tick"].own] \in Tagged PROVE Secured(batch.next)'
  <2>1. batch.next \in 1 .. Len(history')
    BY <1>0, <1>2, <1>4, NextTorrents
  <2> QED BY <1>2, <1>4, <2>1 DEF Secured
<1> QED BY <1>1, <1>2, <1>3, <1>4 DEF Intake

\* What one thread does in its loops, binds and sections.
LEMMA ThreadIntake ==
  ASSUME Basic, Leased, Intake, [Next]_vars, NEW t \in Threads, ThreadStep(t), UNCHANGED watermark
  PROVE  Intake'
<1>0. UNCHANGED batch
  BY DEF ThreadStep, Loop, Bind, Section, intake
<1>1. Carries(t)
  BY NextLedger, LedgerOnward, ThreadStepCarries DEF Basic, HashKept
<1>2. CASE t = "tick"
  BY <1>0, <1>1, <1>2, IntakeKept DEF Carries, Returned, Moved, Serving
<1>3. CASE t # "tick"
  <2>1. th'["tick"] = th["tick"]
    BY <1>1, <1>3, FenceConstants DEF Carries, Returned, Moved, Others
  <2> QED BY <1>0, <2>1, IntakeKept
<1> QED BY <1>2, <1>3

\* What the tick does of its own.
LEMMA TickIntake ==
  ASSUME Basic, Leased, Intake, [Next]_vars, TickStep PROVE Intake'
<1>0. /\ ThreadsSound /\ ThreadsSound' /\ "tick" \in Threads
      /\ Onward(state, state') /\ HashKept
  BY NextThreads, NextLedger, LedgerOnward, FenceConstants DEF Basic, HashKept
<1>1. /\ batch.next \in Nat \ {0} /\ batch.last \in 0 .. Len(history) /\ Len(history) \in Nat
      /\ watermark \in Nat \cup {NoWatermark} /\ UNCHANGED history
      /\ batch \in [next : Nat \ {0}, last : 0 .. Len(history)]
  BY NextTorrents DEF Basic, Types, SnapshotInv, LedgerTypeOK, TickStep, arr
<1>2. ASSUME NEW at \in Outside, Become("tick", [Idle EXCEPT !.at = at])
      PROVE  th'["tick"].at = at /\ th'["tick"].base = "none"
  BY <1>0, <1>2, PlainIs DEF Starts
<1>3. ASSUME NEW at \in {"publish", "dispatch"}, Become("tick", [Idle EXCEPT !.at = at]) PROVE Intake'
  <2>1. th'["tick"].at = at /\ th'["tick"].base = "none"
    BY <1>2, <1>3 DEF Outside
  <2> QED BY <2>1 DEF Intake, InBatch
<1>4. CASE Tick
  <2>1. StartLoop("tick", "tick", Recoverable)
    BY <1>4 DEF Tick
  <2>2. th'["tick"].at = "loop" /\ th'["tick"].base = "tick"
    BY <1>0, <2>1, StartLoopIs DEF Basic, SnapshotInv
  <2> QED BY <2>2 DEF Intake, InBatch
<1>5. CASE Poll
  <2>1. CASE /\ watermark # NoWatermark /\ batch' = [next |-> watermark + 1, last |-> Len(history)]
             /\ Become("tick", [Idle EXCEPT !.at = "batch"]) /\ UNCHANGED ledger
    <3>1. th'["tick"].at = "batch" /\ th'["tick"].base = "none"
      BY <1>2, <2>1 DEF Outside
    <3>2. watermark' = watermark /\ watermark \in Nat /\ batch'.next = watermark + 1
      BY <1>1, <2>1 DEF ledger, NoWatermark
    <3>3. (watermark' + 1) .. (batch'.next - 1) = {}
      BY <3>2
    <3> QED BY <2>1, <3>1, <3>2, <3>3 DEF Intake
  <2> QED BY <1>3, <1>5, <2>1 DEF Poll
<1>6. CASE AdoptNext
  <2> DEFINE h == history[batch.next]
  <2>0. th["tick"].at = "batch" /\ batch.next \in 1 .. Len(history) /\ UNCHANGED batch
        /\ batch.next <= batch.last
    BY <1>1, <1>6 DEF AdoptNext, intake
  <2>1. ASSUME NEW op \in External, BindNext(op), hash'[op] = h, UNCHANGED watermark PROVE Intake'
    <3>1. Starts("tick", "bind", "poll", op)
      BY <1>0, <2>1, ServeIs DEF BindNext, Ops
    <3>2. th'["tick"].at = "bind" /\ th'["tick"].base = "poll" /\ th'["tick"].own = op
      BY <3>1 DEF Starts
    <3>3. InBatch
      BY <2>0 DEF InBatch
    <3>4. watermark' # NoWatermark /\ \A i \in (watermark' + 1) .. (batch'.next - 1) : Secured(i)'
      BY <2>0, <2>1, <3>3, SecuredKept DEF Intake
    <3> QED BY <1>1, <2>0, <2>1, <3>2, <3>4 DEF Intake
  <2>2. ASSUME NEW op \in External, AdoptExternal(op, h, Expected[h])
        PROVE  hash'[op] = h /\ UNCHANGED watermark
    BY <2>2 DEF AdoptExternal, Reserve, Ops, Basic, SnapshotInv, LedgerTypeOK
  <2>3. ASSUME NEW op \in External, hash[op] = h, UNCHANGED ledger
        PROVE  hash'[op] = h /\ UNCHANGED watermark
    BY <2>3 DEF ledger
  <2> QED BY <1>3, <1>6, <2>1, <2>2, <2>3 DEF AdoptNext
<1>7. CASE Adopted
  <2>1. /\ th["tick"].at = "adopted" /\ UNCHANGED ledger
        /\ batch' = [batch EXCEPT !.next = @ + 1] /\ Become("tick", [Idle EXCEPT !.at = "batch"])
    BY <1>7 DEF Adopted
  <2>2. th'["tick"].at = "batch" /\ th'["tick"].base = "none"
    BY <1>2, <2>1 DEF Outside
  <2>3. InBatch /\ Secured(batch.next)
    BY <2>1 DEF InBatch, Intake
  <2>4. watermark' = watermark /\ watermark \in Nat /\ batch'.next = batch.next + 1
    BY <1>1, <2>1, <2>3 DEF ledger, Intake, NoWatermark
  <2>5. \A i \in (watermark' + 1) .. (batch'.next - 1) : Secured(i)
    BY <1>1, <2>3, <2>4 DEF Intake
  <2>6. \A i \in (watermark' + 1) .. (batch'.next - 1) : Secured(i)'
    BY <2>5, SecuredKept
  <2> QED BY <2>2, <2>3, <2>4, <2>6 DEF Intake
<1>8. CASE AdvanceWatermark \/ Collected \/ Receipt
  BY <1>3, <1>8 DEF AdvanceWatermark, Collected, Receipt
<1>9. CASE PendingTerminals
  <2>1. Starts("tick", "collect", "none", "none")
    BY <1>0, <1>9, CollectIs DEF PendingTerminals, Basic, SnapshotInv
  <2> QED BY <2>1 DEF Starts, Intake, InBatch
<1>10. ASSUME NEW op \in Ops, Collect(op) PROVE Intake'
  <2>1. th["tick"].at = "collect" /\ Become("tick", [Taken("tick", op) EXCEPT !.op = "none"])
        /\ UNCHANGED <<batch, watermark>>
    BY <1>10 DEF Collect, Complete, ledger
  <2>2. Moved("tick", "collect", "none", th["tick"].job)
    BY <1>0, <2>1, PassIs
  <2> QED BY <2>1, <2>2, IntakeKept DEF Moved
<1>11. ASSUME NEW op \in Ops, Dispatch(op) PROVE Intake'
  <2>1. CASE UNCHANGED th
    BY <1>11, <2>1, IntakeKept DEF Dispatch, ledger
  <2>2. ASSUME NEW at \in {"freeze", "receipt"}, Serve("tick", op, at, "dispatch") PROVE Intake'
    <3>1. Starts("tick", at, "dispatch", op)
      BY <1>0, <2>2, ServeIs DEF Serve
    <3> QED BY <3>1 DEF Starts, Intake, InBatch
  <2> QED BY <1>11, <2>1, <2>2 DEF Dispatch
<1>12. CASE Dispatched
  <2>1. Starts("tick", "idle", "none", "none")
    BY <1>0, <1>12, RestsIs DEF Dispatched
  <2> QED BY <2>1 DEF Starts, Intake, InBatch
<1> QED
  BY <1>4, <1>5, <1>6, <1>7, <1>8, <1>9, <1>10, <1>11, <1>12 DEF TickStep

LEMMA NextIntakeInv ==
  ASSUME Basic, Leased, Intake, [Next]_vars PROVE Intake'
<1>0. /\ ThreadsSound /\ ThreadsSound' /\ "tick" \in Threads /\ LedgerTypeOK
      /\ Onward(state, state')
  BY NextThreads, NextLedger, LedgerOnward, FenceConstants DEF Basic, SnapshotInv
<1>1. CASE TickStep
  BY <1>1, TickIntake
<1>2. CASE ~TickStep
  <2>0. UNCHANGED watermark
    BY <1>2, WatermarkKept
  <2>1. ASSUME NEW t \in Threads, ThreadStep(t) PROVE Intake'
    BY <2>0, <2>1, ThreadIntake
  <2>2. ASSUME UNCHANGED batch, th'["tick"] = th["tick"] PROVE Intake'
    BY <2>0, <2>2, IntakeKept
  <2>3. CASE "pub" \in Threads /\ PublisherStep
    BY <2>2, <2>3, <1>0 DEF PublisherStep, Retry, Serve, Become, ThreadsSound, intake
  <2>4. CASE "recon" \in Threads /\ ReconcilerStep
    BY <2>2, <2>4, <1>0, ReconcilerGoes DEF ReconcilerStep, intake, Others
  <2>5. CASE ContractStep
    BY <2>2, <2>5, <1>0, ContractGoes DEF ContractStep, intake, Others
  <2>6. CASE Environment \/ UNCHANGED vars
    BY <2>2, <2>6 DEF Environment, vars, intake
  <2>7. CASE Boot \/ BootReopen
    <3>1. \E base \in {"boot", "reopen"} : \E states : StartLoop("tick", base, states)
      BY <2>7 DEF Boot, BootReopen
    <3>2. th'["tick"].at = "loop" /\ th'["tick"].base \in {"boot", "reopen"}
      BY <1>0, <3>1, StartLoopIs
    <3> QED BY <3>2 DEF Intake, InBatch
  <2>8. CASE Crash
    <3>1. th'["tick"].at = "idle" /\ th'["tick"].base = "none"
      BY <1>0, <2>8, IdleIs DEF Crash
    <3> QED BY <3>1 DEF Intake, InBatch
  <2> QED BY <1>2, <2>1, <2>3, <2>4, <2>5, <2>6, <2>7, <2>8 DEF Next, RuntimeStep
<1> QED BY <1>1, <1>2

LEMMA IntakeAlways == Spec => [](Basic /\ Leased /\ Intake)
<1>1. FenceInit => Intake
  <2> SUFFICES ASSUME FenceInit PROVE Intake
    OBVIOUS
  <2>1. th["tick"].at = "idle" /\ th["tick"].base = "none"
    BY IdleIs, FenceConstants DEF FenceInit
  <2> QED BY <2>1 DEF Intake, InBatch
<1>2. Basic /\ Leased /\ Intake /\ [Next]_vars => Intake'
  BY NextIntakeInv
<1> QED BY <1>1, <1>2, InitBasic, NextBasic, PTL DEF Spec

\* The watermark passes a grab only when an operation owns it durably: no fault
\* in the middle of a batch, stop or retry skips one (poll_external).
THEOREM NoGrabIsSkipped == Spec => NoGrabSkipped
<1>1. ASSUME Basic, Leased, Intake, [Next]_vars
      PROVE  [watermark # NoWatermark =>
                \A i \in (watermark + 1) .. watermark' :
                  \E op \in External : hash[op] = history[i] /\ state[op] \in Tagged]_vars
  <2> SUFFICES ASSUME watermark # NoWatermark, NEW i \in (watermark + 1) .. watermark'
               PROVE  \E op \in External : hash[op] = history[i] /\ state[op] \in Tagged
    OBVIOUS
  <2>0. watermark \in Nat
    BY <1>1 DEF Basic, SnapshotInv, LedgerTypeOK
  <2>1. ~ UNCHANGED watermark
    BY <2>0
  <2>2. TickStep
    BY <1>1, <2>1, WatermarkKept
  <2>3. AdvanceWatermark
    BY <2>1, <2>2 DEF TickStep, Tick, Poll, AdoptNext, Adopted, PendingTerminals, Collect,
                Dispatch, Collected, Receipt, Dispatched, AdoptExternal, Reserve, Complete,
                AcceptCustody, ledger
  <2>4. InBatch /\ watermark' = batch.last /\ batch.next > batch.last
    BY <2>3 DEF AdvanceWatermark, RecordWatermark, InBatch
  <2>5. batch.next \in Nat /\ batch.last \in Nat
    BY <1>1, HistoryIsShort DEF Basic, Types
  <2>6. i \in (watermark + 1) .. (batch.next - 1)
    BY <2>0, <2>4, <2>5
  <2> QED BY <1>1, <2>4, <2>6 DEF Intake, Secured
<1> QED BY <1>1, IntakeAlways, PTL DEF Spec, NoGrabSkipped
=============================================================================
