---------------------------- MODULE HealthProofs ----------------------------
(***************************************************************************)
(* What holds of the health poll for every set of candidates, every size   *)
(* and timeout, and any number of failed calls, restarts and closings.     *)
(***************************************************************************)
EXTENDS Health, TLAPS

CandidateRecord ==
  [status : {"none", "probing", "invalidated"}, meta : BOOLEAN, bytes : Nat, probe : Nat,
   quiet : Nat, failures : Nat]
Torrent ==
  [here : BOOLEAN, meta : BOOLEAN, bytes : Nat, alive : BOOLEAN, running : BOOLEAN, still : Nat]
Sample == [meta : BOOLEAN, bytes : Nat, dead : BOOLEAN, still : Nat]
Places ==
  {"idle", "next", "observe", "judge", "pause", "blocklist", "delete", "release", "deliver"}
Thread ==
  [pc : Places,
   todo : SUBSET Candidates, at : Candidates \union {0}, health : Sample,
   found : SUBSET Candidates]

Types ==
  /\ res \in [Candidates -> {"active", "paused", "terminal", "invalidated"}]
  /\ cand \in [Candidates -> CandidateRecord]
  /\ torrent \in [Candidates -> Torrent]
  /\ failed \in SUBSET Candidates
  /\ poll \in Thread
  /\ replaced \in [Candidates -> Nat]
  /\ lost \in SUBSET Candidates
  /\ troubles \in Nat

\* What the place of the thread says of the candidate in its hands.
Placed ==
  /\ poll.pc \in {"observe", "judge", "pause", "blocklist", "delete", "release"}
       => poll.at \in Candidates
  /\ poll.pc \in {"pause", "blocklist", "delete", "release"}
       => cand[poll.at].status = "invalidated"
  /\ poll.pc \in {"delete", "release"} => poll.at \in failed
  /\ poll.pc = "release" => ~torrent[poll.at].here
  /\ poll.pc = "judge" => torrent[poll.at].here

\* A candidate is collected for replacement before it is replaced.
CollectedOnce == \A c \in poll.found : replaced[c] = 0

OrderInv == Placed /\ GivenUpInOrder /\ CollectedOnce

\* A sample, and the record made from it, never run ahead of the torrent.
Sampled ==
  /\ \A c \in Candidates :
       /\ torrent[c].here => cand[c].bytes <= torrent[c].bytes /\ (cand[c].meta => torrent[c].meta)
       /\ res[c] = "terminal" => cand[c] = NoCandidate
       /\ cand[c].failures <= MinFailures
       /\ cand[c].quiet <= cand[c].probe /\ cand[c].probe <= Longest
  /\ poll.pc = "judge" =>
       /\ poll.health.bytes <= torrent[poll.at].bytes
       /\ poll.health.meta => torrent[poll.at].meta

\* A torrent has been waiting for at least as long as its record says.
Clocked ==
  /\ \A c \in Candidates : torrent[c].here =>
       /\ ~torrent[c].meta => cand[c].probe <= torrent[c].still
       /\ cand[c].meta /\ torrent[c].bytes = cand[c].bytes => cand[c].quiet <= torrent[c].still
  /\ poll.pc = "judge" =>
       /\ ~poll.health.meta => cand[poll.at].probe <= poll.health.still
       /\ poll.health.meta /\ cand[poll.at].meta /\ poll.health.bytes = cand[poll.at].bytes
            => cand[poll.at].quiet <= poll.health.still

-----------------------------------------------------------------------------

LEMMA ConstantsTyped ==
  Idle \in Thread /\ NoCandidate \in CandidateRecord /\ Gone \in Torrent /\ NoHealth \in Sample
<1>1. Idle \in Thread /\ NoHealth \in Sample
  BY DEF Idle, Thread, NoHealth, Sample, Places
<1>2. NoCandidate \in CandidateRecord /\ Gone \in Torrent
  BY DEF NoCandidate, CandidateRecord, Gone, Torrent
<1> QED BY <1>1, <1>2

LEMMA MaxOfTwo ==
  ASSUME NEW a \in Nat, NEW b \in Nat
  PROVE  Max({a, b}) \in {a, b} /\ Max({a, b}) >= a /\ Max({a, b}) >= b
<1>1. \E m \in {a, b} : \A n \in {a, b} : m >= n
  <2>1. CASE a >= b
    BY <2>1
  <2>2. CASE b >= a
    BY <2>2
  <2> QED BY <2>1, <2>2
<1> QED BY <1>1 DEF Max

LEMMA InitTypes == HealthInit => Types
<1> SUFFICES ASSUME HealthInit PROVE Types
  OBVIOUS
<1>1. [Gone EXCEPT !.here = TRUE, !.running = TRUE] \in Torrent
  BY DEF Gone, Torrent
<1> QED BY <1>1, ConstantsTyped DEF HealthInit, Types

LEMMA PollTyped ==
  ASSUME Types
  PROVE  /\ poll.todo \subseteq Candidates /\ poll.found \subseteq Candidates
         /\ poll.at \in Candidates \union {0} /\ poll.health \in Sample
         /\ \A pc \in Places : [poll EXCEPT !.pc = pc] \in Thread
         /\ Abort => poll' \in Thread /\ lost' \in SUBSET Candidates
<1>1. /\ poll.todo \subseteq Candidates /\ poll.found \subseteq Candidates
      /\ poll.at \in Candidates \union {0} /\ poll.health \in Sample
  BY DEF Types, Thread
<1>2. \A pc \in Places : [poll EXCEPT !.pc = pc] \in Thread
  BY DEF Types, Thread
<1>3. Abort => poll' \in Thread /\ lost' \in SUBSET Candidates
  BY <1>1, ConstantsTyped DEF Types, Abort
<1> QED BY <1>1, <1>2, <1>3

LEMMA TorrentTyped ==
  ASSUME NEW t \in Torrent
  PROVE  /\ [t EXCEPT !.running = FALSE] \in Torrent /\ [t EXCEPT !.running = TRUE] \in Torrent
         /\ [t EXCEPT !.alive = ~@] \in Torrent /\ [t EXCEPT !.meta = TRUE, !.still = 0] \in Torrent
         /\ [t EXCEPT !.bytes = @ + 1, !.still = 0] \in Torrent
<1>1. /\ [t EXCEPT !.running = FALSE] \in Torrent /\ [t EXCEPT !.running = TRUE] \in Torrent
      /\ [t EXCEPT !.meta = TRUE, !.still = 0] \in Torrent
  BY DEF Torrent
<1>2. [t EXCEPT !.alive = ~@] \in Torrent
  BY DEF Torrent
<1>3. [t EXCEPT !.bytes = @ + 1, !.still = 0] \in Torrent
  <2>1. t.bytes + 1 \in Nat
    BY DEF Torrent
  <2>2. ASSUME NEW n \in Nat PROVE [t EXCEPT !.bytes = n, !.still = 0] \in Torrent
    BY DEF Torrent
  <2> QED BY <2>1, <2>2
<1> QED BY <1>1, <1>2, <1>3

\* Each variable that an action changes keeps its type.
LEMMA NextTypes == Types /\ Placed /\ [HealthNext]_vars => Types'
<1> SUFFICES ASSUME Types, Placed, [HealthNext]_vars PROVE Types'
  OBVIOUS
<1>0. Trouble => troubles' \in Nat
  BY DEF Trouble, Types
<1>1. CASE StartPoll
  <2>1. poll' \in Thread
    BY <1>1 DEF StartPoll, Idle, Thread, Places, NoHealth, Sample
  <2> QED BY <1>1, <2>1 DEF StartPoll, Types
<1>2. CASE TakeNext
  <2>1. CASE poll.todo = {} /\ To("deliver") /\ UNCHANGED <<cand, lost>>
    BY <1>2, <2>1, PollTyped DEF TakeNext, Types, Places, To
  <2>2. ASSUME NEW c \in First(poll.todo), NEW pc \in Places,
               poll' = [poll EXCEPT !.todo = @ \ {c}, !.at = c, !.pc = pc]
        PROVE  c \in Candidates /\ poll' \in Thread
    BY <2>2, PollTyped DEF Types, Thread, First
  <2>3. [NoCandidate EXCEPT !.status = "probing"] \in CandidateRecord
    BY DEF NoCandidate, CandidateRecord
  <2>4. ASSUME NEW c \in First(poll.todo), UNCHANGED lost,
               cand' = [cand EXCEPT ![c] = IF @ = NoCandidate
                          THEN [NoCandidate EXCEPT !.status = "probing"] ELSE @],
               poll' = [poll EXCEPT !.todo = @ \ {c}, !.at = c, !.pc = "observe"]
        PROVE  Types'
    BY <1>2, <2>2, <2>3, <2>4 DEF TakeNext, Types, Places
  <2>5. ASSUME NEW c \in First(poll.todo), Abort, UNCHANGED cand
        PROVE  Types'
    BY <1>2, <2>5, PollTyped DEF TakeNext, Types
  <2>6. ASSUME NEW c \in First(poll.todo), UNCHANGED <<cand, lost>>, 
               poll' = [poll EXCEPT !.todo = @ \ {c}, !.at = c,
                          !.pc = IF cand[c].status = "probing" THEN "next" ELSE "pause"]
        PROVE  Types'
    BY <1>2, <2>2, <2>6 DEF TakeNext, Types, Places
  <2> QED BY <1>2, <2>1, <2>4, <2>5, <2>6 DEF TakeNext
<1>3. CASE ObserveCandidateHealth
  <2>1. torrent[poll.at] \in Torrent
    BY <1>3 DEF ObserveCandidateHealth, At, Placed, Types
  <2>2. ASSUME poll' = [poll EXCEPT !.pc = "judge", !.health =
                 [meta |-> torrent[poll.at].meta, bytes |-> torrent[poll.at].bytes,
                  dead |-> ~torrent[poll.at].alive, still |-> torrent[poll.at].still]]
        PROVE  poll' \in Thread
    BY <2>1, <2>2 DEF Types, Thread, Torrent, Sample, Places
  <2>3. poll' \in Thread
    BY <1>3, <2>2, PollTyped DEF ObserveCandidateHealth, Places, To, Current
  <2> QED BY <1>0, <1>3, <2>3 DEF ObserveCandidateHealth, Types
<1>4. CASE Judge
  <2>1. CASE Abort /\ UNCHANGED cand
    BY <1>4, <2>1, PollTyped DEF Judge, Types
  <2>2. CASE cand[Current].status = "probing"
    <3> DEFINE k == Judged(cand[Current], poll.health)
    <3>1. cand[Current] \in CandidateRecord /\ poll.health \in Sample
      BY <1>4, PollTyped DEF Judge, At, Placed, Types, Current
    <3>2. k \in CandidateRecord
      <4>1. ASSUME NEW m \in CandidateRecord
            PROVE  /\ RecordFailure(m) \in CandidateRecord
                   /\ [m EXCEPT !.status = "invalidated"] \in CandidateRecord
        BY DEF RecordFailure, CandidateRecord
      <4>2. RecordMetadata(cand[Current], poll.health.bytes) \in CandidateRecord
        BY <3>1 DEF RecordMetadata, CandidateRecord, Sample
      <4> QED BY <3>1, <4>1, <4>2 DEF Judged, Invalidate
    <3>3. poll' \in Thread
      <4> HIDE DEF k
      <4> QED BY <1>4, <2>2, ConstantsTyped DEF Judge, Types, Thread, Places, k
    <3> HIDE DEF k
    <3> QED BY <1>4, <2>2, <3>2, <3>3 DEF Judge, Types, k
  <2> QED BY <1>4, <2>1, <2>2 DEF Judge
<1>5. CASE Pause
  <2>1. torrent' \in [Candidates -> Torrent]
    <3>1. torrent[Current] \in Torrent
      BY <1>5 DEF Pause, At, Placed, Types, Current
    <3> QED BY <1>5, <3>1, TorrentTyped DEF Pause, Types
  <2>2. poll' \in Thread /\ lost' \in SUBSET Candidates
    BY <1>5, PollTyped DEF Pause, To, Places, Types
  <2> QED BY <1>0, <1>5, <2>1, <2>2 DEF Pause, Types
<1>6. CASE MarkHistoryFailed
  <2>1. failed' \in SUBSET Candidates
    BY <1>6 DEF MarkHistoryFailed, At, Placed, Types, Current
  <2>2. poll' \in Thread
    BY <1>6, PollTyped DEF MarkHistoryFailed, To, Places
  <2> QED BY <1>0, <1>6, <2>1, <2>2 DEF MarkHistoryFailed, Types
<1>7. CASE DeleteOwnedIncomplete
  <2>1. torrent' \in [Candidates -> Torrent]
    BY <1>7, ConstantsTyped DEF DeleteOwnedIncomplete, Types
  <2>2. poll' \in Thread
    BY <1>7, PollTyped DEF DeleteOwnedIncomplete, To, Places
  <2> QED BY <1>0, <1>7, <2>1, <2>2 DEF DeleteOwnedIncomplete, Types
<1>8. CASE ReleaseInvalidated
  <2>1. Current \in Candidates
    BY <1>8 DEF ReleaseInvalidated, At, Placed, Current
  <2>2. poll' \in Thread
    <3>1. [poll EXCEPT !.pc = "next", !.found = @ \union {Current}] \in Thread
      BY <2>1 DEF Types, Thread, Places
    <3> QED BY <1>8, <3>1, ConstantsTyped DEF ReleaseInvalidated
  <2>3. lost' \in SUBSET Candidates
    BY <1>8, <2>1, PollTyped DEF ReleaseInvalidated, Types
  <2> QED BY <1>8, <2>2, <2>3 DEF ReleaseInvalidated, Types
<1>9. CASE Deliver
  <2>1. replaced' \in [Candidates -> Nat]
    BY <1>9 DEF Deliver, Types
  <2>2. poll' \in Thread
    BY <1>9, PollTyped, ConstantsTyped DEF Deliver, Types, Thread
  <2>3. lost' \in SUBSET Candidates
    BY <1>9, PollTyped DEF Deliver, Types
  <2> QED BY <1>0, <1>9, <2>1, <2>2, <2>3 DEF Deliver, Types
<1>10. CASE Pass
  <2>1. Longest \in Nat
    BY HealthConstants, MaxOfTwo DEF Longest
  <2>2. \A w \in Nat : Later(w) \in Nat
    BY <2>1 DEF Later
  <2>3. cand' \in [Candidates -> CandidateRecord]
    <3>1. ASSUME NEW c \in Candidates
          PROVE  [cand[c] EXCEPT !.probe = Later(@), !.quiet = IF cand[c].meta THEN Later(@) ELSE 0]
                   \in CandidateRecord
      <4>1. cand[c] \in CandidateRecord
        BY DEF Types
      <4>2. Later(cand[c].probe) \in Nat /\ Later(cand[c].quiet) \in Nat
        BY <2>2, <4>1 DEF CandidateRecord
      <4> QED BY <4>1, <4>2 DEF CandidateRecord
    <3> QED BY <1>10, <3>1, ConstantsTyped DEF Pass
  <2>4. torrent' \in [Candidates -> Torrent]
    <3>1. ASSUME NEW c \in Candidates PROVE [torrent[c] EXCEPT !.still = Later(@)] \in Torrent
      BY <2>2 DEF Types, Torrent
    <3> QED BY <1>10, <3>1 DEF Pass, Types
  <2> QED BY <1>10, <2>3, <2>4 DEF Pass, Types
<1>11. CASE Crash
  BY <1>0, <1>11, PollTyped DEF Crash, Types
<1>12. ASSUME NEW c \in Candidates, Complete(c) \/ Close(c) \/ Reopen(c) \/ Swarm(c) \/ Load(c)
      PROVE  Types'
  <2>1. torrent' \in [Candidates -> Torrent]
    <3>1. torrent[c] \in Torrent
      BY DEF Types
    <3> QED BY <1>12, <3>1, TorrentTyped DEF Complete, Close, Reopen, Swarm, Load, Types
  <2>2. cand' \in [Candidates -> CandidateRecord]
    BY <1>12, ConstantsTyped DEF Complete, Close, Reopen, Swarm, Load, Types
  <2> QED BY <1>0, <1>12, <2>1, <2>2 DEF Complete, Close, Reopen, Swarm, Load, Types
<1>13. CASE UNCHANGED vars
  BY <1>13 DEF vars, Types
<1> QED
  BY <1>1, <1>2, <1>3, <1>4, <1>5, <1>6, <1>7, <1>8, <1>9, <1>10, <1>11, <1>12, <1>13
     DEF HealthNext, FenceStep

-----------------------------------------------------------------------------
LEMMA InitOrdered == HealthInit => OrderInv
<1> SUFFICES ASSUME HealthInit PROVE OrderInv
  OBVIOUS
<1>1. \A c \in Candidates : torrent[c].here /\ replaced[c] = 0
  BY DEF HealthInit, Gone
<1>2. poll.pc = "idle" /\ poll.found = {}
  BY DEF HealthInit, Idle
<1> QED BY <1>1, <1>2 DEF OrderInv, Placed, GivenUpInOrder, CollectedOnce,
           RemovedIsBlocklisted, ReplacedIsGone

LEMMA NextOrdered == Types /\ OrderInv /\ [HealthNext]_vars => OrderInv'
<1> SUFFICES ASSUME Types, OrderInv, [HealthNext]_vars PROVE OrderInv'
  OBVIOUS
<1> USE DEF Types, OrderInv, Placed, GivenUpInOrder, CollectedOnce, RemovedIsBlocklisted,
     ReplacedIsGone, Idle, At, To, Current
<1>1. CASE StartPoll
  BY <1>1 DEF StartPoll, Thread
<1>2. CASE TakeNext
  <2>1. ASSUME UNCHANGED cand, UNCHANGED <<res, torrent, failed, replaced>>,
               \/ poll'.pc = "idle" /\ poll'.found = {}
               \/ poll'.pc \in {"next", "deliver"} /\ poll'.found = poll.found
               \/ /\ poll'.pc = "pause" /\ poll'.found = poll.found /\ poll'.at \in Candidates
                  /\ cand[poll'.at].status = "invalidated"
        PROVE  OrderInv'
    BY <2>1
  <2>3. ASSUME NEW c \in First(poll.todo), res[c] # "active", cand[c].status # "none",
               poll' = [poll EXCEPT !.todo = @ \ {c}, !.at = c,
                          !.pc = IF cand[c].status = "probing" THEN "next" ELSE "pause"]
        PROVE  \/ poll'.pc = "next" /\ poll'.found = poll.found
               \/ /\ poll'.pc = "pause" /\ poll'.found = poll.found /\ poll'.at \in Candidates
                  /\ cand[poll'.at].status = "invalidated"
    <3>1. c \in Candidates
      BY DEF First, Thread
    <3>2. cand[c].status \in {"none", "probing", "invalidated"}
      BY <3>1 DEF CandidateRecord
    <3>3. /\ poll'.found = poll.found /\ poll'.at = c
          /\ poll'.pc = IF cand[c].status = "probing" THEN "next" ELSE "pause"
      BY <2>3 DEF Thread
    <3> QED BY <2>3, <3>1, <3>2, <3>3
  <2>5. CASE poll.todo = {} /\ To("deliver") /\ UNCHANGED <<cand, lost>>
    <3>1. poll'.pc = "deliver" /\ poll'.found = poll.found
      BY <2>5 DEF Thread
    <3> QED BY <1>2, <2>1, <2>5, <3>1 DEF TakeNext
  <2>6. CASE Abort /\ UNCHANGED cand
    <3>1. poll'.pc = "idle" /\ poll'.found = {}
      BY <2>6 DEF Abort
    <3> QED BY <1>2, <2>1, <2>6, <3>1 DEF TakeNext
  <2>2. ASSUME NEW c \in First(poll.todo), res[c] = "active",
               cand' = [cand EXCEPT ![c] = IF @ = NoCandidate
                          THEN [NoCandidate EXCEPT !.status = "probing"] ELSE @],
               poll' = [poll EXCEPT !.todo = @ \ {c}, !.at = c, !.pc = "observe"]
        PROVE  OrderInv'
    <3>1. c \in Candidates /\ poll'.pc = "observe" /\ poll'.at = c /\ poll'.found = poll.found
      BY <2>2 DEF First, Thread
    <3>2. \A d \in Candidates : cand[d].status = "invalidated" => cand'[d] = cand[d]
      BY <2>2, <3>1 DEF NoCandidate
    <3>3. UNCHANGED <<res, torrent, failed, replaced>>
      BY <1>2 DEF TakeNext
    <3> HIDE DEF Types
    <3> QED BY <3>1, <3>2, <3>3
  <2> QED BY <1>2, <2>1, <2>2, <2>3, <2>5, <2>6 DEF TakeNext
<1>3. CASE ObserveCandidateHealth
  BY <1>3 DEF ObserveCandidateHealth, Thread
<1>4. CASE Judge
  <2>1. CASE Abort /\ UNCHANGED cand
    <3>1. poll'.pc = "idle" /\ poll'.found = {}
      BY <2>1 DEF Abort
    <3> QED BY <1>4, <2>1, <3>1 DEF Judge
  <2>2. CASE cand[Current].status = "probing"
    <3> DEFINE k == Judged(cand[Current], poll.health)
    <3>1. /\ cand' = [cand EXCEPT ![Current] = k]
          /\ poll' = [poll EXCEPT !.pc = IF k.status = "invalidated" THEN "pause" ELSE "next",
                                  !.health = NoHealth]
      BY <1>4, <2>2 DEF Judge
    <3> HIDE DEF k
    <3>2. poll'.at = poll.at /\ poll'.found = poll.found
          /\ poll'.pc = IF k.status = "invalidated" THEN "pause" ELSE "next"
      BY <3>1 DEF Thread
    <3>3. poll.at \in Candidates /\ torrent[poll.at].here
      BY <1>4 DEF Judge
    <3> QED BY <1>4, <3>1, <3>2, <3>3 DEF Judge
  <2> QED BY <1>4, <2>1, <2>2 DEF Judge
<1>5. CASE Pause
  <2>1. \A c \in Candidates : torrent'[c].here = torrent[c].here
    BY <1>5 DEF Pause, Torrent
  <2>2. \/ poll'.pc = "idle" /\ poll'.found = {}
        \/ poll'.pc = "blocklist" /\ poll'.found = poll.found /\ poll'.at = poll.at
    BY <1>5 DEF Pause, Thread, Abort
  <2> QED BY <1>5, <2>1, <2>2 DEF Pause
<1>6. CASE MarkHistoryFailed
  BY <1>6 DEF MarkHistoryFailed, Thread
<1>7. CASE DeleteOwnedIncomplete
  BY <1>7 DEF DeleteOwnedIncomplete, Thread, Gone
<1>8. CASE ReleaseInvalidated
  <2>1. poll.at \in Candidates /\ ~torrent[poll.at].here
    BY <1>8 DEF ReleaseInvalidated
  <2>2. CASE res[Current] = "active"
    <3>1. poll'.pc = "next" /\ poll'.found = poll.found \union {poll.at}
      BY <1>8, <2>2 DEF ReleaseInvalidated, Thread
    <3>2. replaced[poll.at] = 0
      BY <2>1, <2>2
    <3> QED BY <1>8, <2>1, <2>2, <3>1, <3>2 DEF ReleaseInvalidated
  <2>3. CASE res[Current] # "active"
    BY <1>8, <2>3 DEF ReleaseInvalidated
  <2> QED BY <2>2, <2>3
<1>9. CASE Deliver
  BY <1>9 DEF Deliver, First, Thread, Abort
<1>10. CASE Pass
  BY ZenonT(40), <1>10 DEF Pass, CandidateRecord, Torrent, NoCandidate
<1>11. CASE Crash
  BY <1>11 DEF Crash, Abort
<1>12. ASSUME NEW c \in Candidates, Complete(c) PROVE OrderInv'
  BY <1>12 DEF Complete, NoCandidate
<1>13. ASSUME NEW c \in Candidates, Close(c) \/ Reopen(c) PROVE OrderInv'
  <2>1. \A d \in Candidates : torrent'[d].here = torrent[d].here
    BY <1>13 DEF Close, Reopen, Torrent
  <2> QED BY <1>13, <2>1 DEF Close, Reopen
<1>14. ASSUME NEW c \in Candidates, Swarm(c) \/ Load(c) PROVE OrderInv'
  <2>1. \A d \in Candidates : torrent'[d].here = torrent[d].here
    <3>1. torrent \in [Candidates -> Torrent] /\ torrent[c] \in Torrent
      OBVIOUS
    <3> HIDE DEF Types, OrderInv
    <3>2. CASE Swarm(c)
      BY <3>1, <3>2 DEF Swarm, Torrent
    <3>3. CASE Load(c)
      <4>1. \E t : t.here = torrent[c].here /\ torrent' = [torrent EXCEPT ![c] = t]
        BY <3>1, <3>3 DEF Load, Torrent
      <4> QED BY <3>1, <4>1
    <3> QED BY <1>14, <3>2, <3>3
  <2> QED BY <1>14, <2>1 DEF Swarm, Load
<1>15. CASE UNCHANGED vars
  BY <1>15 DEF vars
<1> QED
  BY <1>1, <1>2, <1>3, <1>4, <1>5, <1>6, <1>7, <1>8, <1>9, <1>10, <1>11, <1>12, <1>13, <1>14, <1>15
     DEF HealthNext, FenceStep

\* Whatever call failed and wherever the process stopped, a torrent is removed only when
\* it is invalidated and blocklisted, and replaced at most once, after it was removed.
THEOREM OrderHolds == Spec => []GivenUpInOrder
<1>1. HealthInit => Types /\ OrderInv
  BY InitTypes, InitOrdered
<1>2. Types /\ OrderInv /\ [HealthNext]_vars => (Types /\ OrderInv)'
  BY NextTypes, NextOrdered DEF OrderInv
<1>3. OrderInv => GivenUpInOrder
  BY DEF OrderInv
<1> QED BY <1>1, <1>2, <1>3, PTL DEF Spec

-----------------------------------------------------------------------------
(* The clocks.                                                             *)

LEMMA WaitGrows ==
  /\ Longest \in Nat \ {0}
  /\ \A w \in Nat : Later(w) \in Nat /\ (w <= Longest => Later(w) <= Longest)
  /\ \A v, w \in Nat : v <= w /\ v <= Longest => Later(v) <= Later(w)
<1>1. Longest \in Nat \ {0}
  BY HealthConstants, MaxOfTwo DEF Longest
<1> QED BY <1>1 DEF Later

\* What a sample does to a record, and when it invalidates it.
LEMMA JudgedIs ==
  ASSUME NEW k \in CandidateRecord, NEW h \in Sample, k.failures <= MinFailures,
         k.status = "probing"
  PROVE  LET j == Judged(k, h) IN
         /\ j \in CandidateRecord /\ j.probe = k.probe /\ j.failures <= MinFailures
         /\ \/ j.bytes = k.bytes /\ j.meta = k.meta /\ j.quiet = k.quiet
            \/ h.meta /\ j.bytes = h.bytes /\ j.meta /\ j.quiet = 0
         /\ j.status = "invalidated" =>
              IF h.meta
              THEN h.dead /\ k.meta /\ h.bytes = k.bytes /\ k.quiet >= ProgressTimeout
              ELSE k.probe >= MetadataTimeout
<1> DEFINE Same(m) == m.bytes = k.bytes /\ m.meta = k.meta /\ m.quiet = k.quiet
<1>0. MinFailures \in Nat
  BY HealthConstants
<1>1. ASSUME NEW m \in CandidateRecord, m.failures <= MinFailures
      PROVE  LET f == RecordFailure(m) IN
             /\ f \in CandidateRecord /\ f.failures <= MinFailures /\ f.probe = m.probe
             /\ f.bytes = m.bytes /\ f.meta = m.meta /\ f.quiet = m.quiet /\ f.status = m.status
  <2>1. m.failures \in Nat /\ m.failures + 1 \in Nat
    BY DEF CandidateRecord
  <2>2. ASSUME NEW n \in Nat
        PROVE  LET f == [m EXCEPT !.failures = n] IN
               /\ f \in CandidateRecord /\ f.failures = n /\ f.probe = m.probe
               /\ f.bytes = m.bytes /\ f.meta = m.meta /\ f.quiet = m.quiet /\ f.status = m.status
    BY DEF CandidateRecord
  <2> QED BY <1>0, <1>1, <2>1, <2>2 DEF RecordFailure
<1>2. ASSUME NEW m \in CandidateRecord
      PROVE  LET f == [m EXCEPT !.status = "invalidated"] IN
             /\ f \in CandidateRecord /\ f.failures = m.failures /\ f.probe = m.probe
             /\ f.bytes = m.bytes /\ f.meta = m.meta /\ f.quiet = m.quiet
  BY DEF CandidateRecord
<1>3. LET f == RecordMetadata(k, h.bytes) IN
      /\ f \in CandidateRecord /\ f.failures <= MinFailures /\ f.probe = k.probe
      /\ f.status = "probing"
      /\ IF ~k.meta \/ h.bytes > k.bytes THEN f.bytes = h.bytes /\ f.meta /\ f.quiet = 0
         ELSE Same(f)
  <2> DEFINE f == RecordMetadata(k, h.bytes)
  <2>1. h.bytes \in Nat /\ k.bytes \in Nat
    BY DEF CandidateRecord, Sample
  <2>2. CASE ~k.meta \/ h.bytes > k.bytes
    <3>1. f = [k EXCEPT !.meta = TRUE, !.bytes = h.bytes, !.quiet = 0, !.failures = 0]
      BY <2>2 DEF RecordMetadata
    <3> HIDE DEF f
    <3>2. f \in CandidateRecord
      BY <2>1, <3>1 DEF CandidateRecord
    <3>3. /\ f.failures = 0 /\ f.probe = k.probe /\ f.status = "probing" /\ f.bytes = h.bytes
          /\ f.meta = TRUE /\ f.quiet = 0
      BY <3>1 DEF CandidateRecord
    <3> QED BY <1>0, <2>2, <3>2, <3>3 DEF f
  <2>3. CASE ~(~k.meta \/ h.bytes > k.bytes)
    <3>1. f = [k EXCEPT !.failures = 0]
      BY <2>3 DEF RecordMetadata
    <3>2. f \in CandidateRecord /\ f.failures = 0 /\ f.probe = k.probe /\ f.status = "probing"
          /\ Same(f)
      BY <3>1 DEF CandidateRecord
    <3> HIDE DEF f
    <3> QED BY <1>0, <2>3, <3>2 DEF f
  <2> QED BY <2>2, <2>3
<1>4. CASE ~h.meta
  <2> DEFINE f == RecordFailure(k)
  <2>1. f \in CandidateRecord /\ f.failures <= MinFailures /\ f.probe = k.probe /\ Same(f)
        /\ f.status = "probing"
    BY <1>1
  <2>2. Judged(k, h) = Invalidate(f, k.probe >= MetadataTimeout)
    BY <1>4 DEF Judged
  <2> HIDE DEF f
  <2> QED BY <1>2, <1>4, <2>1, <2>2 DEF Invalidate
<1>5. CASE h.meta
  <2> DEFINE s == RecordMetadata(k, h.bytes)
             f == RecordFailure(s)
  <2>1. CASE k.meta /\ h.bytes = k.bytes /\ h.dead
    <3>1. Judged(k, h) = Invalidate(f, s.quiet >= ProgressTimeout)
      BY <1>5, <2>1 DEF Judged
    <3>2. s \in CandidateRecord /\ s.failures <= MinFailures /\ s.probe = k.probe
          /\ s.status = "probing" /\ Same(s)
      <4>1. k.bytes \in Nat
        BY DEF CandidateRecord
      <4>2. ~(~k.meta \/ h.bytes > k.bytes)
        BY <2>1, <4>1
      <4> QED BY <1>3, <4>2
    <3> HIDE DEF s
    <3>3. f \in CandidateRecord /\ f.failures <= MinFailures /\ f.probe = k.probe /\ Same(f)
          /\ f.status = "probing"
      BY <1>1, <3>2
    <3> HIDE DEF f
    <3> QED BY <1>2, <1>5, <2>1, <3>1, <3>2, <3>3 DEF Invalidate
  <2>2. CASE ~(k.meta /\ h.bytes = k.bytes /\ h.dead)
    <3>1. Judged(k, h) = s
      BY <1>5, <2>2 DEF Judged
    <3> HIDE DEF s
    <3> QED BY <1>3, <1>5, <3>1 DEF s
  <2> QED BY <2>1, <2>2
<1> QED BY <1>4, <1>5 DEF Sample

\* The effect of a sample that is recorded.
LEMMA JudgeIs ==
  ASSUME Types, Placed, Sampled, Judge, cand[Current].status = "probing"
  PROVE  LET c == poll.at
             k == Judged(cand[c], poll.health)
         IN  /\ c \in Candidates /\ cand[c] \in CandidateRecord /\ poll.health \in Sample
             /\ cand[c].failures <= MinFailures /\ torrent[c].here
             /\ cand' = [cand EXCEPT ![c] = k] /\ UNCHANGED <<res, torrent>>
             /\ poll'.pc \in {"pause", "next"}
<1> DEFINE k == Judged(cand[poll.at], poll.health)
<1>1. poll.at \in Candidates /\ torrent[poll.at].here
  BY DEF Judge, At, Placed
<1>2. cand[poll.at] \in CandidateRecord /\ cand[poll.at].failures <= MinFailures
  BY <1>1 DEF Types, Sampled
<1>3. poll.health \in Sample
  BY PollTyped
<1>4. /\ cand' = [cand EXCEPT ![poll.at] = k] /\ UNCHANGED <<res, torrent>>
      /\ poll' = [poll EXCEPT !.pc = IF k.status = "invalidated" THEN "pause" ELSE "next",
                              !.health = NoHealth]
  BY DEF Judge, Current
<1> HIDE DEF k
<1>5. poll'.pc \in {"pause", "next"}
  BY <1>4 DEF Types, Thread
<1> QED BY <1>1, <1>2, <1>3, <1>4, <1>5 DEF k

\* What an action other than a recorded sample, the loading of a torrent and the passing
\* of time does to the records, the torrents and the sample at hand.
RecordKept(c) ==
  /\ \/ cand'[c] = cand[c]
     \/ cand'[c] = NoCandidate
     \/ /\ cand[c] = NoCandidate /\ cand'[c] = [NoCandidate EXCEPT !.status = "probing"]
        /\ res[c] = "active" /\ res'[c] = "active"
  /\ res'[c] = "terminal" => res[c] = "terminal" \/ cand'[c] = NoCandidate
TorrentKept(c) ==
  /\ torrent'[c].meta = torrent[c].meta /\ torrent'[c].here = torrent[c].here
  /\ torrent'[c].bytes = torrent[c].bytes /\ torrent'[c].still = torrent[c].still
SampleKept ==
  LET t == torrent[poll.at] IN
  /\ UNCHANGED cand /\ t.here
  /\ \/ UNCHANGED poll
     \/ /\ poll.pc = "observe" /\ poll'.at = poll.at
        /\ poll'.health = [meta |-> t.meta, bytes |-> t.bytes, dead |-> ~t.alive, still |-> t.still]
Quiet ==
  /\ \A c \in Candidates : RecordKept(c) /\ (torrent'[c].here => TorrentKept(c))
  /\ poll'.pc = "judge" => SampleKept /\ \A c \in Candidates : TorrentKept(c)

LEMMA MostAreQuiet ==
  ASSUME Types, Placed, HealthNext,
         ~Pass, ~(Judge /\ cand[Current].status = "probing"), \A c \in Candidates : ~Load(c)
  PROVE  Quiet
<1> USE DEF At, To, Current
<1>0. ASSUME NEW c \in Candidates
      PROVE  /\ cand'[c] = cand[c] /\ res'[c] = res[c] => RecordKept(c)
             /\ torrent'[c] = torrent[c] => TorrentKept(c)
  BY DEF RecordKept, TorrentKept
<1>1. ASSUME UNCHANGED <<res, cand, torrent>>, poll'.pc # "judge" PROVE Quiet
  BY <1>0, <1>1 DEF Quiet
<1>2. Abort => poll'.pc # "judge"
  BY DEF Abort, Idle
<1>3. CASE StartPoll
  BY <1>1, <1>3 DEF StartPoll, Idle
<1>4. CASE TakeNext
  <2>1. poll'.pc # "judge"
    BY <1>2, <1>4 DEF TakeNext, Types, Thread
  <2>2. UNCHANGED <<res, torrent>>
    BY <1>4 DEF TakeNext
  <2>3. CASE UNCHANGED cand
    BY <1>1, <2>1, <2>2, <2>3
  <2>4. ASSUME NEW c \in First(poll.todo), res[c] = "active",
               cand' = [cand EXCEPT ![c] =
                   IF @ = NoCandidate THEN [NoCandidate EXCEPT !.status = "probing"] ELSE @]
        PROVE  Quiet
    <3>1. c \in Candidates
      BY PollTyped DEF First
    <3>2. ASSUME NEW d \in Candidates, d # c PROVE cand'[d] = cand[d] /\ res'[d] = res[d]
      BY <2>2, <2>4, <3>1, <3>2 DEF Types
    <3>3. /\ res'[c] = res[c] /\ res[c] = "active"
          /\ \/ cand'[c] = cand[c]
             \/ /\ cand[c] = NoCandidate
                /\ cand'[c] = [NoCandidate EXCEPT !.status = "probing"]
      BY <2>2, <2>4, <3>1 DEF Types
    <3>4. \A d \in Candidates : RecordKept(d)
      BY <1>0, <3>2, <3>3 DEF RecordKept
    <3> QED BY <1>0, <2>1, <2>2, <3>4 DEF Quiet
  <2> QED BY <1>4, <2>3, <2>4 DEF TakeNext
<1>5. CASE ObserveCandidateHealth
  <2>1. UNCHANGED <<res, cand, torrent>>
    BY <1>5 DEF ObserveCandidateHealth
  <2>2. CASE poll'.pc # "judge"
    BY <1>1, <2>1, <2>2
  <2>3. CASE poll'.pc = "judge"
    <3>1. /\ poll' = [poll EXCEPT !.pc = "judge", !.health =
             [meta |-> torrent[poll.at].meta, bytes |-> torrent[poll.at].bytes,
              dead |-> ~torrent[poll.at].alive, still |-> torrent[poll.at].still]]
          /\ torrent[poll.at].here /\ poll.pc = "observe"
      BY <1>5, <2>3 DEF ObserveCandidateHealth, Types, Thread
    <3>2. /\ poll'.at = poll.at
          /\ poll'.health = [meta |-> torrent[poll.at].meta, bytes |-> torrent[poll.at].bytes,
               dead |-> ~torrent[poll.at].alive, still |-> torrent[poll.at].still]
      BY <3>1 DEF Types, Thread
    <3>3. SampleKept
      BY <2>1, <3>1, <3>2 DEF SampleKept
    <3> QED BY <1>0, <2>1, <3>3 DEF Quiet
  <2> QED BY <2>2, <2>3
<1>6. CASE Judge
  BY <1>1, <1>2, <1>6 DEF Judge
<1>7. CASE Pause
  <2>1. poll'.pc # "judge"
    BY <1>2, <1>7 DEF Pause, Types, Thread
  <2>2. ASSUME NEW c \in Candidates PROVE TorrentKept(c)
    <3>1. \/ torrent'[c] = torrent[c]
          \/ torrent'[c] = [torrent[c] EXCEPT !.running = FALSE]
      BY <1>7 DEF Pause, Types
    <3>2. torrent[c] \in Torrent
      BY DEF Types
    <3> QED BY <3>1, <3>2 DEF Torrent, TorrentKept
  <2> QED BY <1>0, <1>7, <2>1, <2>2 DEF Pause, Quiet
<1>8. CASE MarkHistoryFailed
  BY <1>1, <1>8 DEF MarkHistoryFailed, Types, Thread
<1>9. CASE DeleteOwnedIncomplete
  <2>1. poll'.pc # "judge"
    BY <1>9 DEF DeleteOwnedIncomplete, Types, Thread
  <2>2. \A c \in Candidates : torrent'[c] = torrent[c] \/ torrent'[c] = Gone
    BY <1>9 DEF DeleteOwnedIncomplete, Types
  <2>3. \A c \in Candidates : torrent'[c].here => TorrentKept(c)
    BY <1>0, <2>2 DEF Gone
  <2> QED BY <1>0, <1>9, <2>1, <2>3 DEF DeleteOwnedIncomplete, Quiet
<1>10. CASE ReleaseInvalidated
  <2>1. poll'.pc # "judge"
    <3>1. CASE res[Current] = "active"
      <4>1. poll' = [poll EXCEPT !.pc = "next", !.found = @ \union {Current}]
        BY <1>10, <3>1 DEF ReleaseInvalidated
      <4> QED BY <4>1 DEF Types, Thread
    <3>2. CASE res[Current] # "active"
      BY <1>10, <3>2 DEF ReleaseInvalidated, Idle
    <3> QED BY <3>1, <3>2
  <2>2. \A c \in Candidates : res'[c] = res[c] \/ res'[c] = "invalidated"
    BY <1>10 DEF ReleaseInvalidated, Types
  <2>3. UNCHANGED <<cand, torrent>>
    BY <1>10 DEF ReleaseInvalidated
  <2>4. \A c \in Candidates : RecordKept(c)
    BY <2>2, <2>3 DEF RecordKept
  <2> QED BY <1>0, <2>1, <2>3, <2>4 DEF Quiet
<1>11. CASE Deliver
  BY <1>1, <1>2, <1>11 DEF Deliver, Idle, Types, Thread
<1>12. CASE Crash
  BY <1>1, <1>2, <1>12 DEF Crash
<1>13. ASSUME NEW c \in Candidates, Complete(c) PROVE Quiet
  <2>1. /\ poll'.pc # "judge" /\ UNCHANGED torrent
        /\ \A d \in Candidates : \/ d = c /\ cand'[d] = NoCandidate
                                 \/ cand'[d] = cand[d] /\ res'[d] = res[d]
    BY <1>13 DEF Complete, Idle, Types
  <2>2. \A d \in Candidates : RecordKept(d)
    BY <2>1 DEF RecordKept
  <2> QED BY <1>0, <2>1, <2>2 DEF Quiet
<1>14. ASSUME NEW c \in Candidates, Close(c) \/ Reopen(c) \/ Swarm(c) PROVE Quiet
  <2>1. /\ UNCHANGED <<cand, poll>>
        /\ \A d \in Candidates : res'[d] = res[d] \/ res'[d] \in {"paused", "active"}
    BY <1>14 DEF Close, Reopen, Swarm, Types
  <2>2. \E r \in BOOLEAN : torrent' \in {[torrent EXCEPT ![c].running = r],
                                         [torrent EXCEPT ![c].alive = ~@]}
    BY <1>14 DEF Close, Reopen, Swarm
  <2>3. ASSUME NEW d \in Candidates PROVE TorrentKept(d)
    <3>1. torrent[d] \in Torrent /\ torrent \in [Candidates -> Torrent]
      BY DEF Types
    <3>2. \/ torrent'[d] = torrent[d]
          \/ \E r \in BOOLEAN : torrent'[d] = [torrent[d] EXCEPT !.running = r]
          \/ torrent'[d] = [torrent[d] EXCEPT !.alive = ~@]
      BY <2>2, <3>1
    <3> QED BY <3>1, <3>2 DEF Torrent, TorrentKept
  <2>4. poll'.pc = "judge" => SampleKept
    BY <2>1 DEF Placed, SampleKept
  <2>5. \A d \in Candidates : RecordKept(d)
    BY <2>1 DEF RecordKept
  <2> QED BY <2>3, <2>4, <2>5 DEF Quiet
<1> QED
  BY <1>3, <1>4, <1>5, <1>6, <1>7, <1>8, <1>9, <1>10, <1>11, <1>12, <1>13, <1>14
     DEF HealthNext, FenceStep

\* The three actions that are not quiet.
LEMMA LoadIs ==
  ASSUME Types, NEW c \in Candidates, Load(c)
  PROVE  /\ UNCHANGED <<res, cand, poll>> /\ torrent[c].here
         /\ \A d \in Candidates : d # c => torrent'[d] = torrent[d]
         /\ torrent'[c].here /\ torrent'[c].meta = TRUE
         /\ \/ torrent[c].meta /\ torrent'[c].bytes = torrent[c].bytes + 1
            \/ ~torrent[c].meta /\ torrent'[c].bytes = torrent[c].bytes
<1>1. torrent[c] \in Torrent /\ torrent \in [Candidates -> Torrent]
  BY DEF Types
<1>2. CASE torrent[c].meta
  <2>1. torrent' = [torrent EXCEPT ![c] = [torrent[c] EXCEPT !.bytes = @ + 1, !.still = 0]]
    BY <1>2 DEF Load
  <2> QED BY <1>1, <1>2, <2>1 DEF Load, Torrent
<1>3. CASE ~torrent[c].meta
  <2>1. torrent' = [torrent EXCEPT ![c] = [torrent[c] EXCEPT !.meta = TRUE, !.still = 0]]
    BY <1>3 DEF Load
  <2> QED BY <1>1, <1>3, <2>1 DEF Load, Torrent
<1> QED BY <1>2, <1>3

LEMMA PassIs ==
  ASSUME Types, Pass
  PROVE  /\ UNCHANGED <<res, poll>> /\ poll.pc = "idle"
         /\ \A c \in Candidates :
              /\ \/ cand[c] = NoCandidate /\ cand'[c] = NoCandidate
                 \/ /\ cand[c] # NoCandidate
                    /\ cand'[c].meta = cand[c].meta /\ cand'[c].bytes = cand[c].bytes
                    /\ cand'[c].failures = cand[c].failures
                    /\ cand'[c].probe = Later(cand[c].probe)
                    /\ cand'[c].quiet = IF cand[c].meta THEN Later(cand[c].quiet) ELSE 0
              /\ torrent'[c].here = torrent[c].here /\ torrent'[c].meta = torrent[c].meta
              /\ torrent'[c].bytes = torrent[c].bytes
              /\ torrent[c].here => torrent'[c].still = Later(torrent[c].still)
<1>1. UNCHANGED <<res, poll>> /\ poll.pc = "idle"
  BY DEF Pass, Idle
<1>2. ASSUME NEW c \in Candidates, cand[c] # NoCandidate
      PROVE  /\ cand'[c].meta = cand[c].meta /\ cand'[c].bytes = cand[c].bytes
             /\ cand'[c].failures = cand[c].failures
             /\ cand'[c].probe = Later(cand[c].probe)
             /\ cand'[c].quiet = IF cand[c].meta THEN Later(cand[c].quiet) ELSE 0
  <2>1. cand'[c] = [cand[c] EXCEPT !.probe = Later(@),
                                   !.quiet = IF cand[c].meta THEN Later(@) ELSE 0]
    BY <1>2 DEF Pass
  <2>2. cand[c] \in CandidateRecord
    BY DEF Types
  <2> QED BY <2>1, <2>2 DEF CandidateRecord
<1>3. ASSUME NEW c \in Candidates
      PROVE  /\ torrent'[c].here = torrent[c].here /\ torrent'[c].meta = torrent[c].meta
             /\ torrent'[c].bytes = torrent[c].bytes
             /\ torrent[c].here => torrent'[c].still = Later(torrent[c].still)
  <2>1. torrent'[c] = IF torrent[c].here THEN [torrent[c] EXCEPT !.still = Later(@)]
                      ELSE torrent[c]
    BY DEF Pass
  <2>2. torrent[c] \in Torrent
    BY DEF Types
  <2> QED BY <2>1, <2>2 DEF Torrent
<1>4. ASSUME NEW c \in Candidates, cand[c] = NoCandidate PROVE cand'[c] = NoCandidate
  BY <1>4 DEF Pass
<1> QED BY <1>1, <1>2, <1>3, <1>4

LEMMA NextSampled ==
  Types /\ Placed /\ Sampled /\ [HealthNext]_vars => Sampled'
<1> SUFFICES ASSUME Types, Placed, Sampled, [HealthNext]_vars PROVE Sampled'
  OBVIOUS
<1>0. /\ \A c \in Candidates : cand[c] \in CandidateRecord /\ torrent[c] \in Torrent
      /\ MinFailures \in Nat /\ Longest \in Nat
  BY HealthConstants, WaitGrows DEF Types
<1>1. CASE Quiet
  <2>1. ASSUME NEW c \in Candidates
        PROVE  /\ torrent'[c].here =>
                    cand'[c].bytes <= torrent'[c].bytes /\ (cand'[c].meta => torrent'[c].meta)
               /\ res'[c] = "terminal" => cand'[c] = NoCandidate
               /\ cand'[c].failures <= MinFailures
               /\ cand'[c].quiet <= cand'[c].probe /\ cand'[c].probe <= Longest
    <3>1. RecordKept(c) /\ (torrent'[c].here => TorrentKept(c))
      BY <1>1 DEF Quiet
    <3>2. cand[c] \in CandidateRecord /\ torrent[c] \in Torrent
      BY <1>0
    <3>3. CASE cand'[c] = cand[c]
      BY <3>1, <3>2, <3>3 DEF Sampled, RecordKept, TorrentKept
    <3>4. CASE cand'[c] = NoCandidate \/ cand'[c] = [NoCandidate EXCEPT !.status = "probing"]
      <4>1. /\ cand'[c].bytes = 0 /\ cand'[c].meta = FALSE /\ cand'[c].failures = 0
            /\ cand'[c].quiet = 0 /\ cand'[c].probe = 0
        BY <3>4 DEF NoCandidate
      <4>2. res'[c] = "terminal" => cand'[c] = NoCandidate
        BY <3>1, <3>4 DEF RecordKept, Sampled
      <4> QED BY <1>0, <3>1, <3>2, <4>1, <4>2 DEF TorrentKept, Torrent
    <3> QED BY <3>1, <3>3, <3>4 DEF RecordKept
  <2>2. ASSUME poll'.pc = "judge"
        PROVE  /\ poll'.health.bytes <= torrent'[poll'.at].bytes
               /\ poll'.health.meta => torrent'[poll'.at].meta
    <3>1. SampleKept /\ \A c \in Candidates : TorrentKept(c)
      BY <1>1, <2>2 DEF Quiet
    <3>2. poll.at \in Candidates
      BY <2>2, <3>1 DEF SampleKept, Placed
    <3>3. torrent[poll.at] \in Torrent
      BY <1>0, <3>2
    <3> QED BY <2>2, <3>1, <3>2, <3>3 DEF SampleKept, TorrentKept, Sampled, Torrent
  <2> QED BY <2>1, <2>2 DEF Sampled
<1>2. CASE Judge /\ cand[Current].status = "probing"
  <2> DEFINE k == Judged(cand[poll.at], poll.health)
  <2>1. /\ poll.at \in Candidates /\ torrent[poll.at].here
        /\ cand' = [cand EXCEPT ![poll.at] = k] /\ UNCHANGED <<res, torrent>>
        /\ poll'.pc \in {"pause", "next"}
    BY <1>2, JudgeIs
  <2>2. /\ k \in CandidateRecord /\ k.probe = cand[poll.at].probe /\ k.failures <= MinFailures
        /\ \/ /\ k.bytes = cand[poll.at].bytes /\ k.meta = cand[poll.at].meta
              /\ k.quiet = cand[poll.at].quiet
           \/ poll.health.meta /\ k.bytes = poll.health.bytes /\ k.meta /\ k.quiet = 0
    BY <1>2, JudgeIs, JudgedIs DEF Current
  <2>3. res[poll.at] # "terminal"
    BY <1>2, <2>1 DEF Sampled, NoCandidate, Current
  <2> HIDE DEF k
  <2>4. cand[poll.at].probe \in Nat /\ k.quiet \in Nat
    BY <1>0, <2>1, <2>2 DEF CandidateRecord
  <2>5. poll.health.bytes <= torrent[poll.at].bytes /\ (poll.health.meta => torrent[poll.at].meta)
    BY <1>2 DEF Judge, At, Sampled
  <2>6. /\ k.bytes <= torrent[poll.at].bytes /\ (k.meta => torrent[poll.at].meta)
        /\ k.quiet <= k.probe /\ k.probe <= Longest
    BY <2>1, <2>2, <2>4, <2>5 DEF Sampled
  <2>7. cand'[poll.at] = k /\ \A c \in Candidates : c # poll.at => cand'[c] = cand[c]
    BY <2>1 DEF Types
  <2> QED BY <2>1, <2>2, <2>3, <2>6, <2>7 DEF Sampled
<1>3. ASSUME NEW c \in Candidates, Load(c) PROVE Sampled'
  <2>1. torrent[c].bytes \in Nat /\ cand[c].bytes \in Nat /\ poll.health.bytes \in Nat
    BY <1>0, PollTyped DEF Torrent, CandidateRecord, Sample
  <2>2. /\ UNCHANGED <<res, cand, poll>> /\ torrent[c].here
        /\ \A d \in Candidates : d # c => torrent'[d] = torrent[d]
        /\ torrent'[c].meta = TRUE
        /\ torrent'[c].bytes \in {torrent[c].bytes, torrent[c].bytes + 1}
    BY <1>3, LoadIs
  <2>3. torrent'[c].bytes \in Nat /\ torrent[c].bytes <= torrent'[c].bytes
    BY <2>1, <2>2
  <2>4. /\ cand[c].bytes <= torrent'[c].bytes
        /\ poll.pc = "judge" /\ poll.at = c => poll.health.bytes <= torrent'[c].bytes
    BY <2>1, <2>2, <2>3 DEF Sampled
  <2>5. ASSUME NEW d \in Candidates
        PROVE  torrent'[d].here =>
                 cand'[d].bytes <= torrent'[d].bytes /\ (cand'[d].meta => torrent'[d].meta)
    <3>1. CASE d = c
      BY <2>2, <2>4, <3>1
    <3>2. CASE d # c
      BY <2>2, <3>2 DEF Sampled
    <3> QED BY <3>1, <3>2
  <2>6. ASSUME poll'.pc = "judge"
        PROVE  /\ poll'.health.bytes <= torrent'[poll'.at].bytes
               /\ poll'.health.meta => torrent'[poll'.at].meta
    <3>1. poll' = poll /\ poll.pc = "judge" /\ poll.at \in Candidates
      BY <2>2, <2>6 DEF Placed
    <3>2. CASE poll.at = c
      BY <2>2, <2>4, <3>1, <3>2
    <3>3. CASE poll.at # c
      BY <2>2, <3>1, <3>3 DEF Sampled
    <3> QED BY <3>2, <3>3
  <2> QED BY <2>2, <2>5, <2>6 DEF Sampled
<1>4. CASE Pass
  <2>1. ASSUME NEW c \in Candidates
        PROVE  /\ torrent'[c].here =>
                    cand'[c].bytes <= torrent'[c].bytes /\ (cand'[c].meta => torrent'[c].meta)
               /\ res'[c] = "terminal" => cand'[c] = NoCandidate
    BY <1>4, PassIs DEF Sampled
  <2>2. ASSUME NEW c \in Candidates
        PROVE  /\ cand'[c].failures <= MinFailures
               /\ cand'[c].quiet <= cand'[c].probe /\ cand'[c].probe <= Longest
    <3>1. CASE cand'[c] = NoCandidate
      BY <1>0, <3>1 DEF NoCandidate
    <3>2. CASE cand'[c] # NoCandidate
      <4>1. /\ cand'[c].failures = cand[c].failures /\ cand'[c].probe = Later(cand[c].probe)
            /\ cand'[c].quiet = IF cand[c].meta THEN Later(cand[c].quiet) ELSE 0
        BY <1>4, <3>2, PassIs
      <4>2. cand[c].probe \in Nat /\ cand[c].quiet \in Nat /\ cand[c].failures \in Nat
        BY <1>0 DEF CandidateRecord
      <4> QED BY <4>1, <4>2, <1>0, WaitGrows DEF Sampled
    <3> QED BY <3>1, <3>2
  <2> QED BY <1>4, <2>1, <2>2, PassIs DEF Sampled
<1>5. CASE UNCHANGED vars
  BY <1>5 DEF vars, Sampled
<1> QED BY <1>1, <1>2, <1>3, <1>4, <1>5, MostAreQuiet

LEMMA NextClocked ==
  Types /\ Placed /\ Sampled /\ Clocked /\ [HealthNext]_vars => Clocked'
<1> SUFFICES ASSUME Types, Placed, Sampled, Clocked, [HealthNext]_vars PROVE Clocked'
  OBVIOUS
<1>0. \A c \in Candidates : cand[c] \in CandidateRecord /\ torrent[c] \in Torrent
  BY DEF Types
<1> DEFINE Waited(c) ==
      /\ ~torrent'[c].meta => cand'[c].probe <= torrent'[c].still
      /\ cand'[c].meta /\ torrent'[c].bytes = cand'[c].bytes
           => cand'[c].quiet <= torrent'[c].still
<1>1. CASE Quiet
  <2>1. ASSUME NEW c \in Candidates, torrent'[c].here PROVE Waited(c)
    <3>1. RecordKept(c) /\ TorrentKept(c) /\ cand[c] \in CandidateRecord /\ torrent[c] \in Torrent
      BY <1>0, <1>1, <2>1 DEF Quiet
    <3>2. CASE cand'[c] = cand[c]
      BY <2>1, <3>1, <3>2 DEF TorrentKept, Clocked
    <3>3. CASE cand'[c] = NoCandidate \/ cand'[c] = [NoCandidate EXCEPT !.status = "probing"]
      <4>1. cand'[c].meta = FALSE /\ cand'[c].probe = 0
        BY <3>3 DEF NoCandidate
      <4>2. torrent'[c].still \in Nat
        BY <3>1 DEF TorrentKept, Torrent
      <4> QED BY <4>1, <4>2
    <3> QED BY <3>1, <3>2, <3>3 DEF RecordKept
  <2>2. ASSUME poll'.pc = "judge"
        PROVE  /\ ~poll'.health.meta => cand'[poll'.at].probe <= poll'.health.still
               /\ poll'.health.meta /\ cand'[poll'.at].meta
                    /\ poll'.health.bytes = cand'[poll'.at].bytes
                    => cand'[poll'.at].quiet <= poll'.health.still
    <3>1. SampleKept
      BY <1>1, <2>2 DEF Quiet
    <3>2. poll.at \in Candidates /\ poll'.at = poll.at /\ UNCHANGED cand /\ torrent[poll.at].here
      BY <2>2, <3>1 DEF SampleKept, Placed
    <3>3. CASE UNCHANGED poll
      BY <2>2, <3>2, <3>3 DEF Clocked
    <3>4. CASE /\ poll'.health.meta = torrent[poll.at].meta
               /\ poll'.health.bytes = torrent[poll.at].bytes
               /\ poll'.health.still = torrent[poll.at].still
      BY <3>2, <3>4 DEF Clocked
    <3> QED BY <3>1, <3>3, <3>4 DEF SampleKept
  <2> QED BY <2>1, <2>2 DEF Clocked
<1>2. CASE Judge /\ cand[Current].status = "probing"
  <2> DEFINE k == Judged(cand[poll.at], poll.health)
  <2>1. /\ poll.at \in Candidates /\ torrent[poll.at].here
        /\ cand' = [cand EXCEPT ![poll.at] = k] /\ UNCHANGED torrent
        /\ poll'.pc \in {"pause", "next"}
    BY <1>2, JudgeIs
  <2>2. /\ k.probe = cand[poll.at].probe
        /\ \/ /\ k.bytes = cand[poll.at].bytes /\ k.meta = cand[poll.at].meta
              /\ k.quiet = cand[poll.at].quiet
           \/ k.quiet = 0
    BY <1>2, JudgeIs, JudgedIs DEF Current
  <2> HIDE DEF k
  <2>3. torrent[poll.at].still \in Nat
    BY <1>0, <2>1 DEF Torrent
  <2>4. /\ cand'[poll.at] = k /\ \A c \in Candidates : c # poll.at => cand'[c] = cand[c]
    BY <2>1 DEF Types
  <2>5. ASSUME NEW c \in Candidates, torrent'[c].here PROVE Waited(c)
    <3>1. CASE c = poll.at
      BY <2>1, <2>2, <2>3, <2>4, <3>1 DEF Clocked
    <3>2. CASE c # poll.at
      BY <2>1, <2>4, <2>5, <3>2 DEF Clocked
    <3> QED BY <3>1, <3>2
  <2> QED BY <2>1, <2>5 DEF Clocked
<1>3. ASSUME NEW c \in Candidates, Load(c) PROVE Clocked'
  <2>1. /\ UNCHANGED <<res, cand, poll>> /\ torrent[c].here
        /\ \A d \in Candidates : d # c => torrent'[d] = torrent[d]
        /\ torrent'[c].meta = TRUE
        /\ \/ torrent[c].meta /\ torrent'[c].bytes = torrent[c].bytes + 1
           \/ ~torrent[c].meta /\ torrent'[c].bytes = torrent[c].bytes
    BY <1>3, LoadIs
  <2>2. torrent[c].bytes \in Nat /\ cand[c].bytes \in Nat
    BY <1>0 DEF Torrent, CandidateRecord
  <2>3. cand[c].bytes <= torrent[c].bytes /\ (cand[c].meta => torrent[c].meta)
    BY <2>1 DEF Sampled
  <2>4. ~(cand'[c].meta /\ torrent'[c].bytes = cand'[c].bytes)
    BY <2>1, <2>2, <2>3
  <2>5. ASSUME NEW d \in Candidates, torrent'[d].here PROVE Waited(d)
    <3>1. CASE d = c
      BY <2>1, <2>4, <3>1
    <3>2. CASE d # c
      BY <2>1, <2>5, <3>2 DEF Clocked
    <3> QED BY <3>1, <3>2
  <2> QED BY <2>1, <2>5 DEF Clocked
<1>4. CASE Pass
  <2>1. ASSUME NEW c \in Candidates, torrent'[c].here PROVE Waited(c)
    <3>1. torrent[c].here /\ torrent'[c].meta = torrent[c].meta
          /\ torrent'[c].bytes = torrent[c].bytes /\ torrent'[c].still = Later(torrent[c].still)
      BY <1>4, <2>1, PassIs
    <3>2. torrent[c].still \in Nat /\ cand[c].probe \in Nat /\ cand[c].quiet \in Nat
          /\ Later(torrent[c].still) \in Nat
      BY <1>0, WaitGrows DEF Torrent, CandidateRecord
    <3>3. CASE cand'[c] = NoCandidate
      BY <3>1, <3>2, <3>3 DEF NoCandidate
    <3>4. CASE cand'[c] # NoCandidate
      <4>1. /\ cand'[c].meta = cand[c].meta /\ cand'[c].bytes = cand[c].bytes
            /\ cand'[c].probe = Later(cand[c].probe)
            /\ cand'[c].quiet = IF cand[c].meta THEN Later(cand[c].quiet) ELSE 0
        BY <1>4, <3>4, PassIs
      <4>2. cand[c].probe <= Longest /\ cand[c].quiet <= Longest
        BY <3>2, WaitGrows DEF Sampled
      <4> QED BY <3>1, <3>2, <4>1, <4>2, WaitGrows DEF Clocked
    <3> QED BY <3>3, <3>4
  <2> QED BY <1>4, <2>1, PassIs DEF Clocked
<1>5. CASE UNCHANGED vars
  BY <1>5 DEF vars, Clocked
<1> QED BY <1>1, <1>2, <1>3, <1>4, <1>5, MostAreQuiet

-----------------------------------------------------------------------------
HealthInv == Types /\ OrderInv /\ Sampled /\ Clocked

LEMMA HealthInvHolds == Spec => []HealthInv
<1>1. HealthInit => HealthInv
  <2> SUFFICES ASSUME HealthInit PROVE HealthInv
    OBVIOUS
  <2>1. Types /\ OrderInv
    BY InitTypes, InitOrdered
  <2>2. MinFailures \in Nat /\ Longest \in Nat
    BY HealthConstants, WaitGrows
  <2>3. poll.pc = "idle"
    BY DEF HealthInit, Idle
  <2>4. \A c \in Candidates : cand[c] = NoCandidate /\ res[c] = "active" /\ torrent[c] \in Torrent
    BY <2>1 DEF HealthInit, Types
  <2>5. Sampled
    BY <2>2, <2>3, <2>4 DEF Sampled, NoCandidate, Torrent
  <2>6. Clocked
    BY <2>3, <2>4 DEF Clocked, NoCandidate, Torrent
  <2> QED BY <2>1, <2>5, <2>6 DEF HealthInv
<1>2. HealthInv /\ [HealthNext]_vars => HealthInv'
  BY NextTypes, NextOrdered, NextSampled, NextClocked DEF HealthInv, OrderInv
<1> QED BY <1>1, <1>2, PTL DEF Spec

\* A record never runs ahead of its torrent: not in bytes, not in metadata; the failures
\* and the waits it counts stay within their bounds, and a completed one is forgotten.
THEOREM HealthIsTyped == Spec => []HealthTypeOK
<1>1. HealthInv => HealthTypeOK
  <2> SUFFICES ASSUME HealthInv PROVE HealthTypeOK
    OBVIOUS
  <2>1. Types /\ Sampled /\ MinFailures \in Nat
    BY HealthConstants DEF HealthInv
  <2>2. ASSUME NEW c \in Candidates
        PROVE  /\ res[c] \in {"active", "paused", "terminal", "invalidated"}
               /\ cand[c].status \in {"none", "probing", "invalidated"}
               /\ cand[c].failures \in 0 .. MinFailures
    <3>1. cand[c] \in CandidateRecord /\ cand[c].failures <= MinFailures
      BY <2>1 DEF Types, Sampled
    <3> QED BY <2>1, <3>1 DEF Types, CandidateRecord
  <2> QED BY <2>1, <2>2, PollTyped DEF Types, Sampled, HealthTypeOK
<1> QED BY <1>1, HealthInvHolds, PTL

\* A candidate is invalidated only when the torrent that was sampled had been without news
\* for the whole timeout: without metadata, or without peers and without new bytes.
THEOREM InvalidatedHasStalled == Spec => OnlyStalledInvalidated
<1> DEFINE Stalled ==
      \A c \in Candidates :
        cand[c].status = "probing" /\ cand'[c].status = "invalidated" =>
          IF poll.health.meta THEN poll.health.dead /\ poll.health.still >= ProgressTimeout
          ELSE poll.health.still >= MetadataTimeout
<1>1. HealthInv /\ [HealthNext]_vars => [Stalled]_vars
  <2> SUFFICES ASSUME HealthInv, HealthNext,
                      NEW c \in Candidates, cand[c].status = "probing",
                      cand'[c].status = "invalidated"
               PROVE  IF poll.health.meta
                      THEN poll.health.dead /\ poll.health.still >= ProgressTimeout
                      ELSE poll.health.still >= MetadataTimeout
    BY DEF vars
  <2>1. Types /\ Placed /\ Sampled /\ Clocked
    BY DEF HealthInv, OrderInv
  <2>2. CASE Quiet
    BY <2>2 DEF Quiet, RecordKept, NoCandidate
  <2>3. CASE Judge /\ cand[Current].status = "probing"
    <3> DEFINE h == poll.health
               k == Judged(cand[poll.at], h)
    <3>1. /\ poll.at \in Candidates /\ cand[poll.at] \in CandidateRecord /\ h \in Sample
          /\ cand' = [cand EXCEPT ![poll.at] = k]
      BY <2>1, <2>3, JudgeIs
    <3>2. k.status = "invalidated" =>
            IF h.meta
            THEN h.dead /\ cand[poll.at].meta /\ h.bytes = cand[poll.at].bytes
                 /\ cand[poll.at].quiet >= ProgressTimeout
            ELSE cand[poll.at].probe >= MetadataTimeout
      BY <2>1, <2>3, JudgeIs, JudgedIs DEF Current
    <3> HIDE DEF k
    <3>3. c = poll.at /\ k.status = "invalidated"
      BY <2>1, <3>1 DEF Types
    <3>4. /\ cand[c].quiet \in Nat /\ cand[c].probe \in Nat /\ h.still \in Nat
          /\ MetadataTimeout \in Nat /\ ProgressTimeout \in Nat
      BY <3>1, <3>3, HealthConstants DEF CandidateRecord, Sample
    <3>5. poll.pc = "judge"
      BY <2>3 DEF Judge, At
    <3> QED BY <2>1, <3>2, <3>3, <3>4, <3>5 DEF Clocked
  <2>4. ASSUME NEW d \in Candidates, Load(d) PROVE FALSE
    BY <2>1, <2>4, LoadIs
  <2>5. CASE Pass
    <3>1. \A d \in Candidates : cand'[d].status = cand[d].status
      BY <2>1, <2>5 DEF Pass, Types, CandidateRecord, NoCandidate
    <3> QED BY <3>1
  <2> QED BY <2>1, <2>2, <2>3, <2>4, <2>5, MostAreQuiet
<1> QED BY <1>1, HealthInvHolds, PTL DEF Spec, OnlyStalledInvalidated
=============================================================================
