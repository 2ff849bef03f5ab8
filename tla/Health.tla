------------------------------- MODULE Health -------------------------------
(***************************************************************************)
(* The health poll of video candidates: fence/service.py, with the records *)
(* of fence/model.py, the qBittorrent and Arr calls it makes, and the tick *)
(* of runtime.py that hands its replacements to the scheduler (Upgrades).  *)
(*                                                                         *)
(* A step of the Fence's thread ends at a persist or at a call to another  *)
(* service.  A call that fails may have taken effect.  Peers come and go,  *)
(* torrents load, an operator closes the Fence, and the process may stop   *)
(* between any two steps.  Time passes between two ticks; a tick reads the *)
(* clock once.  Nothing looks at a wait longer than the longest timeout.   *)
(***************************************************************************)
EXTENDS Integers, FiniteSetsExt

CONSTANTS
  Candidates,       \* operation ids 1 .. n, in the order of the records
  Size,             \* bytes of a complete torrent
  MetadataTimeout, ProgressTimeout, MinFailures,
  MaxTroubles       \* failed calls, restarts and closings of the Fence

ASSUME HealthConstants ==
  /\ Candidates \subseteq Nat \ {0}
  /\ {Size, MetadataTimeout, ProgressTimeout, MinFailures} \subseteq Nat \ {0}
  /\ MaxTroubles \in Nat

VARIABLES
  res,       \* the state of each reservation
  cand,      \* the persisted health record of each candidate
  torrent,   \* qBittorrent
  failed,    \* the candidates whose history row is marked failed in Arr
  poll,      \* the Fence's thread
  replaced,  \* how often the scheduler was told to replace a candidate
  lost,      \* candidates whose replacement was collected and then dropped
  troubles

vars == <<res, cand, torrent, failed, poll, replaced, lost, troubles>>

Longest == Max({MetadataTimeout, ProgressTimeout})
NoCandidate == [status |-> "none", meta |-> FALSE, bytes |-> 0, probe |-> 0, quiet |-> 0,
                failures |-> 0]
Gone == [here |-> FALSE, meta |-> FALSE, bytes |-> 0, alive |-> FALSE, running |-> FALSE,
         still |-> 0]
NoHealth == [meta |-> FALSE, bytes |-> 0, dead |-> FALSE, still |-> 0]
Idle == [pc |-> "idle", todo |-> {}, at |-> 0, health |-> NoHealth, found |-> {}]

HealthInit ==
  /\ res = [c \in Candidates |-> "active"]
  /\ cand = [c \in Candidates |-> NoCandidate]
  /\ torrent = [c \in Candidates |-> [Gone EXCEPT !.here = TRUE, !.running = TRUE]]
  /\ failed = {} /\ poll = Idle /\ lost = {}
  /\ replaced = [c \in Candidates |-> 0]
  /\ troubles = 0

-----------------------------------------------------------------------------
(* The verdict on a sample.                                                *)

\* Mutant: a sample without news counts as progress.
RecordMetadataAlways(k, bytes) == [k EXCEPT !.meta = TRUE, !.bytes = bytes, !.quiet = 0,
                                            !.failures = 0]

\* Mutant: new bytes are written down, but not when they were seen.
RecordMetadataQuietly(k, bytes) ==
  IF ~k.meta THEN [k EXCEPT !.meta = TRUE, !.quiet = 0, !.bytes = bytes, !.failures = 0]
  ELSE [k EXCEPT !.bytes = Max({@, bytes}), !.failures = 0]

RecordMetadata(k, bytes) ==
  IF ~k.meta \/ bytes > k.bytes
  THEN [k EXCEPT !.meta = TRUE, !.bytes = bytes, !.quiet = 0, !.failures = 0]
  ELSE [k EXCEPT !.failures = 0]

RecordFailure(k) == [k EXCEPT !.failures = IF @ < MinFailures THEN @ + 1 ELSE @]

Invalidate(k, expired) ==
  IF expired /\ k.failures >= MinFailures THEN [k EXCEPT !.status = "invalidated"] ELSE k

Judged(k, h) ==
  IF ~h.meta THEN Invalidate(RecordFailure(k), k.probe >= MetadataTimeout)
  ELSE LET seen == RecordMetadata(k, h.bytes) IN
       IF k.meta /\ h.bytes = k.bytes /\ h.dead
       THEN Invalidate(RecordFailure(seen), seen.quiet >= ProgressTimeout)
       ELSE seen

-----------------------------------------------------------------------------
(* The Fence's thread.                                                     *)

At(pc) == poll.pc = pc
To(pc) == poll' = [poll EXCEPT !.pc = pc]
Trouble == troubles < MaxTroubles /\ troubles' = troubles + 1
Current == poll.at

StartPoll ==
  /\ At("idle")
  /\ poll' = [Idle EXCEPT !.pc = "next", !.todo = {c \in Candidates : res[c] = "active"}]
  /\ UNCHANGED <<res, cand, torrent, failed, replaced, lost, troubles>>

\* The exception clause names a class that is not imported, so an exception ends
\* the poll: the replacements it collected are dropped.
Abort == poll' = Idle /\ lost' = lost \union poll.found

\* The order of the records.
First(S) == {c \in S : \A d \in S : c <= d}

\* The candidate of an active reservation is persisted.  One that was closed since
\* the poll began is not sampled, and an invalidated one is removed all the same.
TakeNext ==
  /\ At("next")
  /\ \/ /\ poll.todo = {} /\ To("deliver") /\ UNCHANGED <<cand, lost>>
     \/ \E c \in First(poll.todo) :
           LET rest(pc) == [poll EXCEPT !.todo = @ \ {c}, !.at = c, !.pc = pc] IN
           \/ /\ res[c] = "active"
              /\ cand' = [cand EXCEPT ![c] =
                   IF @ = NoCandidate THEN [NoCandidate EXCEPT !.status = "probing"] ELSE @]
              /\ poll' = rest("observe") /\ UNCHANGED lost
           \/ /\ res[c] # "active" /\ cand[c].status = "none"
              /\ Abort /\ UNCHANGED cand
           \/ /\ res[c] # "active" /\ cand[c].status # "none"
              /\ poll' = rest(IF cand[c].status = "probing" THEN "next" ELSE "pause")
              /\ UNCHANGED <<cand, lost>>
  /\ UNCHANGED <<res, torrent, failed, replaced, troubles>>

\* Sizes, bytes and peers of the one torrent with the reservation's tag.  Of a complete
\* torrent there may be no reading: its availability is negative.
ObserveCandidateHealth ==
  LET t == torrent[Current] IN
  /\ At("observe")
  /\ \/ /\ t.here
        /\ poll' = [poll EXCEPT !.pc = "judge", !.health =
             [meta |-> t.meta, bytes |-> t.bytes, dead |-> ~t.alive, still |-> t.still]]
        /\ UNCHANGED troubles
     \/ (~t.here \/ t.bytes = Size) /\ To("next") /\ UNCHANGED troubles
     \/ Trouble /\ To("next")
  /\ UNCHANGED <<res, cand, torrent, failed, replaced, lost>>

\* Samples are recorded for probing candidates only.
Judge ==
  /\ At("judge")
  /\ IF cand[Current].status = "probing"
     THEN LET k == Judged(cand[Current], poll.health) IN
          /\ cand' = [cand EXCEPT ![Current] = k]
          /\ poll' = [poll EXCEPT !.pc = IF k.status = "invalidated" THEN "pause" ELSE "next",
                                  !.health = NoHealth]
          /\ UNCHANGED lost
     ELSE Abort /\ UNCHANGED cand
  /\ UNCHANGED <<res, torrent, failed, replaced, troubles>>

\* The answer is not looked at.  Without the lease there is an exception.
Pause ==
  /\ At("pause")
  /\ \/ /\ To("blocklist") /\ UNCHANGED <<troubles, lost>>
        /\ torrent' = [torrent EXCEPT ![Current].running = FALSE]
     \/ Trouble /\ To("blocklist") /\ UNCHANGED <<torrent, lost>>
     \/ Trouble /\ Abort /\ UNCHANGED torrent
  /\ UNCHANGED <<res, cand, failed, replaced>>

MarkHistoryFailed ==
  /\ At("blocklist")
  /\ \/ failed' = failed \union {Current} /\ To("delete") /\ UNCHANGED troubles
     \/ Trouble /\ failed' \in {failed, failed \union {Current}} /\ To("next")
  /\ UNCHANGED <<res, cand, torrent, replaced, lost>>

\* Mutant: a torrent that may still be there is taken for deleted.
DeleteUnchecked ==
  /\ At("delete")
  /\ \/ torrent' = [torrent EXCEPT ![Current] = Gone] /\ UNCHANGED troubles
     \/ Trouble /\ torrent' \in {torrent, [torrent EXCEPT ![Current] = Gone]}
  /\ To("release")
  /\ UNCHANGED <<res, cand, failed, replaced, lost>>

\* The torrent is read once more, and deleted whatever it has loaded since.
DeleteOwnedIncomplete ==
  LET t == torrent[Current] IN
  /\ At("delete")
  /\ \/ /\ t.here /\ To("release") /\ UNCHANGED troubles
        /\ torrent' = [torrent EXCEPT ![Current] = Gone]
     \/ (~t.here \/ t.bytes = Size) /\ To("next") /\ UNCHANGED <<torrent, troubles>>
     \/ /\ Trouble /\ To("next")
        /\ torrent' \in {torrent, [torrent EXCEPT ![Current] = Gone]}
  /\ UNCHANGED <<res, cand, failed, replaced, lost>>

ReleaseInvalidated ==
  /\ At("release")
  /\ IF res[Current] = "active"
     THEN /\ res' = [res EXCEPT ![Current] = "invalidated"]
          /\ poll' = [poll EXCEPT !.pc = "next", !.found = @ \union {Current}]
          /\ UNCHANGED lost
     ELSE poll' = Idle /\ lost' = lost \union poll.found \union {Current} /\ UNCHANGED res
  /\ UNCHANGED <<cand, torrent, failed, replaced, troubles>>

\* Mutant: only the first replacement is handed over.
DeliverFirst ==
  /\ At("deliver")
  /\ IF poll.found = {} THEN UNCHANGED replaced
     ELSE \E c \in First(poll.found) : replaced' = [replaced EXCEPT ![c] = @ + 1]
  /\ poll' = Idle
  /\ UNCHANGED <<res, cand, torrent, failed, lost, troubles>>

\* One replacement after the other is saved; an exception ends the tick.
Deliver ==
  /\ At("deliver")
  /\ \/ /\ poll.found = {} /\ poll' = Idle /\ UNCHANGED <<replaced, lost, troubles>>
     \/ \E c \in First(poll.found) :
           /\ replaced' = [replaced EXCEPT ![c] = @ + 1]
           /\ poll' = [poll EXCEPT !.found = @ \ {c}]
           /\ UNCHANGED <<lost, troubles>>
     \/ poll.found # {} /\ Trouble /\ Abort /\ UNCHANGED replaced
  /\ UNCHANGED <<res, cand, torrent, failed>>

\* Mutant: the candidate is not forgotten.
CompleteKept(c) ==
  /\ poll = Idle
  /\ res[c] = "active" /\ torrent[c].here /\ torrent[c].bytes = Size
  /\ res' = [res EXCEPT ![c] = "terminal"]
  /\ UNCHANGED <<cand, torrent, failed, poll, replaced, lost, troubles>>

\* pending_terminals runs in the same thread: a complete torrent is handed on, and
\* its candidate forgotten.
Complete(c) ==
  /\ poll = Idle
  /\ res[c] = "active" /\ torrent[c].here /\ torrent[c].bytes = Size
  /\ res' = [res EXCEPT ![c] = "terminal"]
  /\ cand' = [cand EXCEPT ![c] = NoCandidate]
  /\ UNCHANGED <<torrent, failed, poll, replaced, lost, troubles>>

-----------------------------------------------------------------------------
(* An operator, qBittorrent, time and a restart.                           *)

\* Closing pauses what is active, in the thread that serves the socket.
Close(c) ==
  /\ res[c] = "active" /\ Trouble
  /\ res' = [res EXCEPT ![c] = "paused"]
  /\ torrent' = [torrent EXCEPT ![c].running = FALSE]
  /\ UNCHANGED <<cand, failed, poll, replaced, lost>>

Reopen(c) ==
  /\ res[c] = "paused" /\ torrent[c].here
  /\ res' = [res EXCEPT ![c] = "active"]
  /\ torrent' = [torrent EXCEPT ![c].running = TRUE]
  /\ UNCHANGED <<cand, failed, poll, replaced, lost, troubles>>

Swarm(c) ==
  /\ torrent[c].here
  /\ torrent' = [torrent EXCEPT ![c].alive = ~@]
  /\ UNCHANGED <<res, cand, failed, poll, replaced, lost, troubles>>

\* First the metadata, then the content.
Load(c) ==
  LET t == torrent[c] IN
  /\ t.here /\ t.running /\ t.alive /\ t.bytes < Size
  /\ torrent' = [torrent EXCEPT ![c] =
       IF t.meta THEN [t EXCEPT !.bytes = @ + 1, !.still = 0]
       ELSE [t EXCEPT !.meta = TRUE, !.still = 0]]
  /\ UNCHANGED <<res, cand, failed, poll, replaced, lost, troubles>>

Later(wait) == IF wait < Longest THEN wait + 1 ELSE wait

Pass ==
  /\ poll = Idle
  /\ cand' = [c \in Candidates |->
       IF cand[c] = NoCandidate THEN NoCandidate
       ELSE [cand[c] EXCEPT !.probe = Later(@), !.quiet = IF cand[c].meta THEN Later(@) ELSE 0]]
  /\ torrent' = [c \in Candidates |->
       IF torrent[c].here THEN [torrent[c] EXCEPT !.still = Later(@)] ELSE torrent[c]]
  /\ UNCHANGED <<res, failed, poll, replaced, lost, troubles>>

\* What was invalidated and not yet handed over is lost.
Crash ==
  /\ poll # Idle /\ Trouble /\ Abort
  /\ UNCHANGED <<res, cand, torrent, failed, replaced>>

FenceStep ==
  \/ StartPoll \/ TakeNext \/ ObserveCandidateHealth \/ Judge \/ Pause
  \/ MarkHistoryFailed \/ DeleteOwnedIncomplete \/ ReleaseInvalidated \/ Deliver

HealthNext ==
  \/ FenceStep \/ Pass \/ Crash
  \/ \E c \in Candidates : Complete(c) \/ Close(c) \/ Reopen(c) \/ Swarm(c) \/ Load(c)

\* The Fence ticks for ever and time passes between the ticks; what was closed is
\* opened again.  Peers need not come.
Spec ==
  /\ HealthInit /\ [][HealthNext]_vars
  /\ WF_vars(FenceStep) /\ SF_vars(Pass)
  /\ \A c \in Candidates : WF_vars(Reopen(c))

-----------------------------------------------------------------------------
(* Types.                                                                  *)

HealthTypeOK ==
  /\ \A c \in Candidates :
       /\ res[c] \in {"active", "paused", "terminal", "invalidated"}
       /\ cand[c].status \in {"none", "probing", "invalidated"}
       /\ torrent[c].here => cand[c].bytes <= torrent[c].bytes /\ (cand[c].meta => torrent[c].meta)
       /\ res[c] = "terminal" => cand[c] = NoCandidate
       /\ cand[c].failures \in 0 .. MinFailures
       /\ cand[c].quiet <= cand[c].probe /\ cand[c].probe <= Longest
  /\ failed \subseteq Candidates /\ lost \subseteq Candidates
  /\ poll.at \in Candidates \union {0}
  /\ poll.todo \union poll.found \subseteq Candidates

-----------------------------------------------------------------------------
(* Safety.                                                                 *)

\* A torrent is removed only when its invalidation is persisted and its release is
\* blocklisted, so that the search that replaces it cannot choose it again, whatever
\* call failed and wherever the process stopped.
RemovedIsBlocklisted ==
  \A c \in Candidates :
    ~torrent[c].here => cand[c].status = "invalidated" /\ c \in failed

\* A candidate is replaced at most once, and only when its torrent is gone: there are
\* never two transfers for one entity because of a replacement.
ReplacedIsGone ==
  \A c \in Candidates :
    /\ replaced[c] > 0 \/ c \in poll.found => res[c] = "invalidated" /\ ~torrent[c].here
    /\ replaced[c] <= 1

\* Invalidated, blocklisted, removed, replaced: in that order, over failures and restarts.
GivenUpInOrder == RemovedIsBlocklisted /\ ReplacedIsGone

\* When a candidate is invalidated, the torrent that was sampled had been without
\* peers and had loaded nothing for the whole timeout, however the samples fell and
\* however long the Fence was closed.
OnlyStalledInvalidated ==
  [][\A c \in Candidates :
       cand[c].status = "probing" /\ cand'[c].status = "invalidated" =>
         IF poll.health.meta THEN poll.health.dead /\ poll.health.still >= ProgressTimeout
         ELSE poll.health.still >= MetadataTimeout]_vars

-----------------------------------------------------------------------------
(* Liveness.                                                               *)

Stuck(c) == res[c] = "active" /\ torrent[c].here /\ ~torrent[c].alive /\ torrent[c].bytes < Size

\* An invalidated candidate that was not removed at once ends every later poll.
Blocking(c) == cand[c].status = "invalidated" /\ res[c] # "invalidated" /\ torrent[c].here

\* A torrent without peers does not hold its reservation for ever, unless removing one
\* once failed: no poll gets past that one again.
DeadIsGivenUp ==
  \A c \in Candidates : []<>~Stuck(c) \/ <>[](\E b \in Candidates : Blocking(b))

\* What was given up is replaced, unless its replacement was dropped by a later
\* exception in the tick or a restart.
GivenUpIsReplaced ==
  \A c \in Candidates : res[c] = "invalidated" ~> replaced[c] > 0 \/ c \in lost

\* "After the configured number of samples, Fence persists an invalidation": a torrent
\* whose metadata is known, and that then stays without peers, is given up.
StalledIsGivenUp ==
  \A c \in Candidates :
    []<>~(Stuck(c) /\ torrent[c].meta) \/ <>[](\E b \in Candidates : Blocking(b))
=============================================================================
