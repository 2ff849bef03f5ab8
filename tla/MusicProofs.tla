---------------------------- MODULE MusicProofs -----------------------------
(***************************************************************************)
(* What holds of the music candidates for every set of albums and releases,*)
(* every limit, and any number of failed calls, failed saves and restarts. *)
(***************************************************************************)
EXTENDS Music, TLAPS

Hashes == {Hash[r] : r \in Releases}
Cycle ==
  [active : Releases \union {No}, used : Nat, selectors : SUBSET Releases,
   hashes : SUBSET Hashes, done : Nat, terminal : BOOLEAN, rest : Nat,
   applied : SUBSET Releases]
CandidateRecord ==
  [status : {"none", "probing", "invalidated", "released", "succeeded"},
   probe : Nat, quiet : Nat, last : Nat, acked : BOOLEAN]
Torrent == [here : BOOLEAN, meta : BOOLEAN, bytes : Nat]
RecThread ==
  [pc : {"idle", "inventory", "imported", "confirm", "recover", "execute", "albums", "search",
         "choose", "rest"},
   actives : SUBSET Albums, todo : SUBSET Albums, listed : BOOLEAN,
   album : Albums \union {No}, op : Releases \union {No}, searched : Nat, grabs : Nat]
FenThread ==
  [pc : {"idle", "next", "observe", "judge", "delete", "deleted", "apply", "acknowledge",
         "rest"},
   todo : SUBSET Releases, at : Releases \union {No}, health : Torrent]

Types ==
  /\ age \in [Albums -> Nat] /\ missing \in SUBSET Albums
  /\ schedule \in [Albums -> Cycle] /\ saved \in [Albums -> Cycle]
  /\ cand \in [Releases -> CandidateRecord]
  /\ torrent \in [Releases -> Torrent]
  /\ rec \in RecThread /\ fen \in FenThread
  /\ forgotten \in SUBSET Releases

\* A cycle k of album a has room for a candidate when none is active, and what it applied
\* it has rejected, release and torrent.
CycleOf(a, k) ==
  /\ k.used <= MaxCandidates /\ k.rest <= Cooldown
  /\ k.active # No => Album[k.active] = a /\ k.used > 0 /\ k.active \notin k.selectors
  /\ k.active = No => k.used < MaxCandidates
  /\ \A r \in k.applied : r \in k.selectors /\ Hash[r] \in k.hashes

\* What is rejected on disk is rejected in memory.
Cycles ==
  \A a \in Albums :
    /\ CycleOf(a, schedule[a]) /\ CycleOf(a, saved[a])
    /\ saved[a].selectors \subseteq schedule[a].selectors
    /\ saved[a].hashes \subseteq schedule[a].hashes

GivenUp(r) == cand[r].status \in {"invalidated", "released"}

\* What the Fence has on record of a release, and what the schedules have of it.
Candidates ==
  \A r \in Releases :
    /\ cand[r].acked => GivenUp(r)
    /\ cand[r].last <= Size
    /\ cand[r].status = "none" => cand[r].last = 0
    /\ torrent[r].here => cand[r].last <= torrent[r].bytes
    /\ r \in schedule[Album[r]].applied \union saved[Album[r]].applied =>
         GivenUp(r) /\ (DeletePayload => cand[r].status = "released")

\* The schedule knows of every candidate of the Fence that no restart forgot.
Known ==
  \A r \in Releases \ forgotten :
    /\ cand[r].status = "probing" => schedule[Album[r]].active = r
    /\ GivenUp(r) => schedule[Album[r]].active = r \/ r \in schedule[Album[r]].applied

\* What the place of a thread says of the schedule and of the candidate in its hands,
\* whatever the other thread does.
RecPlaced ==
  /\ rec.pc \in {"search", "choose"} => rec.album \in Albums /\ schedule[rec.album].active = No
  /\ rec.pc = "choose" => saved[rec.album].active = No
  /\ rec.pc = "confirm" =>
       /\ rec.album \in Albums
       /\ schedule[rec.album].active # No =>
            cand[schedule[rec.album].active].status = "succeeded"
  /\ rec.pc = "execute" =>
       /\ rec.op \in Releases
       /\ cand[rec.op].status = "none" => schedule[Album[rec.op]].active = rec.op

FenPlaced ==
  /\ fen.pc \in {"observe", "judge", "delete", "deleted", "acknowledge"} => fen.at \in Releases
  /\ fen.pc = "judge" => torrent[fen.at].here /\ fen.health.bytes <= torrent[fen.at].bytes
  /\ fen.pc \in {"delete", "deleted"} => cand[fen.at].status = "invalidated"
  /\ fen.pc \in {"apply", "acknowledge"} =>
       \A r \in fen.todo : GivenUp(r) /\ (DeletePayload => cand[r].status = "released")
  /\ fen.pc = "acknowledge" =>
       /\ GivenUp(fen.at)
       /\ fen.at \in saved[Album[fen.at]].selectors
       /\ Hash[fen.at] \in saved[Album[fen.at]].hashes

MusicInv ==
  /\ Types /\ Cycles /\ Candidates /\ Known /\ RecPlaced /\ FenPlaced
  /\ AcknowledgedIsRejected

-----------------------------------------------------------------------------
(* The cycles.                                                             *)

\* A cycle that rejects no less than another.
RejectsAll(k, l) == l.selectors \subseteq k.selectors /\ l.hashes \subseteq k.hashes

LEMMA NoIsNoRelease == No \notin Releases /\ No \notin Albums
BY MusicConstants DEF No

LEMMA AlbumIs == ASSUME NEW r \in Releases PROVE Album[r] \in Albums
BY MusicConstants

\* The search of an album ends without a release that is taken.
LEMMA CompletedIs ==
  ASSUME Types, NEW a \in Albums, CycleOf(a, schedule[a]), schedule[a].active = No
  PROVE  /\ CompletedCycle(a) \in Cycle /\ CycleOf(a, CompletedCycle(a))
         /\ CompletedCycle(a).active = No
         /\ CompletedCycle(a).applied = schedule[a].applied
         /\ RejectsAll(CompletedCycle(a), schedule[a])
<1> DEFINE k == schedule[a]
           t == age[a] >= Horizon
           n == k.done + 1
           c == [k EXCEPT !.done = n, !.rest = Cooldown, !.used = 0, !.terminal = t]
<1>1. k \in Cycle /\ t \in BOOLEAN /\ Cooldown \in Nat /\ MaxCandidates \in Nat \ {0} /\ n \in Nat
  BY MusicConstants DEF Types, Cycle
<1>2. CompletedCycle(a) = c
  BY DEF CompletedCycle
<1> HIDE DEF t, n
<1>3. /\ c \in Cycle /\ c.active = k.active /\ c.used = 0 /\ c.rest = Cooldown
      /\ c.applied = k.applied /\ c.selectors = k.selectors /\ c.hashes = k.hashes
  BY <1>1 DEF Cycle
<1> HIDE DEF c
<1> QED BY <1>1, <1>2, <1>3 DEF CycleOf, RejectsAll

\* A release that was not rejected is taken into a cycle that has room.
LEMMA StartedIs ==
  ASSUME Types, NEW a \in Albums, CycleOf(a, schedule[a]), schedule[a].active = No,
         NEW r \in Releases, Album[r] = a, ~WasRejected(a, r)
  PROVE  /\ StartedCandidate(a, r) \in Cycle /\ CycleOf(a, StartedCandidate(a, r))
         /\ StartedCandidate(a, r).active = r
         /\ StartedCandidate(a, r).applied = schedule[a].applied
         /\ RejectsAll(StartedCandidate(a, r), schedule[a])
<1> DEFINE k == schedule[a]
           n == k.used + 1
           c == [k EXCEPT !.active = r, !.used = n]
<1>1. k \in Cycle /\ MaxCandidates \in Nat \ {0} /\ r # No
  BY MusicConstants, NoIsNoRelease DEF Types
<1>2. StartedCandidate(a, r) = c
  BY DEF StartedCandidate
<1>3. k.used < MaxCandidates /\ k.used \in Nat
  BY <1>1 DEF CycleOf, Cycle
<1>4. n \in Nat /\ 0 < n /\ n <= MaxCandidates
  BY <1>1, <1>3
<1> HIDE DEF n
<1>5. /\ c \in Cycle /\ c.active = r /\ c.used = n /\ c.rest = k.rest
      /\ c.applied = k.applied /\ c.selectors = k.selectors /\ c.hashes = k.hashes
  BY <1>1, <1>4 DEF Cycle
<1>6. r \notin k.selectors
  BY DEF WasRejected
<1> HIDE DEF c
<1> QED BY <1>1, <1>2, <1>4, <1>5, <1>6 DEF CycleOf, RejectsAll

\* An import ends the cycle of its album.
LEMMA ConfirmedIs ==
  ASSUME Types, NEW a \in Albums, CycleOf(a, schedule[a])
  PROVE  /\ ConfirmedImport(a) \in Cycle /\ CycleOf(a, ConfirmedImport(a))
         /\ ConfirmedImport(a).active = No
         /\ ConfirmedImport(a).applied = schedule[a].applied
         /\ RejectsAll(ConfirmedImport(a), schedule[a])
<1> DEFINE k == schedule[a]
           c == [k EXCEPT !.active = No, !.used = 0]
<1>1. k \in Cycle /\ MaxCandidates \in Nat \ {0}
  BY MusicConstants DEF Types
<1>2. ConfirmedImport(a) = c
  BY DEF ConfirmedImport
<1>3. /\ c \in Cycle /\ c.active = No /\ c.used = 0 /\ c.rest = k.rest
      /\ c.applied = k.applied /\ c.selectors = k.selectors /\ c.hashes = k.hashes
  BY <1>1 DEF Cycle
<1> HIDE DEF c
<1> QED BY <1>1, <1>2, <1>3 DEF CycleOf, RejectsAll

\* The active candidate of an album is rejected, release and torrent.
LEMMA RejectedIs ==
  ASSUME Types, NEW r \in Releases, CycleOf(Album[r], schedule[Album[r]]),
         schedule[Album[r]].active = r
  PROVE  LET a == Album[r] IN
         /\ Rejected(a, r) \in Cycle /\ CycleOf(a, Rejected(a, r))
         /\ Rejected(a, r).active = No
         /\ Rejected(a, r).applied = schedule[a].applied \union {r}
         /\ RejectsAll(Rejected(a, r), schedule[a])
<1> DEFINE a == Album[r]
           k == schedule[a]
           c == [k EXCEPT !.active = No, !.selectors = k.selectors \union {r},
                          !.hashes = k.hashes \union {Hash[r]}, !.applied = k.applied \union {r}]
           n == c.done + 1
           d == [c EXCEPT !.done = n, !.rest = Cooldown, !.used = 0]
<1>1. /\ a \in Albums /\ k \in Cycle /\ MaxCandidates \in Nat \ {0} /\ Cooldown \in Nat
      /\ Hash[r] \in Hashes
  BY MusicConstants, AlbumIs DEF Types, Hashes
<1>2. Rejected(a, r) = IF c.used < MaxCandidates THEN c ELSE d
  BY DEF Rejected
<1>3. /\ c \in Cycle /\ c.active = No /\ c.used = k.used /\ c.rest = k.rest
      /\ c.applied = k.applied \union {r} /\ c.selectors = k.selectors \union {r}
      /\ c.hashes = k.hashes \union {Hash[r]}
  BY <1>1 DEF Cycle
<1> HIDE DEF c
<1>7. n \in Nat
  BY <1>3 DEF Cycle
<1> HIDE DEF n
<1>4. /\ d \in Cycle /\ d.active = No /\ d.used = 0 /\ d.rest = Cooldown
      /\ d.applied = c.applied /\ d.selectors = c.selectors /\ d.hashes = c.hashes
  BY <1>1, <1>3, <1>7 DEF Cycle
<1> HIDE DEF d
<1>5. CASE c.used < MaxCandidates
  BY <1>1, <1>2, <1>3, <1>5 DEF CycleOf, RejectsAll
<1>6. CASE ~(c.used < MaxCandidates)
  BY <1>1, <1>2, <1>3, <1>4, <1>6 DEF CycleOf, RejectsAll
<1> QED BY <1>5, <1>6

\* Time passes for a cycle.
LEMMA RestedIs ==
  ASSUME NEW k \in Cycle, NEW a \in Albums, CycleOf(a, k)
  PROVE  /\ Rested(k) \in Cycle /\ CycleOf(a, Rested(k))
         /\ Rested(k).active = k.active /\ Rested(k).applied = k.applied
         /\ Rested(k).selectors = k.selectors /\ Rested(k).hashes = k.hashes
<1> DEFINE c == [k EXCEPT !.rest = IF k.rest > 0 THEN k.rest - 1 ELSE 0]
<1>1. Rested(k) = c
  BY DEF Rested
<1>2. /\ c \in Cycle /\ c.active = k.active /\ c.used = k.used /\ c.applied = k.applied
      /\ c.selectors = k.selectors /\ c.hashes = k.hashes
      /\ k.rest \in Nat /\ (c.rest <= k.rest)
  BY DEF Cycle
<1>3. Cooldown \in Nat /\ c.rest \in Nat
  BY <1>2, MusicConstants DEF Cycle
<1> HIDE DEF c
<1> QED BY <1>1, <1>2, <1>3 DEF CycleOf

-----------------------------------------------------------------------------
(* The steps that change a schedule.                                       *)

\* A schedule with one cycle changed.
Changed(a, k) ==
  schedule' = [schedule EXCEPT ![a] = k] /\ (saved' = schedule' \/ saved' = saved)

LEMMA CyclesOfChange ==
  ASSUME Types, Cycles, NEW a \in Albums, NEW k \in Cycle, CycleOf(a, k),
         RejectsAll(k, schedule[a]), Changed(a, k)
  PROVE  schedule' \in [Albums -> Cycle] /\ saved' \in [Albums -> Cycle] /\ Cycles'
<1>1. schedule' \in [Albums -> Cycle] /\ saved' \in [Albums -> Cycle]
  BY DEF Types, Changed
<1>2. \A b \in Albums : schedule'[b] = IF b = a THEN k ELSE schedule[b]
  BY DEF Types, Changed
<1>3. \A b \in Albums : CycleOf(b, schedule'[b])
  BY <1>2 DEF Cycles
<1>4. \A b \in Albums : CycleOf(b, saved'[b])
  BY <1>3 DEF Cycles, Changed
<1>5. \A b \in Albums : RejectsAll(schedule'[b], saved'[b])
  <2>1. \A b \in Albums : RejectsAll(schedule'[b], saved[b])
    BY <1>2 DEF Cycles, RejectsAll
  <2> QED BY <2>1 DEF Changed, RejectsAll
<1>6. \A b \in Albums : CycleOf(b, schedule[b])' /\ CycleOf(b, saved[b])'
  BY <1>3, <1>4 DEF CycleOf
<1> QED BY <1>1, <1>5, <1>6 DEF Cycles, RejectsAll

LEMMA ConfirmIs ==
  ASSUME Types, Cycles, RecPlaced, ConfirmImported
  PROVE  /\ rec.pc = "confirm" /\ rec.album \in Albums
         /\ Changed(rec.album, ConfirmedImport(rec.album))
         /\ UNCHANGED <<cand, torrent, fen, forgotten, age, missing>>
         /\ \/ rec' = [rec EXCEPT !.pc = "imported", !.album = No]
            \/ rec' = [RecIdle EXCEPT !.pc = "rest"]
BY DEF ConfirmImported, RecAt, RecPlaced, Save, Changed, RecRests

\* The album is given the release that is chosen, or its cycle is over.
LEMMA ChooseIs ==
  ASSUME Types, RecPlaced, Choose
  PROVE  /\ rec.pc = "choose" /\ rec.album \in Albums /\ schedule[rec.album].active = No
         /\ UNCHANGED <<cand, torrent, fen, forgotten, age, missing>>
         /\ \/ /\ Changed(rec.album, CompletedCycle(rec.album))
               /\ \/ rec' = [rec EXCEPT !.pc = "albums", !.album = No]
                  \/ rec' = [RecIdle EXCEPT !.pc = "rest"]
            \/ \E r \in Releases :
                 /\ Album[r] = rec.album /\ ~WasRejected(rec.album, r)
                 /\ Changed(rec.album, StartedCandidate(rec.album, r))
                 /\ \/ rec' = [rec EXCEPT !.op = r, !.pc = "execute"]
                    \/ rec' = [RecIdle EXCEPT !.pc = "rest"]
<1>1. rec.pc = "choose" /\ rec.album \in Albums /\ schedule[rec.album].active = No
  BY DEF Choose, RecAt, RecPlaced
<1>2. UNCHANGED <<cand, torrent, fen, forgotten, age, missing>>
  BY DEF Choose
<1>3. ASSUME NEW k, NEW then, Save(rec.album, k, then)
      PROVE  Changed(rec.album, k) /\ (rec' = then \/ rec' = [RecIdle EXCEPT !.pc = "rest"])
  BY <1>3 DEF Save, Changed, RecRests
<1>4. CASE Save(rec.album, CompletedCycle(rec.album), [rec EXCEPT !.pc = "albums", !.album = No])
  BY <1>1, <1>2, <1>3, <1>4
<1>5. ASSUME NEW r \in Releases, Album[r] = rec.album, ~WasRejected(rec.album, r),
             Save(rec.album, StartedCandidate(rec.album, r),
                  [rec EXCEPT !.op = r, !.pc = "execute"])
      PROVE  /\ Changed(rec.album, StartedCandidate(rec.album, r))
             /\ \/ rec' = [rec EXCEPT !.op = r, !.pc = "execute"]
                \/ rec' = [RecIdle EXCEPT !.pc = "rest"]
  BY <1>3, <1>5
<1> QED BY <1>1, <1>2, <1>4, <1>5 DEF Choose

\* The verdict on r is passed over, saved again, or applied.
LEMMA ApplyIs ==
  ASSUME Types, ApplyFenceInvalidation
  PROVE  /\ fen.pc = "apply" /\ UNCHANGED <<cand, torrent, rec, forgotten, age, missing>>
         /\ \/ fen' = [FenIdle EXCEPT !.pc = "rest"] /\ UNCHANGED <<schedule, saved>>
            \/ \E r \in fen.todo : fen' = [fen EXCEPT !.todo = @ \ {r}] /\ UNCHANGED <<schedule, saved>>
            \/ \E r \in fen.todo :
                 /\ r \in Releases
                 /\ \/ r \in schedule[Album[r]].applied /\ UNCHANGED schedule
                       /\ (saved' = schedule' \/ saved' = saved)
                    \/ /\ schedule[Album[r]].active = r /\ r \notin schedule[Album[r]].applied
                       /\ Changed(Album[r], Rejected(Album[r], r))
                 /\ \/ /\ saved' = schedule'
                       /\ fen' = [fen EXCEPT !.todo = @ \ {r}, !.at = r, !.pc = "acknowledge"]
                    \/ fen' = [FenIdle EXCEPT !.pc = "rest"]
<1>1. fen.pc = "apply" /\ UNCHANGED <<cand, torrent, rec, forgotten, age, missing>>
  BY DEF ApplyFenceInvalidation, FenAt
<1>2. CASE fen.todo = {} /\ FenRests /\ UNCHANGED <<schedule, saved, troubles>>
  BY <1>1, <1>2 DEF FenRests
<1>3. ASSUME NEW r \in Least(fen.todo),
             r \notin schedule[Album[r]].applied, schedule[Album[r]].active # r,
             fen' = [fen EXCEPT !.todo = @ \ {r}], UNCHANGED <<schedule, saved, troubles>>
      PROVE  \E s \in fen.todo : fen' = [fen EXCEPT !.todo = @ \ {s}] /\ UNCHANGED <<schedule, saved>>
  BY <1>3 DEF Least
<1>4. ASSUME NEW r \in Least(fen.todo),
             ~(r \notin schedule[Album[r]].applied /\ schedule[Album[r]].active # r),
             schedule' = IF r \in schedule[Album[r]].applied THEN schedule
                         ELSE [schedule EXCEPT ![Album[r]] = Rejected(Album[r], r)],
             \/ /\ saved' = schedule' /\ UNCHANGED troubles
                /\ fen' = [fen EXCEPT !.todo = @ \ {r}, !.at = r, !.pc = "acknowledge"]
             \/ Trouble /\ FenRests /\ UNCHANGED saved
      PROVE  \E s \in fen.todo :
                 /\ s \in Releases
                 /\ \/ s \in schedule[Album[s]].applied /\ UNCHANGED schedule
                       /\ (saved' = schedule' \/ saved' = saved)
                    \/ /\ schedule[Album[s]].active = s /\ s \notin schedule[Album[s]].applied
                       /\ Changed(Album[s], Rejected(Album[s], s))
                 /\ \/ /\ saved' = schedule'
                       /\ fen' = [fen EXCEPT !.todo = @ \ {s}, !.at = s, !.pc = "acknowledge"]
                    \/ fen' = [FenIdle EXCEPT !.pc = "rest"]
  <2>1. r \in fen.todo /\ r \in Releases
    BY DEF Least, Types, FenThread
  <2>2. \/ /\ saved' = schedule'
           /\ fen' = [fen EXCEPT !.todo = @ \ {r}, !.at = r, !.pc = "acknowledge"]
        \/ saved' = saved /\ fen' = [FenIdle EXCEPT !.pc = "rest"]
    BY <1>4 DEF FenRests
  <2>3. CASE r \in schedule[Album[r]].applied
    <3>1. UNCHANGED schedule
      BY <1>4, <2>3
    <3> QED BY <2>1, <2>2, <2>3, <3>1
  <2>4. CASE r \notin schedule[Album[r]].applied
    <3>1. schedule[Album[r]].active = r /\ Changed(Album[r], Rejected(Album[r], r))
      BY <1>4, <2>2, <2>4 DEF Changed
    <3> QED BY <2>1, <2>2, <2>4, <3>1
  <2> QED BY <2>3, <2>4
<1> QED BY <1>1, <1>2, <1>3, <1>4 DEF ApplyFenceInvalidation

LEMMA CyclesNext ==
  ASSUME Types, Cycles, RecPlaced, MusicNext
  PROVE  schedule' \in [Albums -> Cycle] /\ saved' \in [Albums -> Cycle] /\ Cycles'
<1> DEFINE Goal == schedule' \in [Albums -> Cycle] /\ saved' \in [Albums -> Cycle] /\ Cycles'
<1>1. CASE UNCHANGED schedule /\ (saved' = saved \/ saved' = schedule)
  BY <1>1 DEF Types, Cycles, CycleOf
<1>2. CASE ConfirmImported
  <2>1. rec.album \in Albums /\ Changed(rec.album, ConfirmedImport(rec.album))
    BY <1>2, ConfirmIs
  <2>2. CycleOf(rec.album, schedule[rec.album])
    BY <2>1 DEF Cycles
  <2> QED BY <2>1, <2>2, ConfirmedIs, CyclesOfChange
<1>3. CASE Choose
  <2> DEFINE a == rec.album
  <2>1. a \in Albums /\ schedule[a].active = No /\ CycleOf(a, schedule[a])
    BY <1>3, ChooseIs DEF Cycles
  <2>2. CASE Changed(a, CompletedCycle(a))
    BY <2>1, <2>2, CompletedIs, CyclesOfChange
  <2>3. ASSUME NEW r \in Releases, Album[r] = a, ~WasRejected(a, r),
               Changed(a, StartedCandidate(a, r))
        PROVE  Goal
    BY <2>1, <2>3, StartedIs, CyclesOfChange
  <2> QED BY <1>3, <2>2, <2>3, ChooseIs
<1>4. CASE ApplyFenceInvalidation
  <2>1. CASE UNCHANGED schedule /\ (saved' = schedule' \/ saved' = saved)
    BY <1>1, <2>1
  <2>2. ASSUME NEW r \in Releases, schedule[Album[r]].active = r,
               Changed(Album[r], Rejected(Album[r], r))
        PROVE  Goal
    <3>1. Album[r] \in Albums /\ CycleOf(Album[r], schedule[Album[r]])
      BY AlbumIs DEF Cycles
    <3> QED BY <2>2, <3>1, RejectedIs, CyclesOfChange
  <2> QED BY <1>4, <2>1, <2>2, ApplyIs
<1>5. CASE Pass
  <2>1. /\ schedule' = [a \in Albums |-> Rested(schedule[a])]
        /\ saved' = [a \in Albums |-> Rested(saved[a])]
    BY <1>5 DEF Pass
  <2>2. ASSUME NEW a \in Albums
        PROVE  /\ Rested(schedule[a]) \in Cycle /\ Rested(saved[a]) \in Cycle
               /\ CycleOf(a, schedule'[a]) /\ CycleOf(a, saved'[a])
               /\ RejectsAll(schedule'[a], saved'[a])
    <3>1. /\ schedule[a] \in Cycle /\ saved[a] \in Cycle
          /\ CycleOf(a, schedule[a]) /\ CycleOf(a, saved[a])
          /\ RejectsAll(schedule[a], saved[a])
      BY DEF Types, Cycles, RejectsAll
    <3>2. schedule'[a] = Rested(schedule[a]) /\ saved'[a] = Rested(saved[a])
      BY <2>1
    <3> QED BY <3>1, <3>2, RestedIs DEF RejectsAll
  <2>3. \A a \in Albums : CycleOf(a, schedule[a])' /\ CycleOf(a, saved[a])'
    BY <2>2 DEF CycleOf
  <2> QED BY <2>1, <2>2, <2>3 DEF Cycles, RejectsAll
<1>6. CASE Crash
  <2>1. schedule' = saved /\ saved' = saved
    BY <1>6 DEF Crash
  <2> QED BY <2>1 DEF Types, Cycles, CycleOf
<1>7. CASE AlbumReleases
  BY <1>1, <1>7 DEF AlbumReleases
<1> QED
  BY <1>1, <1>2, <1>3, <1>4, <1>5, <1>6, <1>7
     DEF MusicNext, ReconcilerStep, FenceStep, StartRun, MissingAlbums, OnImported, RecoverNext,
         ExecuteSelected, NextAlbum, StartPoll, PollNext, ObserveCandidateHealth, Judge,
         DeleteOwnedIncomplete, MarkDeleted, Acknowledge, Load, Import

-----------------------------------------------------------------------------
(* The threads.                                                            *)

LEMMA IdleIs ==
  /\ RecIdle \in RecThread /\ RecIdle.pc = "idle"
  /\ FenIdle \in FenThread /\ FenIdle.pc = "idle" /\ NoTorrent \in Torrent
  /\ [RecIdle EXCEPT !.pc = "rest"] \in RecThread /\ [RecIdle EXCEPT !.pc = "rest"].pc = "rest"
  /\ [FenIdle EXCEPT !.pc = "rest"] \in FenThread /\ [FenIdle EXCEPT !.pc = "rest"].pc = "rest"
BY DEF RecIdle, FenIdle, RecThread, FenThread, NoTorrent, Torrent, No

LEMMA RecTyped ==
  ASSUME Types, Cycles, RecPlaced, MusicNext PROVE rec' \in RecThread
<1>1. rec \in RecThread /\ missing \in SUBSET Albums
  BY DEF Types
<1>2. CASE rec' = rec \/ rec' = RecIdle \/ rec' = [RecIdle EXCEPT !.pc = "rest"]
  BY <1>1, <1>2, IdleIs
<1>3. CASE StartRun
  <2>1. {a \in Albums : schedule[a].active # No} \in SUBSET Albums
    OBVIOUS
  <2> QED BY <1>1, <1>3, <2>1 DEF StartRun, RecThread
<1>4. CASE MissingAlbums
  <2>1. rec.actives \ missing \in SUBSET Albums /\ rec.actives \intersect missing \in SUBSET Albums
    BY <1>1 DEF RecThread
  <2> QED BY <1>1, <1>4, <2>1 DEF MissingAlbums, RecThread
<1>5. CASE OnImported
  <2>1. CASE rec.actives = {} /\ RecTo("recover")
    BY <1>1, <2>1 DEF RecTo, RecThread
  <2>2. ASSUME NEW a \in rec.actives,
               \/ rec' = [rec EXCEPT !.actives = @ \ {a}]
               \/ rec' = [[rec EXCEPT !.actives = @ \ {a}] EXCEPT !.pc = "confirm", !.album = a]
        PROVE  rec' \in RecThread
    <3>1. rec.actives \ {a} \in SUBSET Albums /\ a \in Albums
      BY <1>1 DEF RecThread
    <3> QED BY <1>1, <2>2, <3>1 DEF RecThread
  <2> QED BY <1>5, <2>1, <2>2 DEF OnImported, Least
<1>6. CASE ConfirmImported
  <2>1. CASE rec' = [rec EXCEPT !.pc = "imported", !.album = No]
    BY <1>1, <2>1 DEF RecThread
  <2> QED BY <1>2, <1>6, <2>1, ConfirmIs
<1>7. CASE RecoverNext
  <2>1. CASE rec' = [rec EXCEPT !.pc = "albums", !.todo = missing]
    BY <1>1, <2>1 DEF RecThread
  <2>2. ASSUME NEW a \in rec.todo,
               \/ rec' = [rec EXCEPT !.todo = @ \ {a}, !.grabs = @ + 1]
               \/ rec' = [rec EXCEPT !.todo = @ \ {a}, !.op = schedule[a].active,
                                     !.pc = "execute"]
        PROVE  rec' \in RecThread
    <3>1. rec.todo \ {a} \in SUBSET Albums /\ a \in Albums /\ rec.grabs + 1 \in Nat
      BY <1>1 DEF RecThread
    <3>2. schedule[a].active \in Releases \union {No}
      BY <3>1 DEF Types, Cycle
    <3> QED BY <1>1, <2>2, <3>1, <3>2 DEF RecThread
  <2> QED BY <1>2, <1>7, <2>1, <2>2 DEF RecoverNext, RecRests, Least
<1>8. CASE ExecuteSelected
  <2> DEFINE pc == IF rec.album = No THEN "recover" ELSE "albums"
             n == rec.grabs + 1
  <2>1. n \in Nat /\ pc \in {"recover", "albums"}
    BY <1>1 DEF RecThread
  <2>2. rec' = [rec EXCEPT !.op = No, !.grabs = n, !.pc = pc, !.album = No]
    BY <1>8 DEF ExecuteSelected
  <2> HIDE DEF pc, n
  <2> QED BY <1>1, <2>1, <2>2 DEF RecThread
<1>9. CASE NextAlbum
  <2>1. ASSUME NEW a \in rec.todo,
               \/ rec' = [rec EXCEPT !.todo = @ \ {a}]
               \/ rec' = [rec EXCEPT !.todo = @ \ {a}, !.album = a, !.pc = "search"]
        PROVE  rec' \in RecThread
    <3>1. rec.todo \ {a} \in SUBSET Albums /\ a \in Albums
      BY <1>1 DEF RecThread
    <3> QED BY ZenonT(40), <1>1, <2>1, <3>1 DEF RecThread
  <2> QED BY <1>2, <1>9, <2>1 DEF NextAlbum, RecRests, Least
<1>10. CASE AlbumReleases
  <2> DEFINE n == rec.searched + 1
  <2>1. n \in Nat
    BY <1>1 DEF RecThread
  <2>2. \/ rec' = [[rec EXCEPT !.searched = n] EXCEPT !.pc = "choose"]
        \/ rec' = [[rec EXCEPT !.searched = n] EXCEPT !.pc = "albums", !.album = No]
        \/ rec' = [RecIdle EXCEPT !.pc = "rest"]
    BY <1>10 DEF AlbumReleases, RecRests
  <2> HIDE DEF n
  <2> QED BY ZenonT(40), <1>1, <1>2, <2>1, <2>2 DEF RecThread
<1>11. CASE Choose
  <2>1. ASSUME NEW r \in Releases, rec' = [rec EXCEPT !.op = r, !.pc = "execute"]
        PROVE  rec' \in RecThread
    BY <1>1, <2>1 DEF RecThread
  <2>2. CASE rec' = [rec EXCEPT !.pc = "albums", !.album = No]
    BY <1>1, <2>2 DEF RecThread
  <2> QED BY <1>2, <1>11, <2>1, <2>2, ChooseIs
<1>12. CASE FenceStep \/ Pass \/ Crash \/ (\E r \in Releases : Load(r)) \/ (\E a \in Albums : Import(a))
  <2>1. rec' = rec \/ rec' = RecIdle
    BY <1>12
       DEF FenceStep, StartPoll, PollNext, ObserveCandidateHealth, Judge, DeleteOwnedIncomplete,
           MarkDeleted, ApplyFenceInvalidation, Acknowledge, Pass, Crash, Load, Import
  <2> QED BY <1>2, <2>1
<1> QED
  BY <1>3, <1>4, <1>5, <1>6, <1>7, <1>8, <1>9, <1>10, <1>11, <1>12 DEF MusicNext, ReconcilerStep

LEMMA FenToIs ==
  ASSUME fen \in FenThread,
         NEW pc \in {"idle", "next", "observe", "judge", "delete", "deleted", "apply",
                     "acknowledge", "rest"},
         FenTo(pc)
  PROVE  fen' \in FenThread /\ fen'.pc = pc /\ fen'.at = fen.at /\ fen'.todo = fen.todo
BY IdleIs DEF FenTo, FenThread

\* The verdict on the sample, and where it leads.
LEMMA JudgeIs ==
  ASSUME Types, FenPlaced, Judge
  PROVE  LET r == fen.at IN
         /\ fen.pc = "judge" /\ r \in Releases /\ fen.health \in Torrent
         /\ UNCHANGED <<torrent, schedule, saved, rec, forgotten, age, missing>>
         /\ \/ cand' = cand /\ FenTo("next")
            \/ /\ cand[r].status = "probing"
               /\ \/ cand' = [cand EXCEPT ![r].status = "succeeded"] /\ FenTo("next")
                  \/ cand' = [cand EXCEPT ![r].status = "invalidated"] /\ FenTo("delete")
                  \/ /\ fen.health.bytes <= Size /\ FenTo("next")
                     /\ cand' = [cand EXCEPT ![r].last = fen.health.bytes, ![r].quiet = 0]
<1> DEFINE r == fen.at
           k == cand[r]
           h == fen.health
<1>1. /\ fen.pc = "judge" /\ r \in Releases /\ h \in Torrent
      /\ UNCHANGED <<torrent, schedule, saved, rec, forgotten, age, missing>>
  BY DEF Judge, FenAt, FenPlaced, Types, FenThread
<1>2. h.bytes \in Nat /\ k.last \in Nat /\ Size \in Nat
  BY <1>1, MusicConstants DEF Types, Torrent, CandidateRecord
<1>3. CASE k.status # "probing" /\ FenTo("next") /\ UNCHANGED cand
  BY <1>1, <1>3
<1>4. CASE /\ k.status = "probing" /\ cand' = [cand EXCEPT ![r].status = "succeeded"]
           /\ FenTo("next")
  BY <1>1, <1>4
<1>5. CASE /\ k.status = "probing" /\ h.bytes \in k.last + 1 .. Size - 1
           /\ cand' = [cand EXCEPT ![r].last = h.bytes, ![r].quiet = 0] /\ FenTo("next")
  <2>1. h.bytes <= Size
    BY <1>2, <1>5
  <2> QED BY <1>1, <1>5, <2>1
<1>6. CASE /\ k.status = "probing"
           /\ \/ cand' = [cand EXCEPT ![r].status = "invalidated"] /\ FenTo("delete")
              \/ FenTo("next") /\ UNCHANGED cand
  BY <1>1, <1>6
<1>7. \/ k.status # "probing" /\ FenTo("next") /\ UNCHANGED cand
      \/ /\ k.status = "probing" /\ cand' = [cand EXCEPT ![r].status = "succeeded"]
         /\ FenTo("next")
      \/ /\ k.status = "probing" /\ h.bytes \in k.last + 1 .. Size - 1
         /\ cand' = [cand EXCEPT ![r].last = h.bytes, ![r].quiet = 0] /\ FenTo("next")
      \/ /\ k.status = "probing"
         /\ \/ cand' = [cand EXCEPT ![r].status = "invalidated"] /\ FenTo("delete")
            \/ FenTo("next") /\ UNCHANGED cand
  <2>1. ASSUME NEW peers \in BOOLEAN,
               IF Expired(k, h, peers)
               THEN cand' = [cand EXCEPT ![r].status = "invalidated"] /\ FenTo("delete")
               ELSE FenTo("next") /\ UNCHANGED cand
        PROVE  \/ cand' = [cand EXCEPT ![r].status = "invalidated"] /\ FenTo("delete")
               \/ FenTo("next") /\ UNCHANGED cand
    BY <2>1
  <2> QED BY <2>1 DEF Judge
<1> QED BY <1>3, <1>4, <1>5, <1>6, <1>7

LEMMA FenTyped ==
  ASSUME Types, FenPlaced, MusicNext PROVE fen' \in FenThread
<1>1. fen \in FenThread /\ torrent \in [Releases -> Torrent]
  BY DEF Types
<1>2. CASE fen' = fen \/ fen' = FenIdle \/ fen' = [FenIdle EXCEPT !.pc = "rest"]
  BY <1>1, <1>2, IdleIs
<1>3. ASSUME NEW pc \in {"next", "delete", "deleted", "apply"}, FenTo(pc) PROVE fen' \in FenThread
  BY <1>1, <1>3, FenToIs
<1>4. CASE StartPoll
  <2>1. {r \in Releases : cand[r].status \in {"probing", "invalidated"}} \in SUBSET Releases
    OBVIOUS
  <2> QED BY <1>1, <1>4, <2>1 DEF StartPoll, FenThread
<1>5. CASE PollNext
  <2>1. Pending \in SUBSET Releases
    BY DEF Pending
  <2>2. CASE fen' = [fen EXCEPT !.pc = "apply", !.at = No, !.todo = Pending]
    BY <1>1, <2>1, <2>2 DEF FenThread
  <2>3. ASSUME NEW r \in fen.todo, NEW pc \in {"delete", "observe"},
               fen' = [fen EXCEPT !.todo = @ \ {r}, !.at = r, !.pc = pc]
        PROVE  fen' \in FenThread
    <3>1. fen.todo \ {r} \in SUBSET Releases /\ r \in Releases
      BY <1>1 DEF FenThread
    <3> QED BY <1>1, <2>3, <3>1 DEF FenThread
  <2> QED BY <1>5, <2>2, <2>3 DEF PollNext, Least
<1>6. CASE ObserveCandidateHealth
  <2>1. CASE fen' = [fen EXCEPT !.pc = "judge", !.health = torrent[fen.at]]
    <3>1. torrent[fen.at] \in Torrent
      BY <1>1, <1>6 DEF ObserveCandidateHealth, FenAt, FenPlaced
    <3> QED BY <1>1, <2>1, <3>1 DEF FenThread
  <2> QED BY <1>3, <1>6, <2>1 DEF ObserveCandidateHealth
<1>7. CASE Judge \/ DeleteOwnedIncomplete \/ MarkDeleted \/ Acknowledge
  BY <1>3, <1>7, JudgeIs DEF DeleteOwnedIncomplete, MarkDeleted, Acknowledge
<1>8. CASE ApplyFenceInvalidation
  <2>1. ASSUME NEW r \in fen.todo,
               \/ fen' = [fen EXCEPT !.todo = @ \ {r}]
               \/ fen' = [fen EXCEPT !.todo = @ \ {r}, !.at = r, !.pc = "acknowledge"]
        PROVE  fen' \in FenThread
    <3>1. fen.todo \ {r} \in SUBSET Releases /\ r \in Releases
      BY <1>1 DEF FenThread
    <3> QED BY <1>1, <2>1, <3>1 DEF FenThread
  <2> QED BY <1>2, <1>8, <2>1, ApplyIs
<1>9. CASE \/ ReconcilerStep \/ Pass \/ Crash
           \/ (\E r \in Releases : Load(r)) \/ (\E a \in Albums : Import(a))
  <2>1. fen' = fen \/ fen' = FenIdle
    BY <1>9
       DEF ReconcilerStep, StartRun, MissingAlbums, OnImported, ConfirmImported, RecoverNext,
           ExecuteSelected, NextAlbum, AlbumReleases, Choose, Pass, Crash, Load, Import
  <2> QED BY <1>2, <2>1
<1> QED BY <1>4, <1>5, <1>6, <1>7, <1>8, <1>9 DEF MusicNext, FenceStep

-----------------------------------------------------------------------------
(* The candidates and the torrents.                                        *)

\* How the Fence's record k of a candidate changes to l.
Follows(k, l) ==
  /\ \/ l.status = k.status
     \/ k.status = "none" /\ l.status = "probing"
     \/ k.status = "probing" /\ l.status \in {"succeeded", "invalidated"}
     \/ k.status = "invalidated" /\ l.status = "released"
  /\ k.acked => l.acked

\* Who changes the record of release r, and to what.
CandStep(r) ==
  /\ Follows(cand[r], cand'[r])
  /\ cand[r].status = "none" /\ cand'[r].status = "probing" => ExecuteSelected /\ r = rec.op
  /\ cand[r].status = "invalidated" /\ cand'[r].status # "invalidated" => MarkDeleted
  /\ cand[r].acked \/ (cand'[r].acked => fen.pc = "acknowledge" /\ r = fen.at)
  /\ \/ cand'[r].last = cand[r].last
     \/ /\ fen.pc = "judge" /\ r = fen.at /\ cand[r].status = "probing" /\ torrent' = torrent
        /\ cand'[r].last = fen.health.bytes /\ fen.health.bytes <= Size

\* One record is changed and the others stay.
LEMMA CandOfOne ==
  ASSUME Types, NEW r \in Releases, NEW k \in CandidateRecord, cand' = [cand EXCEPT ![r] = k],
         CandStep(r)
  PROVE  cand' \in [Releases -> CandidateRecord] /\ \A s \in Releases : CandStep(s)
<1>1. cand' \in [Releases -> CandidateRecord]
  BY DEF Types
<1>2. ASSUME NEW s \in Releases, s # r PROVE CandStep(s)
  <2>1. cand'[s] = cand[s]
    BY <1>2 DEF Types
  <2> QED BY <2>1 DEF CandStep, Follows
<1> QED BY <1>1, <1>2

\* A record with one field changed.
LEMMA RecordWith ==
  ASSUME NEW c \in CandidateRecord
  PROVE  /\ \A x \in {"probing", "released"} :
              \E k \in CandidateRecord :
                /\ k = [c EXCEPT !.status = x]
                /\ k.status = x /\ k.acked = c.acked /\ k.last = c.last
         /\ \E k \in CandidateRecord :
              /\ k = [c EXCEPT !.acked = TRUE]
              /\ k.status = c.status /\ k.acked = TRUE /\ k.last = c.last
<1>1. ASSUME NEW x \in {"probing", "released"}
      PROVE  LET k == [c EXCEPT !.status = x] IN
             /\ k \in CandidateRecord
             /\ k.status = x /\ k.acked = c.acked /\ k.last = c.last
  BY DEF CandidateRecord
<1>2. LET k == [c EXCEPT !.acked = TRUE] IN
      /\ k \in CandidateRecord
      /\ k.status = c.status /\ k.acked = TRUE /\ k.last = c.last
  BY DEF CandidateRecord
<1> HIDE DEF CandidateRecord
<1> QED BY <1>1, <1>2

LEMMA CandNext ==
  ASSUME Types, Cycles, RecPlaced, FenPlaced, MusicNext
  PROVE  cand' \in [Releases -> CandidateRecord] /\ \A r \in Releases : CandStep(r)
<1> DEFINE Goal == cand' \in [Releases -> CandidateRecord] /\ \A r \in Releases : CandStep(r)
<1>1. CASE UNCHANGED cand
  BY <1>1 DEF Types, CandStep, Follows
<1>2. ASSUME NEW r \in Releases, NEW status \in {"succeeded", "invalidated"},
             cand[r].status = "probing", cand' = [cand EXCEPT ![r].status = status]
      PROVE  Goal
  <2>1. PICK c \in CandidateRecord : c = cand[r]
    BY DEF Types
  <2> DEFINE k == [c EXCEPT !.status = status]
  <2>2. /\ k \in CandidateRecord
        /\ k.status = status /\ k.acked = c.acked /\ k.last = c.last
    BY DEF CandidateRecord
  <2>3. cand' = [cand EXCEPT ![r] = k]
    BY <1>2, <2>1, <2>2
  <2> HIDE DEF k
  <2>4. cand'[r] = k
    BY <2>3 DEF Types
  <2>5. CandStep(r)
    BY <1>2, <2>1, <2>2, <2>4 DEF CandStep, Follows
  <2> QED BY <2>2, <2>3, <2>5, CandOfOne
<1>3. CASE OnImported
  <2>1. ASSUME NEW a \in rec.actives, schedule[a].active # No,
               cand[schedule[a].active].status = "probing",
               cand' = [cand EXCEPT ![schedule[a].active].status = "succeeded"]
        PROVE  Goal
    <3>1. schedule[a].active \in Releases
      BY <2>1 DEF Types, RecThread, Cycle
    <3> QED BY <1>2, <2>1, <3>1
  <2> QED BY <1>1, <1>3, <2>1 DEF OnImported, Least
<1>4. CASE ExecuteSelected
  <2> DEFINE r == rec.op
  <2>1. r \in Releases
    BY <1>4 DEF ExecuteSelected, RecAt, RecPlaced
  <2>2. CASE cand[r].status = "none" /\ cand' = [cand EXCEPT ![r].status = "probing"]
    <3>1. PICK c \in CandidateRecord : c = cand[r]
      BY <2>1 DEF Types
    <3>2. PICK k \in CandidateRecord :
            /\ k = [c EXCEPT !.status = "probing"]
            /\ k.status = "probing" /\ k.acked = c.acked /\ k.last = c.last
      BY RecordWith
    <3>3. cand' = [cand EXCEPT ![r] = k]
      BY <2>2, <3>1, <3>2
    <3>4. cand'[r] = k
      BY <2>1, <3>3 DEF Types
    <3>5. CandStep(r)
      BY <1>4, <2>2, <3>1, <3>2, <3>4 DEF CandStep, Follows
    <3> QED BY <2>1, <3>3, <3>5, CandOfOne
  <2> QED BY <1>1, <1>4, <2>2 DEF ExecuteSelected
<1>5. CASE Judge
  <2> DEFINE r == fen.at
  <2>1. r \in Releases /\ fen.health \in Torrent /\ fen.pc = "judge" /\ torrent' = torrent
    BY <1>5, JudgeIs
  <2>2. CASE /\ cand[r].status = "probing" /\ fen.health.bytes <= Size
             /\ cand' = [cand EXCEPT ![r].last = fen.health.bytes, ![r].quiet = 0]
    <3>1. PICK c \in CandidateRecord : c = cand[r]
      BY <2>1 DEF Types
    <3>2. PICK n \in Nat : n = fen.health.bytes
      BY <2>1 DEF Torrent
    <3> DEFINE k == [c EXCEPT !.last = n, !.quiet = 0]
    <3>3. /\ k \in CandidateRecord
          /\ k.status = c.status /\ k.acked = c.acked /\ k.last = n
      BY DEF CandidateRecord
    <3>4. cand' = [cand EXCEPT ![r] = k]
      BY <2>1, <2>2, <3>1, <3>2, <3>3 DEF Types
    <3> HIDE DEF k
    <3>5. cand'[r] = k
      BY <2>1, <3>4 DEF Types
    <3>6. CandStep(r)
      BY <2>1, <2>2, <3>1, <3>2, <3>3, <3>5 DEF CandStep, Follows
    <3> QED BY <2>1, <3>3, <3>4, <3>6, CandOfOne
  <2> QED BY <1>1, <1>2, <1>5, <2>1, <2>2, JudgeIs
<1>6. CASE MarkDeleted
  <2> DEFINE r == fen.at
  <2>1. r \in Releases /\ cand[r].status = "invalidated"
    BY <1>6 DEF MarkDeleted, FenAt, FenPlaced
  <2>2. PICK c \in CandidateRecord : c = cand[r]
    BY <2>1 DEF Types
  <2>3. PICK k \in CandidateRecord :
          /\ k = [c EXCEPT !.status = "released"]
          /\ k.status = "released" /\ k.acked = c.acked /\ k.last = c.last
    BY RecordWith
  <2>4. cand' = [cand EXCEPT ![r] = k]
    BY <1>6, <2>2, <2>3 DEF MarkDeleted
  <2>5. cand'[r] = k
    BY <2>1, <2>4 DEF Types
  <2>6. CandStep(r)
    BY <1>6, <2>1, <2>2, <2>3, <2>5 DEF CandStep, Follows
  <2> QED BY <2>1, <2>4, <2>6, CandOfOne
<1>7. CASE Acknowledge
  <2> DEFINE r == fen.at
  <2>1. r \in Releases /\ fen.pc = "acknowledge"
    BY <1>7 DEF Acknowledge, FenAt, FenPlaced
  <2>2. PICK c \in CandidateRecord : c = cand[r]
    BY <2>1 DEF Types
  <2>3. PICK k \in CandidateRecord :
          /\ k = [c EXCEPT !.acked = TRUE]
          /\ k.status = c.status /\ k.acked = TRUE /\ k.last = c.last
    BY RecordWith
  <2>4. cand' = [cand EXCEPT ![r] = k]
    BY <1>7, <2>2, <2>3 DEF Acknowledge
  <2>5. cand'[r] = k
    BY <2>1, <2>4 DEF Types
  <2>6. CandStep(r)
    BY <2>1, <2>2, <2>3, <2>5 DEF CandStep, Follows
  <2> QED BY <2>1, <2>4, <2>6, CandOfOne
<1>8. CASE Pass
  <2>1. Longest \in Nat
    <3>1. MetadataProbe \in Nat /\ NoProgress \in Nat
      BY MusicConstants
    <3> QED BY <3>1 DEF Longest, Max
  <2>2. ASSUME NEW r \in Releases
        PROVE  /\ cand'[r] \in CandidateRecord /\ cand'[r].status = cand[r].status
               /\ cand'[r].acked = cand[r].acked /\ cand'[r].last = cand[r].last
    <3>1. PICK c \in CandidateRecord : c = cand[r]
      BY DEF Types
    <3>2. PICK p \in Nat : p = Later(c.probe, Longest)
      BY <2>1 DEF CandidateRecord, Later
    <3>3. PICK q \in Nat : q = Later(c.quiet, Longest)
      BY <2>1 DEF CandidateRecord, Later
    <3>4. cand'[r] = c \/ cand'[r] = [c EXCEPT !.probe = p, !.quiet = q]
      BY <1>8, <3>1, <3>2, <3>3 DEF Pass
    <3> QED BY <3>1, <3>4 DEF CandidateRecord
  <2>3. cand' \in [Releases -> CandidateRecord]
    BY <1>8, <2>2 DEF Pass
  <2>4. \A r \in Releases : CandStep(r)
    BY <2>2 DEF CandStep, Follows
  <2> QED BY <2>3, <2>4
<1> QED
  BY <1>1, <1>3, <1>4, <1>5, <1>6, <1>7, <1>8
     DEF MusicNext, ReconcilerStep, FenceStep, StartRun, MissingAlbums, ConfirmImported,
         RecoverNext, NextAlbum, AlbumReleases, Choose, StartPoll, PollNext,
         ObserveCandidateHealth, DeleteOwnedIncomplete, ApplyFenceInvalidation, Crash, Load, Import

\* A torrent that is there stays and only grows, but for the one the Fence deletes; one that
\* was not there is that of a release without a record.
TorrentStep(r) ==
  /\ torrent[r].here =>
       \/ torrent'[r].here /\ torrent[r].bytes <= torrent'[r].bytes
       \/ fen.pc = "delete" /\ r = fen.at /\ ~torrent'[r].here
  /\ ~torrent[r].here /\ torrent'[r].here => cand[r].status = "none"

LEMMA TorrentOfOne ==
  ASSUME Types, NEW r \in Releases, NEW t \in Torrent, torrent' = [torrent EXCEPT ![r] = t],
         TorrentStep(r)
  PROVE  torrent' \in [Releases -> Torrent] /\ \A s \in Releases : TorrentStep(s)
<1>1. torrent' \in [Releases -> Torrent]
  BY DEF Types
<1>2. ASSUME NEW s \in Releases, s # r PROVE TorrentStep(s)
  <2>1. torrent'[s] = torrent[s] /\ torrent[s] \in Torrent
    BY <1>2 DEF Types
  <2>2. torrent[s].bytes \in Nat
    BY <2>1 DEF Torrent
  <2> QED BY <2>1, <2>2 DEF TorrentStep
<1> QED BY <1>1, <1>2

LEMMA TorrentNext ==
  ASSUME Types, RecPlaced, FenPlaced, MusicNext
  PROVE  torrent' \in [Releases -> Torrent] /\ \A r \in Releases : TorrentStep(r)
<1> DEFINE Goal == torrent' \in [Releases -> Torrent] /\ \A r \in Releases : TorrentStep(r)
<1>1. CASE UNCHANGED torrent
  <2>1. \A r \in Releases : torrent[r].bytes \in Nat
    BY DEF Types, Torrent
  <2> QED BY <1>1, <2>1 DEF Types, TorrentStep
<1>2. CASE ExecuteSelected
  <2> DEFINE r == rec.op
  <2>1. r \in Releases
    BY <1>2 DEF ExecuteSelected, RecAt, RecPlaced
  <2>2. CASE cand[r].status = "none" /\ torrent' = [torrent EXCEPT ![r].here = TRUE]
    <3>1. PICK t \in Torrent : t = torrent[r]
      BY <2>1 DEF Types
    <3> DEFINE u == [t EXCEPT !.here = TRUE]
    <3>2. u \in Torrent /\ u.here = TRUE /\ u.bytes = t.bytes /\ t.bytes \in Nat
      BY DEF Torrent
    <3>3. torrent' = [torrent EXCEPT ![r] = u]
      BY <2>2, <3>1
    <3> HIDE DEF u
    <3>4. torrent'[r] = u
      BY <2>1, <3>3 DEF Types
    <3>5. TorrentStep(r)
      BY <2>2, <3>1, <3>2, <3>4 DEF TorrentStep
    <3> QED BY <2>1, <3>2, <3>3, <3>5, TorrentOfOne
  <2> QED BY <1>1, <1>2, <2>2 DEF ExecuteSelected
<1>3. CASE DeleteOwnedIncomplete
  <2> DEFINE r == fen.at
  <2>1. r \in Releases /\ fen.pc = "delete"
    BY <1>3 DEF DeleteOwnedIncomplete, FenAt, FenPlaced
  <2>2. CASE torrent' = [torrent EXCEPT ![r] = NoTorrent]
    <3>1. torrent'[r] = NoTorrent /\ NoTorrent \in Torrent /\ ~NoTorrent.here
      BY <2>1, <2>2, IdleIs DEF Types, NoTorrent
    <3>2. TorrentStep(r)
      BY <2>1, <3>1 DEF TorrentStep
    <3> QED BY <2>1, <2>2, <3>1, <3>2, TorrentOfOne
  <2> QED BY <1>1, <1>3, <2>2 DEF DeleteOwnedIncomplete
<1>4. ASSUME NEW r \in Releases, Load(r) PROVE Goal
  <2>1. PICK t \in Torrent : t = torrent[r]
    BY DEF Types
  <2>2. PICK n \in Nat : n = t.bytes + 1
    BY DEF Torrent
  <2> DEFINE u == [t EXCEPT !.bytes = n]
             v == [t EXCEPT !.meta = TRUE]
  <2>3. /\ u \in Torrent /\ u.here = t.here /\ u.bytes = n
        /\ v \in Torrent /\ v.here = t.here /\ v.bytes = t.bytes /\ t.bytes \in Nat
    BY DEF Torrent
  <2>4. t.here /\ (torrent' = [torrent EXCEPT ![r] = u] \/ torrent' = [torrent EXCEPT ![r] = v])
    BY <1>4, <2>1, <2>2 DEF Load
  <2> HIDE DEF u, v
  <2>5. ASSUME NEW w \in {u, v}, torrent' = [torrent EXCEPT ![r] = w] PROVE Goal
    <3>1. torrent'[r] = w /\ w \in Torrent /\ w.here = t.here /\ t.bytes <= w.bytes
      BY <2>2, <2>3, <2>5 DEF Types
    <3>2. TorrentStep(r)
      BY <2>1, <2>4, <3>1 DEF TorrentStep
    <3> QED BY <2>5, <3>1, <3>2, TorrentOfOne
  <2> QED BY <2>4, <2>5
<1> QED
  BY <1>1, <1>2, <1>3, <1>4
     DEF MusicNext, ReconcilerStep, FenceStep, StartRun, MissingAlbums, OnImported, ConfirmImported,
         RecoverNext, NextAlbum, AlbumReleases, Choose, StartPoll, PollNext,
         ObserveCandidateHealth, Judge, MarkDeleted, ApplyFenceInvalidation, Acknowledge, Pass,
         Crash, Import

LEMMA TypesNext ==
  ASSUME Types, Cycles, RecPlaced, FenPlaced, MusicNext PROVE Types'
<1>1. age' \in [Albums -> Nat]
  <2>1. CASE Pass
    <3>1. \A a \in Albums : Later(age[a], Horizon) \in Nat
      BY DEF Types, Later
    <3> QED BY <2>1, <3>1 DEF Pass
  <2> QED
    BY <2>1
       DEF Types, MusicNext, ReconcilerStep, FenceStep, StartRun, MissingAlbums, OnImported,
           ConfirmImported, RecoverNext, ExecuteSelected, NextAlbum, AlbumReleases, Choose,
           StartPoll, PollNext, ObserveCandidateHealth, Judge, DeleteOwnedIncomplete, MarkDeleted,
           ApplyFenceInvalidation, Acknowledge, Crash, Load, Import
<1>2. missing' \in SUBSET Albums
  <2>1. missing' = missing \/ \E a \in Albums : missing' = missing \ {a}
    BY DEF MusicNext, ReconcilerStep, FenceStep, StartRun, MissingAlbums, OnImported,
           ConfirmImported, RecoverNext, ExecuteSelected, NextAlbum, AlbumReleases, Choose,
           StartPoll, PollNext, ObserveCandidateHealth, Judge, DeleteOwnedIncomplete, MarkDeleted,
           ApplyFenceInvalidation, Acknowledge, Pass, Crash, Load, Import
  <2> QED BY <2>1 DEF Types
<1>3. forgotten' \in SUBSET Releases /\ forgotten \subseteq forgotten'
  <2>1. CASE Crash
    BY <2>1 DEF Types, Crash
  <2> QED
    BY <2>1
       DEF Types, MusicNext, ReconcilerStep, FenceStep, StartRun, MissingAlbums, OnImported,
           ConfirmImported, RecoverNext, ExecuteSelected, NextAlbum, AlbumReleases, Choose,
           StartPoll, PollNext, ObserveCandidateHealth, Judge, DeleteOwnedIncomplete, MarkDeleted,
           ApplyFenceInvalidation, Acknowledge, Pass, Load, Import
<1> QED BY <1>1, <1>2, <1>3, CyclesNext, RecTyped, FenTyped, CandNext, TorrentNext DEF Types

-----------------------------------------------------------------------------
(* What a step makes of the cycle of an album.                             *)

\* The album keeps its candidate, loses the one that was imported, is given one, loses the
\* one that is applied, or is taken back to what was saved.
ActiveStep(a) ==
  \/ /\ schedule'[a].active = schedule[a].active /\ schedule'[a].applied = schedule[a].applied
     /\ forgotten' = forgotten
  \/ /\ ConfirmImported /\ a = rec.album
     /\ schedule'[a].active = No /\ schedule'[a].applied = schedule[a].applied
  \/ /\ Choose /\ a = rec.album
     /\ schedule[a].active = No /\ schedule'[a].applied = schedule[a].applied
  \/ /\ ApplyFenceInvalidation
     /\ \E r \in fen.todo :
          /\ Album[r] = a /\ schedule[a].active = r /\ schedule'[a].active = No
          /\ schedule'[a].applied = schedule[a].applied \union {r}
  \/ Crash /\ schedule' = saved /\ saved' = saved

\* Nothing that was rejected on disk is lost, and what is saved is the schedule.
SavedStep(a) ==
  /\ RejectsAll(saved'[a], saved[a])
  /\ \/ saved'[a].active = saved[a].active /\ saved'[a].applied = saved[a].applied
     \/ saved'[a].active = schedule'[a].active /\ saved'[a].applied = schedule'[a].applied

LEMMA ChangedStep ==
  ASSUME Types, Cycles, NEW a \in Albums, NEW k \in Cycle, RejectsAll(k, schedule[a]),
         Changed(a, k), NEW b \in Albums
  PROVE  /\ b = a => schedule'[b] = k
         /\ b # a => schedule'[b] = schedule[b]
         /\ SavedStep(b)
<1>1. schedule'[b] = IF b = a THEN k ELSE schedule[b]
  BY DEF Types, Changed
<1>2. RejectsAll(schedule'[b], saved[b]) /\ RejectsAll(saved[b], saved[b])
  BY <1>1 DEF Cycles, RejectsAll
<1> QED BY <1>1, <1>2 DEF SavedStep, Changed

LEMMA ScheduleNext ==
  ASSUME Types, Cycles, RecPlaced, MusicNext, NEW b \in Albums
  PROVE  ActiveStep(b) /\ SavedStep(b)
<1>1. CASE UNCHANGED <<schedule, forgotten>> /\ (saved' = saved \/ saved' = schedule)
  BY <1>1 DEF Cycles, RejectsAll, ActiveStep, SavedStep
<1>2. CASE ConfirmImported
  <2> DEFINE a == rec.album
  <2>1. a \in Albums /\ Changed(a, ConfirmedImport(a)) /\ forgotten' = forgotten
    BY <1>2, ConfirmIs
  <2>2. /\ ConfirmedImport(a) \in Cycle /\ ConfirmedImport(a).active = No
        /\ ConfirmedImport(a).applied = schedule[a].applied
        /\ RejectsAll(ConfirmedImport(a), schedule[a])
    BY <2>1, ConfirmedIs DEF Cycles
  <2> QED BY <1>2, <2>1, <2>2, ChangedStep DEF ActiveStep
<1>3. CASE Choose
  <2> DEFINE a == rec.album
  <2>1. /\ a \in Albums /\ schedule[a].active = No /\ CycleOf(a, schedule[a])
        /\ forgotten' = forgotten
    BY <1>3, ChooseIs DEF Cycles
  <2>2. ASSUME NEW k \in Cycle, Changed(a, k), k.applied = schedule[a].applied,
               RejectsAll(k, schedule[a])
        PROVE  ActiveStep(b) /\ SavedStep(b)
    BY <1>3, <2>1, <2>2, ChangedStep DEF ActiveStep
  <2>3. CASE Changed(a, CompletedCycle(a))
    BY <2>1, <2>2, <2>3, CompletedIs
  <2>4. ASSUME NEW r \in Releases, Album[r] = a, ~WasRejected(a, r),
               Changed(a, StartedCandidate(a, r))
        PROVE  ActiveStep(b) /\ SavedStep(b)
    BY <2>1, <2>2, <2>4, StartedIs
  <2> QED BY <1>3, <2>3, <2>4, ChooseIs
<1>4. CASE ApplyFenceInvalidation
  <2>1. forgotten' = forgotten
    BY <1>4, ApplyIs
  <2>2. CASE UNCHANGED schedule /\ (saved' = schedule' \/ saved' = saved)
    BY <1>1, <2>1, <2>2
  <2>3. ASSUME NEW r \in fen.todo, r \in Releases, schedule[Album[r]].active = r,
               Changed(Album[r], Rejected(Album[r], r))
        PROVE  ActiveStep(b) /\ SavedStep(b)
    <3>1. Album[r] \in Albums /\ CycleOf(Album[r], schedule[Album[r]])
      BY <2>3, AlbumIs DEF Cycles
    <3>2. /\ Rejected(Album[r], r) \in Cycle /\ Rejected(Album[r], r).active = No
          /\ Rejected(Album[r], r).applied = schedule[Album[r]].applied \union {r}
          /\ RejectsAll(Rejected(Album[r], r), schedule[Album[r]])
      BY <2>3, <3>1, RejectedIs
    <3> QED BY <1>4, <2>1, <2>3, <3>1, <3>2, ChangedStep DEF ActiveStep
  <2> QED BY <1>4, <2>2, <2>3, ApplyIs
<1>5. CASE Pass
  <2>1. /\ schedule' = [a \in Albums |-> Rested(schedule[a])]
        /\ saved' = [a \in Albums |-> Rested(saved[a])] /\ forgotten' = forgotten
    BY <1>5 DEF Pass
  <2>2. /\ schedule[b] \in Cycle /\ saved[b] \in Cycle
        /\ CycleOf(b, schedule[b]) /\ CycleOf(b, saved[b])
    BY DEF Types, Cycles
  <2>3. schedule'[b] = Rested(schedule[b]) /\ saved'[b] = Rested(saved[b])
    BY <2>1
  <2> QED BY <2>1, <2>2, <2>3, RestedIs DEF ActiveStep, SavedStep, RejectsAll
<1>6. CASE Crash
  BY <1>6 DEF Crash, ActiveStep, SavedStep, RejectsAll
<1>7. CASE AlbumReleases
  BY <1>1, <1>7 DEF AlbumReleases
<1> QED
  BY <1>1, <1>2, <1>3, <1>4, <1>5, <1>6, <1>7
     DEF MusicNext, ReconcilerStep, FenceStep, StartRun, MissingAlbums, OnImported, RecoverNext,
         ExecuteSelected, NextAlbum, StartPoll, PollNext, ObserveCandidateHealth, Judge,
         DeleteOwnedIncomplete, MarkDeleted, Acknowledge, Load, Import

-----------------------------------------------------------------------------
(* The invariant.                                                          *)

LEMMA CandidatesNext ==
  ASSUME MusicInv, MusicNext PROVE Candidates'
<1> USE DEF MusicInv
<1>1. SUFFICES ASSUME NEW r \in Releases
               PROVE  /\ cand'[r].acked => cand'[r].status \in {"invalidated", "released"}
                      /\ cand'[r].last <= Size
                      /\ cand'[r].status = "none" => cand'[r].last = 0
                      /\ torrent'[r].here => cand'[r].last <= torrent'[r].bytes
                      /\ r \in schedule'[Album[r]].applied \union saved'[Album[r]].applied =>
                           /\ cand'[r].status \in {"invalidated", "released"}
                           /\ DeletePayload => cand'[r].status = "released"
  BY DEF Candidates, GivenUp
<1>2. CandStep(r) /\ TorrentStep(r)
  BY CandNext, TorrentNext
<1>3. /\ cand[r].last \in Nat /\ torrent[r].bytes \in Nat /\ torrent'[r].bytes \in Nat
      /\ Size \in Nat
  BY TorrentNext, MusicConstants DEF Types, CandidateRecord, Torrent
<1>4. cand'[r].acked => cand'[r].status \in {"invalidated", "released"}
  <2>1. cand'[r].acked => GivenUp(r)
    BY <1>2 DEF CandStep, Candidates, FenPlaced
  <2> QED BY <1>2, <2>1 DEF CandStep, Follows, GivenUp
<1>5. cand'[r].last <= Size /\ (cand'[r].status = "none" => cand'[r].last = 0)
  BY <1>2 DEF CandStep, Follows, Candidates
<1>6. torrent'[r].here => cand'[r].last <= torrent'[r].bytes
  <2>1. CASE cand'[r].last = cand[r].last /\ torrent[r].here
    <3>1. torrent'[r].here => torrent[r].bytes <= torrent'[r].bytes
      BY <1>2, <2>1 DEF TorrentStep
    <3>2. cand[r].last <= torrent[r].bytes
      BY <2>1 DEF Candidates
    <3> QED BY <1>3, <2>1, <3>1, <3>2
  <2>2. CASE cand'[r].last = cand[r].last /\ ~torrent[r].here
    <3>1. torrent'[r].here => cand[r].last = 0
      BY <1>2, <2>2 DEF TorrentStep, Candidates
    <3> QED BY <1>3, <2>2, <3>1
  <2>3. CASE /\ fen.pc = "judge" /\ r = fen.at /\ torrent' = torrent
             /\ cand'[r].last = fen.health.bytes
    BY <2>3 DEF FenPlaced
  <2> QED BY <1>2, <2>1, <2>2, <2>3 DEF CandStep
<1>7. r \in schedule'[Album[r]].applied \union saved'[Album[r]].applied =>
        GivenUp(r) /\ (DeletePayload => cand[r].status = "released")
  <2>1. ActiveStep(Album[r]) /\ SavedStep(Album[r])
    BY AlbumIs, ScheduleNext
  <2>2. r \in schedule'[Album[r]].applied =>
          \/ r \in schedule[Album[r]].applied \union saved[Album[r]].applied
          \/ fen.pc = "apply" /\ r \in fen.todo
    BY <2>1 DEF ActiveStep, ApplyFenceInvalidation, FenAt
  <2>3. r \in saved'[Album[r]].applied =>
          r \in saved[Album[r]].applied \/ r \in schedule'[Album[r]].applied
    BY <2>1 DEF SavedStep
  <2> QED BY <2>2, <2>3 DEF Candidates, FenPlaced
<1>8. GivenUp(r) => cand'[r].status \in {cand[r].status, "released"}
  BY <1>2 DEF CandStep, Follows, GivenUp
<1> QED BY <1>4, <1>5, <1>6, <1>7, <1>8 DEF GivenUp

LEMMA KnownNext ==
  ASSUME MusicInv, MusicNext PROVE Known'
<1> USE DEF MusicInv
<1>1. SUFFICES ASSUME NEW r \in Releases, r \notin forgotten'
               PROVE  /\ cand'[r].status = "probing" => schedule'[Album[r]].active = r
                      /\ cand'[r].status \in {"invalidated", "released"} =>
                           schedule'[Album[r]].active = r \/ r \in schedule'[Album[r]].applied
  BY DEF Known, GivenUp
<1> DEFINE a == Album[r]
<1>2. a \in Albums /\ CandStep(r) /\ ActiveStep(a)
  BY AlbumIs, CandNext, ScheduleNext
<1>3. CASE /\ schedule'[a].active = schedule[a].active
           /\ schedule'[a].applied = schedule[a].applied /\ forgotten' = forgotten
  <2>1. CASE cand'[r].status = "probing" /\ cand[r].status = "none"
    <3>1. ExecuteSelected /\ r = rec.op
      BY <1>2, <2>1 DEF CandStep
    <3>2. schedule[a].active = r
      BY <2>1, <3>1 DEF ExecuteSelected, RecAt, RecPlaced
    <3> QED BY <1>3, <2>1, <3>2
  <2>2. CASE ~(cand'[r].status = "probing" /\ cand[r].status = "none")
    <3>1. /\ cand'[r].status = "probing" => cand[r].status = "probing"
          /\ cand'[r].status \in {"invalidated", "released"} =>
               cand[r].status = "probing" \/ GivenUp(r)
      BY <1>2, <2>2 DEF CandStep, Follows, GivenUp
    <3> QED BY <1>1, <1>3, <3>1 DEF Known
  <2> QED BY <2>1, <2>2
<1>4. CASE ConfirmImported /\ a = rec.album /\ schedule'[a].applied = schedule[a].applied
  <2>1. cand' = cand /\ forgotten' = forgotten /\ rec.pc = "confirm"
    BY <1>4, ConfirmIs
  <2>2. schedule[a].active # r \/ cand[r].status = "succeeded"
    BY <1>4, <2>1, NoIsNoRelease DEF RecPlaced
  <2> QED BY <1>1, <1>4, <2>1, <2>2 DEF Known, GivenUp
<1>5. CASE Choose /\ schedule[a].active = No /\ schedule'[a].applied = schedule[a].applied
  <2>1. cand' = cand /\ forgotten' = forgotten
    BY <1>5, ChooseIs
  <2> QED BY <1>1, <1>5, <2>1, NoIsNoRelease DEF Known, GivenUp
<1>6. ASSUME ApplyFenceInvalidation, NEW s \in fen.todo, schedule[a].active = s,
             schedule'[a].applied = schedule[a].applied \union {s}
      PROVE  /\ cand'[r].status = "probing" => schedule'[a].active = r
             /\ cand'[r].status \in {"invalidated", "released"} =>
                  schedule'[a].active = r \/ r \in schedule'[a].applied
  <2>1. cand' = cand /\ forgotten' = forgotten /\ fen.pc = "apply"
    BY <1>6, ApplyIs
  <2>2. GivenUp(s)
    BY <1>6, <2>1 DEF FenPlaced
  <2> QED BY <1>1, <1>6, <2>1, <2>2 DEF Known, GivenUp
<1>7. CASE Crash /\ schedule' = saved
  <2>1. /\ cand' = cand
        /\ forgotten' = forgotten \union {q \in Releases :
             /\ cand[q].status \in {"probing", "invalidated", "released"}
             /\ saved[Album[q]].active # q /\ q \notin saved[Album[q]].applied}
    BY <1>7 DEF Crash
  <2>2. r \in saved[a].applied => cand[r].status # "probing"
    BY DEF Candidates, GivenUp
  <2> QED BY <1>1, <1>7, <2>1, <2>2
<1> QED BY <1>2, <1>3, <1>4, <1>5, <1>6, <1>7 DEF ActiveStep

\* While the Reconciler's thread stays where it is, an album loses at most a candidate that
\* was given up.
LEMMA FenceActive ==
  ASSUME MusicInv, NEW a \in Albums,
         FenceStep \/ (\E r \in Releases : Load(r)) \/ (\E b \in Albums : Import(b))
  PROVE  /\ rec' = rec
         /\ \/ schedule'[a].active = schedule[a].active
            \/ /\ schedule'[a].active = No /\ schedule[a].active \in Releases
               /\ GivenUp(schedule[a].active) /\ cand' = cand
         /\ saved'[a].active \in {saved[a].active, schedule'[a].active}
<1> USE DEF MusicInv
<1>1. rec' = rec
  BY DEF FenceStep, StartPoll, PollNext, ObserveCandidateHealth, Judge, DeleteOwnedIncomplete,
         MarkDeleted, ApplyFenceInvalidation, Acknowledge, Load, Import
<1>2. saved'[a].active \in {saved[a].active, schedule'[a].active}
  <2>1. MusicNext
    BY DEF MusicNext
  <2> QED BY <2>1, ScheduleNext DEF SavedStep
<1>3. CASE UNCHANGED schedule
  BY <1>1, <1>2, <1>3
<1>4. CASE ApplyFenceInvalidation
  <2>1. ASSUME NEW r \in fen.todo, r \in Releases, schedule[Album[r]].active = r,
               Changed(Album[r], Rejected(Album[r], r))
        PROVE  \/ schedule'[a].active = schedule[a].active
               \/ schedule'[a].active = No /\ schedule[a].active = r
    <3>1. Album[r] \in Albums /\ CycleOf(Album[r], schedule[Album[r]])
      BY <2>1, AlbumIs DEF Cycles
    <3>2. /\ Rejected(Album[r], r) \in Cycle /\ Rejected(Album[r], r).active = No
          /\ RejectsAll(Rejected(Album[r], r), schedule[Album[r]])
      BY <2>1, <3>1, RejectedIs
    <3> QED BY <2>1, <3>1, <3>2, ChangedStep
  <2>2. \A r \in fen.todo : GivenUp(r) /\ r \in Releases
    BY <1>4, ApplyIs DEF FenPlaced, Types, FenThread
  <2> QED BY <1>1, <1>2, <1>3, <1>4, <2>1, <2>2, ApplyIs
<1> QED
  BY <1>3, <1>4
     DEF FenceStep, StartPoll, PollNext, ObserveCandidateHealth, Judge, DeleteOwnedIncomplete,
         MarkDeleted, Acknowledge, Load, Import

LEMMA RecStays ==
  ASSUME MusicInv, FenceStep \/ (\E r \in Releases : Load(r)) \/ (\E a \in Albums : Import(a))
  PROVE  RecPlaced'
<1> USE DEF MusicInv
<1>1. MusicNext
  BY DEF MusicNext
<1>2. rec' = rec
  BY DEF FenceStep, StartPoll, PollNext, ObserveCandidateHealth, Judge, DeleteOwnedIncomplete,
         MarkDeleted, ApplyFenceInvalidation, Acknowledge, Load, Import
<1>3. ASSUME rec.pc \in {"search", "choose"}
      PROVE  /\ rec.album \in Albums /\ schedule'[rec.album].active = No
             /\ rec.pc = "choose" => saved'[rec.album].active = No
  BY <1>3, FenceActive DEF RecPlaced
<1>4. ASSUME rec.pc = "confirm"
      PROVE  /\ rec.album \in Albums
             /\ schedule'[rec.album].active # No =>
                  cand'[schedule'[rec.album].active].status = "succeeded"
  <2>1. rec.album \in Albums
    BY <1>4 DEF RecPlaced
  <2>2. CASE schedule'[rec.album].active = schedule[rec.album].active /\ schedule[rec.album].active # No
    <3>1. schedule[rec.album].active \in Releases
      BY <2>1, <2>2 DEF Types, Cycle
    <3>2. cand[schedule[rec.album].active].status = "succeeded"
      BY <1>4, <2>2 DEF RecPlaced
    <3>3. CandStep(schedule[rec.album].active)
      BY <1>1, <3>1, CandNext
    <3> QED BY <2>1, <2>2, <3>2, <3>3 DEF CandStep, Follows
  <2> QED BY <2>1, <2>2, FenceActive
<1>5. ASSUME rec.pc = "execute"
      PROVE  /\ rec.op \in Releases
             /\ cand'[rec.op].status = "none" => schedule'[Album[rec.op]].active = rec.op
  <2>1. rec.op \in Releases /\ Album[rec.op] \in Albums
    BY <1>5, AlbumIs DEF RecPlaced
  <2>2. cand'[rec.op].status = "none" => cand[rec.op].status = "none"
    BY <1>1, <2>1, CandNext DEF CandStep, Follows
  <2>3. cand[rec.op].status = "none" => schedule[Album[rec.op]].active = rec.op
    BY <1>5 DEF RecPlaced
  <2> QED BY <2>1, <2>2, <2>3, FenceActive DEF GivenUp
<1> QED BY <1>2, <1>3, <1>4, <1>5 DEF RecPlaced

LEMMA RecPlacedNext ==
  ASSUME MusicInv, MusicNext PROVE RecPlaced'
<1> USE DEF MusicInv
<1>1. rec \in RecThread /\ rec' \in RecThread
  BY RecTyped DEF Types
<1>2. CASE rec'.pc \notin {"search", "choose", "confirm", "execute"}
  BY <1>2 DEF RecPlaced
<1>3. CASE FenceStep \/ (\E r \in Releases : Load(r)) \/ (\E a \in Albums : Import(a))
  BY <1>3, RecStays
<1>4. CASE rec' = RecIdle \/ rec' = [RecIdle EXCEPT !.pc = "rest"]
  BY <1>2, <1>4, IdleIs
<1>5. CASE StartRun \/ MissingAlbums
  <2>1. rec'.pc \in {"inventory", "imported", "recover"}
    BY <1>1, <1>5 DEF StartRun, MissingAlbums, RecThread
  <2> QED BY <1>2, <2>1
<1>6. CASE OnImported
  <2>1. CASE rec'.pc \in {"imported", "recover"}
    BY <1>2, <2>1
  <2>2. ASSUME NEW a \in rec.actives, schedule[a].active # No,
               cand' = [cand EXCEPT ![schedule[a].active].status = "succeeded"],
               rec' = [[rec EXCEPT !.actives = @ \ {a}] EXCEPT !.pc = "confirm", !.album = a]
        PROVE  RecPlaced'
    <3>1. a \in Albums /\ schedule[a].active \in Releases
      BY <1>1, <2>2 DEF Types, RecThread, Cycle
    <3>2. rec'.pc = "confirm" /\ rec'.album = a
      BY <1>1, <2>2 DEF RecThread
    <3>3. cand'[schedule[a].active].status = "succeeded"
      <4>1. PICK c \in CandidateRecord : c = cand[schedule[a].active]
        BY <3>1 DEF Types
      <4>2. cand'[schedule[a].active] = [c EXCEPT !.status = "succeeded"]
        BY <2>2, <3>1, <4>1 DEF Types
      <4> QED BY <4>1, <4>2 DEF CandidateRecord
    <3>4. schedule' = schedule
      BY <1>6 DEF OnImported
    <3> QED BY <3>1, <3>2, <3>3, <3>4 DEF RecPlaced
  <2>3. \/ rec.actives = {} /\ RecTo("recover")
        \/ \E a \in rec.actives :
             \/ rec' = [rec EXCEPT !.actives = @ \ {a}]
             \/ /\ schedule[a].active # No
                /\ cand' = [cand EXCEPT ![schedule[a].active].status = "succeeded"]
                /\ rec' = [[rec EXCEPT !.actives = @ \ {a}] EXCEPT !.pc = "confirm", !.album = a]
    BY <1>6 DEF OnImported, Least
  <2>4. CASE \E a \in rec.actives : rec' = [rec EXCEPT !.actives = @ \ {a}]
    <3>1. rec'.pc = "imported"
      BY <1>1, <1>6, <2>4 DEF OnImported, RecAt, RecThread
    <3> QED BY <2>1, <3>1
  <2>5. CASE RecTo("recover")
    BY <1>1, <2>1, <2>5 DEF RecTo, RecThread
  <2> QED BY <2>2, <2>3, <2>4, <2>5
<1>7. CASE ConfirmImported
  <2>1. CASE rec' = [rec EXCEPT !.pc = "imported", !.album = No]
    BY <1>1, <1>2, <2>1 DEF RecThread
  <2> QED BY <1>4, <1>7, <2>1, ConfirmIs
<1>8. CASE RecoverNext
  <2>1. CASE rec'.pc \in {"albums", "recover"}
    BY <1>2, <2>1
  <2>2. ASSUME NEW a \in rec.todo, schedule[a].active # No,
               rec' = [rec EXCEPT !.todo = @ \ {a}, !.op = schedule[a].active, !.pc = "execute"]
        PROVE  RecPlaced'
    <3>1. a \in Albums /\ schedule[a].active \in Releases
      BY <1>1, <2>2 DEF Types, RecThread, Cycle
    <3>2. rec'.pc = "execute" /\ rec'.op = schedule[a].active
      BY <1>1, <2>2 DEF RecThread
    <3>3. Album[schedule[a].active] = a
      BY <2>2, <3>1 DEF Cycles, CycleOf
    <3>4. schedule' = schedule
      BY <1>8 DEF RecoverNext
    <3> QED BY <3>1, <3>2, <3>3, <3>4 DEF RecPlaced
  <2>3. \/ rec' = [rec EXCEPT !.pc = "albums", !.todo = missing]
        \/ RecRests
        \/ \E a \in rec.todo :
             \/ rec' = [rec EXCEPT !.todo = @ \ {a}, !.grabs = @ + 1]
             \/ /\ schedule[a].active # No
                /\ rec' = [rec EXCEPT !.todo = @ \ {a}, !.op = schedule[a].active, !.pc = "execute"]
    BY <1>8 DEF RecoverNext, Least
  <2>4. CASE rec' = [rec EXCEPT !.pc = "albums", !.todo = missing]
    BY <1>1, <2>1, <2>4 DEF RecThread
  <2>5. CASE \E a \in rec.todo : rec' = [rec EXCEPT !.todo = @ \ {a}, !.grabs = @ + 1]
    <3>1. rec'.pc = "recover"
      BY <1>1, <1>8, <2>5 DEF RecoverNext, RecAt, RecThread
    <3> QED BY <2>1, <3>1
  <2> QED BY <1>4, <2>2, <2>3, <2>4, <2>5 DEF RecRests
<1>9. CASE ExecuteSelected
  <2> DEFINE pc == IF rec.album = No THEN "recover" ELSE "albums"
             n == rec.grabs + 1
  <2>1. rec' = [rec EXCEPT !.op = No, !.grabs = n, !.pc = pc, !.album = No]
    BY <1>9 DEF ExecuteSelected
  <2>2. pc \in {"recover", "albums"}
    OBVIOUS
  <2> HIDE DEF pc, n
  <2>3. rec'.pc \in {"recover", "albums"}
    BY <1>1, <2>1, <2>2 DEF RecThread
  <2> QED BY <1>2, <2>3
<1>10. CASE NextAlbum
  <2>1. ASSUME NEW a \in rec.todo, Due(a),
               rec' = [rec EXCEPT !.todo = @ \ {a}, !.album = a, !.pc = "search"]
        PROVE  RecPlaced'
    <3>1. a \in Albums /\ rec'.pc = "search" /\ rec'.album = a
      BY <1>1, <2>1 DEF RecThread
    <3>2. schedule' = schedule /\ schedule[a].active = No
      BY <1>10, <2>1 DEF NextAlbum, Due
    <3> QED BY <3>1, <3>2 DEF RecPlaced
  <2>2. ASSUME NEW a \in rec.todo, rec' = [rec EXCEPT !.todo = @ \ {a}]
        PROVE  rec'.pc = "albums"
    BY <1>1, <1>10, <2>2 DEF NextAlbum, RecAt, RecThread
  <2> QED BY <1>2, <1>4, <1>10, <2>1, <2>2 DEF NextAlbum, RecRests, Least
<1>11. CASE AlbumReleases
  <2> DEFINE n == rec.searched + 1
             asked == [rec EXCEPT !.searched = n]
  <2>1. /\ \/ saved' = schedule /\ rec' = [asked EXCEPT !.pc = "choose"]
           \/ rec' = [asked EXCEPT !.pc = "albums", !.album = No]
           \/ RecRests
        /\ rec.pc = "search" /\ schedule' = schedule
    BY <1>11 DEF AlbumReleases, RecAt
  <2> HIDE DEF n
  <2>2. CASE saved' = schedule /\ rec' = [asked EXCEPT !.pc = "choose"]
    <3>1. rec'.pc = "choose" /\ rec'.album = rec.album
      BY <1>1, <2>2 DEF RecThread
    <3> QED BY <2>1, <2>2, <3>1 DEF RecPlaced
  <2>3. CASE rec' = [asked EXCEPT !.pc = "albums", !.album = No]
    BY <1>1, <1>2, <2>3 DEF RecThread
  <2> QED BY <1>4, <2>1, <2>2, <2>3 DEF RecRests
<1>12. CASE Choose
  <2> DEFINE a == rec.album
  <2>1. ASSUME NEW r \in Releases, Album[r] = a, ~WasRejected(a, r),
               Changed(a, StartedCandidate(a, r)), rec' = [rec EXCEPT !.op = r, !.pc = "execute"]
        PROVE  RecPlaced'
    <3>1. /\ a \in Albums /\ schedule[a].active = No /\ CycleOf(a, schedule[a])
      BY <1>12, ChooseIs DEF Cycles
    <3>2. /\ StartedCandidate(a, r) \in Cycle /\ StartedCandidate(a, r).active = r
          /\ RejectsAll(StartedCandidate(a, r), schedule[a])
      BY <2>1, <3>1, StartedIs
    <3>3. schedule'[a].active = r
      BY <2>1, <3>1, <3>2, ChangedStep
    <3>4. rec'.pc = "execute" /\ rec'.op = r
      BY <1>1, <2>1 DEF RecThread
    <3> QED BY <2>1, <3>3, <3>4 DEF RecPlaced
  <2>2. CASE rec' = [rec EXCEPT !.pc = "albums", !.album = No]
    BY <1>1, <1>2, <2>2 DEF RecThread
  <2> QED BY <1>4, <1>12, <2>1, <2>2, ChooseIs
<1>13. CASE Pass \/ Crash
  BY <1>4, <1>13 DEF Pass, Crash
<1> QED
  BY <1>3, <1>5, <1>6, <1>7, <1>8, <1>9, <1>10, <1>11, <1>12, <1>13 DEF MusicNext, ReconcilerStep

\* What was rejected on disk stays so, and what was given up.
LEMMA RejectedStays ==
  ASSUME MusicInv, MusicNext, NEW r \in Releases
  PROVE  /\ r \in saved[Album[r]].selectors => r \in saved'[Album[r]].selectors
         /\ Hash[r] \in saved[Album[r]].hashes => Hash[r] \in saved'[Album[r]].hashes
         /\ GivenUp(r) => cand'[r].status \in {"invalidated", "released"}
         /\ cand[r].status = "released" => cand'[r].status = "released"
<1>1. SavedStep(Album[r])
  BY AlbumIs, ScheduleNext DEF MusicInv
<1>2. CandStep(r)
  BY CandNext DEF MusicInv
<1> QED BY <1>1, <1>2 DEF SavedStep, RejectsAll, CandStep, Follows, GivenUp

\* The verdict that is acknowledged next is on disk.
LEMMA ApplyRejects ==
  ASSUME MusicInv, NEW r \in fen.todo, r \in Releases, saved' = schedule',
         \/ r \in schedule[Album[r]].applied /\ UNCHANGED schedule
         \/ schedule[Album[r]].active = r /\ Changed(Album[r], Rejected(Album[r], r))
  PROVE  r \in saved'[Album[r]].selectors /\ Hash[r] \in saved'[Album[r]].hashes
<1> USE DEF MusicInv
<1> DEFINE a == Album[r]
<1>1. a \in Albums /\ CycleOf(a, schedule[a])
  BY AlbumIs DEF Cycles
<1>2. CASE r \in schedule[a].applied /\ UNCHANGED schedule
  BY <1>1, <1>2 DEF CycleOf
<1>3. CASE schedule[a].active = r /\ Changed(a, Rejected(a, r))
  <2>1. /\ Rejected(a, r) \in Cycle /\ CycleOf(a, Rejected(a, r))
        /\ Rejected(a, r).applied = schedule[a].applied \union {r}
        /\ RejectsAll(Rejected(a, r), schedule[a])
    BY <1>1, <1>3, RejectedIs
  <2>2. schedule'[a] = Rejected(a, r)
    BY <1>1, <1>3, <2>1, ChangedStep
  <2> QED BY <1>1, <2>1, <2>2 DEF CycleOf
<1> QED BY <1>2, <1>3

LEMMA FenPlacedNext ==
  ASSUME MusicInv, MusicNext PROVE FenPlaced'
<1> USE DEF MusicInv
<1> DEFINE Pcs == {"observe", "judge", "delete", "deleted", "apply", "acknowledge"}
<1>1. fen \in FenThread /\ fen' \in FenThread
  BY FenTyped DEF Types
<1>2. CASE fen'.pc \notin Pcs
  BY <1>2 DEF FenPlaced
<1>3. CASE fen' = FenIdle \/ fen' = [FenIdle EXCEPT !.pc = "rest"]
  BY <1>2, <1>3, IdleIs
<1>4. CASE FenTo("next")
  BY <1>1, <1>2, <1>4, FenToIs
<1>5. ASSUME NEW T \in SUBSET fen.todo, fen.pc \in {"apply", "acknowledge"}
      PROVE  \A r \in T : /\ cand'[r].status \in {"invalidated", "released"}
                          /\ DeletePayload => cand'[r].status = "released"
  <2>1. \A r \in T : r \in Releases /\ GivenUp(r) /\ (DeletePayload => cand[r].status = "released")
    BY <1>1, <1>5 DEF FenThread, FenPlaced
  <2> QED BY <2>1, RejectedStays
<1>6. CASE fen' = fen
  <2>1. CASE fen.pc \in {"observe", "judge", "delete", "deleted", "acknowledge"}
    <3>1. fen.at \in Releases
      BY <2>1 DEF FenPlaced
    <3>2. CandStep(fen.at) /\ TorrentStep(fen.at)
      BY <3>1, CandNext, TorrentNext
    <3>3. ~MarkDeleted \/ fen.pc # "deleted"
      <4>1. ASSUME MarkDeleted PROVE fen'.pc = "next"
        BY <1>1, <4>1, FenToIs DEF MarkDeleted
      <4> QED BY <1>6, <4>1
    <3>4. MarkDeleted => fen.pc = "deleted"
      BY DEF MarkDeleted, FenAt
    <3>5. fen.pc \in {"delete", "deleted"} => cand'[fen.at].status = "invalidated"
      BY <3>2, <3>3, <3>4 DEF CandStep, FenPlaced
    <3>6. fen.pc = "judge" => torrent'[fen.at].here /\ fen.health.bytes <= torrent'[fen.at].bytes
      <4>1. /\ fen.health.bytes \in Nat /\ torrent[fen.at].bytes \in Nat
            /\ torrent'[fen.at].bytes \in Nat
        BY <1>1, <3>1, TorrentNext DEF Types, FenThread, Torrent
      <4>2. fen.pc = "judge" =>
              /\ torrent[fen.at].here /\ fen.health.bytes <= torrent[fen.at].bytes
              /\ torrent'[fen.at].here /\ torrent[fen.at].bytes <= torrent'[fen.at].bytes
        BY <3>2 DEF TorrentStep, FenPlaced
      <4> QED BY <4>1, <4>2
    <3>7. fen.pc = "acknowledge" =>
            /\ cand'[fen.at].status \in {"invalidated", "released"}
            /\ fen.at \in saved'[Album[fen.at]].selectors
            /\ Hash[fen.at] \in saved'[Album[fen.at]].hashes
            /\ \A r \in fen.todo : /\ cand'[r].status \in {"invalidated", "released"}
                                   /\ DeletePayload => cand'[r].status = "released"
      BY <1>5, <3>1, RejectedStays DEF FenPlaced
    <3> QED BY <1>6, <2>1, <3>1, <3>5, <3>6, <3>7 DEF FenPlaced, GivenUp
  <2>2. CASE fen.pc = "apply"
    BY <1>5, <1>6, <2>2 DEF FenPlaced, GivenUp
  <2> QED BY <1>2, <1>6, <2>1, <2>2
<1>7. CASE StartPoll
  BY <1>1, <1>2, <1>7 DEF StartPoll, FenThread
<1>8. CASE PollNext
  <2>1. CASE fen' = [fen EXCEPT !.pc = "apply", !.at = No, !.todo = Pending]
    <3>1. fen'.pc = "apply" /\ fen'.todo = Pending
      BY <1>1, <2>1 DEF FenThread
    <3>2. \A r \in Pending : GivenUp(r) /\ (DeletePayload => cand[r].status = "released")
      BY DEF Pending, GivenUp
    <3>3. cand' = cand
      BY <1>8 DEF PollNext
    <3> QED BY <3>1, <3>2, <3>3 DEF FenPlaced, GivenUp
  <2>2. ASSUME NEW r \in fen.todo,
               \/ /\ cand[r].status = "invalidated"
                  /\ fen' = [fen EXCEPT !.todo = @ \ {r}, !.at = r, !.pc = "delete"]
               \/ fen' = [fen EXCEPT !.todo = @ \ {r}, !.at = r, !.pc = "observe"]
        PROVE  FenPlaced'
    <3>1. r \in Releases /\ fen'.at = r
      BY <1>1, <2>2 DEF FenThread
    <3>2. fen'.pc = "observe" \/ (fen'.pc = "delete" /\ cand[r].status = "invalidated")
      BY <1>1, <2>2 DEF FenThread
    <3>3. cand' = cand
      BY <1>8 DEF PollNext
    <3> QED BY <3>1, <3>2, <3>3 DEF FenPlaced
  <2> QED BY <1>8, <2>1, <2>2 DEF PollNext, Least
<1>9. CASE ObserveCandidateHealth
  <2>1. CASE /\ torrent[fen.at].here
             /\ fen' = [fen EXCEPT !.pc = "judge", !.health = torrent[fen.at]]
    <3>1. fen.at \in Releases /\ torrent' = torrent /\ torrent[fen.at].bytes \in Nat
      BY <1>9 DEF ObserveCandidateHealth, FenAt, FenPlaced, Types, Torrent
    <3>2. fen'.pc = "judge" /\ fen'.at = fen.at /\ fen'.health = torrent[fen.at]
      BY <1>1, <2>1 DEF FenThread
    <3> QED BY <2>1, <3>1, <3>2 DEF FenPlaced
  <2> QED BY <1>4, <1>9, <2>1 DEF ObserveCandidateHealth
<1>10. CASE Judge
  <2>1. CASE FenTo("delete") /\ cand' = [cand EXCEPT ![fen.at].status = "invalidated"]
    <3>1. fen.at \in Releases
      BY <1>10, JudgeIs
    <3>2. fen'.pc = "delete" /\ fen'.at = fen.at
      BY <1>1, <2>1, FenToIs
    <3>3. PICK c \in CandidateRecord : c = cand[fen.at]
      BY <3>1 DEF Types
    <3>4. cand'[fen.at] = [c EXCEPT !.status = "invalidated"]
      BY <2>1, <3>1, <3>3 DEF Types
    <3>5. cand'[fen.at].status = "invalidated"
      BY <3>3, <3>4 DEF CandidateRecord
    <3> QED BY <3>1, <3>2, <3>5 DEF FenPlaced
  <2> QED BY <1>4, <1>10, <2>1, JudgeIs
<1>11. CASE DeleteOwnedIncomplete
  <2>1. CASE FenTo("deleted")
    <3>1. /\ fen.at \in Releases /\ cand' = cand /\ cand[fen.at].status = "invalidated"
      BY <1>11 DEF DeleteOwnedIncomplete, FenAt, FenPlaced
    <3>2. fen'.pc = "deleted" /\ fen'.at = fen.at
      BY <1>1, <2>1, FenToIs
    <3> QED BY <3>1, <3>2 DEF FenPlaced
  <2> QED BY <1>4, <1>11, <2>1 DEF DeleteOwnedIncomplete
<1>12. CASE MarkDeleted
  BY <1>4, <1>12 DEF MarkDeleted
<1>13. CASE ApplyFenceInvalidation
  <2>1. fen.pc = "apply" /\ cand' = cand
    BY <1>13, ApplyIs
  <2>2. ASSUME NEW r \in fen.todo, fen' = [fen EXCEPT !.todo = @ \ {r}]
        PROVE  FenPlaced'
    <3>1. fen'.pc = "apply" /\ fen'.todo = fen.todo \ {r}
      BY <1>1, <2>1, <2>2 DEF FenThread
    <3> QED BY <1>5, <2>1, <3>1 DEF FenPlaced, GivenUp
  <2>3. ASSUME NEW r \in fen.todo, r \in Releases, saved' = schedule',
               \/ r \in schedule[Album[r]].applied /\ UNCHANGED schedule
               \/ schedule[Album[r]].active = r /\ Changed(Album[r], Rejected(Album[r], r)),
               fen' = [fen EXCEPT !.todo = @ \ {r}, !.at = r, !.pc = "acknowledge"]
        PROVE  FenPlaced'
    <3>1. fen'.pc = "acknowledge" /\ fen'.todo = fen.todo \ {r} /\ fen'.at = r
      BY <1>1, <2>3 DEF FenThread
    <3>2. r \in saved'[Album[r]].selectors /\ Hash[r] \in saved'[Album[r]].hashes
      BY <2>3, ApplyRejects
    <3>3. GivenUp(r)
      BY <2>1 DEF FenPlaced
    <3> QED BY <1>5, <2>1, <2>3, <3>1, <3>2, <3>3 DEF FenPlaced, GivenUp
  <2> QED BY <1>3, <1>13, <2>2, <2>3, ApplyIs
<1>14. CASE Acknowledge
  <2>1. fen.pc = "acknowledge" /\ fen'.pc = "apply" /\ fen'.todo = fen.todo
    BY <1>1, <1>14, FenToIs DEF Acknowledge, FenAt
  <2> QED BY <1>5, <2>1 DEF FenPlaced, GivenUp
<1>15. CASE \/ ReconcilerStep \/ Pass \/ Crash
            \/ (\E r \in Releases : Load(r)) \/ (\E a \in Albums : Import(a))
  BY <1>3, <1>6, <1>15
     DEF ReconcilerStep, StartRun, MissingAlbums, OnImported, ConfirmImported, RecoverNext,
         ExecuteSelected, NextAlbum, AlbumReleases, Choose, Pass, Crash, Load, Import
<1> QED
  BY <1>7, <1>8, <1>9, <1>10, <1>11, <1>12, <1>13, <1>14, <1>15 DEF MusicNext, FenceStep

LEMMA AcknowledgedNext ==
  ASSUME MusicInv, MusicNext PROVE AcknowledgedIsRejected'
<1> USE DEF MusicInv
<1>1. SUFFICES ASSUME NEW r \in Releases, cand'[r].acked
               PROVE  r \in saved'[Album[r]].selectors /\ Hash[r] \in saved'[Album[r]].hashes
  BY DEF AcknowledgedIsRejected
<1>2. cand[r].acked \/ (fen.pc = "acknowledge" /\ r = fen.at)
  BY <1>1, CandNext DEF CandStep
<1>3. r \in saved[Album[r]].selectors /\ Hash[r] \in saved[Album[r]].hashes
  BY <1>2 DEF AcknowledgedIsRejected, FenPlaced
<1> QED BY <1>3, RejectedStays

LEMMA MusicInvInit == MusicInit => MusicInv
<1> SUFFICES ASSUME MusicInit PROVE MusicInv
  OBVIOUS
<1> USE MusicConstants DEF MusicInit
<1>1. NoCycle \in Cycle /\ NoCandidate \in CandidateRecord /\ NoTorrent \in Torrent
  BY DEF NoCycle, NoCandidate, NoTorrent, Cycle, CandidateRecord, Torrent, No
<1>2. Types
  BY <1>1, IdleIs DEF Types
<1>3. \A a \in Albums : CycleOf(a, NoCycle)
  BY DEF CycleOf, NoCycle, No
<1>4. Cycles
  BY <1>3 DEF Cycles
<1>5. \A r \in Releases : schedule[Album[r]] = NoCycle /\ saved[Album[r]] = NoCycle
  BY AlbumIs
<1>6. Candidates /\ Known /\ AcknowledgedIsRejected
  BY <1>5 DEF Candidates, Known, AcknowledgedIsRejected, GivenUp, NoCandidate, NoTorrent, NoCycle
<1>7. RecPlaced /\ FenPlaced
  BY IdleIs DEF RecPlaced, FenPlaced
<1> QED BY <1>2, <1>4, <1>6, <1>7 DEF MusicInv

LEMMA MusicInvNext == MusicInv /\ [MusicNext]_vars => MusicInv'
<1> SUFFICES ASSUME MusicInv, [MusicNext]_vars PROVE MusicInv'
  OBVIOUS
<1>1. CASE MusicNext
  BY <1>1, TypesNext, CyclesNext, CandidatesNext, KnownNext, RecPlacedNext, FenPlacedNext,
     AcknowledgedNext DEF MusicInv
<1>2. CASE UNCHANGED vars
  <2> USE <1>2 DEF vars, MusicInv
  <2>1. Types' /\ Cycles'
    BY DEF Types, Cycles, CycleOf
  <2>2. Candidates' /\ Known' /\ AcknowledgedIsRejected'
    BY DEF Candidates, Known, AcknowledgedIsRejected, GivenUp
  <2>3. RecPlaced' /\ FenPlaced'
    BY DEF RecPlaced, FenPlaced, GivenUp
  <2> QED BY <2>1, <2>2, <2>3
<1> QED BY <1>1, <1>2

LEMMA MusicInvHolds == Spec => []MusicInv
BY MusicInvInit, MusicInvNext, PTL DEF Spec

-----------------------------------------------------------------------------
(* The theorems.                                                           *)

\* Every cycle stays within its limits and never has a rejected release active, and the
\* Fence's record of a candidate never runs ahead of its torrent (_mark_failed and
\* start_candidate of reconciler/music.py, evaluate_candidate_health of fence/model.py).
THEOREM MusicIsTyped == Spec => []MusicTypeOK
<1>1. MusicInv => MusicTypeOK
  <2> SUFFICES ASSUME MusicInv PROVE MusicTypeOK
    OBVIOUS
  <2> USE DEF MusicInv
  <2>1. ASSUME NEW a \in Albums
        PROVE  LET k == schedule[a] IN
               /\ k.active \in {No} \union {r \in Releases : Album[r] = a}
               /\ k.used \in 0 .. MaxCandidates /\ (k.active # No => k.used > 0)
               /\ k.applied \subseteq k.selectors /\ k.active \notin k.selectors
               /\ k.rest \in 0 .. Cooldown
    <3> DEFINE k == schedule[a]
    <3>1. CycleOf(a, k) /\ k \in Cycle
      BY DEF Types, Cycles
    <3>2. k.used \in Nat /\ k.rest \in Nat /\ MaxCandidates \in Nat /\ Cooldown \in Nat
      BY <3>1, MusicConstants DEF Cycle
    <3>3. k.active \in Releases \union {No} /\ k.selectors \in SUBSET Releases
      BY <3>1 DEF Cycle
    <3> HIDE DEF k
    <3>4. k.used \in 0 .. MaxCandidates /\ k.rest \in 0 .. Cooldown
      BY <3>1, <3>2 DEF CycleOf
    <3> QED BY <3>1, <3>3, <3>4, NoIsNoRelease DEF CycleOf, k
  <2>2. ASSUME NEW r \in Releases
        PROVE  /\ cand[r].status \in {"none", "probing", "invalidated", "released", "succeeded"}
               /\ cand[r].acked => cand[r].status \in {"invalidated", "released"}
               /\ cand[r].last <= Size
               /\ torrent[r].here => cand[r].last <= torrent[r].bytes
    BY DEF Types, CandidateRecord, Candidates, GivenUp
  <2> QED BY <2>1, <2>2 DEF MusicTypeOK
<1> QED BY <1>1, MusicInvHolds, PTL

\* What the Fence no longer reports is rejected on disk, release and torrent, over any
\* number of failed saves and restarts (apply_fence_invalidations of runtime.py).
THEOREM AcknowledgedIsOnDisk == Spec => []AcknowledgedIsRejected
<1>1. MusicInv => AcknowledgedIsRejected
  BY DEF MusicInv
<1> QED BY <1>1, MusicInvHolds, PTL

\* Where payloads are deleted, an album has one transfer at a time that counts against the
\* Fence's capacity, the forgotten ones aside: the verdict is applied after the deletion
\* only (pending_invalidations of fence/service.py).
THEOREM AlbumHasOneTransfer ==
  ASSUME DeletePayload PROVE Spec => []OneTransferPerAlbum
<1>1. MusicInv => OneTransferPerAlbum
  <2> SUFFICES ASSUME MusicInv,
                      NEW r \in Releases \ forgotten, NEW s \in Releases \ forgotten,
                      {cand[r].status, cand[s].status} \subseteq {"probing", "invalidated"},
                      Album[r] = Album[s]
               PROVE  r = s
    BY DEF OneTransferPerAlbum
  <2>1. ASSUME NEW t \in Releases \ forgotten, cand[t].status \in {"probing", "invalidated"}
        PROVE  schedule[Album[t]].active = t
    <3>1. t \notin schedule[Album[t]].applied
      BY <2>1 DEF MusicInv, Candidates, GivenUp
    <3> QED BY <2>1, <3>1 DEF MusicInv, Known, GivenUp
  <2> QED BY <2>1
<1> QED BY <1>1, MusicInvHolds, PTL

\* A torrent the Fence gave up for an album is not chosen again, under another listing
\* either if that names the hash (was_rejected of reconciler/music.py).
THEOREM RejectedIsNotTried == Spec => RejectedNotTriedAgain
<1> DEFINE Chosen ==
      \A r \in HashListed :
        RecAt("choose") /\ schedule'[rec.album].active = r =>
          \A s \in Releases \ forgotten :
            Album[s] = rec.album /\ Hash[s] = Hash[r] =>
              cand[s].status \notin {"invalidated", "released"}
<1>1. MusicInv /\ [MusicNext]_vars => [Chosen]_vars
  <2> SUFFICES ASSUME MusicInv, MusicNext, NEW r \in HashListed, RecAt("choose"),
                      schedule'[rec.album].active = r,
                      NEW s \in Releases \ forgotten, Album[s] = rec.album, Hash[s] = Hash[r],
                      GivenUp(s)
               PROVE  FALSE
    BY DEF GivenUp
  <2> DEFINE a == rec.album
  <2>1. /\ a \in Albums /\ schedule[a].active = No /\ saved[a].active = No
        /\ r \in Releases /\ r # No
    BY MusicConstants, NoIsNoRelease DEF MusicInv, RecPlaced, RecAt
  <2>2. s \in schedule[a].applied
    BY <2>1, NoIsNoRelease DEF MusicInv, Known
  <2>3. Hash[r] \in schedule[a].hashes
    BY <2>1, <2>2 DEF MusicInv, Cycles, CycleOf
  <2>4. WasRejected(a, r)
    BY <2>3 DEF WasRejected
  <2>5. ActiveStep(a)
    BY <2>1, ScheduleNext DEF MusicInv
  <2>6. Choose
    <3>1. ~ConfirmImported
      BY DEF ConfirmImported, RecAt
    <3> QED BY <2>1, <2>5, <3>1 DEF ActiveStep
  <2>7. ASSUME NEW q \in Releases, Album[q] = a, ~WasRejected(a, q),
               Changed(a, StartedCandidate(a, q))
        PROVE  FALSE
    <3>1. CycleOf(a, schedule[a])
      BY <2>1 DEF MusicInv, Cycles
    <3>2. /\ StartedCandidate(a, q) \in Cycle /\ StartedCandidate(a, q).active = q
          /\ RejectsAll(StartedCandidate(a, q), schedule[a])
      BY <2>1, <2>7, <3>1, StartedIs DEF MusicInv
    <3>3. schedule'[a].active = q
      BY <2>1, <2>7, <3>2, ChangedStep DEF MusicInv
    <3> QED BY <2>4, <2>7, <3>3
  <2>8. CASE Changed(a, CompletedCycle(a))
    <3>1. CycleOf(a, schedule[a])
      BY <2>1 DEF MusicInv, Cycles
    <3>2. /\ CompletedCycle(a) \in Cycle /\ CompletedCycle(a).active = No
          /\ RejectsAll(CompletedCycle(a), schedule[a])
      BY <2>1, <3>1, CompletedIs DEF MusicInv
    <3>3. schedule'[a].active = No
      BY <2>1, <2>8, <3>2, ChangedStep DEF MusicInv
    <3> QED BY <2>1, <3>3
  <2> QED BY <2>6, <2>7, <2>8, ChooseIs DEF MusicInv
<1>2. Spec => [][Chosen]_vars
  BY <1>1, MusicInvHolds, PTL DEF Spec
<1> QED BY <1>2 DEF RejectedNotTriedAgain
=============================================================================
