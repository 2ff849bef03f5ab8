------------------------------- MODULE Music --------------------------------
(***************************************************************************)
(* Lidarr candidates: the cycles of reconciler/music.py, the candidates of *)
(* the Fence (fence/model.py, fence/service.py), and the tick of runtime.py*)
(* that takes an invalidation from the Fence to the schedule and back.     *)
(*                                                                         *)
(* The Reconciler's thread runs the music scheduler while the Fence's      *)
(* thread polls and applies; both work on one schedule in memory, and each *)
(* persists it.  A step ends at a persist or at a call.  What a request    *)
(* goes through before its torrent is bound is the subject of Upgrades:    *)
(* here it is bound or it is not.                                          *)
(*                                                                         *)
(* A release stands for the operation that tries it.  Each thread runs at  *)
(* most once per unit of time, and the hour of the search budget is one    *)
(* unit.  The configuration does not change.                               *)
(***************************************************************************)
EXTENDS Integers, FiniteSetsExt

CONSTANTS
  Albums,           \* album ids, positive numbers
  Releases,         \* releases Lidarr lists, positive numbers
  Album, Hash,      \* of a release: its album, its torrent
  HashListed,       \* releases whose hash is in the listing
  Size,             \* bytes of a complete torrent
  MinimumAge, Horizon, FinalSearch, MaxAttempts, Cooldown,
  MaxCandidates,    \* candidates of one cycle
  PerRun, GrabsPerRun, PerHour,
  MetadataProbe, NoProgress, DeletePayload,
  MaxTroubles       \* failed calls and restarts

ASSUME MusicConstants ==
  /\ Albums \subseteq Nat \ {0} /\ Releases \subseteq Nat \ {0}
  /\ Album \in [Releases -> Albums] /\ DOMAIN Hash = Releases /\ HashListed \subseteq Releases
  /\ {Size, MaxAttempts, MaxCandidates, PerRun, GrabsPerRun, PerHour} \subseteq Nat \ {0}
  /\ {MinimumAge, Horizon, Cooldown, MetadataProbe, NoProgress, MaxTroubles} \subseteq Nat
  /\ {FinalSearch, DeletePayload} \subseteq BOOLEAN

VARIABLES
  age,       \* how long ago each album was released
  missing,   \* albums Lidarr has no file for
  schedule,  \* the schedule in memory: the cycle of each album
  saved,     \* the schedule on disk
  budget,    \* searches of this hour
  cand,      \* the Fence's candidate of each release
  torrent,   \* qBittorrent
  rec, fen,  \* the Reconciler's thread and the Fence's
  forgotten, \* candidates of the Fence that were not on disk at a restart
  troubles

vars == <<age, missing, schedule, saved, budget, cand, torrent, rec, fen, forgotten, troubles>>

No == 0
Longest == Max({MetadataProbe, NoProgress})
NoCycle == [active |-> No, used |-> 0, selectors |-> {}, hashes |-> {}, done |-> 0,
            terminal |-> FALSE, rest |-> 0, applied |-> {}]
NoCandidate == [status |-> "none", probe |-> 0, quiet |-> 0, last |-> 0, acked |-> FALSE]
NoTorrent == [here |-> FALSE, meta |-> FALSE, bytes |-> 0]
RecIdle == [pc |-> "idle", actives |-> {}, todo |-> {}, listed |-> TRUE, album |-> No,
            op |-> No, searched |-> 0, grabs |-> 0]
FenIdle == [pc |-> "idle", todo |-> {}, at |-> No, health |-> NoTorrent]

MusicInit ==
  /\ age = [a \in Albums |-> 0] /\ missing = Albums
  /\ schedule = [a \in Albums |-> NoCycle] /\ saved = schedule
  /\ budget = 0
  /\ cand = [r \in Releases |-> NoCandidate]
  /\ torrent = [r \in Releases |-> NoTorrent]
  /\ rec = RecIdle /\ fen = FenIdle /\ forgotten = {} /\ troubles = 0

Trouble == troubles < MaxTroubles /\ troubles' = troubles + 1

\* What a thread goes through, it goes through in ascending order.
Least(S) == {x \in S : \A y \in S : x <= y}

-----------------------------------------------------------------------------
(* Cycles.                                                                 *)

Due(a) ==
  LET k == schedule[a] IN
  /\ k.active = No /\ ~k.terminal
  /\ \/ k.used \in 1 .. MaxCandidates - 1
     \/ age[a] >= Horizon /\ age[a] >= MinimumAge /\ FinalSearch
     \/ age[a] < Horizon /\ age[a] >= MinimumAge /\ k.done < MaxAttempts /\ k.rest = 0

WasRejected(a, r) ==
  r \in schedule[a].selectors \/ (r \in HashListed /\ Hash[r] \in schedule[a].hashes)

CompletedCycle(a) ==
  [schedule[a] EXCEPT !.done = @ + 1, !.rest = Cooldown, !.used = 0,
                      !.terminal = age[a] >= Horizon]

StartedCandidate(a, r) == [schedule[a] EXCEPT !.active = r, !.used = @ + 1]

ConfirmedImport(a) == [schedule[a] EXCEPT !.active = No, !.used = 0]

\* Mutant: only the hash of the listing is rejected.
RejectedListed(a, r) ==
  LET k == [schedule[a] EXCEPT !.active = No, !.selectors = @ \union {r},
              !.hashes = @ \union {Hash[s] : s \in {r} \intersect HashListed},
              !.applied = @ \union {r}] IN
  IF k.used < MaxCandidates THEN k
  ELSE [k EXCEPT !.done = @ + 1, !.rest = Cooldown, !.used = 0]

\* Mutant: the candidate stays active.
RejectedKept(a, r) ==
  [schedule[a] EXCEPT !.selectors = @ \union {r}, !.hashes = @ \union {Hash[r]},
                      !.applied = @ \union {r}]

\* The hash is the one the Fence found.  With the last candidate the cycle is over.
Rejected(a, r) ==
  LET k == [schedule[a] EXCEPT !.active = No, !.selectors = @ \union {r},
              !.hashes = @ \union {Hash[r]}, !.applied = @ \union {r}] IN
  IF k.used < MaxCandidates THEN k
  ELSE [k EXCEPT !.done = @ + 1, !.rest = Cooldown, !.used = 0]

-----------------------------------------------------------------------------
(* The Reconciler's thread.                                                *)

RecAt(pc) == rec.pc = pc
RecTo(pc) == rec' = [rec EXCEPT !.pc = pc]
RecRests == rec' = [RecIdle EXCEPT !.pc = "rest"]

\* The schedule changes in memory and is saved; without the save the run is over.
Save(a, k, then) ==
  /\ schedule' = [schedule EXCEPT ![a] = k]
  /\ \/ saved' = schedule' /\ rec' = then /\ UNCHANGED troubles
     \/ Trouble /\ RecRests /\ UNCHANGED saved

StartRun ==
  /\ RecAt("idle")
  /\ rec' = [rec EXCEPT !.pc = "inventory",
                        !.actives = {a \in Albums : schedule[a].active # No}]
  /\ UNCHANGED <<forgotten, age, missing, schedule, saved, budget, cand, torrent, fen, troubles>>

\* Mutant: active candidates are taken up again, whatever Lidarr still misses.
MissingAlbumsIgnored ==
  /\ RecAt("inventory")
  /\ rec' = [rec EXCEPT !.pc = "recover", !.actives = {}, !.todo = rec.actives]
  /\ UNCHANGED <<forgotten, age, missing, schedule, saved, budget, cand, torrent, fen, troubles>>

\* What Lidarr has now is imported; without its answer all candidates are taken up again
\* and nothing is searched.
MissingAlbums ==
  /\ RecAt("inventory")
  /\ \/ /\ rec' = [rec EXCEPT !.pc = "imported",
             !.actives = rec.actives \ missing, !.todo = rec.actives \intersect missing]
        /\ UNCHANGED troubles
     \/ Trouble /\ rec' = [rec EXCEPT !.pc = "recover", !.actives = {}, !.todo = rec.actives,
                                      !.listed = FALSE]
  /\ UNCHANGED <<forgotten, age, missing, schedule, saved, budget, cand, torrent, fen>>

\* The Fence completes a candidate that is being probed, and no other.
OnImported ==
  /\ RecAt("imported")
  /\ \/ rec.actives = {} /\ RecTo("recover") /\ UNCHANGED cand
     \/ \E a \in Least(rec.actives) :
          LET r == schedule[a].active
              rest == [rec EXCEPT !.actives = @ \ {a}] IN
          IF r # No /\ cand[r].status = "probing"
          THEN /\ cand' = [cand EXCEPT ![r].status = "succeeded"]
               /\ rec' = [rest EXCEPT !.pc = "confirm", !.album = a]
          ELSE rec' = rest /\ UNCHANGED cand
  /\ UNCHANGED <<forgotten, age, missing, schedule, saved, budget, torrent, fen, troubles>>

ConfirmImported ==
  /\ RecAt("confirm")
  /\ Save(rec.album, ConfirmedImport(rec.album),
          [rec EXCEPT !.pc = "imported", !.album = No])
  /\ UNCHANGED <<forgotten, age, missing, budget, cand, torrent, fen>>

RecoverNext ==
  /\ RecAt("recover")
  /\ \/ /\ rec.todo = {}
        /\ IF rec.listed THEN rec' = [rec EXCEPT !.pc = "albums", !.todo = missing]
           ELSE RecRests
     \/ \E a \in Least(rec.todo) :
          LET r == schedule[a].active IN
          rec' = IF r = No THEN [rec EXCEPT !.todo = @ \ {a}, !.grabs = @ + 1]
                 ELSE [rec EXCEPT !.todo = @ \ {a}, !.op = r, !.pc = "execute"]
  /\ UNCHANGED <<forgotten, age, missing, schedule, saved, budget, cand, torrent, fen, troubles>>

\* The sealed release is handed over, once: its torrent is bound and probed.
ExecuteSelected ==
  LET r == rec.op IN
  /\ RecAt("execute")
  /\ \/ /\ cand[r].status = "none"
        /\ cand' = [cand EXCEPT ![r].status = "probing"]
        /\ torrent' = [torrent EXCEPT ![r].here = TRUE]
        /\ UNCHANGED troubles
     \/ cand[r].status # "none" /\ UNCHANGED <<cand, torrent, troubles>>
     \/ cand[r].status = "none" /\ Trouble /\ UNCHANGED <<cand, torrent>>
  /\ rec' = [rec EXCEPT !.op = No, !.grabs = @ + 1,
                        !.pc = IF rec.album = No THEN "recover" ELSE "albums", !.album = No]
  /\ UNCHANGED <<forgotten, age, missing, schedule, saved, budget, fen>>

\* The first album that is due and beyond a limit ends the run.
NextAlbum ==
  /\ RecAt("albums")
  /\ \/ rec.todo = {} /\ RecRests
     \/ \E a \in Least(rec.todo) : ~Due(a) /\ rec' = [rec EXCEPT !.todo = @ \ {a}]
     \/ \E a \in Least(rec.todo) :
          /\ Due(a)
          /\ IF rec.searched < PerRun /\ rec.grabs < GrabsPerRun /\ budget < PerHour
             THEN rec' = [rec EXCEPT !.todo = @ \ {a}, !.album = a, !.pc = "search"]
             ELSE RecRests
  /\ UNCHANGED <<forgotten, age, missing, schedule, saved, budget, cand, torrent, fen, troubles>>

\* Every search counts, the failed one too.
AlbumReleases ==
  LET asked == [rec EXCEPT !.searched = @ + 1] IN
  /\ RecAt("search")
  /\ budget' = budget + 1
  /\ \/ saved' = schedule /\ rec' = [asked EXCEPT !.pc = "choose"] /\ UNCHANGED troubles
     \/ saved' = schedule /\ Trouble /\ rec' = [asked EXCEPT !.pc = "albums", !.album = No]
     \/ Trouble /\ RecRests /\ UNCHANGED saved
  /\ UNCHANGED <<forgotten, age, missing, schedule, cand, torrent, fen>>

\* Some release that was not rejected, or none that the policy takes.
Choose ==
  LET a == rec.album IN
  /\ RecAt("choose")
  /\ \/ \E r \in {s \in Releases : Album[s] = a /\ ~WasRejected(a, s)} :
          Save(a, StartedCandidate(a, r), [rec EXCEPT !.op = r, !.pc = "execute"])
     \/ Save(a, CompletedCycle(a), [rec EXCEPT !.pc = "albums", !.album = No])
  /\ UNCHANGED <<forgotten, age, missing, budget, cand, torrent, fen>>

-----------------------------------------------------------------------------
(* The Fence's thread: the poll.                                           *)

FenAt(pc) == fen.pc = pc
FenTo(pc) == fen' = [fen EXCEPT !.pc = pc, !.health = NoTorrent]
FenRests == fen' = [FenIdle EXCEPT !.pc = "rest"]

StartPoll ==
  /\ FenAt("idle")
  /\ fen' = [fen EXCEPT !.pc = "next",
                        !.todo = {r \in Releases : cand[r].status \in {"probing", "invalidated"}}]
  /\ UNCHANGED <<forgotten, age, missing, schedule, saved, budget, cand, torrent, rec, troubles>>

\* Mutant: an invalidation is exposed before its payload is deleted.
PendingAtOnce ==
  {r \in Releases : ~cand[r].acked /\ cand[r].status \in {"released", "invalidated"}}

Pending ==
  {r \in Releases :
    ~cand[r].acked /\ (cand[r].status = "released"
                       \/ (cand[r].status = "invalidated" /\ ~DeletePayload))}

PollNext ==
  /\ FenAt("next")
  /\ \/ fen.todo = {} /\ fen' = [fen EXCEPT !.pc = "apply", !.at = No, !.todo = Pending]
     \/ \E r \in Least(fen.todo) :
          fen' = [fen EXCEPT !.todo = @ \ {r}, !.at = r,
            !.pc = IF cand[r].status = "invalidated" THEN "delete" ELSE "observe"]
  /\ UNCHANGED <<forgotten, age, missing, schedule, saved, budget, cand, torrent, rec, troubles>>

\* A complete torrent may have no availability to read.
ObserveCandidateHealth ==
  LET t == torrent[fen.at] IN
  /\ FenAt("observe")
  /\ \/ t.here /\ fen' = [fen EXCEPT !.pc = "judge", !.health = t] /\ UNCHANGED troubles
     \/ (~t.here \/ t.bytes = Size) /\ FenTo("next") /\ UNCHANGED troubles
     \/ Trouble /\ FenTo("next")
  /\ UNCHANGED <<forgotten, age, missing, schedule, saved, budget, cand, torrent, rec>>

\* Without metadata, without peers before the first byte, or without progress.
Expired(k, h, peers) ==
  \/ ~h.meta /\ k.probe >= MetadataProbe
  \/ h.meta /\ h.bytes = 0 /\ ~peers /\ k.probe >= MetadataProbe
  \/ h.meta /\ k.quiet >= NoProgress

\* A candidate that the Reconciler completed meanwhile is left alone.
Judge ==
  LET r == fen.at
      k == cand[r]
      h == fen.health IN
  /\ FenAt("judge")
  /\ \/ /\ k.status # "probing" /\ FenTo("next") /\ UNCHANGED cand
     \/ /\ k.status = "probing" /\ h.meta /\ h.bytes = Size
        /\ cand' = [cand EXCEPT ![r].status = "succeeded"] /\ FenTo("next")
     \/ /\ k.status = "probing" /\ h.bytes \in k.last + 1 .. Size - 1
        /\ cand' = [cand EXCEPT ![r].last = h.bytes, ![r].quiet = 0] /\ FenTo("next")
     \/ /\ k.status = "probing" /\ h.bytes <= k.last /\ (h.meta => h.bytes < Size)
        /\ \E peers \in BOOLEAN :
             IF Expired(k, h, peers)
             THEN cand' = [cand EXCEPT ![r].status = "invalidated"] /\ FenTo("delete")
             ELSE FenTo("next") /\ UNCHANGED cand
  /\ UNCHANGED <<forgotten, age, missing, schedule, saved, budget, torrent, rec, troubles>>

\* A torrent that is not there any more is not deleted, and not taken for deleted.
DeleteOwnedIncomplete ==
  LET r == fen.at IN
  /\ FenAt("delete")
  /\ \/ /\ torrent[r].here
        /\ torrent' = [torrent EXCEPT ![r] = NoTorrent] /\ FenTo("deleted")
        /\ UNCHANGED troubles
     \/ (~torrent[r].here \/ torrent[r].bytes = Size) /\ FenTo("next")
          /\ UNCHANGED <<torrent, troubles>>
     \/ /\ Trouble /\ FenTo("next")
        /\ torrent' \in {torrent, [torrent EXCEPT ![r] = NoTorrent]}
  /\ UNCHANGED <<forgotten, age, missing, schedule, saved, budget, cand, rec>>

MarkDeleted ==
  /\ FenAt("deleted")
  /\ cand' = [cand EXCEPT ![fen.at].status = "released"]
  /\ FenTo("next")
  /\ UNCHANGED <<forgotten, age, missing, schedule, saved, budget, torrent, rec, troubles>>

-----------------------------------------------------------------------------
(* The Fence's thread: applying and acknowledging.                         *)

\* Mutant: the verdict is applied in memory, and acknowledged.
ApplyUnsaved ==
  /\ FenAt("apply")
  /\ IF fen.todo = {} THEN FenRests /\ UNCHANGED schedule
     ELSE \E r \in Least(fen.todo) :
          /\ fen' = [fen EXCEPT !.todo = @ \ {r}, !.at = r, !.pc = "acknowledge"]
          /\ schedule' = IF schedule[Album[r]].active = r
                         THEN [schedule EXCEPT ![Album[r]] = Rejected(Album[r], r)] ELSE schedule
  /\ UNCHANGED <<forgotten, age, missing, saved, budget, cand, torrent, rec, troubles>>

\* Mutant: one that was applied before is passed over.
ApplyActiveOnly ==
  /\ FenAt("apply")
  /\ IF fen.todo = {} THEN FenRests /\ UNCHANGED <<schedule, saved, troubles>>
     ELSE \E r \in Least(fen.todo) :
          LET a == Album[r] IN
          IF schedule[a].active # r
          THEN fen' = [fen EXCEPT !.todo = @ \ {r}] /\ UNCHANGED <<schedule, saved, troubles>>
          ELSE /\ schedule' = [schedule EXCEPT ![a] = Rejected(a, r)]
               /\ \/ /\ saved' = schedule' /\ UNCHANGED troubles
                     /\ fen' = [fen EXCEPT !.todo = @ \ {r}, !.at = r, !.pc = "acknowledge"]
                  \/ Trouble /\ FenRests /\ UNCHANGED saved
  /\ UNCHANGED <<forgotten, age, missing, budget, cand, torrent, rec>>

\* One that was applied before is only saved again; one that is not the album's active
\* candidate is passed over.  An exception ends the tick.
ApplyFenceInvalidation ==
  /\ FenAt("apply")
  /\ \/ fen.todo = {} /\ FenRests /\ UNCHANGED <<schedule, saved, troubles>>
     \/ \E r \in Least(fen.todo) :
          LET a == Album[r] IN
          IF r \notin schedule[a].applied /\ schedule[a].active # r
          THEN fen' = [fen EXCEPT !.todo = @ \ {r}] /\ UNCHANGED <<schedule, saved, troubles>>
          ELSE /\ schedule' = IF r \in schedule[a].applied THEN schedule
                              ELSE [schedule EXCEPT ![a] = Rejected(a, r)]
               /\ \/ /\ saved' = schedule' /\ UNCHANGED troubles
                     /\ fen' = [fen EXCEPT !.todo = @ \ {r}, !.at = r, !.pc = "acknowledge"]
                  \/ Trouble /\ FenRests /\ UNCHANGED saved
  /\ UNCHANGED <<forgotten, age, missing, budget, cand, torrent, rec>>

Acknowledge ==
  /\ FenAt("acknowledge")
  /\ cand' = [cand EXCEPT ![fen.at].acked = TRUE]
  /\ FenTo("apply")
  /\ UNCHANGED <<forgotten, age, missing, schedule, saved, budget, torrent, rec, troubles>>

-----------------------------------------------------------------------------
(* qBittorrent, Lidarr, time and a restart.                                *)

Load(r) ==
  LET t == torrent[r] IN
  /\ t.here /\ t.bytes < Size
  /\ torrent' = [torrent EXCEPT ![r] =
       IF t.meta THEN [t EXCEPT !.bytes = @ + 1] ELSE [t EXCEPT !.meta = TRUE]]
  /\ UNCHANGED <<forgotten, age, missing, schedule, saved, budget, cand, rec, fen, troubles>>

\* Lidarr imports the album, from this torrent or from elsewhere.
Import(a) ==
  /\ a \in missing
  /\ missing' = missing \ {a}
  /\ UNCHANGED <<forgotten, age, schedule, saved, budget, cand, torrent, rec, fen, troubles>>

Later(wait, longest) == IF wait < longest THEN wait + 1 ELSE wait
Rested(k) == [k EXCEPT !.rest = IF @ > 0 THEN @ - 1 ELSE 0]

Pass ==
  /\ {rec.pc, fen.pc} \subseteq {"idle", "rest"}
  /\ rec' = RecIdle /\ fen' = FenIdle /\ budget' = 0
  /\ age' = [a \in Albums |-> Later(age[a], Horizon)]
  /\ schedule' = [a \in Albums |-> Rested(schedule[a])]
  /\ saved' = [a \in Albums |-> Rested(saved[a])]
  /\ cand' = [r \in Releases |->
       IF cand[r].status # "probing" THEN cand[r]
       ELSE [cand[r] EXCEPT !.probe = Later(@, Longest), !.quiet = Later(@, Longest)]]
  /\ UNCHANGED <<forgotten, missing, torrent, troubles>>

\* What was not saved is forgotten, the Fence's candidates of it included.
Crash ==
  /\ Trouble
  /\ rec' = RecIdle /\ fen' = FenIdle
  /\ schedule' = saved
  /\ forgotten' = forgotten \union {r \in Releases :
       /\ cand[r].status \in {"probing", "invalidated", "released"}
       /\ saved[Album[r]].active # r /\ r \notin saved[Album[r]].applied}
  /\ UNCHANGED <<age, missing, saved, budget, cand, torrent>>

ReconcilerStep ==
  \/ StartRun \/ MissingAlbums \/ OnImported \/ ConfirmImported \/ RecoverNext
  \/ ExecuteSelected \/ NextAlbum \/ AlbumReleases \/ Choose

FenceStep ==
  \/ StartPoll \/ PollNext \/ ObserveCandidateHealth \/ Judge
  \/ DeleteOwnedIncomplete \/ MarkDeleted \/ ApplyFenceInvalidation \/ Acknowledge

MusicNext ==
  \/ ReconcilerStep \/ FenceStep \/ Pass \/ Crash
  \/ \E r \in Releases : Load(r)
  \/ \E a \in Albums : Import(a)

\* Both threads run for ever, and time passes.  Nothing has to load or be imported.
Spec ==
  /\ MusicInit /\ [][MusicNext]_vars
  /\ WF_vars(ReconcilerStep) /\ WF_vars(FenceStep) /\ SF_vars(Pass)

-----------------------------------------------------------------------------
(* Properties.                                                             *)

MusicTypeOK ==
  /\ \A a \in Albums :
       LET k == schedule[a] IN
       /\ k.active \in {No} \union {r \in Releases : Album[r] = a}
       /\ k.used \in 0 .. MaxCandidates /\ (k.active # No => k.used > 0)
       /\ k.applied \subseteq k.selectors /\ k.active \notin k.selectors
       /\ k.rest \in 0 .. Cooldown
  /\ \A r \in Releases :
       /\ cand[r].status \in {"none", "probing", "invalidated", "released", "succeeded"}
       /\ cand[r].acked => cand[r].status \in {"invalidated", "released"}
       /\ cand[r].last <= Size
       /\ torrent[r].here => cand[r].last <= torrent[r].bytes

\* "The Reconciler durably rejects the sealed release before acknowledgement": what the
\* Fence no longer reports is rejected on disk, release and torrent.
AcknowledgedIsRejected ==
  \A r \in Releases :
    cand[r].acked => r \in saved[Album[r]].selectors /\ Hash[r] \in saved[Album[r]].hashes

\* A torrent the Fence gave up for an album is not chosen again, under another listing
\* either if that names the hash, over restarts and failed saves.
RejectedNotTriedAgain ==
  [][\A r \in HashListed :
       RecAt("choose") /\ schedule'[rec.album].active = r =>
         \A s \in Releases \ forgotten :
           Album[s] = rec.album /\ Hash[s] = Hash[r] =>
             cand[s].status \notin {"invalidated", "released"}]_vars

\* An album has one transfer at a time that counts against the Fence's capacity.  One that
\* a restart forgot is not counted: its album gets another.
OneTransferPerAlbum ==
  \A r, s \in Releases \ forgotten :
    /\ {cand[r].status, cand[s].status} \subseteq {"probing", "invalidated"}
    /\ Album[r] = Album[s]
    => r = s

\* Its torrent was deleted and that was not recorded, or completed before it was deleted:
\* no later poll deletes it or takes it for deleted.
Stranded(r) ==
  cand[r].status = "invalidated" /\ (~torrent[r].here \/ torrent[r].bytes = Size)

\* An invalidation is applied and acknowledged in the end, unless it is stranded or a
\* restart forgot the candidate: over failed calls, failed saves and restarts between the
\* Fence's verdict, the schedule's save and the acknowledgement.
EveryInvalidationSettled ==
  \A r \in Releases :
    [](cand[r].status = "invalidated" => <>(cand[r].acked \/ r \in forgotten \/ []Stranded(r)))

\* Not confirmed for ever: the Fence saw the torrent complete before the Reconciler saw
\* the import, or stopped in between; or never had one; or gave it up and stranded it.
Unconfirmed(a) ==
  /\ schedule[a].active # No
  /\ cand[schedule[a].active].status \in {"succeeded", "none"} \/ Stranded(schedule[a].active)

\* An import ends the album's cycle in the end, unless it is left unconfirmed.
ImportConverges ==
  \A a \in Albums :
    []<>(a \in missing \/ schedule[a].active = No) \/ <>[]Unconfirmed(a)
=============================================================================
