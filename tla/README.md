# Verification of MediaInterlock

TLA+ specifications of MediaInterlock 0.1.40 (`src/`), the TLC configurations
that check them on small instances, and theorems checked by TLAPS. Paths below
are relative to `src/src/media_interlock/` unless they start with `docs/` or
`README.md`. `tlc -config X.cfg M` runs a configuration; `tlapm M.tla` checks the
proofs of a module `M` whose name ends in `Proofs`.

## 1. The system

One process, one SQLite state file, four periodic tasks on threads of their own
(`runtime.py` 560-591):

| thread | period | does |
|---|---|---|
| Fence tick | 5 s | `FenceDaemon.tick` (recover, then poll Arr history), candidate health, music handshake, terminals to the Publisher |
| Publisher retry | 1 s | drives every durable publication one step further |
| import reconciliation | configured | adopts Arr imports newer than a durable cursor |
| reconciliation | configured | recovers release requests, searches due entities |

Before them `_recover_fence_on_start` recovers and reopens the Fence on the
startup thread; an exception there ends the process.

### Components

| component | state it keeps | operations | talks to |
|---|---|---|---|
| Fence ledger (`fence/model.py`) | reservations by operation id with state, infohash, reserved and requested bytes; historical activations; candidates; quiescing; watermarks | about forty transition methods, `clone`, `records`, `from_snapshot` | the store, through the service |
| Fence service (`fence/service.py`, `fence/daemon.py`) | the current ledger object, the qBittorrent lease | `pre_admit`, `bind_grab`, `recover`, `poll_external`, `observe`, `pending_terminals`, `freeze`, `accept_custody`, `quiesce`, `post_pnr_*`, `poll_*_candidate_health` | qBittorrent, Arr, headroom |
| Reconciler (`reconciler/service.py`, `model.py`) | search intents, grab intents, attempted and observed marks | `execute_selected`, `recover` | Fence, Arr |
| Schedulers (`reconciler/scheduler.py`, `music.py`) | completed-search checkpoints, retries, replacements, fairness, budgets; album cycles | `run`, `record_candidate_invalidated`, `apply_fence_invalidation` | Reconciler, Arr, Lidarr |
| Publisher (`publisher/model.py`, `service.py`) | publications by operation id and their stage | `accept_terminal`, verification, generation intent and commit, catalog observation and delivery, bootstrap | Fence (`freeze`), filesystem, Jellyfin |
| Generations (`publisher/generation.py`) | directories, private and public pointers under the canonical root | `publish`, `garbage_collect` | filesystem |
| Import cursor (`runtime.py` 303-360) | one history id per source | `reconcile_imports` | Arr, Publisher |
| Music candidates (`fence/model.py`, `fence/service.py`) | a candidate per Lidarr release: probing, invalidated, released, succeeded, acknowledged | `probe_candidate`, `poll_music_candidate_health`, `pending_candidate_invalidations`, `on_imported` | qBittorrent, the music scheduler |
| Headroom (`fence/headroom.py`) | none | `allows` | free space |
| qBittorrent, Arr | torrents, tags; history, queue | observed and changed by the above | external |

The Fence is the only writer of torrents. Between an intent and its effect, and
between the effect and the record of it, the process may stop, the call may fail
with or without effect, and another thread may take the same record. That is
where this code is hard; a unit test drives one method at a time on one thread
with adapters that answer.

### What makes each component correct

* **Ledger**: it never admits more than the policy; every snapshot it persists
  can be loaded by the next start; what is released is not revived.
* **Fence service**: intent before effect at each of tag, resume, pause, freeze;
  one owner per torrent; an intent does not stay for ever; a frozen torrent stays
  stopped; the watermark passes only what is owned; what was answered "yes" to
  the Reconciler is owned.
* **Reconciler**: Arr is asked at most once per request; a grab that arrived is
  handed over in the end; the budget counts what it says.
* **Schedulers**: a completed search is counted once over restarts; series take
  turns; an invalidated candidate is replaced, once.
* **Candidate health**: only what has stalled for its whole timeout is given up;
  it is blocklisted before it is deleted and deleted before it is replaced.
* **Music handshake**: what the Fence stops reporting is rejected on disk; one
  transfer per album; an import ends the cycle.
* **Publisher**: one generation per slot is being changed; a failed step keeps
  the previous generation visible; garbage collection keeps what is visible or
  intended; a torrent is let go only when its copy is the one that plays.
* **Import cursor**: it passes only what was adopted or refused on its evidence.

The hazards of the code, each at its line, are listed in `PROJECT.json`.

## 2. Modules

| module | models | extends or instantiates |
|---|---|---|
| `FenceLedger` | the reservation ledger: one action per transition method | |
| `FenceLedgerProofs` | its theorems | `FenceLedger` |
| `Fence` | the Fence service over the ledger, its threads, qBittorrent, Arr history, Reconciler requests, Publisher requests, start and stop | `FenceLedger` |
| `FenceProofs` | its theorems, the refinement of the ledger among them | `Fence`, `FenceLedgerProofs` |
| `Health` | the poll of video candidates, from sample to replacement | |
| `HealthProofs` | its theorems | `Health` |
| `Upgrades` | the upgrade scheduler and the release handoff | |
| `UpgradesProofs` | its theorems | `Upgrades` |
| `Music` | the music scheduler and the Fence's music candidates | |
| `MusicProofs` | its theorems | `Music` |
| `Slot` | what the Publisher promises to a player of one asset (abstract) | |
| `SlotProofs` | its theorem | `Slot` |
| `Publisher` | publications, generations, pointer, routes and import cursor, with the three threads that work on them | `Slot` by a refinement mapping |
| `PublisherProofs` | its types and the refinement of `Slot` | `Publisher` |
| `PublisherOrderProofs` | what the order of its steps is worth | `PublisherProofs` |
| `MCFenceLedger`, `MCFence`, `MCHealth`, `MCUpgrades`, `MCMusic`, `MCPublisher` | instances for TLC | |

Where two modules meet, one abstracts what the other details: the five request
actions of `Fence` are `execute_selected` and `recover` of `Upgrades`; the
`fence` variable of `Publisher` and `Upgrades`, and the `res` variable of
`Health`, are the states of one reservation of `FenceLedger`; the replacement
`Health` hands over is `RecordCandidateInvalidated` of `Upgrades`.

### FenceLedger

One variable per field: `state`, `hash`, `bytes`, `requested` are functions of
the operation; `activation` the historical activation record, `candidate` the
status of the video candidate. An operation belongs to `Requested`, `External`,
`PostPnr` or `Historical` according to the method that creates its reservation.
An action is enabled exactly when the method does not raise and changes the
ledger; `Moves` holds what all transitions share, that `clone` succeeds first.
`Loadable` is what `FenceStore.load` accepts: every record for itself
(`RecordsLoad`), and no other reservation of a historically adopted torrent
(`~Regrabbed`, `fence/model.py` 898). `Clonable` is the part of it `clone` repeats.
`adopt_external` compares no hashes, so the ledger does get a second reservation of
such a torrent; `PriorHashes` and `LaterHashes` may overlap.

One guard is the callers' and not the method's, and says so: an adopted torrent is
resumed only after its activation (`CanRequestResume`).

### Fence

`th[t]` is what thread `t` is doing: a place in the code (`at`), the operation it
serves (`op`, and `own` for the caller's), the kind of lease section it is in
(`job`), the method to return to (`base`) and the records its `recover` loops
have left (`todo`; a stack, because `bind_grab` calls `recover` again). `tick`
is also the startup thread. Steps end at each persist and before and after each
call that changes a torrent; calls that only read are read where their result
is used, again where the code reads again.

| actions | code |
|---|---|
| `Loop` and its visits | `recover` 808-875, the two loops of `quiesce` 646-715 |
| `BindNew`, `BindAgain`, `BindTag` | `bind_grab` 717-761 |
| `Claim` | `_claim_post_pnr`, `_recover_post_pnr_tag` |
| `Ready`, `Request` | `_ready_for_resume`, `request_resume` and its persist |
| `Acquire`, `Effect`, `ReadbackTag`, `ReadbackActivity`, `ReadbackFails`, `Settle` | the lease sections of tag, start, resume, activate, pause, freeze |
| `Tick`, `Poll`, `AdoptNext`, `Adopted`, `AdvanceWatermark` | `FenceDaemon.tick`, `poll_external` |
| `PendingTerminals`, `Collect`, `Dispatch`, `Receipt` | `observe`, `pending_terminals`, `Runtime._fence_tick`, `accept_custody` |
| `Retry`, `Freeze` | the Publisher's retry thread, as far as it asks the Fence |
| `RequestRelease` to `MarkObserved` | `ReconcilerService.execute_selected`, `recover` |
| `Quiesce`, `Reopen`, `Adopt`, `Activate` | the contract handlers of `FenceDaemon._dispatch` |
| `Boot`, `BootReopen`, `Crash` | `_recover_fence_on_start`; a stop at any point |
| `ArrGrabs`, `ArrForgets`, `Downloads`, `ShareLimit` | Arr and qBittorrent (external) |

A call that cannot do what it should is `Declined`: when the condition it needs
does not hold the refusal is free, otherwise it is one of `MaxFaults` faults (an
HTTP error, an unclear reading, a headroom or readiness refusal). `Effect`
separates the fault that lost the call from the fault that lost the answer.
`Raise` is an exception that leaves the method: `tick` catches it, the startup
does not.

`Fence` is built from the ledger's transition operators, and
`fence_request` and `fence_contract` check `LedgerSpec` as a property of it:
every step of the service, over crashes, faults and threads, is a step of the
ledger or leaves it alone, so what is proved of the ledger holds in the Fence.

Of the Publisher `Fence` has what it asks for: `accepted` are the terminals it has
a publication of, which only the tick hands to it, and which the tick and the
retry thread may freeze. The grabs of a user may be of a torrent that qBittorrent
has had since before the baseline; then Arr's history has it once more.

### Health

The Fence's thread is `poll`: its place, the operations `records()` gave it at the
start (`todo`, taken in the order of the records), the sample in hand and the
replacements it has collected (`found`). `cand` is the persisted health record. Clocks are relative: `probe` and
`quiet` are what `probe_started_at` and `last_progress_at` are subtracted for,
and `Pass` ages them between two polls, up to the longest timeout. `Judged` is
`record_video_candidate_metadata`, `record_video_candidate_failure` and
`invalidate_video_candidate` in the order the poll calls them. The torrent has a clock of its own (`still`,
how long it has loaded nothing): `OnlyStalledInvalidated` compares the verdict,
reached from samples, with it.

`Abort` is what the exception clause of line 154 does in the program: it names a
class the module does not import, so that the poll ends with a `NameError`
and the replacements in `found` are dropped (`lost`). An operator closes and
reopens the Fence in a thread of its own (`Close`, `Reopen`).

### Upgrades

`rec` is the Reconciler's thread, in the order of `UpgradeScheduler.run`: recover
every unsettled request, list the inventory, `sync_completed`, then each due
entity in fair order, within what is left of the run's and the hour's budgets.
A search ends in a sealed release, none, or a failure; a release goes through
`RecordIntent`, `Admit`, `MarkAttempted`, `GrabRelease`, `ObserveGrab`,
`BindGrab`, `MarkObserved`, each one persist or call, and `CompleteSearch`.
`due` is what the run still has to search; `FairOrder` states the order of
`fair_order` (one of each scope per round, the scopes turned by the cursor) rather
than computing it. `checkpoint`, `retry`, `replacement`, `budget`, `recorded` and `cursor` are the
fields of `ScheduleState`, `intent` those of the reconciliation state. The Fence
tick gives a candidate up (`GiveUp`) and then records the replacement
(`RecordCandidateInvalidated`), with a stop possible in between.

`fence` is the reservation of a request. The Fence's history intake may meet the grab
first and tag the torrent for a reservation of its own (`IntakeTakes`): from then
on `bind_grab` answers no to the request for ever, which is one of the ways to be
`Abandoned`, and the torrent is transferred all the same.

Time is relative here too: a wait is what is left until a moment, in units of the
cooldown, so the exponential delays of `cooldown_for_completed_searches`, of the
retries and of the replacements are computed and not assumed. `Grown` and `Shift`
compute them, and what is left of the hour, with functions on numbers, about which
can be proved; an initial delay is no longer than its cap, as the configuration
requires. Operations that nothing refers to any more are used again, which stands
for fresh UUIDs.

### Music

`schedule` is `MusicScheduleState` in memory, `saved` what is on disk: `Save`
changes the first and then either writes the second or fails and ends the run,
as the code does. `rec` is `MusicScheduler.run` (imports, recovery, albums),
`fen` the Fence's poll followed by what `Runtime._fence_tick` does with its
outcome: apply, save, acknowledge. `cand` is the Fence's candidate. A release
stands for the operation that tries it, and Lidarr may list one torrent under
two releases, with or without its hash.

`forgotten` is a ghost: the candidates the Fence has when the process stops and
that the saved schedule does not know. There are such: when the save of
`start_candidate` fails, the candidate is active in memory only; the run ends, the
next one recovers it, hands it over, and a stop before any other save leaves the
Fence with a candidate that no cycle has. Its album is then free for another one,
and its invalidation is passed over by `apply_fence_invalidation` for ever. The
properties that speak of an album's candidates leave out what was forgotten; the
run shows that its instance knows no other way to lose one.

### Slot and Publisher

`Slot` has two variables: the generations that are sealed, and the one that is
visible. A generation is sealed, shown, or collected when it is not shown.
`Publisher` implements it, with the generations whose payload has its final name
for `sealed` and the private pointer for `visible` (`KeepsSlotPromise`);
`PublisherProofs` proves that, and `SlotProofs` what it is worth.

In `Publisher`, `book` holds the publications and their stage; `gen`, `visible`
and `route` are the generation directories, the private pointer and the public
payload and sidecar; `catalog` is what Jellyfin scanned last. `th[t]` is the Fence
tick (`AcceptTerminal`, `Enter`, `Receipt`), the retry thread (`StartRetry`,
`RetryNext`) or the import thread (`StartImports`, `Bootstrap`, `SaveCursor`);
all three run the same stages under the gate:

| actions | code |
|---|---|
| `Verify` | correlation, freeze and verification (`publisher/service.py` 246-275) |
| `Commit`, `RecordIntent` | the two refusals of `commit_asset_generation` (277-282); then clone, and the generation intent (283-286) |
| `Publish`, `Normalize`, `Point`, `ExposeRoutes`, `MarkCommitted` | `AssetGenerationPublisher.publish` and the record of its outcome |
| `EnsureIdentity`, `Notify`, `Submit`, `Observe`, `MarkObserved`, `DirectPlay`, `MarkDelivered`, `GarbageCollect` | the catalog stage up to delivery and collection |
| `Prepare`, `Persist` | the two halves of every persist: clone and change, save and swap in |
| `Onward`, `Return` | the processor, which reads the publication again after each stage |
| `Fails`, `Crash`, `JellyfinScans`, `TransferEnds`, `ArrImports` | a failing call, a stop, and the world outside |

The tick accepts custody outside the gate, so its persist can begin between the
halves of another one, or end between the check of `Commit` and the clone of
`RecordIntent`; a clone taken before it then overwrites it. `overlaps` counts that.
What does not survive it says `overlaps = 0`: that one upgrade of the asset is under
way and the generation it replaces is kept, that the receipt is for a copy that is
shown, and that delivered means played. What survives it is that every record stays
well formed, that the public file follows the pointer, and the promise of `Slot`.

## 3. Runs

| run | shows |
|---|---|
| `ledger` | `LedgerTypeOK`, `InflightBounded`, `RequestedWithinCapacity`, `SnapshotLoads` with one operation of each kind, health and quiescence, over two torrents that may be adopted and grabbed as well |
| `fence_request` | a release request with the tick, retry and Reconciler threads, while the intake meets the same grab: `SingleOwner`, `HandedIsOwned`, and every step is a step of the ledger |
| `fence_contract` | adoption, activation, quiescence and reopening against the tick that adopts a user grab of the same torrent: tag and resume are preceded by their intents, and every step is a step of the ledger |
| `fence_drains` | two user grabs, one twice as large as announced, that must take turns (`MaxInflight` = 1), by tick and retry thread over a fault and a crash: type invariant, the watermark skips nothing, and (liveness) both are released |
| `publisher` | an asset and its upgrade, by tick and retry thread, over an overlapping persist, a failed call and a restart: the slot's promise and the public file that follows the pointer; until the overlap, that an upgrade can be gone back on, that a torrent is released only when its copy is shown, and that delivered means played |
| `publisher_settles` | liveness: a terminal, the import Arr made of it and an import that Arr lists twice, by all three threads, over a restart: the terminal is delivered, the cursor passes everything, and an identified import that it passed is a publication, or the download it was made of is one |
| `upgrades` | one movie over a failed call, a restart and a candidate given up: no request is posted twice, one unsettled request per movie, no more searches than the hour and the policy allow |
| `upgrades_serves` | liveness: two movies share one search and one grab an hour, over a restart and an intake that may be first: each grab is handed over, each due movie is searched |
| `health` | two candidates over a failed call, a restart or a closing: invalidated, blocklisted, deleted, replaced, in this order and once; only what stalled is given up, and what stalled is |
| `music` | one album, two listings of one torrent, over any two failed calls, failed saves and restarts: what is acknowledged is rejected on disk, one transfer at a time, no second try, every invalidation settled, every import ends the cycle |
| `fence_start`, `health_stalled` | end in a violation: see below |

`fence_start` checks `StartCompletes`, that "When the runtime starts after a persisted
quiescence, it first recovers the owned work and then reopens it" (`README.md` 20-21,
tested with mocks in `tests/test_runtime.py` 28). It is violated: after a stop while
quiescing, with a reservation that is `qbittorrent_stopped`, `recover` calls
`request_resume`, which raises while quiescing (`fence/service.py` 864), so the start
fails before it reopens, every time.

`health_stalled` checks `StalledIsGivenUp`, that "After the configured number of
samples, Fence persists an invalidation" (`docs/current/domains/fence.md`), for a
torrent whose metadata is known. It is violated with the minimum of failed
observations at two: `poll_video_candidate_health` calls
`record_video_candidate_metadata` for every such sample, which resets the counter
(`fence/model.py` 701), and then adds one, so the counter never passes one and the torrent holds its reservation
for ever. `DeadIsGivenUp` in `health` is the same promise with the minimum at one.

### Counterexamples

Four more configurations each end in a violation of one property, for an open point of
section 5. They are not among the runs of `PROJECT.json`. Nothing goes wrong in them but
what threads do to each other.

* `MCFenceFrozen.cfg`: `freeze()` says "Durably stop one terminal owned hash for a
  Publisher hardlink copy" (`fence/service.py` 940). `FrozenStaysStopped` is violated
  in 36 steps: the Reconciler's `bind_grab` has persisted the resume intent and waits
  for the lease; the tick recovers the intent, the torrent runs and completes, the tick
  freezes it for the Publisher; then `bind_grab` gets the lease, sees a stopped torrent
  of its own and starts it (794-795). It never looks at the reservation again.
* `MCFenceCapacity.cfg`: `test_capacity_overrun_after_tag_never_resumes_the_stopped_torrent`
  (`tests/test_fence.py` 580) drives one reservation on one thread.
  `ResumeWithinCapacity` is violated in 31 steps with two: between the check of the tick
  (782) and its resume intent (786) the Reconciler's thread records a torrent that
  is larger than announced, and `request_resume` does not look at the capacity.
* `MCPublisherOverlap.cfg`: "Publisher intake, recovery, and bounded Arr-history
  reconciliation share one in-process work gate, so they cannot race the same durable
  publication" (`README.md` 37-38). The tick calls `accept_terminal` outside the
  gate (`publisher/daemon.py` 77). `OneUnderWay` is violated in 55 steps: the tick has
  cloned before the retry thread delivered the first generation, and swaps its clone in
  between the check of the upgrade (`publisher/service.py` 281) and its clone (283), so
  the first is pending again and the upgrade begins.
* `MCPublisherPublished.cfg`: "Existing published work ... receive no publication effect"
  (`docs/current/domains/publisher.md` 19-21). `PublishedIsLeftAlone` is violated in 34
  steps: the import of a download that was published as a terminal is looked up under
  the import's own operation only (`runtime.py` 339), and becomes a second publication.

### Bounds

* `Fence`: one or two operations and torrents. Every property is about one torrent,
  one torrent with two claimants (`fence_request`), or two taking turns
  (`fence_drains`); a third adds no new relation.
  `Sizes` = {1, 2} with `Capacity` 1 to 3: a torrent that fits, one that grows
  past what was admitted, two claims that do not fit together. `MaxInflight` 1
  or 2: the limit is reached in every run with two operations or more.
  `MaxHistory` bounds the watermark of the ledger; in `Fence` history has one
  entry per torrent, so it is assumed to be at least the number of torrents that
  can be grabbed. `fence_contract` has one torrent, which is adopted, grabbed again or
  both, with `Capacity` for two claims to it: two torrents there do not end in
  reasonable time. `ledger` has two torrents before the baseline, one of which may
  also be grabbed after it.
* `Publisher`: one slot, which is what every property is about; two publications
  are the asset and its upgrade, or two that compete. `PageSize` 2 with three
  imports makes a page that ends between the two ambiguous ones.
* `Upgrades`: in `upgrades` one movie and two requests, so that a second request
  can meet the first one in every place; the hour has two searches, the cooldown
  doubles up to a cap. In `upgrades_serves` two movies for one search an hour.
  There may be one restart in it. `MaxFiles` bounds the imports, `MaxInvalidations` the candidates given up,
  `Overdue` how long ago a missed moment is remembered.
* `Health`: two candidates, so that what ends the poll at one is felt by the
  other; timeouts of one unit and a complete torrent of one byte make stall,
  progress and completion one sample apart.
* `Music`: one album and two releases, `MaxCandidates` 2: one is rejected and the
  other tried, or the cycle is exhausted. `Size` 2 separates metadata, progress
  and completion. `MinimumAge` = `Horizon`, so that the album is searched at the
  horizon only: the two kinds of search differ in when they are due.
* Troubles: `MaxFaults`, `MaxCrashes`, `MaxOverlaps` and `MaxTroubles` of `Health` are
  0 or 1. Each bad outcome is one interruption, placed anywhere; where fault and
  crash have a bound of their own, a crash during the recovery from a fault and a
  fault during the recovery from a crash are covered too. `Music` has two troubles of
  any kind: a failed save and a stop after it are what forgets a candidate. The
  theorems hold for any number.

`CHECK_DEADLOCK FALSE` only where everything may be over: on the ledger, where
nothing happens without the service's polling when every reservation is
released; on the Publisher runs, where everything may be delivered; and in
`fence_contract`, where the runtime stops and does not start again once an adopted
torrent has been grabbed (`Regrabbed`, open points).

### Fairness

asyncio reschedules each task for ever and the container is restarted, which is
where weak fairness of a thread's steps and of a start comes from. Faults,
overlaps and crashes are bounded, so no call fails for ever: without it nothing is
promised by the code either.

* `Fence` (`FairSpec`, in `fence_drains` and `fence_start`): weak fairness of each
  thread in what it has begun, of the tick, the Reconciler's task, the start, and Arr and
  qBittorrent (a posted grab is added, what runs completes). Neither a contract handler
  nor the retry thread need begin anything. The share limit
  and the forgetting queue are off in `fence_drains`: the second blocks the
  intake (open points), and a torrent that its limit stopped before completion
  was observed is in a state whose name depends on the qBittorrent version.
* `Publisher`: strong fairness of each thread. A thread that waits for the gate
  finds it free again and again but not always; the others leave it for at least
  a second between two passes (the periods of `runtime.py`), in which the waiting
  thread of the executor gets it. Weak fairness of Jellyfin, Arr and the transfers.
* `Upgrades`, `Health`, `Music`: weak fairness of the two threads, and strong
  fairness of `Pass`: time passes between two runs, however often runs start.
  In `Upgrades` also of Arr (a posted grab is made), in `Health` of `Reopen`.
  Peers need not come, nothing need load or be imported.

### What the liveness properties exempt

Each exemption is named by a definition, is a real standstill of the code, and is
in the open points. What is shown is that the run's instance has no other; what the
instance itself leaves out (the share limit, queue rows that Arr drops and a pair that
does not fit in `fence_drains`, quiescence in all liveness runs of `Fence`, more than
one sample in `health`, overlaps in `publisher_settles`) is not shown to come to an end.

| definition | in | what it is |
|---|---|---|
| `TagLost` | `EveryGrabReleased` | the tag was lost after its intent and nobody applies it again |
| `Contended`, an import is visible | `EveryTerminalDelivered` | two verified publications of an asset wait for each other; an import's generation id is not accepted as a predecessor |
| an import that failed or is ambiguous | `EveryImportAccounted` | the cursor passes it and nobody tries it again |
| `Abandoned` | `EveryGrabHandedOver`, `EveryDueSearched` | a request that stays pending for ever: its POST never arrived, its title was there before, its torrent was given up or imported before, or the history intake tagged it first |
| `Blocking`, `lost` | `DeadIsGivenUp`, `GivenUpIsReplaced` | an invalidated candidate that ends every later poll; a replacement dropped by an exception or a stop |
| `Stranded` | `EveryInvalidationSettled` | a torrent that was deleted without a record of it, or completed before |
| `forgotten` | `EveryInvalidationSettled` | a candidate whose start was not saved before a stop |
| `Unconfirmed` | `ImportConverges` | a candidate the Fence completed, or never had, before its import was confirmed |

## 4. Proofs

`FenceLedgerProofs` proves, for any finite set of operations and any hashes,
sizes and policy that satisfy the assumptions of `FenceLedger`:

* `LedgerIsTyped`: `LedgerSpec => []LedgerTypeOK`. The only delicate part is
  `bytes`: `MarkTagged` never lowers them. It is inductive alone.
* `InflightIsBounded`: `LedgerSpec => []InflightBounded`. Admissions check the
  limit, so the set grows by one from below it (`FS_AddElement`); every other
  step may only shrink it. That needs a fact about all of the transitions,
  that none takes an operation out of `Spent` or its activation out of
  "managed" (the lemmas on `Inflight` of each group of actions).
* `RequestsFitCapacity`: `LedgerSpec => []RequestedWithinCapacity`. The requested bytes
  may be bounded because admissions ask about the held ones, which are never less
  (`RequestedIsHeld`): admitted requests fit what the held bytes leave, and every
  other step leaves a part of the same reservations. It rests on lemmas about the
  sum of a function over a set, below.
* `SnapshotsLoad`: `LedgerSpec => []SnapshotLoads`: every record of every snapshot is
  one that `from_snapshot` accepts, unless a tracked candidate is being paused, when
  it is not (open points). `SnapshotLoads` is not inductive: it must be strengthened
  with what the snapshot says of each kind of operation, the states an adoption can be
  in given its activation record, that only requested and external operations have
  candidates, that they have them only when active, being paused or invalidated, and
  that records are valid (`SnapshotInv`). It does not say that a start succeeds:
  `Loadable` asks also that no historical adoption's torrent has been grabbed again,
  which the code does not see to.

The proofs have one lemma per group of actions of `LedgerNext` and a common lemma
for a step that only moves one operation's state.

Sums over sets, exponential delays and the hours of events are defined by
recursion. The induction theorems of the library take a predicate as a parameter
and cannot be instantiated here; instead the set of counterexamples is formed and
its smallest member refuted, which well-foundedness gives for the subsets of a
finite set (`SmallestSubset`) and for the numbers (`SmallestNumber`). That way the
recursion is shown to have a solution first, then what the solution is.

`FenceProofs` proves what the service makes of the ledger, for any operations,
torrents, sizes, policy and threads, and any number of faults and stops.

* The invariant of all of it is `Basic /\ Leased`. `ThreadsSound` in it says of each
  thread what it knows whatever the others do meanwhile: where it is, what it
  serves there, and that a tag or resume intent it has seen is still one. That
  is enough because tags and resumes are never taken back (`Onward`), although
  states read before a lease or a loop are otherwise out of date. `Leased`: who is
  between an observation and its effect holds the lease, and the torrent is
  still as it was seen.
* `FenceKeepsLedger` (`Spec => LedgerSpec`): each step is one transition method or none;
  with it the theorems on the ledger are about the service. `FencePolicyHolds` is that
  of both limits. `FenceSnapshotsLoad` (`Spec => [](Loadable \/ Regrabbed)`) has no
  exception for candidates, since no step of `Fence` tracks one; a torrent grabbed again
  is what remains. `FenceIsTyped` includes the records recovery loops have left.
* `EffectsHaveIntents`, `OwnerIsSingle`, `HandedAreOwned`: inductive over `Basic /\ Leased`;
  the second needs that a tagged torrent has exactly one owner (`Owners`).
* `NoGrabIsSkipped` needs `Intake`: of the batch being adopted, every grab before the
  next position is owned durably, and so is the one whose binding just succeeded.

`SlotProofs` proves `SlotIsPlayable`: `SlotSpec => []AlwaysPlayable`, for any set of
generations, and `PublisherProofs` that the Publisher keeps `SlotSpec`. Together:
from the first promotion on the asset's pointer always shows a complete
generation, whatever is replayed, repaired or collected.

Those of `Health`, `Upgrades`, `Music` and `Publisher` hold for any sets of
candidates, entities, releases and downloads, any limits, and any number of
failed calls, overlaps and restarts. The assumptions on the constants are the
types of the configuration, finiteness of the entities, and a finite history. Each
proof has one lemma per variable or per part of the invariant and one step per
action in it. None of the properties is inductive: a thread reads, leaves the
record and comes back to it, and what it still knows when it does has to be said.

* `HealthProofs`, with `HealthInv == Types /\ OrderInv /\ Sampled /\ Clocked`.
  `OrderHolds` (`GivenUpInOrder`) needs `Placed`: what each place of the poll says of
  the candidate in its hands (invalidated, then blocklisted, then gone), and that
  what is collected for replacement was not replaced before. `HealthIsTyped` needs
  `Sampled`: the sample in hand is not ahead of the torrent. `InvalidatedHasStalled`
  (`OnlyStalledInvalidated`) needs `Clocked`: the clocks of a record are not ahead of
  the torrent's own, nor is the record when the sample was taken.
* `UpgradesProofs`, with `UpgradesInv == Types /\ Posts /\ GrabbedOnce /\ Awaits /\
  OneRequestPerEntity`. `Posts`: what was not attempted is not in Arr, and the
  thread posts only what it has just marked. `Awaits`: what the run still has to
  search has no request and is on its list once, which is what the order of
  `fair_order` and the computation of the pending entities are for.
  `UpgradesAreTyped` needs `ScheduleInv`: what recovery, inventory, search and handoff
  know at each place (`Follows`), that no record is about a file that is not there yet
  (`Dated`), and that the marks of a request are set in their order (`Settled`).
  `SearchesAreBounded` has two halves. For the hour, `Counted`: for every h, the answers
  that more than h is left of are no more than the counted ones, one in hand and one
  per restart; stated for every h it survives the passing of time. For a file
  (`SearchesInv`), every answer is a completed search, an open one, or was lost with a
  failed call or a restart; and the completed searches, the open one and those owed
  for candidates that were given up stay within the policy. A search may come after
  the last one of the policy when it is the final one (`FinalAt`) or settles a
  replacement (`Credit`), and the two must not be taken for each other. `Permitted` says
  that what was due when the run made its list may still be searched when its turn
  comes, although the tick, failures and the searches before it have written to the
  schedule since. That needs that no entity has two open searches (`OneOpen`), that
  they are about the file Arr answered for last (`Latest`), and that a final search
  stays final (`Final`).
* `MusicProofs`, with `MusicInv == Types /\ Cycles /\ Candidates /\ Known /\ RecPlaced /\
  FenPlaced /\ AcknowledgedIsRejected`. `Cycles`: a free cycle has room, and the disk
  rejects nothing that memory does not. `Known`: every candidate the Fence has in
  hand is its album's active one or was applied, unless a restart forgot it.
  `RecPlaced` and `FenPlaced`: what the place of either thread says, whatever the
  other does meanwhile. `AlbumHasOneTransfer` assumes `DeletePayload`; without it an
  invalidation is applied while its torrent is still there, and the next
  candidate joins it.
* `PublisherProofs`: `PublisherIsTyped` (what is saved is what `from_records`
  accepts, `Typed`) and `PublisherKeepsPromise` (`Spec => KeepsSlotPromise`): renaming a
  payload is `Seal`, moving the pointer is `Advance` to a sealed generation, garbage
  collection is `Collect` of ones not shown, every other step of every thread a
  stutter. It needs what the holder of the gate knows of the generation it works
  on, and that no other thread moves pointer or payloads.
* `PublisherOrderProofs`: `RouteIsFollowed`, `ReceiptsAreServed`,
  `UpgradesAreReversible`, `DeliveriesAreServed`. The tick accepts custody outside the
  gate, so the invariant compares three versions of the publications: those saved,
  those the tick is about to save, which are older, and those the holder of the gate
  is about to save, which are newer (`Ordered`). `Stages` says what each stage up to
  delivery has established, `Receipts` that no thread that takes the gate after the
  tick left it can undo what the receipt speaks of, `Calm` that without overlaps a
  persist replaces exactly what was read.

Each inductive invariant was checked by TLC before it was proved, on instances
smaller than the runs where two threads meet.

Every invariant and action property that a passing run checks is stated by a theorem.
One theorem has a hypothesis on the constants, `AlbumHasOneTransfer`
(`DeletePayload`); `ReceiptsAreServed`, `UpgradesAreReversible` and
`DeliveriesAreServed` speak of the time before persists overlap, as the properties do.
Only model-checked is liveness, which the proof system does not treat:
`EveryGrabReleased`, `EveryTerminalDelivered`, `EveryImportAccounted`,
`EveryGrabHandedOver`,
`EveryDueSearched`, `DeadIsGivenUp`, `GivenUpIsReplaced`, `EveryInvalidationSettled` and
`ImportConverges`. They stand on the fairness of section 3.

## 5. Not modelled

* A persist of the Fence (`clone`, `save`, `replace_with`) is one step. Two threads
  that persist at once can lose a transition there too; only `Publisher` has the
  halves apart, and there the save and the swap of one persist are one step: two
  persists whose saves and swaps alternate leave memory different from disk. Nor is `ScheduleState`, saved by the Reconciler's thread and the
  Fence tick without a lock, taken apart.
* No module has all four threads of the runtime: the Fence against the Reconciler,
  the Fence against its health poll, and the tick against the Publisher's threads
  are separate modules. The Fence instances have `HealthPolicy` FALSE.
* The public routes of the members of one bundle are exposed in one step
  (`publisher/generation.py` 476-523); a stop between two members is not modelled, nor
  are the sidecars of a renamed payload.
* Jellyfin knowing an asset under several item ids, when the Publisher never observes it
  (`publisher/service.py` 337-339, 409-418).
* An invalidated video candidate without an Arr history id, which the poll passes over
  (`fence/service.py` 141). Both callers of `bind_grab` and every adoption have one.
* Torrents that somebody else starts, stops, retags or deletes.
* Byte counts beyond what decides an admission; remaining bytes; physical
  headroom (a refusal is a fault).
* Release selection and policy; NFO files, modes and the legacy layout of the
  Publisher; a stale public route of another name; assisted intake and
  `mark_operation_conflict`, an operator's calls over the socket;
  `recover_assets`, which nothing in the runtime calls, and the revalidation of a
  delivered binding. HTTP, parsing, configuration, envelopes, SQLite, status and
  metrics have no state of their own that a property is about.

### Open points met while modelling

Traces of the modules, under instances or exemptions that the runs do not have.
Each is a hazard in `PROJECT.json` or belongs to one.

Fence:

* With video health and quiescence together, a paused or pausing torrent whose
  candidate is tracked is a snapshot that neither `clone` nor the next start
  accepts (`fence/model.py` 943-947).
* A user who grabs a torrent again that was adopted as a historical one makes a second
  reservation of it (`adopt_external`, 325-353, compares no hashes), and the
  next start refuses the snapshot (898).
* Neither `bind_grab` (795) nor `_recover_resume` (888) looks at the reservation again
  once it has the lease: `MCFenceFrozen.cfg`.
* `request_resume` does not look at the capacity, and two threads may come between
  the check and it: `MCFenceCapacity.cfg`.
* The history intake adopts the Reconciler's grab before it is bound (387): two
  reservations, twice the bytes, one torrent; the one that tags first owns it. When
  that is the intake's, the request is answered no for ever.
* A stop during quiescence with a `qbittorrent_stopped` reservation: the process does
  not start again (864): `fence_start`.
* A fault between the tag intent and the tag: recovery only reads the tag back
  (843), nobody applies it, the reservation holds its capacity for ever.
* A grab of the page whose queue row is gone makes `external_grabs_after` return
  nothing (`adapters/arr.py` 505), and the page is read from the same watermark
  next time.
* A pause intent that outlives the quiescence is driven at every tick, stops the
  torrent again and cannot be recorded (`fence/model.py` 506).
* Two stopped torrents whose observed sizes exceed the capacity together refuse
  each other's resume for ever, when neither was resumed before the other's size
  was known.

Candidate health:

* The handler at `fence/service.py` 154 names an exception the module does not
  import; any exception ends the poll and drops what it has collected.
* An invalidated candidate whose blocklisting or deletion failed is met again by
  every later poll, where recording a sample raises: no candidate behind it is
  polled again.
* A deletion whose answer is lost, or a stop before the release, leaves the
  reservation active for ever (150).
* Invalidation is durable before the replacement is recorded by the scheduler
  (`runtime.py` 507-515), and is not repeated after a stop in between.

Music:

* A deletion whose answer was lost, or a torrent that completed before it was
  deleted, is never taken for deleted (`fence/service.py` 189): the cycle stays
  active for ever.
* When the Fence's poll completes a candidate before the Reconciler sees the
  import, or a stop separates completion and confirmation, `on_imported` answers
  no at every later run and the cycle stays active for ever
  (`reconciler/music.py` 459), against `docs/current/domains/reconciler.md` 30-31.
* A failed save of a started candidate followed by a stop after its handoff
  forgets the candidate (`reconciler/music.py` 515, `forgotten` in `Music`): the album
  may get a second transfer, a torrent that was given up be tried again, and the
  invalidation is never acknowledged.
* A cycle that is exhausted by a rejection after the horizon is not marked
  terminal, so the album is searched again; a release date that moves raises a
  `ValueError` that ends the run before the albums behind it.

Scheduler:

* `fair_order` rotates the scopes of all that is due, replacements included, by one
  cursor; `docs/current/domains/reconciler.md` 19-23 has replacements first.
* `record_completed` removes a replacement that the tick recorded during the search.
* `record_replacement_failure` (213) does not catch the `OverflowError` that the other
  two delays expect of a power of floats; the model computes with integers, where
  there is none.
* A handoff that fails before its intent records no checkpoint: the entity is
  searched again at the next run.
* A request whose POST never arrived, whose title was in the history before, or
  whose torrent was given up or imported before it was marked observed, or tagged
  by the history intake first, stays pending for ever, and its entity is searched no more.

Publisher:

* The payload is renamed before its sidecars (`publisher/generation.py` 397); a stop
  in between leaves them under their old names for good, since the renamed
  payload is what is looked for.
* `accept_terminal` persists outside the gate (`publisher/service.py` 115-119, 218):
  another persist may be lost. A delivered publication may be pending again while its
  upgrade is under way (`MCPublisherOverlap.cfg`); one that was committed may be verified
  again and wait for the other for ever; and after a failed call the receipt may be
  given for a copy that is not the one shown.
* `_generation_id` accepts version 4 only, imports have version 5: an asset that
  shows an import cannot be upgraded.
* `reconcile_imports` adopts the import Arr made of a download the Fence hands to
  the Publisher as well (`MCPublisherPublished.cfg`), against
  `docs/current/domains/publisher.md` 19-21; the two are publications of one asset, and
  two verified ones wait for each other (288-295).
* The cursor passes imports that failed or were ambiguous; they are not tried again.

## 6. Plan

Done: `FenceLedger`, `Fence`, `Health`, `Upgrades`, `Music`, `Slot`, `Publisher`, and the
theorems of section 4. Next:

1. A composition of the health poll with the Fence's recovery and the start.
2. Persists of the Fence in two halves, for two threads.
3. Physical headroom as an operator against a reference definition.
