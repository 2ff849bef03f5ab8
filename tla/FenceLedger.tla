---------------------------- MODULE FenceLedger ----------------------------
(***************************************************************************)
(* The reservation ledger of the Fence: the state model of                 *)
(* fence/model.py (FenceState) as a specification of its own.  Every       *)
(* action below is one transition method, guarded by the condition under   *)
(* which the method does not raise; callers persist each transition before *)
(* they act on it, so one step of this module is one durable snapshot.     *)
(*                                                                         *)
(* An operation is identified by its operation_id.  How an operation gets  *)
(* its reservation is fixed by the set it belongs to:                      *)
(*   Requested   a Reconciler release request (pre_admit)                  *)
(*   External    a uuid4 minted for a grab seen in Arr history             *)
(*   PostPnr     a deployment-authorised adoption                          *)
(*   Historical  the same, of a completed release, activated explicitly    *)
(* The two kinds of adoption concern torrents grabbed before the Arr       *)
(* baseline, the others torrents grabbed after it.  A torrent may be       *)
(* grabbed on both sides of it.                                            *)
(*                                                                         *)
(* Abstractions: an infohash is a model value (download_id is the same     *)
(* value in another case); byte counts are small numbers; the well-formed  *)
(* input checks are left out, inputs are well formed.  A video candidate   *)
(* keeps only its status; its clock and counters belong to the module that *)
(* polls health.  Music candidates are not part of this module.            *)
(***************************************************************************)
EXTENDS Integers, FiniteSets, Functions

CONSTANTS
  Requested, External, PostPnr, Historical,
  PriorHashes,     \* infohashes whose Arr grab predates the baseline
  LaterHashes,     \* infohashes Arr grabs after it
  Sizes,           \* byte counts a release or a torrent can have
  Capacity,        \* FencePolicy.capacity_bytes
  MaxInflight,     \* FencePolicy.max_inflight
  MaxHistory,      \* bound on Arr history ids (bounds the watermark)
  NoHash,          \* torrent_hash is None
  HealthPolicy,    \* video_candidate_health is configured
  MayQuiesce       \* somebody sends the quiesce message

Ops == Requested \cup External \cup PostPnr \cup Historical
Hashes == PriorHashes \cup LaterHashes

ASSUME SizesArePositive == Sizes \subseteq Nat \ {0}
ASSUME PolicyIsPositive == Capacity \in Nat \ {0} /\ MaxInflight \in Nat \ {0}
ASSUME HistoryIsBounded == MaxHistory \in Nat
ASSUME HashIsNotNone == NoHash \notin Hashes

ASSUME OpsAreFinite == IsFiniteSet(Ops)
ASSUME PolicyFlags == HealthPolicy \in BOOLEAN /\ MayQuiesce \in BOOLEAN
ASSUME KindsAreDisjoint ==
  /\ Requested \cap (External \cup PostPnr \cup Historical) = {}
  /\ External \cap (PostPnr \cup Historical) = {}
  /\ PostPnr \cap Historical = {}

NoWatermark == -1       \* watermark(source) is None

VARIABLES
  state,         \* Reservation.state, "none" while there is no reservation
  hash,          \* Reservation.torrent_hash
  bytes,         \* Reservation.bytes_reserved
  requested,     \* Reservation.requested_bytes
  activation,    \* _post_pnr_historical_activations
  candidate,     \* VideoCandidate.status
  quiescing,     \* _quiescing
  watermark      \* _watermarks of the one source

ledger == <<state, hash, bytes, requested, activation, candidate, quiescing, watermark>>

ReservationState ==
  {"pre_admitted", "grab_bound", "tag_intent_recorded", "qbittorrent_stopped",
   "activation_intent_recorded", "qbittorrent_managed", "resume_intent_recorded",
   "qbittorrent_active", "pause_intent_recorded", "qbittorrent_paused", "terminal",
   "freeze_intent_recorded", "qbittorrent_frozen", "invalidated", "released"}

LedgerTypeOK ==
  /\ state \in [Ops -> ReservationState \cup {"none"}]
  /\ hash \in [Ops -> Hashes \cup {NoHash}]
  /\ bytes \in [Ops -> Nat]
  /\ requested \in [Ops -> Nat]
  /\ activation \in [Ops -> {"none", "intent", "managed"}]
  /\ candidate \in [Ops -> {"none", "probing", "invalidated"}]
  /\ quiescing \in BOOLEAN
  /\ watermark \in Nat \cup {NoWatermark}

LedgerInit ==
  /\ state = [op \in Ops |-> "none"]
  /\ hash = [op \in Ops |-> NoHash]
  /\ bytes = [op \in Ops |-> 0]
  /\ requested = [op \in Ops |-> 0]
  /\ activation = [op \in Ops |-> "none"]
  /\ candidate = [op \in Ops |-> "none"]
  /\ quiescing = FALSE
  /\ watermark = NoWatermark

-----------------------------------------------------------------------------
(* Accounting *)

Spent == {"none", "released", "invalidated"}

\* Reservations that hold capacity.
Live == {op \in Ops : state[op] \notin Spent}

ReservedBytes == SumFunctionOnSet(bytes, Live)

WithinCapacity == ReservedBytes <= Capacity

\* A managed historical torrent has left the concurrency limit.
Inflight == {op \in Live : activation[op] # "managed"}

\* Mutants: one reservation too many; the new reservation is not counted.
RoomForOneMore(size) ==
  Cardinality(Inflight) <= MaxInflight /\ ReservedBytes + size <= Capacity
RoomForAnySize(size) ==
  Cardinality(Inflight) < MaxInflight /\ ReservedBytes <= Capacity

RoomFor(size) ==
  /\ Cardinality(Inflight) < MaxInflight
  /\ ReservedBytes + size <= Capacity

-----------------------------------------------------------------------------
(* Snapshots *)

\* States in which from_snapshot keeps or discards a video candidate instead
\* of raising.
CandidateStates ==
  {"qbittorrent_active", "invalidated", "terminal", "qbittorrent_frozen", "released"}

\* What from_records asks of one reservation.
RecordValid(op) ==
  state[op] # "none" =>
    /\ bytes[op] >= requested[op] /\ requested[op] > 0
    /\ (hash[op] = NoHash) <=> (state[op] = "pre_admitted" /\ op \notin External)

\* clone() rebuilds the ledger with from_snapshot, candidates included: it
\* raises on an invalid record, and when a candidate's reservation is in a
\* state the candidate cannot have.
Clonable ==
  \A op \in Ops :
    RecordValid(op) /\ (candidate[op] # "none" => state[op] \in CandidateStates)

PostPnrStates == {"grab_bound", "tag_intent_recorded", "qbittorrent_stopped"}
ManagedStates ==
  {"qbittorrent_managed", "pause_intent_recorded", "qbittorrent_paused", "resume_intent_recorded"}
HistoricalStates == PostPnrStates \cup {"activation_intent_recorded"} \cup ManagedStates

\* Every record that from_snapshot reads is one it accepts.
RecordsLoad ==
  /\ Clonable
  /\ \A op \in PostPnr : state[op] # "none" => state[op] \in PostPnrStates
  /\ \A op \in Historical : state[op] # "none" => state[op] \in HistoricalStates
  /\ \A op \in Ops :
       /\ activation[op] = "intent" => state[op] = "activation_intent_recorded"
       /\ activation[op] = "managed" => state[op] \in ManagedStates

\* Another reservation has the torrent of a historical adoption.
Regrabbed ==
  \E op \in Historical : hash[op] # NoHash /\ \E other \in Ops \ {op} : hash[other] = hash[op]

\* FenceStore.load accepts the durable snapshot.
Loadable == RecordsLoad /\ ~Regrabbed

-----------------------------------------------------------------------------
(* Transitions *)

\* clone() succeeds and op moves from one of the states in from to state to.
Moves(op, from, to) ==
  /\ Clonable
  /\ state[op] \in from
  /\ state' = [state EXCEPT ![op] = to]

\* A new reservation of size bytes.
Reserve(op, h, size, to) ==
  /\ Moves(op, {"none"}, to)
  /\ ~quiescing
  /\ RoomFor(size)
  /\ hash' = [hash EXCEPT ![op] = h]
  /\ bytes' = [bytes EXCEPT ![op] = size]
  /\ requested' = [requested EXCEPT ![op] = size]
  /\ UNCHANGED <<activation, candidate, quiescing, watermark>>

PreAdmit(op, size) == op \in Requested /\ Reserve(op, NoHash, size, "pre_admitted")

\* One reservation per observation fingerprint, which stands for one grab of the
\* torrent after the baseline; who else holds the hash is not asked.
AdoptExternal(op, h, size) ==
  /\ op \in External /\ h \in LaterHashes
  /\ \A other \in External : hash[other] # h
  /\ Reserve(op, h, size, "pre_admitted")

AdoptPostPnr(op, h, size) ==
  /\ op \in PostPnr \cup Historical /\ h \in PriorHashes
  /\ \A other \in Ops : hash[other] # h
  /\ Reserve(op, h, size, "grab_bound")

\* An external reservation already carries its torrent's hash.
BindObservedGrab(op, h) ==
  /\ h \in LaterHashes /\ hash[op] \in {NoHash, h}
  /\ Moves(op, {"pre_admitted"}, "grab_bound")
  /\ hash' = [hash EXCEPT ![op] = h]
  /\ UNCHANGED <<bytes, requested, activation, candidate, quiescing, watermark>>

RequestTag(op) ==
  /\ Moves(op, {"grab_bound"}, "tag_intent_recorded")
  /\ UNCHANGED <<hash, bytes, requested, activation, candidate, quiescing, watermark>>

\* Mutant: the reservation becomes what remains.
MarkTaggedRemaining(op, observed) ==
  /\ Moves(op, {"tag_intent_recorded"}, "qbittorrent_stopped")
  /\ bytes' = [bytes EXCEPT ![op] = @ - observed]
  /\ UNCHANGED <<hash, requested, activation, candidate, quiescing, watermark>>

\* The observed size only ever raises the reservation.
MarkTagged(op, observed) ==
  /\ Moves(op, {"tag_intent_recorded"}, "qbittorrent_stopped")
  /\ bytes' = [bytes EXCEPT ![op] = IF observed > @ THEN observed ELSE @]
  /\ UNCHANGED <<hash, requested, activation, candidate, quiescing, watermark>>

\* request_resume does not look at the kind of operation, its callers do: they
\* resume an adoption only once it is managed, and then it is paused, never
\* merely stopped.
CanRequestResume(op) ==
  /\ Clonable
  /\ state[op] = "qbittorrent_stopped" => op \notin PostPnr \cup Historical
  /\ state[op] \in {"qbittorrent_stopped", "qbittorrent_paused"}
  /\ ~quiescing

RequestResume(op) ==
  /\ CanRequestResume(op)
  /\ Moves(op, {"qbittorrent_stopped", "qbittorrent_paused"}, "resume_intent_recorded")
  /\ UNCHANGED <<hash, bytes, requested, activation, candidate, quiescing, watermark>>

CanMarkActive(op) == Clonable /\ state[op] = "resume_intent_recorded"

\* Mutant: a managed torrent becomes an ordinary active one.
MarkActiveAlways(op) ==
  /\ Moves(op, {"resume_intent_recorded"}, "qbittorrent_active")
  /\ UNCHANGED <<hash, bytes, requested, activation, candidate, quiescing, watermark>>

MarkActive(op) ==
  /\ Moves(op, {"resume_intent_recorded"},
           IF activation[op] = "managed" THEN "qbittorrent_managed" ELSE "qbittorrent_active")
  /\ UNCHANGED <<hash, bytes, requested, activation, candidate, quiescing, watermark>>

RequestHistoricalActivation(op) ==
  /\ op \in Historical
  /\ ~quiescing
  /\ activation[op] = "none"
  /\ Moves(op, {"qbittorrent_stopped"}, "activation_intent_recorded")
  /\ activation' = [activation EXCEPT ![op] = "intent"]
  /\ UNCHANGED <<hash, bytes, requested, candidate, quiescing, watermark>>

CanMarkManaged(op) ==
  Clonable /\ activation[op] = "intent" /\ state[op] = "activation_intent_recorded"

MarkHistoricalManaged(op) ==
  /\ activation[op] = "intent"
  /\ Moves(op, {"activation_intent_recorded"}, "qbittorrent_managed")
  /\ activation' = [activation EXCEPT ![op] = "managed"]
  /\ UNCHANGED <<hash, bytes, requested, candidate, quiescing, watermark>>

CanRequestPause(op) ==
  Clonable /\ quiescing /\ state[op] \in {"qbittorrent_active", "qbittorrent_managed"}

RequestPause(op) ==
  /\ CanRequestPause(op)
  /\ Moves(op, {"qbittorrent_active", "qbittorrent_managed"}, "pause_intent_recorded")
  /\ UNCHANGED <<hash, bytes, requested, activation, candidate, quiescing, watermark>>

CanMarkPaused(op) == Clonable /\ quiescing /\ state[op] = "pause_intent_recorded"

MarkPaused(op) ==
  /\ quiescing
  /\ Moves(op, {"pause_intent_recorded"}, "qbittorrent_paused")
  /\ UNCHANGED <<hash, bytes, requested, activation, candidate, quiescing, watermark>>

Complete(op) ==
  /\ Moves(op, {"qbittorrent_active"}, "terminal")
  /\ candidate' = [candidate EXCEPT ![op] = "none"]
  /\ UNCHANGED <<hash, bytes, requested, activation, quiescing, watermark>>

RequestFreeze(op) ==
  /\ Moves(op, {"terminal"}, "freeze_intent_recorded")
  /\ UNCHANGED <<hash, bytes, requested, activation, candidate, quiescing, watermark>>

CanMarkFrozen(op) == Clonable /\ state[op] = "freeze_intent_recorded"

MarkFrozen(op) ==
  /\ Moves(op, {"freeze_intent_recorded"}, "qbittorrent_frozen")
  /\ UNCHANGED <<hash, bytes, requested, activation, candidate, quiescing, watermark>>

AcceptCustody(op) ==
  /\ Moves(op, {"terminal", "qbittorrent_frozen"}, "released")
  /\ UNCHANGED <<hash, bytes, requested, activation, candidate, quiescing, watermark>>

BeginQuiescence ==
  /\ MayQuiesce /\ Clonable /\ ~quiescing
  /\ quiescing' = TRUE
  /\ UNCHANGED <<state, hash, bytes, requested, activation, candidate, watermark>>

EndQuiescence ==
  /\ Clonable /\ quiescing
  /\ quiescing' = FALSE
  /\ UNCHANGED <<state, hash, bytes, requested, activation, candidate, watermark>>

RecordWatermark(w) ==
  /\ Clonable
  /\ w >= watermark
  /\ watermark' = w
  /\ UNCHANGED <<state, hash, bytes, requested, activation, candidate, quiescing>>

-----------------------------------------------------------------------------
(* Video candidates *)

EnsureVideoCandidate(op) ==
  /\ HealthPolicy /\ Clonable
  /\ op \notin PostPnr \cup Historical
  /\ state[op] = "qbittorrent_active" /\ candidate[op] = "none"
  /\ candidate' = [candidate EXCEPT ![op] = "probing"]
  /\ UNCHANGED <<state, hash, bytes, requested, activation, quiescing, watermark>>

InvalidateVideoCandidate(op) ==
  /\ Clonable
  /\ candidate[op] = "probing" /\ state[op] = "qbittorrent_active"
  /\ candidate' = [candidate EXCEPT ![op] = "invalidated"]
  /\ UNCHANGED <<state, hash, bytes, requested, activation, quiescing, watermark>>

ReleaseInvalidatedVideoCandidate(op) ==
  /\ candidate[op] = "invalidated"
  /\ Moves(op, {"qbittorrent_active"}, "invalidated")
  /\ UNCHANGED <<hash, bytes, requested, activation, candidate, quiescing, watermark>>

-----------------------------------------------------------------------------
Admission(op) ==
  \E size \in Sizes :
    \/ PreAdmit(op, size)
    \/ \E h \in Hashes : AdoptExternal(op, h, size) \/ AdoptPostPnr(op, h, size)

Acquisition(op) ==
  \/ \E h \in Hashes : BindObservedGrab(op, h)
  \/ RequestTag(op)
  \/ \E size \in Sizes : MarkTagged(op, size)
  \/ RequestResume(op)
  \/ MarkActive(op)

Quiescence(op) == RequestPause(op) \/ MarkPaused(op)

Activation(op) == RequestHistoricalActivation(op) \/ MarkHistoricalManaged(op)

Custody(op) == Complete(op) \/ RequestFreeze(op) \/ MarkFrozen(op) \/ AcceptCustody(op)

Health(op) ==
  \/ EnsureVideoCandidate(op)
  \/ InvalidateVideoCandidate(op)
  \/ ReleaseInvalidatedVideoCandidate(op)

LedgerNext ==
  \/ \E op \in Ops :
       Admission(op) \/ Acquisition(op) \/ Quiescence(op) \/ Activation(op) \/ Custody(op) \/ Health(op)
  \/ BeginQuiescence
  \/ EndQuiescence
  \/ \E w \in 0..MaxHistory : RecordWatermark(w)

LedgerSpec == LedgerInit /\ [][LedgerNext]_ledger

-----------------------------------------------------------------------------
(* Properties *)

\* The concurrency limit of FencePolicy holds in every snapshot: no admission
\* path, pause, resume or release lets more reservations count than the
\* policy allows (a managed historical torrent no longer counts, and must
\* not count again when it is paused and resumed).
InflightBounded == Cardinality(Inflight) <= MaxInflight

\* The bytes admitted against the policy never exceed it.  Observed sizes may
\* raise ReservedBytes above Capacity, the requested sizes may not.
RequestedWithinCapacity == SumFunctionOnSet(requested, Live) <= Capacity

\* A reservation that is paused while its candidate is tracked.
CandidatePaused ==
  \E op \in Ops : candidate[op] # "none" /\ state[op] = "pause_intent_recorded"

\* The next start loads every record that was persisted, whatever activation, pause,
\* reopening, completion and release came before it.  Two things that the code does
\* not keep away are left out, and then a start fails: a tracked candidate that
\* quiescence pauses (model.py 945), and a historical adoption whose torrent is
\* grabbed again (898), which is what Loadable asks beyond RecordsLoad.
SnapshotLoads == RecordsLoad \/ CandidatePaused
=============================================================================
