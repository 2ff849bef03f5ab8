------------------------- MODULE FenceLedgerProofs -------------------------
(***************************************************************************)
(* What holds of the reservation ledger for every policy, every set of     *)
(* operations and torrents, and every size: types, the concurrency limit,  *)
(* and that every snapshot the ledger persists can be loaded again.        *)
(***************************************************************************)
EXTENDS FenceLedger, FiniteSetTheorems, TLAPS

LEMMA InitTypeOK == LedgerInit => LedgerTypeOK
<1> SUFFICES ASSUME LedgerInit PROVE LedgerTypeOK
  OBVIOUS
<1>1. /\ state \in [Ops -> ReservationState \cup {"none"}]
      /\ hash \in [Ops -> Hashes \cup {NoHash}]
      /\ bytes \in [Ops -> Nat] /\ requested \in [Ops -> Nat]
  BY DEF LedgerInit
<1>2. /\ activation \in [Ops -> {"none", "intent", "managed"}]
      /\ candidate \in [Ops -> {"none", "probing", "invalidated"}]
      /\ watermark \in Nat \cup {NoWatermark}
  BY DEF LedgerInit
<1>3. quiescing \in BOOLEAN
  BY Zenon DEF LedgerInit
<1> QED BY <1>1, <1>2, <1>3 DEF LedgerTypeOK

\* Every transition keeps the types.
LEMMA NextTypeOK == LedgerTypeOK /\ [LedgerNext]_ledger => LedgerTypeOK'
<1> SUFFICES ASSUME LedgerTypeOK, [LedgerNext]_ledger PROVE LedgerTypeOK'
  OBVIOUS
<1> USE SizesArePositive DEF LedgerTypeOK, ReservationState
<1>1. CASE UNCHANGED ledger
  BY <1>1 DEF ledger
<1>2. ASSUME NEW op \in Ops, Admission(op) PROVE LedgerTypeOK'
  <2>1. ASSUME NEW h \in Hashes \cup {NoHash}, NEW size \in Sizes,
               NEW to \in {"pre_admitted", "grab_bound"}, Reserve(op, h, size, to)
        PROVE  LedgerTypeOK'
    BY <2>1 DEF Reserve, Moves
  <2> QED BY <1>2, <2>1 DEF Admission, PreAdmit, AdoptExternal, AdoptPostPnr
<1>3. ASSUME NEW op \in Ops, Acquisition(op) PROVE LedgerTypeOK'
  BY <1>3 DEF Acquisition, BindObservedGrab, RequestTag, MarkTagged, RequestResume, MarkActive, Moves
<1>4. ASSUME NEW op \in Ops, Quiescence(op) PROVE LedgerTypeOK'
  BY <1>4 DEF Quiescence, RequestPause, MarkPaused, Moves
<1>5. ASSUME NEW op \in Ops, Activation(op) PROVE LedgerTypeOK'
  BY <1>5 DEF Activation, RequestHistoricalActivation, MarkHistoricalManaged, Moves
<1>6. ASSUME NEW op \in Ops, Custody(op) PROVE LedgerTypeOK'
  BY <1>6 DEF Custody, Complete, RequestFreeze, MarkFrozen, AcceptCustody, Moves
<1>7. ASSUME NEW op \in Ops, Health(op) PROVE LedgerTypeOK'
  BY <1>7 DEF Health, EnsureVideoCandidate, InvalidateVideoCandidate,
              ReleaseInvalidatedVideoCandidate, Moves
<1>8. CASE BeginQuiescence \/ EndQuiescence
  BY <1>8 DEF BeginQuiescence, EndQuiescence
<1>9. ASSUME NEW w \in 0..MaxHistory, RecordWatermark(w) PROVE LedgerTypeOK'
  BY <1>9, HistoryIsBounded DEF RecordWatermark
<1> QED
  BY <1>1, <1>2, <1>3, <1>4, <1>5, <1>6, <1>7, <1>8, <1>9 DEF LedgerNext

\* The state model keeps its types: no transition of fence/model.py leaves a
\* reservation, a count of bytes or a watermark outside its domain.
THEOREM LedgerIsTyped == LedgerSpec => []LedgerTypeOK
  BY InitTypeOK, NextTypeOK, PTL DEF LedgerSpec

-----------------------------------------------------------------------------
(* The concurrency limit *)

\* A step after which nothing counts that did not count before keeps the limit.
LEMMA InflightShrinks ==
  ASSUME InflightBounded, Inflight' \subseteq Inflight PROVE InflightBounded'
<1>1. IsFiniteSet(Inflight)
  BY OpsAreFinite, FS_Subset DEF Inflight, Live
<1>2. Cardinality(Inflight') <= Cardinality(Inflight) /\ IsFiniteSet(Inflight')
  BY <1>1, FS_Subset
<1>3. Cardinality(Inflight') \in Nat /\ Cardinality(Inflight) \in Nat
  BY <1>1, <1>2, FS_CardinalityType
<1> QED BY <1>2, <1>3, PolicyIsPositive DEF InflightBounded

\* Admission adds one reservation, below the limit.
LEMMA ReserveKeepsLimit ==
  ASSUME LedgerTypeOK, InflightBounded, NEW op \in Ops, NEW h, NEW size, NEW to,
         Reserve(op, h, size, to)
  PROVE  InflightBounded'
<1>1. IsFiniteSet(Inflight)
  BY OpsAreFinite, FS_Subset DEF Inflight, Live
<1>2. Inflight' \subseteq Inflight \cup {op}
  BY DEF Reserve, Moves, Inflight, Live, LedgerTypeOK
<1>3. /\ IsFiniteSet(Inflight \cup {op})
      /\ Cardinality(Inflight \cup {op}) <= Cardinality(Inflight) + 1
  <2>1. /\ IsFiniteSet(Inflight \cup {op})
        /\ \/ Cardinality(Inflight \cup {op}) = Cardinality(Inflight)
           \/ Cardinality(Inflight \cup {op}) = Cardinality(Inflight) + 1
    BY <1>1, FS_AddElement
  <2>2. Cardinality(Inflight) \in Nat
    BY <1>1, FS_CardinalityType
  <2> QED BY <2>1, <2>2
<1>4. Cardinality(Inflight') <= Cardinality(Inflight \cup {op}) /\ IsFiniteSet(Inflight')
  BY <1>2, <1>3, FS_Subset
<1>5. /\ Cardinality(Inflight) \in Nat /\ Cardinality(Inflight') \in Nat
      /\ Cardinality(Inflight \cup {op}) \in Nat
  BY <1>1, <1>3, <1>4, FS_CardinalityType
<1>6. Cardinality(Inflight) < MaxInflight
  BY DEF Reserve, RoomFor
<1> QED BY <1>3, <1>4, <1>5, <1>6, PolicyIsPositive DEF InflightBounded

\* What a step may do to the reservations that hold capacity.
NothingRevived ==
  \A op \in Ops :
    /\ state[op] \in Spent => state'[op] \in Spent
    /\ activation[op] = "managed" => activation'[op] = "managed"

LEMMA NothingRevivedKeepsLimit ==
  ASSUME InflightBounded, NothingRevived PROVE InflightBounded'
<1>1. Inflight' \subseteq Inflight
  BY DEF NothingRevived, Inflight, Live
<1> QED BY <1>1, InflightShrinks

LEMMA InitInflight == LedgerInit => InflightBounded
<1> SUFFICES ASSUME LedgerInit PROVE InflightBounded
  OBVIOUS
<1>1. Inflight = {}
  BY DEF LedgerInit, Inflight, Live, Spent
<1> QED BY <1>1, FS_EmptySet, PolicyIsPositive DEF InflightBounded

LEMMA NextInflight ==
  LedgerTypeOK /\ InflightBounded /\ [LedgerNext]_ledger => InflightBounded'
<1> SUFFICES ASSUME LedgerTypeOK, InflightBounded, [LedgerNext]_ledger PROVE InflightBounded'
  OBVIOUS
<1>1. ASSUME NEW op \in Ops, Admission(op) PROVE InflightBounded'
  <2>1. ASSUME NEW h, NEW size, NEW to, Reserve(op, h, size, to) PROVE InflightBounded'
    BY <2>1, ReserveKeepsLimit
  <2> QED BY <1>1, <2>1 DEF Admission, PreAdmit, AdoptExternal, AdoptPostPnr
<1>2. ASSUME [LedgerNext]_ledger, ~ \E op \in Ops : Admission(op) PROVE NothingRevived
  <2> USE DEF NothingRevived, LedgerTypeOK, Spent
  <2>1. CASE UNCHANGED ledger
    BY <2>1 DEF ledger
  <2>2. ASSUME NEW op \in Ops, Acquisition(op) PROVE NothingRevived
    BY <2>2 DEF Acquisition, BindObservedGrab, RequestTag, MarkTagged, RequestResume, MarkActive, Moves
  <2>3. ASSUME NEW op \in Ops, Quiescence(op) PROVE NothingRevived
    BY <2>3 DEF Quiescence, RequestPause, MarkPaused, Moves
  <2>4. ASSUME NEW op \in Ops, Activation(op) PROVE NothingRevived
    BY <2>4 DEF Activation, RequestHistoricalActivation, MarkHistoricalManaged, Moves
  <2>5. ASSUME NEW op \in Ops, Custody(op) PROVE NothingRevived
    BY <2>5 DEF Custody, Complete, RequestFreeze, MarkFrozen, AcceptCustody, Moves
  <2>6. ASSUME NEW op \in Ops, Health(op) PROVE NothingRevived
    BY <2>6 DEF Health, EnsureVideoCandidate, InvalidateVideoCandidate,
                ReleaseInvalidatedVideoCandidate, Moves
  <2>7. CASE BeginQuiescence \/ EndQuiescence
    BY <2>7 DEF BeginQuiescence, EndQuiescence
  <2>8. ASSUME NEW w \in 0..MaxHistory, RecordWatermark(w) PROVE NothingRevived
    BY <2>8 DEF RecordWatermark
  <2> QED BY <1>2, <2>1, <2>2, <2>3, <2>4, <2>5, <2>6, <2>7, <2>8 DEF LedgerNext
<1> QED BY <1>1, <1>2, NothingRevivedKeepsLimit

\* FencePolicy.max_inflight bounds the reservations that count in every
\* reachable ledger, for any policy and any number of operations.
THEOREM InflightIsBounded == LedgerSpec => []InflightBounded
<1>1. LedgerInit => LedgerTypeOK /\ InflightBounded
  BY InitTypeOK, InitInflight
<1>2. LedgerTypeOK /\ InflightBounded /\ [LedgerNext]_ledger => (LedgerTypeOK /\ InflightBounded)'
  BY NextTypeOK, NextInflight
<1> QED BY <1>1, <1>2, PTL DEF LedgerSpec

-----------------------------------------------------------------------------
(* Sums of bytes.  Each fact about every finite set is proved by induction, *)
(* as the absence of a smallest counterexample.                             *)

\* The element that the fold takes out of a set, and the equation it obeys.
Pick(S) == CHOOSE x \in S : TRUE
IsSum(g, f, S) ==
  g = [s \in SUBSET S |-> IF s = {} THEN 0 ELSE f[Pick(s)] + g[s \ {Pick(s)}]]

\* The library folds + over the set with a recursive function on its subsets.
LEMMA SumDef ==
  ASSUME NEW f, NEW S
  PROVE  SumFunctionOnSet(f, S) = (CHOOSE g : IsSum(g, f, S))[S]
  BY DEF SumFunctionOnSet, FoldFunctionOnSet, MapThenFoldSet, IsSum, Pick

\* Induction on the subsets of a finite set: a set of counterexamples has a
\* smallest one.
LEMMA SmallestSubset ==
  ASSUME NEW S, IsFiniteSet(S), NEW C, C \subseteq SUBSET S, C # {}
  PROVE  \E s \in C : \A t \in C : t \subseteq s => t = s
<1>1. IsWellFoundedOn(StrictSubsetOrdering(S), SUBSET S)
  BY FS_StrictSubsetOrderingWellFounded, FS_FiniteSubsetsOfFinite
<1>2. \E s \in C : \A t \in C : <<t, s>> \notin StrictSubsetOrdering(S)
  BY <1>1, WFMin
<1> QED BY <1>2 DEF StrictSubsetOrdering

LEMMA PickIsIn == ASSUME NEW S, S # {} PROVE Pick(S) \in S
  BY DEF Pick

\* Two functions with the equation of the fold agree wherever both are defined.
LEMMA SumsAgree ==
  ASSUME NEW S, IsFiniteSet(S), NEW f, NEW g, NEW h, NEW T \in SUBSET S, NEW U \in SUBSET S,
         IsSum(g, f, T), IsSum(h, f, U)
  PROVE  \A s \in SUBSET (T \cap U) : g[s] = h[s]
<1> DEFINE C == {s \in SUBSET (T \cap U) : g[s] # h[s]}
<1>1. ASSUME C # {} PROVE FALSE
  <2>1. PICK s \in C : \A t \in C : t \subseteq s => t = s
    <3>1. C \subseteq SUBSET S
      OBVIOUS
    <3> HIDE DEF C
    <3> QED BY <1>1, <3>1, SmallestSubset
  <2>2. /\ g[s] = IF s = {} THEN 0 ELSE f[Pick(s)] + g[s \ {Pick(s)}]
        /\ h[s] = IF s = {} THEN 0 ELSE f[Pick(s)] + h[s \ {Pick(s)}]
    BY DEF IsSum
  <2>3. s # {} => s \ {Pick(s)} \notin C
    BY <2>1, PickIsIn
  <2> QED BY <2>2, <2>3
<1> QED BY <1>1

LEMMA SumsRestrict ==
  ASSUME NEW f, NEW g, NEW S, NEW T \in SUBSET S, IsSum(g, f, S)
  PROVE  IsSum([s \in SUBSET T |-> g[s]], f, T)
  BY DEF IsSum

LEMMA SumIsAny ==
  ASSUME NEW S, IsFiniteSet(S), NEW f, NEW g, IsSum(g, f, S), NEW T \in SUBSET S
  PROVE  SumFunctionOnSet(f, T) = g[T]
<1> DEFINE h == CHOOSE h : IsSum(h, f, T)
<1>1. IsSum(h, f, T)
  <2>1. \E k : IsSum(k, f, T)
    BY SumsRestrict
  <2> QED BY <2>1
<1> HIDE DEF h
<1>2. h[T] = g[T]
  BY <1>1, SumsAgree
<1> QED BY <1>2, SumDef DEF h

\* The recursion has a solution: one for every smaller set gives one for this.
LEMMA SumExists ==
  ASSUME NEW S, IsFiniteSet(S), NEW f
  PROVE  \E g : IsSum(g, f, S)
<1> DEFINE C == {s \in SUBSET S : ~ \E g : IsSum(g, f, s)}
<1>1. ASSUME C # {} PROVE FALSE
  <2>1. PICK s \in C : \A t \in C : t \subseteq s => t = s
    <3>1. C \subseteq SUBSET S
      OBVIOUS
    <3> HIDE DEF C
    <3> QED BY <1>1, <3>1, SmallestSubset
  <2> DEFINE V(t) == SumFunctionOnSet(f, t)
             k == [t \in SUBSET s |->
                     IF t = {} THEN 0 ELSE f[Pick(t)] + V(t \ {Pick(t)})]
  <2>2. ASSUME NEW t \in SUBSET s, t # s PROVE V(t) = k[t]
    <3>1. PICK g : IsSum(g, f, t)
      BY <2>1, <2>2
    <3>2. IsFiniteSet(t)
      BY FS_Subset
    <3>3. V(t) = g[t]
      BY <3>1, <3>2, SumIsAny
    <3>4. t # {} => V(t \ {Pick(t)}) = g[t \ {Pick(t)}]
      BY <3>1, <3>2, SumIsAny
    <3>5. g[t] = IF t = {} THEN 0 ELSE f[Pick(t)] + g[t \ {Pick(t)}]
      BY <3>1 DEF IsSum
    <3> QED BY <3>3, <3>4, <3>5
  <2>3. ASSUME NEW t \in SUBSET s, t # {} PROVE V(t \ {Pick(t)}) = k[t \ {Pick(t)}]
    BY <2>2, <2>3, PickIsIn
  <2>4. IsSum(k, f, s)
    <3> HIDE DEF V
    <3> QED BY <2>3 DEF IsSum
  <2> QED BY <2>4
<1> QED BY <1>1

\* The sum of a set is that of the chosen element and the others.
LEMMA SumUnfolds ==
  ASSUME NEW S, IsFiniteSet(S), NEW f
  PROVE  SumFunctionOnSet(f, S) =
           IF S = {} THEN 0 ELSE f[Pick(S)] + SumFunctionOnSet(f, S \ {Pick(S)})
<1>1. PICK g : IsSum(g, f, S)
  BY SumExists
<1>2. SumFunctionOnSet(f, S) = g[S] /\ SumFunctionOnSet(f, S \ {Pick(S)}) = g[S \ {Pick(S)}]
  BY <1>1, SumIsAny
<1> QED BY <1>1, <1>2 DEF IsSum

LEMMA SumIsNat ==
  ASSUME NEW S, IsFiniteSet(S), NEW f, \A x \in S : f[x] \in Nat
  PROVE  SumFunctionOnSet(f, S) \in Nat
<1> DEFINE C == {s \in SUBSET S : SumFunctionOnSet(f, s) \notin Nat}
<1>1. ASSUME C # {} PROVE FALSE
  <2>1. PICK s \in C : \A t \in C : t \subseteq s => t = s
    <3>1. C \subseteq SUBSET S
      OBVIOUS
    <3> HIDE DEF C
    <3> QED BY <1>1, <3>1, SmallestSubset
  <2>2. IsFiniteSet(s)
    BY FS_Subset
  <2>3. s # {} => SumFunctionOnSet(f, s \ {Pick(s)}) \in Nat /\ f[Pick(s)] \in Nat
    BY <2>1, PickIsIn
  <2>4. SumFunctionOnSet(f, s) =
          IF s = {} THEN 0 ELSE f[Pick(s)] + SumFunctionOnSet(f, s \ {Pick(s)})
    BY <2>2, SumUnfolds
  <2> QED BY <2>1, <2>3, <2>4
<1> QED BY <1>1

\* The order does not matter: any element can be the one taken out.
LEMMA SumTakesOut ==
  ASSUME NEW S, IsFiniteSet(S), NEW f, \A x \in S : f[x] \in Nat
  PROVE  \A x \in S : SumFunctionOnSet(f, S) = f[x] + SumFunctionOnSet(f, S \ {x})
<1> DEFINE V(t) == SumFunctionOnSet(f, t)
           C == {s \in SUBSET S : \E x \in s : V(s) # f[x] + V(s \ {x})}
<1>1. ASSUME C # {} PROVE FALSE
  <2>1. PICK s \in C : \A t \in C : t \subseteq s => t = s
    <3>1. C \subseteq SUBSET S
      OBVIOUS
    <3> HIDE DEF C
    <3> QED BY <1>1, <3>1, SmallestSubset
  <2>2. PICK x \in s : V(s) # f[x] + V(s \ {x})
    BY <2>1
  <2> DEFINE y == Pick(s)
  <2>3. y \in s /\ IsFiniteSet(s)
    BY PickIsIn, FS_Subset
  <2>4. V(s) = f[y] + V(s \ {y})
    BY <2>3, SumUnfolds
  <2>5. y # x
    BY <2>2, <2>4
  <2>6. V(s \ {y}) = f[x] + V((s \ {y}) \ {x}) /\ V(s \ {x}) = f[y] + V((s \ {x}) \ {y})
    <3>1. /\ s \ {y} \in SUBSET S /\ s \ {y} # s /\ x \in s \ {y}
          /\ s \ {x} \in SUBSET S /\ s \ {x} # s /\ y \in s \ {x}
      BY <2>2, <2>3, <2>5
    <3> HIDE DEF V, y
    <3>2. s \ {y} \notin C /\ s \ {x} \notin C
      <4> HIDE DEF C
      <4> QED BY <2>1, <3>1
    <3> QED BY <3>1, <3>2
  <2>7. V((s \ {y}) \ {x}) \in Nat
    <3>1. (s \ {y}) \ {x} \in SUBSET S
      OBVIOUS
    <3> QED BY <3>1, FS_Subset, SumIsNat
  <2>8. (s \ {x}) \ {y} = (s \ {y}) \ {x}
    OBVIOUS
  <2>9. f[x] \in Nat /\ f[y] \in Nat
    BY <2>3
  <2>10. V(s) = f[y] + (f[x] + V((s \ {y}) \ {x}))
    BY <2>4, <2>6
  <2>11. f[x] + V(s \ {x}) = f[x] + (f[y] + V((s \ {y}) \ {x}))
    BY <2>6, <2>8
  <2> HIDE DEF V, y, C
  <2> QED BY <2>10, <2>11, <2>2, <2>4, <2>6, <2>7, <2>8, <2>9
<1> QED BY <1>1

\* Greater terms, greater sum.
LEMMA SumGrows ==
  ASSUME NEW S, IsFiniteSet(S), NEW f, NEW g,
         \A x \in S : f[x] \in Nat /\ g[x] \in Nat /\ f[x] <= g[x]
  PROVE  SumFunctionOnSet(f, S) <= SumFunctionOnSet(g, S)
<1> DEFINE V(h, t) == SumFunctionOnSet(h, t)
           C == {s \in SUBSET S : ~ (V(f, s) <= V(g, s))}
<1>1. ASSUME C # {} PROVE FALSE
  <2>1. PICK s \in C : \A t \in C : t \subseteq s => t = s
    <3>1. C \subseteq SUBSET S
      OBVIOUS
    <3> HIDE DEF C
    <3> QED BY <1>1, <3>1, SmallestSubset
  <2> DEFINE y == Pick(s)
  <2>2. IsFiniteSet(s) /\ IsFiniteSet(s \ {y})
    BY FS_Subset
  <2>3. CASE s = {}
    <3>1. V(f, s) = 0 /\ V(g, s) = 0
      BY <2>2, <2>3, SumUnfolds
    <3> QED BY <2>1, <3>1
  <2>4. CASE s # {}
    <3>1. y \in s /\ y \in S
      BY <2>4, PickIsIn
    <3>2. V(f, s) = f[y] + V(f, s \ {y}) /\ V(g, s) = g[y] + V(g, s \ {y})
      BY <2>2, <2>4, SumUnfolds
    <3>3. V(f, s \ {y}) <= V(g, s \ {y})
      <4> HIDE DEF V, y
      <4> QED BY <2>1, <3>1
    <3>4. V(f, s \ {y}) \in Nat /\ V(g, s \ {y}) \in Nat
      BY <2>2, SumIsNat
    <3> HIDE DEF V, y
    <3> QED BY <2>1, <3>1, <3>2, <3>3, <3>4
  <2> QED BY <2>3, <2>4
<1> QED BY <1>1

\* A part of the reservations, a smaller sum.
LEMMA SumOfPart ==
  ASSUME NEW S, IsFiniteSet(S), NEW f, \A x \in S : f[x] \in Nat, NEW T \in SUBSET S
  PROVE  SumFunctionOnSet(f, T) <= SumFunctionOnSet(f, S)
<1> DEFINE V(t) == SumFunctionOnSet(f, t)
           C == {s \in SUBSET S : T \subseteq s /\ ~ (V(T) <= V(s))}
<1>1. ASSUME C # {} PROVE FALSE
  <2>1. PICK s \in C : \A t \in C : t \subseteq s => t = s
    <3>1. C \subseteq SUBSET S
      OBVIOUS
    <3> HIDE DEF C
    <3> QED BY <1>1, <3>1, SmallestSubset
  <2>2. T # s
    <3>1. V(T) \in Nat
      BY FS_Subset, SumIsNat
    <3> HIDE DEF V
    <3> QED BY <2>1, <3>1
  <2>3. PICK x \in s : x \notin T
    BY <2>1, <2>2
  <2>4. V(T) <= V(s \ {x})
    <3>1. s \ {x} \in SUBSET S /\ T \subseteq s \ {x} /\ s \ {x} \subseteq s /\ s \ {x} # s
      BY <2>1, <2>3
    <3> HIDE DEF V
    <3> QED BY <2>1, <3>1
  <2>5. V(s) = f[x] + V(s \ {x})
    <3>1. IsFiniteSet(s) /\ \A y \in s : f[y] \in Nat
      BY FS_Subset
    <3> QED BY <3>1, SumTakesOut
  <2>6. V(T) \in Nat /\ V(s \ {x}) \in Nat /\ f[x] \in Nat
    BY FS_Subset, SumIsNat
  <2> HIDE DEF V
  <2> QED BY <2>1, <2>4, <2>5, <2>6
<1> QED BY <1>1

-----------------------------------------------------------------------------
(* The byte limit *)

\* A reservation holds what was requested or more: an observed size only raises it.
RequestedIsHeld == \A op \in Ops : requested[op] <= bytes[op]

\* What a step other than an admission may do to the requests that count.
NothingAdmitted ==
  \A op \in Ops :
    /\ state[op] \in Spent => state'[op] \in Spent
    /\ requested'[op] = requested[op] /\ bytes[op] <= bytes'[op]

LEMMA NothingAdmittedKeepsRequests ==
  ASSUME LedgerTypeOK, LedgerTypeOK', RequestedIsHeld, RequestedWithinCapacity, NothingAdmitted
  PROVE  RequestedIsHeld' /\ RequestedWithinCapacity'
<1>1. RequestedIsHeld'
  BY DEF RequestedIsHeld, NothingAdmitted, LedgerTypeOK
<1>2. IsFiniteSet(Live) /\ IsFiniteSet(Live') /\ Live' \in SUBSET Live
  <2>1. Live' \subseteq Live /\ Live \subseteq Ops
    BY DEF NothingAdmitted, Live
  <2> QED BY <2>1, OpsAreFinite, FS_Subset
<1>3. \A op \in Live : requested[op] \in Nat /\ requested'[op] \in Nat /\ requested'[op] <= requested[op]
  BY DEF NothingAdmitted, LedgerTypeOK, Live
<1>4. SumFunctionOnSet(requested', Live') <= SumFunctionOnSet(requested, Live')
  <2>1. \A op \in Live' : requested[op] \in Nat /\ requested'[op] \in Nat /\ requested'[op] <= requested[op]
    BY <1>2, <1>3
  <2> QED BY <1>2, <2>1, SumGrows
<1>5. SumFunctionOnSet(requested, Live') <= SumFunctionOnSet(requested, Live)
  BY <1>2, <1>3, SumOfPart
<1>6. /\ SumFunctionOnSet(requested', Live') \in Nat /\ SumFunctionOnSet(requested, Live') \in Nat
      /\ SumFunctionOnSet(requested, Live) \in Nat
  BY <1>2, <1>3, SumIsNat
<1>7. RequestedWithinCapacity'
  BY <1>4, <1>5, <1>6, PolicyIsPositive DEF RequestedWithinCapacity
<1> QED BY <1>1, <1>7

\* An admission asks whether what is held, not only what was requested, leaves room.
LEMMA ReserveKeepsRequests ==
  ASSUME LedgerTypeOK, LedgerTypeOK', RequestedIsHeld, NEW op \in Ops, NEW h,
         NEW size \in Sizes, NEW to, Reserve(op, h, size, to)
  PROVE  RequestedIsHeld' /\ RequestedWithinCapacity'
<1> USE SizesArePositive
<1>1. RequestedIsHeld'
  BY DEF RequestedIsHeld, Reserve, Moves, LedgerTypeOK
<1>2. /\ op \notin Live /\ Live' \subseteq Live \cup {op} /\ Live \subseteq Ops
      /\ \A o \in Live : requested'[o] \in Nat /\ bytes[o] \in Nat /\ requested'[o] <= bytes[o]
      /\ requested'[op] = size /\ size \in Nat
  BY DEF RequestedIsHeld, Reserve, Moves, LedgerTypeOK, Live, Spent
<1> DEFINE S == Live \cup {op}
<1>3. IsFiniteSet(Live) /\ IsFiniteSet(S) /\ \A o \in S : requested'[o] \in Nat
  BY <1>2, OpsAreFinite, FS_Subset, FS_AddElement
<1>4. SumFunctionOnSet(requested', S) = size + SumFunctionOnSet(requested', Live)
  <2>1. S \ {op} = Live /\ op \in S
    BY <1>2
  <2> HIDE DEF S
  <2> QED BY <1>2, <1>3, <2>1, SumTakesOut
<1>5. SumFunctionOnSet(requested', Live) <= ReservedBytes
  BY <1>2, <1>3, SumGrows DEF ReservedBytes
<1>6. ReservedBytes + size <= Capacity
  BY DEF Reserve, RoomFor
<1>7. SumFunctionOnSet(requested', Live') <= SumFunctionOnSet(requested', S)
  BY <1>2, <1>3, SumOfPart
<1>8. /\ SumFunctionOnSet(requested', Live') \in Nat /\ SumFunctionOnSet(requested', S) \in Nat
      /\ SumFunctionOnSet(requested', Live) \in Nat /\ ReservedBytes \in Nat
  <2>1. IsFiniteSet(Live') /\ \A o \in Live' : requested'[o] \in Nat
    BY <1>2, <1>3, FS_Subset
  <2> QED BY <1>2, <1>3, <2>1, SumIsNat DEF ReservedBytes
<1>9. RequestedWithinCapacity'
  <2> HIDE DEF S
  <2> QED BY <1>2, <1>4, <1>5, <1>6, <1>7, <1>8, PolicyIsPositive DEF RequestedWithinCapacity
<1> QED BY <1>1, <1>9

LEMMA InitRequests == LedgerInit => RequestedIsHeld /\ RequestedWithinCapacity
<1> SUFFICES ASSUME LedgerInit PROVE RequestedIsHeld /\ RequestedWithinCapacity
  OBVIOUS
<1>1. RequestedIsHeld
  BY DEF LedgerInit, RequestedIsHeld
<1>2. Live = {}
  BY DEF LedgerInit, Live, Spent
<1>3. SumFunctionOnSet(requested, {}) = 0
  BY FS_EmptySet, SumUnfolds
<1> QED BY <1>1, <1>2, <1>3, PolicyIsPositive DEF RequestedWithinCapacity

LEMMA NextRequests ==
  ASSUME LedgerTypeOK, LedgerTypeOK', RequestedIsHeld, RequestedWithinCapacity, [LedgerNext]_ledger
  PROVE  RequestedIsHeld' /\ RequestedWithinCapacity'
<1>1. ASSUME NEW op \in Ops, Admission(op) PROVE RequestedIsHeld' /\ RequestedWithinCapacity'
  <2>1. ASSUME NEW h, NEW size \in Sizes, NEW to, Reserve(op, h, size, to)
        PROVE  RequestedIsHeld' /\ RequestedWithinCapacity'
    BY <2>1, ReserveKeepsRequests
  <2> QED BY <1>1, <2>1 DEF Admission, PreAdmit, AdoptExternal, AdoptPostPnr
<1>2. ASSUME ~ \E op \in Ops : Admission(op) PROVE NothingAdmitted
  <2> USE SizesArePositive DEF NothingAdmitted, LedgerTypeOK, Spent
  <2>1. CASE UNCHANGED ledger
    BY <2>1 DEF ledger
  <2>2. ASSUME NEW op \in Ops, Acquisition(op) PROVE NothingAdmitted
    <3>1. ASSUME NEW size \in Sizes, MarkTagged(op, size) PROVE NothingAdmitted
      BY <3>1 DEF MarkTagged, Moves
    <3> QED BY <2>2, <3>1 DEF Acquisition, BindObservedGrab, RequestTag, RequestResume, MarkActive, Moves
  <2>3. ASSUME NEW op \in Ops, Quiescence(op) PROVE NothingAdmitted
    BY <2>3 DEF Quiescence, RequestPause, MarkPaused, Moves
  <2>4. ASSUME NEW op \in Ops, Activation(op) PROVE NothingAdmitted
    BY <2>4 DEF Activation, RequestHistoricalActivation, MarkHistoricalManaged, Moves
  <2>5. ASSUME NEW op \in Ops, Custody(op) PROVE NothingAdmitted
    BY <2>5 DEF Custody, Complete, RequestFreeze, MarkFrozen, AcceptCustody, Moves
  <2>6. ASSUME NEW op \in Ops, Health(op) PROVE NothingAdmitted
    BY <2>6 DEF Health, EnsureVideoCandidate, InvalidateVideoCandidate,
                ReleaseInvalidatedVideoCandidate, Moves
  <2>7. CASE BeginQuiescence \/ EndQuiescence
    BY <2>7 DEF BeginQuiescence, EndQuiescence
  <2>8. ASSUME NEW w \in 0..MaxHistory, RecordWatermark(w) PROVE NothingAdmitted
    BY <2>8 DEF RecordWatermark
  <2> QED BY <1>2, <2>1, <2>2, <2>3, <2>4, <2>5, <2>6, <2>7, <2>8 DEF LedgerNext
<1> QED BY <1>1, <1>2, NothingAdmittedKeepsRequests

\* FencePolicy.capacity_bytes bounds the requested bytes of the reservations that
\* count in every reachable ledger, although observed sizes may have taken the
\* held bytes beyond it: no admission path overbooks.
THEOREM RequestsFitCapacity == LedgerSpec => []RequestedWithinCapacity
<1> DEFINE Inv == LedgerTypeOK /\ RequestedIsHeld /\ RequestedWithinCapacity
<1>1. LedgerInit => Inv
  BY InitTypeOK, InitRequests
<1>2. Inv /\ [LedgerNext]_ledger => Inv'
  BY NextTypeOK, NextRequests
<1> QED BY <1>1, <1>2, PTL DEF LedgerSpec

-----------------------------------------------------------------------------
(* Snapshots can be loaded *)

AdoptedOps == PostPnr \cup Historical

\* Which torrent a reservation can name.
HashesFit ==
  \A op \in Ops :
    /\ op \in AdoptedOps => hash[op] \in PriorHashes \cup {NoHash}
    /\ op \notin AdoptedOps => hash[op] \in LaterHashes \cup {NoHash}
    /\ state[op] = "none" => hash[op] = NoHash



\* The states of an adoption, and what they say of its activation.
AdoptionStates ==
  \A op \in Ops :
    /\ op \in PostPnr => state[op] \in PostPnrStates \cup {"none"}
    /\ op \in Historical => state[op] \in HistoricalStates \cup {"none"}
    /\ activation[op] # "none" => op \in Historical
    /\ (activation[op] = "intent") <=> (state[op] = "activation_intent_recorded")
    /\ op \in Historical => ((activation[op] = "managed") <=> (state[op] \in ManagedStates))
    /\ state[op] = "qbittorrent_managed" => op \in Historical

\* A candidate exists where health is configured, in the two states that a
\* candidate can have while its record is kept, or in the one where a pause
\* catches it.
CandidatesFit ==
  /\ quiescing => MayQuiesce
  /\ \A op \in Ops : candidate[op] # "none" =>
       HealthPolicy /\ op \notin AdoptedOps
         /\ state[op] \in {"qbittorrent_active", "invalidated", "pause_intent_recorded"}

RecordsValid == \A op \in Ops : RecordValid(op)

SnapshotInv ==
  /\ LedgerTypeOK /\ RecordsValid
  /\ HashesFit /\ AdoptionStates /\ CandidatesFit

LEMMA SnapshotInvImpliesLoads == SnapshotInv => SnapshotLoads
<1> SUFFICES ASSUME SnapshotInv, ~CandidatePaused PROVE RecordsLoad
  BY DEF SnapshotLoads
<1> USE DEF SnapshotInv
<1>1. Clonable
  BY DEF Clonable, RecordsValid, CandidatesFit, CandidateStates, CandidatePaused
<1>2. \A op \in PostPnr : state[op] # "none" => state[op] \in PostPnrStates
  BY DEF AdoptionStates, Ops
<1>3. \A op \in Historical : state[op] # "none" => state[op] \in HistoricalStates
  BY DEF AdoptionStates, Ops
<1>4. \A op \in Ops :
        /\ activation[op] = "intent" => state[op] = "activation_intent_recorded"
        /\ activation[op] = "managed" => state[op] \in ManagedStates
  BY DEF AdoptionStates
<1> QED BY <1>1, <1>2, <1>3, <1>4 DEF RecordsLoad

LEMMA InitSnapshotInv == LedgerInit => SnapshotInv
<1> SUFFICES ASSUME LedgerInit PROVE SnapshotInv
  OBVIOUS
<1>1. LedgerTypeOK
  BY InitTypeOK
<1>2. RecordsValid /\ HashesFit /\ AdoptionStates
  BY DEF LedgerInit, RecordsValid, RecordValid, HashesFit, AdoptionStates,
         Ops, ManagedStates, AdoptedOps
<1>3. CandidatesFit
  BY DEF LedgerInit, CandidatesFit
<1> QED BY <1>1, <1>2, <1>3 DEF SnapshotInv

\* One lemma per way of changing the ledger.  A new reservation:
LEMMA ReserveKeepsSnapshotInv ==
  ASSUME SnapshotInv, LedgerTypeOK', NEW op \in Ops, NEW size \in Sizes, NEW h, NEW to,
         Reserve(op, h, size, to),
         \/ op \in Requested /\ h = NoHash /\ to = "pre_admitted"
         \/ op \in External /\ h \in LaterHashes /\ to = "pre_admitted"
         \/ op \in AdoptedOps /\ h \in PriorHashes /\ to = "grab_bound"
  PROVE  SnapshotInv'
<1> USE KindsAreDisjoint, HashIsNotNone, SizesArePositive
    DEF SnapshotInv, LedgerTypeOK, Reserve, Moves, Ops, Hashes, AdoptedOps
<1>1. RecordsValid'
  BY DEF RecordsValid, RecordValid
<1>2. HashesFit'
  BY DEF HashesFit
<1>3. AdoptionStates'
  BY DEF AdoptionStates, PostPnrStates, HistoricalStates, ManagedStates
<1>4. CandidatesFit'
  BY DEF CandidatesFit
<1> QED BY <1>1, <1>2, <1>3, <1>4

\* The grab of a pre-admitted reservation is bound.
LEMMA BindKeepsSnapshotInv ==
  ASSUME SnapshotInv, LedgerTypeOK', NEW op \in Ops, NEW h \in Hashes, BindObservedGrab(op, h)
  PROVE  SnapshotInv'
<1> USE KindsAreDisjoint, HashIsNotNone
    DEF SnapshotInv, LedgerTypeOK, BindObservedGrab, Moves, Ops, Hashes, AdoptedOps
<1>0. op \notin AdoptedOps
  BY DEF AdoptionStates, PostPnrStates, HistoricalStates, ManagedStates
<1>1. RecordsValid'
  BY DEF RecordsValid, RecordValid
<1>2. HashesFit'
  BY <1>0 DEF HashesFit
<1>3. AdoptionStates'
  BY <1>0 DEF AdoptionStates, PostPnrStates, HistoricalStates, ManagedStates
<1>4. CandidatesFit'
  BY DEF CandidatesFit
<1> QED BY <1>1, <1>2, <1>3, <1>4

\* Any other transition of one bound reservation, to a state that its kind and
\* its activation allow and that its candidate survives.
MovesBound(op, to) ==
  /\ state[op] \notin {"none", "pre_admitted"}
  /\ state' = [state EXCEPT ![op] = to]
  /\ to \in ReservationState \ {"pre_admitted"}
  /\ UNCHANGED <<hash, requested, activation, quiescing, watermark>>
  /\ \A o \in Ops : bytes'[o] >= bytes[o]
  /\ \A o \in Ops : candidate'[o] \in {candidate[o], "none"}
  /\ candidate'[op] # "none" => to \in {"qbittorrent_active", "invalidated", "pause_intent_recorded"}
  /\ op \in PostPnr => to \in PostPnrStates
  /\ op \in Historical => to \in HistoricalStates
  /\ op \in Historical => ((to \in ManagedStates) <=> (activation[op] = "managed"))
  /\ op \notin Historical => to # "qbittorrent_managed"
  /\ (to = "activation_intent_recorded") <=> (activation[op] = "intent")

LEMMA MoveKeepsSnapshotInv ==
  ASSUME SnapshotInv, LedgerTypeOK', NEW op \in Ops, NEW to, MovesBound(op, to)
  PROVE  SnapshotInv'
<1> USE KindsAreDisjoint DEF SnapshotInv, LedgerTypeOK, MovesBound, Ops, AdoptedOps
<1>1. RecordsValid'
  <2>1. ASSUME NEW o \in Ops, state'[o] # "none" PROVE RecordValid(o)'
    <3>1. state[o] # "none" /\ requested'[o] = requested[o] /\ hash'[o] = hash[o]
      BY <2>1
    <3>2. bytes'[o] >= requested'[o] /\ requested'[o] > 0
      BY <2>1, <3>1 DEF RecordsValid, RecordValid
    <3>3. (hash'[o] = NoHash) <=> (state'[o] = "pre_admitted" /\ o \notin External)
      BY <2>1, <3>1 DEF RecordsValid, RecordValid
    <3> QED BY <3>2, <3>3 DEF RecordValid
  <2> QED BY <2>1 DEF RecordsValid, RecordValid
<1>2. HashesFit'
  BY DEF HashesFit, ReservationState
<1>3. AdoptionStates'
  BY DEF AdoptionStates
<1>4. CandidatesFit'
  BY DEF CandidatesFit
<1> QED BY <1>1, <1>2, <1>3, <1>4

\* Steps that leave every reservation as it is; candidates may appear or be
\* invalidated.
LEMMA RestKeepsSnapshotInv ==
  ASSUME SnapshotInv, LedgerTypeOK',
         UNCHANGED <<state, hash, bytes, requested, activation>>,
         quiescing' => MayQuiesce,
         \A op \in Ops : candidate'[op] # "none" =>
           HealthPolicy /\ op \notin AdoptedOps
             /\ state[op] \in {"qbittorrent_active", "invalidated", "pause_intent_recorded"}
  PROVE  SnapshotInv'
<1> USE DEF SnapshotInv
<1>1. (RecordsValid /\ HashesFit /\ AdoptionStates)'
  BY DEF RecordsValid, RecordValid, HashesFit, AdoptionStates
<1>2. CandidatesFit'
  BY DEF CandidatesFit
<1> QED BY <1>1, <1>2

\* The activation of a historical adoption: intent, then managed.
LEMMA ActivationKeepsSnapshotInv ==
  ASSUME SnapshotInv, LedgerTypeOK', NEW op \in Ops, Activation(op)
  PROVE  SnapshotInv'
<1> USE KindsAreDisjoint
    DEF SnapshotInv, LedgerTypeOK, Activation, RequestHistoricalActivation, MarkHistoricalManaged,
        Moves, Ops, AdoptedOps
<1>0. op \in Historical
  BY DEF AdoptionStates
<1>1. RecordsValid'
  BY DEF RecordsValid, RecordValid
<1>2. HashesFit'
  BY DEF HashesFit
<1>3. AdoptionStates'
  BY <1>0 DEF AdoptionStates, PostPnrStates, HistoricalStates, ManagedStates
<1>4. CandidatesFit'
  BY <1>0 DEF CandidatesFit
<1> QED BY <1>1, <1>2, <1>3, <1>4

LEMMA AdmissionKeepsSnapshotInv ==
  ASSUME SnapshotInv, LedgerTypeOK', NEW op \in Ops, Admission(op)
  PROVE  SnapshotInv'
<1>1. ASSUME NEW size \in Sizes, PreAdmit(op, size) PROVE SnapshotInv'
  BY <1>1, ReserveKeepsSnapshotInv DEF PreAdmit
<1>2. ASSUME NEW size \in Sizes, NEW h \in Hashes, AdoptExternal(op, h, size) PROVE SnapshotInv'
  BY <1>2, ReserveKeepsSnapshotInv DEF AdoptExternal
<1>3. ASSUME NEW size \in Sizes, NEW h \in Hashes, AdoptPostPnr(op, h, size) PROVE SnapshotInv'
  BY <1>3, ReserveKeepsSnapshotInv DEF AdoptPostPnr, AdoptedOps
<1> QED BY <1>1, <1>2, <1>3 DEF Admission

LEMMA AcquisitionKeepsSnapshotInv ==
  ASSUME SnapshotInv, LedgerTypeOK', NEW op \in Ops, Acquisition(op)
  PROVE  SnapshotInv'
<1>1. CASE \E h \in Hashes : BindObservedGrab(op, h)
  BY <1>1, BindKeepsSnapshotInv
<1>2. CASE ~ \E h \in Hashes : BindObservedGrab(op, h)
  <2>1. \E to : MovesBound(op, to)
    <3> USE KindsAreDisjoint
        DEF SnapshotInv, LedgerTypeOK, Moves, MovesBound, AdoptionStates, CandidatesFit,
            PostPnrStates, HistoricalStates, ManagedStates, ReservationState, Ops, AdoptedOps
    <3>1. ASSUME RequestTag(op) PROVE MovesBound(op, "tag_intent_recorded")
      BY <3>1 DEF RequestTag
    <3>2. ASSUME NEW size \in Sizes, MarkTagged(op, size)
          PROVE  MovesBound(op, "qbittorrent_stopped")
      BY <3>2, SizesArePositive DEF MarkTagged
    <3>3. ASSUME RequestResume(op) PROVE MovesBound(op, "resume_intent_recorded")
      BY <3>3 DEF RequestResume, CanRequestResume
    <3>4. ASSUME MarkActive(op), activation[op] = "managed"
          PROVE  MovesBound(op, "qbittorrent_managed")
      BY <3>4 DEF MarkActive
    <3>5. ASSUME MarkActive(op), activation[op] # "managed"
          PROVE  MovesBound(op, "qbittorrent_active")
      BY <3>5 DEF MarkActive
    <3> HIDE DEF MovesBound
    <3> QED BY <1>2, <3>1, <3>2, <3>3, <3>4, <3>5 DEF Acquisition
  <2> QED BY <2>1, MoveKeepsSnapshotInv
<1> QED BY <1>1, <1>2

LEMMA QuiescenceKeepsSnapshotInv ==
  ASSUME SnapshotInv, LedgerTypeOK', NEW op \in Ops, Quiescence(op)
  PROVE  SnapshotInv'
<1>1. \E to : MovesBound(op, to)
  <2> USE KindsAreDisjoint
      DEF SnapshotInv, LedgerTypeOK, Moves, MovesBound, AdoptionStates, CandidatesFit,
          PostPnrStates, HistoricalStates, ManagedStates, ReservationState, Ops, AdoptedOps
  <2>1. ASSUME RequestPause(op) PROVE MovesBound(op, "pause_intent_recorded")
    BY <2>1 DEF RequestPause, CanRequestPause
  <2>2. ASSUME MarkPaused(op) PROVE MovesBound(op, "qbittorrent_paused")
    <3>1. candidate[op] = "none"
      BY <2>2 DEF MarkPaused, Clonable, CandidateStates
    <3> QED BY <2>2, <3>1 DEF MarkPaused
  <2> HIDE DEF MovesBound
  <2> QED BY <2>1, <2>2 DEF Quiescence
<1> QED BY <1>1, MoveKeepsSnapshotInv

LEMMA CustodyKeepsSnapshotInv ==
  ASSUME SnapshotInv, LedgerTypeOK', NEW op \in Ops, Custody(op)
  PROVE  SnapshotInv'
<1>1. \E to : MovesBound(op, to)
  <2> USE KindsAreDisjoint
      DEF SnapshotInv, LedgerTypeOK, Moves, MovesBound, AdoptionStates, CandidatesFit,
          PostPnrStates, HistoricalStates, ManagedStates, ReservationState, Ops, AdoptedOps
  <2>1. ASSUME Complete(op) PROVE MovesBound(op, "terminal")
    BY <2>1 DEF Complete
  <2>2. ASSUME RequestFreeze(op) PROVE MovesBound(op, "freeze_intent_recorded")
    BY <2>2 DEF RequestFreeze
  <2>3. ASSUME MarkFrozen(op) PROVE MovesBound(op, "qbittorrent_frozen")
    BY <2>3 DEF MarkFrozen
  <2>4. ASSUME AcceptCustody(op) PROVE MovesBound(op, "released")
    BY <2>4 DEF AcceptCustody
  <2> HIDE DEF MovesBound
  <2> QED BY <2>1, <2>2, <2>3, <2>4 DEF Custody
<1> QED BY <1>1, MoveKeepsSnapshotInv

LEMMA HealthKeepsSnapshotInv ==
  ASSUME SnapshotInv, LedgerTypeOK', NEW op \in Ops, Health(op)
  PROVE  SnapshotInv'
<1>1. CASE EnsureVideoCandidate(op) \/ InvalidateVideoCandidate(op)
  <2>1. /\ UNCHANGED <<state, hash, bytes, requested, activation>>
        /\ quiescing' => MayQuiesce
        /\ \A o \in Ops : candidate'[o] # "none" =>
             HealthPolicy /\ o \notin AdoptedOps
               /\ state[o] \in {"qbittorrent_active", "invalidated", "pause_intent_recorded"}
    BY <1>1 DEF EnsureVideoCandidate, InvalidateVideoCandidate, SnapshotInv, CandidatesFit,
                LedgerTypeOK, AdoptedOps
  <2> QED BY <2>1, RestKeepsSnapshotInv
<1>2. CASE ReleaseInvalidatedVideoCandidate(op)
  <2>1. MovesBound(op, "invalidated")
    BY <1>2, KindsAreDisjoint
    DEF ReleaseInvalidatedVideoCandidate, SnapshotInv, LedgerTypeOK, Moves, MovesBound,
        AdoptionStates, CandidatesFit, PostPnrStates, HistoricalStates, ManagedStates,
        ReservationState, Ops, AdoptedOps
  <2> QED BY <2>1, MoveKeepsSnapshotInv
<1> QED BY <1>1, <1>2 DEF Health

LEMMA NextSnapshotInv ==
  ASSUME SnapshotInv, LedgerTypeOK', [LedgerNext]_ledger
  PROVE  SnapshotInv'
<1>1. ASSUME NEW op \in Ops, Admission(op) \/ Acquisition(op) \/ Activation(op) PROVE SnapshotInv'
  BY <1>1, AdmissionKeepsSnapshotInv, AcquisitionKeepsSnapshotInv, ActivationKeepsSnapshotInv
<1>2. ASSUME NEW op \in Ops, Quiescence(op) \/ Custody(op) \/ Health(op) PROVE SnapshotInv'
  BY <1>2, QuiescenceKeepsSnapshotInv, CustodyKeepsSnapshotInv, HealthKeepsSnapshotInv
<1>3. ASSUME \/ BeginQuiescence \/ EndQuiescence \/ UNCHANGED ledger
             \/ \E w \in 0..MaxHistory : RecordWatermark(w)
      PROVE  SnapshotInv'
  <2>1. /\ UNCHANGED <<state, hash, bytes, requested, activation, candidate>>
        /\ quiescing' => MayQuiesce
    BY <1>3 DEF BeginQuiescence, EndQuiescence, RecordWatermark, ledger, SnapshotInv, CandidatesFit
  <2> QED BY <2>1, RestKeepsSnapshotInv DEF SnapshotInv, CandidatesFit
<1> QED BY <1>1, <1>2, <1>3 DEF LedgerNext

\* FenceStore.load accepts every record of every snapshot the ledger reaches, and
\* clone never raises, unless a reservation was paused while its candidate was
\* probed.  Whether two records name the torrent of a historical adoption is not
\* part of it: no transition keeps a second grab of that torrent away.
THEOREM SnapshotsLoad == LedgerSpec => []SnapshotLoads
<1> DEFINE Guarded == LedgerTypeOK /\ SnapshotInv
<1>1. LedgerInit => Guarded
  BY InitTypeOK, InitSnapshotInv
<1>2. Guarded /\ [LedgerNext]_ledger => Guarded'
  BY NextTypeOK, NextSnapshotInv
<1>3. Guarded => SnapshotLoads
  BY SnapshotInvImpliesLoads
<1> QED BY <1>1, <1>2, <1>3, PTL DEF LedgerSpec
=============================================================================
