----------------------------- MODULE SlotProofs -----------------------------
(* What the promise of Slot is worth to a player of the asset.             *)
EXTENDS Slot, TLAPS

(* Whoever keeps the promise of Slot always has something complete to play *)
(* once the first generation was promoted: garbage collection, repairs and *)
(* replays of publish() cannot take it away.                               *)
THEOREM SlotIsPlayable == SlotSpec => []AlwaysPlayable
<1>1. SlotInit => AlwaysPlayable
  BY DEF SlotInit, AlwaysPlayable
<1>2. AlwaysPlayable /\ [SlotNext]_slotVars => AlwaysPlayable'
  <2> SUFFICES ASSUME AlwaysPlayable, [SlotNext]_slotVars PROVE AlwaysPlayable'
    OBVIOUS
  <2>1. ASSUME NEW g \in Generations, Seal(g) PROVE AlwaysPlayable'
    BY <2>1 DEF Seal, AlwaysPlayable
  <2>2. ASSUME NEW g \in Generations, Advance(g) PROVE AlwaysPlayable'
    BY <2>2 DEF Advance, AlwaysPlayable
  <2>3. ASSUME NEW G \in SUBSET sealed, Collect(G) PROVE AlwaysPlayable'
    BY <2>3 DEF Collect, AlwaysPlayable
  <2>4. CASE UNCHANGED slotVars
    BY <2>4 DEF slotVars, AlwaysPlayable
  <2> QED
    BY <2>1, <2>2, <2>3, <2>4 DEF SlotNext
<1> QED
  BY <1>1, <1>2, PTL DEF SlotSpec
=============================================================================
