-------------------------------- MODULE Slot --------------------------------
(***************************************************************************)
(* What the Publisher promises to everybody who plays one asset:           *)
(* src/docs/current/domains/publisher.md, "copies independent generation   *)
(* files, atomically exposes the current generation ... A failed or        *)
(* ambiguous step keeps the prior canonical generation."  A generation is  *)
(* sealed before it is shown, the one that is shown is never collected and *)
(* never replaced by nothing.  The Publisher module implements this        *)
(* specification under a refinement mapping.                               *)
(***************************************************************************)
CONSTANTS Generations, NoGeneration

VARIABLES
  sealed,   \* generations whose payload is complete in the canonical tree
  visible   \* the generation behind the asset's pointer

slotVars == <<sealed, visible>>

SlotInit == sealed = {} /\ visible = NoGeneration

Seal(g) ==
  /\ g \notin sealed
  /\ sealed' = sealed \union {g}
  /\ UNCHANGED visible

Advance(g) ==
  /\ g \in sealed
  /\ visible' = g
  /\ UNCHANGED sealed

Collect(G) ==
  /\ visible \notin G
  /\ sealed' = sealed \ G
  /\ UNCHANGED visible

SlotNext ==
  \/ \E g \in Generations : Seal(g) \/ Advance(g)
  \/ \E G \in SUBSET sealed : Collect(G)

SlotSpec == SlotInit /\ [][SlotNext]_slotVars

(* What follows from it for a player: there is something to play from the  *)
(* first promotion on, and it is complete.                                 *)
AlwaysPlayable == visible # NoGeneration => visible \in sealed
=============================================================================
