------------------------------ MODULE MCHealth ------------------------------
(* Instances of the health poll for TLC. *)
EXTENDS Health

One == {1}
Two == {1, 2}
=============================================================================
