--------------------------- MODULE MCFenceLedger ---------------------------
(* Instances of the reservation ledger for TLC. *)
EXTENDS FenceLedger, TLC

CONSTANTS r1, e1, p1, m1, h1, h3

NoOps == {}
OneRequest == {r1}
OneExternal == {e1}
OnePostPnr == {p1}
OneHistorical == {m1}
OneHash == {h1}
\* h1 is grabbed before the baseline and again after it.
BothPriorHashes == {h1, h3}
SmallSizes == {1, 2}
=============================================================================
