------------------------------ MODULE MCFence ------------------------------
(* Instances of the Fence for TLC. *)
EXTENDS Fence, TLC

CONSTANTS r1, e1, e2, p1, m1, h1, h2, h3

None == {}
OneRequest == {r1}
OneExternal == {e1}
TwoExternals == {e1, e2}
OnePostPnr == {p1}
OneHistorical == {m1}
OneHash == {h1}
TwoHashes == {h1, h2}
SecondHash == {h2}
SmallSizes == {1, 2}

TargetsFirst == [op \in Requested |-> h1]
AnnouncedSizes == [h \in Hashes |-> 1]
SameSizes == [h \in Hashes |-> 1]
\* The first torrent turns out larger than announced.
LargerSizes == [h \in Hashes |-> IF h = h1 THEN 2 ELSE 1]

TickAndPublisher == {"tick", "pub"}
TickAndReconciler == {"tick", "recon"}
TickAndContract == {"tick", "rpc"}
AllWired == {"tick", "recon", "pub"}
=============================================================================
