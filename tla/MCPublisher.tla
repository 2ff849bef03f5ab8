---------------------------- MODULE MCPublisher ----------------------------
(* Instances of the Publisher for TLC. *)
EXTENDS Publisher, TLC

CONSTANTS d1, d2, m1

OneDownload == {d1}
TwoDownloads == {d1, d2}
InOrder == <<d1, d2>>
Ambiguous == <<d1, m1, m1>>
TickAndRetry == {"tick", "retry"}
AllThreads == {"tick", "retry", "imports"}
=============================================================================
