----------------------------- MODULE MCUpgrades -----------------------------
(* Instances of the upgrade scheduler for TLC. *)
EXTENDS Upgrades

TwoEntities == {1, 2}
OneEntity == {1}
TwoRequests == {1, 2}
\* The second one was released a unit before the first.
Apart == <<1, 2>>
Alone == <<1>>
Movies == <<"movie 1", "movie 2">>
OneMovie == <<"movie 1">>
=============================================================================
