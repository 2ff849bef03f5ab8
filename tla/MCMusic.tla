------------------------------ MODULE MCMusic -------------------------------
(* Instances of the music scheduler and the Fence's music candidates for TLC. *)
EXTENDS Music

OneAlbum == {1}
TwoReleases == {1, 2}
OfOneAlbum == [r \in Releases |-> 1]
\* The same torrent twice, once without its hash.
Torrents == [r \in Releases |-> IF r < 3 THEN "first" ELSE "second"]
AllButFirst == Releases \ {1}
=============================================================================
