------------------------------- MODULE MCPeers -------------------------------
(* Instances of Peers for TLC. *)
EXTENDS Peers

CONSTANTS x, y, song1, song2, song3

\* One song is in every database, one in each of two, one is known here.
Libraries == [h \in Hosts |-> IF h = x THEN {song1, song3} ELSE {song1, song2, song3}]
Known == {song3}
=============================================================================
