--------------------------- MODULE MCFileTransfer ---------------------------
(* Instances of FileTransfer for TLC. *)
EXTENDS FileTransferInv, TLC

CONSTANTS p1, p2, p3, song1, song2, NumSegments

AllHold      == [p \in Peers |-> Files]
OneOwner     == [f \in Files |-> << p1 >>]
TwoOwners    == [f \in Files |-> << p1, p2 >>]
\* The last segment is shorter than the others.
Sizes        == [f \in Files |-> NumSegments * Chunk - 1]
NoLeavers    == {}
P2Leaves     == {p2}

\* p2's copy of song1 is not there any more, and nobody can read song2; the
\* store of p3 finds nothing.
OddOwners    == (song1 :> << p1, p2, p3 >>) @@ (song2 :> << p2, p1 >>)
Deleted      == {<< p2, song1 >>, << p1, song2 >>}
Locked       == {<< p2, song2 >>}
P3FindsNone  == [p \in Peers |-> IF p = p3 THEN {} ELSE Files]
OddSizes     == (song1 :> NumSegments * Chunk - 1) @@ (song2 :> Chunk)
=============================================================================
