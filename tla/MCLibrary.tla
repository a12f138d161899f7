------------------------------ MODULE MCLibrary ------------------------------
(* Instances of Library for TLC. *)
EXTENDS Library, TLC

CONSTANTS song1, song2, song3, lrc1, lrc2, lrc3, root, sub, a1, a2, numeral, number, title

PathReal == [n \in {song1, song2, song3} |-> n]
PathFolder == [n \in {song1, song2, song3} |-> IF n = song3 THEN sub ELSE root]
PathLyric == song1 :> lrc1 @@ song2 :> lrc2 @@ song3 :> lrc3
ColumnText == numeral :> number @@ title :> title
StartDisk == song1 :> [audio |-> a1, tags |-> numeral] @@ song3 :> [audio |-> a2, tags |-> title]
StartLrcs == {lrc1}
=============================================================================
