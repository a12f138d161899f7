--------------------------- MODULE StreamDelivery ---------------------------
(***************************************************************************)
(* What a transfer promises to the player: the segments of the song it has *)
(* been loaded with arrive in order, each once, and the end of the stream  *)
(* is announced with the last one and not before (application.h and        *)
(* NETWORK.md on segment_has_arrived).                                     *)
(***************************************************************************)
EXTENDS Integers, Sequences

CONSTANTS Files, NoFile,
          SegmentCount(_)   \* the number of segments of a file

VARIABLES song,  \* the song the player is loaded with
          out,   \* the segments it was given
          eos    \* how often the end of the stream was announced

streamVars == << song, out, eos >>

Init == song = NoFile /\ out = << >> /\ eos = 0

Load == /\ song' \in Files
        /\ out' = << >>
        /\ eos' = 0

Deliver ==
    /\ song # NoFile /\ eos = 0
    /\ out' = Append(out, [id |-> Len(out), file |-> song])
    /\ eos' = IF Len(out') = SegmentCount(song) THEN 1 ELSE 0
    /\ UNCHANGED song

Next == Load \/ Deliver

Spec == Init /\ [][Next]_streamVars
=============================================================================
