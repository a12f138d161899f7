--------------------------- MODULE MCBufferedAudio ---------------------------
(* Instances of BufferedAudio for TLC. *)
EXTENDS BufferedAudio
=============================================================================
