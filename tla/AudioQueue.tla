----------------------------- MODULE AudioQueue -----------------------------
(***************************************************************************)
(* What a BufferedAudio promises (bufferedaudio.h): the buffers it is      *)
(* given are heard in their order, each once, and the end of the stream    *)
(* comes when it was announced and all of them have been heard, or what    *)
(* was left of them was dropped because the song was abandoned.            *)
(***************************************************************************)
EXTENDS Integers, Sequences

VARIABLES given,   \* the buffers that were given
          closed,  \* the end was announced
          dropped, \* the song was abandoned
          heard,   \* the buffers that were heard
          over     \* the end was heard

audioVars == << given, closed, dropped, heard, over >>

Init == given = << >> /\ closed = FALSE /\ dropped = FALSE /\ heard = << >> /\ over = FALSE

Give ==
    /\ ~closed
    /\ given' = Append(given, Len(given) + 1)
    /\ UNCHANGED << closed, dropped, heard, over >>
Close == closed' = TRUE /\ UNCHANGED << given, dropped, heard, over >>
Drop == dropped' = TRUE /\ UNCHANGED << given, closed, heard, over >>
Hear ==
    /\ Len(heard) < Len(given)
    /\ heard' = Append(heard, given[Len(heard) + 1])
    /\ UNCHANGED << given, closed, dropped, over >>
Finish ==
    /\ closed
    /\ heard = given \/ dropped
    /\ over' = TRUE
    /\ UNCHANGED << given, closed, dropped, heard >>

Next == Give \/ Close \/ Drop \/ Hear \/ Finish
Spec == Init /\ [][Next]_audioVars
=============================================================================
