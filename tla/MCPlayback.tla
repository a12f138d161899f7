------------------------------ MODULE MCPlayback ------------------------------
(* Instances of Playback for TLC. *)
EXTENDS Playback

CONSTANTS song, tune, noise, far

\* A song with lyrics, a wav with lyrics, a wav that openWavFile refuses, and
\* a song of a peer.
Kinds     == song :> "bin" @@ tune :> "wav" @@ noise :> "wav" @@ far :> "stream"
Durations == song :> 2500 @@ tune :> 2500 @@ noise :> 1000 @@ far :> 1500

At(ss) == [mm |-> 0, ss |-> ss, xx |-> 0]
Half(ss) == [mm |-> 0, ss |-> ss, xx |-> 50]
\* Two times on a line, an offset, and a length.
Sheet == << [kind |-> "offset", ms |-> 500],
            [kind |-> "words", at |-> << Half(1), At(0) >>],
            [kind |-> "words", at |-> << At(1) >>],
            [kind |-> "length", at |-> Half(2)] >>
\* A line without a length in the header, and one after the end of the song.
Short == << [kind |-> "words", at |-> << At(1), At(3) >>] >>
\* The lyrics of a peer's song have a path, of a file that is not on this disk.
Missing == << >>
Files == song :> Sheet @@ tune :> Short @@ noise :> NoLyrics @@ far :> Missing
=============================================================================
