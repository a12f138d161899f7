------------------------------- MODULE Playback -------------------------------
(***************************************************************************)
(* One song at a time (application.cpp): the pipeline that plays it, the   *)
(* position on the scale, seeking, the lyric line that is shown, and the   *)
(* tick of 25 ms that brings them together.  Everything runs on the GTK    *)
(* thread; the pipeline goes on by itself.  Three kinds of song: "bin", a  *)
(* file GStreamer plays by itself; "wav", a file whose data openWavFile    *)
(* has read and PlayMusic pushes; "stream", a song of a peer, whose        *)
(* segments FileTransfer brings and whose BufferedAudio plays and pauses   *)
(* its pipeline by itself too.  Times are in milliseconds.                 *)
(***************************************************************************)
EXTENDS Lyrics

CONSTANTS Songs,     \* the songs
          Kind,      \* song -> "bin", "wav" or "stream"
          Readable,  \* the wav files openWavFile accepts
          Duration,  \* song -> its length
          LyricFile, \* song -> its lyric file, or NoLyrics
          NoLyrics,
          Empty,     \* EmptyMusic
          Second, ByteRate, MaxBufSize, \* of wav data
          Back, Ahead, \* 10 and 30 seconds in the code
          Step,      \* how far a pipeline plays between two steps
          Patient,   \* the user waits for a tick, and each tick moves the scale of a wav
          Scrolls    \* the scale is also moved without being pressed

ASSUME PlaybackAssumption ==
    /\ Kind \in [Songs -> {"bin", "wav", "stream"}]
    /\ Readable \subseteq {s \in Songs : Kind[s] = "wav"}
    /\ Duration \in [Songs -> Nat] /\ \A s \in Songs : Duration[s] < Word \div 2
    /\ {Second, ByteRate, MaxBufSize, Step} \subseteq Nat \ {0}
    /\ {Back, Ahead} \subseteq Nat
    /\ {Patient, Scrolls} \subseteq BOOLEAN /\ Empty \notin Songs
    /\ \A s \in Songs : LyricFile[s] = NoLyrics \/ LyricFile[s] \in LyricFiles

VARIABLES
    current,   \* CurrentMusic
    canonical, \* the songs whose CanonicalWAV is true
    wavOf,     \* the song whose data `wav' holds, "none", or "deleted"
    isPlaying, \* IsPlaying
    pipe,      \* pipeline: its kind, its song, and its state, or "freed"
    at,        \* the position of the pipeline
    bfa,       \* the BufferedAudio: "none", "live", "orphan" when its pipeline was freed,
               \* "stray" when its pipeline plays and `pipeline' is another
    queue,     \* what PlayMusic pushed: << first byte, size >> of each buffer
    pos,       \* CurrentPosInMilliseconds
    played,    \* PlayedInMilliseconds
    scale,     \* the value of Adjustment1
    needSeek,  \* GstNeedSeek
    moving,    \* ScaleIsBeingMoved
    index, end, \* LyricIndex and LyricEndtime
    rows,      \* the rows of the list of lyrics
    lyricRow,  \* SelectedLyricIndex
    fresh,     \* history: no tick since PlayMusic
    crashed

media == << canonical, wavOf, bfa >>
sound == << isPlaying, pipe, at, queue >>
time  == << pos, played, scale, needSeek >>
lyric == << index, end, rows, lyricRow >>
vars  == << current, media, sound, time, lyric, moving, fresh, crashed >>

HasLyrics(s) == s # Empty /\ LyricFile[s] # NoLyrics
Lys(s) == Lrc(LyricFile[s])
IsWav(s) == s \in canonical
NoPipe == [kind |-> "none", song |-> Empty, st |-> "null"]
AtMost(ms, s) == IF ms > Duration[s] THEN Duration[s] ELSE ms

Init ==
    /\ current = Empty
    /\ canonical = {s \in Songs : Kind[s] = "wav"}
    /\ wavOf = "none" /\ bfa = "none"
    /\ isPlaying = FALSE /\ pipe = NoPipe /\ at = 0 /\ queue = << >>
    /\ pos = 0 /\ played = 0 /\ scale = 0 /\ needSeek = FALSE
    /\ moving = FALSE
    /\ index = 0 /\ end = 0 /\ rows = 0 /\ lyricRow = 0
    /\ fresh = FALSE
    /\ crashed = FALSE

---------------------------------------------------------------------------
(* The parts of the handlers. *)

\* Slip: the pipeline of a wav is left playing.
PausedWavOnly(s) ==
    IF ~isPlaying \/ s = Empty THEN pipe
    ELSE [pipe EXCEPT !.st = IF IsWav(s) THEN @ ELSE "paused"]
\* PauseMusic when s is current: the pipeline is paused, and freed when s is
\* played from a wav -- which is asked of s, whatever the pipeline plays.
Paused(s) ==
    IF ~isPlaying \/ s = Empty THEN pipe
    ELSE [pipe EXCEPT !.st = IF IsWav(s) THEN "freed" ELSE "paused"]
\* The pipeline of a BufferedAudio that is freed is one it still has.
Orphaned(s) ==
    IF bfa = "live" /\ Paused(s).st = "freed" /\ pipe.kind = "stream" THEN "orphan" ELSE bfa
\* A BufferedAudio of state b, when `pipeline', which was p, is another: what
\* plays then cannot be paused any more.
Left(p, b) == IF b = "live" /\ p.kind = "stream" /\ p.st = "playing" THEN "stray" ELSE b

\* Slip: the end is reached one buffer early.
BuffersShort(size, offset) ==
    LET n == (size - offset) \div MaxBufSize
    IN  [i \in 1..n |-> << offset + (i-1) * MaxBufSize, MaxBufSize >>]
\* The loop of PlayMusic: the data from the offset on, in buffers.
Buffers(size, offset) ==
    LET left == size - offset
        n    == IF left <= MaxBufSize THEN 1 ELSE (left + MaxBufSize - 1) \div MaxBufSize
    IN  [i \in 1..n |->
           << offset + (i-1) * MaxBufSize,
              IF i < n THEN MaxBufSize ELSE left - (n-1) * MaxBufSize >>]
Floor(ms) == (ms \div Second) * Second
Bytes(ms) == (ms * ByteRate) \div Second

\* PlayMusic, from `from' on: a wav gets a pipeline of its own and its data
\* from the second on; any other plays on, and only a "bin" can be sought.
PlayMusic(s, p, from, seek) ==
    /\ IF IsWav(s)
       THEN /\ pipe' = [kind |-> "wav", song |-> s, st |-> "playing"]
            /\ at' = Floor(from)
            /\ queue' = Buffers(Bytes(Duration[s]), Bytes(Floor(from)))
            /\ played' = from /\ pos' = 0 /\ needSeek' = seek
       ELSE /\ pipe' = [p EXCEPT !.st = "playing"]
            /\ at' = IF seek /\ p.kind = "bin" THEN AtMost(from, s) ELSE at
            /\ needSeek' = FALSE /\ pos' = from
            /\ UNCHANGED << queue, played >>
    /\ isPlaying' = TRUE /\ fresh' = TRUE
\* Of a wav that is played from after its end, the loop reads on past the data:
\* what is left of it is less than nothing, in an unsigned number.
RunsOff(s, from) == IsWav(s) /\ Floor(from) > Duration[s]
PauseMusic(p, from, seek) ==
    /\ isPlaying' = FALSE /\ pipe' = p /\ fresh' = FALSE
    /\ pos' = from /\ needSeek' = seek
    /\ UNCHANGED << at, queue, played >>

\* ResetLyric when there are lyrics: the line of the position.  The row that is
\* selected is one of the list that is shown.
ResetLyric(s, ms) ==
    /\ index' = GetLyricIndex(Lys(s), ms)
    /\ end' = Signed(Lys(s)[index'+1].endms)
    /\ lyricRow' = IF index' < rows THEN index' ELSE lyricRow
    /\ crashed' \in BOOLEAN /\ (crashed' => index' >= rows)

\* The user does not act before the tick that follows PlayMusic.
Waited == Patient => ~fresh

---------------------------------------------------------------------------
(* The handlers. *)

\* openWavFile: data that was deleted for a file without a header is deleted
\* again for the next.
Opens(s) == IsWav(s) /\ Kind[s] = "wav"
DeletedTwice(s) == Opens(s) /\ wavOf = "deleted"

\* LoadMusic: a BufferedAudio for the song of a peer, which sets its pipeline
\* playing at once; the data of a wav; else a pipeline of its own.
Loaded(s, p, canon) ==
    IF Kind[s] = "stream" THEN [kind |-> "stream", song |-> s, st |-> "playing"]
    ELSE IF s \in canon THEN p
    ELSE [kind |-> "bin", song |-> s, st |-> "null"]

\* ChangeMusic, and PlayMusic after it or not, when PauseMusic leaves the
\* pipeline p and the BufferedAudio b.  The list of lyrics is made anew after
\* ResetLyric.
ChangeMusic(s, play, p, b) ==
    LET canon == IF Opens(s) /\ s \notin Readable THEN canonical \ {s} ELSE canonical
        q     == Loaded(s, p, canon)
        data  == s \in canon /\ play
        wasBroken == DeletedTwice(s) \/ (Kind[s] = "stream" /\ bfa = "orphan")
    IN  /\ current' = s
        /\ canonical' = canon
        /\ wavOf' = IF ~Opens(s) THEN wavOf ELSE IF s \in Readable THEN s
                    ELSE IF wavOf = "none" THEN "none" ELSE "deleted"
        /\ bfa' = IF Kind[s] = "stream" THEN "live"
                  ELSE IF s \in canon /\ ~play THEN b ELSE Left(p, b)
        /\ rows' = IF HasLyrics(s) THEN Len(Lys(s)) ELSE 1
        /\ IF HasLyrics(s) /\ ~wasBroken THEN ResetLyric(s, 0)
           ELSE index' = 0 /\ end' = 0 /\ crashed' = wasBroken /\ UNCHANGED lyricRow
        /\ pipe' = IF data THEN [kind |-> "wav", song |-> s, st |-> "playing"]
                   ELSE IF play THEN [q EXCEPT !.st = "playing"] ELSE q
        /\ queue' = IF data THEN Buffers(Bytes(Duration[s]), 0) ELSE queue
        /\ at' = IF s \in canon /\ ~play THEN at ELSE 0
        /\ isPlaying' = play /\ fresh' = play
        /\ scale' = 0 /\ pos' = 0 /\ played' = 0 /\ needSeek' = FALSE
\* The buttons, the search and the shuffle choose a song that plays if one was
\* playing; the menu, one that does not.
Choose ==
    /\ ~moving
    /\ \E s \in Songs, play \in {FALSE, isPlaying} :
         ChangeMusic(s, play, Paused(s), Orphaned(s))
    /\ UNCHANGED moving
\* A double click on a row pauses while the old song is current.
DoubleClick ==
    /\ ~moving
    /\ \E s \in Songs : ChangeMusic(s, TRUE, Paused(current), Orphaned(current))
    /\ UNCHANGED moving

\* MusicListChanged: PauseMusic for the song that was current, then none is.
Unload ==
    /\ ~moving
    /\ pipe' = Paused(current) /\ bfa' = Orphaned(current)
    /\ isPlaying' = FALSE /\ fresh' = FALSE
    /\ current' = Empty
    /\ pos' = 0 /\ played' = 0 /\ scale' = 0 /\ needSeek' = FALSE
    /\ rows' = 1
    /\ UNCHANGED << canonical, wavOf, at, queue, index, end, lyricRow, moving, crashed >>

ButtonPlay ==
    /\ current # Empty /\ Waited /\ ~moving
    /\ IF isPlaying THEN PauseMusic(Paused(current), pos, needSeek)
       ELSE PlayMusic(current, pipe, pos, needSeek)
    /\ bfa' = IF isPlaying THEN Orphaned(current)
              ELSE IF IsWav(current) THEN Left(pipe, bfa) ELSE bfa
    /\ crashed' = (~isPlaying /\ RunsOff(current, pos))
    /\ UNCHANGED << current, canonical, wavOf, scale, lyric, moving >>

\* Slip: the lyric line is left alone.
SeekOnly(ms, row) ==
    LET to   == AtMost(ms, current)
        from == IF to # scale THEN to ELSE ms
        seek == needSeek \/ to # scale
    IN  /\ scale' = to
        /\ bfa' = Orphaned(current)
        /\ IF isPlaying THEN PlayMusic(current, Paused(current), from, seek)
           ELSE PauseMusic(pipe, from, seek)
        /\ UNCHANGED << current, canonical, wavOf, lyric, moving, crashed >>
\* The buttons and the list of lyrics seek alike: PauseMusic, the new
\* position, set_value with ScaleIsBeingMoved, and PlayMusic if it was playing.
\* on_Adjustment1_changed runs only when the value is another.
Seek(ms, row) ==
    LET to   == AtMost(ms, current)
        from == IF to # scale THEN to ELSE ms
        seek == needSeek \/ to # scale
    IN  /\ scale' = to
        /\ bfa' = Orphaned(current)
        /\ IF isPlaying THEN PlayMusic(current, Paused(current), from, seek)
           ELSE PauseMusic(pipe, from, seek)
        /\ IF to # scale /\ HasLyrics(current) THEN ResetLyric(current, to)
           ELSE /\ lyricRow' = row /\ UNCHANGED << index, end >>
                /\ crashed' = (isPlaying /\ RunsOff(current, from))
        /\ UNCHANGED << current, canonical, wavOf, rows, moving >>
Backward ==
    /\ current # Empty /\ Waited /\ ~moving
    /\ Seek(IF pos < Back THEN 0 ELSE pos - Back, lyricRow)
Forward ==
    /\ current # Empty /\ Waited /\ ~moving
    /\ Seek(AtMost(pos + Ahead, current), lyricRow)
\* on_TreeView2_button_press_event: on a line, or next to the lines, where the
\* line that was selected last may be one of another song.
LyricDoubleClick ==
    /\ HasLyrics(current) /\ Waited /\ ~moving
    /\ \E row \in 0..(rows-1) \cup {lyricRow} :
         IF row >= rows
         THEN crashed' = TRUE /\ UNCHANGED << current, media, sound, time, lyric, moving, fresh >>
         ELSE Seek(Lys(current)[row+1].startms, row)

\* Slip: the music goes on.
ScalePressPlaying ==
    /\ current # Empty /\ ~moving /\ Waited
    /\ moving' = TRUE
    /\ UNCHANGED << current, media, sound, time, lyric, fresh, crashed >>
\* The scale is pressed, moved and released.
ScalePress ==
    /\ current # Empty /\ ~moving /\ Waited
    /\ moving' = TRUE
    /\ PauseMusic(Paused(current), pos, needSeek)
    /\ bfa' = Orphaned(current)
    /\ UNCHANGED << current, canonical, wavOf, scale, lyric, crashed >>
ScaleMove ==
    /\ moving \/ (Scrolls /\ current # Empty)
    /\ \E to \in {Step * k : k \in 0..(Duration[current] \div Step)} \ {scale} :
         /\ scale' = to /\ pos' = to /\ needSeek' = TRUE
         /\ IF moving /\ HasLyrics(current)
            THEN ResetLyric(current, to)
            ELSE UNCHANGED << index, end, lyricRow, crashed >>
    /\ UNCHANGED << current, media, sound, played, rows, moving, fresh >>
ScaleRelease ==
    /\ moving /\ moving' = FALSE
    /\ UNCHANGED << current, media, sound, time, lyric, fresh, crashed >>

\* The pipeline plays on, if it is one that plays.
PlayOn ==
    /\ pipe.st = "playing" /\ at < Duration[pipe.song]
    /\ at' = AtMost(at + Step, pipe.song)
    /\ UNCHANGED << current, media, isPlaying, pipe, queue, time, lyric, moving, fresh, crashed >>
\* A BufferedAudio pauses its pipeline for want of data, and sets it playing
\* when there is some, whatever IsPlaying says.
StreamTurns ==
    /\ \/ /\ pipe.kind = "stream" /\ pipe.st \in {"playing", "paused"}
          /\ pipe' = [pipe EXCEPT !.st = IF @ = "playing" THEN "paused" ELSE "playing"]
          /\ UNCHANGED bfa
       \/ /\ pipe.kind # "stream" /\ bfa \in {"live", "stray"}
          /\ bfa' = IF bfa = "live" THEN "stray" ELSE "live"
          /\ UNCHANGED pipe
    /\ UNCHANGED << current, canonical, wavOf, isPlaying, at, queue, time, lyric, moving,
                    fresh, crashed >>

\* At most one line further with a tick.
NextLine(ms) ==
    IF HasLyrics(current) /\ ms > end /\ index # Len(Lys(current)) - 1
    THEN /\ index' = index + 1
         /\ end' = Signed(Lys(current)[index'+1].endms)
         /\ lyricRow' = index'
    ELSE UNCHANGED << index, end, lyricRow >>

\* The time on the scale: what was played before and what the pipeline says.
Shown == IF IsWav(current) THEN played + (at - Floor(played)) ELSE at

\* timeout1: the position of the pipeline goes to the scale, and from there,
\* when it is new, to the position.
Tick ==
    /\ isPlaying
    /\ (Patient /\ IsWav(current)) => AtMost(Shown, current) # scale
    /\ LET to   == AtMost(Shown, current)
           here == IF IsWav(current) THEN at - Floor(played) ELSE at
       IN  /\ scale' = to
           /\ IF to # scale THEN pos' = to /\ needSeek' = TRUE
              ELSE pos' = here /\ UNCHANGED needSeek
           /\ NextLine(pos')
    /\ fresh' = FALSE
    /\ UNCHANGED << current, media, sound, played, rows, moving, crashed >>

\* timeout1 at the end of the song: another one begins, as PlayMode is never
\* SINGLE.
SongEnds ==
    /\ isPlaying /\ at = Duration[current]
    /\ \E s \in Songs : ChangeMusic(s, TRUE, Paused(s), Orphaned(s))
    /\ UNCHANGED moving

ButtonStep == Choose \/ DoubleClick \/ Unload \/ ButtonPlay \/ Backward \/ Forward
PointerStep == LyricDoubleClick \/ ScalePress \/ ScaleMove \/ ScaleRelease
ClockStep == PlayOn \/ StreamTurns \/ Tick \/ SongEnds

Next == ~crashed /\ (ButtonStep \/ PointerStep \/ ClockStep)
Spec == Init /\ [][Next]_vars

---------------------------------------------------------------------------
(* Properties. *)

\* The position and the scale stay within the song, the line within the list
\* of its lyrics, and the music rests while the scale is held.
TypeOK ==
    /\ current \in Songs \cup {Empty}
    /\ pipe.st \in {"null", "playing", "paused", "freed"}
    /\ 0 <= at /\ 0 <= scale
    /\ ~crashed /\ pipe.song # Empty => at <= Duration[pipe.song]
    /\ ~crashed /\ current # Empty => scale <= Duration[current]
    /\ ~crashed /\ HasLyrics(current) => index \in 0..(rows-1) /\ rows = Len(Lys(current))
    /\ moving => current # Empty /\ ~isPlaying

\* IsPlaying tells of `pipeline': while it is set, that is the pipeline of the
\* current song, and it plays, unless it is a stream, which stops for want of
\* data; of a wav it has the data of that song.  While it is not set, only a
\* stream may be heard from it.
PlayingIsCurrent ==
    ~crashed =>
        IF isPlaying
        THEN /\ pipe.song = current
             /\ pipe.kind = "stream" \/ pipe.st = "playing"
             /\ pipe.kind = "wav" => wavOf = current
        ELSE pipe.st = "playing" => pipe.kind = "stream"

\* The line that is shown has begun: seeking back takes the lyrics back.
LyricNotAhead ==
    ~crashed /\ HasLyrics(current) =>
        index < Cardinality({i \in 1..Len(Lys(current)) : Lys(current)[i].startms <= scale})

\* The data of a wav is pushed from the position to its end, without a gap,
\* and all of it in full buffers but the last.
PushedIsWhole ==
    ~crashed /\ isPlaying /\ IsWav(current) =>
        LET n == Len(queue)
        IN  /\ queue[1][1] = Bytes(Floor(played))
            /\ queue[n][1] + queue[n][2] = Bytes(Duration[current])
            /\ \A i \in 1..(n-1) : queue[i][2] = MaxBufSize /\ queue[i+1][1] = queue[i][1] + MaxBufSize
---------------------------------------------------------------------------
(* What the code does not do. *)

\* What is paused is silent.
SilentWhenPaused == ~crashed /\ ~isPlaying => pipe.st # "playing"
\* Two songs are not heard at once.
HeardAlone == ~crashed /\ isPlaying => bfa # "stray"
=============================================================================
