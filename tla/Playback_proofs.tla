-------------------------- MODULE Playback_proofs --------------------------
(***************************************************************************)
(* What is proved of Playback, for all songs, lengths, lyrics and times:   *)
(* the invariant PlaybackInv and what follows from it, whatever the user   *)
(* does; and LyricInv, for a user who waits for a tick.                    *)
(***************************************************************************)
EXTENDS Playback, CommunityFacts

---------------------------------------------------------------------------
(* Lyrics: every file of lyrics makes at least one, the first from zero on, *)
(* and GetLyricIndex finds the one that is sung at a time.                  *)

\* The times of a file, from the zero of the constructor on.
LEMMA StartsFacts ==
  ASSUME NEW file \in LyricFiles
  PROVE  /\ Starts(file) \in Seq(Nat)
         /\ Len(Starts(file)) \in Nat \ {0}
         /\ Starts(file)[1] = 0
<1> DEFINE n == Len(file)
<1> DEFINE ms(l, i) == sTimetoms(file[l].at[i])
<1> DEFINE words == [l \in 1..n |->
                 IF file[l].kind # "words" THEN << >>
                 ELSE [i \in 1..Len(file[l].at) |-> ms(l, i)]]
<1>1. \A t \in Times : sTimetoms(t) \in Nat
  BY WordAssumption DEF sTimetoms, Unsigned, Times
<1>2. ASSUME NEW l \in 1..n, file[l].kind = "words" PROVE file[l].at \in Seq(Times)
  BY <1>2 DEF LyricFiles
<1>3. ASSUME NEW l \in 1..n PROVE words[l] \in Seq(Nat)
  <2>1. CASE file[l].kind = "words"
    <3> DEFINE marks == file[l].at
    <3>1. Len(marks) \in Nat /\ \A i \in 1..Len(marks) : marks[i] \in Times
      BY <1>2, <2>1
    <3> HIDE DEF marks
    <3>2. [i \in 1..Len(marks) |-> sTimetoms(marks[i])] \in Seq(Nat)
      BY <1>1, <3>1
    <3> QED BY <2>1, <3>2 DEF marks
  <2>2. CASE file[l].kind # "words"
    BY <2>2
  <2> QED BY <2>1, <2>2
<1>4. n \in Nat
  BY DEF LyricFiles
<1>5. words \in Seq(Seq(Nat))
  <2> HIDE DEF n
  <2>1. \A l \in 1..n : words[l] \in Seq(Nat)
    BY <1>3
  <2> DEFINE w == words
  <2>2. w = [l \in 1..n |-> w[l]]
    OBVIOUS
  <2> HIDE DEF words
  <2> QED BY <1>4, <2>1, <2>2
<1> DEFINE flat == FlattenSeq(words)
<1>6. flat \in Seq(Nat)
  <2> HIDE DEF words
  <2> QED BY <1>5, FlattenIsSeq
<1>7. Starts(file) = << 0 >> \o flat
  BY DEF Starts
<1>8. << 0 >> \in Seq(Nat) /\ Len(<< 0 >>) = 1 /\ << 0 >>[1] = 0
  OBVIOUS
<1> HIDE DEF flat
<1> QED BY <1>6, <1>7, <1>8, ConcatProperties

\* The first of the sorted times is the least, and they ascend.
LEMMA AscendingSorts ==
  ASSUME NEW s \in Seq(Nat)
  PROVE  /\ Ascending(s) \in [1..Len(s) -> ToSet(s)]
         /\ \A i, j \in 1..Len(s) : i <= j => Ascending(s)[i] <= Ascending(s)[j]
<1> DEFINE L == Len(s)
<1> DEFINE Upto(ms) == {i \in 1..L : s[i] <= ms}
<1> DEFINE M(n) == {ms \in ToSet(s) : n <= Cardinality(Upto(ms))}
<1>1. L \in Nat /\ s \in [1..L -> Nat]
  OBVIOUS
<1>2. ToSet(s) = {s[i] : i \in 1..L}
  BY DEF ToSet
<1>3. ASSUME NEW n \in 1..L PROVE M(n) # {} /\ M(n) \subseteq Nat
  <2>0. L # 0
    BY <1>1, <1>3
  <2>1. PICK m \in 1..L : \A i \in 1..L : s[i] <= s[m]
    <3> HIDE DEF L
    <3> QED BY <1>1, <2>0, Greatest
  <2>2. Upto(s[m]) = 1..L
    BY <2>1
  <2>3. Cardinality(1..L) = L
    <3> HIDE DEF L
    <3>1. 1 \in Int /\ L \in Int /\ 1 <= L /\ L - 1 + 1 = L
      BY <1>1, <2>0
    <3> QED BY <3>1, FS_Interval
  <2>4. s[m] \in M(n)
    <3>1. n <= Cardinality(Upto(s[m]))
      <4>1. n <= L
        BY <1>1
      <4> HIDE DEF L, Upto
      <4> QED BY <2>2, <2>3, <4>1
    <3>2. s[m] \in ToSet(s)
      BY <1>2
    <3> QED BY <3>1, <3>2
  <2>5. ToSet(s) \subseteq Nat
    BY <1>1, <1>2
  <2> QED BY <2>4, <2>5
<1>4. \A n \in 1..L : Ascending(s)[n] = Min(M(n))
  BY DEF Ascending
<1>5. \A n \in 1..L : Min(M(n)) \in M(n) /\ \A y \in M(n) : Min(M(n)) <= y
  <2> HIDE DEF M
  <2> QED BY <1>3, MinNat
<1>6. Ascending(s) \in [1..L -> ToSet(s)]
  BY <1>4, <1>5 DEF Ascending
<1>7. ASSUME NEW i \in 1..L, NEW j \in 1..L, i <= j PROVE Min(M(i)) <= Min(M(j))
  <2> DEFINE c(ms) == Cardinality(Upto(ms))
  <2>1. \A ms : c(ms) \in Nat
    <3>1. ASSUME NEW ms PROVE c(ms) \in Nat
      <4>1. IsFiniteSet(1..L)
        BY <1>1, FS_Interval
      <4>2. IsFiniteSet(Upto(ms))
        BY <4>1, FS_Subset
      <4> QED BY <4>2, FS_CardinalityType
    <3> QED BY <3>1
  <2>2. M(j) \subseteq M(i)
    <3>1. \A ms \in ToSet(s) : j <= c(ms) => i <= c(ms)
      <4> HIDE DEF c
      <4> QED BY <1>7, <2>1
    <3> QED BY <3>1
  <2> QED BY <1>5, <2>2
<1> QED BY <1>4, <1>6, <1>7

\* The offset of a file is a number.
LEMMA LinesFacts ==
  ASSUME NEW file \in LyricFiles PROVE Offset(file) \in Int
<1>1. CASE LinesOf(file, "offset") = {}
  BY <1>1 DEF Offset
<1>2. CASE LinesOf(file, "offset") # {}
  <2> DEFINE l == Max(LinesOf(file, "offset"))
  <2>1. l \in LinesOf(file, "offset")
    <3>1. Len(file) \in Nat
      BY DEF LyricFiles
    <3>2. LinesOf(file, "offset") \subseteq 1..Len(file)
      BY DEF LinesOf
    <3> QED BY <1>2, <3>1, <3>2, MaxNat
  <2> HIDE DEF l
  <2>2. l \in 1..Len(file) /\ file[l].kind = "offset"
    BY <2>1 DEF LinesOf
  <2>3. file[l].ms \in Int
    BY <2>2 DEF LyricFiles
  <2> QED BY <1>2, <2>3 DEF Offset, l
<1> QED BY <1>1, <1>2

\* Lrc: at least one lyric, the first from zero on; each start is an unsigned
\* number and the end of the lyric before.
THEOREM LyricsOfAFile ==
  ASSUME NEW file \in LyricFiles
  PROVE  /\ Len(Lrc(file)) \in Nat \ {0}
         /\ Lrc(file)[1].startms = 0
         /\ \A i \in 1..Len(Lrc(file)) : Lrc(file)[i].startms \in 0..(Word-1)
         /\ \A i \in 1..(Len(Lrc(file)) - 1) : Lrc(file)[i].endms = Lrc(file)[i+1].startms
<1> DEFINE s == Starts(file)
<1> DEFINE n == Len(s)
<1> DEFINE a == Ascending(s)
<1>1. s \in Seq(Nat) /\ n \in Nat \ {0} /\ s[1] = 0
  BY StartsFacts
<1>2. ToSet(s) \subseteq Nat /\ 0 \in ToSet(s)
  BY <1>1 DEF ToSet
<1>3. a \in [1..n -> ToSet(s)] /\ \A i, j \in 1..n : i <= j => a[i] <= a[j]
  BY <1>1, AscendingSorts
<1>4. a \in [1..n -> Nat]
  BY <1>2, <1>3
<1>5. a[1] = 0
  <2>1. a[1] = Min({ms \in ToSet(s) : 1 <= Cardinality({i \in 1..n : s[i] <= ms})})
    BY <1>1 DEF Ascending
  <2> DEFINE M == {ms \in ToSet(s) : 1 <= Cardinality({i \in 1..n : s[i] <= ms})}
  <2>2. 0 \in M
    <3> DEFINE U == {i \in 1..n : s[i] <= 0}
    <3>1. 1 \in U
      BY <1>1
    <3>2. IsFiniteSet(U)
      <4>1. IsFiniteSet(1..n)
        <5> HIDE DEF n
        <5> QED BY <1>1, FS_Interval
      <4> QED BY <4>1, FS_Subset
    <3>3. Cardinality(U) \in Nat /\ Cardinality(U) # 0
      BY <3>1, <3>2, FS_CardinalityType, FS_EmptySet
    <3> HIDE DEF U
    <3>4. 1 <= Cardinality(U)
      BY <3>3
    <3> QED BY <1>2, <3>4 DEF U
  <2>3. M \subseteq Nat /\ M # {}
    BY <1>2, <2>2
  <2>4. Min(M) \in Nat /\ Min(M) <= 0
    <3> HIDE DEF M
    <3> QED BY <2>2, <2>3, MinNat
  <2> HIDE DEF M
  <2>5. a[1] = Min(M)
    BY <2>1 DEF M
  <2> HIDE DEF a
  <2> QED BY <2>4, <2>5
<1>6. Offset(file) \in Int
  BY LinesFacts
<1> DEFINE start(i) == IF i = 1 THEN a[1] ELSE Unsigned(a[i] + Offset(file))
<1>7. Len(a) = n /\ DOMAIN a = 1..n
  <2> HIDE DEF a
  <2> QED BY <1>1, <1>4
<1> DEFINE lys == Lrc(file)
<1>8. lys = [i \in 1..n |-> [startms |-> start(i),
                             endms |-> IF i < n THEN [j \in 1..n |-> start(j)][i+1] ELSE Length(file)]]
  <2> HIDE DEF n
  <2> QED BY <1>7 DEF Lrc, n
<1>9. Len(lys) = n
  <2> HIDE DEF lys, n
  <2> QED BY <1>1, <1>8
<1> HIDE DEF a, n, lys
<1>10. ASSUME NEW i \in 1..n PROVE start(i) \in 0..(Word-1)
  <2>1. CASE i = 1
    BY <1>5, <2>1, WordAssumption
  <2>2. CASE i # 1
    <3>1. a[i] + Offset(file) \in Int
      BY <1>4, <1>6
    <3> QED BY <2>2, <3>1, WordAssumption DEF Unsigned
  <2> QED BY <2>1, <2>2
<1> HIDE DEF start
<1>11. \A i \in 1..n : lys[i].startms = start(i)
  BY <1>8
<1>12. start(1) = 0
  BY <1>5 DEF start
<1>13. ASSUME NEW i \in 1..(n-1) PROVE lys[i].endms = lys[i+1].startms
  <2>1. i \in 1..n /\ i + 1 \in 1..n /\ i < n
    BY <1>1
  <2> QED BY <1>8, <1>11, <2>1
<1>14. 1 \in 1..n
  BY <1>1
<1> QED BY <1>1, <1>9, <1>10, <1>11, <1>12, <1>13, <1>14 DEF lys

\* GetLyricIndex: a line of the list; it and all lines before it have begun, and
\* the next one has not.
THEOREM LineOfATime ==
  ASSUME NEW file \in LyricFiles, NEW ms \in Int
  PROVE  LET lys == Lrc(file)
             line  == GetLyricIndex(lys, ms)
         IN  /\ line \in 0..(Len(lys) - 1)
             /\ \A i \in 1..(line+1) : lys[i].startms <= Unsigned(ms)
             /\ line + 1 < Len(lys) => lys[line+2].startms > Unsigned(ms)
<1> DEFINE lys == Lrc(file)
<1> DEFINE n == Len(lys)
<1> DEFINE u == Unsigned(ms)
<1>1. n \in Nat \ {0} /\ lys[1].startms = 0 /\ \A i \in 1..n : lys[i].startms \in Nat
  BY LyricsOfAFile, WordAssumption
<1>2. u \in Nat
  BY WordAssumption DEF Unsigned
<1> DEFINE later == {i \in 1..n : lys[i].startms > u}
<1> HIDE DEF lys, n, u
<1>3. CASE later = {}
  <2>1. GetLyricIndex(lys, ms) = n - 1
    BY <1>3 DEF GetLyricIndex, n, u
  <2> QED BY <1>1, <1>2, <1>3, <2>1 DEF lys, n, u
<1>4. CASE later # {}
  <2>1. later \subseteq Nat
    OBVIOUS
  <2> DEFINE first == CHOOSE i \in later : \A j \in later : i <= j
  <2>2. first \in later /\ \A j \in later : first <= j
    <3> HIDE DEF later
    <3> QED BY <1>4, <2>1, LeastNat
  <2>3. GetLyricIndex(lys, ms) = first - 2
    BY <1>4 DEF GetLyricIndex, n, u
  <2> HIDE DEF first
  <2>4. first \in 1..n /\ first # 1
    BY <1>1, <1>2, <2>2
  <2>5. ASSUME NEW i \in 1..(first-1) PROVE lys[i].startms <= u
    <3>1. i \in 1..n /\ ~(first <= i)
      BY <1>1, <2>4
    <3>2. ~(i \in later)
      BY <2>2, <3>1
    <3> QED BY <1>1, <1>2, <3>1, <3>2
  <2>6. lys[first].startms > u
    BY <2>2
  <2> DEFINE line == GetLyricIndex(lys, ms)
  <2> HIDE DEF line
  <2>7. line \in 0..(n-1) /\ line + 1 = first - 1 /\ line + 2 = first
    BY <1>1, <2>3, <2>4 DEF line
  <2>8. /\ \A i \in 1..(line+1) : lys[i].startms <= u
        /\ lys[line+2].startms > u
    BY <2>5, <2>6, <2>7
  <2> QED BY <2>7, <2>8 DEF lys, n, u, line
<1> QED BY <1>3, <1>4

---------------------------------------------------------------------------

Pipes == [kind : {"none", "bin", "wav", "stream"}, song : Songs \cup {Empty},
          st : {"null", "playing", "paused", "freed"}]

Typed ==
    /\ current \in Songs \cup {Empty}
    /\ canonical \subseteq {s \in Songs : Kind[s] = "wav"}
    /\ pipe \in Pipes
    /\ isPlaying \in BOOLEAN /\ moving \in BOOLEAN /\ needSeek \in BOOLEAN
    /\ crashed \in BOOLEAN
    /\ at \in Nat /\ pos \in Nat /\ played \in Nat /\ scale \in Nat /\ lyricRow \in Nat
\* A scale that is held, and no song, play nothing.
Resting ==
    /\ moving => current # Empty /\ ~isPlaying
    /\ isPlaying => current # Empty
\* The pipeline stays within what it plays, the scale within the song.
Bounded == pipe.song # Empty => at <= Duration[pipe.song]
Within == Bounded /\ (current # Empty => scale <= Duration[current])
\* What plays is the current song, or a stream that nobody paused.  The pipeline
\* is that of the current song, or one that PlayMusic will replace by one for
\* the data of it, which the one WAV object then holds.
Piped ==
    /\ pipe.song = Empty => pipe = NoPipe
    /\ isPlaying => pipe.song = current /\ (pipe.st = "playing" \/ pipe.kind = "stream")
    /\ ~isPlaying => (pipe.st = "playing" => pipe.kind = "stream")
    /\ current \in Songs /\ ~IsWav(current) => pipe.song = current /\ pipe.kind # "wav"
    /\ IsWav(current) => wavOf = current
\* What plays from data has all of it from the second it was started at.
Pushed ==
    isPlaying /\ IsWav(current) =>
        /\ pipe.song = current
        /\ Floor(played) <= at
        /\ queue = Buffers(Bytes(Duration[current]), Bytes(Floor(played)))
\* The list of lyrics is that of the song, the line one of the list.
Lined == HasLyrics(current) => rows = Len(Lys(current)) /\ index \in 0..(rows-1)
PlaybackInv == Typed /\ Resting /\ (~crashed => Within /\ Piped /\ Pushed /\ Lined)

---------------------------------------------------------------------------
(* The operators. *)

LEMMA FloorFacts ==
  ASSUME NEW ms \in Nat
  PROVE  Floor(ms) \in Nat /\ Floor(ms) <= ms /\ ms - Floor(ms) \in 0..(Second-1)
<1>1. Second \in Nat \ {0}
  BY PlaybackAssumption
<1> QED BY <1>1 DEF Floor

LEMMA BytesFacts ==
  ASSUME NEW a \in Nat, NEW b \in Nat, a <= b
  PROVE  Bytes(a) \in Nat /\ Bytes(b) \in Nat /\ Bytes(a) <= Bytes(b)
<1>1. Second \in Nat \ {0} /\ ByteRate \in Nat \ {0}
  BY PlaybackAssumption
<1>2. a * ByteRate \in Nat /\ b * ByteRate \in Nat /\ a * ByteRate <= b * ByteRate
  BY <1>1
<1>3. ASSUME NEW x \in Nat, NEW y \in Nat, x <= y
      PROVE  x \div Second \in Nat /\ y \div Second \in Nat /\ x \div Second <= y \div Second
  BY <1>1, <1>3
<1> QED BY <1>2, <1>3 DEF Bytes

LEMMA StepsFacts ==
  ASSUME NEW d \in Nat, NEW k \in 0..(d \div Step)
  PROVE  Step * k \in Nat /\ Step * k <= d
<1>1. Step \in Nat \ {0}
  BY PlaybackAssumption
<1>2. Step * (d \div Step) <= d /\ d \div Step \in Nat
  BY <1>1
<1>3. Step * k <= Step * (d \div Step)
  BY <1>1, <1>2
<1> QED BY <1>1, <1>2, <1>3

LEMMA AtMostFacts ==
  ASSUME NEW ms \in Nat, NEW s \in Songs
  PROVE  /\ AtMost(ms, s) \in Nat /\ AtMost(ms, s) <= Duration[s] /\ AtMost(ms, s) <= ms
         /\ ms <= Duration[s] => AtMost(ms, s) = ms
         /\ Duration[s] \in Nat
BY PlaybackAssumption DEF AtMost

\* The buffers are full but for the last and follow each other, from the
\* offset to the end of the data.
LEMMA BuffersFacts ==
  ASSUME NEW size \in Nat, NEW off \in Nat, off <= size
  PROVE  LET q == Buffers(size, off)
             n == Len(q)
         IN  /\ n \in Nat \ {0} /\ q[1][1] = off
             /\ q[n][1] + q[n][2] = size
             /\ \A i \in 1..(n-1) : q[i][2] = MaxBufSize /\ q[i+1][1] = q[i][1] + MaxBufSize
<1> DEFINE left == size - off
<1> DEFINE m == IF left <= MaxBufSize THEN 1 ELSE (left + MaxBufSize - 1) \div MaxBufSize
<1> DEFINE q == Buffers(size, off)
<1>1. MaxBufSize \in Nat \ {0}
  BY PlaybackAssumption
<1>2. m \in Nat \ {0}
  BY <1>1
<1> HIDE DEF m
<1>3. q = [i \in 1..m |->
           << off + (i-1) * MaxBufSize,
              IF i < m THEN MaxBufSize ELSE left - (m-1) * MaxBufSize >>]
  BY DEF Buffers, m
<1> HIDE DEF q
<1>4. Len(q) = m
  BY <1>2, <1>3
<1>5. (m-1) * MaxBufSize \in Int
  BY <1>1, <1>2
<1>6. 1 \in 1..m /\ m \in 1..m
  BY <1>2
<1>7. q[1][1] = off
  <2>1. (1-1) * MaxBufSize = 0
    BY <1>1
  <2> QED BY <1>3, <1>6, <2>1
<1>8. q[m][1] + q[m][2] = size
  <2>1. q[m][1] = off + (m-1) * MaxBufSize /\ q[m][2] = left - (m-1) * MaxBufSize
    BY <1>2, <1>3, <1>6
  <2> QED BY <1>5, <2>1
<1>9. ASSUME NEW i \in 1..(m-1)
      PROVE  q[i][2] = MaxBufSize /\ q[i+1][1] = q[i][1] + MaxBufSize
  <2>1. i \in 1..m /\ i + 1 \in 1..m /\ i < m
    BY <1>2
  <2>2. (i + 1 - 1) * MaxBufSize = (i-1) * MaxBufSize + MaxBufSize /\ (i-1) * MaxBufSize \in Int
    BY <1>1, <2>1
  <2>3. q[i][2] = MaxBufSize /\ q[i][1] = off + (i-1) * MaxBufSize
        /\ q[i+1][1] = off + (i + 1 - 1) * MaxBufSize
    BY <1>3, <2>1
  <2> QED BY <1>1, <2>2, <2>3
<1> QED BY <1>2, <1>4, <1>7, <1>8, <1>9 DEF q

LEMMA LysFacts ==
  ASSUME NEW s \in Songs, HasLyrics(s)
  PROVE  /\ Len(Lys(s)) \in Nat \ {0}
         /\ \A i \in 1..Len(Lys(s)) : Lys(s)[i].startms \in Nat
         /\ \A ms \in Nat : GetLyricIndex(Lys(s), ms) \in 0..(Len(Lys(s)) - 1)
<1>1. LyricFile[s] \in LyricFiles
  BY PlaybackAssumption DEF HasLyrics
<1>2. \A x \in 0..(Word-1) : x \in Nat
  BY WordAssumption
<1>3. \A ms \in Nat : ms \in Int
  OBVIOUS
<1> QED BY <1>1, <1>2, <1>3, LyricsOfAFile, LineOfATime DEF Lys

LEMMA PausedFacts ==
  ASSUME NEW s, Typed
  PROVE  /\ Paused(s) \in Pipes
         /\ Paused(s).kind = pipe.kind /\ Paused(s).song = pipe.song
         /\ isPlaying /\ s # Empty => Paused(s).st # "playing"
         /\ ~isPlaying => Paused(s) = pipe
BY DEF Typed, Paused, Pipes

\* PauseMusic leaves no pipeline playing but a stream's.
LEMMA PausedPiped ==
  ASSUME NEW s, s # Empty, PlaybackInv, ~crashed
  PROVE  /\ Paused(s) \in Pipes
         /\ Paused(s).kind = pipe.kind /\ Paused(s).song = pipe.song
         /\ Paused(s).song = Empty => Paused(s) = NoPipe
         /\ Paused(s).st = "playing" => Paused(s).kind = "stream"
<1> DEFINE p == Paused(s)
<1>1. /\ p \in Pipes /\ p.kind = pipe.kind /\ p.song = pipe.song
      /\ isPlaying => p.st # "playing"
      /\ ~isPlaying => p = pipe
  BY PausedFacts DEF PlaybackInv
<1>2. isPlaying => current \in Songs /\ pipe.song = current
  BY DEF PlaybackInv, Piped, Resting, Typed
<1> HIDE DEF p
<1>3. Empty \notin Songs
  BY PlaybackAssumption
<1>4. CASE isPlaying
  BY <1>1, <1>2, <1>3, <1>4 DEF p
<1>5. CASE ~isPlaying
  BY <1>1, <1>5 DEF p, PlaybackInv, Piped
<1> QED BY <1>4, <1>5

\* So it does for the song that is current, if there is one.
LEMMA PausedCurrent ==
  ASSUME PlaybackInv, ~crashed
  PROVE  /\ Paused(current) \in Pipes
         /\ Paused(current).kind = pipe.kind /\ Paused(current).song = pipe.song
         /\ Paused(current).song = Empty => Paused(current) = NoPipe
         /\ Paused(current).st = "playing" => Paused(current).kind = "stream"
<1>1. CASE current # Empty
  BY <1>1, PausedPiped
<1>2. CASE current = Empty
  <2>1. ~isPlaying /\ Typed
    BY <1>2 DEF PlaybackInv, Resting
  <2>2. Paused(current) = pipe /\ pipe \in Pipes
    BY <2>1, PausedFacts DEF Typed
  <2> QED BY <2>1, <2>2 DEF PlaybackInv, Piped
<1> QED BY <1>1, <1>2

---------------------------------------------------------------------------
(* The parts of the handlers. *)

LEMMA ResetFacts ==
  ASSUME NEW s \in Songs, HasLyrics(s), NEW ms \in Nat, Typed, ResetLyric(s, ms)
  PROVE  index' \in 0..(Len(Lys(s)) - 1) /\ lyricRow' \in Nat /\ crashed' \in BOOLEAN
<1>1. Len(Lys(s)) \in Nat \ {0} /\ index' \in 0..(Len(Lys(s)) - 1)
  BY LysFacts DEF ResetLyric
<1>2. index' \in Nat
  BY <1>1
<1>3. lyricRow' \in Nat
  BY <1>2 DEF ResetLyric, Typed
<1>4. crashed' \in BOOLEAN
  BY DEF ResetLyric
<1> QED BY <1>1, <1>3, <1>4

\* PlayMusic of the current song, from a pipeline that is still its own.
LEMMA PlayFacts ==
  ASSUME PlaybackInv, ~crashed, current \in Songs,
         NEW p \in Pipes, p.kind = pipe.kind, p.song = pipe.song,
         NEW from \in Nat, NEW seek \in BOOLEAN,
         PlayMusic(current, p, from, seek), UNCHANGED << current, canonical, wavOf >>
  PROVE  /\ pipe' \in Pipes /\ isPlaying' = TRUE /\ needSeek' \in BOOLEAN
         /\ at' \in Nat /\ pos' \in Nat /\ played' \in Nat
         /\ Piped'
         /\ ~RunsOff(current, from) => Bounded' /\ Pushed'
<1> USE DEF PlaybackInv, Typed
<1>1. Floor(from) \in Nat /\ Floor(from) <= from
  BY FloorFacts
<1>2. AtMost(from, current) \in Nat /\ AtMost(from, current) <= Duration[current]
      /\ Duration[current] \in Nat
  BY AtMostFacts
<1>3. CASE IsWav(current)
  <2>1. /\ pipe' = [kind |-> "wav", song |-> current, st |-> "playing"]
        /\ at' = Floor(from) /\ played' = from /\ pos' = 0 /\ needSeek' = seek
        /\ queue' = Buffers(Bytes(Duration[current]), Bytes(Floor(from)))
        /\ isPlaying' = TRUE /\ IsWav(current)'
    BY <1>3 DEF PlayMusic, IsWav
  <2>2. pipe' \in Pipes
    BY <2>1 DEF Pipes
  <2>3. Piped'
    BY <1>3, <2>1, PlaybackAssumption DEF Piped, IsWav
  <2>4. ~RunsOff(current, from) => Bounded'
    BY <1>1, <1>2, <1>3, <2>1 DEF RunsOff, Bounded
  <2>5. Pushed'
    BY <1>1, <2>1 DEF Pushed, Bytes, Floor
  <2> QED BY <1>1, <2>1, <2>2, <2>3, <2>4, <2>5
<1>4. CASE ~IsWav(current)
  <2>1. /\ pipe' = [p EXCEPT !.st = "playing"]
        /\ at' = IF seek /\ p.kind = "bin" THEN AtMost(from, current) ELSE at
        /\ needSeek' = FALSE /\ pos' = from /\ played' = played
        /\ isPlaying' = TRUE /\ ~IsWav(current)'
    BY <1>4 DEF PlayMusic, IsWav
  <2>2. pipe' \in Pipes /\ pipe'.kind = pipe.kind /\ pipe'.song = pipe.song /\ pipe'.st = "playing"
    BY <2>1 DEF Pipes
  <2>3. Piped'
    BY <1>4, <2>1, <2>2, PlaybackAssumption DEF Piped
  <2>4. at' \in Nat /\ Bounded'
    <3>1. at \in Nat /\ at <= Duration[current] /\ pipe.song = current
      BY <1>4, PlaybackAssumption DEF Within, Bounded, Piped
    <3>2. at' \in Nat /\ at' <= Duration[current]
      BY <1>2, <2>1, <3>1
    <3> QED BY <2>1, <2>2, <3>1, <3>2 DEF Bounded
  <2>5. Pushed'
    BY <2>1 DEF Pushed
  <2> QED BY <2>1, <2>2, <2>3, <2>4, <2>5
<1> QED BY <1>3, <1>4

LEMMA PauseFacts ==
  ASSUME PlaybackInv, ~crashed,
         NEW p \in Pipes, p.kind = pipe.kind, p.song = pipe.song,
         p.song = Empty => p = NoPipe, p.st = "playing" => p.kind = "stream",
         NEW from \in Nat, NEW seek \in BOOLEAN,
         PauseMusic(p, from, seek), UNCHANGED << current, canonical, wavOf >>
  PROVE  /\ pipe' \in Pipes /\ isPlaying' = FALSE /\ needSeek' \in BOOLEAN
         /\ at' \in Nat /\ pos' \in Nat /\ played' \in Nat
         /\ Piped' /\ Pushed' /\ Bounded'
<1>1. /\ isPlaying' = FALSE /\ pipe' = p /\ pos' = from /\ needSeek' = seek
      /\ UNCHANGED << at, queue, played, current, canonical, wavOf >>
  BY DEF PauseMusic
<1>2. Piped'
  BY <1>1 DEF PlaybackInv, Piped, IsWav, NoPipe
<1>3. Bounded'
  BY <1>1 DEF PlaybackInv, Within, Bounded
<1> QED BY <1>1, <1>2, <1>3 DEF PlaybackInv, Typed, Pushed

---------------------------------------------------------------------------
(* Every step keeps the invariant. *)

LEMMA InitInv == Init => PlaybackInv
<1> SUFFICES ASSUME Init PROVE PlaybackInv
  OBVIOUS
<1> USE DEF Init
<1>1. Typed
  BY DEF Typed, Pipes, NoPipe
<1>2. Resting /\ Within /\ Piped /\ Pushed /\ Lined
  BY PlaybackAssumption DEF Resting, Within, Bounded, Piped, Pushed, Lined, NoPipe, IsWav, HasLyrics
<1> QED BY <1>1, <1>2 DEF PlaybackInv

LEMMA ChangeMusicInv ==
  ASSUME PlaybackInv, ~crashed, NEW s \in Songs, NEW play \in BOOLEAN,
         NEW p \in Pipes, p.kind = pipe.kind, p.song = pipe.song, NEW b,
         p.song = Empty => p = NoPipe, p.st = "playing" => p.kind = "stream",
         ChangeMusic(s, play, p, b), moving' = moving, ~moving
  PROVE  PlaybackInv'
<1> USE DEF PlaybackInv, Typed
<1> DEFINE canon == IF Opens(s) /\ s \notin Readable THEN canonical \ {s} ELSE canonical
<1> DEFINE q == Loaded(s, p, canon)
<1> DEFINE data == s \in canon /\ play
<1> DEFINE wasBroken == DeletedTwice(s) \/ (Kind[s] = "stream" /\ bfa = "orphan")
<1>0. s # Empty
  BY PlaybackAssumption
<1>1. /\ current' = s /\ canonical' = canon /\ isPlaying' = play
      /\ scale' = 0 /\ pos' = 0 /\ played' = 0 /\ needSeek' = FALSE
      /\ at' = IF s \in canon /\ ~play THEN at ELSE 0
      /\ wavOf' = IF ~Opens(s) THEN wavOf ELSE IF s \in Readable THEN s
                    ELSE IF wavOf = "none" THEN "none" ELSE "deleted"
      /\ pipe' = IF data THEN [kind |-> "wav", song |-> s, st |-> "playing"]
                   ELSE IF play THEN [q EXCEPT !.st = "playing"] ELSE q
      /\ queue' = IF data THEN Buffers(Bytes(Duration[s]), 0) ELSE queue
      /\ rows' = IF HasLyrics(s) THEN Len(Lys(s)) ELSE 1
  BY DEF ChangeMusic
<1>2. \/ HasLyrics(s) /\ ResetLyric(s, 0)
      \/ ~HasLyrics(s) /\ index' = 0 /\ crashed' = wasBroken /\ UNCHANGED lyricRow
      \/ HasLyrics(s) /\ index' = 0 /\ crashed' = TRUE /\ UNCHANGED lyricRow
  BY DEF ChangeMusic
<1>3. canon \subseteq {t \in Songs : Kind[t] = "wav"}
  OBVIOUS
<1>4. s \in canon <=> s \in canonical /\ (Kind[s] = "wav" => s \in Readable)
  BY DEF Opens, IsWav
<1>5. s \in canon => s \in Readable
  BY <1>3, <1>4
<1>6. /\ q \in Pipes /\ (s \notin canon => q.song = s /\ q.kind # "wav")
      /\ s \in canon => q = p
      /\ q.song = Empty => q = NoPipe
      /\ q.st = "playing" => q.kind = "stream"
  BY <1>0, <1>3, PlaybackAssumption DEF Loaded, Pipes
<1>8. pipe' \in Pipes
  BY <1>1, <1>6 DEF Pipes
<1>9. lyricRow' \in Nat /\ crashed' \in BOOLEAN /\ (HasLyrics(s) /\ ~crashed' => index' \in 0..(Len(Lys(s)) - 1))
  <2>1. CASE HasLyrics(s) /\ ResetLyric(s, 0)
    BY <2>1, ResetFacts
  <2>2. CASE ~(HasLyrics(s) /\ ResetLyric(s, 0))
    <3>1. wasBroken \in BOOLEAN
      BY Zenon
    <3> QED BY <1>2, <2>2, <3>1
  <2> QED BY <2>1, <2>2
<1>10. Typed'
  <2>1. canonical' \subseteq {t \in Songs : Kind[t] = "wav"}
    BY <1>1, <1>3
  <2> QED BY <1>1, <1>8, <1>9, <2>1
<1>11. Resting'
  BY <1>0, <1>1 DEF Resting
<1>12. Within'
  <2>1. CASE s \in canon /\ ~play
    <3>1. pipe' = p /\ at' = at
      BY <1>1, <1>6, <2>1
    <3>2. Bounded'
      BY <3>1 DEF Within, Bounded
    <3> QED BY <1>1, <3>2, PlaybackAssumption DEF Within
  <2>2. CASE ~(s \in canon /\ ~play)
    <3>1. at' = 0 /\ (pipe'.song # Empty => Duration[pipe'.song] \in Nat)
      BY <1>1, <1>8, <2>2, PlaybackAssumption DEF Pipes
    <3>2. Bounded'
      BY <3>1 DEF Bounded
    <3> QED BY <1>1, <3>2, PlaybackAssumption DEF Within
  <2> QED BY <2>1, <2>2
<1> HIDE DEF canon, q, data
<1>13. IsWav(s)' <=> s \in canon
  BY <1>1 DEF IsWav
<1>14. Piped'
  <2>1. /\ isPlaying' => pipe'.song = s /\ pipe'.st = "playing"
        /\ ~isPlaying' => (pipe'.st = "playing" => pipe'.kind = "stream")
        /\ pipe'.song = Empty => pipe' = NoPipe
    <3>1. CASE play /\ s \in canon
      BY <1>0, <1>1, <3>1 DEF data
    <3>2. CASE play /\ s \notin canon
      <4>1. pipe' = [q EXCEPT !.st = "playing"]
        BY <1>1, <3>2 DEF data
      <4> QED BY <1>0, <1>1, <1>6, <3>2, <4>1 DEF Pipes
    <3>3. CASE ~play
      BY <1>1, <1>6, <3>3 DEF data
    <3> QED BY <3>1, <3>2, <3>3
  <2>2. s \notin canon => pipe'.song = s /\ pipe'.kind # "wav"
    BY <1>1, <1>6 DEF Pipes, data
  <2>3. s \in canon => wavOf' = s
    BY <1>1, <1>4, <1>5 DEF Opens, IsWav
  <2> QED BY <1>1, <1>13, <2>1, <2>2, <2>3 DEF Piped, IsWav
<1>15. Pushed'
  <2>1. Floor(0) = 0 /\ Bytes(0) = 0
    <3>1. Floor(0) = 0
      BY FloorFacts
    <3>2. Second \in Nat \ {0} /\ ByteRate \in Nat \ {0}
      BY PlaybackAssumption
    <3>3. 0 * ByteRate = 0
      BY <3>2
    <3>4. 0 \div Second = 0
      BY <3>2
    <3> QED BY <3>1, <3>3, <3>4 DEF Bytes
  <2>2. SUFFICES ASSUME play, s \in canon PROVE Pushed'
    BY <1>1 DEF Pushed, IsWav
  <2>3. pipe'.song = s /\ queue' = Buffers(Bytes(Duration[s]), 0)
    BY <1>1, <2>2 DEF data
  <2>4. Floor(played)' = 0
    BY <1>1, <2>1 DEF Floor
  <2> QED BY <1>1, <2>1, <2>3, <2>4 DEF Pushed, Bytes
<1>16. ~crashed' => Lined'
  BY <1>0, <1>1, <1>9 DEF Lined, HasLyrics, Lys
<1> QED BY <1>10, <1>11, <1>12, <1>14, <1>15, <1>16

LEMMA ChoiceInv ==
  ASSUME PlaybackInv, ~crashed, Choose \/ DoubleClick \/ SongEnds
  PROVE  PlaybackInv'
<1>1. \A s \in Songs : s # Empty
  BY PlaybackAssumption
<1>2. moving' = moving /\ ~moving
  BY DEF Choose, DoubleClick, SongEnds, PlaybackInv, Resting
<1>3. CASE Choose \/ SongEnds
  <2>1. PICK s \in Songs, play \in BOOLEAN : ChangeMusic(s, play, Paused(s), Orphaned(s))
    BY <1>3 DEF Choose, SongEnds, PlaybackInv, Typed
  <2> QED BY <1>1, <1>2, <2>1, PausedPiped, ChangeMusicInv
<1>4. CASE DoubleClick
  <2>1. PICK s \in Songs : ChangeMusic(s, TRUE, Paused(current), Orphaned(current))
    BY <1>4 DEF DoubleClick
  <2> DEFINE p == Paused(current)
  <2>2. /\ p \in Pipes /\ p.kind = pipe.kind /\ p.song = pipe.song
        /\ p.song = Empty => p = NoPipe
        /\ p.st = "playing" => p.kind = "stream"
    BY PausedCurrent
  <2> DEFINE b == Orphaned(current)
  <2>3. ChangeMusic(s, TRUE, p, b)
    BY <2>1
  <2> HIDE DEF p, b
  <2> QED BY <1>2, <2>2, <2>3, ChangeMusicInv
<1> QED BY <1>3, <1>4

LEMMA UnloadInv ==
  ASSUME PlaybackInv, ~crashed, Unload
  PROVE  PlaybackInv'
<1> USE DEF PlaybackInv, Typed, Unload
<1> DEFINE p == Paused(current)
<1>1. /\ p \in Pipes /\ p.kind = pipe.kind /\ p.song = pipe.song
      /\ p.song = Empty => p = NoPipe
      /\ p.st = "playing" => p.kind = "stream"
  BY PausedCurrent
<1>2. pipe' = p
  OBVIOUS
<1> HIDE DEF p
<1>3. Typed'
  BY <1>1, <1>2
<1>4. Resting' /\ Within' /\ Lined'
  BY <1>1, <1>2 DEF Resting, Within, Bounded, Lined, HasLyrics
<1>5. Empty \notin canonical
  BY PlaybackAssumption
<1>6. Piped' /\ Pushed'
  BY <1>1, <1>2, <1>5, PlaybackAssumption DEF Piped, Pushed, IsWav, NoPipe
<1> QED BY <1>3, <1>4, <1>6

LEMMA ButtonPlayInv ==
  ASSUME PlaybackInv, ~crashed, ButtonPlay
  PROVE  PlaybackInv'
<1> USE DEF PlaybackInv
<1>1. /\ current \in Songs /\ current # Empty /\ ~moving
      /\ UNCHANGED << current, canonical, wavOf, scale, index, rows, lyricRow, moving >>
      /\ pos \in Nat /\ needSeek \in BOOLEAN /\ isPlaying \in BOOLEAN
  BY DEF ButtonPlay, Typed, lyric
<1>2. crashed' = (~isPlaying /\ RunsOff(current, pos))
  BY DEF ButtonPlay
<1>3. Lined'
  BY <1>1 DEF Lined, HasLyrics, Lys
<1>4. CASE isPlaying
  <2> DEFINE p == Paused(current)
  <2>1. /\ p \in Pipes /\ p.kind = pipe.kind /\ p.song = pipe.song
        /\ p.song = Empty => p = NoPipe
        /\ p.st = "playing" => p.kind = "stream"
    BY PausedCurrent
  <2>2. PauseMusic(p, pos, needSeek)
    BY <1>4 DEF ButtonPlay
  <2> HIDE DEF p
  <2>3. /\ pipe' \in Pipes /\ isPlaying' = FALSE /\ needSeek' \in BOOLEAN
        /\ at' \in Nat /\ pos' \in Nat /\ played' \in Nat
        /\ Piped' /\ Pushed' /\ Bounded'
    BY <1>1, <2>1, <2>2, PauseFacts
  <2>4. crashed' = FALSE
    BY <1>2, <1>4
  <2>5. Typed' /\ Resting' /\ Within'
    BY <1>1, <2>3, <2>4 DEF Typed, Resting, Within
  <2> QED BY <1>3, <2>3, <2>5
<1>5. CASE ~isPlaying
  <2>1. PlayMusic(current, pipe, pos, needSeek) /\ pipe \in Pipes
    BY <1>5 DEF ButtonPlay, Typed
  <2>2. /\ pipe' \in Pipes /\ isPlaying' = TRUE /\ needSeek' \in BOOLEAN
        /\ at' \in Nat /\ pos' \in Nat /\ played' \in Nat
        /\ Piped'
        /\ ~RunsOff(current, pos) => Bounded' /\ Pushed'
    BY <1>1, <2>1, PlayFacts
  <2>3. crashed' = RunsOff(current, pos) /\ crashed' \in BOOLEAN
    BY <1>2, <1>5 DEF RunsOff, IsWav
  <2>4. Typed' /\ Resting'
    BY <1>1, <2>2, <2>3 DEF Typed, Resting
  <2>5. ~crashed' => Within'
    BY <1>1, <2>2, <2>3 DEF Within
  <2> QED BY <1>3, <2>2, <2>3, <2>4, <2>5
<1> QED BY <1>1, <1>4, <1>5

\* Seek, whichever button or line asks for it.
LEMMA SeekInv ==
  ASSUME PlaybackInv, ~crashed, current \in Songs, ~moving,
         NEW ms \in Nat, NEW row \in Nat, Seek(ms, row)
  PROVE  PlaybackInv'
<1> USE DEF PlaybackInv
<1> DEFINE to   == AtMost(ms, current)
<1> DEFINE from == IF to # scale THEN to ELSE ms
<1> DEFINE seek == needSeek \/ to # scale
<1>1. /\ scale' = to
      /\ IF isPlaying THEN PlayMusic(current, Paused(current), from, seek)
         ELSE PauseMusic(pipe, from, seek)
      /\ IF to # scale /\ HasLyrics(current) THEN ResetLyric(current, to)
         ELSE /\ lyricRow' = row /\ UNCHANGED << index, end >>
              /\ crashed' = (isPlaying /\ RunsOff(current, from))
      /\ UNCHANGED << current, canonical, wavOf, rows, moving >>
  BY DEF Seek
<1>2. to \in Nat /\ to <= Duration[current] /\ Duration[current] \in Nat
  BY AtMostFacts
<1> HIDE DEF to
<1>3. from \in Nat /\ seek \in BOOLEAN /\ isPlaying \in BOOLEAN /\ current # Empty
  BY <1>2, PlaybackAssumption DEF Typed
<1>4. Typed /\ Piped /\ Within /\ Lined /\ Resting
  OBVIOUS
<1>5. to # scale => ~RunsOff(current, from)
  <2>1. Floor(from) \in Nat /\ Floor(from) <= from
    BY <1>3, FloorFacts
  <2> QED BY <1>2, <2>1 DEF RunsOff
<1>6. /\ lyricRow' \in Nat /\ crashed' \in BOOLEAN
      /\ HasLyrics(current) => index' \in 0..(Len(Lys(current)) - 1)
  <2>1. CASE to # scale /\ HasLyrics(current)
    BY <1>1, <1>2, <1>4, <2>1, ResetFacts
  <2>2. CASE ~(to # scale /\ HasLyrics(current))
    <3>1. RunsOff(current, from) \in BOOLEAN
      BY DEF RunsOff, IsWav
    <3> HIDE DEF from, seek
    <3> QED BY <1>1, <1>3, <1>4, <2>2, <3>1 DEF Lined
  <2> QED BY <2>1, <2>2
<1>7. isPlaying /\ ~crashed' => ~RunsOff(current, from)
  <2> HIDE DEF from
  <2> QED BY <1>1, <1>5
<1> HIDE DEF from, seek
<1>8. /\ pipe' \in Pipes /\ isPlaying' = isPlaying /\ needSeek' \in BOOLEAN
      /\ at' \in Nat /\ pos' \in Nat /\ played' \in Nat
      /\ Piped'
      /\ ~crashed' => Bounded' /\ Pushed'
  <2>1. CASE isPlaying
    <3>1. Paused(current) \in Pipes /\ Paused(current).kind = pipe.kind
          /\ Paused(current).song = pipe.song
      BY <1>4, PausedFacts
    <3> DEFINE p == Paused(current)
    <3>2. PlayMusic(current, p, from, seek)
      BY <1>1, <2>1
    <3> HIDE DEF p
    <3> QED BY <1>1, <1>3, <1>7, <2>1, <3>1, <3>2, PlayFacts DEF p
  <2>2. CASE ~isPlaying
    <3>1. /\ pipe \in Pipes /\ PauseMusic(pipe, from, seek)
          /\ pipe.song = Empty => pipe = NoPipe
          /\ pipe.st = "playing" => pipe.kind = "stream"
      BY <1>1, <1>4, <2>2 DEF Typed, Piped
    <3> QED BY <1>1, <1>3, <2>2, <3>1, PauseFacts
  <2> QED BY <2>1, <2>2
<1>9. Typed' /\ Resting' /\ (~crashed' => Within')
  BY <1>1, <1>2, <1>3, <1>4, <1>6, <1>8 DEF Typed, Resting, Within
<1>10. Lined'
  BY <1>1, <1>4, <1>6 DEF Lined, HasLyrics, Lys
<1> QED BY <1>8, <1>9, <1>10

LEMMA SeekButtonsInv ==
  ASSUME PlaybackInv, ~crashed, Backward \/ Forward
  PROVE  PlaybackInv'
<1>1. pos \in Nat /\ lyricRow \in Nat /\ Typed
  BY DEF PlaybackInv, Typed
<1>2. Back \in Nat /\ Ahead \in Nat
  BY PlaybackAssumption
<1>3. CASE Backward
  <2>1. current \in Songs /\ ~moving
    BY <1>1, <1>3 DEF Backward, Typed
  <2> DEFINE ms == IF pos < Back THEN 0 ELSE pos - Back
  <2>2. Seek(ms, lyricRow) /\ ms \in Nat
    BY <1>1, <1>2, <1>3 DEF Backward
  <2> HIDE DEF ms
  <2> QED BY <1>1, <2>1, <2>2, SeekInv
<1>4. CASE Forward
  <2>1. current \in Songs /\ ~moving
    BY <1>1, <1>4 DEF Forward, Typed
  <2>2. pos + Ahead \in Nat
    BY <1>1, <1>2
  <2>3. AtMost(pos + Ahead, current) \in Nat
    BY <2>1, <2>2, AtMostFacts
  <2> QED BY <1>1, <1>4, <2>1, <2>3, SeekInv DEF Forward
<1> QED BY <1>3, <1>4

LEMMA LyricDoubleClickInv ==
  ASSUME PlaybackInv, ~crashed, LyricDoubleClick
  PROVE  PlaybackInv'
<1>1. PICK row \in 0..(rows-1) \cup {lyricRow} :
         IF row >= rows
         THEN crashed' = TRUE /\ UNCHANGED << current, media, sound, time, lyric, moving, fresh >>
         ELSE Seek(Lys(current)[row+1].startms, row)
  BY DEF LyricDoubleClick
<1>2. HasLyrics(current) /\ current \in Songs /\ ~moving
  BY DEF LyricDoubleClick, PlaybackInv, Typed, HasLyrics
<1>3. rows = Len(Lys(current)) /\ rows \in Nat
  BY <1>2, LysFacts DEF PlaybackInv, Lined
<1>4. row \in Nat
  BY <1>1, <1>3 DEF PlaybackInv, Typed
<1>5. CASE row >= rows
  BY <1>1, <1>5 DEF PlaybackInv, Typed, Resting, media, sound, time, lyric
<1>6. CASE ~(row >= rows)
  <2>1. row + 1 \in 1..Len(Lys(current))
    BY <1>3, <1>4, <1>6
  <2>2. Lys(current)[row+1].startms \in Nat
    BY <1>2, <2>1, LysFacts
  <2> QED BY <1>1, <1>2, <1>4, <1>6, <2>2, SeekInv
<1> QED BY <1>5, <1>6

LEMMA ScaleInv ==
  ASSUME PlaybackInv, ~crashed, ScalePress \/ ScaleMove \/ ScaleRelease
  PROVE  PlaybackInv'
<1> USE DEF PlaybackInv
<1>1. CASE ScalePress
  <2>1. /\ current # Empty /\ moving' = TRUE /\ PauseMusic(Paused(current), pos, needSeek)
        /\ UNCHANGED << current, canonical, wavOf, scale, index, rows, lyricRow, crashed >>
    BY <1>1 DEF ScalePress, lyric
  <2>2. pos \in Nat /\ needSeek \in BOOLEAN
    BY DEF Typed
  <2> DEFINE p == Paused(current)
  <2>3. /\ p \in Pipes /\ p.kind = pipe.kind /\ p.song = pipe.song
        /\ p.song = Empty => p = NoPipe
        /\ p.st = "playing" => p.kind = "stream"
    BY PausedCurrent
  <2>4. PauseMusic(p, pos, needSeek)
    BY <2>1
  <2> HIDE DEF p
  <2>5. /\ pipe' \in Pipes /\ isPlaying' = FALSE /\ needSeek' \in BOOLEAN
        /\ at' \in Nat /\ pos' \in Nat /\ played' \in Nat
        /\ Piped' /\ Pushed' /\ Bounded'
    BY <2>1, <2>2, <2>3, <2>4, PauseFacts
  <2>6. Typed' /\ Resting' /\ Within' /\ Lined'
    BY <2>1, <2>5 DEF Typed, Resting, Within, Lined, HasLyrics, Lys
  <2> QED BY <2>5, <2>6
<1>2. CASE ScaleMove
  <2>1. /\ moving \/ current # Empty
        /\ UNCHANGED << current, canonical, wavOf, isPlaying, pipe, at, queue, played, rows, moving >>
    BY <1>2 DEF ScaleMove, media, sound
  <2>2. PICK k \in 0..(Duration[current] \div Step) :
          /\ scale' = Step * k /\ pos' = Step * k /\ needSeek' = TRUE
          /\ IF moving /\ HasLyrics(current) THEN ResetLyric(current, Step * k)
             ELSE UNCHANGED << index, end, lyricRow, crashed >>
    BY <1>2 DEF ScaleMove
  <2>3. current \in Songs /\ Duration[current] \in Nat
    BY <2>1, PlaybackAssumption DEF Typed, Resting
  <2>4. scale' \in Nat /\ scale' <= Duration[current]
    BY <2>2, <2>3, StepsFacts
  <2>5. /\ lyricRow' \in Nat /\ crashed' \in BOOLEAN
        /\ HasLyrics(current) => index' \in 0..(Len(Lys(current)) - 1)
    <3>1. CASE moving /\ HasLyrics(current)
      <4>1. ResetLyric(current, scale')
        BY <2>2, <3>1
      <4> QED BY <2>3, <2>4, <3>1, <4>1, ResetFacts
    <3>2. CASE ~(moving /\ HasLyrics(current))
      BY <2>2, <3>2 DEF Typed, Lined
    <3> QED BY <3>1, <3>2
  <2>6. Typed' /\ Resting' /\ Within'
    BY <2>1, <2>2, <2>4, <2>5 DEF Typed, Resting, Within, Bounded
  <2>7. Lined'
    BY <2>1, <2>5 DEF Lined, HasLyrics, Lys
  <2>8. Piped' /\ Pushed'
    BY <2>1 DEF Piped, Pushed, IsWav, Bytes, Floor
  <2> QED BY <2>6, <2>7, <2>8
<1>3. CASE ScaleRelease
  BY <1>3 DEF ScaleRelease, media, sound, time, lyric, Typed, Resting, Within, Bounded, Piped,
              Pushed, Lined, IsWav, Bytes, Floor, HasLyrics, Lys
<1> QED BY <1>1, <1>2, <1>3

LEMMA PlayOnInv ==
  ASSUME PlaybackInv, ~crashed, PlayOn
  PROVE  PlaybackInv'
<1> USE DEF PlaybackInv
<1>1. /\ at' = AtMost(at + Step, pipe.song) /\ at < Duration[pipe.song]
      /\ UNCHANGED << current, canonical, wavOf, isPlaying, pipe, queue, played, pos, scale,
                      needSeek, index, rows, lyricRow, moving, crashed >>
  BY DEF PlayOn, media, sound, time, lyric
<1>2. pipe.song \in Songs /\ at \in Nat
  BY DEF PlayOn, Typed, Pipes, Piped, NoPipe
<1>3. Step \in Nat \ {0} /\ Duration[pipe.song] \in Nat
  BY <1>2, PlaybackAssumption
<1>4. at' \in Nat /\ at' <= Duration[pipe.song] /\ at <= at'
  BY <1>1, <1>2, <1>3 DEF AtMost
<1>5. Typed' /\ Resting' /\ Within'
  BY <1>1, <1>4 DEF Typed, Resting, Within, Bounded
<1>6. Piped' /\ Lined'
  BY <1>1 DEF Piped, Lined, IsWav, HasLyrics, Lys
<1>7. Floor(played) \in Nat
  BY FloorFacts DEF Typed
<1>8. Pushed'
  <2>1. SUFFICES ASSUME isPlaying, IsWav(current) PROVE Pushed'
    BY <1>1 DEF Pushed, IsWav
  <2>2. Floor(played) <= at'
    BY <1>2, <1>4, <1>7, <2>1 DEF Pushed
  <2> QED BY <1>1, <2>1, <2>2 DEF Pushed, IsWav, Floor, Bytes
<1> QED BY <1>5, <1>6, <1>8

\* What a BufferedAudio does by itself concerns no pipeline but a stream's.
LEMMA StreamTurnsInv ==
  ASSUME PlaybackInv, ~crashed, StreamTurns
  PROVE  PlaybackInv'
<1> USE DEF PlaybackInv
<1>1. UNCHANGED << current, canonical, wavOf, isPlaying, at, queue, pos, played, scale, needSeek,
                   index, rows, lyricRow, moving, crashed >>
  BY DEF StreamTurns, time, lyric
<1>2. CASE pipe' = pipe
  BY <1>1, <1>2 DEF Typed, Resting, Within, Bounded, Piped, Pushed, Lined, IsWav, Bytes, Floor,
                    HasLyrics, Lys
<1>3. CASE pipe' # pipe
  <2>1. /\ pipe.kind = "stream" /\ pipe \in Pipes
        /\ pipe' = [pipe EXCEPT !.st = IF @ = "playing" THEN "paused" ELSE "playing"]
    BY <1>3 DEF StreamTurns, Typed
  <2>2. pipe' \in Pipes /\ pipe'.kind = "stream" /\ pipe'.song = pipe.song /\ pipe.song # Empty
    BY <2>1 DEF Pipes, Piped, NoPipe
  <2>3. Typed' /\ Resting' /\ Within'
    BY <1>1, <2>2 DEF Typed, Resting, Within, Bounded
  <2>4. Piped'
    BY <1>1, <2>2 DEF Piped, IsWav
  <2>5. Pushed' /\ Lined'
    BY <1>1, <2>2 DEF Pushed, Lined, IsWav, Bytes, Floor, HasLyrics, Lys
  <2> QED BY <2>3, <2>4, <2>5
<1> QED BY <1>2, <1>3

LEMMA TickInv ==
  ASSUME PlaybackInv, ~crashed, Tick
  PROVE  PlaybackInv'
<1> USE DEF PlaybackInv
<1> DEFINE to == AtMost(Shown, current)
<1> DEFINE here == IF IsWav(current) THEN at - Floor(played) ELSE at
<1>1. /\ isPlaying /\ scale' = to
      /\ IF to # scale THEN pos' = to /\ needSeek' = TRUE
         ELSE pos' = here /\ UNCHANGED needSeek
      /\ NextLine(pos')
      /\ UNCHANGED << current, canonical, wavOf, isPlaying, pipe, at, queue, played, rows, moving,
                      crashed >>
  BY DEF Tick, media, sound
<1>2. current \in Songs
  BY <1>1 DEF Typed, Resting
<1>3. at \in Nat /\ played \in Nat /\ Floor(played) \in Nat /\ (IsWav(current) => Floor(played) <= at)
  BY <1>1, FloorFacts DEF Typed, Pushed
<1>4. here \in Nat /\ Shown \in Nat
  BY <1>3 DEF Shown
<1>5. to \in Nat /\ to <= Duration[current]
  BY <1>2, <1>4, AtMostFacts
<1>6. /\ lyricRow' \in Nat
      /\ HasLyrics(current) => index' \in 0..(Len(Lys(current)) - 1)
  <2>1. CASE HasLyrics(current) /\ pos' > end /\ index # Len(Lys(current)) - 1
    <3>1. index' = index + 1 /\ lyricRow' = index'
      BY <1>1, <2>1 DEF NextLine
    <3>2. index \in 0..(Len(Lys(current)) - 1) /\ Len(Lys(current)) \in Nat
      BY <1>2, <2>1, LysFacts DEF Lined
    <3> QED BY <2>1, <3>1, <3>2
  <2>2. CASE ~(HasLyrics(current) /\ pos' > end /\ index # Len(Lys(current)) - 1)
    BY <1>1, <2>2 DEF NextLine, Typed, Lined
  <2> QED BY <2>1, <2>2
<1> HIDE DEF to, here
<1>7. Typed'
  BY <1>1, <1>4, <1>5, <1>6 DEF Typed
<1>8. Resting' /\ Within'
  BY <1>1, <1>5 DEF Resting, Within, Bounded
<1>9. Piped' /\ Pushed' /\ Lined'
  BY <1>1, <1>6 DEF Piped, Pushed, IsWav, Bytes, Floor, Lined, HasLyrics, Lys
<1> QED BY <1>7, <1>8, <1>9

LEMMA NextInv == PlaybackInv /\ [Next]_vars => PlaybackInv'
<1> SUFFICES ASSUME PlaybackInv, [Next]_vars PROVE PlaybackInv'
  OBVIOUS
<1>1. CASE Next
  BY <1>1, ChoiceInv, UnloadInv, ButtonPlayInv, SeekButtonsInv, LyricDoubleClickInv, ScaleInv,
     PlayOnInv, StreamTurnsInv, TickInv DEF Next, ButtonStep, PointerStep, ClockStep
<1>2. CASE UNCHANGED vars
  BY <1>2 DEF vars, media, sound, time, lyric, PlaybackInv, Typed, Resting, Within, Bounded,
              Piped, Pushed, Lined, IsWav, Bytes, Floor, HasLyrics, Lys
<1> QED BY <1>1, <1>2

LEMMA Invariance == Spec => []PlaybackInv
BY InitInv, NextInv, PTL DEF Spec

---------------------------------------------------------------------------
(* The theorems. *)

\* The position and the scale stay within the song, the line within the list
\* of its lyrics, and the music rests while the scale is held.
THEOREM TypeCorrect == Spec => []TypeOK
<1>1. PlaybackInv => TypeOK
  <2> SUFFICES ASSUME PlaybackInv PROVE TypeOK
    OBVIOUS
  <2> USE DEF PlaybackInv
  <2>1. current \in Songs \cup {Empty} /\ 0 <= at /\ 0 <= scale
        /\ pipe.st \in {"null", "playing", "paused", "freed"}
    BY DEF Typed, Pipes
  <2>2. /\ ~crashed /\ pipe.song # Empty => at <= Duration[pipe.song]
        /\ ~crashed /\ current # Empty => scale <= Duration[current]
    BY DEF Within, Bounded
  <2>3. ~crashed /\ HasLyrics(current) => index \in 0..(rows-1) /\ rows = Len(Lys(current))
    BY DEF Lined
  <2>4. moving => current # Empty /\ ~isPlaying
    BY DEF Resting
  <2> QED BY <2>1, <2>2, <2>3, <2>4 DEF TypeOK
<1> QED BY <1>1, Invariance, PTL

\* What `pipeline' plays is the current song while IsPlaying is set, and
\* nothing, unless it is a stream, while it is not.
THEOREM OnePipeline == Spec => []PlayingIsCurrent
<1>1. PlaybackInv => PlayingIsCurrent
  BY DEF PlaybackInv, PlayingIsCurrent, Piped, Pushed, Resting, Typed
<1> QED BY <1>1, Invariance, PTL

\* PlayMusic pushes the data of a wav from the position to its end.
THEOREM DataIsWhole == Spec => []PushedIsWhole
<1>1. PlaybackInv => PushedIsWhole
  <2> SUFFICES ASSUME PlaybackInv, ~crashed, isPlaying, IsWav(current) PROVE PushedIsWhole
    BY DEF PushedIsWhole
  <2> USE DEF PlaybackInv
  <2> DEFINE size == Bytes(Duration[current])
  <2> DEFINE off == Bytes(Floor(played))
  <2>1. current \in Songs /\ Duration[current] \in Nat
    BY PlaybackAssumption DEF Typed, Resting
  <2>2. Floor(played) \in Nat /\ Floor(played) <= Duration[current]
    <3>1. Floor(played) \in Nat
      BY FloorFacts DEF Typed
    <3>2. at \in Nat /\ at <= Duration[current] /\ Floor(played) <= at
      BY <2>1, PlaybackAssumption DEF Typed, Within, Bounded, Piped, Pushed
    <3> QED BY <2>1, <3>1, <3>2
  <2>3. size \in Nat /\ off \in Nat /\ off <= size
    BY <2>1, <2>2, BytesFacts
  <2>4. queue = Buffers(size, off)
    BY DEF Pushed
  <2> HIDE DEF size, off
  <2> QED BY <2>3, <2>4, BuffersFacts DEF PushedIsWhole, size, off
<1> QED BY <1>1, Invariance, PTL

---------------------------------------------------------------------------
(* The line that is shown, when the user waits for a tick before he acts,   *)
(* moves the scale only while it is pressed, and no lyric starts before     *)
(* zero: an offset that makes one start there gives it a time too large for *)
(* an int.  The lyrics of a peer's song are not on this disk: they are the  *)
(* one empty line.                                                          *)

Orderly ==
    /\ Patient /\ ~Scrolls
    /\ \A s \in Songs : HasLyrics(s) =>
         /\ Kind[s] = "stream" => Len(Lys(s)) = 1
         /\ \A i \in 1..Len(Lys(s)) : Lys(s)[i].startms < Word \div 2

\* What LyricNotAhead needs to be inductive: the line has begun and knows its
\* end; what is heard, and what will be heard when it goes on, is not before
\* the scale.
Begun == HasLyrics(current) =>
    /\ \A i \in 1..(index+1) : Lys(current)[i].startms <= scale
    /\ end = Signed(Lys(current)[index+1].endms)
Onward == current # Empty /\ Kind[current] # "stream" =>
    /\ ~IsWav(current) => pipe.kind = "bin"
    /\ isPlaying => Shown >= scale
    /\ isPlaying /\ ~fresh => pos = scale
    /\ ~isPlaying => pos >= scale
    /\ ~IsWav(current) /\ ~needSeek => at >= scale
LyricInv == ~crashed => Begun /\ Onward

LEMMA StartFacts ==
  ASSUME Orderly, NEW s \in Songs, HasLyrics(s)
  PROVE  /\ Lys(s)[1].startms = 0
         /\ \A i \in 1..(Len(Lys(s)) - 1) : Signed(Lys(s)[i].endms) = Lys(s)[i+1].startms
<1>1. LyricFile[s] \in LyricFiles
  BY PlaybackAssumption DEF HasLyrics
<1>2. /\ Len(Lys(s)) \in Nat \ {0} /\ Lys(s)[1].startms = 0
      /\ \A i \in 1..(Len(Lys(s)) - 1) : Lys(s)[i].endms = Lys(s)[i+1].startms
  BY <1>1, LyricsOfAFile DEF Lys
<1>3. \A i \in 1..Len(Lys(s)) : Lys(s)[i].startms < Word \div 2
  BY DEF Orderly
<1>4. ASSUME NEW i \in 1..(Len(Lys(s)) - 1) PROVE Signed(Lys(s)[i].endms) = Lys(s)[i+1].startms
  <2>1. i + 1 \in 1..Len(Lys(s))
    BY <1>2
  <2> QED BY <1>2, <1>3, <2>1 DEF Signed
<1> QED BY <1>2, <1>4

\* ResetLyric, for a position within the song.
LEMMA ResetBegun ==
  ASSUME NEW s \in Songs, HasLyrics(s), NEW ms \in Nat, ms <= Duration[s], ResetLyric(s, ms)
  PROVE  /\ \A i \in 1..(index'+1) : Lys(s)[i].startms <= ms
         /\ end' = Signed(Lys(s)[index'+1].endms)
<1>1. LyricFile[s] \in LyricFiles
  BY PlaybackAssumption DEF HasLyrics
<1>2. Unsigned(ms) = ms
  <2>1. Duration[s] \in Nat /\ Duration[s] < Word \div 2
    BY PlaybackAssumption
  <2> QED BY <2>1, WordAssumption DEF Unsigned
<1>3. \A i \in 1..(index'+1) : Lys(s)[i].startms <= Unsigned(ms)
  <2>1. ms \in Int /\ index' = GetLyricIndex(Lrc(LyricFile[s]), ms)
    BY DEF ResetLyric, Lys
  <2> QED BY <1>1, <2>1, LineOfATime DEF Lys
<1> QED BY <1>2, <1>3 DEF ResetLyric

\* The line and the song are left alone, and the scale does not go back.
LEMMA BegunKept ==
  ASSUME PlaybackInv, ~crashed, LyricInv, UNCHANGED << current, index, end >>,
         scale' \in Nat, scale' >= scale
  PROVE  Begun'
<1> SUFFICES ASSUME HasLyrics(current)
             PROVE  /\ \A i \in 1..(index+1) : Lys(current)[i].startms <= scale'
                    /\ end = Signed(Lys(current)[index+1].endms)
  BY DEF Begun, HasLyrics, Lys
<1>1. current \in Songs /\ scale \in Nat
  BY DEF HasLyrics, PlaybackInv, Typed
<1>2. rows = Len(Lys(current)) /\ index \in 0..(rows-1) /\ rows \in Nat
  BY <1>1, LysFacts DEF PlaybackInv, Lined
<1>3. ASSUME NEW i \in 1..(index+1) PROVE Lys(current)[i].startms <= scale'
  <2>1. i \in 1..Len(Lys(current))
    BY <1>2
  <2>2. Lys(current)[i].startms \in Nat
    BY <1>1, <2>1, LysFacts
  <2> QED BY <1>1, <2>2 DEF LyricInv, Begun
<1> QED BY <1>3 DEF LyricInv, Begun

\* PlayMusic, from the scale or after it.
LEMMA PlayOnward ==
  ASSUME PlaybackInv, ~crashed, LyricInv, current \in Songs,
         NEW p \in Pipes, p.kind = pipe.kind,
         NEW from \in Nat, NEW seek \in BOOLEAN,
         PlayMusic(current, p, from, seek), UNCHANGED << current, canonical >>,
         scale' \in Nat, scale' <= Duration[current], from >= scale',
         ~seek /\ ~needSeek => scale' = scale, needSeek => seek
  PROVE  Onward'
<1> SUFFICES ASSUME Kind[current] # "stream" PROVE Onward'
  BY DEF Onward
<1>1. Onward /\ current # Empty /\ at \in Nat
  BY PlaybackAssumption DEF LyricInv, PlaybackInv, Typed
<1>2. Floor(from) \in Nat
  BY FloorFacts
<1>3. CASE IsWav(current)
  <2>1. at' = Floor(from) /\ played' = from /\ isPlaying' = TRUE /\ fresh' = TRUE /\ IsWav(current)'
    BY <1>3 DEF PlayMusic, IsWav
  <2>2. Floor(played)' = Floor(from)
    BY <2>1 DEF Floor
  <2>3. Shown' = from
    BY <1>2, <2>1, <2>2 DEF Shown
  <2> QED BY <2>1, <2>3 DEF Onward
<1>4. CASE ~IsWav(current)
  <2>1. /\ pipe' = [p EXCEPT !.st = "playing"] /\ isPlaying' = TRUE /\ fresh' = TRUE
        /\ at' = IF seek /\ p.kind = "bin" THEN AtMost(from, current) ELSE at
        /\ ~IsWav(current)'
    BY <1>4 DEF PlayMusic, IsWav
  <2>2. p.kind = "bin" /\ pipe'.kind = "bin"
    BY <1>1, <1>4, <2>1 DEF Onward, Pipes
  <2>3. at' >= scale'
    <3>1. CASE seek
      <4>1. Duration[current] \in Nat
        BY PlaybackAssumption
      <4> QED BY <2>1, <2>2, <3>1, <4>1 DEF AtMost
    <3>2. CASE ~seek
      BY <1>1, <1>4, <2>1, <3>2 DEF Onward
    <3> QED BY <3>1, <3>2
  <2>4. Shown' = at'
    BY <2>1 DEF Shown
  <2> QED BY <2>1, <2>2, <2>3, <2>4 DEF Onward
<1> QED BY <1>3, <1>4

LEMMA PauseOnward ==
  ASSUME PlaybackInv, ~crashed, LyricInv, current \in Songs,
         NEW p \in Pipes, p.kind = pipe.kind,
         NEW from \in Nat, NEW seek \in BOOLEAN,
         PauseMusic(p, from, seek), UNCHANGED << current, canonical >>,
         scale' \in Nat, from >= scale',
         ~seek /\ ~needSeek => scale' = scale, needSeek => seek
  PROVE  Onward'
<1> SUFFICES ASSUME Kind[current] # "stream" PROVE Onward'
  BY DEF Onward
<1>1. Onward /\ current # Empty
  BY PlaybackAssumption DEF LyricInv
<1>2. /\ pipe' = p /\ isPlaying' = FALSE /\ pos' = from /\ needSeek' = seek /\ at' = at
      /\ IsWav(current)' = IsWav(current)
  BY DEF PauseMusic, IsWav
<1> QED BY <1>1, <1>2 DEF Onward

LEMMA ChangeMusicLyric ==
  ASSUME PlaybackInv, ~crashed, NEW s \in Songs, NEW play \in BOOLEAN,
         NEW p, NEW b, ChangeMusic(s, play, p, b)
  PROVE  LyricInv'
<1> SUFFICES ASSUME ~crashed' PROVE Begun' /\ Onward'
  BY DEF LyricInv
<1> DEFINE canon == IF Opens(s) /\ s \notin Readable THEN canonical \ {s} ELSE canonical
<1> DEFINE q == Loaded(s, p, canon)
<1> DEFINE data == s \in canon /\ play
<1>1. /\ current' = s /\ canonical' = canon /\ isPlaying' = play /\ fresh' = play
      /\ at' = IF s \in canon /\ ~play THEN at ELSE 0
      /\ scale' = 0 /\ pos' = 0 /\ played' = 0
      /\ pipe' = IF data THEN [kind |-> "wav", song |-> s, st |-> "playing"]
                   ELSE IF play THEN [q EXCEPT !.st = "playing"] ELSE q
      /\ HasLyrics(s) => ResetLyric(s, 0)
  BY DEF ChangeMusic
<1>2. Begun'
  <2>1. SUFFICES ASSUME HasLyrics(s)
                 PROVE  /\ \A i \in 1..(index'+1) : Lys(s)[i].startms <= 0
                        /\ end' = Signed(Lys(s)[index'+1].endms)
    BY <1>1 DEF Begun, HasLyrics, Lys
  <2>2. Duration[s] \in Nat /\ 0 <= Duration[s]
    BY PlaybackAssumption
  <2> QED BY <1>1, <2>1, <2>2, ResetBegun
<1>3. Onward'
  <2>1. IsWav(s)' <=> s \in canon
    BY <1>1 DEF IsWav
  <2>2. Kind[s] # "stream" /\ s \notin canon => q = [kind |-> "bin", song |-> s, st |-> "null"]
    BY DEF Loaded
  <2>3. Kind[s] # "stream" /\ s \notin canon => pipe'.kind = "bin"
    BY <1>1, <2>2
  <2>4. Floor(played)' = 0
    <3>1. Floor(0) = 0
      BY FloorFacts
    <3> QED BY <1>1, <3>1 DEF Floor
  <2>5. ~(s \in canon /\ ~play) => Shown' = 0 /\ at' = 0
    BY <1>1, <2>4 DEF Shown
  <2> HIDE DEF canon, q, data
  <2> QED BY <1>1, <2>1, <2>3, <2>5 DEF Onward, IsWav
<1> QED BY <1>2, <1>3

LEMMA SeekLyric ==
  ASSUME PlaybackInv, ~crashed, LyricInv, current \in Songs,
         NEW ms \in Nat, NEW row \in Nat, Seek(ms, row)
  PROVE  LyricInv'
<1> DEFINE to   == AtMost(ms, current)
<1> DEFINE from == IF to # scale THEN to ELSE ms
<1> DEFINE seek == needSeek \/ to # scale
<1>1. /\ scale' = to
      /\ IF isPlaying THEN PlayMusic(current, Paused(current), from, seek)
         ELSE PauseMusic(pipe, from, seek)
      /\ IF to # scale /\ HasLyrics(current) THEN ResetLyric(current, to)
         ELSE UNCHANGED << index, end >>
      /\ UNCHANGED << current, canonical >>
  BY DEF Seek
<1>2. to \in Nat /\ to <= Duration[current] /\ to <= ms
  BY AtMostFacts
<1> HIDE DEF to
<1>3. from \in Nat /\ from >= to /\ seek \in BOOLEAN /\ scale \in Nat
  BY <1>2 DEF PlaybackInv, Typed
<1>4. (~seek /\ ~needSeek => scale' = scale) /\ (needSeek => seek)
  BY <1>1
<1> HIDE DEF from, seek
<1>5. Onward'
  <2>1. CASE isPlaying
    <3> DEFINE p == Paused(current)
    <3>1. p \in Pipes /\ p.kind = pipe.kind
      BY PausedFacts DEF PlaybackInv
    <3>2. PlayMusic(current, p, from, seek)
      BY <1>1, <2>1
    <3> HIDE DEF p
    <3> QED BY <1>1, <1>2, <1>3, <1>4, <3>1, <3>2, PlayOnward
  <2>2. CASE ~isPlaying
    <3>1. pipe \in Pipes /\ PauseMusic(pipe, from, seek)
      BY <1>1, <2>2 DEF PlaybackInv, Typed
    <3> QED BY <1>1, <1>2, <1>3, <1>4, <3>1, PauseOnward
  <2> QED BY <2>1, <2>2
<1>6. Begun'
  <2>1. CASE to # scale /\ HasLyrics(current)
    <3>1. /\ \A i \in 1..(index'+1) : Lys(current)[i].startms <= to
          /\ end' = Signed(Lys(current)[index'+1].endms)
      BY <1>1, <1>2, <2>1, ResetBegun
    <3> QED BY <1>1, <3>1 DEF Begun, HasLyrics, Lys
  <2>2. CASE ~HasLyrics(current)
    BY <1>1, <2>2 DEF Begun, HasLyrics
  <2>3. CASE to = scale
    BY <1>1, <1>2, <1>3, <2>3, BegunKept
  <2> QED BY <2>1, <2>2, <2>3
<1> QED BY <1>5, <1>6 DEF LyricInv

LEMMA ButtonsLyric ==
  ASSUME Orderly, PlaybackInv, ~crashed, LyricInv,
         Choose \/ DoubleClick \/ SongEnds \/ Unload \/ Backward \/ Forward \/ LyricDoubleClick
  PROVE  LyricInv'
<1>1. CASE Choose \/ DoubleClick \/ SongEnds
  <2>1. PICK s \in Songs, play \in BOOLEAN : \E p, b : ChangeMusic(s, play, p, b)
    BY <1>1 DEF Choose, DoubleClick, SongEnds, PlaybackInv, Typed
  <2> QED BY <2>1, ChangeMusicLyric
<1>2. CASE Unload
  BY <1>2 DEF Unload, LyricInv, Begun, Onward, HasLyrics
<1>3. pos \in Nat /\ lyricRow \in Nat /\ current \in Songs \cup {Empty}
  BY DEF PlaybackInv, Typed
<1>4. CASE Backward
  <2> DEFINE ms == IF pos < Back THEN 0 ELSE pos - Back
  <2>1. Seek(ms, lyricRow) /\ ms \in Nat /\ current \in Songs
    BY <1>3, <1>4, PlaybackAssumption DEF Backward
  <2> HIDE DEF ms
  <2> QED BY <1>3, <2>1, SeekLyric
<1>5. CASE Forward
  <2>1. current \in Songs /\ pos + Ahead \in Nat
    BY <1>3, <1>5, PlaybackAssumption DEF Forward
  <2>2. AtMost(pos + Ahead, current) \in Nat
    BY <2>1, AtMostFacts
  <2> QED BY <1>3, <1>5, <2>1, <2>2, SeekLyric DEF Forward
<1>6. CASE LyricDoubleClick
  <2>1. PICK row \in 0..(rows-1) \cup {lyricRow} :
           IF row >= rows THEN crashed' = TRUE ELSE Seek(Lys(current)[row+1].startms, row)
    BY <1>6 DEF LyricDoubleClick
  <2>2. HasLyrics(current) /\ current \in Songs
    BY <1>3, <1>6 DEF LyricDoubleClick, HasLyrics
  <2>3. rows = Len(Lys(current)) /\ rows \in Nat
    BY <2>2, LysFacts DEF PlaybackInv, Lined
  <2>4. row \in Nat
    BY <1>3, <2>1, <2>3
  <2>5. CASE row >= rows
    BY <2>1, <2>5 DEF LyricInv
  <2>6. CASE ~(row >= rows)
    <3>1. row + 1 \in 1..Len(Lys(current))
      BY <2>3, <2>4, <2>6
    <3>2. Lys(current)[row+1].startms \in Nat
      BY <2>2, <3>1, LysFacts
    <3> QED BY <2>1, <2>2, <2>4, <2>6, <3>2, SeekLyric
  <2> QED BY <2>5, <2>6
<1> QED BY <1>1, <1>2, <1>4, <1>5, <1>6

LEMMA ButtonPlayLyric ==
  ASSUME Orderly, PlaybackInv, ~crashed, LyricInv, ButtonPlay
  PROVE  LyricInv'
<1>1. /\ current \in Songs /\ current # Empty
      /\ UNCHANGED << current, canonical, scale, index, end >>
      /\ pos \in Nat /\ needSeek \in BOOLEAN /\ isPlaying \in BOOLEAN /\ scale \in Nat
      /\ pipe \in Pipes
  BY DEF ButtonPlay, PlaybackInv, Typed, lyric
<1>2. scale <= Duration[current]
  BY <1>1 DEF PlaybackInv, Within
<1>3. Begun'
  BY <1>1, BegunKept
<1>4. CASE Kind[current] = "stream"
  BY <1>1, <1>3, <1>4 DEF LyricInv, Onward
<1>5. CASE Kind[current] # "stream"
  <2>1. pos >= scale
    <3>1. ~fresh
      BY DEF ButtonPlay, Waited, Orderly
    <3> QED BY <1>1, <1>5, <3>1 DEF LyricInv, Onward
  <2>2. CASE isPlaying
    <3> DEFINE p == Paused(current)
    <3>1. p \in Pipes /\ p.kind = pipe.kind
      BY PausedFacts DEF PlaybackInv
    <3>2. PauseMusic(p, pos, needSeek)
      BY <2>2 DEF ButtonPlay
    <3> HIDE DEF p
    <3> QED BY <1>1, <1>3, <2>1, <3>1, <3>2, PauseOnward DEF LyricInv
  <2>3. CASE ~isPlaying
    <3>1. PlayMusic(current, pipe, pos, needSeek)
      BY <2>3 DEF ButtonPlay
    <3> QED BY <1>1, <1>2, <1>3, <2>1, <3>1, PlayOnward DEF LyricInv
  <2> QED BY <1>1, <2>2, <2>3
<1> QED BY <1>4, <1>5

LEMMA ScaleLyric ==
  ASSUME Orderly, PlaybackInv, ~crashed, LyricInv, ScalePress \/ ScaleMove \/ ScaleRelease
  PROVE  LyricInv'
<1>0. scale \in Nat /\ pos \in Nat /\ needSeek \in BOOLEAN /\ current \in Songs \cup {Empty}
      /\ pipe \in Pipes /\ isPlaying \in BOOLEAN
  BY DEF PlaybackInv, Typed
<1>1. CASE ScalePress
  <2>1. /\ current \in Songs /\ UNCHANGED << current, canonical, scale, index, end >>
        /\ PauseMusic(Paused(current), pos, needSeek) /\ ~fresh
    BY <1>0, <1>1 DEF ScalePress, lyric, Waited, Orderly
  <2>2. Begun'
    BY <1>0, <2>1, BegunKept
  <2>3. CASE Kind[current] = "stream"
    BY <2>1, <2>2, <2>3 DEF LyricInv, Onward
  <2>4. CASE Kind[current] # "stream"
    <3> DEFINE p == Paused(current)
    <3>1. p \in Pipes /\ p.kind = pipe.kind
      BY PausedFacts DEF PlaybackInv
    <3>2. PauseMusic(p, pos, needSeek)
      BY <2>1
    <3> HIDE DEF p
    <3>3. pos >= scale
      BY <1>0, <2>1, <2>4, PlaybackAssumption DEF LyricInv, Onward
    <3> QED BY <1>0, <2>1, <2>2, <3>1, <3>2, <3>3, PauseOnward DEF LyricInv
  <2> QED BY <2>3, <2>4
<1>2. CASE ScaleMove
  <2>1. /\ moving /\ ~isPlaying /\ current \in Songs
        /\ UNCHANGED << current, canonical, isPlaying, pipe, at, played >>
    BY <1>0, <1>2 DEF ScaleMove, Orderly, PlaybackInv, Resting, media, sound
  <2>2. PICK k \in 0..(Duration[current] \div Step) :
          /\ scale' = Step * k /\ pos' = Step * k /\ needSeek' = TRUE
          /\ HasLyrics(current) => ResetLyric(current, Step * k)
    BY <1>2, <2>1 DEF ScaleMove
  <2>3. Duration[current] \in Nat
    BY <2>1, PlaybackAssumption
  <2>4. scale' \in Nat /\ scale' <= Duration[current]
    BY <2>2, <2>3, StepsFacts
  <2>5. Begun'
    <3>1. HasLyrics(current) =>
             /\ \A i \in 1..(index'+1) : Lys(current)[i].startms <= scale'
             /\ end' = Signed(Lys(current)[index'+1].endms)
      <4>1. SUFFICES ASSUME HasLyrics(current)
                     PROVE  /\ \A i \in 1..(index'+1) : Lys(current)[i].startms <= scale'
                            /\ end' = Signed(Lys(current)[index'+1].endms)
        OBVIOUS
      <4>2. ResetLyric(current, scale')
        BY <2>2, <4>1
      <4> QED BY <2>1, <2>4, <4>1, <4>2, ResetBegun
    <3> QED BY <2>1, <3>1 DEF Begun, HasLyrics, Lys
  <2>6. Onward'
    BY <2>1, <2>2, <2>4 DEF LyricInv, Onward, IsWav
  <2> QED BY <2>5, <2>6 DEF LyricInv
<1>3. CASE ScaleRelease
  BY <1>3 DEF ScaleRelease, LyricInv, Begun, Onward, HasLyrics, Lys, IsWav, Shown, Floor,
              media, sound, time, lyric
<1> QED BY <1>1, <1>2, <1>3

LEMMA PlayOnLyric ==
  ASSUME PlaybackInv, ~crashed, LyricInv, PlayOn
  PROVE  LyricInv'
<1>1. /\ at' = AtMost(at + Step, pipe.song) /\ at < Duration[pipe.song]
      /\ UNCHANGED << current, canonical, isPlaying, pipe, played, pos, scale, needSeek,
                      index, end, fresh >>
  BY DEF PlayOn, media, sound, time, lyric
<1>2. pipe.song \in Songs /\ at \in Nat /\ scale \in Nat /\ played \in Nat
  BY DEF PlayOn, PlaybackInv, Typed, Pipes, Piped, NoPipe
<1>3. Step \in Nat \ {0} /\ Duration[pipe.song] \in Nat
  BY <1>2, PlaybackAssumption
<1>4. at' \in Nat /\ at <= at'
  BY <1>1, <1>2, <1>3 DEF AtMost
<1>5. Begun'
  BY <1>1, <1>2, BegunKept
<1>6. Floor(played) \in Nat /\ Floor(played)' = Floor(played) /\ IsWav(current)' = IsWav(current)
  BY <1>1, <1>2, FloorFacts DEF Floor, IsWav
<1>7. Shown' >= Shown /\ Shown \in Int /\ Shown' \in Int
  BY <1>1, <1>2, <1>4, <1>6 DEF Shown
<1> QED BY <1>1, <1>2, <1>4, <1>5, <1>6, <1>7 DEF LyricInv, Onward

LEMMA StreamTurnsLyric ==
  ASSUME PlaybackInv, ~crashed, LyricInv, StreamTurns
  PROVE  LyricInv'
<1>1. UNCHANGED << current, canonical, isPlaying, at, played, pos, scale, needSeek,
                   index, end, fresh >>
  BY DEF StreamTurns, time, lyric
<1>2. pipe'.kind = pipe.kind
  BY DEF StreamTurns, PlaybackInv, Typed, Pipes
<1>3. Begun'
  BY <1>1 DEF LyricInv, Begun, HasLyrics, Lys
<1>4. Onward'
  BY <1>1, <1>2 DEF LyricInv, Onward, IsWav, Shown, Floor
<1> QED BY <1>3, <1>4 DEF LyricInv

LEMMA TickLyric ==
  ASSUME Orderly, PlaybackInv, ~crashed, LyricInv, Tick
  PROVE  LyricInv'
<1> DEFINE to == AtMost(Shown, current)
<1> DEFINE here == IF IsWav(current) THEN at - Floor(played) ELSE at
<1>1. /\ isPlaying /\ scale' = to
      /\ IsWav(current) => to # scale
      /\ IF to # scale THEN pos' = to /\ needSeek' = TRUE
         ELSE pos' = here /\ UNCHANGED needSeek
      /\ NextLine(pos') /\ fresh' = FALSE
      /\ UNCHANGED << current, canonical, isPlaying, pipe, at, played >>
  BY DEF Tick, media, sound, Orderly
<1>2. current \in Songs /\ current # Empty /\ at \in Nat /\ scale \in Nat /\ played \in Nat
  BY <1>1, PlaybackAssumption DEF PlaybackInv, Typed, Resting
<1>3. Floor(played) \in Nat /\ (IsWav(current) => Floor(played) <= at)
  BY <1>1, <1>2, FloorFacts DEF PlaybackInv, Pushed
<1>4. Duration[current] \in Nat /\ at <= Duration[current] /\ scale <= Duration[current]
  BY <1>1, <1>2, PlaybackAssumption DEF PlaybackInv, Within, Bounded, Piped
<1>5. Shown \in Nat /\ to \in Nat /\ to <= Duration[current]
      /\ (~IsWav(current) => to = at /\ here = at)
  BY <1>2, <1>3, <1>4 DEF Shown, AtMost
<1>6. Kind[current] # "stream" => scale <= to
  BY <1>1, <1>2, <1>4, <1>5 DEF LyricInv, Onward, AtMost
<1>7. IsWav(current)' = IsWav(current) /\ Shown' = Shown /\ Shown >= to
  <2>1. IsWav(current)' = IsWav(current) /\ Shown' = Shown
    BY <1>1 DEF IsWav, Shown, Floor
  <2>2. Shown >= to
    BY <1>4, <1>5 DEF AtMost
  <2> QED BY <2>1, <2>2
<1>8. Onward'
  <2> HIDE DEF to, here
  <2>1. ~IsWav(current) => pos' = to /\ at' >= scale'
    BY <1>1, <1>2, <1>5
  <2>2. pos' = to
    BY <1>1, <2>1
  <2> QED BY <1>1, <1>2, <1>7, <2>1, <2>2 DEF LyricInv, Onward
<1>9. Begun'
  <2>1. SUFFICES ASSUME HasLyrics(current)
                 PROVE  /\ \A i \in 1..(index'+1) : Lys(current)[i].startms <= to
                        /\ end' = Signed(Lys(current)[index'+1].endms)
    BY <1>1 DEF Begun, HasLyrics, Lys
  <2>2. /\ rows = Len(Lys(current)) /\ index \in 0..(rows-1) /\ rows \in Nat \ {0}
        /\ \A i \in 1..Len(Lys(current)) : Lys(current)[i].startms \in Nat
    BY <1>2, <2>1, LysFacts DEF PlaybackInv, Lined
  <2>3. /\ \A i \in 1..(index+1) : Lys(current)[i].startms <= scale
        /\ end = Signed(Lys(current)[index+1].endms)
    BY <2>1 DEF LyricInv, Begun
  <2> HIDE DEF to, here
  <2>4. \A i \in 1..(index+1) : Lys(current)[i].startms <= to
    <3>1. CASE Kind[current] = "stream"
      <4>1. Len(Lys(current)) = 1
        BY <1>2, <2>1, <3>1 DEF Orderly
      <4>2. index = 0 /\ Lys(current)[1].startms = 0
        BY <1>2, <2>1, <2>2, <4>1, StartFacts
      <4> QED BY <1>5, <4>2
    <3>2. CASE Kind[current] # "stream"
      <4>1. ASSUME NEW i \in 1..(index+1) PROVE Lys(current)[i].startms <= to
        <5>1. Lys(current)[i].startms \in Nat
          BY <2>2
        <5>2. Lys(current)[i].startms <= scale
          BY <2>3
        <5> QED BY <1>2, <1>5, <1>6, <3>2, <5>1, <5>2
      <4> QED BY <4>1
    <3> QED BY <3>1, <3>2
  <2>5. CASE pos' > end /\ index # Len(Lys(current)) - 1
    <3>1. index' = index + 1 /\ end' = Signed(Lys(current)[index'+1].endms)
      BY <1>1, <2>1, <2>5 DEF NextLine
    <3>2. index + 1 \in 1..(Len(Lys(current)) - 1)
      BY <2>2, <2>5
    <3>3. end = Lys(current)[index+2].startms
      <4>1. \A i \in 1..(Len(Lys(current)) - 1) : Signed(Lys(current)[i].endms) = Lys(current)[i+1].startms
        BY <1>2, <2>1, StartFacts
      <4>2. index + 1 + 1 = index + 2
        BY <2>2
      <4> QED BY <2>3, <3>2, <4>1, <4>2
    <3>4. pos' = to
      BY <1>1, <1>5
    <3>5. Lys(current)[index+2].startms <= to
      <4>1. Lys(current)[index+2].startms \in Nat
        BY <2>2, <3>2
      <4> QED BY <1>5, <2>5, <3>3, <3>4, <4>1
    <3>6. \A i \in 1..(index'+1) : i \in 1..(index+1) \/ i = index + 2
      BY <2>2, <3>1
    <3> QED BY <2>4, <3>1, <3>5, <3>6
  <2>6. CASE ~(pos' > end /\ index # Len(Lys(current)) - 1)
    <3>1. index' = index /\ end' = end
      BY <1>1, <2>6 DEF NextLine
    <3> QED BY <2>3, <2>4, <3>1
  <2> QED BY <2>5, <2>6
<1> QED BY <1>8, <1>9 DEF LyricInv

\* A line that is shown has begun; seeking back takes the lyrics back.
THEOREM LineHasBegun == ASSUME Orderly PROVE Spec => []LyricNotAhead
<1>1. Init => LyricInv
  BY DEF Init, LyricInv, Begun, Onward, HasLyrics
<1>2. PlaybackInv /\ LyricInv /\ [Next]_vars => LyricInv'
  <2> SUFFICES ASSUME PlaybackInv, LyricInv, [Next]_vars PROVE LyricInv'
    OBVIOUS
  <2>1. CASE Next
    BY <2>1, ButtonsLyric, ButtonPlayLyric, ScaleLyric, PlayOnLyric, StreamTurnsLyric,
       TickLyric
       DEF Next, ButtonStep, PointerStep, ClockStep
  <2>2. CASE UNCHANGED vars
    BY <2>2 DEF vars, media, sound, time, lyric, LyricInv, Begun, Onward, HasLyrics, Lys, IsWav,
                Shown, Floor
  <2> QED BY <2>1, <2>2
<1>3. PlaybackInv /\ LyricInv => LyricNotAhead
  <2> SUFFICES ASSUME PlaybackInv, LyricInv, ~crashed, HasLyrics(current)
               PROVE  index < Cardinality({i \in 1..Len(Lys(current)) :
                                             Lys(current)[i].startms <= scale})
    BY DEF LyricNotAhead
  <2> DEFINE n == Len(Lys(current))
  <2> DEFINE S == {i \in 1..n : Lys(current)[i].startms <= scale}
  <2>1. current \in Songs
    BY DEF PlaybackInv, Typed, HasLyrics
  <2>2. n \in Nat \ {0} /\ index \in 0..(n-1)
    BY <2>1, LysFacts DEF PlaybackInv, Lined
  <2>3. \A i \in 1..(index+1) : Lys(current)[i].startms <= scale
    BY DEF LyricInv, Begun
  <2> HIDE DEF n
  <2>4. 1..(index+1) \subseteq S
    BY <2>2, <2>3
  <2>5. IsFiniteSet(S)
    <3>1. IsFiniteSet(1..n)
      BY <2>2, FS_Interval
    <3> QED BY <3>1, FS_Subset
  <2> HIDE DEF S
  <2>6. Cardinality(1..(index+1)) = index + 1
    <3>1. 1 \in Int /\ index + 1 \in Int /\ ~(1 > index + 1) /\ index + 1 - 1 + 1 = index + 1
      BY <2>2
    <3> QED BY <3>1, FS_Interval
  <2>7. index + 1 <= Cardinality(S) /\ Cardinality(S) \in Nat
    BY <2>4, <2>5, <2>6, FS_Subset, FS_CardinalityType
  <2>8. index < Cardinality(S)
    BY <2>2, <2>7
  <2> QED BY <2>8 DEF S, n
<1> QED BY <1>1, <1>2, <1>3, Invariance, PTL DEF Spec
=============================================================================
