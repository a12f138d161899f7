----------------------------- MODULE Player_proofs -----------------------------
(***************************************************************************)
(* What is proved of Player, for every finite set of songs, whatever their *)
(* titles, lengths and names, and for every set of lists a reload may find.*)
(***************************************************************************)
EXTENDS Player, SequenceTheorems, FiniteSetTheorems, TLAPS

\* s is an order of S: each of S once.  Nothing is said of what sorts it.
IsOrder(s, S) ==
    /\ s \in [1..Len(s) -> S]
    /\ Len(s) \in Nat /\ Len(s) = Cardinality(S)
    /\ \A i, j \in 1..Len(s) : s[i] = s[j] => i = j
    /\ \A x \in S : \E i \in 1..Len(s) : s[i] = x

\* The tables are orders of the songs in the list, and its rows are one of them.
ListInv ==
    /\ Range(allMusic) \subseteq Songs
    /\ \A c \in Columns : IsOrder(order[c], Range(allMusic))
    /\ sortColumn \in Columns /\ ascending \in BOOLEAN
    /\ allMusic = IF ascending THEN order[sortColumn] ELSE Reverse(order[sortColumn])

PlayingInv ==
    /\ state \in {"PLAYING", "PAUSED"} /\ isPlaying \in BOOLEAN /\ crashed \in BOOLEAN
    /\ ~crashed => current \in Range(allMusic) \cup {Empty}
    /\ selected \in Range(allMusic) \cup {Empty, Deleted}
    /\ ButtonTells

\* Within n of s, counted in blocks from its start, nothing comes twice.
Fair(s, n) ==
    \A i, j \in 1..Len(s) : i < j /\ (i-1) \div n = (j-1) \div n => s[i] # s[j]
\* s is whole orders of the n songs in S, one after another.
Rounds(s, n, S) ==
    /\ Len(s) \in Nat /\ s \in [1..Len(s) -> S]
    /\ \E k \in 0..Len(s) : Len(s) = k * n
    /\ Fair(s, n)
Shuffling ==
    /\ Rounds(shuffled, Len(allMusic), Range(allMusic))
    /\ size = Len(shuffled) /\ pos \in Nat /\ pos < size
    /\ current = shuffled[pos+1]
ShuffleInv ==
    /\ playMode \in {"ON", "OFF"}
    /\ playMode = "OFF" => shuffled = << >>
    /\ Range(shuffled) \subseteq Range(allMusic)
    /\ playMode = "ON" /\ ~crashed => Shuffling

PlayerInv == ListInv /\ PlayingInv /\ ShuffleInv

---------------------------------------------------------------------------
(* Orders of a set. *)

LEMMA SongsFinite == ASSUME NEW S \in SUBSET Songs PROVE IsFiniteSet(S) /\ Cardinality(S) \in Nat
BY PlayerAssumption, FS_Subset, FS_CardinalityType

\* A sequence of S that is as long as S is large and has nothing twice.
LEMMA FillsSet ==
    ASSUME NEW S, IsFiniteSet(S), NEW s \in [1..Cardinality(S) -> S],
           \A i, j \in 1..Cardinality(S) : s[i] = s[j] => i = j
    PROVE  IsOrder(s, S)
<1> DEFINE n == Cardinality(S)
<1>1. n \in Nat
  BY FS_CardinalityType
<1>2. s \in Seq(S) /\ Len(s) = n
  BY <1>1, SeqDef, LenProperties
<1>3. s \in Injection(1..n, S)
  BY DEF Injection, IsInjective
<1>4. Cardinality(1..n) = n
  BY <1>1, FS_Interval
<1>5. s \in Surjection(1..n, S)
  BY <1>3, <1>4, FS_Injection
<1>6. \A x \in S : \E i \in 1..n : s[i] = x
  BY <1>5 DEF Surjection
<1> QED BY <1>1, <1>2, <1>6 DEF IsOrder

LEMMA PermutationIsOrder ==
    ASSUME NEW S, IsFiniteSet(S), NEW s \in SetToSeqs(S)
    PROVE  IsOrder(s, S)
BY FillsSet DEF SetToSeqs

LEMMA OrderRange ==
    ASSUME NEW S, NEW s, IsOrder(s, S)
    PROVE  Range(s) = S /\ DOMAIN s = 1..Len(s)
BY DEF IsOrder, Range

LEMMA OrderReverses ==
    ASSUME NEW S, NEW s, IsOrder(s, S)
    PROVE  /\ IsOrder(Reverse(s), S) /\ Len(Reverse(s)) = Len(s)
           /\ \A i \in 1..Len(s) : Reverse(s)[i] = s[Len(s) - i + 1]
<1> DEFINE n == Len(s)
           r == [i \in 1..n |-> s[(n - i) + 1]]
<1>1. n \in Nat /\ Reverse(s) = r
  BY DEF IsOrder, Reverse
<1>2. \A i \in 1..n : (n - i) + 1 \in 1..n /\ r[i] = s[(n - i) + 1]
  BY <1>1
<1>3. r \in [1..n -> S]
  BY <1>2 DEF IsOrder
<1>4. r \in Seq(S) /\ Len(r) = n
  BY <1>1, <1>3, SeqDef, LenProperties
<1> HIDE DEF r
<1>5. \A i, j \in 1..n : r[i] = r[j] => i = j
  <2> SUFFICES ASSUME NEW i \in 1..n, NEW j \in 1..n, r[i] = r[j] PROVE i = j
    OBVIOUS
  <2>1. (n - i) + 1 = (n - j) + 1
    BY <1>2 DEF IsOrder
  <2> QED BY <1>1, <2>1
<1>6. \A x \in S : \E i \in 1..n : r[i] = x
  <2> SUFFICES ASSUME NEW x \in S PROVE \E i \in 1..n : r[i] = x
    OBVIOUS
  <2>1. PICK j \in 1..n : s[j] = x
    BY DEF IsOrder
  <2>2. (n - j) + 1 \in 1..n /\ (n - ((n - j) + 1)) + 1 = j
    BY <1>1
  <2> QED BY <1>2, <2>1, <2>2
<1>7. n = Cardinality(S)
  BY DEF IsOrder
<1> QED BY <1>1, <1>2, <1>3, <1>4, <1>5, <1>6, <1>7 DEF IsOrder

\* What a list can be sorted to by a column is an order of its songs.
LEMMA SortsAreOrders ==
    ASSUME NEW S \in Lists, NEW c \in Columns, NEW s \in SortsOf[S][c]
    PROVE  IsOrder(s, S)
<1>1. S \in SUBSET Songs /\ IsFiniteSet(S)
  BY PlayerAssumption, SongsFinite
<1>2. s \in Sorted(c, S)
  BY DEF SortsOf
<1>3. s \in SetToSeqs(S)
  BY <1>2 DEF Sorted
<1> QED BY <1>1, <1>3, PermutationIsOrder

\* And so is what it can be shuffled to, the current song in front or not.
LEMMA ShufflesAreOrders ==
    ASSUME NEW S \in SUBSET Songs, NEW first \in S \cup {Empty}, NEW s \in Orders(S, first)
    PROVE  IsOrder(s, S)
<1>1. IsFiniteSet(S) /\ S \ {first} \in SUBSET Songs
  BY SongsFinite
<1>2. CASE first = Empty
  BY <1>1, <1>2, PermutationIsOrder DEF Orders, OrdersOf
<1>3. CASE first # Empty
  <2> DEFINE T == S \ {first}
             n == Cardinality(T)
  <2>1. first \in S /\ IsFiniteSet(T) /\ n \in Nat /\ Cardinality(S) = n + 1
    BY <1>1, <1>3, FS_RemoveElement, SongsFinite
  <2>2. PICK t \in SetToSeqs(T) : s = << first >> \o t
    BY <1>1, <1>3 DEF Orders, OrdersOf
  <2>3. IsOrder(t, T)
    BY <2>1, PermutationIsOrder
  <2>4. Len(t) = n /\ t \in [1..n -> T] /\ \A i, j \in 1..n : t[i] = t[j] => i = j
    BY <2>3 DEF IsOrder
  <2> DEFINE u == << first >>
  <2>5. t \in Seq(S)
    <3>1. t \in [1..n -> S]
      BY <2>4
    <3> QED BY <2>1, <3>1, SeqDef
  <2>6. u \in Seq(S) /\ Len(u) = 1 /\ u[1] = first
    BY <2>1
  <2> HIDE DEF u, n
  <2>7. /\ u \o t \in Seq(S) /\ Len(u \o t) = Len(u) + Len(t)
        /\ \A i \in 1..(Len(u) + Len(t)) : (u \o t)[i] = IF i <= Len(u) THEN u[i] ELSE t[i - Len(u)]
    BY <2>5, <2>6, ConcatProperties
  <2>8. /\ s \in Seq(S) /\ Len(s) = n + 1
        /\ \A i \in 1..(n + 1) : s[i] = IF i <= 1 THEN first ELSE t[i - 1]
    <3>1. s = u \o t
      BY <2>2 DEF u
    <3>2. Len(u) + Len(t) = n + 1 /\ n + 1 = 1 + n
      BY <2>1, <2>4, <2>6
    <3>3. /\ s \in Seq(S) /\ Len(s) = n + 1
          /\ \A i \in 1..(n + 1) : s[i] = IF i <= 1 THEN u[i] ELSE t[i - 1]
      BY <2>4, <2>6, <2>7, <3>1, <3>2
    <3>4. \A i \in 1..(n + 1) : i <= 1 => i = 1
      BY <2>1
    <3> QED BY <2>6, <3>3, <3>4
  <2>9. s \in [1..Cardinality(S) -> S]
    BY <2>1, <2>8, LenProperties
  <2>10. s[1] = first /\ \A i \in 2..(n + 1) : s[i] = t[i - 1]
    <3>1. 1 \in 1..(n + 1) /\ \A i \in 2..(n + 1) : i \in 1..(n + 1) /\ ~(i <= 1)
      BY <2>1
    <3> QED BY <2>8, <3>1
  <2>11. ASSUME NEW i \in 1..(n + 1), NEW j \in 1..(n + 1), s[i] = s[j]
        PROVE  i = j
    <3>1. \A k \in 2..(n + 1) : s[k] # first /\ k - 1 \in 1..n
      BY <2>1, <2>4, <2>10
    <3>2. CASE i = 1 \/ j = 1
      BY <2>1, <2>10, <2>11, <3>1, <3>2
    <3>3. CASE i \in 2..(n + 1) /\ j \in 2..(n + 1)
      <4>1. i - 1 = j - 1
        BY <2>4, <2>10, <2>11, <3>1, <3>3
      <4> QED BY <2>1, <4>1
    <3> QED BY <2>1, <3>2, <3>3
  <2> QED BY <1>1, <2>1, <2>9, <2>11, FillsSet
<1> QED BY <1>2, <1>3

---------------------------------------------------------------------------
(* Rounds. *)

LEMMA BlocksDiffer ==
    ASSUME NEW n \in Nat, n > 0, NEW k \in Nat, NEW i \in Nat, NEW j \in Nat,
           i < k * n, k * n <= j
    PROVE  i \div n # j \div n
OBVIOUS

\* An order is a round.
LEMMA OneRound ==
    ASSUME NEW S \in SUBSET Songs, NEW s, IsOrder(s, S), Len(s) > 0
    PROVE  Rounds(s, Cardinality(S), S)
<1>1. Len(s) \in Nat /\ s \in [1..Len(s) -> S] /\ Len(s) = 1 * Cardinality(S)
  BY SongsFinite DEF IsOrder
<1>2. Fair(s, Cardinality(S))
  <2> SUFFICES ASSUME NEW i \in 1..Len(s), NEW j \in 1..Len(s), i < j PROVE s[i] # s[j]
    BY DEF Fair
  <2> QED BY <1>1 DEF IsOrder
<1> QED BY <1>1, <1>2 DEF Rounds

\* An order put after some rounds makes one more.
LEMMA AnotherRound ==
    ASSUME NEW S \in SUBSET Songs, NEW n, n = Cardinality(S), n > 0,
           NEW s, Rounds(s, n, S), NEW t, IsOrder(t, S)
    PROVE  Rounds(s \o t, n, S) /\ Len(s \o t) = Len(s) + n
<1> DEFINE r == s \o t
           m == Len(s)
<1>1. /\ n \in Nat /\ m \in Nat /\ s \in [1..m -> S]
      /\ t \in [1..n -> S] /\ Len(t) = n /\ \A i, j \in 1..n : t[i] = t[j] => i = j
  BY SongsFinite DEF Rounds, IsOrder
<1>2. s \in Seq(S) /\ t \in Seq(S)
  BY <1>1, SeqDef
<1>3. /\ r \in Seq(S) /\ Len(r) = m + n
      /\ \A i \in 1..(m + n) : r[i] = IF i <= m THEN s[i] ELSE t[i - m]
  <2>1. /\ r \in Seq(S) /\ Len(r) = m + Len(t)
        /\ \A i \in 1..(m + Len(t)) : r[i] = IF i <= m THEN s[i] ELSE t[i - m]
    BY <1>2, ConcatProperties
  <2> QED BY <1>1, <2>1
<1> HIDE DEF r, m
<1>4. r \in [1..Len(r) -> S] /\ Len(r) \in Nat
  BY <1>3, LenProperties
<1>5. PICK k \in 0..m : m = k * n
  BY DEF Rounds, m
<1>6. k \in Nat /\ k + 1 \in 0..Len(r) /\ Len(r) = (k + 1) * n
  BY <1>1, <1>3, <1>5
<1>7. Fair(r, n)
  <2> SUFFICES ASSUME NEW i \in 1..(m + n), NEW j \in 1..(m + n), i < j,
                      (i-1) \div n = (j-1) \div n
               PROVE  r[i] # r[j]
    BY <1>3 DEF Fair
  <2>1. CASE j <= m
    <3>1. i \in 1..m /\ j \in 1..m /\ r[i] = s[i] /\ r[j] = s[j]
      BY <1>1, <1>3, <2>1
    <3> QED BY <3>1 DEF Rounds, Fair, m
  <2>2. CASE i <= m /\ ~(j <= m)
    <3>1. i-1 \in Nat /\ j-1 \in Nat /\ i-1 < m /\ m <= j-1
      BY <1>1, <2>2
    <3>2. (i-1) \div n # (j-1) \div n
      BY <1>1, <1>5, <1>6, <3>1, BlocksDiffer
    <3> QED BY <3>2
  <2>3. CASE ~(i <= m)
    <3>1. i - m \in 1..n /\ j - m \in 1..n /\ i - m # j - m /\ ~(j <= m)
      BY <1>1, <2>3
    <3>2. r[i] = t[i - m] /\ r[j] = t[j - m]
      BY <1>3, <2>3, <3>1
    <3> QED BY <1>1, <3>1, <3>2
  <2> QED BY <1>1, <2>1, <2>2, <2>3
<1> QED BY <1>3, <1>4, <1>6, <1>7 DEF Rounds, r, m

\* What is put at the end leaves the beginning.
LEMMA LongerHasPrefix ==
    ASSUME NEW s \in Seq(Songs), NEW t \in Seq(Songs)
    PROVE  IsPrefix(s, s \o t)
<1> DEFINE r == s \o t
           m == Len(s)
<1>1. /\ m \in Nat /\ Len(t) \in Nat /\ r \in Seq(Songs) /\ Len(r) = m + Len(t)
      /\ \A i \in 1..(m + Len(t)) : r[i] = IF i <= m THEN s[i] ELSE t[i - m]
  BY ConcatProperties, LenProperties
<1> HIDE DEF r
<1>2. m <= Len(r)
  BY <1>1
<1>3. SubSeq(s, 1, m) = [i \in 1..m |-> s[i]] /\ SubSeq(r, 1, m) = [i \in 1..m |-> r[i]]
  BY <1>1, <1>2
<1>4. \A i \in 1..m : r[i] = s[i]
  BY <1>1
<1>5. SubSeq(s, 1, m) = SubSeq(r, 1, m)
  BY <1>3, <1>4
<1> QED BY <1>2, <1>5 DEF IsPrefix, r

LEMMA IsItsPrefix == ASSUME NEW s PROVE Len(s) \in Nat => IsPrefix(s, s)
BY DEF IsPrefix

---------------------------------------------------------------------------
(* The rows. *)

LEMMA RowsAreOrder ==
    ASSUME ListInv
    PROVE  /\ IsOrder(allMusic, Range(allMusic)) /\ Range(allMusic) \in SUBSET Songs
           /\ Len(allMusic) \in Nat /\ Len(allMusic) = Cardinality(Range(allMusic))
           /\ Range(allMusic) # {} => Len(allMusic) > 0
           /\ \A i \in 1..Len(allMusic) : allMusic[i] \in Range(allMusic)
           /\ \A c \in Columns : Len(order[c]) = Len(allMusic)
<1>1. IsOrder(order[sortColumn], Range(allMusic))
  BY DEF ListInv
<1>2. IsOrder(allMusic, Range(allMusic))
  BY <1>1, OrderReverses DEF ListInv
<1>3. \A c \in Columns : IsOrder(order[c], Range(allMusic))
  BY DEF ListInv
<1> QED BY <1>2, <1>3 DEF ListInv, IsOrder

\* The invariant gives the index its meaning.
LEMMA IndexOfRow ==
    ASSUME ListInv, NEW i \in 1..Len(allMusic)
    PROVE  GetSortIndex(allMusic[i]) = i - 1
<1> DEFINE n == Len(allMusic)
           r == order[sortColumn]
           j == IF ascending THEN i ELSE n - i + 1
<1>1. /\ n \in Nat /\ Len(r) = n /\ Len(AllMusicCopy) = n /\ IsOrder(r, Range(allMusic))
      /\ allMusic[i] \in Songs /\ ascending \in BOOLEAN
  BY RowsAreOrder DEF ListInv, AllMusicCopy, Columns
<1>2. j \in 1..n /\ r[j] = allMusic[i]
  <2>1. CASE ascending
    BY <1>1, <2>1 DEF ListInv
  <2>2. CASE ~ascending
    <3>1. allMusic = Reverse(r)
      BY <2>2 DEF ListInv
    <3>2. allMusic[i] = r[n - i + 1]
      BY <1>1, <3>1, OrderReverses
    <3> QED BY <1>1, <2>2, <3>2
  <2> QED BY <1>1, <2>1, <2>2
<1>3. \A x \in 1..n : r[x] = allMusic[i] => x = j
  BY <1>1, <1>2 DEF IsOrder
<1>4. Index(sortColumn, allMusic[i]) = j - 1
  BY <1>1, <1>2, <1>3 DEF Index
<1>5. allMusic[i] # Empty
  BY <1>1, PlayerAssumption
<1> QED BY <1>1, <1>2, <1>4, <1>5 DEF GetSortIndex

\* The row that is k further on, and round.
LEMMA RowInList ==
    ASSUME ListInv, Len(allMusic) > 0, NEW k \in Int
    PROVE  Row(k) \in Range(allMusic) /\ Row(k) \in Songs /\ Row(k) # Empty
<1>1. Len(allMusic) \in Nat
  BY RowsAreOrder
<1>2. k % Len(allMusic) \in 0..(Len(allMusic) - 1)
  BY <1>1
<1>3. (k % Len(allMusic)) + 1 \in 1..Len(allMusic)
  BY <1>1, <1>2
<1> QED BY <1>3, RowsAreOrder, PlayerAssumption DEF Row

LEMMA IndexInt ==
    ASSUME ListInv, NEW song \in Range(allMusic)
    PROVE  GetSortIndex(song) \in Int /\ Len(allMusic) > 0
<1>1. PICK i \in 1..Len(allMusic) : allMusic[i] = song
  BY RowsAreOrder DEF IsOrder
<1> QED BY <1>1, RowsAreOrder, IndexOfRow

---------------------------------------------------------------------------
(* The handlers keep the invariant. *)

USE DEF list, shuffle, playing

\* ChangeMusic to a song: the button tells, and what was played is played on.
LEMMA ChangeMusicTells ==
    ASSUME NEW song, NEW play \in BOOLEAN, isPlaying \in BOOLEAN, ChangeMusic(song, play)
    PROVE  /\ current' = song /\ isPlaying' \in BOOLEAN /\ state' \in {"PLAYING", "PAUSED"}
           /\ song # Empty => (isPlaying' <=> play) /\ (isPlaying' <=> state' = "PLAYING")
BY DEF ChangeMusic

LEMMA ShuffleOffInv == ASSUME ShuffleOff PROVE ShuffleInv' /\ playMode' = "OFF" /\ shuffled' = << >>
<1>1. Range(<< >>) = {}
  BY DEF Range
<1> QED BY <1>1 DEF ShuffleOff, ShuffleInv

LEMMA ShuffleOK ==
    ASSUME NEW songs \in SUBSET Songs, NEW first \in songs \cup {Empty}, NEW play \in BOOLEAN,
           isPlaying \in BOOLEAN, songs # {}, Shuffle(songs, first, play),
           Range(allMusic') = songs, Len(allMusic') = Cardinality(songs)
    PROVE  /\ Shuffling' /\ ShuffleInv' /\ pos' = 0 /\ size' = Len(allMusic')
           /\ current' \in songs /\ isPlaying' \in BOOLEAN /\ state' \in {"PLAYING", "PAUSED"}
           /\ (isPlaying' <=> play) /\ (isPlaying' <=> state' = "PLAYING")
<1>1. PICK s \in Orders(songs, first) :
         shuffled' = s /\ size' = Len(s) /\ ChangeMusic(s[1], play)
  BY DEF Shuffle
<1>2. IsOrder(s, songs)
  BY ShufflesAreOrders
<1>3. Len(s) \in Nat /\ Len(s) > 0 /\ Len(s) = Cardinality(songs) /\ s[1] \in songs
  BY <1>2 DEF IsOrder
<1>4. s[1] # Empty
  BY <1>3, PlayerAssumption
<1>5. playMode' = "ON" /\ pos' = 0
  BY DEF Shuffle
<1>6. Shuffling'
  BY <1>1, <1>2, <1>3, <1>5, OneRound, ChangeMusicTells DEF Shuffling
<1>7. Range(shuffled') = songs
  BY <1>1, <1>2, OrderRange
<1> QED BY <1>1, <1>3, <1>4, <1>5, <1>6, <1>7, ChangeMusicTells DEF ShuffleInv

\* set_music_list makes orders of the songs it found.
LEMMA ReloadedInv ==
    ASSUME NEW songs \in Lists, Reloaded(songs)
    PROVE  /\ ListInv' /\ Range(allMusic') = songs /\ Len(allMusic') = Cardinality(songs)
<1>1. \A c \in Columns : IsOrder(order'[c], songs)
  <2>1. PICK t \in SortsOf[songs]["TITLE"], d \in SortsOf[songs]["TIME"], r \in SortsOf[songs]["ARTIST"],
             l \in SortsOf[songs]["ALBUM"], f \in SortsOf[songs]["FILENAME"] :
             order' = [c \in Columns |-> CASE c = "TITLE" -> t [] c = "TIME" -> d [] c = "ARTIST" -> r
                                           [] c = "ALBUM" -> l [] c = "FILENAME" -> f]
    BY DEF Reloaded
  <2>2. /\ IsOrder(t, songs) /\ IsOrder(d, songs) /\ IsOrder(r, songs)
        /\ IsOrder(l, songs) /\ IsOrder(f, songs)
    BY SortsAreOrders DEF Columns
  <2> QED BY <2>1, <2>2 DEF Columns
<1>2. allMusic' = order'["TITLE"] /\ sortColumn' = "TITLE" /\ ascending' = TRUE
  BY DEF Reloaded
<1>3. IsOrder(allMusic', songs)
  BY <1>1, <1>2 DEF Columns
<1>4. Range(allMusic') = songs
  BY <1>3, OrderRange
<1> QED BY <1>1, <1>2, <1>3, <1>4, PlayerAssumption DEF ListInv, Columns, IsOrder

LEMMA MusicListChangedInv ==
    ASSUME PlayerInv, MusicListChanged PROVE PlayerInv'
<1>1. PICK songs \in Lists :
         /\ Reloaded(songs)
         /\ IF playMode = "ON" THEN Shuffle(songs, Empty, FALSE)
            ELSE /\ current' = Empty /\ isPlaying' = (isPlaying /\ current = Empty)
                 /\ state' = "PAUSED"
                 /\ UNCHANGED shuffle
         /\ \E sorted \in {TRUE, songs \notin Unsortable} :
              crashed' = (~sorted \/ (playMode = "ON" /\ songs = {}))
  BY DEF MusicListChanged
<1>2. /\ ListInv' /\ Range(allMusic') = songs /\ Len(allMusic') = Cardinality(songs)
      /\ songs \in SUBSET Songs
  BY <1>1, ReloadedInv, PlayerAssumption
<1>3. selected' \in Range(allMusic') \cup {Empty, Deleted}
  BY DEF MusicListChanged
<1>4. crashed' \in BOOLEAN
  BY <1>1
<1>5. CASE playMode = "ON" /\ songs # {}
  BY <1>1, <1>2, <1>3, <1>4, <1>5, ShuffleOK DEF PlayerInv, PlayingInv, ButtonTells
<1>6. CASE playMode = "ON" /\ songs = {}
  <2>1. crashed' /\ playMode' = "ON" /\ shuffled' = << >> /\ UNCHANGED playing
    BY <1>1, <1>6 DEF Shuffle
  <2>2. Range(<< >>) = {}
    BY DEF Range
  <2> QED BY <1>2, <1>3, <1>4, <2>1, <2>2 DEF PlayerInv, PlayingInv, ShuffleInv, ButtonTells
<1>7. CASE playMode = "OFF"
  <2>1. ShuffleInv'
    <3>1. shuffled' = << >> /\ playMode' = "OFF"
      BY <1>1, <1>7 DEF PlayerInv, ShuffleInv
    <3>2. Range(<< >>) = {}
      BY DEF Range
    <3> QED BY <3>1, <3>2 DEF ShuffleInv
  <2> QED BY <1>1, <1>2, <1>3, <1>4, <1>7, <2>1 DEF PlayerInv, PlayingInv, ButtonTells
<1> QED BY <1>5, <1>6, <1>7 DEF PlayerInv, ShuffleInv

\* Other handlers leave the list; sorting it leaves its songs.
LEMMA ListKept ==
    ASSUME ListInv, UNCHANGED list PROVE ListInv' /\ UNCHANGED << Range(allMusic), Len(allMusic) >>
BY DEF ListInv

LEMMA ColumnClickedInv ==
    ASSUME PlayerInv, ~crashed, NEW c \in Columns, ColumnClicked(c) PROVE PlayerInv'
<1> DEFINE up == ~(sortColumn = c /\ ascending)
<1>1. /\ sortColumn' = c /\ ascending' = up /\ order' = order
      /\ allMusic' = IF up THEN order[c] ELSE Reverse(order[c])
      /\ UNCHANGED << shuffle, playing, selected >> /\ crashed' \in BOOLEAN
  BY DEF ColumnClicked, SortMusicListByIndex
<1>2. IsOrder(order[c], Range(allMusic))
  BY DEF PlayerInv, ListInv
<1>3. IsOrder(allMusic', Range(allMusic))
  BY <1>1, <1>2, OrderReverses
<1>4. Range(allMusic') = Range(allMusic) /\ Len(allMusic') = Len(allMusic)
  BY <1>3, OrderRange, RowsAreOrder DEF IsOrder, PlayerInv
<1>5. ListInv'
  BY <1>1, <1>4 DEF PlayerInv, ListInv
<1>6. PlayingInv'
  BY <1>1, <1>4 DEF PlayerInv, PlayingInv, ButtonTells
<1>7. ShuffleInv'
  BY <1>1, <1>4 DEF PlayerInv, ShuffleInv, Shuffling
<1> QED BY <1>5, <1>6, <1>7 DEF PlayerInv

LEMMA IconClickedInv == ASSUME PlayerInv, IconClicked PROVE PlayerInv'
BY DEF IconClicked, PlayerInv, ListInv, PlayingInv, ButtonTells, ShuffleInv, Shuffling

LEMMA SelectInv ==
    ASSUME PlayerInv, NEW i \in 1..Len(allMusic), Select(i) PROVE PlayerInv'
<1>1. allMusic[i] \in Range(allMusic)
  BY RowsAreOrder DEF PlayerInv
<1> QED BY <1>1 DEF Select, PlayerInv, ListInv, PlayingInv, ButtonTells, ShuffleInv, Shuffling

LEMMA DoubleClickInv ==
    ASSUME PlayerInv, ~crashed, DoubleClick PROVE PlayerInv'
<1>1. PICK song \in Range(allMusic) \cup {selected} :
         /\ selected' = song
         /\ ShuffleOff
         /\ IF song = Deleted THEN crashed' = TRUE /\ UNCHANGED playing
            ELSE /\ current' = song
                 /\ isPlaying' = (song # Empty \/ (isPlaying /\ current = Empty))
                 /\ state' = IF song # Empty THEN "PLAYING" ELSE "PAUSED"
                 /\ UNCHANGED crashed
  BY DEF DoubleClick
<1>2. ListInv' /\ Range(allMusic') = Range(allMusic)
  BY ListKept DEF DoubleClick, PlayerInv
<1>3. song \in Range(allMusic) \cup {Empty, Deleted}
  BY DEF PlayerInv, PlayingInv
<1>4. PlayingInv'
  BY <1>1, <1>2, <1>3 DEF PlayerInv, PlayingInv, ButtonTells
<1> QED BY <1>1, <1>2, <1>4, ShuffleOffInv DEF PlayerInv

LEMMA MenuPlayInv ==
    ASSUME PlayerInv, ~crashed, MenuPlay PROVE PlayerInv'
<1>1. PICK song \in Range(allMusic) \cup {selected} : selected' = song /\ PlaySelected(song, FALSE)
  BY DEF MenuPlay
<1>2. ListInv' /\ Range(allMusic') = Range(allMusic)
  BY <1>1, ListKept DEF PlaySelected, PlayerInv
<1>3. song \in Range(allMusic) \cup {Empty, Deleted} /\ isPlaying \in BOOLEAN
  BY DEF PlayerInv, PlayingInv
<1>4. ShuffleInv'
  BY <1>1, ShuffleOffInv DEF PlaySelected
<1>5. PlayingInv'
  <2>1. CASE song = Deleted
    BY <1>1, <1>2, <2>1 DEF PlaySelected, PlayerInv, PlayingInv, ButtonTells
  <2>2. CASE song # Deleted
    <3>1. ChangeMusic(song, FALSE) /\ UNCHANGED crashed
      BY <1>1, <2>2 DEF PlaySelected
    <3>2. /\ current' = song /\ isPlaying' \in BOOLEAN /\ state' \in {"PLAYING", "PAUSED"}
          /\ song # Empty => (isPlaying' <=> state' = "PLAYING")
      BY <1>3, <3>1, ChangeMusicTells
    <3> QED BY <1>1, <1>2, <1>3, <2>2, <3>1, <3>2 DEF PlayerInv, PlayingInv, ButtonTells
  <2> QED BY <2>1, <2>2
<1> QED BY <1>2, <1>4, <1>5 DEF PlayerInv

LEMMA SearchSelectedInv ==
    ASSUME PlayerInv, ~crashed, SearchSelected PROVE PlayerInv'
<1>1. PICK i \in 1..Len(allMusic) : ChangeMusic(allMusic[i], isPlaying)
  BY DEF SearchSelected
<1>2. ListInv' /\ Range(allMusic') = Range(allMusic)
  BY ListKept DEF SearchSelected, PlayerInv
<1>3. allMusic[i] \in Range(allMusic) /\ isPlaying \in BOOLEAN
  BY RowsAreOrder DEF PlayerInv, PlayingInv
<1>4. PlayingInv'
  BY <1>1, <1>2, <1>3, ChangeMusicTells DEF SearchSelected, PlayerInv, PlayingInv, ButtonTells
<1> QED BY <1>2, <1>4, ShuffleOffInv DEF SearchSelected, PlayerInv

LEMMA ButtonShuffleInv ==
    ASSUME PlayerInv, ~crashed, ButtonShuffle PROVE PlayerInv'
<1>1. ListInv' /\ UNCHANGED << Range(allMusic), Len(allMusic), selected, crashed >>
  BY ListKept DEF ButtonShuffle, PlayerInv
<1>2. CASE playMode = "OFF"
  <2>1. Shuffle(Range(allMusic), current, isPlaying)
    BY <1>2 DEF ButtonShuffle
  <2>2. /\ Range(allMusic) \in SUBSET Songs /\ Range(allMusic) # {}
        /\ Len(allMusic) = Cardinality(Range(allMusic))
    BY RowsAreOrder DEF ButtonShuffle, PlayerInv
  <2>3. current \in Range(allMusic) \cup {Empty} /\ isPlaying \in BOOLEAN
    BY DEF PlayerInv, PlayingInv
  <2> QED BY <1>1, <2>1, <2>2, <2>3, ShuffleOK DEF PlayerInv, PlayingInv, ButtonTells
<1>3. CASE playMode # "OFF"
  <2>1. ShuffleOff /\ UNCHANGED playing
    BY <1>3 DEF ButtonShuffle
  <2> QED BY <1>1, <2>1, ShuffleOffInv DEF PlayerInv, PlayingInv, ButtonTells
<1> QED BY <1>2, <1>3

LEMMA ButtonPreviousInv ==
    ASSUME PlayerInv, ~crashed, ButtonPrevious PROVE PlayerInv'
<1>1. ListInv' /\ UNCHANGED << Range(allMusic), Len(allMusic), allMusic, selected, crashed >>
  BY ListKept DEF ButtonPrevious, PlayerInv
<1>2. isPlaying \in BOOLEAN /\ current \in Range(allMusic) \cup {Empty}
  BY DEF PlayerInv, PlayingInv
<1>3. CASE playMode = "OFF"
  <2>1. /\ current # Empty /\ UNCHANGED shuffle
        /\ ChangeMusic(Row(GetSortIndex(current) + Len(allMusic) - 1), isPlaying)
    BY <1>3 DEF ButtonPrevious
  <2> DEFINE k == GetSortIndex(current) + Len(allMusic) - 1
  <2>2. k \in Int /\ Len(allMusic) > 0
    BY <1>2, <2>1, IndexInt, RowsAreOrder DEF PlayerInv
  <2>3. Row(k) \in Range(allMusic)
    BY <2>2, RowInList DEF PlayerInv
  <2>4. PlayingInv'
    BY <1>1, <1>2, <2>1, <2>3, ChangeMusicTells DEF PlayerInv, PlayingInv, ButtonTells
  <2>5. ShuffleInv'
    BY <1>1, <1>3, <2>1 DEF PlayerInv, ShuffleInv
  <2> QED BY <1>1, <2>4, <2>5 DEF PlayerInv
<1>4. CASE playMode # "OFF"
  <2>1. /\ pos > 0 /\ pos' = pos - 1 /\ ChangeMusic(shuffled[pos'+1], isPlaying)
        /\ UNCHANGED << playMode, shuffled, size >>
    BY <1>4 DEF ButtonPrevious
  <2>2. Shuffling
    BY <1>4 DEF PlayerInv, ShuffleInv
  <2>3. /\ size = Len(shuffled) /\ size \in Nat /\ pos \in Nat /\ pos < size
        /\ shuffled \in [1..size -> Range(allMusic)]
    BY <2>2 DEF Shuffling, Rounds
  <2>4. pos' \in Nat /\ pos' < size /\ pos' + 1 \in 1..size
    BY <2>1, <2>3
  <2>5. shuffled[pos'+1] \in Range(allMusic)
    BY <2>3, <2>4
  <2>6. /\ current' = shuffled[pos'+1] /\ isPlaying' \in BOOLEAN /\ state' \in {"PLAYING", "PAUSED"}
        /\ current' # Empty => (isPlaying' <=> state' = "PLAYING")
    BY <1>2, <2>1, ChangeMusicTells
  <2>7. PlayingInv'
    BY <1>1, <2>5, <2>6 DEF PlayerInv, PlayingInv, ButtonTells
  <2>8. Shuffling'
    BY <1>1, <2>1, <2>2, <2>4, <2>6 DEF Shuffling
  <2>9. ShuffleInv'
    BY <1>1, <2>1, <2>8 DEF PlayerInv, ShuffleInv
  <2> QED BY <1>1, <2>7, <2>9 DEF PlayerInv
<1> QED BY <1>3, <1>4

\* Next plays a song, and goes on with it if there was music.
LEMMA NextMusicPlays ==
    ASSUME PlayerInv, ~crashed, NextMusic
    PROVE  /\ PlayerInv'
           /\ isPlaying /\ current # Empty => isPlaying'
           /\ playMode = "ON" => \E s \in Seq(Songs) : shuffled' = shuffled \/ shuffled' = shuffled \o s
<1>1. ListInv' /\ UNCHANGED << Range(allMusic), Len(allMusic), allMusic, selected, crashed >>
  BY ListKept DEF NextMusic, PlayerInv
<1>2. isPlaying \in BOOLEAN /\ current \in Range(allMusic) \cup {Empty}
  BY DEF PlayerInv, PlayingInv
<1>3. CASE playMode = "OFF"
  <2>1. /\ current # Empty /\ UNCHANGED shuffle
        /\ ChangeMusic(Row(GetSortIndex(current) + 1), isPlaying)
    BY <1>3 DEF NextMusic
  <2> DEFINE k == GetSortIndex(current) + 1
  <2>2. k \in Int /\ Len(allMusic) > 0
    BY <1>2, <2>1, IndexInt DEF PlayerInv
  <2>3. Row(k) \in Range(allMusic) /\ Row(k) # Empty
    BY <2>2, RowInList DEF PlayerInv
  <2>4. PlayingInv' /\ (isPlaying => isPlaying')
    BY <1>1, <1>2, <2>1, <2>3, ChangeMusicTells DEF PlayerInv, PlayingInv, ButtonTells
  <2>5. ShuffleInv'
    BY <1>1, <1>3, <2>1 DEF PlayerInv, ShuffleInv
  <2> QED BY <1>1, <1>3, <2>4, <2>5 DEF PlayerInv
<1>4. CASE playMode # "OFF"
  <2> DEFINE S == Range(allMusic)
             n == Len(allMusic)
  <2>1. Shuffling /\ playMode = "ON"
    BY <1>4 DEF PlayerInv, ShuffleInv
  <2>2. /\ size = Len(shuffled) /\ size \in Nat /\ pos \in Nat /\ pos < size
        /\ Rounds(shuffled, n, S) /\ shuffled \in [1..size -> S]
    BY <2>1 DEF Shuffling, Rounds
  <2>3. S \in SUBSET Songs /\ n \in Nat /\ n = Cardinality(S) /\ n > 0
    <3>1. shuffled[1] \in S
      BY <2>2
    <3> QED BY <3>1, RowsAreOrder DEF PlayerInv
  <2>4. /\ pos' = pos + 1 /\ playMode' = playMode
        /\ ChangeMusic(shuffled'[pos'+1], isPlaying)
        /\ IF size = pos'
           THEN \E s \in Orders(S, Empty) : shuffled' = shuffled \o s /\ size' = size + Len(s)
           ELSE UNCHANGED << shuffled, size >>
    BY <1>4 DEF NextMusic, NextShuffled
  <2>5. /\ Rounds(shuffled', n, S) /\ size' = Len(shuffled') /\ pos' < size'
        /\ \E s \in Seq(Songs) : shuffled' = shuffled \/ shuffled' = shuffled \o s
    <3>1. CASE size = pos'
      <4>1. PICK s \in Orders(S, Empty) : shuffled' = shuffled \o s /\ size' = size + Len(s)
        BY <2>4, <3>1
      <4>2. IsOrder(s, S)
        BY <2>3, ShufflesAreOrders
      <4>3. Len(s) = n /\ s \in [1..n -> Songs]
        BY <2>3, <4>2 DEF IsOrder
      <4>4. s \in Seq(Songs)
        BY <2>3, <4>3, SeqDef
      <4>5. Rounds(shuffled', n, S) /\ Len(shuffled') = size + n
        BY <2>2, <2>3, <4>1, <4>2, AnotherRound
      <4>6. pos' < size + n
        BY <2>2, <2>3, <3>1
      <4> QED BY <4>1, <4>3, <4>4, <4>5, <4>6
    <3>2. CASE size # pos'
      <4>1. pos' < size
        <5>1. size \in Nat /\ pos \in Nat /\ pos < size
          BY <2>2
        <5>2. pos' = pos + 1
          BY <2>4
        <5> QED BY <3>2, <5>1, <5>2
      <4>2. << >> \in Seq(Songs)
        OBVIOUS
      <4> QED BY <2>2, <2>4, <3>2, <4>1, <4>2
    <3> QED BY <3>1, <3>2
  <2>6. pos' \in Nat /\ pos' + 1 \in 1..Len(shuffled')
    BY <2>2, <2>4, <2>5 DEF Rounds
  <2>7. shuffled'[pos'+1] \in S /\ Range(shuffled') \subseteq S
    BY <2>5, <2>6 DEF Rounds, Range
  <2>8. shuffled'[pos'+1] # Empty
    BY <2>3, <2>7, PlayerAssumption
  <2>9. /\ current' = shuffled'[pos'+1] /\ isPlaying' \in BOOLEAN /\ state' \in {"PLAYING", "PAUSED"}
        /\ (isPlaying' <=> isPlaying) /\ (isPlaying' <=> state' = "PLAYING")
    BY <1>2, <2>4, <2>8, ChangeMusicTells
  <2>10. PlayingInv'
    BY <1>1, <2>7, <2>9 DEF PlayerInv, PlayingInv, ButtonTells
  <2>11. Shuffling'
    BY <1>1, <2>5, <2>6, <2>9 DEF Shuffling
  <2>12. ShuffleInv'
    BY <1>1, <2>1, <2>4, <2>7, <2>11 DEF ShuffleInv
  <2> QED BY <1>1, <2>5, <2>9, <2>10, <2>12 DEF PlayerInv
<1> QED BY <1>3, <1>4

LEMMA ButtonPlayInv ==
    ASSUME PlayerInv, ~crashed, ButtonPlay PROVE PlayerInv'
<1>1. ListInv' /\ UNCHANGED << Range(allMusic), Len(allMusic), selected, crashed, shuffle, current >>
  BY ListKept DEF ButtonPlay, PlayerInv
<1>2. PlayingInv'
  BY <1>1 DEF ButtonPlay, PlayerInv, PlayingInv, ButtonTells
<1>3. ShuffleInv'
  BY <1>1 DEF PlayerInv, ShuffleInv, Shuffling
<1> QED BY <1>1, <1>2, <1>3 DEF PlayerInv

LEMMA InitInv == Init => PlayerInv
<1> SUFFICES ASSUME Init PROVE PlayerInv
  OBVIOUS
<1>1. Range(<< >>) = {} /\ Cardinality({}) = 0 /\ Len(<< >>) = 0
  BY FS_EmptySet DEF Range
<1>2. IsOrder(<< >>, {})
  BY <1>1 DEF IsOrder
<1>3. ListInv
  BY <1>1, <1>2 DEF Init, ListInv, Columns
<1> QED BY <1>1, <1>3 DEF Init, PlayerInv, PlayingInv, ButtonTells, ShuffleInv

LEMMA StepInv ==
    ASSUME PlayerInv, [Next]_vars PROVE PlayerInv'
<1>1. CASE ~crashed /\ ListStep
  BY <1>1, MusicListChangedInv, IconClickedInv, ColumnClickedInv DEF ListStep
<1>2. CASE ~crashed /\ ChoiceStep
  BY <1>2, SelectInv, DoubleClickInv, MenuPlayInv, SearchSelectedInv DEF ChoiceStep
<1>3. CASE ~crashed /\ ButtonStep
  BY <1>3, ButtonShuffleInv, ButtonPreviousInv, NextMusicPlays, ButtonPlayInv
     DEF ButtonStep, ButtonNext, EndOfStream
<1>4. CASE UNCHANGED vars
  BY <1>4 DEF vars, PlayerInv, ListInv, PlayingInv, ButtonTells, ShuffleInv, Shuffling
<1> QED BY <1>1, <1>2, <1>3, <1>4 DEF Next

LEMMA Invariant == Spec => []PlayerInv
<1> QED BY InitInv, StepInv, PTL DEF Spec

---------------------------------------------------------------------------
(* What follows. *)

\* Every Sort...Index table has each song of the list once, and what is current,
\* selected or shuffled is a song of the list, after every reload.
THEOREM TypeCorrect == Spec => []TypeOK
<1>1. PlayerInv => TypeOK
  <2> SUFFICES ASSUME PlayerInv PROVE TypeOK
    OBVIOUS
  <2>1. \A c \in Columns : Range(order[c]) = Range(allMusic) /\ Len(order[c]) = Len(allMusic)
    BY OrderRange, RowsAreOrder DEF PlayerInv, ListInv
  <2> QED BY <2>1 DEF PlayerInv, PlayingInv, ShuffleInv, TypeOK
<1> QED BY <1>1, Invariant, PTL

\* GetSortIndex, by which Next and Previous move, is the row of the song in the
\* list, whatever the list was sorted by or turned, as often as it was.
THEOREM RowsAreFound == Spec => []IndexIsRow
<1>1. PlayerInv => IndexIsRow
  BY IndexOfRow DEF PlayerInv, IndexIsRow
<1> QED BY <1>1, Invariant, PTL

\* While shuffling, the current song is the one at AllMusicShuffledPos, and in
\* every round of the order every song comes once.
THEOREM ShuffleIsFair == Spec => []ShuffledFairly
<1>1. PlayerInv => ShuffledFairly
  BY DEF PlayerInv, ShuffleInv, Shuffling, Rounds, Fair, ShuffledFairly
<1> QED BY <1>1, Invariant, PTL

\* The play button shows whether there is music, through ChangeMusic, reloads
\* and double clicks.
THEOREM ButtonIsRight == Spec => []ButtonTells
<1>1. PlayerInv => ButtonTells
  BY DEF PlayerInv, PlayingInv
<1> QED BY <1>1, Invariant, PTL

\* The song that ends is followed by another one, which is played: timeout1
\* finds a row or a shuffled song, never EmptyMusic.
THEOREM MusicContinues == Spec => MusicGoesOn
<1>1. PlayerInv /\ [Next]_vars
        => [isPlaying /\ current # Empty /\ ~isPlaying' => ~EndOfStream]_vars
  <2> SUFFICES ASSUME PlayerInv, Next, isPlaying, current # Empty, EndOfStream PROVE isPlaying'
    OBVIOUS
  <2>1. ~crashed /\ NextMusic
    BY DEF Next, EndOfStream
  <2> QED BY <2>1, NextMusicPlays
<1> QED BY <1>1, Invariant, PTL DEF Spec, MusicGoesOn

\* Next only makes the shuffled order longer, and nothing else changes it but a
\* new one, from its start, or its end.
THEOREM PastRemains == Spec => PastIsKept
<1>1. PlayerInv /\ [Next]_vars
        => [playMode = "ON" /\ playMode' = "ON"
              => IsPrefix(shuffled, shuffled') \/ (pos' = 0 /\ size' = Len(allMusic'))]_vars
  <2> SUFFICES ASSUME PlayerInv, Next, playMode = "ON", playMode' = "ON"
               PROVE  IsPrefix(shuffled, shuffled') \/ (pos' = 0 /\ size' = Len(allMusic'))
    OBVIOUS
  <2>1. /\ shuffled \in Seq(Songs)
        /\ shuffled' = shuffled => IsPrefix(shuffled, shuffled')
    <3>1. Len(shuffled) \in Nat /\ shuffled \in [1..Len(shuffled) -> Range(allMusic)]
      BY DEF PlayerInv, ShuffleInv, Shuffling, Rounds, Next
    <3>2. shuffled \in [1..Len(shuffled) -> Songs]
      BY <3>1 DEF PlayerInv, ListInv
    <3> QED BY <3>1, <3>2, SeqDef, IsItsPrefix
  <2>2. CASE MusicListChanged
    <3>1. PICK songs \in Lists : Reloaded(songs) /\ Shuffle(songs, Empty, FALSE)
      BY <2>2 DEF MusicListChanged
    <3>2. Len(allMusic') = Cardinality(songs) /\ Range(allMusic') = songs /\ songs \in SUBSET Songs
      BY <3>1, ReloadedInv, PlayerAssumption
    <3>3. CASE songs # {}
      <4>1. isPlaying \in BOOLEAN
        BY DEF PlayerInv, PlayingInv
      <4> QED BY <3>1, <3>2, <3>3, <4>1, ShuffleOK
    <3>4. CASE songs = {}
      BY <3>1, <3>2, <3>4, FS_EmptySet DEF Shuffle
    <3> QED BY <3>3, <3>4
  <2>3. CASE NextMusic
    <3>1. ~crashed
      BY DEF Next
    <3>2. PICK s \in Seq(Songs) : shuffled' = shuffled \/ shuffled' = shuffled \o s
      BY <2>3, <3>1, NextMusicPlays
    <3> QED BY <2>1, <3>2, LongerHasPrefix
  <2>4. CASE IconClicked \/ (\E c \in Columns : ColumnClicked(c)) \/ ButtonPlay
             \/ (\E i \in 1..Len(allMusic) : Select(i))
    BY <2>1, <2>4 DEF IconClicked, ColumnClicked, ButtonPlay, Select
  <2>5. CASE DoubleClick \/ MenuPlay \/ SearchSelected
    <3>1. playMode' = "OFF"
      BY <2>5 DEF DoubleClick, MenuPlay, PlaySelected, SearchSelected, ShuffleOff
    <3> QED BY <3>1
  <2>6. CASE ButtonShuffle
    BY <2>6 DEF ButtonShuffle, ShuffleOff
  <2>7. CASE ButtonPrevious
    BY <2>1, <2>7 DEF ButtonPrevious
  <2> QED BY <2>2, <2>3, <2>4, <2>5, <2>6, <2>7
      DEF Next, ListStep, ChoiceStep, ButtonStep, ButtonNext, EndOfStream
<1> QED BY <1>1, Invariant, PTL DEF Spec, PastIsKept
=============================================================================
