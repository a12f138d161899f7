-------------------------------- MODULE Player --------------------------------
(***************************************************************************)
(* The play list of the program (application.cpp): the rows of the list    *)
(* and the columns they can be sorted by, the song that is selected, the   *)
(* song that is current, and the shuffled order with its past.  Everything *)
(* runs on the GTK thread, one handler at a time; what makes it hard is    *)
(* the long sequences of handlers over tables of indices that must agree.  *)
(* A MusicInfo is named by its song; a reload deletes them all.            *)
(***************************************************************************)
EXTENDS Integers, Sequences, SequencesExt, FiniteSets

CONSTANTS Songs,     \* the songs of every folder and peer
          Title,     \* song -> its title in lower case, as a number
          Duration,  \* song -> its length
          Album, Artist, FileName, \* song -> a name
          Lower,     \* a name in lower case, as a number
          Lists,     \* the sets of songs a reload may find
          MaxRounds, \* bound: shuffled orders that are put one after another
          Empty,     \* EmptyMusic
          Deleted    \* a pointer to a MusicInfo that was deleted

Columns == {"TITLE", "TIME", "ARTIST", "ALBUM", "FILENAME"}

ASSUME PlayerAssumption ==
    /\ Title \in [Songs -> Nat] /\ Duration \in [Songs -> Nat]
    /\ \A s \in Songs : {Album[s], Artist[s], FileName[s]} \subseteq DOMAIN Lower
    /\ Lists \subseteq SUBSET Songs
    /\ MaxRounds \in Nat /\ {Empty, Deleted} \cap Songs = {}
    /\ IsFiniteSet(Songs)

VARIABLES
    order,      \* column -> the songs in its order: the Sort...Index of each
    allMusic,   \* AllMusic, and with it the rows of the list
    sortColumn, ascending, \* SortColumn and SortOrder
    current,    \* CurrentMusic
    selected,   \* SelectedMusic
    playMode,   \* PlayMode: SINGLE is never set
    shuffled,   \* AllMusicShuffled
    pos, size,  \* AllMusicShuffledPos and AllMusicShuffledSize
    isPlaying,  \* IsPlaying
    state,      \* the state of the play button
    columnClicked, \* TreeViewColumnClicked
    crashed

list   == << order, allMusic, sortColumn, ascending >>
shuffle == << playMode, shuffled, pos, size >>
playing == << current, isPlaying, state >>
vars == << list, shuffle, playing, selected, columnClicked, crashed >>

---------------------------------------------------------------------------
(* The orders of the columns. *)

ByTitle(a, b) == Title[a] < Title[b]
ByDuration(a, b) ==
    IF Duration[a] # Duration[b] THEN Duration[a] < Duration[b] ELSE ByTitle(a, b)
ByAlbum(a, b) ==
    IF Album[a] # Album[b] THEN Lower[Album[a]] < Lower[Album[b]] ELSE ByTitle(a, b)
ByArtist(a, b) ==
    IF Artist[a] # Artist[b] THEN Lower[Artist[a]] < Lower[Artist[b]] ELSE ByAlbum(a, b)
ByFileName(a, b) == Lower[FileName[a]] < Lower[FileName[b]]

Before(c, a, b) == CASE c = "TITLE"    -> ByTitle(a, b)
                     [] c = "TIME"     -> ByDuration(a, b)
                     [] c = "ARTIST"   -> ByArtist(a, b)
                     [] c = "ALBUM"    -> ByAlbum(a, b)
                     [] c = "FILENAME" -> ByFileName(a, b)

\* std::sort wants a strict weak order: names that differ in their case only
\* are neither equal nor ordered.  Without one its result is any order, if it
\* returns.
Tied(c, a, b) == ~Before(c, a, b) /\ ~Before(c, b, a)
IsWeakOrder(c, S) ==
    \A x, y, z \in S : Tied(c, x, y) /\ Tied(c, y, z) => Tied(c, x, z)
Sorted(c, S) ==
    IF ~IsWeakOrder(c, S) THEN SetToSeqs(S)
    ELSE {s \in SetToSeqs(S) : \A i, j \in 1..Len(s) : i < j => ~Before(c, s[j], s[i])}
\* What each list can be sorted to, and the orders of each set of songs.
SortsOf == [S \in Lists |-> [c \in Columns |-> Sorted(c, S)]]
Unsortable == {S \in Lists : \E c \in Columns : ~IsWeakOrder(c, S)}
OrdersOf == [S \in SUBSET Songs |-> SetToSeqs(S)]

Index(c, song) == (CHOOSE i \in 1..Len(order[c]) : order[c][i] = song) - 1
AllMusicCopy == order["TITLE"]

\* GetSortIndex of a song that is in the list.
GetSortIndex(song) ==
    LET index == IF song = Empty THEN -1 ELSE Index(sortColumn, song)
    IN  IF ascending THEN index ELSE Len(AllMusicCopy) - 1 - index

---------------------------------------------------------------------------
(* What the handlers call. *)

Init ==
    /\ order = [c \in Columns |-> << >>] /\ allMusic = << >>
    /\ sortColumn = "TITLE" /\ ascending = TRUE
    /\ current = Empty /\ selected = Empty
    /\ playMode = "OFF" /\ shuffled = << >> /\ pos = 0 /\ size = 0
    /\ isPlaying = FALSE /\ state = "PAUSED"
    /\ columnClicked = FALSE
    /\ crashed = FALSE

\* Slip: the button is left as it was.
ChangeMusicButtonLeft(song, play) ==
    /\ current' = song
    /\ isPlaying' = ((play /\ song # Empty) \/ (isPlaying /\ song = Empty))
    /\ state' = IF play THEN "PLAYING" ELSE state
\* Slip: the music stays paused.
ChangeMusicPaused(song, play) ==
    /\ current' = song
    /\ isPlaying' = (isPlaying /\ song = Empty) /\ state' = "PAUSED"
\* ChangeMusic, and PlayMusic when OriginalIsPlaying.  PauseMusic, which
\* ChangeMusic calls, asks the song that is current by now.
ChangeMusic(song, play) ==
    LET stillPlaying == isPlaying /\ song = Empty
    IN  /\ current' = song
        /\ IF play /\ song # Empty /\ ~stillPlaying
           THEN isPlaying' = TRUE /\ state' = "PLAYING"
           ELSE isPlaying' = stillPlaying /\ state' = "PAUSED"

ShuffleOff == playMode' = "OFF" /\ shuffled' = << >> /\ pos' = 0 /\ size' = 0

\* ExtendAllMusicShuffled: any order, or any with the current song in front.
Orders(songs, first) ==
    IF first = Empty THEN OrdersOf[songs]
    ELSE {<< first >> \o s : s \in OrdersOf[songs \ {first}]}

\* Shuffle, on a list of songs; of an empty list it asks for the first, which
\* throws.
Shuffle(songs, first, play) ==
    /\ playMode' = "ON" /\ pos' = 0
    /\ IF songs = {} THEN shuffled' = << >> /\ size' = 0 /\ UNCHANGED playing
       ELSE \E s \in Orders(songs, first) :
               /\ shuffled' = s /\ size' = Len(s)
               /\ ChangeMusic(s[1], play)

---------------------------------------------------------------------------
(* The handlers. *)

\* Slip: the list is not sorted by file name.
ReloadedNotAllSorted(songs) ==
    LET S == SortsOf[songs]
    IN  /\ \E t \in S["TITLE"], d \in S["TIME"], r \in S["ARTIST"], l \in S["ALBUM"] :
             order' = [order EXCEPT !["TITLE"] = t, !["TIME"] = d, !["ARTIST"] = r, !["ALBUM"] = l]
        /\ allMusic' = order'["TITLE"]
        /\ sortColumn' = "TITLE" /\ ascending' = TRUE
\* set_music_list: the tables, and the rows by title.
Reloaded(songs) ==
    LET S == SortsOf[songs]
    IN  /\ \E t \in S["TITLE"], d \in S["TIME"], r \in S["ARTIST"], l \in S["ALBUM"], f \in S["FILENAME"] :
             order' = [c \in Columns |-> CASE c = "TITLE" -> t [] c = "TIME" -> d [] c = "ARTIST" -> r
                                           [] c = "ALBUM" -> l [] c = "FILENAME" -> f]
        /\ allMusic' = order'["TITLE"]
        /\ sortColumn' = "TITLE" /\ ascending' = TRUE

\* MusicListChanged: the music stops, every MusicInfo is deleted and the list
\* made anew; SelectedMusic keeps pointing at what it did.
MusicListChanged ==
    /\ \E songs \in Lists :
         /\ Reloaded(songs)
         /\ IF playMode = "ON" THEN Shuffle(songs, Empty, FALSE)
            ELSE /\ current' = Empty /\ isPlaying' = (isPlaying /\ current = Empty)
                 /\ state' = "PAUSED"
                 /\ UNCHANGED shuffle
         /\ \E sorted \in {TRUE, songs \notin Unsortable} :
              crashed' = (~sorted \/ (playMode = "ON" /\ songs = {}))
    /\ selected' = IF selected = Empty THEN Empty ELSE Deleted
    /\ UNCHANGED columnClicked

SortMusicListByIndex(c, up) == IF up THEN order[c] ELSE Reverse(order[c])

\* Slip: the rows are sorted in the new order and the old one kept.
ColumnClickedOrderKept(c) ==
    /\ columnClicked' = TRUE /\ sortColumn' = c
    /\ LET up == ~(sortColumn = c /\ ascending)
       IN  allMusic' = SortMusicListByIndex(c, up)
    /\ UNCHANGED << order, ascending, shuffle, playing, selected, crashed >>
\* on_TreeViewColumn_Clicked: a second click turns the order.  The row of the
\* selected song is selected again, whether there is one or not.
ColumnClicked(c) ==
    LET up == ~(sortColumn = c /\ ascending)
    IN  /\ columnClicked' = TRUE
        /\ sortColumn' = c /\ ascending' = up
        /\ allMusic' = SortMusicListByIndex(c, up)
        /\ crashed' \in {FALSE, selected \notin Songs}
        /\ UNCHANGED << order, shuffle, playing, selected >>
IconClicked ==
    columnClicked' = TRUE /\ UNCHANGED << list, shuffle, playing, selected, crashed >>

\* A click on a row selects it; the click after one on a column is ignored
\* otherwise.
Select(i) ==
    /\ selected' = allMusic[i]
    /\ columnClicked' = FALSE
    /\ UNCHANGED << list, shuffle, playing, crashed >>

\* What a handler does with SelectedMusic when it was deleted is not known.
PlaySelected(song, play) ==
    /\ ShuffleOff
    /\ IF song = Deleted THEN crashed' = TRUE /\ UNCHANGED playing
       ELSE ChangeMusic(song, play) /\ UNCHANGED crashed
    /\ UNCHANGED << list, columnClicked >>
\* A double click: on a row, which is selected first, or next to the rows.
\* The music is paused and played again.
DoubleClick ==
    /\ \E song \in Range(allMusic) \cup {selected} :
         /\ selected' = song
         /\ ShuffleOff
         /\ IF song = Deleted THEN crashed' = TRUE /\ UNCHANGED playing
            ELSE /\ current' = song
                 /\ isPlaying' = (song # Empty \/ (isPlaying /\ current = Empty))
                 /\ state' = IF song # Empty THEN "PLAYING" ELSE "PAUSED"
                 /\ UNCHANGED crashed
    /\ columnClicked' = FALSE
    /\ UNCHANGED list
\* A right click, on a row or next to them, and `Play' of the menu.
MenuPlay ==
    /\ ~columnClicked
    /\ \E song \in Range(allMusic) \cup {selected} :
         selected' = song /\ PlaySelected(song, FALSE)

\* Slip: the shuffled order is left in place.
SearchSelectedShuffling ==
    /\ \E i \in 1..Len(allMusic) : ChangeMusic(allMusic[i], isPlaying)
    /\ UNCHANGED << list, shuffle, selected, columnClicked, crashed >>
\* on_EntryCompletion1_match_selected: a row chosen by searching.
SearchSelected ==
    /\ ShuffleOff
    /\ \E i \in 1..Len(allMusic) : ChangeMusic(allMusic[i], isPlaying)
    /\ UNCHANGED << list, selected, columnClicked, crashed >>

ButtonShuffle ==
    /\ Len(allMusic) > 0
    /\ IF playMode = "OFF" THEN Shuffle(Range(allMusic), current, isPlaying)
       ELSE ShuffleOff /\ UNCHANGED playing
    /\ UNCHANGED << list, selected, columnClicked, crashed >>

Row(i) == allMusic[(i % Len(allMusic)) + 1]

\* The row above, or the song played before.
ButtonPrevious ==
    /\ IF playMode = "OFF"
       THEN /\ current # Empty
            /\ ChangeMusic(Row(GetSortIndex(current) + Len(allMusic) - 1), isPlaying)
            /\ UNCHANGED shuffle
       ELSE /\ pos > 0
            /\ pos' = pos - 1
            /\ ChangeMusic(shuffled[pos'+1], isPlaying)
            /\ UNCHANGED << playMode, shuffled, size >>
    /\ UNCHANGED << list, selected, columnClicked, crashed >>

\* Slip: at the end of the order all of it is shuffled again.
NextShuffledAgain ==
    /\ pos' = pos + 1
    /\ IF size = pos'
       THEN /\ size < MaxRounds * Len(allMusic)
            /\ \E s, t \in Orders(Range(allMusic), Empty) :
                 shuffled' = s \o t /\ size' = size + Len(s)
       ELSE UNCHANGED << shuffled, size >>
    /\ ChangeMusic(shuffled'[pos'+1], isPlaying)
    /\ UNCHANGED playMode
NextShuffled ==
    /\ pos' = pos + 1
    /\ IF size = pos'
       THEN /\ size < MaxRounds * Len(allMusic)
            /\ \E s \in Orders(Range(allMusic), Empty) :
                 shuffled' = shuffled \o s /\ size' = size + Len(s)
       ELSE UNCHANGED << shuffled, size >>
    /\ ChangeMusic(shuffled'[pos'+1], isPlaying)
    /\ UNCHANGED playMode
\* The row below, or the next in the shuffled order, which is made longer when
\* it is at its end.
NextMusic ==
    /\ IF playMode = "OFF"
       THEN /\ current # Empty
            /\ ChangeMusic(Row(GetSortIndex(current) + 1), isPlaying)
            /\ UNCHANGED shuffle
       ELSE NextShuffled
    /\ UNCHANGED << list, selected, columnClicked, crashed >>
ButtonNext == NextMusic
\* timeout1 at the end of a song.
EndOfStream == isPlaying /\ NextMusic

\* on_ButtonPlay1_clicked: PlayMusic when paused, and PauseMusic when that
\* finds the music playing.
ButtonPlay ==
    /\ IF state = "PAUSED"
       THEN IF ~isPlaying /\ current # Empty
            THEN isPlaying' = TRUE /\ state' = "PLAYING"
            ELSE isPlaying' = (isPlaying /\ current = Empty) /\ state' = "PAUSED"
       ELSE isPlaying' = (isPlaying /\ current = Empty) /\ state' = "PAUSED"
    /\ UNCHANGED << list, shuffle, current, selected, columnClicked, crashed >>

ListStep == MusicListChanged \/ IconClicked \/ (\E c \in Columns : ColumnClicked(c))
ChoiceStep == (\E i \in 1..Len(allMusic) : Select(i)) \/ DoubleClick \/ MenuPlay \/ SearchSelected
ButtonStep == ButtonShuffle \/ ButtonPrevious \/ ButtonNext \/ EndOfStream \/ ButtonPlay

Next == ~crashed /\ (ListStep \/ ChoiceStep \/ ButtonStep)
Spec == Init /\ [][Next]_vars

---------------------------------------------------------------------------
(* Properties. *)

\* Every table is an order of the same songs, and what is current, selected
\* or shuffled is one of them.
TypeOK ==
    /\ \A c \in Columns : Range(order[c]) = Range(allMusic) /\ Len(order[c]) = Len(allMusic)
    /\ ~crashed => current \in Range(allMusic) \cup {Empty}
    /\ selected \in Range(allMusic) \cup {Empty, Deleted}
    /\ Range(shuffled) \subseteq Range(allMusic)
    /\ state \in {"PLAYING", "PAUSED"} /\ isPlaying \in BOOLEAN

\* The index by which Next and Previous find a song is its row, whatever the
\* list was sorted by, turned and loaded again in between.
IndexIsRow ==
    \A i \in 1..Len(allMusic) : GetSortIndex(allMusic[i]) = i - 1

\* While shuffling, the current song is the one at the position, which is in
\* the list, and every song comes once before one comes twice.
ShuffledFairly ==
    playMode = "ON" /\ ~crashed =>
        /\ size = Len(shuffled) /\ pos < size
        /\ current = shuffled[pos+1]
        /\ LET n == Len(allMusic)
           IN  \A i, j \in 1..size : i < j /\ (i-1) \div n = (j-1) \div n => shuffled[i] # shuffled[j]

\* The play button says whether there is music, as long as a song is current.
ButtonTells == ~crashed /\ current # Empty => (isPlaying <=> state = "PLAYING")

\* A song that ends is followed by another one, which is played.
MusicGoesOn ==
    [][isPlaying /\ current # Empty /\ ~isPlaying' => ~EndOfStream]_vars

\* What one has heard while shuffling can be gone back to: the order is only
\* ever made longer, until a reload or the user begins another.
PastIsKept ==
    [][playMode = "ON" /\ playMode' = "ON" 
         => IsPrefix(shuffled, shuffled') \/ (pos' = 0 /\ size' = Len(allMusic'))]_vars
=============================================================================
