-------------------------------- MODULE Lyrics --------------------------------
(***************************************************************************)
(* Lyric files (lrc.cpp) as operators.  A file is a sequence of lines:     *)
(*   [kind |-> "offset", ms |-> an integer]                                *)
(*   [kind |-> "length", at |-> a time]                                    *)
(*   [kind |-> "words",  at |-> the times of a line, or in the enhanced    *)
(*                              format those of its words]                 *)
(* Other headers and all text are left out.  Times are unsigned, modulo    *)
(* Word.                                                                   *)
(***************************************************************************)
EXTENDS Integers, SequencesExt

CONSTANT Word \* 2^32: the values of an unsigned int

ASSUME WordAssumption == Word \in Nat \ {0}

Times == [mm : Int, ss : Int, xx : Int]
LyricFiles == Seq([kind : {"offset"}, ms : Int] \cup [kind : {"length"}, at : Times]
                     \cup [kind : {"words"}, at : Seq(Times)])
Malformed == [mm |-> -1, ss |-> -1, xx |-> -1]
Unsigned(x) == x % Word
\* An unsigned value in an int.
Signed(x) == IF x < Word \div 2 THEN x ELSE x - Word

\* sTimetoms: minutes, seconds and hundredths; what is not of that form is -1.
sTimetoms(t) ==
    Unsigned(IF t = Malformed THEN -1 ELSE t.xx * 10 + t.ss * 1000 + t.mm * 60000)

\* A lyric for every time of every line of words, after one at zero.
Starts(file) ==
    << 0 >> \o FlattenSeq([l \in 1..Len(file) |->
                 IF file[l].kind # "words" THEN << >>
                 ELSE [i \in 1..Len(file[l].at) |-> sTimetoms(file[l].at[i])]])

LinesOf(file, kind) == {l \in 1..Len(file) : file[l].kind = kind}
\* Of several headers the last one counts.
Offset(file) ==
    LET lines == LinesOf(file, "offset") IN IF lines = {} THEN 0 ELSE file[Max(lines)].ms
Length(file) ==
    LET lines == LinesOf(file, "length")
    IN  sTimetoms(IF lines = {} THEN Malformed ELSE file[Max(lines)].at)

\* std::stable_sort: the n-th of the sorted is the least that n of them do not exceed.
Ascending(starts) ==
    [n \in 1..Len(starts) |->
       Min({ms \in ToSet(starts) :
              n <= Cardinality({i \in 1..Len(starts) : starts[i] <= ms})})]

\* Lrc: the lyrics in the order of their times, the offset added to all but
\* the first -- the test for a negative sum is one of an unsigned value --
\* each ended by the next and the last by the length in the header.
Lrc(file) ==
    LET sorted == Ascending(Starts(file))
        start  == [i \in 1..Len(sorted) |->
                     IF i = 1 THEN sorted[1] ELSE Unsigned(sorted[i] + Offset(file))]
    IN  [i \in 1..Len(sorted) |->
           [startms |-> start[i],
            endms   |-> IF i < Len(sorted) THEN start[i+1] ELSE Length(file)]]

\* GetLyricIndex: the one before the first that is later; from 0.
GetLyricIndex(lys, ms) ==
    LET later == {i \in 1..Len(lys) : lys[i].startms > Unsigned(ms)}
    IN  IF later = {} THEN Len(lys) - 1
        ELSE (CHOOSE i \in later : \A j \in later : i <= j) - 2
=============================================================================
