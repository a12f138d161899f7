------------------------------- MODULE Library -------------------------------
(***************************************************************************)
(* The list of songs of a node and the database behind it (application.cpp)*)
(* over a directory that other programs change too.  set_music_list runs   *)
(* on the GTK thread: it lists the directory, reads the tags of each file, *)
(* and has a background thread insert or update a row per file before it   *)
(* ends.  Meanwhile the io thread may send the table to a peer.            *)
(***************************************************************************)
EXTENDS Store, Sequences

CONSTANTS Folder,     \* a path -> its folder
          LyricOf,    \* a path -> the path of the lyric file next to it
          Audio,      \* what can be heard in a song
          Tags,       \* the tags a song can have
          Disk0, Lrc0, \* the songs and the lyric files at the start
          MaxChanges  \* bound: changes of other programs and edits

Paths == DOMAIN Folder
Folders == {Folder[n] : n \in Paths}
Content == [audio : Audio, tags : Tags]

ASSUME LibraryAssumption ==
    /\ DOMAIN LyricOf = Paths
    /\ Real \in [Paths -> Paths] /\ \A n \in Paths : Real[Real[n]] = Real[n]
    /\ Tags \subseteq DOMAIN Column
    /\ Disk0 \in [DOMAIN Disk0 -> Content]
    /\ \A n \in DOMAIN Disk0 : n \in Paths /\ Real[n] = n
    /\ None \notin Paths /\ MaxChanges \in Nat

VARIABLES
    disk,     \* canonical path -> the song that is there
    lrcs,     \* the lyric files that are there
    table,    \* the rows of sqlite.db
    dirs,     \* the folders that are listed
    allMusic, \* AllMusic: the songs with a file, as they were listed
    scan,     \* set_music_list: where it is, and what it has still to do
    told,     \* the checksums this node has sent its peers
    changes,  \* changes so far
    versions, \* history: path -> what was ever there
    touched,  \* history: what has been changed since the scan began
    crashed

vars == << disk, lrcs, table, dirs, allMusic, scan, told, changes, versions, touched, crashed >>

AtRest == [pc |-> "rest", todo |-> {}, collected |-> << >>]

\* listfiles: the regular files of the folders, links to files among them.
Listing(d, files) == {n \in Paths : Folder[n] \in d /\ Real[n] \in DOMAIN files}

Init ==
    /\ disk = Disk0 /\ lrcs = Lrc0
    /\ table = << >>
    /\ dirs = {} /\ allMusic = {}
    /\ scan = AtRest
    /\ told = {}
    /\ changes = 0
    /\ versions = [n \in Paths |-> IF n \in DOMAIN Disk0 THEN {Disk0[n]} ELSE {}]
    /\ touched = {}
    /\ crashed = FALSE

\* MusicListChanged up to the listing: the old list is deleted first.
BeginScan(d, files) ==
    /\ dirs' = d
    /\ allMusic' = {}
    /\ touched' = {}
    /\ scan' = [pc |-> "tags", todo |-> Listing(d, files), collected |-> << >>]

\* Reload, another folder, or another answer to `show files in subfolders'.
Reload ==
    /\ scan.pc = "rest"
    /\ \E d \in SUBSET Folders : BeginScan(d, disk)
    /\ UNCHANGED << disk, lrcs, table, told, changes, versions, crashed >>

\* taglib_get_data for the next file.  Tags of a file that has gone: a null
\* pointer.
ReadTags(n) ==
    /\ scan.pc = "tags" /\ n \in scan.todo
    /\ IF Exists(disk, n)
       THEN /\ LET lrc == IF LyricOf[n] \in lrcs THEN LyricOf[n] ELSE None
                   t   == Track(Checksum(disk, n).tags, n, lrc)
               IN  /\ scan' = [scan EXCEPT !.todo = @ \ {n}, !.collected = Append(@, t)]
                   /\ allMusic' = allMusic \cup {t}
            /\ UNCHANGED crashed
       ELSE crashed' = TRUE /\ UNCHANGED << scan, allMusic >>
    /\ UNCHANGED << disk, lrcs, table, dirs, told, changes, versions, touched >>

\* The list is sorted while the thread of upsert_many runs.
StartThread ==
    /\ scan.pc = "tags" /\ scan.todo = {}
    /\ scan' = [scan EXCEPT !.pc = "store"]
    /\ UNCHANGED << disk, lrcs, table, dirs, allMusic, told, changes, versions, touched, crashed >>

\* Slip: the thread ends with the first track that is not inserted.
UpsertNextStopping ==
    /\ scan.pc = "store" /\ scan.collected # << >>
    /\ LET t == Head(scan.collected)
           after == Upsert(table, t, disk, lrcs)
       IN  /\ table' = after
           /\ scan' = [scan EXCEPT !.collected = IF after = table THEN << >> ELSE Tail(@)]
    /\ UNCHANGED << disk, lrcs, dirs, allMusic, told, changes, versions, touched, crashed >>
\* Slip: a track that is not inserted is tried again.
UpsertNextRetrying ==
    /\ scan.pc = "store" /\ scan.collected # << >>
    /\ LET t == Head(scan.collected)
           after == Upsert(table, t, disk, lrcs)
       IN  /\ table' = after
           /\ scan' = [scan EXCEPT !.collected = IF after = table THEN @ ELSE Tail(@)]
    /\ UNCHANGED << disk, lrcs, dirs, allMusic, told, changes, versions, touched, crashed >>
\* upsert_many: the next track.
UpsertNext ==
    /\ scan.pc = "store" /\ scan.collected # << >>
    /\ LET t == Head(scan.collected)
       IN  /\ table' = Upsert(table, t, disk, lrcs)
           /\ crashed' \in {FALSE, UpsertCrashes(table, t, disk, lrcs)}
    /\ scan' = [scan EXCEPT !.collected = Tail(@)]
    /\ UNCHANGED << disk, lrcs, dirs, allMusic, told, changes, versions, touched >>

\* join, and the rest of set_music_list.
Join ==
    /\ scan.pc = "store" /\ scan.collected = << >>
    /\ scan' = AtRest
    /\ UNCHANGED << disk, lrcs, table, dirs, allMusic, told, changes, versions, touched, crashed >>

\* What a change of files means for the history.
Changed(names) ==
    /\ changes < MaxChanges /\ changes' = changes + 1
    /\ versions' = [n \in Paths |-> IF n \in DOMAIN disk'
                                    THEN versions[n] \cup {disk'[n]} ELSE versions[n]]

\* taglib_set_data, and MusicListChanged: the song is renamed within its
\* folder, over a song that has the name already; so is its lyric file, if the
\* listing found one; the new tags are saved.  A file that is not there any
\* more: rename throws.
Edit ==
    /\ scan.pc = "rest"
    /\ \E t \in allMusic, m \in Paths, tags \in Tags :
         LET n == t.path IN
         /\ Real[n] = n /\ Real[m] = m \* bound: links are not edited
         /\ Folder[m] = Folder[n]
         /\ IF n \notin DOMAIN disk \/ (t.lrc # None /\ t.lrc \notin lrcs)
            THEN /\ crashed' = TRUE
                 /\ UNCHANGED << disk, lrcs, dirs, allMusic, scan, changes, versions, touched >>
            ELSE /\ disk' = [x \in (DOMAIN disk \ {n}) \cup {m} |->
                               IF x = m THEN [disk[n] EXCEPT !.tags = tags] ELSE disk[x]]
                 /\ lrcs' = IF t.lrc = None THEN lrcs ELSE (lrcs \ {t.lrc}) \cup {LyricOf[m]}
                 /\ Changed({n, m})
                 /\ BeginScan(dirs, disk')
                 /\ UNCHANGED crashed
    /\ UNCHANGED << table, told >>

\* Another program writes, replaces or deletes a song or a lyric file.
OtherProgram ==
    /\ \/ \E n \in Paths, c \in Content :
            /\ Real[n] = n
            /\ disk' = [x \in DOMAIN disk \cup {n} |-> IF x = n THEN c ELSE disk[x]]
            /\ disk' # disk
            /\ touched' = touched \cup {n} /\ UNCHANGED lrcs
       \/ \E n \in DOMAIN disk :
            /\ disk' = [x \in DOMAIN disk \ {n} |-> disk[x]]
            /\ touched' = touched \cup {n} /\ UNCHANGED lrcs
       \/ \E n \in Paths :
            /\ lrcs' = IF LyricOf[n] \in lrcs THEN lrcs \ {LyricOf[n]} ELSE lrcs \cup {LyricOf[n]}
            /\ UNCHANGED << disk, touched >>
    /\ Changed(touched')
    /\ UNCHANGED << table, dirs, allMusic, scan, told, crashed >>

\* handle_get_database: a peer is sent every row.
GetDatabase ==
    /\ told' = told \cup Checksums(table)
    /\ UNCHANGED << disk, lrcs, table, dirs, allMusic, scan, changes, versions, touched, crashed >>

ScanStep == (\E n \in Paths : ReadTags(n)) \/ StartThread \/ UpsertNext \/ Join

Next == ~crashed /\ (Reload \/ ScanStep \/ Edit \/ OtherProgram \/ GetDatabase)

\* The GTK thread and the thread of upsert_many run.
Spec == Init /\ [][Next]_vars /\ WF_vars(~crashed /\ ScanStep)

---------------------------------------------------------------------------
(* Properties. *)

\* The table holds tracks under their own ids, and a list that is being made
\* is the list of what was read so far.
TypeOK ==
    /\ \A i \in DOMAIN table : table[i].id = i /\ table[i].path \in Paths \cup {None}
    /\ \A n \in DOMAIN disk : Real[n] = n /\ disk[n] \in versions[n]
    /\ scan.pc \in {"rest", "tags", "store"}
    /\ scan.pc # "tags" => scan.todo = {}
    /\ \A i \in 1..Len(scan.collected) : scan.collected[i] \in allMusic

\* However often the directory is read again, and whatever changes meanwhile,
\* a song has one row: upsert finds the row create has made.
OneRowPerPath ==
    \A i, j \in DOMAIN table :
        table[i].path = table[j].path /\ table[i].path # None => i = j

\* A row tells of its own file: the digest is that of something that was at
\* its path, the tags too, and the lyric file is its own.
RowsTellOfTheirFile ==
    \A i \in DOMAIN table : table[i].path # None =>
        /\ table[i].checksum \in versions[table[i].path]
        /\ \E v \in versions[table[i].path] : table[i].tags = Column[v.tags]
        /\ table[i].lrc \in {None, LyricOf[table[i].path]}

\* When set_music_list has returned, every song of the list can be served to
\* peers: it has a row, unless another program touched it in the meantime.
ListedHaveRows ==
    ~crashed /\ scan.pc = "rest" =>
        \A t \in allMusic : Real[t.path] \in touched
                            \/ SearchWithPath(table, Real[t.path]) # {}

\* What a peer was told of is found when it asks for it: handle_prepare_file_sharing
\* searches the table for the checksum the peer was sent.
ToldIsFound == \A c \in told : SearchWithChecksum(table, c) # {}

\* A list that is being read is read to its end.
ScansEnd == scan.pc # "rest" ~> scan.pc = "rest" \/ crashed

\* `if it already exists, update it' (store.h): when the directory was left
\* alone, the row of a listed song has the digest and the tags of its file.
RowsFresh ==
    ~crashed /\ scan.pc = "rest" =>
        \A t \in allMusic : Real[t.path] \in touched \/
            \E i \in SearchWithPath(table, Real[t.path]) :
                /\ table[i].checksum = Checksum(disk, t.path)
                /\ table[i].tags = Column[t.tags]
=============================================================================
