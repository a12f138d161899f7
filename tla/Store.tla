-------------------------------- MODULE Store --------------------------------
(***************************************************************************)
(* The table of tracks (store.cpp) as operators: a table is a function     *)
(* from the ids of SQLite to rows.  `strict' is not modelled: the program  *)
(* never passes it.  What is asked of the file system comes in as two      *)
(* arguments: files, the contents of the songs under their canonical       *)
(* paths, and lrcs, the lyric files that exist.                            *)
(***************************************************************************)
EXTENDS Integers, FiniteSets, FiniteSetsExt

CONSTANTS Real,   \* a path -> the canonical path of the same file
          Column, \* a text -> what a column declared STRING gives back for it
          None    \* an empty string

\* A Track.  tags stands for album, artist, title and duration.
Track(tags, path, lrc) ==
    [id |-> -1, tags |-> tags, path |-> path, lrc |-> lrc, checksum |-> None]

\* checksum_of_track: two files have the same digest when they are the same,
\* tags included.
Exists(files, path) == path # None /\ Real[path] \in DOMAIN files
Checksum(files, path) == files[Real[path]]

\* INSERT: SQLite gives the id after the largest.
NewId(table) == IF table = << >> THEN 1 ELSE Max(DOMAIN table) + 1
\* Slip: the id of the row is the caller's.
InsertWithoutId(table, row) ==
    LET id == NewId(table)
    IN  [i \in DOMAIN table \cup {id} |-> IF i = id THEN row ELSE table[i]]
Insert(table, row) ==
    LET id == NewId(table)
    IN  [i \in DOMAIN table \cup {id} |-> IF i = id THEN [row EXCEPT !.id = id] ELSE table[i]]

\* create: a file that is not there leaves an empty column and no digest.
Create(table, t, files, lrcs) ==
    LET there == Exists(files, t.path)
    IN  Insert(table,
               [id |-> t.id, tags |-> Column[t.tags],
                path |-> IF there THEN Real[t.path] ELSE None,
                lrc |-> IF t.lrc \in lrcs THEN t.lrc ELSE None,
                checksum |-> IF there THEN Checksum(files, t.path) ELSE t.checksum])

\* update gives up when the lyric file is gone.  The lyric column takes the
\* path of the song, and no row is changed when none has the id.
CanUpdate(t, lrcs) == t.lrc = None \/ t.lrc \in lrcs
Update(table, id, t, files, lrcs) ==
    LET there == Exists(files, t.path)
        path  == IF there THEN Real[t.path] ELSE None
        row   == [t EXCEPT !.id = id, !.tags = Column[@], !.path = path,
                           !.lrc = IF @ = None THEN None ELSE path,
                           !.checksum = IF there THEN Checksum(files, t.path) ELSE @]
    IN  IF ~CanUpdate(t, lrcs) \/ id \notin DOMAIN table THEN table
        ELSE [table EXCEPT ![id] = row]
\* The digest of a file that cannot be opened: fread of a null pointer.
ReadsNoFile(t, files, lrcs) ==
    CanUpdate(t, lrcs) /\ t.path # None /\ ~Exists(files, t.path)

SearchWithPath(table, path) == {i \in DOMAIN table : table[i].path = path}
SearchWithChecksum(table, c) == {i \in DOMAIN table : table[i].checksum = c}

\* Slip: the row that was found is updated.
UpsertFound(table, t, files, lrcs) ==
    LET found == SearchWithPath(table, t.path)
    IN  IF found = {} THEN Create(table, t, files, lrcs)
        ELSE Update(table, Min(found), t, files, lrcs)
\* Slip: every track is inserted.
UpsertAlways(table, t, files, lrcs) == Create(table, t, files, lrcs)
\* upsert: the row to update is that of the caller's id.
Upsert(table, t, files, lrcs) ==
    IF SearchWithPath(table, t.path) = {} THEN Create(table, t, files, lrcs)
    ELSE Update(table, t.id, t, files, lrcs)
UpsertCrashes(table, t, files, lrcs) ==
    SearchWithPath(table, t.path) # {} /\ ReadsNoFile(t, files, lrcs)

\* read_all: what a peer is sent.
Checksums(table) == {table[i].checksum : i \in DOMAIN table}
=============================================================================
