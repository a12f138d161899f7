--------------------------- MODULE Library_proofs ---------------------------
(***************************************************************************)
(* What is proved of Library, for all songs, folders and lyric files and   *)
(* any number of changes.                                                  *)
(***************************************************************************)
EXTENDS Library, CommunityFacts

Lyrics == {None} \cup {LyricOf[n] : n \in Paths}
Tracks == [id : {-1}, tags : Tags, path : Paths, lrc : Lyrics, checksum : {None}]
Rows == [id : Nat, tags : {Column[x] : x \in Tags}, path : Paths \cup {None}, lrc : Lyrics,
         checksum : Content \cup {None}]

\* The ids of a table are bounded.
Table(tab) == tab \in [DOMAIN tab -> Rows] /\ \E k \in Nat : DOMAIN tab \subseteq 1..k

FilesInv ==
    /\ disk \in [DOMAIN disk -> Content]
    /\ versions \in [Paths -> SUBSET Content]
    /\ \A n \in DOMAIN disk : n \in Paths /\ Real[n] = n /\ disk[n] \in versions[n]
\* What a track tells was so when it was read, and an update never finds one:
\* its id is that of no row.
ListInv ==
    /\ allMusic \subseteq Tracks
    /\ \A t \in allMusic : /\ \E v \in versions[Real[t.path]] : t.tags = v.tags
                           /\ t.lrc \in {None, LyricOf[t.path]}
    /\ scan.pc \in {"rest", "tags", "store"}
    /\ scan.todo \subseteq Paths /\ (scan.pc # "tags" => scan.todo = {})
    /\ scan.pc = "rest" => scan.collected = << >>
    /\ scan.collected \in Seq(Tracks)
    /\ \A i \in 1..Len(scan.collected) : scan.collected[i] \in allMusic
    /\ scan = [pc |-> scan.pc, todo |-> scan.todo, collected |-> scan.collected]
TableInv ==
    /\ Table(table)
    /\ \A i \in DOMAIN table : table[i].id = i
    /\ \A i \in DOMAIN table : table[i].path # None =>
         /\ table[i].checksum \in versions[table[i].path]
         /\ \E v \in versions[table[i].path] : table[i].tags = Column[v.tags]
ToldInv == \A c \in told : SearchWithChecksum(table, c) # {}
LibraryInv == FilesInv /\ ListInv /\ TableInv /\ ToldInv

\* Without links, a row has the lyric file of its song, and its song but one
\* row; and a song that was listed has one, or its file was touched, or the
\* thread has still to come to it.
Linkless == \A n \in Paths : Real[n] = n
RowsInv == OneRowPerPath /\ \A i \in DOMAIN table :
    table[i].path # None => table[i].lrc \in {None, LyricOf[table[i].path]}
Waits(t) == \E i \in 1..Len(scan.collected) : scan.collected[i] = t
StoredInv == \A t \in allMusic :
    t.path \in touched \/ /\ t.path \in DOMAIN disk
                          /\ Waits(t) \/ SearchWithPath(table, t.path) # {}

---------------------------------------------------------------------------
(* The operators of the store. *)

\* INSERT: the new row has an id that no other has.
LEMMA NewIdFacts ==
  ASSUME NEW tab, Table(tab)
  PROVE  /\ NewId(tab) \in Nat \ {0} /\ NewId(tab) \notin DOMAIN tab
         /\ DOMAIN tab \cup {NewId(tab)} \subseteq 1..NewId(tab)
         /\ \A i \in DOMAIN tab : i \in Nat \ {0}
<1>1. PICK k \in Nat : DOMAIN tab \subseteq 1..k
  BY DEF Table
<1>2. CASE DOMAIN tab = {}
  <2>1. tab = << >>
    BY <1>2 DEF Table
  <2>2. NewId(tab) = 1
    BY <2>1 DEF NewId
  <2> QED BY <1>2, <2>2
<1>3. CASE DOMAIN tab # {}
  <2>1. tab # << >>
    BY <1>3
  <2> DEFINE m == Max(DOMAIN tab)
  <2>2. m \in DOMAIN tab /\ \A y \in DOMAIN tab : y <= m
    BY <1>1, <1>3, MaxNat
  <2>3. NewId(tab) = m + 1
    BY <2>1 DEF NewId
  <2> HIDE DEF m
  <2>4. m \in Nat
    BY <1>1, <2>2
  <2>5. m + 1 \notin DOMAIN tab
    BY <2>2, <2>4
  <2>6. DOMAIN tab \subseteq 1..(m+1)
    BY <1>1, <2>2, <2>4
  <2> QED BY <1>1, <2>3, <2>4, <2>5, <2>6
<1> QED BY <1>2, <1>3

\* The row that create makes of a track.
RowOf(id, t, files, lyricFiles) ==
    LET there == Exists(files, t.path)
    IN  [id |-> id, tags |-> Column[t.tags],
         path |-> IF there THEN Real[t.path] ELSE None,
         lrc |-> IF t.lrc \in lyricFiles THEN t.lrc ELSE None,
         checksum |-> IF there THEN Checksum(files, t.path) ELSE None]

LEMMA Numbered ==
  ASSUME NEW i, NEW id, NEW g, NEW p, NEW l, NEW c
  PROVE  [[id |-> i, tags |-> g, path |-> p, lrc |-> l, checksum |-> c] EXCEPT !.id = id]
           = [id |-> id, tags |-> g, path |-> p, lrc |-> l, checksum |-> c]
OBVIOUS

LEMMA InsertFacts ==
  ASSUME NEW tab, NEW t \in Tracks, NEW files, NEW lyricFiles
  PROVE  LET id == NewId(tab)
         IN  Create(tab, t, files, lyricFiles)
               = [i \in DOMAIN tab \cup {id} |->
                    IF i = id THEN RowOf(id, t, files, lyricFiles) ELSE tab[i]]
<1> DEFINE path == IF Exists(files, t.path) THEN Real[t.path] ELSE None
<1> DEFINE lrc == IF t.lrc \in lyricFiles THEN t.lrc ELSE None
<1> DEFINE sum == IF Exists(files, t.path) THEN Checksum(files, t.path) ELSE t.checksum
<1> DEFINE row == [id |-> t.id, tags |-> Column[t.tags], path |-> path, lrc |-> lrc, checksum |-> sum]
<1>1. Create(tab, t, files, lyricFiles) = Insert(tab, row)
  BY DEF Create
<1>2. t.checksum = None
  BY DEF Tracks
<1>3. ASSUME NEW id PROVE [row EXCEPT !.id = id] = RowOf(id, t, files, lyricFiles)
  <2>1. [row EXCEPT !.id = id]
          = [id |-> id, tags |-> Column[t.tags], path |-> path, lrc |-> lrc, checksum |-> sum]
    <3> HIDE DEF path, lrc, sum
    <3> QED BY Numbered
  <2>2. RowOf(id, t, files, lyricFiles)
          = [id |-> id, tags |-> Column[t.tags], path |-> path, lrc |-> lrc, checksum |-> sum]
    BY <1>2 DEF RowOf
  <2> QED BY <2>1, <2>2
<1> HIDE DEF row
<1> QED BY <1>1, <1>3 DEF Insert

\* upsert adds a row or leaves the table alone: update is given the id of the
\* track, which no row has.
LEMMA UpsertFacts ==
  ASSUME NEW tab, Table(tab), NEW t \in Tracks, NEW files, NEW lyricFiles,
         files \in [DOMAIN files -> Content]
  PROVE  LET id == NewId(tab)
             after == Upsert(tab, t, files, lyricFiles)
         IN  \/ SearchWithPath(tab, t.path) # {} /\ after = tab
             \/ /\ SearchWithPath(tab, t.path) = {}
                /\ DOMAIN after = DOMAIN tab \cup {id} /\ id \notin DOMAIN tab
                /\ \A i \in DOMAIN tab : after[i] = tab[i]
                /\ after[id] = RowOf(id, t, files, lyricFiles)
                /\ Table(after)
<1> DEFINE id == NewId(tab)
<1> DEFINE after == Upsert(tab, t, files, lyricFiles)
<1> DEFINE row == RowOf(id, t, files, lyricFiles)
<1>1. CASE SearchWithPath(tab, t.path) # {}
  <2>1. t.id \notin DOMAIN tab
    BY NewIdFacts DEF Tracks
  <2> QED BY <1>1, <2>1 DEF Upsert, Update
<1>2. CASE SearchWithPath(tab, t.path) = {}
  <2>1. after = [i \in DOMAIN tab \cup {id} |-> IF i = id THEN row ELSE tab[i]]
    BY <1>2, InsertFacts DEF Upsert
  <2>2. id \in Nat \ {0} /\ id \notin DOMAIN tab /\ DOMAIN tab \cup {id} \subseteq 1..id
    BY NewIdFacts
  <2> HIDE DEF id, after
  <2>3. row \in Rows
    <3> DEFINE there == Exists(files, t.path)
    <3>1. there => Checksum(files, t.path) \in Content
      BY DEF Exists, Checksum
    <3>2. Real[t.path] \in Paths
      BY LibraryAssumption DEF Tracks
    <3> HIDE DEF there
    <3> QED BY <2>2, <3>1, <3>2 DEF Rows, RowOf, Tracks, Lyrics, there
  <2> HIDE DEF row
  <2>4. /\ DOMAIN after = DOMAIN tab \cup {id} /\ after[id] = row
        /\ \A i \in DOMAIN tab : after[i] = tab[i]
    BY <2>1, <2>2
  <2>5. after \in [DOMAIN after -> Rows]
    <3>1. \A i \in DOMAIN tab : tab[i] \in Rows
      BY DEF Table
    <3> QED BY <2>1, <2>3, <3>1
  <2>6. Table(after)
    BY <2>2, <2>4, <2>5 DEF Table
  <2>7. /\ SearchWithPath(tab, t.path) = {}
        /\ DOMAIN after = DOMAIN tab \cup {id} /\ id \notin DOMAIN tab
        /\ \A i \in DOMAIN tab : after[i] = tab[i]
        /\ after[id] = row
        /\ Table(after)
    BY <1>2, <2>2, <2>4, <2>6
  <2> QED BY <2>7 DEF id, after, row
<1> QED BY <1>1, <1>2

---------------------------------------------------------------------------
(* The invariant. *)

\* What was ever at a path is remembered.
Remembered == \A n \in Paths : versions[n] \subseteq versions'[n]

LEMMA Started == Init => LibraryInv
<1> SUFFICES ASSUME Init PROVE LibraryInv
  OBVIOUS
<1> USE DEF Init
<1>1. FilesInv
  <2>1. disk = Disk0 /\ Disk0 \in [DOMAIN Disk0 -> Content]
    BY LibraryAssumption
  <2>2. versions \in [Paths -> SUBSET Content]
    BY <2>1
  <2>3. \A n \in DOMAIN disk : n \in Paths /\ Real[n] = n /\ disk[n] \in versions[n]
    BY <2>1, LibraryAssumption
  <2> QED BY <2>1, <2>2, <2>3 DEF FilesInv
<1>2. ListInv
  BY DEF ListInv, AtRest
<1>3. TableInv
  <2>1. DOMAIN table = {}
    OBVIOUS
  <2>2. table \in [DOMAIN table -> Rows]
    BY <2>1
  <2> QED BY <2>1, <2>2 DEF TableInv, Table
<1>4. ToldInv
  BY DEF ToldInv
<1> QED BY <1>1, <1>2, <1>3, <1>4 DEF LibraryInv

LEMMA FilesChange ==
  ASSUME FilesInv, disk' \in [DOMAIN disk' -> Content],
         \A n \in DOMAIN disk' : n \in Paths /\ Real[n] = n,
         NEW names, Changed(names)
  PROVE  FilesInv' /\ Remembered
<1>1. versions' = [n \in Paths |-> IF n \in DOMAIN disk'
                                   THEN versions[n] \cup {disk'[n]} ELSE versions[n]]
  BY DEF Changed
<1>2. \A n \in DOMAIN disk' : disk'[n] \in Content
  OBVIOUS
<1>3. \A n \in Paths : versions[n] \subseteq Content
  BY DEF FilesInv
<1>4. versions' \in [Paths -> SUBSET Content]
  BY <1>1, <1>2, <1>3
<1>5. \A n \in DOMAIN disk' : disk'[n] \in versions'[n]
  BY <1>1
<1> QED BY <1>1, <1>4, <1>5 DEF FilesInv, Remembered

LEMMA ListKept ==
  ASSUME FilesInv, ListInv, Remembered, UNCHANGED << allMusic, scan >>
  PROVE  ListInv'
<1>1. \A t \in allMusic : \E v \in versions'[Real[t.path]] : t.tags = v.tags
  <2>1. \A t \in allMusic : Real[t.path] \in Paths
    BY LibraryAssumption DEF ListInv, Tracks
  <2> QED BY <2>1 DEF ListInv, Remembered
<1> QED BY <1>1 DEF ListInv

LEMMA TableKept ==
  ASSUME TableInv, Remembered, UNCHANGED table
  PROVE  TableInv'
<1>1. \A i \in DOMAIN table : table[i].path # None => table[i].path \in Paths
  BY DEF TableInv, Table, Rows
<1>2. \A i \in DOMAIN table : table[i].path # None =>
         /\ table[i].checksum \in versions'[table[i].path]
         /\ \E v \in versions'[table[i].path] : table[i].tags = Column[v.tags]
  BY <1>1 DEF TableInv, Remembered
<1> QED BY <1>2 DEF TableInv, Table

LEMMA Relisted == ASSUME NEW d, NEW files, BeginScan(d, files) PROVE ListInv'
BY DEF BeginScan, Listing, ListInv

LEMMA ToldKept == ToldInv /\ UNCHANGED << told, table >> => ToldInv'
BY DEF ToldInv, SearchWithChecksum

\* taglib_get_data: the track that is collected tells of the file that is read.
LEMMA ReadTagsList ==
  ASSUME FilesInv, ListInv, NEW n \in Paths, ReadTags(n)
  PROVE  ListInv'
<1>1. CASE Exists(disk, n)
  <2> DEFINE lrc == IF LyricOf[n] \in lrcs THEN LyricOf[n] ELSE None
  <2> DEFINE v == disk[Real[n]]
  <2> DEFINE t == Track(v.tags, n, lrc)
  <2>1. /\ scan' = [scan EXCEPT !.todo = @ \ {n}, !.collected = Append(@, t)]
        /\ allMusic' = allMusic \cup {t} /\ versions' = versions
        /\ scan.pc = "tags"
    BY <1>1 DEF ReadTags, Checksum
  <2>2. Real[n] \in DOMAIN disk /\ v \in Content /\ v \in versions[Real[n]]
    BY <1>1 DEF Exists, FilesInv
  <2>3. v.tags \in Tags
    BY <2>2 DEF Content
  <2>4. lrc \in Lyrics /\ lrc \in {None, LyricOf[n]}
    BY DEF Lyrics
  <2>5. t \in Tracks /\ t.tags = v.tags /\ t.path = n /\ t.lrc = lrc
    <3> HIDE DEF v, lrc
    <3> QED BY <2>3, <2>4 DEF Track, Tracks
  <2> HIDE DEF t, v, lrc
  <2>6. \E p \in versions[Real[t.path]] : t.tags = p.tags
    BY <2>2, <2>5
  <2>7. allMusic' \subseteq Tracks
    BY <2>1, <2>5 DEF ListInv
  <2>8. \A u \in allMusic' : /\ \E p \in versions'[Real[u.path]] : u.tags = p.tags
                             /\ u.lrc \in {None, LyricOf[u.path]}
    BY <2>1, <2>4, <2>5, <2>6 DEF ListInv
  <2>9. /\ scan' = [pc |-> scan'.pc, todo |-> scan'.todo, collected |-> scan'.collected]
        /\ scan'.pc = "tags" /\ scan'.todo = scan.todo \ {n}
        /\ scan'.collected = Append(scan.collected, t)
    BY <2>1 DEF ListInv
  <2>10. scan.collected \in Seq(Tracks) /\ \A i \in 1..Len(scan.collected) : scan.collected[i] \in allMusic
    BY DEF ListInv
  <2>11. /\ scan'.collected \in Seq(Tracks)
         /\ \A i \in 1..Len(scan'.collected) : scan'.collected[i] \in allMusic'
    BY <2>1, <2>5, <2>9, <2>10
  <2>12. scan'.todo \subseteq Paths
    BY <2>9 DEF ListInv
  <2> QED BY <2>7, <2>8, <2>9, <2>11, <2>12 DEF ListInv
<1>2. CASE ~Exists(disk, n)
  <2>1. UNCHANGED << allMusic, scan, versions >>
    BY <1>2 DEF ReadTags
  <2> QED BY <2>1, ListKept DEF Remembered
<1> QED BY <1>1, <1>2

LEMMA StartThreadList == ListInv /\ StartThread => ListInv'
<1> SUFFICES ASSUME ListInv, StartThread PROVE ListInv'
  OBVIOUS
<1>1. scan = [pc |-> scan.pc, todo |-> scan.todo, collected |-> scan.collected]
  BY DEF ListInv
<1>2. /\ scan' = [scan EXCEPT !.pc = "store"] /\ scan.todo = {}
      /\ UNCHANGED << allMusic, versions >>
  BY DEF StartThread
<1>3. /\ scan'.pc = "store" /\ scan'.todo = {} /\ scan'.collected = scan.collected
      /\ scan' = [pc |-> scan'.pc, todo |-> scan'.todo, collected |-> scan'.collected]
  BY <1>1, <1>2
<1> QED BY <1>2, <1>3 DEF ListInv

LEMMA UpsertNextList == ListInv /\ UpsertNext => ListInv'
<1> SUFFICES ASSUME ListInv, UpsertNext PROVE ListInv'
  OBVIOUS
<1>1. scan = [pc |-> scan.pc, todo |-> scan.todo, collected |-> scan.collected]
  BY DEF ListInv
<1>2. /\ scan' = [scan EXCEPT !.collected = Tail(@)] /\ scan.pc = "store"
      /\ scan.collected # << >> /\ UNCHANGED << allMusic, versions >>
  BY DEF UpsertNext
<1>3. /\ scan'.pc = "store" /\ scan'.todo = scan.todo /\ scan'.collected = Tail(scan.collected)
      /\ scan' = [pc |-> scan'.pc, todo |-> scan'.todo, collected |-> scan'.collected]
  BY <1>1, <1>2
<1>4. scan.collected \in Seq(Tracks) /\ \A i \in 1..Len(scan.collected) : scan.collected[i] \in allMusic
  BY DEF ListInv
<1>5. /\ scan'.collected \in Seq(Tracks)
      /\ \A i \in 1..Len(scan'.collected) : scan'.collected[i] \in allMusic
  BY <1>2, <1>3, <1>4
<1> QED BY <1>2, <1>3, <1>5 DEF ListInv

\* The next track, and the table the thread leaves.
LEMMA NextTrack ==
  ASSUME FilesInv, ListInv, UpsertNext
  PROVE  /\ Head(scan.collected) \in Tracks /\ Head(scan.collected) \in allMusic
         /\ table' = Upsert(table, Head(scan.collected), disk, lrcs)
<1>1. scan.collected # << >> /\ table' = Upsert(table, Head(scan.collected), disk, lrcs)
  BY DEF UpsertNext
<1>2. scan.collected \in Seq(Tracks) /\ \A i \in 1..Len(scan.collected) : scan.collected[i] \in allMusic
  BY DEF ListInv
<1>3. Head(scan.collected) \in allMusic
  BY <1>1, <1>2
<1> QED BY <1>1, <1>3 DEF ListInv

LEMMA UpsertNextTable ==
  ASSUME LibraryInv, UpsertNext
  PROVE  TableInv' /\ ToldInv'
<1> DEFINE t == Head(scan.collected)
<1> DEFINE id == NewId(table)
<1>1. t \in Tracks /\ t \in allMusic /\ table' = Upsert(table, t, disk, lrcs)
  BY NextTrack DEF LibraryInv
<1>2. Table(table) /\ TableInv /\ FilesInv /\ ListInv /\ ToldInv
  BY DEF LibraryInv, TableInv
<1>3. disk \in [DOMAIN disk -> Content] /\ UNCHANGED << versions, told >>
  BY <1>2 DEF FilesInv, UpsertNext
<1> HIDE DEF t
<1>4. CASE table' = table
  <2>1. TableInv'
    BY <1>2, <1>3, <1>4, TableKept DEF Remembered
  <2>2. ToldInv'
    BY <1>2, <1>3, <1>4, ToldKept
  <2> QED BY <2>1, <2>2
<1>5. CASE /\ DOMAIN table' = DOMAIN table \cup {id} /\ id \notin DOMAIN table
           /\ \A i \in DOMAIN table : table'[i] = table[i]
           /\ table'[id] = RowOf(id, t, disk, lrcs)
           /\ Table(table')
  <2>1. table'[id].id = id
    BY <1>5 DEF RowOf
  <2>2. table'[id].path # None =>
         /\ table'[id].checksum \in versions[table'[id].path]
         /\ \E v \in versions[table'[id].path] : table'[id].tags = Column[v.tags]
    <3> SUFFICES ASSUME table'[id].path # None
                 PROVE  /\ table'[id].checksum \in versions[table'[id].path]
                        /\ \E v \in versions[table'[id].path] : table'[id].tags = Column[v.tags]
      OBVIOUS
    <3>1. Exists(disk, t.path) /\ table'[id].path = Real[t.path]
      BY <1>5 DEF RowOf
    <3>2. table'[id].checksum = disk[Real[t.path]] /\ table'[id].tags = Column[t.tags]
      BY <1>5, <3>1 DEF RowOf, Checksum
    <3>3. Real[t.path] \in DOMAIN disk
      BY <3>1 DEF Exists
    <3>4. disk[Real[t.path]] \in versions[Real[t.path]]
      BY <1>2, <3>3 DEF FilesInv
    <3>5. \E v \in versions[Real[t.path]] : t.tags = v.tags
      BY <1>1, <1>2 DEF ListInv
    <3> QED BY <3>1, <3>2, <3>4, <3>5
  <2>3. TableInv'
    <3>1. \A i \in DOMAIN table' : i = id \/ (i \in DOMAIN table /\ table'[i] = table[i])
      BY <1>5
    <3>2. \A i \in DOMAIN table' : table'[i].id = i
      BY <1>2, <2>1, <3>1 DEF TableInv
    <3>3. \A i \in DOMAIN table' : table'[i].path # None =>
         /\ table'[i].checksum \in versions'[table'[i].path]
         /\ \E v \in versions'[table'[i].path] : table'[i].tags = Column[v.tags]
      BY <1>2, <1>3, <2>2, <3>1 DEF TableInv
    <3>4. Table(table)'
      BY <1>5 DEF Table
    <3> QED BY <3>2, <3>3, <3>4 DEF TableInv
  <2>4. ToldInv'
    BY <1>2, <1>3, <1>5 DEF ToldInv, SearchWithChecksum
  <2> QED BY <2>3, <2>4
<1>6. LET after == Upsert(table, t, disk, lrcs)
      IN  \/ after = table
          \/ /\ DOMAIN after = DOMAIN table \cup {id} /\ id \notin DOMAIN table
             /\ \A i \in DOMAIN table : after[i] = table[i]
             /\ after[id] = RowOf(id, t, disk, lrcs)
             /\ Table(after)
  BY <1>1, <1>2, <1>3, UpsertFacts
<1> HIDE DEF id
<1> QED BY <1>1, <1>4, <1>5, <1>6

LEMMA EditFiles ==
  ASSUME FilesInv, ListInv, Edit
  PROVE  FilesInv' /\ Remembered /\ ListInv'
<1>1. PICK t \in allMusic, m \in Paths, tags \in Tags :
         LET n == t.path IN
         /\ Real[n] = n /\ Real[m] = m
         /\ IF n \notin DOMAIN disk \/ (t.lrc # None /\ t.lrc \notin lrcs)
            THEN UNCHANGED << disk, allMusic, scan, versions >>
            ELSE /\ disk' = [x \in (DOMAIN disk \ {n}) \cup {m} |->
                               IF x = m THEN [disk[n] EXCEPT !.tags = tags] ELSE disk[x]]
                 /\ Changed({n, m})
                 /\ BeginScan(dirs, disk')
  BY DEF Edit
<1> DEFINE n == t.path
<1>2. CASE n \notin DOMAIN disk \/ (t.lrc # None /\ t.lrc \notin lrcs)
  <2>1. UNCHANGED << disk, allMusic, scan, versions >>
    BY <1>1, <1>2
  <2> QED BY <2>1, ListKept DEF FilesInv, Remembered
<1>3. CASE ~(n \notin DOMAIN disk \/ (t.lrc # None /\ t.lrc \notin lrcs))
  <2>1. /\ disk' = [x \in (DOMAIN disk \ {n}) \cup {m} |->
                       IF x = m THEN [disk[n] EXCEPT !.tags = tags] ELSE disk[x]]
        /\ Changed({n, m})
        /\ BeginScan(dirs, disk')
    BY <1>1, <1>3
  <2>2. disk[n] \in Content /\ [disk[n] EXCEPT !.tags = tags] \in Content
    BY <1>3 DEF FilesInv, Content
  <2>3. disk' \in [DOMAIN disk' -> Content]
    BY <2>1, <2>2 DEF FilesInv
  <2>4. \A x \in DOMAIN disk' : x \in Paths /\ Real[x] = x
    BY <1>1, <2>1 DEF FilesInv
  <2>5. FilesInv' /\ Remembered
    BY <2>1, <2>3, <2>4, FilesChange
  <2> QED BY <2>1, <2>5, Relisted
<1> QED BY <1>2, <1>3

LEMMA OtherProgramFiles ==
  ASSUME FilesInv, OtherProgram
  PROVE  FilesInv' /\ Remembered
<1>1. Changed(touched')
  BY DEF OtherProgram
<1>2. CASE \E n \in Paths, c \in Content :
            /\ Real[n] = n
            /\ disk' = [x \in DOMAIN disk \cup {n} |-> IF x = n THEN c ELSE disk[x]]
  <2>1. /\ disk' \in [DOMAIN disk' -> Content]
        /\ \A n \in DOMAIN disk' : n \in Paths /\ Real[n] = n
    BY <1>2 DEF FilesInv
  <2> QED BY <1>1, <2>1, FilesChange
<1>3. CASE \E n \in DOMAIN disk : disk' = [x \in DOMAIN disk \ {n} |-> disk[x]]
  <2>1. /\ disk' \in [DOMAIN disk' -> Content]
        /\ \A n \in DOMAIN disk' : n \in Paths /\ Real[n] = n
    BY <1>3 DEF FilesInv
  <2> QED BY <1>1, <2>1, FilesChange
<1>4. CASE UNCHANGED disk
  <2>1. /\ disk' \in [DOMAIN disk' -> Content]
        /\ \A n \in DOMAIN disk' : n \in Paths /\ Real[n] = n
    BY <1>4 DEF FilesInv
  <2> QED BY <1>1, <2>1, FilesChange
<1> QED BY <1>2, <1>3, <1>4 DEF OtherProgram

LEMMA LibraryStep == LibraryInv /\ [Next]_vars => LibraryInv'
<1> SUFFICES ASSUME LibraryInv, [Next]_vars PROVE LibraryInv'
  OBVIOUS
<1> USE DEF LibraryInv
<1>1. ASSUME UNCHANGED << disk, versions >> PROVE FilesInv' /\ Remembered
  BY <1>1 DEF FilesInv, Remembered
<1>2. CASE Reload
  <2>1. UNCHANGED << disk, versions, table, told >>
    BY <1>2 DEF Reload
  <2>2. ListInv'
    BY <1>2, Relisted DEF Reload
  <2> QED BY <1>1, <2>1, <2>2, TableKept, ToldKept
<1>3. ASSUME NEW n \in Paths, ReadTags(n) PROVE LibraryInv'
  <2>1. UNCHANGED << disk, versions, table, told >>
    BY <1>3 DEF ReadTags
  <2> QED BY <1>1, <1>3, <2>1, ReadTagsList, TableKept, ToldKept
<1>4. CASE StartThread
  <2>1. UNCHANGED << disk, versions, table, told >>
    BY <1>4 DEF StartThread
  <2> QED BY <1>1, <1>4, <2>1, StartThreadList, TableKept, ToldKept
<1>5. CASE UpsertNext
  <2>1. UNCHANGED << disk, versions >>
    BY <1>5 DEF UpsertNext
  <2> QED BY <1>1, <1>5, <2>1, UpsertNextList, UpsertNextTable
<1>6. CASE Join
  <2>1. UNCHANGED << disk, versions, table, told, allMusic >> /\ scan' = AtRest
    BY <1>6 DEF Join
  <2>2. ListInv'
    BY <2>1 DEF ListInv, AtRest
  <2> QED BY <1>1, <2>1, <2>2, TableKept, ToldKept
<1>7. CASE Edit
  <2>1. UNCHANGED << table, told >>
    BY <1>7 DEF Edit
  <2> QED BY <1>7, <2>1, EditFiles, TableKept, ToldKept
<1>8. CASE OtherProgram
  <2>1. UNCHANGED << table, told, allMusic, scan >>
    BY <1>8 DEF OtherProgram
  <2> QED BY <1>8, <2>1, OtherProgramFiles, ListKept, TableKept, ToldKept
<1>9. CASE GetDatabase
  <2>1. UNCHANGED << disk, versions, table, allMusic, scan >>
        /\ told' = told \cup Checksums(table)
    BY <1>9 DEF GetDatabase
  <2>2. ToldInv'
    BY <2>1 DEF ToldInv, SearchWithChecksum, Checksums
  <2> QED BY <1>1, <2>1, <2>2, ListKept, TableKept
<1>10. CASE UNCHANGED vars
  <2>1. UNCHANGED << disk, versions, table, told, allMusic, scan >>
    BY <1>10 DEF vars
  <2> QED BY <1>1, <2>1, ListKept, TableKept, ToldKept
<1> QED BY <1>2, <1>3, <1>4, <1>5, <1>6, <1>7, <1>8, <1>9, <1>10 DEF Next, ScanStep

---------------------------------------------------------------------------
(* Theorems. *)

LEMMA LibraryHolds == Spec => []LibraryInv
BY Started, LibraryStep, PTL DEF Spec

\* The table holds tracks under their own ids, what is on the disk is
\* remembered, and a list that is being stored is one that was read.
THEOREM TypeCorrect == Spec => []TypeOK
<1>1. LibraryInv => TypeOK
  BY DEF LibraryInv, FilesInv, ListInv, TableInv, Table, Rows, TypeOK
<1> QED BY <1>1, LibraryHolds, PTL

\* No reload, edit or other program takes back what a peer was told: the rows
\* that make up an answer to GET_DATABASE stay, with the digests they had, so
\* that PREPARE_FILE_SHARING finds them.
THEOREM ToldStaysTrue == Spec => []ToldIsFound
<1>1. LibraryInv => ToldIsFound
  BY DEF LibraryInv, ToldInv, ToldIsFound
<1> QED BY <1>1, LibraryHolds, PTL

---------------------------------------------------------------------------
(* Without links. *)

LEMMA RowsStep ==
  ASSUME Linkless, LibraryInv, RowsInv, [Next]_vars
  PROVE  RowsInv'
<1>1. CASE UNCHANGED table
  BY <1>1 DEF RowsInv, OneRowPerPath
<1>2. CASE UpsertNext
  <2> DEFINE t == Head(scan.collected)
  <2> DEFINE id == NewId(table)
  <2>1. t \in Tracks /\ t \in allMusic /\ table' = Upsert(table, t, disk, lrcs)
    BY <1>2, NextTrack DEF LibraryInv
  <2>2. Table(table) /\ FilesInv /\ ListInv
    BY DEF LibraryInv, TableInv
  <2>3. disk \in [DOMAIN disk -> Content]
    BY <2>2 DEF FilesInv
  <2>4. t.lrc \in {None, LyricOf[t.path]} /\ t.path \in Paths
    BY <2>1, <2>2 DEF ListInv, Tracks
  <2> HIDE DEF t
  <2>5. LET after == Upsert(table, t, disk, lrcs)
        IN  \/ SearchWithPath(table, t.path) # {} /\ after = table
            \/ /\ SearchWithPath(table, t.path) = {}
               /\ DOMAIN after = DOMAIN table \cup {id} /\ id \notin DOMAIN table
               /\ \A i \in DOMAIN table : after[i] = table[i]
               /\ after[id] = RowOf(id, t, disk, lrcs)
               /\ Table(after)
    BY <2>1, <2>2, <2>3, UpsertFacts
  <2> HIDE DEF id
  <2>6. CASE /\ SearchWithPath(table, t.path) = {}
             /\ DOMAIN table' = DOMAIN table \cup {id} /\ id \notin DOMAIN table
             /\ \A i \in DOMAIN table : table'[i] = table[i]
             /\ table'[id] = RowOf(id, t, disk, lrcs)
    <3>1. /\ table'[id].path \in {None, t.path}
          /\ table'[id].lrc \in {None, t.lrc}
      BY <2>4, <2>6 DEF RowOf, Linkless
    <3>2. \A i \in DOMAIN table : table[i].path # t.path
      BY <2>6 DEF SearchWithPath
    <3>3. \A i \in DOMAIN table' : i = id \/ (i \in DOMAIN table /\ table'[i] = table[i])
      BY <2>6
    <3>4. OneRowPerPath'
      BY <2>6, <3>1, <3>2, <3>3 DEF RowsInv, OneRowPerPath
    <3>5. \A i \in DOMAIN table' :
            table'[i].path # None => table'[i].lrc \in {None, LyricOf[table'[i].path]}
      BY <2>4, <3>1, <3>3 DEF RowsInv
    <3> QED BY <3>4, <3>5 DEF RowsInv
  <2> QED BY <1>1, <2>1, <2>5, <2>6
<1>3. UpsertNext \/ UNCHANGED table
  BY DEF Next, ScanStep, Reload, ReadTags, StartThread, Join, Edit, OtherProgram, GetDatabase, vars
<1> QED BY <1>1, <1>2, <1>3

LEMMA RowsHold == ASSUME Linkless PROVE Spec => []RowsInv
<1>1. Init => RowsInv
  BY DEF Init, RowsInv, OneRowPerPath
<1>2. LibraryInv /\ RowsInv /\ [Next]_vars => RowsInv'
  BY RowsStep
<1> QED BY <1>1, <1>2, LibraryHolds, PTL DEF Spec

\* What the invariant says of a listed song, while the thread runs and after.
LEMMA StoredStep ==
  ASSUME Linkless, LibraryInv, StoredInv, [Next]_vars
  PROVE  StoredInv'
<1>1. FilesInv /\ ListInv
  BY DEF LibraryInv
<1>2. scan.collected \in Seq(Tracks)
  BY <1>1 DEF ListInv
<1>3. CASE \E d, files : BeginScan(d, files)
  BY <1>3 DEF StoredInv, BeginScan
<1>4. ASSUME UNCHANGED << disk, table, allMusic, touched, scan.collected >> PROVE StoredInv'
  BY <1>4 DEF StoredInv, Waits, SearchWithPath
<1>5. ASSUME NEW n \in Paths, ReadTags(n) PROVE StoredInv'
  <2>1. CASE Exists(disk, n)
    <3> PICK t : t = Track(Checksum(disk, n).tags, n, IF LyricOf[n] \in lrcs THEN LyricOf[n] ELSE None)
      OBVIOUS
    <3>1. /\ UNCHANGED << disk, table, touched >> /\ allMusic' = allMusic \cup {t}
          /\ scan' = [scan EXCEPT !.todo = @ \ {n}, !.collected = Append(@, t)]
      BY <1>5, <2>1 DEF ReadTags
    <3>2. t.path = n /\ n \in DOMAIN disk
      BY <2>1 DEF Track, Exists, Linkless
    <3>3. scan'.collected = Append(scan.collected, t)
      BY <1>1, <3>1 DEF ListInv
    <3>4. Waits(t)'
      <4>1. Len(scan.collected) + 1 \in 1..Len(scan'.collected)
            /\ scan'.collected[Len(scan.collected) + 1] = t
        BY <1>2, <3>3
      <4> QED BY <4>1 DEF Waits
    <3>5. \A u : Waits(u) => Waits(u)'
      BY <1>2, <3>3 DEF Waits
    <3>6. \A u : SearchWithPath(table, u.path)' = SearchWithPath(table, u.path)
      BY <3>1 DEF SearchWithPath
    <3>7. t.path \in touched' \/ /\ t.path \in DOMAIN disk'
                                 /\ Waits(t)' \/ SearchWithPath(table', t.path) # {}
      BY <3>1, <3>2, <3>4
    <3>8. \A u \in allMusic : u.path \in touched' \/
             /\ u.path \in DOMAIN disk'
             /\ Waits(u)' \/ SearchWithPath(table', u.path) # {}
      BY <3>1, <3>5 DEF StoredInv
    <3> QED BY <3>1, <3>7, <3>8 DEF StoredInv
  <2>2. CASE ~Exists(disk, n)
    BY <1>4, <1>5, <2>2 DEF ReadTags
  <2> QED BY <2>1, <2>2
<1>6. CASE StartThread
  <2>1. UNCHANGED << disk, table, allMusic, touched >> /\ scan' = [scan EXCEPT !.pc = "store"]
    BY <1>6 DEF StartThread
  <2>2. scan'.collected = scan.collected
    BY <1>1, <2>1 DEF ListInv
  <2> QED BY <1>4, <2>1, <2>2
<1>7. CASE UpsertNext
  <2> DEFINE t == Head(scan.collected)
  <2> DEFINE id == NewId(table)
  <2>1. t \in Tracks /\ t \in allMusic /\ table' = Upsert(table, t, disk, lrcs)
    BY <1>1, <1>7, NextTrack
  <2>2. /\ scan' = [scan EXCEPT !.collected = Tail(@)] /\ scan.collected # << >>
        /\ UNCHANGED << disk, allMusic, touched >>
    BY <1>7 DEF UpsertNext
  <2>3. scan'.collected = Tail(scan.collected)
    BY <1>1, <2>2 DEF ListInv
  <2>4. ASSUME NEW u, Waits(u), u # t PROVE Waits(u)'
    <3>1. PICK i \in 1..Len(scan.collected) : scan.collected[i] = u
      BY <2>4 DEF Waits
    <3>2. i # 1
      BY <1>2, <2>2, <2>4, <3>1
    <3>3. i - 1 \in 1..Len(scan'.collected) /\ scan'.collected[i - 1] = u
      BY <1>2, <2>2, <2>3, <3>1, <3>2
    <3> QED BY <3>3 DEF Waits
  <2>5. Table(table) /\ disk \in [DOMAIN disk -> Content] /\ t.path \in Paths
    BY <1>1, <2>1 DEF LibraryInv, TableInv, FilesInv, Tracks
  <2> HIDE DEF t
  <2>6. LET after == Upsert(table, t, disk, lrcs)
        IN  \/ SearchWithPath(table, t.path) # {} /\ after = table
            \/ /\ SearchWithPath(table, t.path) = {}
               /\ DOMAIN after = DOMAIN table \cup {id} /\ id \notin DOMAIN table
               /\ \A i \in DOMAIN table : after[i] = table[i]
               /\ after[id] = RowOf(id, t, disk, lrcs)
               /\ Table(after)
    BY <2>1, <2>5, UpsertFacts
  <2> HIDE DEF id
  <2>7. \A p : SearchWithPath(table, p) # {} => SearchWithPath(table', p) # {}
    BY <2>1, <2>6 DEF SearchWithPath
  <2>8. t.path \in DOMAIN disk => SearchWithPath(table', t.path) # {}
    <3>1. CASE SearchWithPath(table, t.path) # {}
      BY <2>7, <3>1
    <3>2. CASE SearchWithPath(table, t.path) = {}
      <4>1. id \in DOMAIN table' /\ table'[id] = RowOf(id, t, disk, lrcs)
        BY <2>1, <2>6, <3>2
      <4>2. t.path \in DOMAIN disk => RowOf(id, t, disk, lrcs).path = t.path
        BY <2>5, LibraryAssumption DEF RowOf, Exists, Linkless
      <4> QED BY <4>1, <4>2 DEF SearchWithPath
    <3> QED BY <3>1, <3>2
  <2>9. ASSUME NEW u \in allMusic
        PROVE  u.path \in touched \/ /\ u.path \in DOMAIN disk
                                     /\ Waits(u)' \/ SearchWithPath(table', u.path) # {}
    <3>1. CASE u = t
      BY <2>8, <3>1 DEF StoredInv
    <3>2. CASE u # t
      BY <2>4, <2>7, <3>2 DEF StoredInv
    <3> QED BY <3>1, <3>2
  <2> QED BY <2>2, <2>9 DEF StoredInv
<1>8. CASE Join
  <2>1. UNCHANGED << disk, table, allMusic, touched >> /\ scan.collected = << >> /\ scan'.collected = << >>
    BY <1>8 DEF Join, AtRest
  <2> QED BY <1>4, <2>1
<1>9. CASE Edit
  <2>1. (\E d, files : BeginScan(d, files)) \/ UNCHANGED << disk, table, allMusic, touched, scan >>
    BY <1>9 DEF Edit
  <2> QED BY <1>3, <1>4, <2>1
<1>10. CASE OtherProgram
  <2>1. UNCHANGED << table, allMusic, scan >>
    BY <1>10 DEF OtherProgram
  <2>2. touched \subseteq touched'
    BY <1>10 DEF OtherProgram
  <2>3. \A p \in DOMAIN disk : p \in DOMAIN disk' \/ p \in touched'
    BY <1>10 DEF OtherProgram
  <2>4. \A u : Waits(u)' = Waits(u)
    BY <2>1 DEF Waits
  <2> QED BY <2>1, <2>2, <2>3, <2>4 DEF StoredInv
<1>11. CASE GetDatabase
  BY <1>4, <1>11 DEF GetDatabase
<1>12. CASE Reload
  BY <1>3, <1>12 DEF Reload
<1>13. CASE UNCHANGED vars
  BY <1>4, <1>13 DEF vars
<1> QED BY <1>5, <1>6, <1>7, <1>8, <1>9, <1>10, <1>11, <1>12, <1>13 DEF Next, ScanStep

LEMMA StoredHolds == ASSUME Linkless PROVE Spec => []StoredInv
<1>1. Init => StoredInv
  BY DEF Init, StoredInv
<1>2. LibraryInv /\ StoredInv /\ [Next]_vars => StoredInv'
  BY StoredStep
<1> QED BY <1>1, <1>2, LibraryHolds, PTL DEF Spec

\* However often the directory is read, and whatever other programs do to it,
\* a song that is no link has one row: create gives the row the path that
\* search_with_path is asked for the next time.
THEOREM OneRowEach == ASSUME Linkless PROVE Spec => []OneRowPerPath
<1>1. RowsInv => OneRowPerPath
  BY DEF RowsInv
<1> QED BY <1>1, RowsHold, PTL

\* A row has the digest and the tags of something that was at its path, and
\* no other song's lyric file.
THEOREM RowsAreTheirFiles == ASSUME Linkless PROVE Spec => []RowsTellOfTheirFile
<1>1. LibraryInv /\ RowsInv => RowsTellOfTheirFile
  BY DEF LibraryInv, TableInv, RowsInv, RowsTellOfTheirFile
<1> QED BY <1>1, LibraryHolds, RowsHold, PTL

\* When set_music_list returns, upsert_many has come to every song it listed:
\* each has a row, or another program touched its file during the reading.
THEOREM ListedAreStored == ASSUME Linkless PROVE Spec => []ListedHaveRows
<1>1. LibraryInv /\ StoredInv => ListedHaveRows
  <2> SUFFICES ASSUME LibraryInv, StoredInv, scan.pc = "rest", NEW t \in allMusic
               PROVE  Real[t.path] \in touched \/ SearchWithPath(table, Real[t.path]) # {}
    BY DEF ListedHaveRows
  <2>1. scan.collected = << >>
    BY DEF LibraryInv, ListInv
  <2>2. ~Waits(t)
    BY <2>1 DEF Waits
  <2>3. Real[t.path] = t.path
    BY DEF LibraryInv, ListInv, Tracks, Linkless
  <2> QED BY <2>2, <2>3 DEF StoredInv
<1> QED BY <1>1, LibraryHolds, StoredHolds, PTL
=============================================================================
