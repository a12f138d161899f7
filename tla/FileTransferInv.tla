--------------------------- MODULE FileTransferInv ---------------------------
(***************************************************************************)
(* The inductive invariants behind the theorems on FileTransfer: the order *)
(* of what is under way to the owners of one song and back, the refinement *)
(* of StreamDelivery when all of them can read it and serve nobody else,   *)
(* and, when besides there is one owner that stays, that nothing is lost.  *)
(***************************************************************************)
EXTENDS FileTransfer

\* One song ...
OneSession == MaxSessions <= 1

\* ... and every peer can open its copy of it ...
OneGoodTransfer ==
    /\ OneSession
    /\ MaxOthers = 0
    /\ \A p \in Peers : Holds[p] = Files
    /\ Missing = {} /\ Unreadable = {}

\* ... and one peer owns it.
SingleOwner == \A f \in Files : Len(Owners[f]) <= 1

\* Before LoadMusic nothing has happened outside of the GTK thread, unless a
\* peer serves other nodes.
Unstarted ==
    /\ gtk.file = NoFile =>
          /\ gtk.pc \in {"rest", "pausing", "loading"}
          /\ fs.queue = << >> /\ fs.cwi = 0 /\ fs.total = 0 /\ fs.csi = -1
          /\ inbox = << >>
          /\ \A p \in Peers : outbox[p] = << >> /\ req[p] = << >> /\ resp[p] = << >>
          /\ stream.file = NoFile
    /\ gtk.load # NoFile => gtk.file = NoFile /\ gtk.pc \in {"pausing", "loading"}
    /\ gtk.load # NoFile \/ gtk.file # NoFile => used.sessions = MaxSessions
    /\ gtk.pc = "adding" => stream.file = NoFile

Untouched ==
    /\ Unstarted
    /\ gtk.file = NoFile => \A p \in Peers : cf[p].file = NoFile

\* The number of segments of the song.
SongCount == IF gtk.file = NoFile THEN 0 ELSE SegmentCount(gtk.file)

\* The segments of the song, the messages about it that are on their way to
\* a sender and back, and a sender's file.  Nobody asks for a segment, or has
\* one, before the number of segments is known.
SongSegments == {seg \in Segment : /\ seg.file = gtk.file
                                   /\ seg.id < SongCount
                                   /\ fs.total = SongCount}
SenderMessages == {m \in Message : \/ m.type = "prepare" /\ m.file = gtk.file
                                   \/ m.type = "get" /\ fs.total = SongCount}
ReceiverMessages == {m \in Message : \/ m.type = "nofile"
                                     \/ m.type = "prepared" /\ m.total = SongCount /\ m.chunk = Chunk
                                     \/ m.type = "segment" /\ m.seg \in SongSegments}
SongFiles == {c \in ChunkState(Contents) :
                c.file # NoFile => /\ c.file = gtk.file /\ ~c.failed
                                   /\ c.total = SongCount}

OneSong ==
    /\ fs.total \in {0, SongCount}
    /\ fs.queue \in Seq(Seq(SongSegments))
    /\ outbox \in [Peers -> Seq(SenderMessages)]
    /\ req \in [Peers -> Seq(SenderMessages)]
    /\ resp \in [Peers -> Seq(ReceiverMessages)]
    /\ inbox \in Seq([from : Peers, msg : ReceiverMessages])
    /\ cf \in [Peers -> SongFiles]

\* A peer is not asked for a segment before it has opened the song: what
\* comes first on its way is PREPARE_FILE_SHARING.
NotPrepared(p) ==
    /\ resp[p] = << >>
    /\ \A k \in DOMAIN inbox : inbox[k].from # p
    /\ req[p] # << >> => Head(req[p]).type = "prepare"
    /\ req[p] = << >> /\ outbox[p] # << >> => Head(outbox[p]).type = "prepare"
    /\ req[p] = << >> /\ outbox[p] = << >> => \A i \in Slots(fs) : fs.peer[i] # p

PreparedFirst ==
    /\ \A p \in gone : req[p] = << >>
    /\ \A p \in Peers \ gone : cf[p].file = NoFile => NotPrepared(p)

\* The player has been given the first cwi segments of the song.
StreamIsPrefix ==
    /\ stream.file \in {NoFile, gtk.file}
    /\ stream.file = NoFile => fs.cwi = 0
    /\ stream.data = [k \in 1..fs.cwi |-> [id |-> k - 1, file |-> stream.file]]
    /\ fs.cwi <= fs.total
    /\ stream.eos = IF fs.total # 0 /\ fs.cwi = fs.total THEN 1 ELSE 0

\* All of it: whatever is queued or under way is of the song selected, no peer
\* is asked for segments before it has opened the song, and the player has
\* been given the first segments of it, in order.
StreamInv == TypeOK /\ Untouched /\ OneSong /\ PreparedFirst /\ StreamIsPrefix

---------------------------------------------------------------------------
(* What is under way. *)

\* A message is about a slot of the peer that it is sent to, or comes from.
SlotOf(m) == IF m.type = "segment" THEN m.seg.slot ELSE m.slot
MessagesOf(p) == {m \in Message : SlotOf(m) \in Slots(fs) /\ fs.peer[SlotOf(m)] = p}
MessagesRead  == {e \in [from : Peers, msg : Message] : e.msg \in MessagesOf(e.from)}

SlotsOfPeers ==
    /\ \A p \in Peers : /\ outbox[p] \in Seq(MessagesOf(p))
                        /\ req[p] \in Seq(MessagesOf(p))
                        /\ resp[p] \in Seq(MessagesOf(p))
    /\ inbox \in Seq(MessagesRead)

PipelineInv == TypeOK /\ Unstarted /\ SlotsOfPeers /\ PipelinesMerge

\* What is under way has not been written, and nobody is asked for a segment
\* before the number of segments is known.
NothingBehind ==
    /\ \A k \in UnderWay : fs.cwi <= k
    /\ fs.cwi <= fs.csi + 1
    /\ fs.total = 0 => fs.csi = -1

\* start_file_sharing adds one slot for each owner.
OneSlot == Len(fs.queue) + Len(gtk.todo) <= 1

\* The size of a chunk is known with the number of segments.
ChunkKnown == fs.chunk = IF fs.total = 0 THEN 0 ELSE Chunk

TransferInv == StreamInv /\ PipelineInv /\ NothingBehind
SingleOwnerInv == TransferInv /\ OneSlot /\ ChunkKnown /\ NothingThrownAway /\ QueueBytesExact
=============================================================================
