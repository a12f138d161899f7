-------------------------- MODULE FileTransfer_proofs --------------------------
(* What is proved of FileTransfer, for all values of its constants. *)
EXTENDS FileTransferInv, SequenceTheorems, TLAPS

---------------------------------------------------------------------------
(* The methods of the FileSharing object keep its type. *)

LEMMA ResetOK == SharingOK(ResetSharingFile)
BY DEF SharingOK, Aligned, SharingState, ResetSharingFile

LEMMA NewPeerOK ==
    ASSUME NEW s, SharingOK(s), NEW p \in Peers
    PROVE  SharingOK(NewPeer(s, p))
<1>1. /\ s \in SharingState
      /\ s.queue \in Seq(Seq(Segment)) /\ s.idle \in Seq(BOOLEAN) /\ s.peer \in Seq(Peers)
      /\ Len(s.peer) = Len(s.queue) /\ Len(s.idle) = Len(s.queue)
  BY DEF SharingOK, Aligned, SharingState
<1>2. << >> \in Seq(Segment)
  OBVIOUS
<1>3. /\ Append(s.queue, << >>) \in Seq(Seq(Segment))
      /\ Len(Append(s.queue, << >>)) = Len(s.queue) + 1
  BY <1>1, <1>2, AppendProperties
<1>4. /\ Append(s.idle, FALSE) \in Seq(BOOLEAN)
      /\ Len(Append(s.idle, FALSE)) = Len(s.idle) + 1
  BY <1>1, AppendProperties
<1>5. /\ Append(s.peer, p) \in Seq(Peers)
      /\ Len(Append(s.peer, p)) = Len(s.peer) + 1
  BY <1>1, AppendProperties
<1> QED BY <1>1, <1>3, <1>4, <1>5 DEF SharingOK, Aligned, SharingState, NewPeer

LEMMA PushSegmentOK ==
    ASSUME NEW s, SharingOK(s), NEW seg \in Segment
    PROVE  /\ SharingOK(PushSegment(s, seg))
           /\ Len(PushSegment(s, seg).queue) = Len(s.queue)
<1>1. CASE seg.slot \notin Slots(s)
  BY <1>1 DEF PushSegment
<1>2. CASE seg.slot \in Slots(s)
  <2>1. /\ s.queue \in Seq(Seq(Segment)) /\ seg.slot \in 1..Len(s.queue)
        /\ s.queue[seg.slot] \in Seq(Segment)
    BY <1>2 DEF SharingOK, SharingState, Slots
  <2> DEFINE q == Append(s.queue[seg.slot], seg)
             queue == [s.queue EXCEPT ![seg.slot] = q]
  <2>2. q \in Seq(Segment)
    BY <2>1, AppendProperties
  <2>3. queue \in Seq(Seq(Segment)) /\ Len(queue) = Len(s.queue)
    <3> HIDE DEF q
    <3> QED BY <2>1, <2>2, ExceptSeq
  <2>4. PushSegment(s, seg) = [s EXCEPT !.qcb = s.qcb + s.chunk, !.queue = queue]
    BY <1>2 DEF PushSegment
  <2>5. s.qcb + s.chunk \in Int
    BY DEF SharingOK, SharingState
  <2> HIDE DEF queue, q
  <2>6. PushSegment(s, seg) \in SharingState
    BY <2>3, <2>4, <2>5 DEF SharingOK, SharingState
  <2> QED BY <2>3, <2>4, <2>6 DEF SharingOK, Aligned, SharingState
<1> QED BY <1>1, <1>2

LEMMA TakeSegmentIdOK ==
    ASSUME NEW s, SharingOK(s)
    PROVE  /\ SharingOK(TakeSegmentId(s))
           /\ NextSegmentId(s) \in Nat
<1>1. s.csi + 1 \in Nat
  BY DEF SharingOK, SharingState
<1>2. TakeSegmentId(s) \in SharingState
  BY <1>1 DEF SharingOK, SharingState, TakeSegmentId
<1> QED BY <1>1, <1>2 DEF SharingOK, Aligned, SharingState, TakeSegmentId, NextSegmentId

LEMMA SetFileInfoOK ==
    ASSUME NEW s, SharingOK(s), NEW total \in Int, NEW chunk \in Nat, NEW bytes \in Int
    PROVE  SharingOK(SetFileInfo(s, total, chunk, bytes))
BY DEF SharingOK, Aligned, SharingState, SetFileInfo

LEMMA PauseOK ==
    ASSUME NEW s, SharingOK(s)
    PROVE  /\ SharingOK(PauseWriting(s)) /\ SharingOK(MustPause(s))
           /\ SharingOK(ResumeWriting(s)) /\ SharingOK(StopMustPause(s))
<1>1. AllIdle(s) \in Seq(BOOLEAN) /\ Len(AllIdle(s)) = Len(s.idle)
  BY DEF SharingOK, Aligned, SharingState, AllIdle
<1> QED BY <1>1 DEF SharingOK, Aligned, SharingState, PauseWriting, MustPause, ResumeWriting, StopMustPause

LEMMA UnsetPeerIdleOK ==
    ASSUME NEW s, SharingOK(s), NEW i \in Slots(s)
    PROVE  SharingOK(UnsetPeerIdle(s, i))
<1>1. s.idle \in Seq(BOOLEAN) /\ i \in 1..Len(s.idle) /\ FALSE \in BOOLEAN
  BY DEF SharingOK, Aligned, SharingState, Slots
<1> DEFINE idle == [s.idle EXCEPT ![i] = FALSE]
<1>2. idle \in Seq(BOOLEAN) /\ Len(idle) = Len(s.idle)
  BY <1>1, ExceptSeq
<1>3. UnsetPeerIdle(s, i) = [s EXCEPT !.idle = idle]
  BY DEF UnsetPeerIdle
<1> HIDE DEF idle
<1> QED BY <1>2, <1>3 DEF SharingOK, Aligned, SharingState

LEMMA FrontOK ==
    ASSUME NEW s, SharingOK(s), NEW i \in Slots(s), HasFront(s, i)
    PROVE  /\ Front(s, i) \in Segment
           /\ SharingOK(WriteFront(s, i))
           /\ SharingOK(DropFront(s, i))
<1>1. s.queue \in Seq(Seq(Segment)) /\ i \in 1..Len(s.queue)
  BY DEF SharingOK, SharingState, Slots
<1>2. s.queue[i] \in Seq(Segment) /\ s.queue[i] # << >>
  BY <1>1, ElementOfSeq DEF HasFront
<1>3. Head(s.queue[i]) \in Segment /\ Tail(s.queue[i]) \in Seq(Segment)
  BY <1>2, HeadTailProperties
<1> DEFINE queue == [s.queue EXCEPT ![i] = Tail(s.queue[i])]
<1>4. queue \in Seq(Seq(Segment)) /\ Len(queue) = Len(s.queue)
  BY <1>1, <1>3, ExceptSeq
<1>5. /\ WriteFront(s, i) = [s EXCEPT !.cwi = s.cwi + 1, !.qcb = s.qcb - s.chunk, !.queue = queue]
      /\ DropFront(s, i) = [s EXCEPT !.queue = queue]
  BY DEF WriteFront, DropFront
<1>6. s.cwi + 1 \in Nat /\ s.qcb - s.chunk \in Int
  BY DEF SharingOK, SharingState
<1> HIDE DEF queue
<1>7. WriteFront(s, i) \in SharingState /\ DropFront(s, i) \in SharingState
  BY <1>4, <1>5, <1>6 DEF SharingOK, SharingState
<1> QED BY <1>3, <1>4, <1>5, <1>7 DEF SharingOK, Aligned, SharingState, Front

---------------------------------------------------------------------------
(* Messages and the senders' files have their types. *)

LEMMA MessageOK ==
    ASSUME NEW slot \in Nat \ {0}
    PROVE  /\ \A f \in Files : Prepare(slot, f) \in Message
           /\ \A c \in ChunkState(Contents) : Prepared(slot, c) \in Message
           /\ NoSuchFile(slot) \in Message
           /\ \A id \in Nat : Get(slot, id) \in Message
           /\ \A id \in Nat, f \in Contents : Return(slot, id, f) \in Message
BY DEF Message, Prepare, Prepared, NoSuchFile, Get, Return, ChunkState, Segment

LEMMA MessageFields ==
    ASSUME NEW m \in Message
    PROVE  /\ m.type = "prepare"  => m.slot \in Nat \ {0} /\ m.file \in Files
           /\ m.type = "prepared" => /\ m.slot \in Nat \ {0} /\ m.total \in Int
                                     /\ m.chunk \in Nat /\ m.bytes \in Int
           /\ m.type = "get"      => m.slot \in Nat \ {0} /\ m.id \in Nat
           /\ m.type = "segment"  => m.seg \in Segment
BY DEF Message

LEMMA CeilDivOK ==
    ASSUME NEW size \in Nat, NEW chunk \in Nat \ {0}
    PROVE  CeilDiv(size, chunk) \in Nat
BY DEF CeilDiv

\* What a sender has after it has tried to open a file.
LEMMA OpenAtOK ==
    ASSUME NEW p \in Peers, NEW f \in Files, cf[p] \in ChunkState(Contents)
    PROVE  OpenAt(p, f) \in ChunkState(Contents)
<1> DEFINE size == SizeAt(p, f)
           file == StreamAt(p, f)
           sized == [cf[p] EXCEPT !.chunk = Chunk, !.size = size]
<1>1. Chunk \in Nat \ {0} /\ size \in Nat \cup {-1} /\ file \in Contents
  BY TransferAssumption DEF SizeAt, StreamAt, Contents
<1>2. OpenAt(p, f) = OpenFile(cf[p], file, size, Chunk, file # NoFile)
  BY DEF OpenAt
<1> HIDE DEF size, file
<1>3. sized \in ChunkState(Contents)
  <2>1. Chunk \in Nat /\ size \in Int
    BY <1>1
  <2>2. [cf[p] EXCEPT !.chunk = Chunk] \in ChunkState(Contents)
    BY <2>1 DEF ChunkState
  <2> QED BY <2>1, <2>2 DEF ChunkState
<1>4. CASE size <= 0
  <2>1. OpenAt(p, f) = [sized EXCEPT !.failed = TRUE]
    BY <1>2, <1>4 DEF OpenFile
  <2> QED BY <1>3, <2>1 DEF ChunkState
<1>5. CASE ~(size <= 0)
  <2>1. CeilDiv(size, Chunk) \in Int
    BY <1>1, <1>5, CeilDivOK
  <2>2. OpenAt(p, f) = [[sized EXCEPT !.total = CeilDiv(size, Chunk)]
                           EXCEPT !.file = file, !.failed = ~(file # NoFile)]
    BY <1>2, <1>5 DEF OpenFile, Opened
  <2> QED BY <1>1, <1>3, <2>1, <2>2 DEF ChunkState
<1> QED BY <1>4, <1>5

\* ... that is there and can be opened.
LEMMA OpenAtGood ==
    ASSUME OneGoodTransfer, NEW p \in Peers, NEW f \in Files, cf[p] \in ChunkState(Contents)
    PROVE  /\ OpenAt(p, f) = [file |-> f, size |-> FileSize[f], chunk |-> Chunk,
                              total |-> SegmentCount(f), failed |-> FALSE]
           /\ f # NoFile
<1>1. /\ SizeAt(p, f) = FileSize[f] /\ FileSize[f] \in Nat \ {0}
      /\ StreamAt(p, f) = f /\ f # NoFile
  BY TransferAssumption DEF SizeAt, StreamAt, OneGoodTransfer
<1>2. ~(FileSize[f] <= 0)
  BY <1>1
<1>3. OpenAt(p, f) = OpenFile(cf[p], f, FileSize[f], Chunk, TRUE)
  BY <1>1, Zenon DEF OpenAt
<1> QED BY <1>1, <1>2, <1>3 DEF OpenFile, Opened, SegmentCount, ChunkState

\* A function to sequences grows or shrinks at one argument.
LEMMA ChannelOK ==
    ASSUME NEW S, NEW c \in [Peers -> Seq(S)], NEW p \in Peers
    PROVE  /\ \A m \in S : [c EXCEPT ![p] = Append(@, m)] \in [Peers -> Seq(S)]
           /\ c[p] # << >> => /\ Head(c[p]) \in S
                              /\ [c EXCEPT ![p] = Tail(@)] \in [Peers -> Seq(S)]
           /\ [c EXCEPT ![p] = << >>] \in [Peers -> Seq(S)]
<1>1. c[p] \in Seq(S)
  OBVIOUS
<1>2. \A m \in S : Append(c[p], m) \in Seq(S)
  BY <1>1, AppendProperties
<1>3. c[p] # << >> => Head(c[p]) \in S /\ Tail(c[p]) \in Seq(S)
  BY <1>1, HeadTailProperties
<1> QED BY <1>2, <1>3

LEMMA PushMessageOK ==
    ASSUME outbox \in [Peers -> Seq(Message)],
           NEW p \in Peers, NEW m \in Message, PushMessage(p, m)
    PROVE  outbox' \in [Peers -> Seq(Message)]
BY ChannelOK DEF PushMessage

LEMMA AnswerOK ==
    ASSUME resp \in [Peers -> Seq(Message)],
           NEW p \in Peers, NEW m \in Message, Answer(p, m)
    PROVE  resp' \in [Peers -> Seq(Message)]
BY ChannelOK DEF Answer

LEMMA TypeInit == Init => TypeOK
<1> SUFFICES ASSUME Init PROVE TypeOK
  OBVIOUS
<1>1. SharingOK(fs)
  BY ResetOK DEF Init
<1>2. /\ stream \in StreamState
      /\ inbox \in Seq([from : Peers, msg : Message])
      /\ outbox \in [Peers -> Seq(Message)]
      /\ req \in [Peers -> Seq(Message)]
      /\ resp \in [Peers -> Seq(Message)]
  BY DEF Init, StreamState, Contents
<1>3. cf \in [Peers -> ChunkState(Contents)]
  <2>1. ASSUME NEW g \in Garbage, NEW b \in BOOLEAN
        PROVE  [file |-> NoFile, size |-> 0, total |-> g, chunk |-> 0, failed |-> b]
                  \in ChunkState(Contents)
    BY TransferAssumption DEF ChunkState, Contents
  <2> QED BY <2>1 DEF Init
<1>4. /\ io \in IoState /\ gtk \in GtkState
      /\ gone \subseteq Leavers
      /\ used \in Counts
  BY DEF Init, IoAt, Contents, IoState, GtkState, Counts
<1>5. gtk.pc = "rest"
  BY DEF Init
<1> QED BY <1>1, <1>2, <1>3, <1>4, <1>5 DEF TypeOK

LEMMA GoToOK ==
    ASSUME NEW pc \in {"wait", "pausing", "resuming", "begin", "write", "beginAsk",
                       "ask", "drain", "crashed"},
           GoTo(pc)
    PROVE  io' \in IoState
BY DEF GoTo, IoAt, IoState

LEMMA NextSlotOK ==
    ASSUME io \in IoState
    PROVE  /\ [io EXCEPT !.slot = @ + 1] \in IoState
           /\ \A seen \in BOOLEAN :
                 [io EXCEPT !.slot = @ + 1, !.seen = @ \/ seen] \in IoState
<1>1. io.slot + 1 \in Nat \ {0}
  BY DEF IoState
<1>2. ASSUME NEW seen \in BOOLEAN PROVE (io.seen \/ seen) \in BOOLEAN
  OBVIOUS
<1> QED BY <1>1, <1>2 DEF IoState

LEMMA CrashOK ==
    ASSUME gtk \in GtkState, Crash
    PROVE  io' \in IoState /\ gtk' \in GtkState /\ gtk'.pc = "crashed"
<1>1. io' \in IoState
  BY GoToOK DEF Crash
<1>2. gtk' \in GtkState /\ gtk'.pc = "crashed"
  BY DEF Crash, GtkState
<1> QED BY <1>1, <1>2

LEMMA InboxOK ==
    ASSUME inbox \in Seq([from : Peers, msg : Message]), inbox # << >>
    PROVE  /\ Head(inbox) \in [from : Peers, msg : Message]
           /\ Tail(inbox) \in Seq([from : Peers, msg : Message])
BY HeadTailProperties

LEMMA TypeNext == TypeOK /\ [Next]_vars => TypeOK'
<1> SUFFICES ASSUME TypeOK, [Next]_vars PROVE TypeOK'
  OBVIOUS
<1> USE DEF TypeOK, netVars, userVars
<1>1. ASSUME NEW f \in Files, ChangeMusic(f) PROVE TypeOK'
  <2>1. gtk' \in GtkState
    BY <1>1 DEF ChangeMusic, GtkState, Contents
  <2>2. used' \in Counts
    <3>1. used.sessions + 1 \in Nat
      BY DEF Counts
    <3> QED BY <1>1, <3>1 DEF ChangeMusic, Counts
  <2> QED BY <1>1, <2>1, <2>2, PauseOK DEF ChangeMusic
<1>2. ASSUME PauseMusic PROVE TypeOK'
  <2>1. gtk' \in GtkState
    BY <1>2 DEF PauseMusic, GtkState
  <2>2. used' \in Counts
    <3>1. used.pauses + 1 \in Nat
      BY DEF Counts
    <3> QED BY <1>2, <3>1 DEF PauseMusic, Counts
  <2> QED BY <1>2, <2>1, <2>2, PauseOK DEF PauseMusic
<1>3. ASSUME FinishPause PROVE TypeOK'
  <2>1. gtk' \in GtkState
    BY <1>3 DEF FinishPause, GtkState
  <2>2. /\ gtk'.pc = "loading" => gtk'.load \in Files
        /\ gtk'.pc # "adding"
    BY <1>3 DEF FinishPause, GtkState, Contents
  <2> QED BY <1>3, <2>1, <2>2, PauseOK DEF FinishPause
<1>4. ASSUME PlayMusic PROVE TypeOK'
  <2>1. gtk' \in GtkState
    BY <1>4 DEF PlayMusic, GtkState
  <2> QED BY <1>4, <2>1, PauseOK DEF PlayMusic
<1>5. ASSUME StartFileSharing PROVE TypeOK'
  <2>1. gtk.load \in Files /\ Owners[gtk.load] \in Seq(Peers)
    BY <1>5, TransferAssumption DEF StartFileSharing
  <2>2. gtk' \in GtkState
    BY <1>5, <2>1, TransferAssumption DEF StartFileSharing, GtkState, Contents
  <2>3. gtk'.pc = "adding" /\ gtk'.file \in Files
    BY <1>5, <2>1 DEF StartFileSharing, GtkState
  <2> QED BY <1>5, <2>2, <2>3, ResetOK DEF StartFileSharing
<1>6. ASSUME AddOwner PROVE TypeOK'
  <2> DEFINE p == Head(gtk.todo)
  <2>1. p \in Peers /\ Tail(gtk.todo) \in Seq(Peers)
    BY <1>6, HeadTailProperties DEF AddOwner, GtkState
  <2>2. gtk' \in GtkState /\ gtk'.pc = "adding" /\ gtk'.file \in Files
    BY <1>6, <2>1 DEF AddOwner, GtkState
  <2>3. Len(fs.queue) + 1 \in Nat \ {0} /\ gtk.file \in Files
    BY <1>6 DEF AddOwner, SharingOK, SharingState
  <2>4. Prepare(Len(fs.queue) + 1, gtk.file) \in Message
    BY <2>3, MessageOK
  <2>5. outbox' \in [Peers -> Seq(Message)]
    BY <1>6, <2>1, <2>4, PushMessageOK DEF AddOwner
  <2>6. SharingOK(fs')
    BY <1>6, <2>1, NewPeerOK DEF AddOwner
  <2> QED BY <1>6, <2>2, <2>5, <2>6 DEF AddOwner
<1>7. ASSUME NewBufferedAudio PROVE TypeOK'
  <2>1. gtk' \in GtkState /\ gtk'.pc = "rest"
    BY <1>7 DEF NewBufferedAudio, GtkState
  <2>2. [file |-> gtk.file, data |-> << >>, eos |-> 0] \in StreamState
    BY DEF StreamState, GtkState
  <2> QED BY <1>7, <2>1, <2>2 DEF NewBufferedAudio
<1>8. ASSUME RaceOnVectors PROVE TypeOK'
  BY <1>8, CrashOK DEF RaceOnVectors
<1>9. ASSUME Tick PROVE TypeOK'
  <2>1. \/ GoTo("begin") \/ GoTo("pausing") \/ GoTo("resuming")
    BY <1>9 DEF Tick
  <2> QED BY <1>9, <2>1, GoToOK DEF Tick
<1>10. ASSUME ShouldPause PROVE TypeOK'
  BY <1>10, GoToOK, PauseOK DEF ShouldPause
<1>11. ASSUME BeginWriting PROVE TypeOK'
  BY <1>11, GoToOK DEF BeginWriting
<1>12. ASSUME WriteSegment PROVE TypeOK'
  <2>1. CASE stream.file = NoFile
    BY <1>12, <2>1, CrashOK DEF WriteSegment
  <2>2. CASE stream.file # NoFile
    <3> DEFINE byte == [id |-> Front(fs, io.slot).id, file |-> Front(fs, io.slot).file]
    <3>1. io.slot \in Slots(fs) /\ HasFront(fs, io.slot)
      BY <1>12 DEF WriteSegment, AtQueue, Writable
    <3>2. byte \in [id : Nat, file : Contents]
      BY <3>1, FrontOK DEF Segment
    <3>3. SharingOK(fs')
      BY <1>12, <2>2, <3>1, FrontOK DEF WriteSegment
    <3>4. io' \in IoState
      BY <1>12, <2>2, GoToOK, NextSlotOK DEF WriteSegment, NextQueue
    <3>5. stream' \in StreamState
      <4>1. Append(stream.data, byte) \in Seq([id : Nat, file : Contents])
        <5> HIDE DEF byte
        <5> QED BY <3>2, AppendProperties DEF StreamState
      <4>2. (IF IsEnd(fs) THEN stream.eos + 1 ELSE stream.eos) \in Nat
        BY DEF StreamState
      <4>3. stream' = [stream EXCEPT !.data = Append(stream.data, byte),
                          !.eos = IF IsEnd(fs) THEN stream.eos + 1 ELSE stream.eos]
        BY <1>12, <2>2 DEF WriteSegment
      <4> HIDE DEF byte
      <4> QED BY <4>1, <4>2, <4>3 DEF StreamState
    <3> QED BY <1>12, <2>2, <3>3, <3>4, <3>5 DEF WriteSegment
  <2> QED BY <2>1, <2>2
<1>13. ASSUME DropSegment PROVE TypeOK'
  BY <1>13, FrontOK, NextSlotOK DEF DropSegment, AtQueue, Droppable, NextQueue
<1>14. ASSUME SkipQueue PROVE TypeOK'
  BY <1>14, NextSlotOK DEF SkipQueue, NextQueue, HasFront
<1>15. ASSUME EndPass PROVE TypeOK'
  <2>1. IoAt("write", 2) \in IoState
    BY DEF IoAt, IoState
  <2> QED BY <1>15, <2>1, GoToOK DEF EndPass
<1>16. ASSUME BeginAsking PROVE TypeOK'
  BY <1>16, GoToOK DEF BeginAsking
<1>17. ASSUME AskIdlePeer PROVE TypeOK'
  <2>1. io.slot \in Slots(fs) /\ io.slot \in Nat \ {0} /\ fs.peer[io.slot] \in Peers
    BY <1>17 DEF AskIdlePeer, Slots, SharingOK, SharingState, Aligned, IoState
  <2>2. io' \in IoState
    BY <1>17, NextSlotOK DEF AskIdlePeer
  <2>3. /\ SharingOK(TakeSegmentId(fs)) /\ io.slot \in Slots(TakeSegmentId(fs))
        /\ Get(io.slot, NextSegmentId(fs)) \in Message
    BY <2>1, TakeSegmentIdOK, MessageOK DEF TakeSegmentId, Slots, SharingOK, SharingState
  <2>4. SharingOK(fs')
    BY <1>17, <2>1, <2>3, UnsetPeerIdleOK DEF AskIdlePeer
  <2>5. outbox' \in [Peers -> Seq(Message)]
    BY <1>17, <2>1, <2>3, PushMessageOK DEF AskIdlePeer
  <2> QED BY <1>17, <2>2, <2>4, <2>5 DEF AskIdlePeer
<1>18. ASSUME EndAsking PROVE TypeOK'
  BY <1>18, GoToOK DEF EndAsking
<1>19. ASSUME HandlePreparedFileSharing PROVE TypeOK'
  <2> DEFINE m == Head(inbox).msg
             t == SetFileInfo(fs, m.total, m.chunk, m.bytes)
  <2>1. /\ Head(inbox) \in [from : Peers, msg : Message]
        /\ inbox' \in Seq([from : Peers, msg : Message])
    BY <1>19, InboxOK DEF HandlePreparedFileSharing, Draining
  <2>2. /\ m.slot \in Nat \ {0} /\ m.total \in Int /\ m.chunk \in Nat /\ m.bytes \in Int
    BY <1>19, <2>1, MessageFields DEF HandlePreparedFileSharing, Draining
  <2>3. SharingOK(TakeSegmentId(t))
    BY <2>2, SetFileInfoOK, TakeSegmentIdOK
  <2>4. Get(m.slot, NextSegmentId(fs)) \in Message
    BY <2>2, TakeSegmentIdOK, MessageOK
  <2>5. outbox' \in [Peers -> Seq(Message)]
    BY <1>19, <2>1, <2>4, PushMessageOK DEF HandlePreparedFileSharing
  <2>6. fs' = TakeSegmentId(t)
    BY <1>19 DEF HandlePreparedFileSharing
  <2> HIDE DEF t
  <2> QED BY <1>19, <2>1, <2>3, <2>5, <2>6 DEF HandlePreparedFileSharing
<1>20. ASSUME HandleReturnSegment PROVE TypeOK'
  <2> DEFINE seg == Head(inbox).msg.seg
             got == PushSegment(fs, seg)
  <2>1. /\ Head(inbox) \in [from : Peers, msg : Message]
        /\ inbox' \in Seq([from : Peers, msg : Message])
    BY <1>20, InboxOK DEF HandleReturnSegment, Draining
  <2>2. seg \in Segment
    BY <1>20, <2>1, MessageFields DEF HandleReturnSegment, Draining
  <2>3. SharingOK(got) /\ SharingOK(TakeSegmentId(got)) /\ NextSegmentId(got) \in Nat
    BY <2>2, PushSegmentOK, TakeSegmentIdOK
  <2>4. Get(seg.slot, NextSegmentId(got)) \in Message
    BY <2>2, <2>3, MessageOK DEF Segment
  <2>5. outbox' \in [Peers -> Seq(Message)]
    BY <1>20, <2>1, <2>4, PushMessageOK DEF HandleReturnSegment
  <2>6. fs' = got \/ fs' = TakeSegmentId(got)
    BY <1>20 DEF HandleReturnSegment
  <2> HIDE DEF got
  <2> QED BY <1>20, <2>1, <2>3, <2>5, <2>6 DEF HandleReturnSegment
<1>21. ASSUME IgnoreNoSuchFile PROVE TypeOK'
  BY <1>21, InboxOK DEF IgnoreNoSuchFile, Draining
<1>22. ASSUME StartWriting PROVE TypeOK'
  <2>1. \A p \in Peers : req[p] \o outbox[p] \in Seq(Message)
    BY ConcatProperties
  <2>2. req' \in [Peers -> Seq(Message)] /\ outbox' \in [Peers -> Seq(Message)]
    BY <1>22, <2>1 DEF StartWriting
  <2> QED BY <1>22, <2>2, GoToOK DEF StartWriting
<1>23. ASSUME NEW p \in Peers, ReadMessage(p) PROVE TypeOK'
  <2>1. /\ Head(resp[p]) \in Message
        /\ resp' \in [Peers -> Seq(Message)]
    BY <1>23, ChannelOK DEF ReadMessage
  <2>2. [from |-> p, msg |-> Head(resp[p])] \in [from : Peers, msg : Message]
    BY <2>1
  <2>3. inbox' \in Seq([from : Peers, msg : Message])
    BY <1>23, <2>2, AppendProperties DEF ReadMessage
  <2> QED BY <1>23, <2>1, <2>3 DEF ReadMessage
<1>24. ASSUME NEW p \in Peers, HandlePrepareFileSharing(p) PROVE TypeOK'
  <2> DEFINE m == Head(req[p])
             opened == OpenAt(p, m.file)
  <2>1. m \in Message /\ req' \in [Peers -> Seq(Message)]
    BY <1>24, ChannelOK DEF HandlePrepareFileSharing, Received
  <2>2. m.slot \in Nat \ {0} /\ m.file \in Files
    BY <1>24, <2>1, MessageFields DEF HandlePrepareFileSharing, Received
  <2>3. opened \in ChunkState(Contents)
    BY <2>2, OpenAtOK
  <2>4. NoSuchFile(m.slot) \in Message /\ Prepared(m.slot, opened) \in Message
    BY <2>2, <2>3, MessageOK
  <2>5. CASE m.file \notin Holds[p]
    BY <1>24, <2>1, <2>4, <2>5, AnswerOK DEF HandlePrepareFileSharing
  <2>6. CASE m.file \in Holds[p]
    <3>1. cf' = [cf EXCEPT ![p] = opened] /\ cf'[p] = opened
      BY <1>24, <2>6 DEF HandlePrepareFileSharing
    <3>2. Answer(p, Prepared(m.slot, opened))
      BY <1>24, <2>6, <3>1 DEF HandlePrepareFileSharing
    <3> HIDE DEF opened
    <3>3. cf' \in [Peers -> ChunkState(Contents)] /\ resp' \in [Peers -> Seq(Message)]
      BY <2>3, <2>4, <3>1, <3>2, AnswerOK
    <3> QED BY <1>24, <2>1, <3>3 DEF HandlePrepareFileSharing
  <2> QED BY <2>5, <2>6
<1>25. ASSUME NEW p \in Peers, HandleGetSegment(p) PROVE TypeOK'
  <2> DEFINE m == Head(req[p])
  <2>1. m \in Message /\ req' \in [Peers -> Seq(Message)]
    BY <1>25, ChannelOK DEF HandleGetSegment, Received
  <2>2. m.slot \in Nat \ {0} /\ m.id \in Nat
    BY <1>25, <2>1, MessageFields DEF HandleGetSegment, Received
  <2>3. Return(m.slot, m.id, cf[p].file) \in Message
    BY <2>2, MessageOK DEF ChunkState
  <2>4. resp' \in [Peers -> Seq(Message)]
    BY <1>25, <2>3, AnswerOK DEF HandleGetSegment
  <2> QED BY <1>25, <2>1, <2>4 DEF HandleGetSegment
<1>26. ASSUME NEW p \in Peers, NEW f \in Files, HandleOtherPrepare(p, f) PROVE TypeOK'
  <2>1. OpenAt(p, f) \in ChunkState(Contents)
    BY OpenAtOK
  <2>2. cf' \in [Peers -> ChunkState(Contents)]
    BY <1>26, <2>1 DEF HandleOtherPrepare
  <2>3. used' \in Counts
    <3>1. used.others + 1 \in Nat
      BY DEF Counts
    <3> QED BY <1>26, <3>1 DEF HandleOtherPrepare, Counts
  <2> QED BY <1>26, <2>2, <2>3 DEF HandleOtherPrepare
<1>27. ASSUME NEW p \in Peers, Leave(p) PROVE TypeOK'
  BY <1>27, ChannelOK DEF Leave
<1>28. CASE UNCHANGED vars
  BY <1>28 DEF vars
<1> QED BY <1>1, <1>2, <1>3, <1>4, <1>5, <1>6, <1>7, <1>8, <1>9, <1>10, <1>11,
           <1>12, <1>13, <1>14, <1>15, <1>16, <1>17, <1>18, <1>19, <1>20,
           <1>21, <1>22, <1>23, <1>24, <1>25, <1>26, <1>27, <1>28
        DEF Next, UserStep, GtkStep, HookStep, DrainStep, SenderStep, OtherStep

\* The state of a node that streams songs is always well formed (all the
\* handlers of MyApplication that touch the FileSharing object).
THEOREM TypeCorrect == Spec => []TypeOK
BY TypeInit, TypeNext, PTL DEF Spec

---------------------------------------------------------------------------
(* What the methods of the FileSharing object leave alone. *)

LEMMA MethodsKeep ==
    ASSUME NEW s, SharingOK(s), NEW i \in Slots(s)
    PROVE  /\ WriteFront(s, i).total = s.total /\ WriteFront(s, i).peer = s.peer
           /\ WriteFront(s, i).csi = s.csi /\ WriteFront(s, i).cwi = s.cwi + 1
           /\ DropFront(s, i).total = s.total /\ DropFront(s, i).peer = s.peer
           /\ DropFront(s, i).csi = s.csi /\ DropFront(s, i).cwi = s.cwi
           /\ UnsetPeerIdle(s, i).total = s.total /\ UnsetPeerIdle(s, i).peer = s.peer
           /\ UnsetPeerIdle(s, i).csi = s.csi /\ UnsetPeerIdle(s, i).cwi = s.cwi
           /\ UnsetPeerIdle(s, i).queue = s.queue
BY DEF SharingOK, SharingState, WriteFront, DropFront, UnsetPeerIdle

LEMMA PauseKeeps ==
    ASSUME NEW s, SharingOK(s), NEW t,
           t \in {PauseWriting(s), MustPause(s), ResumeWriting(s), StopMustPause(s)}
    PROVE  /\ t.total = s.total /\ t.csi = s.csi /\ t.cwi = s.cwi
           /\ t.queue = s.queue /\ t.peer = s.peer
BY DEF SharingOK, SharingState, PauseWriting, MustPause, ResumeWriting, StopMustPause

LEMMA TakeKeeps ==
    ASSUME NEW s, SharingOK(s)
    PROVE  LET t == TakeSegmentId(s)
           IN  /\ t.total = s.total /\ t.cwi = s.cwi /\ t.csi = s.csi + 1
               /\ t.queue = s.queue /\ t.peer = s.peer
BY DEF SharingOK, SharingState, TakeSegmentId

LEMMA PushKeeps ==
    ASSUME NEW s, SharingOK(s), NEW seg \in Segment
    PROVE  LET t == PushSegment(s, seg)
           IN  /\ t.total = s.total /\ t.cwi = s.cwi /\ t.csi = s.csi
               /\ t.peer = s.peer
BY DEF SharingOK, SharingState, PushSegment

\* Queues of segments from a set stay so.
LEMMA QueueKept ==
    ASSUME NEW T, NEW s, SharingOK(s), s.queue \in Seq(Seq(T))
    PROVE  /\ \A i \in Slots(s) : HasFront(s, i) =>
                 /\ Front(s, i) \in T
                 /\ WriteFront(s, i).queue \in Seq(Seq(T))
                 /\ DropFront(s, i).queue \in Seq(Seq(T))
           /\ \A seg \in T : PushSegment(s, seg).queue \in Seq(Seq(T))
<1>1. s \in SharingState
  BY DEF SharingOK
<1>2. ASSUME NEW i \in Slots(s) PROVE s.queue[i] \in Seq(T) /\ i \in 1..Len(s.queue)
  BY ElementOfSeq DEF Slots
<1>3. ASSUME NEW i \in Slots(s), HasFront(s, i)
      PROVE  /\ Front(s, i) \in T
             /\ WriteFront(s, i).queue \in Seq(Seq(T))
             /\ DropFront(s, i).queue \in Seq(Seq(T))
  <2>1. Head(s.queue[i]) \in T /\ Tail(s.queue[i]) \in Seq(T)
    BY <1>2, <1>3, HeadTailProperties DEF HasFront
  <2>2. [s.queue EXCEPT ![i] = Tail(s.queue[i])] \in Seq(Seq(T))
    BY <1>2, <2>1, ExceptSeq
  <2> QED BY <1>1, <2>1, <2>2 DEF Front, WriteFront, DropFront, SharingState
<1>4. ASSUME NEW seg \in T PROVE PushSegment(s, seg).queue \in Seq(Seq(T))
  <2>1. CASE seg.slot \notin Slots(s)
    BY <2>1 DEF PushSegment
  <2>2. CASE seg.slot \in Slots(s)
    <3>1. Append(s.queue[seg.slot], seg) \in Seq(T)
      BY <1>2, <2>2, AppendProperties
    <3>2. [s.queue EXCEPT ![seg.slot] = Append(s.queue[seg.slot], seg)] \in Seq(Seq(T))
      BY <1>2, <2>2, <3>1, ExceptSeq
    <3> QED BY <1>1, <2>2, <3>2 DEF PushSegment, SharingState
  <2> QED BY <2>1, <2>2
<1> QED BY <1>3, <1>4

---------------------------------------------------------------------------
(* Initially, and while nothing has been loaded. *)

\* if_idle only asks peers that take part.
LEMMA SlotHasPeer ==
    ASSUME TypeOK, io.slot \in Slots(fs)
    PROVE  io.slot \in Nat \ {0} /\ fs.peer[io.slot] \in Peers
<1>1. SharingOK(fs) /\ io \in IoState
  BY DEF TypeOK
<1>2. fs.peer \in Seq(Peers) /\ io.slot \in 1..Len(fs.peer)
  BY <1>1 DEF Slots, SharingOK, SharingState, Aligned
<1> QED BY <1>2

\* Sequences over a larger set.
LEMMA SeqMono ==
    ASSUME NEW S, NEW T, S \subseteq T
    PROVE  /\ Seq(S) \subseteq Seq(T)
           /\ \A c : c \in [Peers -> Seq(S)] => c \in [Peers -> Seq(T)]
OBVIOUS

LEMMA InboxMono ==
    ASSUME NEW S, NEW T, S \subseteq T
    PROVE  Seq([from : Peers, msg : S]) \subseteq Seq([from : Peers, msg : T])
<1>1. [from : Peers, msg : S] \subseteq [from : Peers, msg : T]
  OBVIOUS
<1> QED BY <1>1, SeqMono

LEMMA SetsKept ==
    ASSUME gtk'.file = gtk.file, fs'.total = fs.total
    PROVE  /\ SongCount' = SongCount /\ SongSegments' = SongSegments
           /\ SenderMessages' = SenderMessages
           /\ ReceiverMessages' = ReceiverMessages
           /\ SongFiles' = SongFiles
<1>1. SongCount' = SongCount
  BY DEF SongCount
<1>2. SongSegments' = SongSegments
  BY <1>1 DEF SongSegments
<1> QED BY <1>1, <1>2 DEF SenderMessages, ReceiverMessages, SongFiles

\* The number of segments becomes known.
LEMMA SetsGrow ==
    ASSUME gtk'.file = gtk.file, fs'.total = SongCount
    PROVE  /\ SongCount' = SongCount /\ SongSegments \subseteq SongSegments'
           /\ SenderMessages \subseteq SenderMessages'
           /\ ReceiverMessages \subseteq ReceiverMessages'
           /\ SongFiles' = SongFiles
<1>1. SongCount' = SongCount
  BY DEF SongCount
<1>2. SongSegments \subseteq SongSegments'
  BY <1>1 DEF SongSegments
<1>3. SenderMessages \subseteq SenderMessages'
  BY <1>1 DEF SenderMessages
<1>4. ReceiverMessages \subseteq ReceiverMessages'
  BY <1>1, <1>2 DEF ReceiverMessages
<1> QED BY <1>1, <1>2, <1>3, <1>4 DEF SongFiles

LEMMA InvInit == ASSUME OneGoodTransfer, Init PROVE StreamInv
<1>1. TypeOK
  BY TypeInit
<1>2. Untouched
  BY DEF Init, Untouched, Unstarted, ResetSharingFile
<1>3. OneSong
  <2>1. cf \in [Peers -> SongFiles]
    BY <1>1 DEF Init, TypeOK, SongFiles
  <2> QED BY <2>1 DEF Init, OneSong, ResetSharingFile, SongCount
<1>4. PreparedFirst
  BY DEF Init, PreparedFirst, NotPrepared, ResetSharingFile, Slots
<1>5. StreamIsPrefix
  BY DEF Init, StreamIsPrefix, ResetSharingFile
<1> QED BY <1>1, <1>2, <1>3, <1>4, <1>5 DEF StreamInv

---------------------------------------------------------------------------
(* A step keeps each part of the invariant. *)

\* Before LoadMusic, only the GTK thread does anything.
LEMMA UnstartedNext ==
    ASSUME OneSession, TypeOK, Unstarted, TypeOK', [Next]_vars
    PROVE  Unstarted'
<1> USE DEF Unstarted, netVars, userVars
<1>0. gtk.file = NoFile => Slots(fs) = {}
  BY DEF Slots
<1>1. ASSUME NEW f \in Files, ChangeMusic(f) PROVE Unstarted'
  <2>1. gtk.file = NoFile /\ used.sessions + 1 = MaxSessions
    <3>1. used.sessions < MaxSessions /\ used.sessions \in Nat
      BY <1>1 DEF ChangeMusic, TypeOK, Counts
    <3>2. MaxSessions \in Nat /\ MaxSessions <= 1
      BY TransferAssumption DEF OneSession
    <3>3. used.sessions # MaxSessions /\ used.sessions + 1 = MaxSessions
      BY <3>1, <3>2
    <3> QED BY <3>3
  <2>2. /\ gtk'.pc = "pausing" /\ gtk'.file = NoFile
        /\ used'.sessions = MaxSessions
    BY <1>1, <2>1 DEF ChangeMusic, TypeOK, GtkState, Counts
  <2> QED BY <1>1, <2>1, <2>2, PauseKeeps DEF ChangeMusic, TypeOK
<1>2. ASSUME PauseMusic PROVE Unstarted'
  BY <1>2, PauseKeeps DEF PauseMusic, TypeOK, GtkState, Counts
<1>3. ASSUME FinishPause PROVE Unstarted'
  BY <1>3, PauseKeeps DEF FinishPause, TypeOK, GtkState
<1>4. ASSUME PlayMusic PROVE Unstarted'
  BY <1>4, PauseKeeps DEF PlayMusic, TypeOK, GtkState
<1>5. ASSUME StartFileSharing PROVE Unstarted'
  BY <1>5, TransferAssumption DEF StartFileSharing, TypeOK, GtkState
<1>6. ASSUME AddOwner PROVE Unstarted'
  BY <1>6, TransferAssumption DEF AddOwner, TypeOK, GtkState
<1>7. ASSUME NewBufferedAudio PROVE Unstarted'
  BY <1>7, TransferAssumption DEF NewBufferedAudio, TypeOK, GtkState
<1>8. ASSUME RaceOnVectors PROVE Unstarted'
  BY <1>8 DEF RaceOnVectors, Crash, Iterating, TypeOK, GtkState
<1>9. ASSUME Tick \/ BeginWriting \/ SkipQueue \/ EndPass \/ BeginAsking \/ EndAsking
      PROVE  Unstarted'
  BY <1>9 DEF Tick, BeginWriting, SkipQueue, EndPass, BeginAsking, EndAsking
<1>10. ASSUME ShouldPause PROVE Unstarted'
  BY <1>10, PauseKeeps DEF ShouldPause, TypeOK
<1>11. ASSUME WriteSegment \/ DropSegment \/ AskIdlePeer PROVE Unstarted'
  <2>1. gtk.file # NoFile
    BY <1>0, <1>11 DEF WriteSegment, DropSegment, AskIdlePeer, AtQueue
  <2>2. gtk' = gtk \/ (gtk'.pc = "crashed" /\ gtk'.file = gtk.file /\ gtk'.load = gtk.load)
    BY <1>11 DEF WriteSegment, DropSegment, AskIdlePeer, Crash, TypeOK, GtkState
  <2>3. stream'.file = stream.file /\ used' = used
    BY <1>11 DEF WriteSegment, DropSegment, AskIdlePeer, TypeOK, StreamState
  <2> QED BY <2>1, <2>2, <2>3
<1>12. ASSUME HandlePreparedFileSharing \/ HandleReturnSegment \/ IgnoreNoSuchFile
       PROVE  Unstarted'
  BY <1>12 DEF HandlePreparedFileSharing, HandleReturnSegment, IgnoreNoSuchFile, Draining
<1>13. ASSUME StartWriting PROVE Unstarted'
  BY <1>13 DEF StartWriting
<1>14. ASSUME NEW p \in Peers, ReadMessage(p) PROVE Unstarted'
  BY <1>14 DEF ReadMessage
<1>15. ASSUME NEW p \in Peers, SenderStep(p) PROVE Unstarted'
  BY <1>15 DEF SenderStep, HandlePrepareFileSharing, HandleGetSegment, Received
<1>16. ASSUME NEW p \in Peers, NEW f \in Files, HandleOtherPrepare(p, f) PROVE Unstarted'
  BY <1>16 DEF HandleOtherPrepare, TypeOK, Counts
<1>17. ASSUME NEW p \in Peers, Leave(p) PROVE Unstarted'
  BY <1>17 DEF Leave
<1>18. CASE UNCHANGED vars
  BY <1>18 DEF vars
<1> QED BY <1>1, <1>2, <1>3, <1>4, <1>5, <1>6, <1>7, <1>8, <1>9, <1>10, <1>11,
           <1>12, <1>13, <1>14, <1>15, <1>16, <1>17, <1>18
        DEF Next, UserStep, GtkStep, HookStep, DrainStep, OtherStep

\* ... and no peer has opened a song, for nobody else asks for one.
LEMMA UntouchedNext ==
    ASSUME OneGoodTransfer, StreamInv, TypeOK', [Next]_vars
    PROVE  Untouched'
<1> USE DEF StreamInv, Untouched
<1>1. Unstarted'
  BY UnstartedNext DEF OneGoodTransfer
<1>2. ASSUME gtk'.file = NoFile PROVE \A p \in Peers : cf'[p].file = NoFile
  <2>1. gtk.file = NoFile
    <3>1. gtk \in GtkState /\ ~StartFileSharing
      <4>1. StartFileSharing => gtk'.file = gtk.load /\ gtk.load \in Files
        BY DEF StartFileSharing, TypeOK, GtkState
      <4> QED BY <1>2, <4>1, TransferAssumption DEF TypeOK
    <3>2. ASSUME NEW f \in Files, ChangeMusic(f) PROVE gtk'.file = gtk.file
      BY <3>1, <3>2 DEF ChangeMusic, GtkState
    <3>3. ASSUME PauseMusic \/ FinishPause \/ PlayMusic PROVE gtk'.file = gtk.file
      BY <3>1, <3>3 DEF PauseMusic, FinishPause, PlayMusic, GtkState
    <3>4. ASSUME AddOwner \/ NewBufferedAudio \/ RaceOnVectors PROVE gtk'.file = gtk.file
      BY <3>1, <3>4 DEF AddOwner, NewBufferedAudio, RaceOnVectors, Crash, GtkState
    <3>5. ASSUME HookStep \/ DrainStep PROVE gtk'.file = gtk.file
      BY <3>1, <3>5 DEF HookStep, DrainStep, userVars, Tick, ShouldPause, BeginWriting, WriteSegment,
           DropSegment, SkipQueue, EndPass, BeginAsking, AskIdlePeer, EndAsking,
           HandlePreparedFileSharing, HandleReturnSegment, IgnoreNoSuchFile, StartWriting, Crash, GtkState
    <3>6. ASSUME NEW p \in Peers, ReadMessage(p) \/ SenderStep(p) \/ Leave(p)
          PROVE  gtk'.file = gtk.file
      BY <3>6 DEF ReadMessage, SenderStep, HandlePrepareFileSharing, HandleGetSegment, Leave, userVars
    <3>7. ASSUME NEW p \in Peers, NEW f \in Files, HandleOtherPrepare(p, f) PROVE gtk'.file = gtk.file
      BY <3>7 DEF HandleOtherPrepare
    <3>8. ASSUME UNCHANGED vars PROVE gtk'.file = gtk.file
      BY <3>8 DEF vars
    <3>9. gtk'.file = gtk.file
      BY <3>1, <3>2, <3>3, <3>4, <3>5, <3>6, <3>7, <3>8 DEF Next, UserStep, GtkStep, OtherStep
    <3> QED BY <1>2, <3>9
  <2>2. \A p \in Peers : ~HandlePrepareFileSharing(p) /\ \A f \in Files : ~HandleOtherPrepare(p, f)
    BY <2>1 DEF Unstarted, HandlePrepareFileSharing, Received, HandleOtherPrepare, OneGoodTransfer,
                TypeOK, Counts
  <2>3. cf' = cf
    BY <2>2
       DEF Next, UserStep, GtkStep, HookStep, DrainStep, OtherStep, SenderStep, vars, netVars, userVars,
           ChangeMusic, PauseMusic, FinishPause, PlayMusic, StartFileSharing, AddOwner,
           NewBufferedAudio, RaceOnVectors, Tick, ShouldPause, BeginWriting, WriteSegment,
           DropSegment, SkipQueue, EndPass, BeginAsking, AskIdlePeer, EndAsking,
           HandlePreparedFileSharing, HandleReturnSegment, IgnoreNoSuchFile, StartWriting,
           ReadMessage, HandleGetSegment, Leave
  <2> QED BY <2>1, <2>3
<1> QED BY <1>1, <1>2

\* What is on its way and what is queued stays of the one song.
LEMMA PushOK ==
    ASSUME NEW S, outbox \in [Peers -> Seq(S)],
           NEW p \in Peers, NEW m \in S, PushMessage(p, m)
    PROVE  outbox' \in [Peers -> Seq(S)]
BY ChannelOK DEF PushMessage

\* The song and the contents of queues and channels stay.
LEMMA OneSongFrame ==
    ASSUME OneSong, gtk'.file = gtk.file, fs'.total = fs.total, fs'.queue = fs.queue,
           UNCHANGED << outbox, req, resp, inbox, cf >>
    PROVE  OneSong'
BY SetsKept DEF OneSong

LEMMA OneSongNext ==
    ASSUME OneGoodTransfer, StreamInv, TypeOK', [Next]_vars
    PROVE  OneSong'
<1> USE DEF StreamInv, netVars, userVars
<1>0. TypeOK /\ OneSong /\ SharingOK(fs)
  BY DEF TypeOK
<1>1. ASSUME \/ \E f \in Files : ChangeMusic(f)
             \/ PauseMusic \/ FinishPause \/ PlayMusic
             \/ RaceOnVectors \/ NewBufferedAudio
      PROVE  OneSong'
  <2>1. gtk'.file = gtk.file
    BY <1>1 DEF ChangeMusic, PauseMusic, FinishPause, PlayMusic, RaceOnVectors,
                NewBufferedAudio, Crash, TypeOK, GtkState
  <2>2. fs'.total = fs.total /\ fs'.queue = fs.queue
    <3>1. fs' = fs \/ fs' \in {PauseWriting(fs), MustPause(fs), ResumeWriting(fs), StopMustPause(fs)}
      BY <1>1 DEF ChangeMusic, PauseMusic, FinishPause, PlayMusic,
                  RaceOnVectors, NewBufferedAudio
    <3> QED BY <1>0, <3>1, PauseKeeps
  <2>3. UNCHANGED << outbox, req, resp, inbox, cf >>
    BY <1>1 DEF ChangeMusic, PauseMusic, FinishPause, PlayMusic,
                RaceOnVectors, NewBufferedAudio
  <2> QED BY <2>1, <2>2, <2>3, OneSongFrame
<1>2. ASSUME StartFileSharing PROVE OneSong'
  <2>1. /\ gtk.file = NoFile
        /\ inbox' = << >>
        /\ \A p \in Peers : /\ outbox'[p] = << >> /\ req'[p] = << >> /\ resp'[p] = << >>
                            /\ cf'[p].file = NoFile
    BY <1>2, TransferAssumption DEF StartFileSharing, TypeOK, Untouched, Unstarted
  <2>2. fs'.total = 0 /\ fs'.queue = << >>
    BY <1>2 DEF StartFileSharing, ResetSharingFile
  <2>3. cf' \in [Peers -> SongFiles']
    BY <2>1 DEF TypeOK, SongFiles
  <2> QED BY <2>1, <2>2, <2>3 DEF OneSong, TypeOK
<1>3. ASSUME AddOwner PROVE OneSong'
  <2> DEFINE p == Head(gtk.todo)
             m == Prepare(Len(fs.queue) + 1, gtk.file)
  <2>1. p \in Peers
    BY <1>3, HeadTailProperties DEF AddOwner, TypeOK, GtkState
  <2>2. Len(fs.queue) + 1 \in Nat \ {0} /\ gtk.file \in Files
    <3>1. gtk.file \in Files
      BY <1>3 DEF AddOwner, TypeOK
    <3>2. fs.queue \in Seq(Seq(Segment))
      BY <1>0 DEF SharingOK, SharingState
    <3> QED BY <3>1, <3>2
  <2>3. m \in SenderMessages
    BY <2>2, MessageOK DEF SenderMessages, Prepare
  <2>4. outbox' \in [Peers -> Seq(SenderMessages)]
    BY <1>0, <1>3, <2>1, <2>3, PushOK DEF AddOwner, OneSong
  <2>5. fs'.queue = Append(fs.queue, << >>) /\ fs'.total = fs.total
    BY <1>0, <1>3 DEF AddOwner, NewPeer, SharingOK, SharingState
  <2>6. fs'.queue \in Seq(Seq(SongSegments))
    BY <1>0, <2>5, AppendProperties DEF OneSong
  <2>7. gtk'.file = gtk.file
    BY <1>3 DEF AddOwner, TypeOK, GtkState
  <2> QED BY <1>0, <1>3, <2>4, <2>5, <2>6, <2>7, SetsKept DEF AddOwner, OneSong
<1>4. ASSUME Tick \/ ShouldPause \/ BeginWriting \/ SkipQueue \/ EndPass \/ BeginAsking \/ EndAsking
      PROVE  OneSong'
  <2>1. gtk'.file = gtk.file /\ UNCHANGED << outbox, req, resp, inbox, cf >>
    BY <1>4 DEF Tick, ShouldPause, BeginWriting, SkipQueue, EndPass, BeginAsking, EndAsking
  <2>2. fs'.total = fs.total /\ fs'.queue = fs.queue
    BY <1>0, <1>4, PauseKeeps DEF Tick, ShouldPause, BeginWriting, SkipQueue, EndPass,
                                  BeginAsking, EndAsking
  <2> QED BY <2>1, <2>2, OneSongFrame
<1>5. ASSUME WriteSegment \/ DropSegment PROVE OneSong'
  <2>1. io.slot \in Slots(fs) /\ HasFront(fs, io.slot)
    BY <1>5 DEF WriteSegment, DropSegment, AtQueue, Writable, Droppable
  <2>2. gtk'.file = gtk.file /\ UNCHANGED << outbox, req, resp, inbox, cf >>
    BY <1>5 DEF WriteSegment, DropSegment, Crash, TypeOK, GtkState
  <2>3. fs' \in {fs, WriteFront(fs, io.slot), DropFront(fs, io.slot)}
    BY <1>5 DEF WriteSegment, DropSegment
  <2>4. fs.queue \in Seq(Seq(SongSegments))
    BY <1>0 DEF OneSong
  <2>5. fs'.total = fs.total
    BY <1>0, <2>1, <2>3, MethodsKeep
  <2>6. fs'.queue \in Seq(Seq(SongSegments))
    BY <1>0, <2>1, <2>3, <2>4, QueueKept
  <2> QED BY <1>0, <2>2, <2>5, <2>6, SetsKept DEF OneSong
<1>6. ASSUME AskIdlePeer PROVE OneSong'
  <2>1. io.slot \in Slots(fs) /\ io.slot \in Nat \ {0} /\ fs.peer[io.slot] \in Peers
    <3>1. io.slot \in Slots(fs)
      BY <1>6 DEF AskIdlePeer
    <3> QED BY <3>1, SlotHasPeer
  <2>2. fs'.total = fs.total /\ fs'.queue = fs.queue
    <3>1. LET t == TakeSegmentId(fs) IN SharingOK(t) /\ io.slot \in Slots(t)
      BY <1>0, <2>1, TakeSegmentIdOK, TakeKeeps DEF Slots
    <3> QED BY <1>0, <1>6, <2>1, <3>1, MethodsKeep, TakeKeeps DEF AskIdlePeer
  <2>3. outbox' \in [Peers -> Seq(SenderMessages)]
    <3>1. CASE outbox' = outbox
      BY <1>0, <3>1 DEF OneSong
    <3>2. CASE ~AllSegmentsAsked(fs) /\ PushMessage(fs.peer[io.slot], Get(io.slot, NextSegmentId(fs)))
      <4>1. fs.total = SongCount
        <5>1. fs.csi \in Nat \cup {-1} /\ fs.total \in Int
          BY <1>0 DEF SharingOK, SharingState
        <5>2. fs.total # 0
          BY <3>2, <5>1 DEF AllSegmentsAsked
        <5> QED BY <1>0, <5>2 DEF OneSong
      <4>2. Get(io.slot, NextSegmentId(fs)) \in SenderMessages
        BY <1>0, <2>1, <4>1, TakeSegmentIdOK, MessageOK DEF SenderMessages, Get
      <4> QED BY <1>0, <2>1, <3>2, <4>2, PushOK DEF OneSong
    <3> QED BY <1>6, <3>1, <3>2 DEF AskIdlePeer
  <2> QED BY <1>0, <1>6, <2>2, <2>3, SetsKept DEF AskIdlePeer, OneSong
<1>7. ASSUME Draining("prepared") \/ Draining("segment") \/ Draining("nofile")
      PROVE  /\ Head(inbox) \in [from : Peers, msg : ReceiverMessages]
             /\ inbox' \in Seq([from : Peers, msg : ReceiverMessages])
  BY <1>0, <1>7, HeadTailProperties DEF Draining, OneSong
<1>8. ASSUME HandlePreparedFileSharing PROVE OneSong'
  <2> DEFINE m == Head(inbox).msg
             t == SetFileInfo(fs, m.total, m.chunk, m.bytes)
  <2>1. /\ m \in Message /\ m.total = SongCount /\ m.slot \in Nat \ {0}
        /\ m.chunk \in Nat /\ m.bytes \in Int
    BY <1>7, <1>8, MessageFields DEF HandlePreparedFileSharing, Draining, ReceiverMessages
  <2>2. SharingOK(t) /\ t.total = SongCount /\ t.queue = fs.queue
    BY <1>0, <2>1, MessageFields, SetFileInfoOK, <1>8, MessageFields
       DEF SetFileInfo, SharingOK, SharingState, HandlePreparedFileSharing, Draining
  <2>3. fs'.total = SongCount /\ fs'.queue = fs.queue
    <3> HIDE DEF t
    <3> QED BY <1>8, <2>2, TakeKeeps DEF HandlePreparedFileSharing, t
  <2>4. gtk'.file = gtk.file
    BY <1>8 DEF HandlePreparedFileSharing
  <2>5. Get(m.slot, NextSegmentId(fs)) \in SenderMessages'
    BY <1>0, <2>1, <2>3, <2>4, SetsGrow, TakeSegmentIdOK, MessageOK DEF SenderMessages, Get
  <2>6. outbox \in [Peers -> Seq(SenderMessages')] /\ Head(inbox).from \in Peers
    BY <1>0, <1>7, <1>8, <2>3, <2>4, SetsGrow, SeqMono DEF OneSong, HandlePreparedFileSharing
  <2>7. outbox' \in [Peers -> Seq(SenderMessages')]
    BY <1>8, <2>5, <2>6, PushOK DEF HandlePreparedFileSharing
  <2>8. fs'.queue \in Seq(Seq(SongSegments'))
    BY <1>0, <2>3, <2>4, SetsGrow, SeqMono DEF OneSong
  <2>9. req' \in [Peers -> Seq(SenderMessages')] /\ resp' \in [Peers -> Seq(ReceiverMessages')]
    BY <1>0, <1>8, <2>3, <2>4, SetsGrow, SeqMono DEF OneSong, HandlePreparedFileSharing
  <2>10. inbox' \in Seq([from : Peers, msg : ReceiverMessages'])
    <3>1. ReceiverMessages \subseteq ReceiverMessages'
      BY <2>3, <2>4, SetsGrow
    <3>2. Seq([from : Peers, msg : ReceiverMessages])
              \subseteq Seq([from : Peers, msg : ReceiverMessages'])
      BY <3>1, InboxMono
    <3>3. inbox' \in Seq([from : Peers, msg : ReceiverMessages])
      BY <1>7, <1>8 DEF HandlePreparedFileSharing
    <3> QED BY <3>2, <3>3
  <2>11. cf' \in [Peers -> SongFiles']
    BY <1>0, <1>8, <2>3, <2>4, SetsGrow DEF OneSong, HandlePreparedFileSharing
  <2> QED BY <2>3, <2>4, <2>7, <2>8, <2>9, <2>10, <2>11, SetsGrow DEF OneSong
<1>9. ASSUME HandleReturnSegment PROVE OneSong'
  <2> DEFINE seg == Head(inbox).msg.seg
             got == PushSegment(fs, seg)
  <2>1. seg \in SongSegments /\ seg \in Segment /\ Head(inbox).from \in Peers
    BY <1>7, <1>9 DEF HandleReturnSegment, Draining, ReceiverMessages, SongSegments
  <2>2. /\ SharingOK(got) /\ got.total = fs.total
        /\ got.queue \in Seq(Seq(SongSegments))
    BY <1>0, <2>1, PushSegmentOK, PushKeeps, QueueKept DEF OneSong
  <2>3. fs'.total = fs.total /\ fs'.queue \in Seq(Seq(SongSegments))
    <3>1. fs' = got \/ fs' = TakeSegmentId(got)
      BY <1>9 DEF HandleReturnSegment
    <3> HIDE DEF got
    <3> QED BY <2>2, <3>1, TakeKeeps
  <2>4. Get(seg.slot, NextSegmentId(got)) \in SenderMessages
    <3>1. seg.slot \in Nat \ {0} /\ fs.total = SongCount
      BY <2>1 DEF Segment, SongSegments
    <3> HIDE DEF got, seg
    <3> QED BY <2>2, <3>1, TakeSegmentIdOK, MessageOK DEF SenderMessages, Get
  <2>5. outbox' \in [Peers -> Seq(SenderMessages)]
    BY <1>0, <1>9, <2>1, <2>4, PushOK DEF HandleReturnSegment, OneSong
  <2> QED BY <1>0, <1>7, <1>9, <2>3, <2>5, SetsKept DEF HandleReturnSegment, OneSong
<1>10. ASSUME IgnoreNoSuchFile PROVE OneSong'
  BY <1>0, <1>7, <1>10, SetsKept DEF IgnoreNoSuchFile, OneSong
<1>11. ASSUME StartWriting PROVE OneSong'
  <2>1. \A p \in Peers : req[p] \o outbox[p] \in Seq(SenderMessages)
    BY <1>0, ConcatProperties DEF OneSong
  <2>2. req' \in [Peers -> Seq(SenderMessages)] /\ outbox' \in [Peers -> Seq(SenderMessages)]
    BY <1>11, <2>1 DEF StartWriting
  <2> QED BY <1>0, <1>11, <2>2, SetsKept DEF StartWriting, OneSong
<1>12. ASSUME NEW p \in Peers, ReadMessage(p) PROVE OneSong'
  <2>1. /\ Head(resp[p]) \in ReceiverMessages
        /\ resp' \in [Peers -> Seq(ReceiverMessages)]
    BY <1>0, <1>12, ChannelOK DEF ReadMessage, OneSong
  <2>2. inbox' \in Seq([from : Peers, msg : ReceiverMessages])
    BY <1>0, <1>12, <2>1, AppendProperties DEF ReadMessage, OneSong
  <2> QED BY <1>0, <1>12, <2>1, <2>2, SetsKept DEF ReadMessage, OneSong
<1>13. ASSUME NEW p \in Peers, SenderStep(p)
       PROVE  /\ Head(req[p]) \in SenderMessages /\ Head(req[p]) \in Message
              /\ req' \in [Peers -> Seq(SenderMessages)]
  <2>1. req[p] # << >> /\ req' = [req EXCEPT ![p] = Tail(@)]
    BY <1>13 DEF SenderStep, HandlePrepareFileSharing, HandleGetSegment, Received
  <2>2. req \in [Peers -> Seq(SenderMessages)]
    BY <1>0 DEF OneSong
  <2>3. Head(req[p]) \in SenderMessages /\ req' \in [Peers -> Seq(SenderMessages)]
    BY <2>1, <2>2, ChannelOK
  <2> QED BY <2>3 DEF SenderMessages
<1>14. ASSUME NEW p \in Peers, NEW m \in ReceiverMessages, Answer(p, m)
       PROVE  resp' \in [Peers -> Seq(ReceiverMessages)]
  BY <1>0, <1>14, ChannelOK DEF OneSong, Answer
<1>15. ASSUME NEW p \in Peers, HandlePrepareFileSharing(p) PROVE OneSong'
  <2> DEFINE m == Head(req[p])
             opened == OpenAt(p, m.file)
  <2>1. /\ m \in Message /\ m.slot \in Nat \ {0} /\ m.file = gtk.file /\ m.file \in Files
        /\ req' \in [Peers -> Seq(SenderMessages)]
    BY <1>13, <1>15, MessageFields
       DEF SenderStep, HandlePrepareFileSharing, Received, SenderMessages
  <2>2. CASE m.file \notin Holds[p]
    <3>1. NoSuchFile(m.slot) \in ReceiverMessages
      BY <2>1, MessageOK DEF ReceiverMessages, NoSuchFile
    <3> QED BY <1>0, <1>14, <1>15, <2>1, <2>2, <3>1, SetsKept DEF HandlePrepareFileSharing, OneSong
  <2>3. CASE m.file \in Holds[p]
    <3>1. /\ opened = [file |-> m.file, size |-> FileSize[m.file], chunk |-> Chunk,
                       total |-> SongCount, failed |-> FALSE]
      <4>1. cf[p] \in ChunkState(Contents)
        BY <1>0 DEF TypeOK
      <4>2. opened = [file |-> m.file, size |-> FileSize[m.file], chunk |-> Chunk,
                      total |-> SegmentCount(m.file), failed |-> FALSE] /\ m.file # NoFile
        BY <2>1, <4>1, OpenAtGood
      <4>3. SongCount = SegmentCount(m.file)
        BY <2>1, <4>2 DEF SongCount
      <4> HIDE DEF m, opened
      <4> QED BY <4>2, <4>3
    <3>2. opened \in ChunkState(Contents)
      BY <1>0, <2>1, OpenAtOK DEF TypeOK
    <3>3. opened \in SongFiles /\ opened.total = SongCount /\ opened.chunk = Chunk
      BY <2>1, <3>1, <3>2 DEF SongFiles
    <3>4. Prepared(m.slot, opened) \in ReceiverMessages
      BY <2>1, <3>2, <3>3, MessageOK DEF ReceiverMessages, Prepared
    <3>5. cf' = [cf EXCEPT ![p] = opened] /\ cf'[p] = opened
      BY <1>0, <1>15, <2>3 DEF HandlePrepareFileSharing, TypeOK
    <3>6. Answer(p, Prepared(m.slot, opened))
      BY <1>15, <2>3, <3>5 DEF HandlePrepareFileSharing
    <3> HIDE DEF opened
    <3>7. cf' \in [Peers -> SongFiles] /\ resp' \in [Peers -> Seq(ReceiverMessages)]
      BY <1>0, <1>14, <3>3, <3>4, <3>5, <3>6 DEF OneSong
    <3> QED BY <1>0, <1>15, <2>1, <3>7, SetsKept DEF HandlePrepareFileSharing, OneSong
  <2> QED BY <2>2, <2>3
<1>16. ASSUME NEW p \in Peers, HandleGetSegment(p) PROVE OneSong'
  <2> DEFINE m == Head(req[p])
  <2>1. /\ m \in Message /\ m.slot \in Nat \ {0} /\ m.id \in Nat /\ fs.total = SongCount
        /\ req' \in [Peers -> Seq(SenderMessages)]
    BY <1>13, <1>16, MessageFields DEF SenderStep, HandleGetSegment, Received, SenderMessages
  <2>2. CASE ~CanGet(cf[p], m.id)
    BY <1>0, <1>16, <2>1, <2>2, SetsKept DEF HandleGetSegment, OneSong
  <2>3. CASE CanGet(cf[p], m.id)
    <3>1. cf[p].file # NoFile
      BY <1>16 DEF HandleGetSegment, Received, PreparedFirst, NotPrepared
    <3>11. cf[p] \in SongFiles
      BY <1>0 DEF OneSong
    <3>12. cf[p].file = gtk.file /\ m.id < SongCount
      BY <2>3, <3>1, <3>11 DEF SongFiles, CanGet
    <3>2. Return(m.slot, m.id, cf[p].file) \in ReceiverMessages
      <4> DEFINE seg == [id |-> m.id, slot |-> m.slot, file |-> cf[p].file]
      <4>1. cf[p].file \in Contents
        BY <1>0 DEF TypeOK, ChunkState
      <4>2. Return(m.slot, m.id, cf[p].file) \in Message
        BY <2>1, <4>1, MessageOK
      <4>3. seg \in SongSegments
        BY <2>1, <3>12, <4>1 DEF SongSegments, Segment
      <4> HIDE DEF m
      <4> QED BY <4>2, <4>3 DEF ReceiverMessages, Return
    <3> QED BY <1>0, <1>14, <1>16, <2>1, <2>3, <3>2, SetsKept DEF HandleGetSegment, OneSong
  <2> QED BY <2>2, <2>3
<1>17. ASSUME NEW p \in Peers, NEW f \in Files, HandleOtherPrepare(p, f) PROVE OneSong'
  BY <1>0, <1>17 DEF HandleOtherPrepare, OneGoodTransfer, TypeOK, Counts
<1>18. ASSUME NEW p \in Peers, Leave(p) PROVE OneSong'
  BY <1>0, <1>18, ChannelOK, SetsKept DEF Leave, OneSong
<1>19. CASE UNCHANGED vars
  BY <1>19, OneSongFrame DEF vars
<1> QED BY <1>1, <1>2, <1>3, <1>4, <1>5, <1>6, <1>8, <1>9, <1>10, <1>11,
           <1>12, <1>15, <1>16, <1>17, <1>18, <1>19
        DEF Next, UserStep, GtkStep, HookStep, DrainStep, SenderStep, OtherStep

\* What a step leaves alone for a peer that has not opened the song.
LEMMA NotPreparedFrame ==
    ASSUME PreparedFirst, fs'.queue = fs.queue \/ Len(fs'.queue) = Len(fs.queue), fs'.peer = fs.peer,
           UNCHANGED << outbox, req, resp, inbox, cf, gone >>
    PROVE  PreparedFirst'
<1>1. Slots(fs') = Slots(fs)
  BY DEF Slots
<1> QED BY <1>1 DEF PreparedFirst, NotPrepared

\* What is first in a sequence that grows at its end.
LEMMA HeadOfLonger ==
    ASSUME NEW S, NEW s \in Seq(S)
    PROVE  /\ \A e \in S : /\ Append(s, e) # << >>
                          /\ Head(Append(s, e)) = IF s = << >> THEN e ELSE Head(s)
           /\ \A t \in Seq(S) :
                 /\ s # << >> => s \o t # << >> /\ Head(s \o t) = Head(s)
                 /\ s = << >> => s \o t = t
<1>1. Len(s) \in Nat /\ (s # << >> => Len(s) # 0) /\ (s # << >> => Head(s) = s[1])
  BY EmptySeq, LenProperties
<1>2. ASSUME NEW e \in S
      PROVE  /\ Append(s, e) # << >>
             /\ Head(Append(s, e)) = IF s = << >> THEN e ELSE Head(s)
  <2>1. Len(Append(s, e)) = Len(s) + 1 /\ Append(s, e) \in Seq(S)
    BY AppendProperties
  <2>2. Append(s, e) # << >> /\ Head(Append(s, e)) = Append(s, e)[1]
    BY <1>1, <2>1
  <2>3. CASE s = << >>
    BY <2>2, <2>3, AppendProperties
  <2>4. CASE s # << >>
    BY <1>1, <2>2, <2>4, AppendProperties
  <2> QED BY <2>2, <2>3, <2>4
<1>3. ASSUME NEW t \in Seq(S), s # << >>
      PROVE  s \o t # << >> /\ Head(s \o t) = Head(s)
  <2>1. Len(t) \in Nat /\ s \o t \in Seq(S) /\ Len(s \o t) = Len(s) + Len(t)
        /\ (s \o t)[1] = s[1]
    BY <1>1, <1>3, ConcatProperties, LenProperties
  <2>2. s \o t # << >>
    BY <1>1, <1>3, <2>1, EmptySeq
  <2> QED BY <1>1, <1>3, <2>1, <2>2
<1>4. ASSUME NEW t \in Seq(S), s = << >> PROVE s \o t = t
  BY <1>4, ConcatEmptySeq
<1> QED BY <1>2, <1>3, <1>4

LEMMA PreparedFirstNext ==
    ASSUME OneGoodTransfer, StreamInv, TypeOK', [Next]_vars
    PROVE  PreparedFirst'
<1> USE DEF StreamInv, netVars, userVars
<1>0. TypeOK /\ PreparedFirst /\ SharingOK(fs)
  BY DEF TypeOK
<1>1. ASSUME \/ \E f \in Files : ChangeMusic(f)
             \/ PauseMusic \/ FinishPause \/ PlayMusic
             \/ RaceOnVectors \/ NewBufferedAudio
             \/ Tick \/ ShouldPause \/ BeginWriting \/ SkipQueue \/ EndPass
             \/ BeginAsking \/ EndAsking
      PROVE  PreparedFirst'
  <2>1. fs' = fs \/ fs' \in {PauseWriting(fs), MustPause(fs), ResumeWriting(fs), StopMustPause(fs)}
    BY <1>1 DEF ChangeMusic, PauseMusic, FinishPause, PlayMusic, RaceOnVectors, NewBufferedAudio,
                Tick, ShouldPause, BeginWriting, SkipQueue, EndPass, BeginAsking, EndAsking
  <2>2. fs'.peer = fs.peer /\ fs'.queue = fs.queue
    BY <1>0, <2>1, PauseKeeps
  <2>3. UNCHANGED << outbox, req, resp, inbox, cf, gone >>
    BY <1>1 DEF ChangeMusic, PauseMusic, FinishPause, PlayMusic, RaceOnVectors, NewBufferedAudio,
                Tick, ShouldPause, BeginWriting, SkipQueue, EndPass, BeginAsking, EndAsking
  <2> QED BY <1>0, <2>2, <2>3, NotPreparedFrame
<1>2. ASSUME StartFileSharing PROVE PreparedFirst'
  <2>1. Slots(fs') = {}
    BY <1>2 DEF StartFileSharing, ResetSharingFile, Slots
  <2>2. gtk.file = NoFile
    BY <1>2, TransferAssumption DEF StartFileSharing, TypeOK, Untouched, Unstarted
  <2>3. /\ inbox' = << >>
        /\ \A p \in Peers : outbox'[p] = << >> /\ req'[p] = << >> /\ resp'[p] = << >>
    BY <1>2, <2>2 DEF StartFileSharing, Untouched, Unstarted
  <2> QED BY <1>0, <1>2, <2>1, <2>3 DEF StartFileSharing, PreparedFirst, NotPrepared
<1>3. ASSUME AddOwner PROVE PreparedFirst'
  <2> DEFINE p == Head(gtk.todo)
             m == Prepare(Len(fs.queue) + 1, gtk.file)
  <2>1. p \in Peers
    BY <1>3, HeadTailProperties DEF AddOwner, TypeOK, GtkState
  <2>2. /\ fs'.peer = Append(fs.peer, p) /\ Len(fs'.queue) = Len(fs.queue) + 1
        /\ fs.peer \in Seq(Peers) /\ Len(fs.peer) = Len(fs.queue) /\ Len(fs.queue) \in Nat
    <3>1. fs' = NewPeer(fs, p) /\ fs \in SharingState /\ Len(fs.peer) = Len(fs.queue)
      BY <1>0, <1>3 DEF AddOwner, SharingOK, Aligned
    <3>2. fs'.queue = Append(fs.queue, << >>) /\ fs'.peer = Append(fs.peer, p)
      BY <3>1 DEF NewPeer, SharingState
    <3> QED BY <3>1, <3>2 DEF SharingState
  <2>3. \A i \in Slots(fs') : IF i \in Slots(fs) THEN fs'.peer[i] = fs.peer[i] ELSE fs'.peer[i] = p
    <3> HIDE DEF p
    <3> QED BY <2>2 DEF Slots
  <2>4. m.type = "prepare"
    BY DEF Prepare
  <2>5. /\ outbox'[p] = Append(outbox[p], m) /\ outbox[p] \in Seq(Message)
        /\ \A q \in Peers \ {p} : outbox'[q] = outbox[q]
    BY <1>3, <2>1 DEF AddOwner, PushMessage, TypeOK
  <2>6. outbox'[p] # << >> /\ Head(outbox'[p]) = IF outbox[p] = << >> THEN m ELSE Head(outbox[p])
    <3>1. m \in Message
      <4>1. gtk.file \in Files
        BY <1>3 DEF AddOwner, TypeOK
      <4> QED BY <2>2, <4>1, MessageOK
    <3> HIDE DEF m, p
    <3> QED BY <2>5, <3>1, HeadOfLonger
  <2>7. UNCHANGED << req, resp, inbox, cf, gone >>
    BY <1>3 DEF AddOwner
  <2> HIDE DEF p, m
  <2>8. ASSUME NEW q \in Peers \ gone, NotPrepared(q) PROVE NotPrepared(q)'
    <3>1. CASE q = p
      BY <2>4, <2>6, <2>7, <2>8, <3>1 DEF NotPrepared
    <3>2. CASE q # p
      BY <2>3, <2>5, <2>7, <2>8, <3>2 DEF NotPrepared
    <3> QED BY <3>1, <3>2
  <2> QED BY <1>0, <2>7, <2>8 DEF PreparedFirst
<1>4. ASSUME WriteSegment \/ DropSegment PROVE PreparedFirst'
  <2>1. io.slot \in Slots(fs) /\ HasFront(fs, io.slot)
    BY <1>4 DEF WriteSegment, DropSegment, AtQueue, Writable, Droppable
  <2>2. fs' \in {fs, WriteFront(fs, io.slot), DropFront(fs, io.slot)}
    BY <1>4 DEF WriteSegment, DropSegment
  <2>3. fs'.peer = fs.peer
    BY <1>0, <2>1, <2>2, MethodsKeep
  <2>4. Len(fs'.queue) = Len(fs.queue)
    <3>1. SharingOK(fs')
      BY DEF TypeOK
    <3> QED BY <1>0, <2>3, <3>1 DEF SharingOK, Aligned
  <2>5. UNCHANGED << outbox, req, resp, inbox, cf, gone >>
    BY <1>4 DEF WriteSegment, DropSegment
  <2> QED BY <1>0, <2>3, <2>4, <2>5, NotPreparedFrame
\* A message to a peer that has opened the song, or has something to read first.
<1>5. ASSUME NEW p \in Peers, NEW m \in Message, PushMessage(p, m), ~NotPrepared(p) \/ outbox[p] # << >> \/ req[p] # << >>,
             fs'.peer = fs.peer, Len(fs'.queue) = Len(fs.queue),
             UNCHANGED << req, resp, cf, gone >>,
             \A q \in Peers : (\A k \in DOMAIN inbox : inbox[k].from # q)
                                 => \A k \in DOMAIN inbox' : inbox'[k].from # q
      PROVE  PreparedFirst'
  <2>1. Slots(fs') = Slots(fs)
    BY <1>5 DEF Slots
  <2>2. /\ outbox'[p] = Append(outbox[p], m) /\ outbox[p] \in Seq(Message)
        /\ \A q \in Peers \ {p} : outbox'[q] = outbox[q]
    BY <1>5 DEF PushMessage, TypeOK
  <2>3. outbox'[p] # << >> /\ (outbox[p] # << >> => Head(outbox'[p]) = Head(outbox[p]))
    BY <2>2, HeadOfLonger
  <2>4. ASSUME NEW q \in Peers \ gone, NotPrepared(q) PROVE NotPrepared(q)'
    <3>1. CASE q = p
      BY <1>5, <2>3, <2>4, <3>1 DEF NotPrepared
    <3>2. CASE q # p
      BY <1>5, <2>1, <2>2, <2>4, <3>2 DEF NotPrepared
    <3> QED BY <3>1, <3>2
  <2> QED BY <1>0, <1>5, <2>4 DEF PreparedFirst
<1>6. ASSUME AskIdlePeer PROVE PreparedFirst'
  <2>1. io.slot \in Slots(fs) /\ io.slot \in Nat \ {0} /\ fs.peer[io.slot] \in Peers
    <3>1. io.slot \in Slots(fs)
      BY <1>6 DEF AskIdlePeer
    <3> QED BY <3>1, SlotHasPeer
  <2>2. fs'.peer = fs.peer /\ fs'.queue = fs.queue
    <3>1. LET t == TakeSegmentId(fs) IN SharingOK(t) /\ io.slot \in Slots(t)
      BY <1>0, <2>1, TakeSegmentIdOK, TakeKeeps DEF Slots
    <3> QED BY <1>0, <1>6, <2>1, <3>1, MethodsKeep, TakeKeeps DEF AskIdlePeer
  <2>3. UNCHANGED << req, resp, cf, gone, inbox >>
    BY <1>6 DEF AskIdlePeer
  <2>4. CASE outbox' = outbox
    BY <1>0, <2>2, <2>3, <2>4, NotPreparedFrame
  <2>5. CASE PushMessage(fs.peer[io.slot], Get(io.slot, NextSegmentId(fs)))
    <3>1. Get(io.slot, NextSegmentId(fs)) \in Message
      BY <1>0, <2>1, TakeSegmentIdOK, MessageOK
    <3>2. LET p == fs.peer[io.slot] IN ~NotPrepared(p) \/ outbox[p] # << >> \/ req[p] # << >>
      BY <2>1 DEF NotPrepared
    <3> QED BY <1>5, <2>1, <2>2, <2>3, <2>5, <3>1, <3>2
  <2> QED BY <1>6, <2>4, <2>5 DEF AskIdlePeer
<1>7. ASSUME Draining("prepared") \/ Draining("segment") \/ Draining("nofile")
      PROVE  /\ Head(inbox) \in [from : Peers, msg : Message]
             /\ ~NotPrepared(Head(inbox).from)
             /\ \A q \in Peers : (\A k \in DOMAIN inbox : inbox[k].from # q)
                                 => \A k \in DOMAIN inbox' : inbox'[k].from # q
  <2>1. inbox # << >> /\ inbox' = Tail(inbox) /\ inbox \in Seq([from : Peers, msg : Message])
    BY <1>7 DEF Draining, TypeOK
  <2>2. Head(inbox) = inbox[1] /\ 1 \in DOMAIN inbox
    BY <2>1
  <2>3. \A k \in DOMAIN inbox' : k + 1 \in DOMAIN inbox /\ inbox'[k] = inbox[k + 1]
    BY <2>1
  <2> QED BY <2>1, <2>2, <2>3, HeadTailProperties DEF NotPrepared
<1>8. ASSUME HandlePreparedFileSharing PROVE PreparedFirst'
  <2> DEFINE m == Head(inbox).msg
             t == SetFileInfo(fs, m.total, m.chunk, m.bytes)
  <2>1. /\ m \in Message /\ m.total \in Int /\ m.slot \in Nat \ {0}
        /\ m.chunk \in Nat /\ m.bytes \in Int
    BY <1>7, <1>8, MessageFields DEF HandlePreparedFileSharing, Draining
  <2>2. SharingOK(t) /\ t.peer = fs.peer /\ t.queue = fs.queue
    <3>1. fs \in SharingState
      BY <1>0 DEF SharingOK
    <3>2. t.peer = fs.peer /\ t.queue = fs.queue
      BY <3>1 DEF SetFileInfo, SharingState
    <3> QED BY <1>0, <2>1, <3>2, SetFileInfoOK
  <2>3. fs'.peer = fs.peer /\ fs'.queue = fs.queue
    <3> HIDE DEF t
    <3> QED BY <1>8, <2>2, TakeKeeps DEF HandlePreparedFileSharing, t
  <2>4. Get(m.slot, NextSegmentId(fs)) \in Message
    BY <1>0, <2>1, TakeSegmentIdOK, MessageOK
  <2>5. Head(inbox).from \in Peers /\ ~NotPrepared(Head(inbox).from)
    BY <1>7, <1>8 DEF HandlePreparedFileSharing
  <2>6. /\ PushMessage(Head(inbox).from, Get(m.slot, NextSegmentId(fs)))
        /\ UNCHANGED << req, resp, cf, gone >>
    BY <1>8 DEF HandlePreparedFileSharing
  <2>7. \A q \in Peers : (\A k \in DOMAIN inbox : inbox[k].from # q)
                                 => \A k \in DOMAIN inbox' : inbox'[k].from # q
    BY <1>7, <1>8 DEF HandlePreparedFileSharing
  <2> HIDE DEF m
  <2> QED BY <1>5, <2>3, <2>4, <2>5, <2>6, <2>7
<1>9. ASSUME HandleReturnSegment PROVE PreparedFirst'
  <2> DEFINE seg == Head(inbox).msg.seg
             got == PushSegment(fs, seg)
  <2>1. seg \in Segment /\ Head(inbox).from \in Peers /\ ~NotPrepared(Head(inbox).from)
    BY <1>7, <1>9, MessageFields DEF HandleReturnSegment, Draining
  <2>2. SharingOK(got) /\ got.peer = fs.peer /\ Len(got.queue) = Len(fs.queue)
    BY <1>0, <2>1, PushSegmentOK, PushKeeps
  <2>3. fs'.peer = fs.peer /\ Len(fs'.queue) = Len(fs.queue)
    <3>1. fs' = got \/ fs' = TakeSegmentId(got)
      BY <1>9 DEF HandleReturnSegment
    <3> HIDE DEF got
    <3> QED BY <2>2, <3>1, TakeKeeps
  <2>4. Get(seg.slot, NextSegmentId(got)) \in Message
    <3>1. seg.slot \in Nat \ {0}
      BY <2>1 DEF Segment
    <3> HIDE DEF got, seg
    <3> QED BY <2>2, <3>1, TakeSegmentIdOK, MessageOK
  <2>5. UNCHANGED << req, resp, cf, gone >>
    BY <1>9 DEF HandleReturnSegment
  <2>6. \A q \in Peers : (\A k \in DOMAIN inbox : inbox[k].from # q)
                                 => \A k \in DOMAIN inbox' : inbox'[k].from # q
    BY <1>7, <1>9 DEF HandleReturnSegment
  <2>7. outbox' = outbox \/ PushMessage(Head(inbox).from, Get(seg.slot, NextSegmentId(got)))
    BY <1>9 DEF HandleReturnSegment
  <2>8. CASE outbox' = outbox
    <3>1. Slots(fs') = Slots(fs)
      BY <2>3 DEF Slots
    <3> QED BY <1>0, <2>3, <2>5, <2>6, <2>8, <3>1 DEF PreparedFirst, NotPrepared
  <2> HIDE DEF seg, got
  <2> QED BY <1>5, <2>1, <2>3, <2>4, <2>5, <2>6, <2>7, <2>8
<1>10. ASSUME IgnoreNoSuchFile PROVE PreparedFirst'
  <2>1. \A q \in Peers : (\A k \in DOMAIN inbox : inbox[k].from # q)
                                 => \A k \in DOMAIN inbox' : inbox'[k].from # q
    BY <1>7, <1>10 DEF IgnoreNoSuchFile
  <2> QED BY <1>0, <1>10, <2>1 DEF IgnoreNoSuchFile, PreparedFirst, NotPrepared
<1>11. ASSUME StartWriting PROVE PreparedFirst'
  <2>1. /\ \A p \in Peers : outbox'[p] = << >>
        /\ \A p \in Peers : req'[p] = IF p \in gone THEN << >> ELSE req[p] \o outbox[p]
        /\ UNCHANGED << fs, resp, inbox, cf, gone >>
    BY <1>11 DEF StartWriting
  <2>2. ASSUME NEW q \in Peers \ gone, NotPrepared(q) PROVE NotPrepared(q)'
    <3>1. req[q] \in Seq(Message) /\ outbox[q] \in Seq(Message)
      BY <1>0 DEF TypeOK
    <3>2. /\ req[q] # << >> => req'[q] # << >> /\ Head(req'[q]) = Head(req[q])
          /\ req[q] = << >> => req'[q] = outbox[q]
      <4>1. req'[q] = req[q] \o outbox[q]
        BY <2>1, <2>2
      <4>2. req[q] # << >> => req[q] \o outbox[q] # << >> /\ Head(req[q] \o outbox[q]) = Head(req[q])
        BY <3>1, HeadOfLonger
      <4>3. req[q] = << >> => req[q] \o outbox[q] = outbox[q]
        BY <3>1, HeadOfLonger
      <4> QED BY <4>1, <4>2, <4>3
    <3> QED BY <2>1, <2>2, <3>2 DEF NotPrepared
  <2>3. \A q \in gone : req'[q] = << >>
    BY <1>0, <2>1, TransferAssumption DEF TypeOK
  <2> QED BY <1>0, <2>1, <2>2, <2>3 DEF PreparedFirst
<1>12. ASSUME NEW p \in Peers, ReadMessage(p) PROVE PreparedFirst'
  <2>1. ~NotPrepared(p)
    BY <1>12 DEF ReadMessage, NotPrepared
  <2> DEFINE e == [from |-> p, msg |-> Head(resp[p])]
  <2>2. /\ inbox' = Append(inbox, e) /\ inbox \in Seq([from : Peers, msg : Message])
        /\ e.from = p
    BY <1>12 DEF ReadMessage, TypeOK
  <2>3. ASSUME NEW q \in Peers, q # p, \A k \in DOMAIN inbox : inbox[k].from # q
        PROVE  \A k \in DOMAIN inbox' : inbox'[k].from # q
    <3> HIDE DEF e
    <3>1. \A k \in DOMAIN inbox' : (k \in DOMAIN inbox /\ inbox'[k] = inbox[k]) \/ inbox'[k] = e
      BY <2>2
    <3> QED BY <2>2, <2>3, <3>1
  <2>4. ASSUME NEW q \in Peers \ gone, NotPrepared(q) PROVE NotPrepared(q)'
    <3>1. q # p
      BY <2>1, <2>4
    <3> QED BY <1>0, <1>12, <2>3, <2>4, <3>1 DEF ReadMessage, NotPrepared, TypeOK
  <2> QED BY <1>0, <1>12, <2>4 DEF ReadMessage, PreparedFirst
<1>13. ASSUME NEW p \in Peers, SenderStep(p) PROVE PreparedFirst'
  <2>1. req[p] # << >> /\ req' = [req EXCEPT ![p] = Tail(@)] /\ UNCHANGED << fs, outbox, inbox, gone >>
    BY <1>13 DEF SenderStep, HandlePrepareFileSharing, HandleGetSegment, Received
  <2>2. /\ \A q \in Peers \ {p} : req'[q] = req[q] /\ resp'[q] = resp[q] /\ cf'[q] = cf[q]
    BY <1>13, <2>1 DEF SenderStep, HandlePrepareFileSharing, HandleGetSegment, Answer, TypeOK
  <2>3. p \notin gone
    BY <1>0, <2>1 DEF PreparedFirst
  <2>4. cf'[p].file # NoFile
    <3>1. CASE HandleGetSegment(p)
      BY <1>0, <2>3, <3>1 DEF HandleGetSegment, Received, PreparedFirst, NotPrepared
    <3>2. CASE HandlePrepareFileSharing(p)
      <4> DEFINE f == Head(req[p]).file
      <4>1. Head(req[p]) \in Message /\ f \in Files
        BY <3>2, ChannelOK, MessageFields DEF HandlePrepareFileSharing, Received, TypeOK
      <4>2. cf'[p] = OpenAt(p, f)
        BY <3>2, <4>1 DEF HandlePrepareFileSharing, TypeOK, OneGoodTransfer
      <4>3. cf[p] \in ChunkState(Contents)
        BY DEF TypeOK
      <4>4. OpenAt(p, f) = [file |-> f, size |-> FileSize[f], chunk |-> Chunk,
                            total |-> SegmentCount(f), failed |-> FALSE] /\ f # NoFile
        BY <4>1, <4>3, OpenAtGood
      <4> HIDE DEF f
      <4> QED BY <4>2, <4>4
    <3> QED BY <1>13, <3>1, <3>2 DEF SenderStep
  <2>5. ASSUME NEW q \in Peers \ gone, q # p, NotPrepared(q) PROVE NotPrepared(q)'
    BY <2>1, <2>2, <2>5 DEF NotPrepared
  <2>6. gone \subseteq Peers
    BY <1>0, TransferAssumption DEF TypeOK
  <2> QED BY <1>0, <2>1, <2>2, <2>3, <2>4, <2>5, <2>6 DEF PreparedFirst
<1>14. ASSUME NEW p \in Peers, NEW f \in Files, HandleOtherPrepare(p, f) PROVE PreparedFirst'
  BY <1>0, <1>14 DEF HandleOtherPrepare, OneGoodTransfer, TypeOK, Counts
<1>15. ASSUME NEW p \in Peers, Leave(p) PROVE PreparedFirst'
  <2>1. /\ req'[p] = << >> /\ gone' = gone \cup {p} /\ UNCHANGED << fs, outbox, inbox, cf >>
        /\ \A q \in Peers \ {p} : req'[q] = req[q] /\ resp'[q] = resp[q]
    BY <1>15 DEF Leave, TypeOK
  <2>2. ASSUME NEW q \in Peers \ gone', NotPrepared(q) PROVE NotPrepared(q)'
    BY <2>1, <2>2 DEF NotPrepared
  <2>3. gone \subseteq Peers
    BY <1>0, TransferAssumption DEF TypeOK
  <2> QED BY <1>0, <2>1, <2>2, <2>3 DEF PreparedFirst
<1>16. CASE UNCHANGED vars
  BY <1>0, <1>16, NotPreparedFrame DEF vars
<1> QED BY <1>1, <1>2, <1>3, <1>4, <1>6, <1>8, <1>9, <1>10, <1>11,
           <1>12, <1>13, <1>14, <1>15, <1>16
        DEF Next, UserStep, GtkStep, HookStep, DrainStep, OtherStep

---------------------------------------------------------------------------
(* The player is given a prefix of the song. *)

LEMMA SongCountOK == TypeOK => SongCount \in Nat
BY TransferAssumption, CeilDivOK DEF TypeOK, GtkState, Contents, SongCount, SegmentCount

\* One more segment after the first n of a file.
LEMMA PrefixGrows ==
    ASSUME NEW n \in Nat, NEW f, NEW d,
           d = [k \in 1..n |-> [id |-> k - 1, file |-> f]]
    PROVE  Append(d, [id |-> n, file |-> f])
              = [k \in 1..(n + 1) |-> [id |-> k - 1, file |-> f]]
OBVIOUS

\* What a step does that writes the next segment.
LEMMA WriteSegmentWrites ==
    ASSUME StreamInv, WriteSegment, stream.file # NoFile
    PROVE  /\ fs.cwi < fs.total /\ stream.file = gtk.file /\ stream.eos = 0
           /\ fs'.cwi = fs.cwi + 1 /\ fs'.total = fs.total
           /\ stream'.file = stream.file
           /\ stream'.data = Append(stream.data, [id |-> fs.cwi, file |-> stream.file])
           /\ stream'.eos = IF fs'.cwi = fs.total THEN 1 ELSE 0
<1>1. /\ io.slot \in Slots(fs) /\ HasFront(fs, io.slot) /\ SharingOK(fs)
      /\ Front(fs, io.slot).id = fs.cwi
  BY DEF WriteSegment, AtQueue, Writable, StreamInv, TypeOK
<1>2. Front(fs, io.slot) \in SongSegments
  <2>1. fs.queue \in Seq(Seq(SongSegments))
    BY DEF StreamInv, OneSong
  <2> QED BY <1>1, <2>1, QueueKept
<1>3. fs.cwi < SongCount /\ fs.total = SongCount /\ Front(fs, io.slot).file = gtk.file
  BY <1>1, <1>2 DEF SongSegments
<1>4. stream.file = gtk.file
  BY DEF StreamInv, StreamIsPrefix
<1>5. fs.cwi \in Nat /\ fs.total \in Nat
  BY <1>1, <1>3, SongCountOK DEF StreamInv, SharingOK, SharingState
<1>6. stream.eos = 0
  BY <1>3, <1>5 DEF StreamInv, StreamIsPrefix
<1>7. fs' = WriteFront(fs, io.slot)
  BY DEF WriteSegment
<1>8. fs'.cwi = fs.cwi + 1 /\ fs'.total = fs.total
  BY <1>1, <1>7, MethodsKeep
<1>9. IsEnd(fs) <=> fs'.cwi = fs.total
  BY <1>3, <1>5, <1>8 DEF IsEnd
<1>10. /\ stream'.file = stream.file
       /\ stream'.data = Append(stream.data, [id |-> fs.cwi, file |-> stream.file])
       /\ stream'.eos = IF IsEnd(fs) THEN stream.eos + 1 ELSE stream.eos
  <2> DEFINE byte == [id |-> Front(fs, io.slot).id, file |-> Front(fs, io.slot).file]
  <2>1. byte = [id |-> fs.cwi, file |-> stream.file]
    BY <1>1, <1>3, <1>4
  <2>2. stream' = [stream EXCEPT !.data = Append(@, byte),
                                 !.eos  = IF IsEnd(fs) THEN @ + 1 ELSE @]
    BY DEF WriteSegment
  <2>3. stream \in StreamState
    BY DEF StreamInv, TypeOK
  <2> HIDE DEF byte
  <2>4. /\ stream'.file = stream.file /\ stream'.data = Append(stream.data, byte)
        /\ stream'.eos = IF IsEnd(fs) THEN stream.eos + 1 ELSE stream.eos
    BY <2>2, <2>3 DEF StreamState
  <2> QED BY <2>1, <2>4
<1> QED BY <1>3, <1>4, <1>5, <1>6, <1>8, <1>9, <1>10

LEMMA StreamFrame ==
    ASSUME StreamIsPrefix, fs'.cwi = fs.cwi, fs'.total = fs.total,
           stream' = stream, gtk'.file = gtk.file
    PROVE  StreamIsPrefix'
BY DEF StreamIsPrefix

LEMMA StreamIsPrefixNext ==
    ASSUME OneGoodTransfer, StreamInv, TypeOK', [Next]_vars
    PROVE  StreamIsPrefix'
<1> USE DEF StreamInv, netVars, userVars
<1>0. TypeOK /\ StreamIsPrefix /\ SharingOK(fs)
  BY DEF TypeOK
<1>1. ASSUME \/ \E f \in Files : ChangeMusic(f)
             \/ PauseMusic \/ FinishPause \/ PlayMusic \/ RaceOnVectors
             \/ Tick \/ ShouldPause \/ BeginWriting \/ SkipQueue \/ EndPass
             \/ BeginAsking \/ EndAsking
      PROVE  StreamIsPrefix'
  <2>1. fs' = fs \/ fs' \in {PauseWriting(fs), MustPause(fs), ResumeWriting(fs), StopMustPause(fs)}
    BY <1>1 DEF ChangeMusic, PauseMusic, FinishPause, PlayMusic, RaceOnVectors,
                Tick, ShouldPause, BeginWriting, SkipQueue, EndPass, BeginAsking, EndAsking
  <2>2. fs'.cwi = fs.cwi /\ fs'.total = fs.total
    BY <1>0, <2>1, PauseKeeps
  <2>3. stream' = stream /\ gtk'.file = gtk.file
    BY <1>1 DEF ChangeMusic, PauseMusic, FinishPause, PlayMusic, RaceOnVectors, Crash, TypeOK, GtkState,
                Tick, ShouldPause, BeginWriting, SkipQueue, EndPass, BeginAsking, EndAsking
  <2> QED BY <1>0, <2>2, <2>3, StreamFrame
<1>2. ASSUME StartFileSharing PROVE StreamIsPrefix'
  <2>1. gtk.file = NoFile /\ stream' = stream
    BY <1>2, TransferAssumption DEF StartFileSharing, TypeOK, Untouched, Unstarted
  <2>2. stream.file = NoFile /\ fs.cwi = 0 /\ fs.total = 0
    BY <2>1 DEF Untouched, Unstarted
  <2>3. fs'.cwi = 0 /\ fs'.total = 0
    BY <1>2 DEF StartFileSharing, ResetSharingFile
  <2> QED BY <1>0, <2>1, <2>2, <2>3 DEF StreamIsPrefix
<1>3. ASSUME AddOwner PROVE StreamIsPrefix'
  <2>1. fs'.cwi = fs.cwi /\ fs'.total = fs.total
    BY <1>0, <1>3 DEF AddOwner, NewPeer, SharingOK, SharingState
  <2>2. stream' = stream /\ gtk'.file = gtk.file
    BY <1>3 DEF AddOwner, TypeOK, GtkState
  <2> QED BY <1>0, <2>1, <2>2, StreamFrame
<1>4. ASSUME NewBufferedAudio PROVE StreamIsPrefix'
  <2>1. fs' = fs /\ gtk'.file = gtk.file
    BY <1>4 DEF NewBufferedAudio, TypeOK, GtkState
  <2>2. CASE stream' = stream
    BY <1>0, <2>1, <2>2, StreamFrame
  <2>3. CASE stream' = [file |-> gtk.file, data |-> << >>, eos |-> 0]
    <3>1. stream.file = NoFile /\ fs.cwi = 0
      BY <1>0, <1>4 DEF NewBufferedAudio, Untouched, Unstarted, StreamIsPrefix
    <3>2. stream'.file = gtk'.file /\ stream'.data = << >> /\ stream'.eos = 0
      BY <2>1, <2>3
    <3>3. [k \in 1..0 |-> [id |-> k - 1, file |-> stream'.file]] = << >>
      OBVIOUS
    <3> QED BY <1>0, <2>1, <3>1, <3>2, <3>3 DEF StreamIsPrefix
  <2> QED BY <1>4, <2>2, <2>3 DEF NewBufferedAudio
<1>5. ASSUME WriteSegment PROVE StreamIsPrefix'
  <2>1. gtk'.file = gtk.file
    BY <1>5 DEF WriteSegment, Crash, TypeOK, GtkState
  <2>2. CASE stream.file = NoFile
    BY <1>0, <1>5, <2>1, <2>2, StreamFrame DEF WriteSegment
  <2>3. CASE stream.file # NoFile
    <3>1. fs.cwi \in Nat /\ fs.total \in Int
      BY <1>0 DEF SharingOK, SharingState
    <3>2. /\ stream'.file = stream.file
          /\ stream'.data = Append(stream.data, [id |-> fs.cwi, file |-> stream.file])
          /\ stream'.eos = IF fs'.cwi = fs.total THEN 1 ELSE 0
      BY <1>5, <2>3, WriteSegmentWrites
    <3>3. stream'.data = [k \in 1..fs'.cwi |-> [id |-> k - 1, file |-> stream'.file]]
      BY <1>0, <1>5, <2>3, <3>1, <3>2, WriteSegmentWrites, PrefixGrows DEF StreamIsPrefix
    <3>4. fs.cwi < fs.total /\ fs'.cwi = fs.cwi + 1 /\ fs'.total = fs.total
      BY <1>5, <2>3, WriteSegmentWrites
    <3> QED BY <1>0, <2>1, <2>3, <3>1, <3>2, <3>3, <3>4 DEF StreamIsPrefix
  <2> QED BY <2>2, <2>3
<1>6. ASSUME DropSegment \/ AskIdlePeer PROVE StreamIsPrefix'
  <2>1. io.slot \in Slots(fs)
    BY <1>6 DEF DropSegment, AtQueue, AskIdlePeer
  <2>2. LET t == TakeSegmentId(fs) IN SharingOK(t) /\ io.slot \in Slots(t)
    BY <1>0, <2>1, TakeSegmentIdOK, TakeKeeps DEF Slots
  <2>3. fs'.cwi = fs.cwi /\ fs'.total = fs.total
    <3>1. CASE DropSegment
      BY <1>0, <2>1, <3>1, MethodsKeep DEF DropSegment
    <3>2. CASE AskIdlePeer
      <4>1. \/ fs' = fs \/ fs' = UnsetPeerIdle(fs, io.slot)
            \/ fs' = UnsetPeerIdle(TakeSegmentId(fs), io.slot)
        BY <3>2 DEF AskIdlePeer
      <4>2. LET t == TakeSegmentId(fs) IN t.cwi = fs.cwi /\ t.total = fs.total
        BY <1>0, TakeKeeps
      <4> QED BY <1>0, <2>1, <2>2, <4>1, <4>2, MethodsKeep
    <3> QED BY <1>6, <3>1, <3>2
  <2>4. stream' = stream /\ gtk'.file = gtk.file
    BY <1>6 DEF DropSegment, AskIdlePeer
  <2> QED BY <1>0, <2>3, <2>4, StreamFrame
<1>7. ASSUME HandlePreparedFileSharing PROVE StreamIsPrefix'
  <2> DEFINE m == Head(inbox).msg
             t == SetFileInfo(fs, m.total, m.chunk, m.bytes)
  <2>1. Head(inbox) \in [from : Peers, msg : ReceiverMessages]
    BY <1>7, HeadTailProperties DEF HandlePreparedFileSharing, Draining, OneSong
  <2>2. /\ m \in Message /\ m.type = "prepared" /\ m.total = SongCount
    BY <1>7, <2>1 DEF HandlePreparedFileSharing, Draining, ReceiverMessages
  <2>3. m.chunk \in Nat /\ m.bytes \in Int /\ m.total \in Int
    BY <2>2, MessageFields
  <2>4. SharingOK(t) /\ t.cwi = fs.cwi /\ t.total = SongCount
    <3>1. fs \in SharingState
      BY <1>0 DEF SharingOK
    <3>2. t.cwi = fs.cwi /\ t.total = SongCount
      BY <2>2, <3>1 DEF SetFileInfo, SharingState
    <3> QED BY <1>0, <2>3, <3>2, SetFileInfoOK
  <2>5. fs'.cwi = fs.cwi /\ fs'.total = SongCount
    <3> HIDE DEF t
    <3> QED BY <1>7, <2>4, TakeKeeps DEF HandlePreparedFileSharing, t
  <2>6. stream' = stream /\ gtk'.file = gtk.file
    BY <1>7 DEF HandlePreparedFileSharing
  <2>7. fs.total \in {0, SongCount} /\ SongCount \in Nat /\ fs.cwi \in Nat
    BY <1>0, SongCountOK DEF OneSong, SharingOK, SharingState
  <2>8. CASE fs.total = SongCount
    BY <1>0, <2>5, <2>6, <2>8, StreamFrame
  <2>9. CASE fs.total = 0
    <3>1. fs.cwi = 0 /\ stream.eos = 0
      BY <1>0, <2>7, <2>9 DEF StreamIsPrefix
    <3> QED BY <1>0, <2>5, <2>6, <2>7, <3>1 DEF StreamIsPrefix
  <2> QED BY <2>7, <2>8, <2>9
<1>8. ASSUME HandleReturnSegment PROVE StreamIsPrefix'
  <2> DEFINE seg == Head(inbox).msg.seg
             got == PushSegment(fs, seg)
  <2>1. Head(inbox) \in [from : Peers, msg : Message]
    BY <1>8, HeadTailProperties DEF HandleReturnSegment, Draining, TypeOK
  <2>2. seg \in Segment
    BY <1>8, <2>1, MessageFields DEF HandleReturnSegment, Draining
  <2>3. SharingOK(got) /\ got.cwi = fs.cwi /\ got.total = fs.total
    BY <1>0, <2>2, PushSegmentOK, PushKeeps
  <2>4. fs'.cwi = fs.cwi /\ fs'.total = fs.total
    <3>1. fs' = got \/ fs' = TakeSegmentId(got)
      BY <1>8 DEF HandleReturnSegment
    <3> HIDE DEF got
    <3> QED BY <2>3, <3>1, TakeKeeps
  <2>5. stream' = stream /\ gtk'.file = gtk.file
    BY <1>8 DEF HandleReturnSegment
  <2> QED BY <1>0, <2>4, <2>5, StreamFrame
<1>9. ASSUME \/ IgnoreNoSuchFile \/ StartWriting \/ OtherStep
             \/ \E p \in Peers : ReadMessage(p) \/ SenderStep(p)
      PROVE  StreamIsPrefix'
  <2>1. fs' = fs /\ stream' = stream /\ gtk' = gtk
    BY <1>9 DEF IgnoreNoSuchFile, StartWriting, OtherStep, Leave, HandleOtherPrepare,
                ReadMessage, SenderStep, HandlePrepareFileSharing, HandleGetSegment
  <2> QED BY <1>0, <2>1, StreamFrame
<1>10. CASE UNCHANGED vars
  BY <1>0, <1>10, StreamFrame DEF vars
<1> QED BY <1>1, <1>2, <1>3, <1>4, <1>5, <1>6, <1>7, <1>8, <1>9, <1>10
        DEF Next, UserStep, GtkStep, HookStep, DrainStep

---------------------------------------------------------------------------
(* The theorems. *)

\* For any song, segment size, owners, pauses and disconnections, what the
\* player has been given is the first current_writing_id segments of the song
\* that was selected, and the end of the stream was announced exactly when
\* that is the whole of it (try_writing_segment, segment_has_arrived), as long
\* as one song is transferred and every peer can read it.
THEOREM StreamInvariant == ASSUME OneGoodTransfer PROVE Spec => []StreamInv
<1>1. Init => StreamInv
  BY InvInit
<1>2. StreamInv /\ [Next]_vars => StreamInv'
  <2> SUFFICES ASSUME StreamInv, [Next]_vars PROVE StreamInv'
    OBVIOUS
  <2>1. TypeOK'
    BY TypeNext DEF StreamInv
  <2> QED BY <2>1, UntouchedNext, OneSongNext, PreparedFirstNext, StreamIsPrefixNext DEF StreamInv
<1> QED BY <1>1, <1>2, PTL DEF Spec

\* A step of the transfer is a step of StreamDelivery, or none.
LEMMA StepDelivers ==
    ASSUME OneGoodTransfer, StreamInv, StreamInv', [Next]_vars
    PROVE  [Delivery!Next]_(Delivery!streamVars)
<1> USE DEF netVars, userVars
<1>1. CASE stream' = stream
  BY <1>1 DEF Delivery!streamVars
<1>2. CASE NewBufferedAudio /\ stream' # stream
  <2>1. stream' = [file |-> gtk.file, data |-> << >>, eos |-> 0] /\ gtk.file \in Files
    BY <1>2 DEF NewBufferedAudio, StreamInv, TypeOK
  <2> QED BY <2>1 DEF Delivery!Next, Delivery!Load
<1>3. CASE WriteSegment /\ stream' # stream
  <2>1. stream.file # NoFile
    BY <1>3 DEF WriteSegment
  <2>2. /\ stream'.file = stream.file /\ stream.eos = 0
        /\ stream'.data = Append(stream.data, [id |-> fs.cwi, file |-> stream.file])
        /\ stream'.eos = IF fs'.cwi = fs.total THEN 1 ELSE 0
        /\ fs.cwi < fs.total /\ stream.file = gtk.file /\ fs'.cwi = fs.cwi + 1
    BY <1>3, <2>1, WriteSegmentWrites
  <2>3. fs.cwi \in Nat
    BY DEF StreamInv, TypeOK, SharingOK, SharingState
  <2>4. Len(stream.data) = fs.cwi /\ Len(stream'.data) = fs'.cwi
    <3>1. stream.data = [k \in 1..fs.cwi |-> [id |-> k - 1, file |-> stream.file]]
      BY DEF StreamInv, StreamIsPrefix
    <3>2. stream'.data = [k \in 1..(fs.cwi + 1) |-> [id |-> k - 1, file |-> stream.file]]
      BY <2>2, <2>3, <3>1, PrefixGrows
    <3> QED BY <2>2, <2>3, <3>1, <3>2
  <2>5. fs.total = SegmentCount(stream.file)
    BY <2>1, <2>2, <2>3, SongCountOK DEF StreamInv, OneSong, SongCount
  <2> QED BY <2>1, <2>2, <2>4, <2>5 DEF Delivery!Next, Delivery!Deliver
<1>4. stream' = stream \/ NewBufferedAudio \/ WriteSegment
  BY DEF Next, vars, UserStep, ChangeMusic, PauseMusic, PlayMusic,
         GtkStep, FinishPause, StartFileSharing, AddOwner, RaceOnVectors,
         HookStep, Tick, ShouldPause, BeginWriting, DropSegment, SkipQueue, EndPass,
         BeginAsking, AskIdlePeer, EndAsking,
         DrainStep, HandlePreparedFileSharing, HandleReturnSegment, IgnoreNoSuchFile, StartWriting,
         OtherStep, Leave, HandleOtherPrepare,
         ReadMessage, SenderStep, HandlePrepareFileSharing, HandleGetSegment
<1> QED BY <1>1, <1>2, <1>3, <1>4

\* Every behaviour of the transfer of one song, whatever the number of owners
\* and the interleaving of the threads, delivers it to the player as
\* StreamDelivery promises: in order, without gaps, repetitions or foreign
\* bytes, the end of the stream with the last segment and only once.
THEOREM Refinement == ASSUME OneGoodTransfer PROVE Spec => DeliversTheSong
<1>1. Init => Delivery!Init
  BY DEF Init, Delivery!Init
<1>2. StreamInv /\ StreamInv' /\ [Next]_vars => [Delivery!Next]_(Delivery!streamVars)
  BY StepDelivers
<1>3. Spec => []StreamInv
  BY StreamInvariant
<1> QED BY <1>1, <1>2, <1>3, PTL DEF Spec, DeliversTheSong, Delivery!Spec

---------------------------------------------------------------------------
(* Pipelines: five stretches of ids, and what moves one on keeps them in   *)
(* increasing order.                                                       *)

LEMMA NextIn ==
    ASSUME NEW m \in Nat, NEW k \in 1..(m - 1) PROVE k \in Nat \ {0} /\ k + 1 \in 1..m
OBVIOUS

LEMMA SameLast == ASSUME NEW m \in Nat, NEW l \in Nat, 1..m = 1..l PROVE m = l
<1>1. ~(m < l)
  <2>1. m < l => l \in 1..l /\ l \notin 1..m
    OBVIOUS
  <2> QED BY <2>1
<1>2. ~(l < m)
  <2>1. l < m => m \in 1..m /\ m \notin 1..l
    OBVIOUS
  <2> QED BY <2>1
<1> QED BY <1>1, <1>2

\* What a function makes of each element of a sequence.
MapBy(f, t) == [k \in DOMAIN t |-> f[t[k]]]

LEMMA MapConcat ==
    ASSUME NEW S, NEW f \in [S -> Int], NEW s \in Seq(S), NEW t \in Seq(S)
    PROVE  MapBy(f, s \o t) = MapBy(f, s) \o MapBy(f, t)
<1> DEFINE F(x) == MapBy(f, x)
<1>0. ASSUME NEW x \in Seq(S)
      PROVE  /\ F(x) \in Seq(Int) /\ Len(F(x)) = Len(x)
             /\ \A k \in 1..Len(x) : F(x)[k] = f[x[k]]
  <2>1. DOMAIN x = 1..Len(x) /\ Len(x) \in Nat
    OBVIOUS
  <2>2. \A k \in 1..Len(x) : x[k] \in S
    OBVIOUS
  <2> QED BY <2>1, <2>2 DEF MapBy
<1> HIDE DEF F
<1>9. F(s \o t) = F(s) \o F(t)
  <2>1. PICK n \in Nat, l \in Nat : n = Len(s) /\ l = Len(t)
    OBVIOUS
  <2>2. /\ s \o t \in Seq(S) /\ Len(s \o t) = n + l
        /\ \A k \in 1..(n + l) : (s \o t)[k] = IF k <= n THEN s[k] ELSE t[k-n]
    BY <2>1, ConcatProperties
  <2>3. /\ F(s) \in Seq(Int) /\ Len(F(s)) = n
        /\ \A k \in 1..n : F(s)[k] = f[s[k]]
        /\ F(t) \in Seq(Int) /\ Len(F(t)) = l
        /\ \A k \in 1..l : F(t)[k] = f[t[k]]
    BY <1>0, <2>1
  <2>4. /\ F(s \o t) \in Seq(Int) /\ Len(F(s \o t)) = n + l
        /\ \A k \in 1..(n + l) : F(s \o t)[k] = f[(s \o t)[k]]
    BY <1>0, <2>2
  <2>5. /\ F(s) \o F(t) \in Seq(Int) /\ Len(F(s) \o F(t)) = n + l
        /\ \A k \in 1..(n + l) : (F(s) \o F(t))[k] = IF k <= n THEN F(s)[k] ELSE F(t)[k-n]
    <3>1. PICK u \in Seq(Int), v \in Seq(Int) : u = F(s) /\ v = F(t)
      BY <2>3
    <3>2. /\ u \o v \in Seq(Int) /\ Len(u \o v) = Len(u) + Len(v)
          /\ \A k \in 1..Len(u) + Len(v) : (u \o v)[k] = IF k <= Len(u) THEN u[k] ELSE v[k - Len(u)]
      BY ConcatProperties
    <3>3. Len(u) = n /\ Len(v) = l
      BY <2>3, <3>1
    <3> QED BY <3>1, <3>2, <3>3
  <2>6. ASSUME NEW k \in 1..(n + l) PROVE F(s \o t)[k] = (F(s) \o F(t))[k]
    <3>1. F(s \o t)[k] = f[(s \o t)[k]]
      BY <2>4, <2>6
    <3>2. CASE k <= n
      <4>1. k \in 1..n
        BY <2>6, <3>2
      <4> QED BY <2>2, <2>3, <2>5, <2>6, <3>1, <3>2, <4>1
    <3>3. CASE ~(k <= n)
      <4>1. k - n \in 1..l
        BY <2>6, <3>3
      <4> QED BY <2>2, <2>3, <2>5, <2>6, <3>1, <3>3, <4>1
    <3> QED BY <3>2, <3>3
  <2> QED BY <2>4, <2>5, <2>6, SeqEqual
<1> QED BY <1>9 DEF F

LEMMA MapSeq ==
    ASSUME NEW S, NEW f \in [S -> Int], NEW s \in Seq(S)
    PROVE  /\ MapBy(f, s) \in Seq(Int)
           /\ s = << >> => MapBy(f, s) = << >>
           /\ s # << >> => /\ MapBy(f, s) # << >>
                           /\ Head(MapBy(f, s)) = f[Head(s)]
                           /\ MapBy(f, Tail(s)) = Tail(MapBy(f, s))
           /\ \A x \in S : MapBy(f, Append(s, x)) = Append(MapBy(f, s), f[x])
<1> DEFINE F(t) == MapBy(f, t)
<1>1. ASSUME NEW t \in Seq(S)
      PROVE  /\ F(t) \in Seq(Int) /\ Len(F(t)) = Len(t)
             /\ \A k \in 1..Len(t) : F(t)[k] = f[t[k]]
  <2>1. DOMAIN t = 1..Len(t) /\ Len(t) \in Nat
    OBVIOUS
  <2>2. \A k \in 1..Len(t) : t[k] \in S
    OBVIOUS
  <2> QED BY <2>1, <2>2 DEF MapBy
<1>2. s = << >> => F(s) = << >>
  BY DEF MapBy
<1> HIDE DEF F
<1>3. ASSUME s # << >>
      PROVE  F(s) # << >> /\ Head(F(s)) = f[Head(s)] /\ F(Tail(s)) = Tail(F(s))
  <2>1. PICK n \in Nat \ {0} : n = Len(s)
    BY <1>3, EmptySeq
  <2>2. /\ Tail(s) \in Seq(S) /\ Len(Tail(s)) = n - 1
        /\ \A k \in 1..(n - 1) : Tail(s)[k] = s[k+1]
    BY <1>3, <2>1, HeadTailProperties
  <2>3. /\ F(s) \in Seq(Int) /\ Len(F(s)) = n
        /\ \A k \in 1..n : F(s)[k] = f[s[k]]
    BY <1>1, <2>1
  <2>4. /\ F(Tail(s)) \in Seq(Int) /\ Len(F(Tail(s))) = n - 1
        /\ \A k \in 1..(n - 1) : F(Tail(s))[k] = f[Tail(s)[k]]
    BY <1>1, <2>2
  <2>5. F(s) # << >>
    BY <2>1, <2>3
  <2>6. /\ Tail(F(s)) \in Seq(Int) /\ Len(Tail(F(s))) = n - 1
        /\ \A k \in 1..(n - 1) : Tail(F(s))[k] = F(s)[k+1]
    BY <2>3, <2>5, HeadTailProperties
  <2>7. Head(F(s)) = f[Head(s)]
    <3>1. Head(F(s)) = F(s)[1] /\ Head(s) = s[1]
      BY <1>3, <2>3, <2>5
    <3>2. F(s)[1] = f[s[1]]
      BY <2>3
    <3> QED BY <3>1, <3>2
  <2>8. ASSUME NEW k \in 1..(n - 1) PROVE F(Tail(s))[k] = Tail(F(s))[k]
    <3>1. k + 1 \in 1..n
      OBVIOUS
    <3>2. F(s)[k+1] = f[s[k+1]]
      BY <2>3, <3>1
    <3>3. F(Tail(s))[k] = f[s[k+1]]
      BY <2>2, <2>4, <2>8
    <3>4. Tail(F(s))[k] = F(s)[k+1]
      BY <2>6, <2>8
    <3> QED BY <3>2, <3>3, <3>4
  <2>9. F(Tail(s)) = Tail(F(s))
    BY <2>4, <2>6, <2>8, SeqEqual
  <2> QED BY <2>5, <2>7, <2>9
<1>4. ASSUME NEW x \in S PROVE F(Append(s, x)) = Append(F(s), f[x])
  <2>1. PICK n \in Nat : n = Len(s)
    OBVIOUS
  <2>2. /\ Append(s, x) \in Seq(S) /\ Len(Append(s, x)) = n + 1
        /\ \A k \in 1..n : Append(s, x)[k] = s[k]
        /\ Append(s, x)[n + 1] = x
    BY <2>1, AppendProperties
  <2>3. /\ F(s) \in Seq(Int) /\ Len(F(s)) = n
        /\ \A k \in 1..n : F(s)[k] = f[s[k]]
    BY <1>1, <2>1
  <2>4. /\ F(Append(s, x)) \in Seq(Int) /\ Len(F(Append(s, x))) = n + 1
        /\ \A k \in 1..(n + 1) : F(Append(s, x))[k] = f[Append(s, x)[k]]
    BY <1>1, <2>2
  <2>5. /\ Append(F(s), f[x]) \in Seq(Int) /\ Len(Append(F(s), f[x])) = n + 1
        /\ \A k \in 1..n : Append(F(s), f[x])[k] = F(s)[k]
        /\ Append(F(s), f[x])[n + 1] = f[x]
    <3>1. f[x] \in Int
      OBVIOUS
    <3> QED BY <2>3, <3>1, AppendProperties
  <2>6. ASSUME NEW k \in 1..(n + 1) PROVE F(Append(s, x))[k] = Append(F(s), f[x])[k]
    <3>1. F(Append(s, x))[k] = f[Append(s, x)[k]]
      BY <2>4, <2>6
    <3>2. CASE k = n + 1
      BY <2>2, <2>5, <3>1, <3>2
    <3>3. CASE k # n + 1
      <4>1. k \in 1..n
        BY <2>6, <3>3
      <4> QED BY <2>2, <2>3, <2>5, <3>1, <4>1
    <3> QED BY <3>2, <3>3
  <2> QED BY <2>4, <2>5, <2>6, SeqEqual
<1> QED BY <1>1, <1>2, <1>3, <1>4 DEF F

\* A pipeline.
IsWay(W) == W \in [1..5 -> Seq(Int)]

LEMMA WayLengths ==
    ASSUME NEW W, IsWay(W)
    PROVE  \E n \in [1..5 -> Nat] : \A a \in 1..5 :
              DOMAIN W[a] = 1..n[a] /\ \A k \in 1..n[a] : W[a][k] \in Int
<1>1. \A a \in 1..5 : W[a] \in Seq(Int)
  BY DEF IsWay
<1>2. \A a \in 1..5 : DOMAIN W[a] = 1..Len(W[a]) /\ Len(W[a]) \in Nat
  BY <1>1
<1>3. \A a \in 1..5 : \A k \in 1..Len(W[a]) : W[a][k] \in Int
  BY <1>1
<1>4. [a \in 1..5 |-> Len(W[a])] \in [1..5 -> Nat]
  BY <1>2
<1> QED BY <1>2, <1>3, <1>4

LEMMA WayIsFunction ==
    ASSUME NEW a \in Seq(Int), NEW b \in Seq(Int), NEW c \in Seq(Int), NEW d \in Seq(Int),
           NEW e \in Seq(Int)
    PROVE  LET way == << a, b, c, d, e >>
           IN  /\ IsWay(way)
               /\ way[1] = a /\ way[2] = b /\ way[3] = c /\ way[4] = d /\ way[5] = e
BY DEF IsWay

LEMMA IdsOfWay ==
    ASSUME NEW way, NEW x
    PROVE  x \in IdsOf(way) <=> /\ x # NoId
                                /\ \E a \in 1..5 : \E k \in DOMAIN way[a] : way[a][k] = x
<1>1. x \in UNION {Range(way[a]) : a \in 1..5} <=> \E a \in 1..5 : x \in Range(way[a])
  BY Zenon
<1>2. ASSUME NEW a \in 1..5 PROVE x \in Range(way[a]) <=> \E k \in DOMAIN way[a] : way[a][k] = x
  BY Zenon DEF Range
<1>3. x \in IdsOf(way) <=> x # NoId /\ x \in UNION {Range(way[a]) : a \in 1..5}
  <2> DEFINE U == UNION {Range(way[a]) : a \in 1..5}
  <2>1. IdsOf(way) = U \ {NoId}
    BY DEF IdsOf
  <2> HIDE DEF U
  <2>2. x \in IdsOf(way) <=> x # NoId /\ x \in U
    BY <2>1
  <2> QED BY <2>2 DEF U
<1> QED BY <1>1, <1>2, <1>3, Zenon

LEMMA IncreasingAt ==
    ASSUME NEW W, Increasing(W), NEW a \in 1..5, NEW b \in 1..5,
           NEW k \in DOMAIN W[a], NEW l \in DOMAIN W[b], a < b \/ (a = b /\ k < l),
           W[a][k] # NoId, W[b][l] # NoId
    PROVE  W[a][k] < W[b][l]
BY DEF Increasing

\* The oldest of a stretch goes.
LEMMA PopWay ==
    ASSUME NEW W, IsWay(W), NEW V, IsWay(V), NEW a \in 1..5, W[a] # << >>,
           V[a] = Tail(W[a]), \A b \in 1..5 : b # a => V[b] = W[b], Increasing(W)
    PROVE  /\ Increasing(V)
           /\ IdsOf(V) \subseteq IdsOf(W)
           /\ IdsOf(W) \subseteq IdsOf(V) \cup {Head(W[a])}
           /\ Head(W[a]) \notin IdsOf(V)
           /\ Head(W[a]) # NoId => Head(W[a]) \in IdsOf(W)
<1>1. PICK n \in [1..5 -> Nat] : \A b \in 1..5 :
        DOMAIN W[b] = 1..n[b] /\ \A k \in 1..n[b] : W[b][k] \in Int
  BY WayLengths
<1>3. /\ n[a] \in Nat \ {0} /\ DOMAIN V[a] = 1..(n[a] - 1)
      /\ \A k \in 1..(n[a] - 1) : V[a][k] = W[a][k+1]
      /\ Head(W[a]) = W[a][1] /\ 1 \in DOMAIN W[a]
  <2>1. W[a] \in Seq(Int)
    BY DEF IsWay
  <2>2. Len(W[a]) = n[a]
    BY <1>1, <2>1
  <2>3. n[a] \in Nat \ {0}
    BY <2>1, <2>2, EmptySeq
  <2>4. Tail(W[a]) \in Seq(Int) /\ Len(Tail(W[a])) = n[a] - 1
        /\ \A k \in 1..(n[a] - 1) : Tail(W[a])[k] = W[a][k+1]
    BY <2>1, <2>2, HeadTailProperties
  <2>5. DOMAIN Tail(W[a]) = 1..(n[a] - 1)
    BY <2>4
  <2>6. Head(W[a]) = W[a][1] /\ 1 \in DOMAIN W[a]
    BY <1>1, <2>1, <2>3
  <2> QED BY <2>3, <2>4, <2>5, <2>6
<1> DEFINE at(b, k) == IF b = a THEN k + 1 ELSE k
           back(b, k) == IF b = a THEN k - 1 ELSE k
<1>4. \A b \in 1..5 : \A k \in DOMAIN V[b] :
         k \in Nat \ {0} /\ at(b, k) \in DOMAIN W[b] /\ V[b][k] = W[b][at(b, k)]
  <2> TAKE b \in 1..5
  <2> TAKE k \in DOMAIN V[b]
  <2>1. CASE b = a
    <3>1. k \in 1..(n[a] - 1) /\ V[b][k] = W[a][k+1]
      BY <1>3, <2>1
    <3>2. k + 1 \in 1..n[a] /\ k \in Nat \ {0}
      BY <1>3, <3>1
    <3> QED BY <1>1, <2>1, <3>1, <3>2
  <2>2. CASE b # a
    <3>1. k \in 1..n[b] /\ n[b] \in Nat /\ V[b] = W[b]
      BY <1>1, <2>2
    <3> QED BY <1>1, <2>2, <3>1
  <2> QED BY <2>1, <2>2
<1>5. \A b \in 1..5 : \A k \in DOMAIN W[b] :
         (b = a /\ k = 1) \/ (back(b, k) \in DOMAIN V[b] /\ W[b][k] = V[b][back(b, k)])
  <2> TAKE b \in 1..5
  <2> TAKE k \in DOMAIN W[b]
  <2>1. CASE b = a /\ k # 1
    <3>1. k \in 1..n[a] /\ n[a] \in Nat
      BY <1>1, <2>1
    <3>2. k - 1 \in 1..(n[a] - 1) /\ (k - 1) + 1 = k
      BY <2>1, <3>1
    <3>3. k - 1 \in DOMAIN V[b] /\ V[b][k-1] = W[a][(k-1)+1]
      BY <1>3, <2>1, <3>2
    <3> QED BY <2>1, <3>2, <3>3
  <2>2. CASE b # a
    BY <2>2
  <2> QED BY <2>1, <2>2
<1> HIDE DEF back
<1>6. Increasing(V)
  <2> SUFFICES ASSUME NEW b \in 1..5, NEW c \in 1..5, NEW k \in DOMAIN V[b], NEW l \in DOMAIN V[c],
                      b < c \/ (b = c /\ k < l), V[b][k] # NoId, V[c][l] # NoId
               PROVE  V[b][k] < V[c][l]
    BY DEF Increasing
  <2>1. /\ k \in Nat /\ at(b, k) \in DOMAIN W[b] /\ V[b][k] = W[b][at(b, k)]
        /\ l \in Nat /\ at(c, l) \in DOMAIN W[c] /\ V[c][l] = W[c][at(c, l)]
    BY <1>4
  <2>2. b < c \/ (b = c /\ at(b, k) < at(c, l))
    BY <2>1
  <2> HIDE DEF at
  <2> QED BY <2>1, <2>2 DEF Increasing
<1>7. IdsOf(V) \subseteq IdsOf(W)
  BY <1>4, IdsOfWay
<1>8. ASSUME NEW x \in IdsOf(W), x # Head(W[a]) PROVE x \in IdsOf(V)
  <2>1. x # NoId /\ \E b \in 1..5 : \E k \in DOMAIN W[b] : W[b][k] = x
    BY IdsOfWay
  <2>2. PICK b \in 1..5 : \E k \in DOMAIN W[b] : W[b][k] = x
    BY <2>1
  <2>3. PICK k \in DOMAIN W[b] : W[b][k] = x
    BY <2>2
  <2>4. ~(b = a /\ k = 1)
    BY <1>3, <1>8, <2>3
  <2>5. \E l \in DOMAIN V[b] : V[b][l] = x
    BY <1>5, <2>3, <2>4
  <2> QED BY <2>1, <2>5, IdsOfWay
<1>9. Head(W[a]) \notin IdsOf(V)
  <2> SUFFICES ASSUME Head(W[a]) \in IdsOf(V) PROVE FALSE
    OBVIOUS
  <2>1. PICK b \in 1..5 : \E k \in DOMAIN V[b] : V[b][k] = Head(W[a])
    BY IdsOfWay
  <2>2. PICK k \in DOMAIN V[b] : V[b][k] = Head(W[a])
    BY <2>1
  <2>3. Head(W[a]) # NoId
    BY IdsOfWay
  <2>4. at(b, k) \in DOMAIN W[b] /\ W[b][at(b, k)] = W[a][1] /\ W[a][1] # NoId
    BY <1>3, <1>4, <2>2, <2>3
  <2>5. W[a][1] \in Int
    <3>1. 1 \in 1..n[a]
      BY <1>3
    <3> QED BY <1>1, <3>1
  <2>6. b < a \/ a < b \/ (a = b /\ 1 < at(b, k))
    BY <1>4, <2>2
  <2> HIDE DEF at
  <2>7. W[a][1] < W[a][1]
    <3>0. PICK l \in DOMAIN W[b] : l = at(b, k) /\ W[b][l] = W[a][1]
      BY <2>4
    <3>1. CASE b < a
      <4>1. W[b][l] < W[a][1]
        BY <1>3, <2>4, <3>0, <3>1, IncreasingAt
      <4> QED BY <3>0, <4>1
    <3>2. CASE a < b
      <4>1. W[a][1] < W[b][l]
        BY <1>3, <2>4, <3>0, <3>2, IncreasingAt
      <4> QED BY <3>0, <4>1
    <3>3. CASE a = b /\ 1 < at(b, k)
      <4>1. W[a][1] < W[b][l]
        BY <1>3, <2>4, <3>0, <3>3, IncreasingAt
      <4> QED BY <3>0, <4>1
    <3> QED BY <2>6, <3>1, <3>2, <3>3
  <2> QED BY <2>5, <2>7
<1>10. Head(W[a]) # NoId => Head(W[a]) \in IdsOf(W)
  BY <1>3, IdsOfWay
<1> QED BY <1>6, <1>7, <1>8, <1>9, <1>10

\* All of a stretch goes.
LEMMA EmptyWay ==
    ASSUME NEW W, NEW V, Increasing(W), \A b \in 1..5 : V[b] = W[b] \/ V[b] = << >>
    PROVE  Increasing(V) /\ IdsOf(V) \subseteq IdsOf(W)
<1>1. \A b \in 1..5 : \A k \in DOMAIN V[b] : V[b] = W[b]
  <2>1. \A b \in 1..5 : V[b] = << >> => DOMAIN V[b] = {}
    OBVIOUS
  <2> QED BY <2>1
<1>2. Increasing(V)
  BY <1>1 DEF Increasing
<1>3. ASSUME NEW x \in IdsOf(V) PROVE x \in IdsOf(W)
  BY <1>1, IdsOfWay
<1> QED BY <1>2, <1>3

\* Something comes in at the end of a stretch: nothing of interest, or what is
\* after all that is there and before all that is behind.
LEMMA AddToWay ==
    ASSUME NEW W, IsWay(W), NEW V, NEW a \in 1..5, NEW x \in Int,
           V[a] = Append(W[a], x), \A b \in 1..5 : b # a => V[b] = W[b], Increasing(W),
           \A b \in 1..5 : \A k \in DOMAIN W[b] :
              W[b][k] # NoId /\ x # NoId => IF b <= a THEN W[b][k] < x ELSE x < W[b][k]
    PROVE  /\ Increasing(V)
           /\ \A y : y \in IdsOf(V) <=> y \in IdsOf(W) \/ (y = x /\ x # NoId)
<1>1. PICK n \in [1..5 -> Nat] : \A b \in 1..5 :
        DOMAIN W[b] = 1..n[b] /\ \A k \in 1..n[b] : W[b][k] \in Int
  BY WayLengths
<1>2. /\ DOMAIN V[a] = 1..(n[a] + 1) /\ V[a][n[a] + 1] = x
      /\ \A k \in 1..n[a] : V[a][k] = W[a][k]
  <2>1. PICK u \in Seq(Int), m \in Nat : u = W[a] /\ m = n[a]
    BY DEF IsWay
  <2>2. Len(u) = m
    <3>1. DOMAIN u = 1..m
      BY <1>1, <2>1
    <3>2. PICK l \in Nat : l = Len(u) /\ DOMAIN u = 1..l
      OBVIOUS
    <3> QED BY <3>1, <3>2, SameLast
  <2>3. PICK v \in Seq(Int) : v = Append(u, x)
    BY AppendProperties
  <2>4. Len(v) = m + 1 /\ (\A k \in 1..m : v[k] = u[k]) /\ v[m + 1] = x
    <3>1. /\ Len(Append(u, x)) = Len(u) + 1
          /\ \A k \in 1..Len(u) : Append(u, x)[k] = u[k]
          /\ Append(u, x)[Len(u) + 1] = x
      BY AppendProperties
    <3> QED BY <2>2, <2>3, <3>1
  <2>5. DOMAIN v = 1..(m + 1)
    BY <2>4
  <2> QED BY <2>1, <2>3, <2>4, <2>5
<1>3. \A b \in 1..5 : n[b] \in Nat
  OBVIOUS
<1>4. ASSUME NEW b \in 1..5, NEW k \in DOMAIN V[b]
      PROVE  \/ k \in DOMAIN W[b] /\ k \in 1..n[b] /\ V[b][k] = W[b][k]
             \/ b = a /\ k = n[a] + 1 /\ V[b][k] = x
  <2>1. CASE b = a
    <3>1. k \in 1..(n[a] + 1) /\ n[a] \in Nat
      BY <1>2, <1>3, <1>4, <2>1
    <3>2. k = n[a] + 1 \/ k \in 1..n[a]
      BY <3>1
    <3> QED BY <1>1, <1>2, <2>1, <3>2
  <2>2. CASE b # a
    BY <1>1, <1>4, <2>2
  <2> QED BY <2>1, <2>2
<1>5. ASSUME NEW b \in 1..5, NEW k \in DOMAIN W[b]
      PROVE  k \in DOMAIN V[b] /\ V[b][k] = W[b][k]
  <2>1. CASE b = a
    <3>1. k \in 1..n[a] /\ n[a] \in Nat
      BY <1>1, <1>3, <1>5, <2>1
    <3>2. k \in 1..(n[a] + 1)
      BY <3>1
    <3> QED BY <1>2, <2>1, <3>1, <3>2
  <2>2. CASE b # a
    BY <1>5, <2>2
  <2> QED BY <2>1, <2>2
<1>6. Increasing(V)
  <2> SUFFICES ASSUME NEW b \in 1..5, NEW c \in 1..5, NEW k \in DOMAIN V[b], NEW l \in DOMAIN V[c],
                      b < c \/ (b = c /\ k < l), V[b][k] # NoId, V[c][l] # NoId
               PROVE  V[b][k] < V[c][l]
    BY DEF Increasing
  <2>1. CASE k \in DOMAIN W[b] /\ V[b][k] = W[b][k] /\ l \in DOMAIN W[c] /\ V[c][l] = W[c][l]
    BY <2>1 DEF Increasing
  <2>2. CASE k \in DOMAIN W[b] /\ V[b][k] = W[b][k] /\ c = a /\ V[c][l] = x
    <3>1. b <= a /\ b \in Int /\ a \in Int
      BY <2>2
    <3> QED BY <2>2, <3>1
  <2>3. CASE b = a /\ V[b][k] = x /\ l \in DOMAIN W[c] /\ l \in 1..n[c] /\ V[c][l] = W[c][l] /\ k = n[a] + 1
    <3>1. a < c
      <4>1. n[a] \in Nat /\ l \in Nat
        BY <1>3, <2>3
      <4>2. c = a => l <= n[a]
        BY <2>3, <4>1
      <4> QED BY <2>3, <4>1, <4>2
    <3>2. ~(c <= a)
      BY <3>1
    <3> QED BY <2>3, <3>2
  <2>4. CASE b = a /\ c = a /\ k = n[a] + 1 /\ l = n[a] + 1
    BY <1>3, <2>4
  <2> QED BY <1>4, <2>1, <2>2, <2>3, <2>4
<1>7. ASSUME NEW y PROVE y \in IdsOf(V) <=> y \in IdsOf(W) \/ (y = x /\ x # NoId)
  <2>1. ASSUME y \in IdsOf(V) PROVE y \in IdsOf(W) \/ (y = x /\ x # NoId)
    <3>1. y # NoId /\ \E b \in 1..5 : \E k \in DOMAIN V[b] : V[b][k] = y
      BY <2>1, IdsOfWay
    <3>2. PICK b \in 1..5 : \E k \in DOMAIN V[b] : V[b][k] = y
      BY <3>1
    <3>3. PICK k \in DOMAIN V[b] : V[b][k] = y
      BY <3>2
    <3> QED BY <1>4, <3>1, <3>3, IdsOfWay
  <2>2. ASSUME y \in IdsOf(W) PROVE y \in IdsOf(V)
    <3>1. y # NoId /\ \E b \in 1..5 : \E k \in DOMAIN W[b] : W[b][k] = y
      BY <2>2, IdsOfWay
    <3>2. PICK b \in 1..5 : \E k \in DOMAIN W[b] : W[b][k] = y
      BY <3>1
    <3>3. PICK k \in DOMAIN W[b] : W[b][k] = y
      BY <3>2
    <3> QED BY <1>5, <3>1, <3>3, IdsOfWay
  <2>3. ASSUME y = x, x # NoId PROVE y \in IdsOf(V)
    <3>1. PICK m \in Nat : m = n[a]
      BY <1>3
    <3>2. m + 1 \in 1..(m + 1)
      OBVIOUS
    <3>3. m + 1 \in DOMAIN V[a] /\ V[a][m + 1] = y /\ y # NoId
      BY <1>2, <2>3, <3>1, <3>2
    <3> QED BY <3>3, IdsOfWay
  <2> QED BY <2>1, <2>2, <2>3
<1> QED BY <1>6, <1>7

\* The oldest of a stretch becomes the youngest of the one before.
LEMMA MoveInWay ==
    ASSUME NEW W, IsWay(W), NEW V, NEW a \in 1..4, W[a+1] # << >>,
           V[a] = Append(W[a], Head(W[a+1])), V[a+1] = Tail(W[a+1]),
           \A b \in 1..5 : b # a /\ b # a + 1 => V[b] = W[b],
           Increasing(W)
    PROVE  Increasing(V) /\ IdsOf(V) = IdsOf(W)
<1>1. PICK n \in [1..5 -> Nat] : \A b \in 1..5 :
        DOMAIN W[b] = 1..n[b] /\ \A k \in 1..n[b] : W[b][k] \in Int
  BY WayLengths
<1>2. a \in 1..5 /\ a + 1 \in 1..5 /\ a # a + 1
  OBVIOUS
<1> DEFINE U == [b \in 1..5 |-> IF b = a + 1 THEN Tail(W[a+1]) ELSE W[b]]
<1> DEFINE x == Head(W[a+1])
<1>3. W[a+1] \in Seq(Int) /\ \A b \in 1..5 : W[b] \in Seq(Int)
  BY <1>2 DEF IsWay
<1>4. Tail(W[a+1]) \in Seq(Int) /\ x \in Int /\ x = W[a+1][1]
  <2>1. PICK u \in Seq(Int) : u = W[a+1] /\ u # << >>
    BY <1>3
  <2>2. Tail(u) \in Seq(Int) /\ Head(u) \in Int
    BY <2>1, HeadTailProperties
  <2>3. Head(u) = u[1]
    OBVIOUS
  <2> QED BY <2>1, <2>2, <2>3
<1>5. /\ IsWay(U) /\ U[a+1] = Tail(W[a+1])
      /\ \A b \in 1..5 : b # a + 1 => U[b] = W[b]
  BY <1>2, <1>3, <1>4 DEF IsWay
<1>6. 1 \in DOMAIN W[a+1] /\ n[a+1] \in Nat
  <2>1. PICK u \in Seq(Int) : u = W[a+1] /\ u # << >>
    BY <1>3
  <2>2. 1 \in DOMAIN W[a+1]
    <3>1. Len(u) \in Nat /\ Len(u) # 0 /\ DOMAIN u = 1..Len(u)
      BY <2>1, EmptySeq
    <3>2. 1 \in DOMAIN u
      BY <3>1
    <3> QED BY <2>1, <3>2
  <2>3. n[a+1] \in Nat
    BY <1>2
  <2> QED BY <2>2, <2>3
<1>7. \A k \in DOMAIN Tail(W[a+1]) :
         k \in Nat \ {0} /\ k + 1 \in DOMAIN W[a+1] /\ Tail(W[a+1])[k] = W[a+1][k+1]
  <2>1. PICK u \in Seq(Int) : u = W[a+1] /\ u # << >>
    BY <1>3
  <2>0. PICK m \in Nat : m = Len(u) /\ DOMAIN u = 1..m
    OBVIOUS
  <2>2. PICK t \in Seq(Int) : t = Tail(u)
    BY <2>1, HeadTailProperties
  <2>3. Len(t) = m - 1 /\ \A k \in 1..(m - 1) : t[k] = u[k+1]
    <3>1. /\ Len(Tail(u)) = Len(u) - 1
          /\ \A k \in 1..Len(Tail(u)) : Tail(u)[k] = u[k+1]
      BY <2>1, HeadTailProperties
    <3> QED BY <2>0, <2>2, <3>1
  <2>4. DOMAIN t = 1..(m - 1) /\ DOMAIN u = 1..m
    <3>1. DOMAIN t = 1..Len(t)
      OBVIOUS
    <3> QED BY <2>0, <2>3, <3>1
  <2>5. ASSUME NEW k \in 1..(m - 1) PROVE k \in Nat \ {0} /\ k + 1 \in 1..m
    BY NextIn
  <2> QED BY <2>1, <2>2, <2>3, <2>4, <2>5
<1> HIDE DEF U, x
<1>8. /\ Increasing(U) /\ IdsOf(U) \subseteq IdsOf(W)
      /\ \A y \in IdsOf(W) : y \in IdsOf(U) \/ y = x
      /\ x # NoId => x \in IdsOf(W)
  BY <1>2, <1>5, PopWay DEF x
<1>9. ASSUME NEW b \in 1..5, NEW k \in DOMAIN U[b], U[b][k] # NoId, x # NoId
      PROVE  IF b <= a THEN U[b][k] < x ELSE x < U[b][k]
  <2>1. CASE b <= a
    <3>1. b < a + 1 /\ U[b] = W[b]
      BY <1>5, <2>1
    <3>2. W[b][k] < W[a+1][1]
      BY <1>2, <1>4, <1>6, <1>9, <3>1, IncreasingAt
    <3> QED BY <1>4, <2>1, <3>1, <3>2
  <2>2. CASE b = a + 1
    <3>1. k \in Nat \ {0} /\ k + 1 \in DOMAIN W[a+1] /\ U[b][k] = W[a+1][k+1] /\ 1 < k + 1
      <4>1. k \in DOMAIN Tail(W[a+1]) /\ U[b][k] = Tail(W[a+1])[k]
        BY <1>5, <1>9, <2>2
      <4>2. k \in Nat \ {0} /\ k + 1 \in DOMAIN W[a+1] /\ U[b][k] = W[a+1][k+1]
        BY <1>7, <4>1
      <4>3. 1 < k + 1
        BY <4>2
      <4> QED BY <4>2, <4>3
    <3>2. W[a+1][1] < W[a+1][k+1]
      BY <1>2, <1>4, <1>6, <1>9, <3>1, IncreasingAt
    <3>3. ~(b <= a)
      BY <2>2
    <3> QED BY <1>4, <3>1, <3>2, <3>3
  <2>3. CASE ~(b <= a) /\ b # a + 1
    <3>1. a + 1 < b /\ U[b] = W[b]
      BY <1>5, <2>3
    <3>2. W[a+1][1] < W[b][k]
      BY <1>2, <1>4, <1>6, <1>9, <3>1, IncreasingAt
    <3> QED BY <1>4, <2>3, <3>1, <3>2
  <2> QED BY <2>1, <2>2, <2>3
<1>10. V[a] = Append(U[a], x) /\ \A b \in 1..5 : b # a => V[b] = U[b]
  BY <1>2, <1>5 DEF x
<1>11. /\ Increasing(V)
       /\ \A y : y \in IdsOf(V) <=> y \in IdsOf(U) \/ (y = x /\ x # NoId)
  <2>1. \A b \in 1..5 : \A k \in DOMAIN U[b] :
           U[b][k] # NoId /\ x # NoId => IF b <= a THEN U[b][k] < x ELSE x < U[b][k]
    BY <1>9
  <2>2. a \in 1..5 /\ x \in Int /\ IsWay(U) /\ Increasing(U)
    BY <1>2, <1>4, <1>5, <1>8
  <2> HIDE DEF NoId
  <2> QED BY <1>10, <2>1, <2>2, AddToWay
<1>12. \A y : y \in IdsOf(W) => y # NoId
  BY IdsOfWay
<1>13. \A y : y \in IdsOf(V) <=> y \in IdsOf(W)
  BY <1>8, <1>11, <1>12
<1> QED BY <1>11, <1>13

\* The last stretch is joined to the one before.
LEMMA JoinWay ==
    ASSUME NEW W, IsWay(W), NEW V, V[4] = W[4] \o W[5], V[5] = << >>,
           \A b \in 1..3 : V[b] = W[b], Increasing(W)
    PROVE  Increasing(V) /\ IdsOf(V) = IdsOf(W)
<1>1. PICK n \in [1..5 -> Nat] : \A b \in 1..5 :
        DOMAIN W[b] = 1..n[b] /\ \A k \in 1..n[b] : W[b][k] \in Int
  BY WayLengths
<1>2. PICK m \in Nat, l \in Nat : m = n[4] /\ l = n[5]
  OBVIOUS
<1>3. /\ DOMAIN V[4] = 1..(m + l)
      /\ \A k \in 1..(m + l) : V[4][k] = IF k <= m THEN W[4][k] ELSE W[5][k - m]
  <2>1. PICK u \in Seq(Int), v \in Seq(Int) : u = W[4] /\ v = W[5]
    BY DEF IsWay
  <2>2. Len(u) = m /\ Len(v) = l
    BY <1>1, <1>2, <2>1
  <2>3. /\ u \o v \in Seq(Int) /\ Len(u \o v) = Len(u) + Len(v)
        /\ \A k \in 1..Len(u) + Len(v) : (u \o v)[k] = IF k <= Len(u) THEN u[k] ELSE v[k - Len(u)]
    BY ConcatProperties
  <2>4. PICK c \in Seq(Int) : c = u \o v
    BY <2>3
  <2>5. /\ DOMAIN c = 1..(m + l)
        /\ \A k \in 1..(m + l) : c[k] = IF k <= m THEN u[k] ELSE v[k - m]
    <3>1. Len(c) = m + l
      BY <2>2, <2>3, <2>4
    <3>2. DOMAIN c = 1..Len(c)
      OBVIOUS
    <3>3. \A k \in 1..(m + l) : c[k] = IF k <= m THEN u[k] ELSE v[k - m]
      BY <2>2, <2>3, <2>4
    <3> QED BY <3>1, <3>2, <3>3
  <2>6. c = V[4]
    BY <2>1, <2>4
  <2> QED BY <2>1, <2>5, <2>6
\* where an element of V is in W
<1> DEFINE part(b, k) == IF b = 4 /\ ~(k <= m) THEN 5 ELSE b
           at(b, k) == IF b = 4 /\ ~(k <= m) THEN k - m ELSE k
<1>4. ASSUME NEW b \in 1..5, NEW k \in DOMAIN V[b]
      PROVE  /\ part(b, k) \in 1..5 /\ at(b, k) \in DOMAIN W[part(b, k)]
             /\ V[b][k] = W[part(b, k)][at(b, k)] /\ b # 5 /\ k \in Nat
             /\ at(b, k) \in Nat
  <2>1. CASE b = 4 /\ k <= m
    <3>1. k \in 1..(m + l)
      BY <1>3, <1>4, <2>1
    <3>2. k \in 1..m
      BY <2>1, <3>1
    <3> QED BY <1>1, <1>2, <1>3, <2>1, <3>1, <3>2
  <2>2. CASE b = 4 /\ ~(k <= m)
    <3>1. k \in 1..(m + l)
      BY <1>3, <1>4, <2>2
    <3>2. k - m \in 1..l /\ k \in Nat /\ k - m \in Nat
      BY <2>2, <3>1
    <3>3. part(b, k) = 5 /\ at(b, k) = k - m
      BY <2>2
    <3>4. DOMAIN W[5] = 1..l
      BY <1>1, <1>2
    <3>5. V[b][k] = W[5][k - m]
      BY <1>3, <2>2, <3>1
    <3> HIDE DEF part, at
    <3> QED BY <2>2, <3>2, <3>3, <3>4, <3>5
  <2>3. CASE b \in 1..3
    <3>1. n[b] \in Nat /\ k \in 1..n[b]
      BY <1>1, <1>4, <2>3
    <3> QED BY <1>1, <1>4, <2>3, <3>1
  <2>4. CASE b = 5
    BY <1>4, <2>4
  <2> QED BY <2>1, <2>2, <2>3, <2>4
<1>5. ASSUME NEW b \in 1..5, NEW k \in DOMAIN W[b]
      PROVE  \E c \in 1..5 : \E i \in DOMAIN V[c] : V[c][i] = W[b][k]
  <2>1. CASE b \in 1..3
    BY <1>5, <2>1
  <2>2. CASE b = 4
    <3>1. k \in 1..m
      BY <1>1, <1>2, <1>5, <2>2
    <3>2. k \in 1..(m + l) /\ k <= m
      BY <3>1
    <3> QED BY <1>3, <2>2, <3>2
  <2>3. CASE b = 5
    <3>1. k \in 1..l
      BY <1>1, <1>2, <1>5, <2>3
    <3>2. k + m \in 1..(m + l) /\ ~(k + m <= m) /\ (k + m) - m = k
      BY <3>1
    <3>3. V[4][k + m] = W[5][k]
      BY <1>3, <3>2
    <3>4. 4 \in 1..5 /\ k + m \in DOMAIN V[4] /\ V[4][k + m] = W[b][k]
      BY <1>3, <2>3, <3>2, <3>3
    <3> QED BY <3>4
  <2> QED BY <2>1, <2>2, <2>3
<1>6. Increasing(V)
  <2> SUFFICES ASSUME NEW b \in 1..5, NEW c \in 1..5, NEW k \in DOMAIN V[b], NEW i \in DOMAIN V[c],
                      b < c \/ (b = c /\ k < i), V[b][k] # NoId, V[c][i] # NoId
               PROVE  V[b][k] < V[c][i]
    BY DEF Increasing
  <2>1. /\ part(b, k) \in 1..5 /\ at(b, k) \in DOMAIN W[part(b, k)]
        /\ V[b][k] = W[part(b, k)][at(b, k)] /\ b # 5 /\ k \in Nat
        /\ part(c, i) \in 1..5 /\ at(c, i) \in DOMAIN W[part(c, i)]
        /\ V[c][i] = W[part(c, i)][at(c, i)] /\ c # 5 /\ i \in Nat
    BY <1>4
  <2>2. part(b, k) < part(c, i) \/ (part(b, k) = part(c, i) /\ at(b, k) < at(c, i))
    <3>1. CASE b = c /\ k < i
      <4>1. k <= m \/ ~(i <= m)
        BY <2>1, <3>1
      <4> QED BY <2>1, <3>1, <4>1
    <3>2. CASE b < c
      <4>1. b \in 1..3
        BY <2>1, <3>2
      <4> QED BY <2>1, <3>2, <4>1
    <3> QED BY <3>1, <3>2
  <2> HIDE DEF part, at
  <2> QED BY <2>1, <2>2, IncreasingAt
<1>7. ASSUME NEW y PROVE y \in IdsOf(V) <=> y \in IdsOf(W)
  <2>1. ASSUME y \in IdsOf(V) PROVE y \in IdsOf(W)
    <3>1. y # NoId /\ \E b \in 1..5 : \E k \in DOMAIN V[b] : V[b][k] = y
      BY <2>1, IdsOfWay
    <3>2. PICK b \in 1..5 : \E k \in DOMAIN V[b] : V[b][k] = y
      BY <3>1
    <3>3. PICK k \in DOMAIN V[b] : V[b][k] = y
      BY <3>2
    <3>4. /\ part(b, k) \in 1..5 /\ at(b, k) \in DOMAIN W[part(b, k)]
          /\ W[part(b, k)][at(b, k)] = y
      BY <1>4, <3>3
    <3> HIDE DEF part, at
    <3> QED BY <3>1, <3>4, IdsOfWay
  <2>2. ASSUME y \in IdsOf(W) PROVE y \in IdsOf(V)
    <3>1. y # NoId /\ \E b \in 1..5 : \E k \in DOMAIN W[b] : W[b][k] = y
      BY <2>2, IdsOfWay
    <3>2. PICK b \in 1..5 : \E k \in DOMAIN W[b] : W[b][k] = y
      BY <3>1
    <3> QED BY <1>5, <3>1, <3>2, IdsOfWay
  <2> QED BY <2>1, <2>2
<1> QED BY <1>6, <1>7

---------------------------------------------------------------------------
(* Messages are about slots of the peer they go to or come from.           *)

LEMMA SlotsSame ==
    ASSUME Len(fs'.queue) = Len(fs.queue), fs'.peer = fs.peer
    PROVE  /\ Slots(fs') = Slots(fs)
           /\ \A p \in Peers : MessagesOf(p)' = MessagesOf(p)
           /\ MessagesRead' = MessagesRead
<1>1. Slots(fs') = Slots(fs)
  BY DEF Slots
<1>2. \A p \in Peers : MessagesOf(p)' = MessagesOf(p)
  BY <1>1 DEF MessagesOf, Slots
<1> QED BY <1>1, <1>2 DEF MessagesRead

LEMMA MessagesReadOK ==
    /\ MessagesRead \subseteq [from : Peers, msg : Message]
    /\ \A p : MessagesOf(p) \subseteq Message
BY DEF MessagesRead, MessagesOf

\* One more, one less, or none in the channel of a peer.
LEMMA OneChannel ==
    ASSUME NEW S, NEW s \in Seq(S)
    PROVE  /\ \A m \in S : Append(s, m) \in Seq(S)
           /\ s # << >> => Head(s) \in S /\ Tail(s) \in Seq(S)
           /\ << >> \in Seq(S)
           /\ \A t \in Seq(S) : s \o t \in Seq(S)
BY AppendProperties, HeadTailProperties, ConcatProperties

\* The methods of FileSharing other than new_peer keep slots and peers.
LEMMA PeersKept ==
    ASSUME NEW s, SharingOK(s)
    PROVE  /\ \A i \in Slots(s) : HasFront(s, i) =>
                 /\ Len(WriteFront(s, i).queue) = Len(s.queue) /\ WriteFront(s, i).peer = s.peer
                 /\ Len(DropFront(s, i).queue) = Len(s.queue) /\ DropFront(s, i).peer = s.peer
           /\ \A i \in Slots(s) : /\ UnsetPeerIdle(s, i).queue = s.queue
                                  /\ UnsetPeerIdle(s, i).peer = s.peer
           /\ \A seg \in Segment : /\ Len(PushSegment(s, seg).queue) = Len(s.queue)
                                   /\ PushSegment(s, seg).peer = s.peer
<1>1. ASSUME NEW i \in Slots(s)
      PROVE  /\ Len(WriteFront(s, i).queue) = Len(s.queue)
             /\ Len(DropFront(s, i).queue) = Len(s.queue)
  <2>1. Len([s.queue EXCEPT ![i] = Tail(@)]) = Len(s.queue)
    <3>1. s.queue \in Seq(Seq(Segment))
      BY DEF SharingOK, SharingState
    <3> QED BY <3>1
  <2> QED BY <2>1 DEF WriteFront, DropFront, SharingOK, SharingState
<1>2. \A seg \in Segment : Len(PushSegment(s, seg).queue) = Len(s.queue)
  BY PushSegmentOK
<1> QED BY <1>1, <1>2, MethodsKeep, PushKeeps

\* What a step does to slots and peers, unless it is of start_file_sharing.
LEMMA SlotsStay ==
    ASSUME TypeOK, [Next]_vars, ~StartFileSharing, ~AddOwner
    PROVE  Len(fs'.queue) = Len(fs.queue) /\ fs'.peer = fs.peer
<1> USE DEF netVars, userVars
<1>0. SharingOK(fs)
  BY DEF TypeOK
<1>1. ASSUME \/ \E f \in Files : ChangeMusic(f)
             \/ PauseMusic \/ FinishPause \/ PlayMusic \/ NewBufferedAudio \/ RaceOnVectors
             \/ Tick \/ ShouldPause \/ BeginWriting \/ SkipQueue \/ EndPass \/ BeginAsking \/ EndAsking
             \/ IgnoreNoSuchFile \/ StartWriting \/ UNCHANGED vars
             \/ \E p \in Peers : \/ Leave(p) \/ ReadMessage(p) \/ SenderStep(p)
                                 \/ \E f \in Files : HandleOtherPrepare(p, f)
      PROVE  fs'.queue = fs.queue /\ fs'.peer = fs.peer
  <2>1. fs' = fs \/ fs' \in {PauseWriting(fs), MustPause(fs), ResumeWriting(fs), StopMustPause(fs)}
    BY <1>1 DEF ChangeMusic, PauseMusic, FinishPause, PlayMusic, NewBufferedAudio, RaceOnVectors,
                Tick, ShouldPause, BeginWriting, SkipQueue, EndPass, BeginAsking, EndAsking,
                IgnoreNoSuchFile, StartWriting, vars, Leave, ReadMessage, SenderStep,
                HandlePrepareFileSharing, HandleGetSegment, HandleOtherPrepare
  <2> QED BY <1>0, <2>1, PauseKeeps
<1>2. ASSUME WriteSegment \/ DropSegment PROVE Len(fs'.queue) = Len(fs.queue) /\ fs'.peer = fs.peer
  <2>1. /\ io.slot \in Slots(fs) /\ HasFront(fs, io.slot)
        /\ fs' \in {fs, WriteFront(fs, io.slot), DropFront(fs, io.slot)}
    BY <1>2 DEF WriteSegment, DropSegment, AtQueue, Writable, Droppable
  <2> QED BY <1>0, <2>1, PeersKept
<1>3. ASSUME AskIdlePeer PROVE Len(fs'.queue) = Len(fs.queue) /\ fs'.peer = fs.peer
  <2>1. io.slot \in Slots(fs)
    BY <1>3 DEF AskIdlePeer
  <2>2. LET t == TakeSegmentId(fs)
        IN  SharingOK(t) /\ t.queue = fs.queue /\ t.peer = fs.peer /\ io.slot \in Slots(t)
    BY <1>0, <2>1, TakeSegmentIdOK, TakeKeeps DEF Slots
  <2> QED BY <1>0, <1>3, <2>1, <2>2, PeersKept DEF AskIdlePeer
<1>4. ASSUME HandlePreparedFileSharing PROVE Len(fs'.queue) = Len(fs.queue) /\ fs'.peer = fs.peer
  <2> DEFINE m == Head(inbox).msg
             t == SetFileInfo(fs, m.total, m.chunk, m.bytes)
  <2>1. m \in Message /\ m.total \in Int /\ m.chunk \in Nat /\ m.bytes \in Int
    BY <1>4, InboxOK, MessageFields DEF HandlePreparedFileSharing, Draining, TypeOK
  <2>2. SharingOK(t) /\ t.queue = fs.queue /\ t.peer = fs.peer
    BY <1>0, <2>1, SetFileInfoOK DEF SetFileInfo, SharingOK, SharingState
  <2> HIDE DEF t
  <2> QED BY <1>4, <2>2, TakeKeeps DEF HandlePreparedFileSharing, t
<1>5. ASSUME HandleReturnSegment PROVE Len(fs'.queue) = Len(fs.queue) /\ fs'.peer = fs.peer
  <2> DEFINE seg == Head(inbox).msg.seg
             got == PushSegment(fs, seg)
  <2>1. seg \in Segment
    BY <1>5, InboxOK, MessageFields DEF HandleReturnSegment, Draining, TypeOK
  <2>2. SharingOK(got) /\ Len(got.queue) = Len(fs.queue) /\ got.peer = fs.peer
    BY <1>0, <2>1, PushSegmentOK, PeersKept
  <2>3. fs' = got \/ fs' = TakeSegmentId(got)
    BY <1>5 DEF HandleReturnSegment
  <2> HIDE DEF got
  <2> QED BY <2>2, <2>3, TakeKeeps
<1> QED BY <1>1, <1>2, <1>3, <1>4, <1>5
        DEF Next, UserStep, GtkStep, HookStep, DrainStep, OtherStep

\* A message that is put into out_msgs, or answered, is about a slot of the peer.
LEMMA SlotsOfPeersNext ==
    ASSUME OneSession, TypeOK, Unstarted, SlotsOfPeers, [Next]_vars
    PROVE  SlotsOfPeers'
<1> USE DEF netVars, userVars
<1>0. /\ SharingOK(fs) /\ inbox \in Seq([from : Peers, msg : Message])
      /\ outbox \in [Peers -> Seq(Message)] /\ req \in [Peers -> Seq(Message)]
      /\ resp \in [Peers -> Seq(Message)]
  BY DEF TypeOK
<1>01. \A p \in Peers : /\ outbox[p] \in Seq(MessagesOf(p))
                         /\ req[p] \in Seq(MessagesOf(p))
                         /\ resp[p] \in Seq(MessagesOf(p))
  BY DEF SlotsOfPeers
<1>02. inbox \in Seq(MessagesRead)
  BY DEF SlotsOfPeers
<1>1. CASE StartFileSharing
  <2>1. gtk.file = NoFile
    BY <1>1, TransferAssumption DEF StartFileSharing, TypeOK, Unstarted
  <2>2. inbox' = << >> /\ \A p \in Peers : outbox'[p] = << >> /\ req'[p] = << >> /\ resp'[p] = << >>
    BY <1>1, <2>1 DEF StartFileSharing, Unstarted
  <2> QED BY <2>2, EmptySeq DEF SlotsOfPeers
<1>2. CASE AddOwner
  <2>1. /\ Head(gtk.todo) \in Peers /\ gtk.file \in Files
        /\ Len(fs.queue) \in Nat /\ Len(fs.peer) = Len(fs.queue) /\ fs.peer \in Seq(Peers)
    <3>1. fs.queue \in Seq(Seq(Segment)) /\ Len(fs.peer) = Len(fs.queue) /\ fs.peer \in Seq(Peers)
      BY <1>0 DEF SharingOK, SharingState, Aligned
    <3>2. Head(gtk.todo) \in Peers /\ gtk.file \in Files
      BY <1>2, HeadTailProperties DEF AddOwner, TypeOK, GtkState
    <3> QED BY <3>1, <3>2
  <2>2. PICK q \in Peers, n \in Nat \ {0}, m \in Message :
          q = Head(gtk.todo) /\ n = Len(fs.queue) + 1 /\ m = Prepare(n, gtk.file) /\ SlotOf(m) = n
    <3>1. PICK n \in Nat \ {0} : n = Len(fs.queue) + 1
      BY <2>1
    <3>2. Prepare(n, gtk.file) \in Message /\ SlotOf(Prepare(n, gtk.file)) = n
      BY <2>1, MessageOK DEF SlotOf, Prepare
    <3> QED BY <2>1, <3>1, <3>2
  <2>3. fs'.queue = Append(fs.queue, << >>) /\ fs'.peer = Append(fs.peer, q)
    BY <1>0, <1>2, <2>2 DEF AddOwner, NewPeer, SharingOK, SharingState
  <2>4. Slots(fs') = 1..n /\ fs'.peer[n] = q /\ \A i \in Slots(fs) : i \in 1..n /\ fs'.peer[i] = fs.peer[i]
    <3>1. fs.queue \in Seq(Seq(Segment)) /\ << >> \in Seq(Segment)
      BY <1>0 DEF SharingOK, SharingState
    <3>2. Len(fs'.queue) = n
      BY <2>2, <2>3, <3>1, AppendProperties
    <3>3. fs'.peer[n] = q /\ \A i \in 1..Len(fs.peer) : fs'.peer[i] = fs.peer[i]
      BY <2>1, <2>2, <2>3, AppendProperties
    <3> QED BY <2>1, <2>2, <3>2, <3>3 DEF Slots
  <2>5. \A p \in Peers : MessagesOf(p) \subseteq MessagesOf(p)'
    BY <2>4 DEF MessagesOf
  <2>6. MessagesRead \subseteq MessagesRead'
    BY <2>5 DEF MessagesRead
  <2>7. m \in MessagesOf(q)'
    <3>1. n \in 1..n
      OBVIOUS
    <3> QED BY <2>2, <2>4, <3>1 DEF MessagesOf
  <2>8. outbox' = [outbox EXCEPT ![q] = Append(@, m)] /\ UNCHANGED << req, resp, inbox >>
    BY <1>2, <2>2 DEF AddOwner, PushMessage
  <2>9. ASSUME NEW p \in Peers
        PROVE  /\ outbox'[p] \in Seq(MessagesOf(p)')
               /\ req'[p] \in Seq(MessagesOf(p)') /\ resp'[p] \in Seq(MessagesOf(p)')
    <3>1. /\ outbox[p] \in Seq(MessagesOf(p)')
          /\ req[p] \in Seq(MessagesOf(p)') /\ resp[p] \in Seq(MessagesOf(p)')
      BY <1>01, <2>5, SeqMono
    <3>2. p = q => Append(outbox[p], m) \in Seq(MessagesOf(p)')
      BY <2>7, <3>1, OneChannel
    <3> QED BY <1>0, <2>8, <3>1, <3>2
  <2>10. inbox' \in Seq(MessagesRead')
    BY <1>02, <2>6, <2>8, SeqMono
  <2> QED BY <2>9, <2>10 DEF SlotsOfPeers
<1>3. CASE ~StartFileSharing /\ ~AddOwner
  <2>0. Len(fs'.queue) = Len(fs.queue) /\ fs'.peer = fs.peer
    BY <1>3, SlotsStay
  <2>01. /\ \A p \in Peers : MessagesOf(p)' = MessagesOf(p)
         /\ MessagesRead' = MessagesRead
    BY <2>0, SlotsSame
  <2>02. SUFFICES /\ \A p \in Peers : /\ outbox'[p] \in Seq(MessagesOf(p))
                                       /\ req'[p] \in Seq(MessagesOf(p))
                                       /\ resp'[p] \in Seq(MessagesOf(p))
                  /\ inbox' \in Seq(MessagesRead)
    BY <2>01 DEF SlotsOfPeers
  <2>1. ASSUME \/ \E f \in Files : ChangeMusic(f)
               \/ PauseMusic \/ FinishPause \/ PlayMusic \/ NewBufferedAudio \/ RaceOnVectors
               \/ Tick \/ ShouldPause \/ BeginWriting \/ WriteSegment \/ DropSegment \/ SkipQueue
               \/ EndPass \/ BeginAsking \/ EndAsking \/ UNCHANGED vars
               \/ \E p \in Peers, f \in Files : HandleOtherPrepare(p, f)
        PROVE  UNCHANGED << outbox, req, resp, inbox >>
    BY <2>1 DEF ChangeMusic, PauseMusic, FinishPause, PlayMusic, NewBufferedAudio, RaceOnVectors, Tick,
                ShouldPause, BeginWriting, WriteSegment, DropSegment, SkipQueue, EndPass, BeginAsking,
                EndAsking, vars, HandleOtherPrepare
  <2>2. ASSUME NEW q \in Peers, NEW m \in MessagesOf(q), PushMessage(q, m) \/ outbox' = outbox
        PROVE  \A p \in Peers : outbox'[p] \in Seq(MessagesOf(p))
    <3>1. Append(outbox[q], m) \in Seq(MessagesOf(q))
      BY <1>01, <2>2, OneChannel
    <3> QED BY <1>0, <1>01, <2>2, <3>1 DEF PushMessage
  <2>3. ASSUME NEW q \in Peers, NEW id \in Nat, NEW slot \in Slots(fs), fs.peer[slot] = q
        PROVE  Get(slot, id) \in MessagesOf(q)
    <3>1. slot \in Nat \ {0}
      BY DEF Slots
    <3>2. Get(slot, id) \in Message /\ SlotOf(Get(slot, id)) = slot
      BY <3>1, MessageOK DEF SlotOf, Get
    <3> QED BY <2>3, <3>2 DEF MessagesOf
  <2>4. CASE AskIdlePeer
    <3>1. io.slot \in Slots(fs) /\ fs.peer[io.slot] \in Peers /\ NextSegmentId(fs) \in Nat
      BY <1>0, <2>4, SlotHasPeer, TakeSegmentIdOK DEF AskIdlePeer
    <3>2. Get(io.slot, NextSegmentId(fs)) \in MessagesOf(fs.peer[io.slot])
      BY <2>3, <3>1
    <3>3. \A p \in Peers : outbox'[p] \in Seq(MessagesOf(p))
      BY <2>2, <2>4, <3>1, <3>2 DEF AskIdlePeer
    <3> QED BY <1>01, <1>02, <2>4, <3>3 DEF AskIdlePeer
  <2>5. ASSUME Draining("prepared") \/ Draining("segment") \/ Draining("nofile")
        PROVE  /\ Head(inbox).from \in Peers /\ Head(inbox).msg \in MessagesOf(Head(inbox).from)
               /\ inbox' \in Seq(MessagesRead)
    <3>1. inbox # << >> /\ inbox' = Tail(inbox)
      BY <2>5 DEF Draining
    <3>2. Head(inbox) \in MessagesRead /\ Tail(inbox) \in Seq(MessagesRead)
      BY <1>02, <3>1, OneChannel
    <3> QED BY <3>1, <3>2 DEF MessagesRead
  <2>6. CASE HandlePreparedFileSharing
    <3> DEFINE q == Head(inbox).from
               m == Head(inbox).msg
    <3>1. /\ q \in Peers /\ m \in MessagesOf(q) /\ inbox' \in Seq(MessagesRead) /\ m.type = "prepared"
      BY <2>5, <2>6 DEF HandlePreparedFileSharing, Draining
    <3>2. m.slot \in Slots(fs) /\ fs.peer[m.slot] = q
      BY <3>1 DEF MessagesOf, SlotOf
    <3>3. Get(m.slot, NextSegmentId(fs)) \in MessagesOf(q)
      BY <1>0, <2>3, <3>1, <3>2, TakeSegmentIdOK
    <3>4. \A p \in Peers : outbox'[p] \in Seq(MessagesOf(p))
      BY <2>2, <2>6, <3>1, <3>3 DEF HandlePreparedFileSharing
    <3> QED BY <1>01, <2>6, <3>1, <3>4 DEF HandlePreparedFileSharing
  <2>7. CASE HandleReturnSegment
    <3> DEFINE q == Head(inbox).from
               m == Head(inbox).msg
               got == PushSegment(fs, m.seg)
    <3>1. /\ q \in Peers /\ m \in MessagesOf(q) /\ inbox' \in Seq(MessagesRead) /\ m.type = "segment"
      BY <2>5, <2>7 DEF HandleReturnSegment, Draining
    <3>2. m.seg.slot \in Slots(fs) /\ fs.peer[m.seg.slot] = q /\ m.seg \in Segment
      BY <3>1, MessageFields DEF MessagesOf, SlotOf
    <3>3. NextSegmentId(got) \in Nat
      BY <1>0, <3>2, PushSegmentOK, TakeSegmentIdOK
    <3>4. Get(m.seg.slot, NextSegmentId(got)) \in MessagesOf(q)
      BY <2>3, <3>1, <3>2, <3>3
    <3>5. \A p \in Peers : outbox'[p] \in Seq(MessagesOf(p))
      BY <2>2, <2>7, <3>1, <3>4 DEF HandleReturnSegment
    <3> QED BY <1>01, <2>7, <3>1, <3>5 DEF HandleReturnSegment
  <2>8. CASE IgnoreNoSuchFile
    BY <1>01, <2>5, <2>8 DEF IgnoreNoSuchFile
  <2>9. CASE StartWriting
    <3>1. \A p \in Peers : req[p] \o outbox[p] \in Seq(MessagesOf(p))
      BY <1>01, OneChannel
    <3>2. \A p \in Peers : req'[p] \in Seq(MessagesOf(p)) /\ outbox'[p] \in Seq(MessagesOf(p))
      BY <2>9, <3>1 DEF StartWriting
    <3> QED BY <1>01, <1>02, <2>9, <3>2 DEF StartWriting
  <2>10. ASSUME NEW q \in Peers, ReadMessage(q)
         PROVE  /\ inbox' \in Seq(MessagesRead)
                /\ \A p \in Peers : /\ outbox'[p] \in Seq(MessagesOf(p))
                                     /\ req'[p] \in Seq(MessagesOf(p))
                                     /\ resp'[p] \in Seq(MessagesOf(p))
    <3>1. Head(resp[q]) \in MessagesOf(q) /\ Tail(resp[q]) \in Seq(MessagesOf(q))
      BY <1>01, <2>10, OneChannel DEF ReadMessage
    <3>2. [from |-> q, msg |-> Head(resp[q])] \in MessagesRead
      BY <3>1, MessagesReadOK DEF MessagesRead
    <3>3. inbox' \in Seq(MessagesRead)
      BY <1>02, <2>10, <3>2, OneChannel DEF ReadMessage
    <3>4. \A p \in Peers : resp'[p] \in Seq(MessagesOf(p))
      BY <1>0, <1>01, <2>10, <3>1 DEF ReadMessage
    <3> QED BY <1>01, <2>10, <3>3, <3>4 DEF ReadMessage
  <2>11. ASSUME NEW q \in Peers, SenderStep(q)
         PROVE  /\ inbox' \in Seq(MessagesRead)
                /\ \A p \in Peers : /\ outbox'[p] \in Seq(MessagesOf(p))
                                     /\ req'[p] \in Seq(MessagesOf(p))
                                     /\ resp'[p] \in Seq(MessagesOf(p))
    <3> DEFINE m == Head(req[q])
    <3>1. /\ req[q] # << >> /\ req' = [req EXCEPT ![q] = Tail(@)]
          /\ m.type = "prepare" \/ m.type = "get"
          /\ UNCHANGED << outbox, inbox >>
      BY <2>11 DEF SenderStep, HandlePrepareFileSharing, HandleGetSegment, Received
    <3>2. m \in MessagesOf(q) /\ Tail(req[q]) \in Seq(MessagesOf(q))
      BY <1>01, <3>1, OneChannel
    <3>3. m.slot \in Slots(fs) /\ fs.peer[m.slot] = q /\ m \in Message
      BY <3>1, <3>2 DEF MessagesOf, SlotOf
    <3>4. \A p \in Peers : req'[p] \in Seq(MessagesOf(p))
      BY <1>0, <1>01, <3>1, <3>2
    <3>5. ASSUME NEW a \in Message, SlotOf(a) = m.slot, Answer(q, a)
          PROVE  \A p \in Peers : resp'[p] \in Seq(MessagesOf(p))
      <4>1. a \in MessagesOf(q)
        BY <3>3, <3>5 DEF MessagesOf
      <4>2. Append(resp[q], a) \in Seq(MessagesOf(q))
        BY <1>01, <4>1, OneChannel
      <4> QED BY <1>0, <1>01, <3>5, <4>2 DEF Answer
    <3>6. m.slot \in Nat \ {0}
      BY <3>3 DEF Slots
    <3>7. \A p \in Peers : resp'[p] \in Seq(MessagesOf(p))
      <4>1. CASE HandlePrepareFileSharing(q)
        <5>1. NoSuchFile(m.slot) \in Message /\ SlotOf(NoSuchFile(m.slot)) = m.slot
          BY <3>6, MessageOK DEF SlotOf, NoSuchFile
        <5>2. ASSUME m.file \in Holds[q]
              PROVE  /\ Prepared(m.slot, cf'[q]) \in Message
                     /\ SlotOf(Prepared(m.slot, cf'[q])) = m.slot
          <6>1. m.file \in Files
            BY <3>3, <4>1, MessageFields DEF HandlePrepareFileSharing, Received
          <6>2. cf \in [Peers -> ChunkState(Contents)]
            BY DEF TypeOK
          <6>3. OpenAt(q, m.file) \in ChunkState(Contents)
            BY <6>1, <6>2, OpenAtOK
          <6>4. cf'[q] = OpenAt(q, m.file)
            BY <4>1, <5>2, <6>2 DEF HandlePrepareFileSharing
          <6> QED BY <3>6, <6>3, <6>4, MessageOK DEF SlotOf, Prepared
        <5>3. \/ Answer(q, NoSuchFile(m.slot))
              \/ m.file \in Holds[q] /\ Answer(q, Prepared(m.slot, cf'[q]))
          BY <4>1 DEF HandlePrepareFileSharing
        <5> QED BY <3>5, <5>1, <5>2, <5>3
      <4>2. CASE HandleGetSegment(q)
        <5>1. m.id \in Nat /\ cf[q].file \in Contents
          BY <3>3, <4>2, MessageFields DEF HandleGetSegment, Received, TypeOK, ChunkState
        <5>2. Return(m.slot, m.id, cf[q].file) \in Message /\ SlotOf(Return(m.slot, m.id, cf[q].file)) = m.slot
          BY <3>6, <5>1, MessageOK DEF SlotOf, Return
        <5>3. resp' = resp \/ Answer(q, Return(m.slot, m.id, cf[q].file))
          BY <4>2 DEF HandleGetSegment
        <5> QED BY <1>01, <3>5, <5>2, <5>3
      <4> QED BY <2>11, <4>1, <4>2 DEF SenderStep
    <3> QED BY <1>01, <1>02, <3>1, <3>4, <3>7
  <2>12. ASSUME NEW q \in Peers, Leave(q)
         PROVE  /\ inbox' \in Seq(MessagesRead)
                /\ \A p \in Peers : /\ outbox'[p] \in Seq(MessagesOf(p))
                                     /\ req'[p] \in Seq(MessagesOf(p))
                                     /\ resp'[p] \in Seq(MessagesOf(p))
    <3>1. << >> \in Seq(MessagesOf(q))
      BY EmptySeq
    <3> QED BY <1>0, <1>01, <1>02, <2>12, <3>1 DEF Leave
  <2> QED BY <1>3, <1>01, <1>02, <2>1, <2>4, <2>6, <2>7, <2>8, <2>9, <2>10, <2>11, <2>12
          DEF Next, UserStep, GtkStep, HookStep, DrainStep, OtherStep
<1> QED BY <1>1, <1>2, <1>3

---------------------------------------------------------------------------
(* The parts of a pipeline, and what becomes of them. *)

QueueIds(segs)   == [k \in DOMAIN segs |-> segs[k].id]
ReadIds(i, read) == [k \in DOMAIN read |-> IdFor(i, read[k].msg)]

LEMMA IdForOK ==
    ASSUME NEW i
    PROVE  /\ \A m \in Message :
                 /\ IdFor(i, m) \in Int
                 /\ m.type \in {"prepare", "prepared", "nofile"} => IdFor(i, m) = NoId
                 /\ SlotOf(m) # i => IdFor(i, m) = NoId
           /\ \A slot, id, f : /\ IdFor(i, Get(slot, id)) = IF slot = i THEN id ELSE NoId
                               /\ IdFor(i, Return(slot, id, f)) = IF slot = i THEN id ELSE NoId
<1>1. ASSUME NEW m \in Message
      PROVE  /\ IdFor(i, m) \in Int
             /\ m.type \in {"prepare", "prepared", "nofile"} => IdFor(i, m) = NoId
             /\ SlotOf(m) # i => IdFor(i, m) = NoId
  <2>1. /\ m.type = "get" => m.id \in Int
        /\ m.type = "segment" => m.seg.id \in Int
    BY MessageFields DEF Segment
  <2>2. NoId \in Int
    BY DEF NoId
  <2> QED BY <2>1, <2>2 DEF IdFor, SlotOf
<1>2. \A slot, id, f : /\ IdFor(i, Get(slot, id)) = IF slot = i THEN id ELSE NoId
                       /\ IdFor(i, Return(slot, id, f)) = IF slot = i THEN id ELSE NoId
  BY DEF IdFor, Get, Return
<1> QED BY <1>1, <1>2

\* One more, one less, none.
LEMMA IdsMove ==
    ASSUME NEW i, NEW s \in Seq(Message)
    PROVE  /\ Ids(i, s) \in Seq(Int) /\ Ids(i, << >>) = << >>
           /\ s # << >> => /\ Ids(i, s) # << >> /\ Head(Ids(i, s)) = IdFor(i, Head(s))
                           /\ Ids(i, Tail(s)) = Tail(Ids(i, s))
           /\ \A m \in Message : Ids(i, Append(s, m)) = Append(Ids(i, s), IdFor(i, m))
           /\ \A t \in Seq(Message) : Ids(i, s \o t) = Ids(i, s) \o Ids(i, t)
<1>1. PICK f \in [Message -> Int] : f = [m \in Message |-> IdFor(i, m)]
  BY IdForOK
<1> DEFINE F(t) == MapBy(f, t)
<1>2. ASSUME NEW t \in Seq(Message) PROVE Ids(i, t) = F(t)
  <2>1. \A k \in DOMAIN t : t[k] \in Message
    BY <1>2
  <2> QED BY <1>1, <2>1 DEF Ids, MapBy
<1>3. \A m \in Message : f[m] = IdFor(i, m)
  BY <1>1
<1>4. << >> \in Seq(Message) /\ s \in Seq(Message)
  OBVIOUS
<1>5. s # << >> => Head(s) \in Message /\ Tail(s) \in Seq(Message)
  BY HeadTailProperties
<1>6. \A m \in Message : Append(s, m) \in Seq(Message)
  BY AppendProperties
<1>7. \A t \in Seq(Message) : s \o t \in Seq(Message)
  BY ConcatProperties
<1>8. /\ F(s) \in Seq(Int)
      /\ s = << >> => F(s) = << >>
      /\ s # << >> => /\ F(s) # << >>
                      /\ Head(F(s)) = f[Head(s)]
                      /\ F(Tail(s)) = Tail(F(s))
      /\ \A m \in Message : F(Append(s, m)) = Append(F(s), f[m])
  BY MapSeq
<1>10. \A t \in Seq(Message) : F(s \o t) = F(s) \o F(t)
  BY MapConcat
<1>9. F(<< >>) = << >>
  BY DEF MapBy
<1> HIDE DEF F
<1> QED BY <1>2, <1>3, <1>4, <1>5, <1>6, <1>7, <1>8, <1>9, <1>10

LEMMA IdsAppend ==
    ASSUME NEW i, NEW s \in Seq(Message), NEW m \in Message, NEW x, IdFor(i, m) = x
    PROVE  Ids(i, Append(s, m)) = Append(Ids(i, s), x)
BY IdsMove

LEMMA ReadIdsMove ==
    ASSUME NEW i, NEW s \in Seq([from : Peers, msg : Message])
    PROVE  /\ ReadIds(i, s) \in Seq(Int)
           /\ s # << >> => /\ ReadIds(i, s) # << >>
                           /\ Head(ReadIds(i, s)) = IdFor(i, Head(s).msg)
                           /\ ReadIds(i, Tail(s)) = Tail(ReadIds(i, s))
           /\ \A e \in [from : Peers, msg : Message] :
                 ReadIds(i, Append(s, e)) = Append(ReadIds(i, s), IdFor(i, e.msg))
<1> DEFINE S == [from : Peers, msg : Message]
<1>1. PICK f \in [S -> Int] : f = [e \in S |-> IdFor(i, e.msg)]
  BY IdForOK
<1> DEFINE F(t) == MapBy(f, t)
<1>2. ASSUME NEW t \in Seq(S) PROVE ReadIds(i, t) = F(t)
  <2> HIDE DEF S
  <2>1. \A k \in DOMAIN t : t[k] \in S
    BY <1>2
  <2> USE DEF S
  <2> QED BY <1>1, <2>1 DEF ReadIds, MapBy
<1>3. \A e \in S : f[e] = IdFor(i, e.msg)
  BY <1>1
<1> HIDE DEF S
<1>4. s \in Seq(S)
  BY DEF S
<1>5. s # << >> => Head(s) \in S /\ Tail(s) \in Seq(S)
  BY <1>4, HeadTailProperties
<1>6. \A e \in S : Append(s, e) \in Seq(S)
  BY <1>4, AppendProperties
<1>8. /\ F(s) \in Seq(Int)
      /\ s = << >> => F(s) = << >>
      /\ s # << >> => /\ F(s) # << >>
                      /\ Head(F(s)) = f[Head(s)]
                      /\ F(Tail(s)) = Tail(F(s))
      /\ \A m \in S : F(Append(s, m)) = Append(F(s), f[m])
  BY <1>4, MapSeq
<1> HIDE DEF F
<1>9. \A e \in S : ReadIds(i, Append(s, e)) = Append(ReadIds(i, s), IdFor(i, e.msg))
  BY <1>2, <1>3, <1>4, <1>6, <1>8
<1> QED BY <1>2, <1>3, <1>4, <1>5, <1>8, <1>9 DEF S

LEMMA QueueIdsMove ==
    ASSUME NEW s \in Seq(Segment)
    PROVE  /\ QueueIds(s) \in Seq(Int)
           /\ s # << >> => /\ QueueIds(s) # << >>
                           /\ Head(QueueIds(s)) = Head(s).id
                           /\ QueueIds(Tail(s)) = Tail(QueueIds(s))
           /\ \A seg \in Segment : QueueIds(Append(s, seg)) = Append(QueueIds(s), seg.id)
<1>1. PICK f \in [Segment -> Int] : f = [seg \in Segment |-> seg.id]
  <2>1. \A seg \in Segment : seg.id \in Int
    BY DEF Segment
  <2>2. [seg \in Segment |-> seg.id] \in [Segment -> Int]
    BY <2>1
  <2> QED BY <2>2
<1> DEFINE F(t) == MapBy(f, t)
<1>2. ASSUME NEW t \in Seq(Segment) PROVE QueueIds(t) = F(t)
  <2>1. \A k \in DOMAIN t : t[k] \in Segment
    BY <1>2
  <2> QED BY <1>1, <2>1 DEF QueueIds, MapBy
<1>3. \A seg \in Segment : f[seg] = seg.id
  BY <1>1
<1>5. s # << >> => Head(s) \in Segment /\ Tail(s) \in Seq(Segment)
  BY HeadTailProperties
<1>6. \A e \in Segment : Append(s, e) \in Seq(Segment)
  BY AppendProperties
<1>8. /\ F(s) \in Seq(Int)
      /\ s = << >> => F(s) = << >>
      /\ s # << >> => /\ F(s) # << >>
                      /\ Head(F(s)) = f[Head(s)]
                      /\ F(Tail(s)) = Tail(F(s))
      /\ \A m \in Segment : F(Append(s, m)) = Append(F(s), f[m])
  BY MapSeq
<1> HIDE DEF F
<1> QED BY <1>2, <1>3, <1>5, <1>6, <1>8

\* The pipeline of a slot whose peer stays, before and after.
LEMMA Parts ==
    ASSUME TypeOK, NEW i \in Slots(fs), NEW p \in Peers, fs.peer[i] = p
    PROVE  /\ IsWay(Pipeline(i))
           /\ Pipeline(i)[1] = QueueIds(fs.queue[i]) /\ Pipeline(i)[2] = ReadIds(i, inbox)
           /\ Pipeline(i)[3] = Ids(i, resp[p]) /\ Pipeline(i)[4] = Ids(i, req[p])
           /\ Pipeline(i)[5] = Ids(i, outbox[p])
           /\ fs.queue[i] \in Seq(Segment) /\ inbox \in Seq([from : Peers, msg : Message])
           /\ resp[p] \in Seq(Message) /\ req[p] \in Seq(Message) /\ outbox[p] \in Seq(Message)
<1>1. /\ fs.queue[i] \in Seq(Segment) /\ inbox \in Seq([from : Peers, msg : Message])
      /\ resp[p] \in Seq(Message) /\ req[p] \in Seq(Message) /\ outbox[p] \in Seq(Message)
  BY ElementOfSeq DEF TypeOK, SharingOK, SharingState, Slots
<1>2. /\ QueueIds(fs.queue[i]) \in Seq(Int) /\ ReadIds(i, inbox) \in Seq(Int)
      /\ Ids(i, resp[p]) \in Seq(Int) /\ Ids(i, req[p]) \in Seq(Int) /\ Ids(i, outbox[p]) \in Seq(Int)
  BY <1>1, QueueIdsMove, ReadIdsMove, IdsMove
<1>3. Pipeline(i) = << QueueIds(fs.queue[i]), ReadIds(i, inbox),
                       Ids(i, resp[p]), Ids(i, req[p]), Ids(i, outbox[p]) >>
  BY DEF Pipeline, QueueIds, ReadIds
<1> QED BY <1>1, <1>2, <1>3, WayIsFunction

LEMMA PartsNext ==
    ASSUME TypeOK', NEW i \in Slots(fs'), NEW p \in Peers, fs'.peer[i] = p
    PROVE  /\ IsWay(Pipeline(i)')
           /\ Pipeline(i)'[1] = QueueIds(fs'.queue[i]) /\ Pipeline(i)'[2] = ReadIds(i, inbox')
           /\ Pipeline(i)'[3] = Ids(i, resp'[p]) /\ Pipeline(i)'[4] = Ids(i, req'[p])
           /\ Pipeline(i)'[5] = Ids(i, outbox'[p])
           /\ fs'.queue[i] \in Seq(Segment) /\ inbox' \in Seq([from : Peers, msg : Message])
           /\ resp'[p] \in Seq(Message) /\ req'[p] \in Seq(Message) /\ outbox'[p] \in Seq(Message)
<1>1. /\ fs'.queue[i] \in Seq(Segment) /\ inbox' \in Seq([from : Peers, msg : Message])
      /\ resp'[p] \in Seq(Message) /\ req'[p] \in Seq(Message) /\ outbox'[p] \in Seq(Message)
  BY ElementOfSeq DEF TypeOK, SharingOK, SharingState, Slots
<1>2. /\ QueueIds(fs'.queue[i]) \in Seq(Int) /\ ReadIds(i, inbox') \in Seq(Int)
      /\ Ids(i, resp'[p]) \in Seq(Int) /\ Ids(i, req'[p]) \in Seq(Int) /\ Ids(i, outbox'[p]) \in Seq(Int)
  BY <1>1, QueueIdsMove, ReadIdsMove, IdsMove
<1>3. Pipeline(i)' = << QueueIds(fs'.queue[i]), ReadIds(i, inbox'),
                        Ids(i, resp'[p]), Ids(i, req'[p]), Ids(i, outbox'[p]) >>
  BY DEF Pipeline, QueueIds, ReadIds
<1> QED BY <1>1, <1>2, <1>3, WayIsFunction

---------------------------------------------------------------------------
(* What becomes of the pipeline of one slot.                               *)

LEMMA SameWay ==
    ASSUME NEW W, NEW V, Increasing(W), \A b \in 1..5 : V[b] = W[b]
    PROVE  Increasing(V) /\ IdsOf(V) = IdsOf(W)
<1>1. Increasing(V)
  BY DEF Increasing
<1>2. \A y : y \in IdsOf(V) <=> y \in IdsOf(W)
  BY IdsOfWay
<1> QED BY <1>1, <1>2

\* What is of no interest comes in, or goes.
LEMMA IdleWay ==
    ASSUME NEW W, IsWay(W), NEW V, NEW a \in 1..5, Increasing(W),
           V[a] = Append(W[a], NoId), \A b \in 1..5 : b # a => V[b] = W[b]
    PROVE  Increasing(V) /\ IdsOf(V) = IdsOf(W)
<1>1. PICK x \in Int : x = NoId
  BY DEF NoId
<1>2. V[a] = Append(W[a], x)
  BY <1>1
<1>3. \A b \in 1..5 : \A k \in DOMAIN W[b] :
         W[b][k] # NoId /\ x # NoId => IF b <= a THEN W[b][k] < x ELSE x < W[b][k]
  BY <1>1
<1>4. /\ Increasing(V)
      /\ \A y : y \in IdsOf(V) <=> y \in IdsOf(W) \/ (y = x /\ x # NoId)
  BY <1>2, <1>3, AddToWay
<1>5. \A y : y \in IdsOf(V) <=> y \in IdsOf(W)
  BY <1>1, <1>4
<1> QED BY <1>4, <1>5

LEMMA SkipWay ==
    ASSUME NEW W, IsWay(W), NEW V, IsWay(V), NEW a \in 1..5, W[a] # << >>, Head(W[a]) = NoId,
           V[a] = Tail(W[a]), \A b \in 1..5 : b # a => V[b] = W[b], Increasing(W)
    PROVE  Increasing(V) /\ IdsOf(V) = IdsOf(W)
<1>1. /\ Increasing(V) /\ IdsOf(V) \subseteq IdsOf(W)
      /\ IdsOf(W) \subseteq IdsOf(V) \cup {Head(W[a])}
  BY PopWay
<1>2. NoId \notin IdsOf(W)
  BY IdsOfWay
<1>3. \A y : y \in IdsOf(V) <=> y \in IdsOf(W)
  BY <1>1, <1>2
<1> QED BY <1>1, <1>3

\* One stretch after another is none.
LEMMA BareWay ==
    ASSUME NEW V, \A b \in 1..5 : \A k \in DOMAIN V[b] : V[b][k] = NoId
    PROVE  Increasing(V) /\ IdsOf(V) = {}
<1>1. Increasing(V)
  BY DEF Increasing
<1>2. \A y : y \notin IdsOf(V)
  BY IdsOfWay
<1> QED BY <1>1, <1>2

\* A segment is asked for last of all.
LEMMA AskWay ==
    ASSUME NEW U, IsWay(U), Increasing(U), NEW V, NEW x \in Int, V[5] = Append(U[5], x),
           \A b \in 1..4 : V[b] = U[b], \A y \in IdsOf(U) : y < x
    PROVE  /\ Increasing(V)
           /\ \A y : y \in IdsOf(V) <=> y \in IdsOf(U) \/ (y = x /\ x # NoId)
<1>1. \A b \in 1..5 : \A k \in DOMAIN U[b] : U[b][k] # NoId => U[b][k] \in IdsOf(U)
  BY IdsOfWay
<1>2. PICK a \in 1..5 : a = 5
  OBVIOUS
<1>3. \A b \in 1..5 : \A k \in DOMAIN U[b] :
         U[b][k] # NoId /\ x # NoId => IF b <= a THEN U[b][k] < x ELSE x < U[b][k]
  BY <1>1, <1>2
<1>4. V[a] = Append(U[a], x) /\ \A b \in 1..5 : b # a => V[b] = U[b]
  BY <1>2
<1> HIDE DEF NoId
<1> QED BY <1>3, <1>4, AddToWay

\* No slot is added, and none is given up.
Steady == Len(fs'.queue) = Len(fs.queue) /\ fs'.peer = fs.peer

LEMMA SteadyParts ==
    ASSUME TypeOK, TypeOK', Steady, NEW i \in Slots(fs)
    PROVE  LET p == fs.peer[i]
               W == Pipeline(i)
               V == Pipeline(i)'
           IN  /\ p \in Peers
               /\ IsWay(W) /\ IsWay(V)
               /\ W[1] = QueueIds(fs.queue[i]) /\ W[2] = ReadIds(i, inbox)
               /\ W[3] = Ids(i, resp[p]) /\ W[4] = Ids(i, req[p]) /\ W[5] = Ids(i, outbox[p])
               /\ V[1] = QueueIds(fs'.queue[i]) /\ V[2] = ReadIds(i, inbox')
               /\ V[3] = Ids(i, resp'[p]) /\ V[4] = Ids(i, req'[p]) /\ V[5] = Ids(i, outbox'[p])
               /\ fs.queue[i] \in Seq(Segment)
               /\ resp[p] \in Seq(Message) /\ req[p] \in Seq(Message) /\ outbox[p] \in Seq(Message)
<1>1. PICK p \in Peers : p = fs.peer[i]
  <2>1. SharingOK(fs)
    BY DEF TypeOK
  <2>2. fs.peer \in Seq(Peers) /\ i \in 1..Len(fs.peer)
    BY <2>1 DEF SharingOK, SharingState, Aligned, Slots
  <2> QED BY <2>2
<1>2. i \in Slots(fs') /\ fs'.peer[i] = p
  BY <1>1 DEF Steady, Slots
<1>3. fs'.peer[i] = fs.peer[i]
  BY DEF Steady
<1>4. /\ IsWay(Pipeline(i))
      /\ Pipeline(i)[1] = QueueIds(fs.queue[i]) /\ Pipeline(i)[2] = ReadIds(i, inbox)
      /\ Pipeline(i)[3] = Ids(i, resp[p]) /\ Pipeline(i)[4] = Ids(i, req[p])
      /\ Pipeline(i)[5] = Ids(i, outbox[p]) /\ fs.queue[i] \in Seq(Segment)
      /\ resp[p] \in Seq(Message) /\ req[p] \in Seq(Message) /\ outbox[p] \in Seq(Message)
  BY <1>1, Parts
<1>5. /\ IsWay(Pipeline(i)')
      /\ Pipeline(i)'[1] = QueueIds(fs'.queue[i]) /\ Pipeline(i)'[2] = ReadIds(i, inbox')
      /\ Pipeline(i)'[3] = Ids(i, resp'[p]) /\ Pipeline(i)'[4] = Ids(i, req'[p])
      /\ Pipeline(i)'[5] = Ids(i, outbox'[p])
  BY <1>2, PartsNext
<1> QED BY <1>1, <1>3, <1>4, <1>5

LEMMA MergeParts ==
    ASSUME PipelinesMerge, NEW i \in Slots(fs)
    PROVE  Increasing(Pipeline(i)) /\ \A k \in Asked(i) : k \in UnderWay /\ k <= fs.csi
BY DEF PipelinesMerge, UnderWay

\* Nothing happens to a slot.
LEMMA StillSlot ==
    ASSUME PipelinesMerge, Steady, NEW i \in Slots(fs), fs'.queue[i] = fs.queue[i],
           UNCHANGED inbox, resp'[fs.peer[i]] = resp[fs.peer[i]], req'[fs.peer[i]] = req[fs.peer[i]],
           outbox'[fs.peer[i]] = outbox[fs.peer[i]]
    PROVE  Increasing(Pipeline(i)') /\ Asked(i)' = Asked(i)
<1>1. Pipeline(i)' = Pipeline(i)
  BY DEF Pipeline, Steady, Ids
<1> QED BY <1>1, MergeParts DEF Asked

\* The front of a queue goes (try_writing_segment).
LEMMA PopSlot ==
    ASSUME TypeOK, TypeOK', PipelinesMerge, Steady, NEW i \in Slots(fs), HasFront(fs, i),
           fs'.queue[i] = Tail(fs.queue[i]), UNCHANGED << inbox, resp, req, outbox >>
    PROVE  /\ Increasing(Pipeline(i)')
           /\ \A k : k \in Asked(i)' <=> k \in Asked(i) /\ k # Front(fs, i).id
           /\ Front(fs, i).id \in Asked(i)
<1>1. PICK W, V : W = Pipeline(i) /\ V = Pipeline(i)'
  OBVIOUS
<1>2. /\ IsWay(W) /\ IsWay(V) /\ Increasing(W) /\ V[1] = Tail(W[1]) /\ W[1] # << >>
      /\ Head(W[1]) = Front(fs, i).id /\ \A b \in 1..5 : b # 1 => V[b] = W[b]
  <2>1. fs.queue[i] \in Seq(Segment) /\ fs.queue[i] # << >>
    BY SteadyParts DEF HasFront
  <2>2. /\ QueueIds(fs.queue[i]) # << >>
        /\ Head(QueueIds(fs.queue[i])) = Head(fs.queue[i]).id
        /\ QueueIds(Tail(fs.queue[i])) = Tail(QueueIds(fs.queue[i]))
    BY <2>1, QueueIdsMove
  <2>3. /\ IsWay(W) /\ IsWay(V) /\ W[1] = QueueIds(fs.queue[i]) /\ V[1] = QueueIds(fs'.queue[i])
        /\ V[2] = W[2] /\ V[3] = W[3] /\ V[4] = W[4] /\ V[5] = W[5]
    BY <1>1, SteadyParts
  <2>4. \A b \in 1..5 : b # 1 => V[b] = W[b]
    BY <2>3
  <2> QED BY <1>1, <2>2, <2>3, <2>4, MergeParts DEF Front
<1>3. 1 \in 1..5
  OBVIOUS
<1>4. /\ Increasing(V) /\ IdsOf(V) \subseteq IdsOf(W)
      /\ IdsOf(W) \subseteq IdsOf(V) \cup {Head(W[1])} /\ Head(W[1]) \notin IdsOf(V)
      /\ Head(W[1]) # NoId => Head(W[1]) \in IdsOf(W)
  BY <1>2, <1>3, PopWay
<1>5. Front(fs, i).id # NoId
  BY FrontOK DEF TypeOK, Segment, NoId
<1> QED BY <1>1, <1>2, <1>4, <1>5 DEF Asked

\* After whatever is read, something may be asked of a slot (if_idle and the
\* handlers of the io thread).
LEMMA AskSlot ==
    ASSUME TypeOK, TypeOK', PipelinesMerge, Steady, NEW i \in Slots(fs),
           NEW U, IsWay(U), Increasing(U), IdsOf(U) = Asked(i), U[5] = Pipeline(i)[5],
           \A b \in 1..4 : Pipeline(i)'[b] = U[b],
           NEW s \in Slots(fs), PushMessage(fs.peer[s], Get(s, fs.csi + 1))
    PROVE  /\ Increasing(Pipeline(i)')
           /\ \A k : k \in Asked(i)' <=> k \in Asked(i) \/ (i = s /\ k = fs.csi + 1)
<1>1. PICK W, V : W = Pipeline(i) /\ V = Pipeline(i)'
  OBVIOUS
<1>2. PICK p \in Peers, q \in Peers, x \in Nat : p = fs.peer[i] /\ q = fs.peer[s] /\ x = fs.csi + 1
  <2>1. fs.csi + 1 \in Nat
    BY TakeSegmentIdOK DEF TypeOK, NextSegmentId
  <2> QED BY <2>1, SteadyParts
<1>3. /\ IsWay(V) /\ U[5] = Ids(i, outbox[p]) /\ V[5] = Ids(i, outbox'[p])
      /\ outbox[p] \in Seq(Message) /\ outbox \in [Peers -> Seq(Message)]
  BY <1>1, <1>2, SteadyParts DEF TypeOK
<1>4. \A b \in 1..4 : V[b] = U[b]
  BY <1>1
<1>5. x # NoId /\ \A y \in IdsOf(U) : y < x
  <2>1. \A y \in IdsOf(U) : y <= fs.csi /\ y \in Int
    <3>1. \A y \in IdsOf(U) : y \in Int
      <4>1. \A b \in 1..5 : U[b] \in Seq(Int)
        BY DEF IsWay
      <4>2. \A b \in 1..5 : \A k \in DOMAIN U[b] : U[b][k] \in Int
        BY <4>1
      <4> QED BY <4>2, IdsOfWay
    <3> QED BY <3>1, MergeParts
  <2>2. fs.csi \in Int
    BY DEF TypeOK, SharingOK, SharingState
  <2> QED BY <1>2, <2>1, <2>2 DEF NoId
<1>6. outbox' = [outbox EXCEPT ![q] = Append(@, Get(s, x))] /\ Get(s, x) \in Message
  <2>1. s \in Nat \ {0}
    BY DEF Slots
  <2> QED BY <1>2, <2>1, MessageOK DEF PushMessage
<1>7. CASE i = s
  <2>1. outbox'[p] = Append(outbox[p], Get(s, x))
    BY <1>2, <1>3, <1>6, <1>7
  <2>2. IdFor(i, Get(s, x)) = x
    BY <1>7, IdForOK
  <2>3. V[5] = Append(U[5], x)
    BY <1>3, <1>6, <2>1, <2>2, IdsAppend
  <2>4. x \in Int
    OBVIOUS
  <2>5. /\ Increasing(V)
        /\ \A y : y \in IdsOf(V) <=> y \in IdsOf(U) \/ (y = x /\ x # NoId)
    BY <1>4, <1>5, <2>3, <2>4, AskWay
  <2> QED BY <1>1, <1>2, <1>5, <1>7, <2>5 DEF Asked
<1>8. CASE i # s /\ p = q
  <2>1. outbox'[p] = Append(outbox[p], Get(s, x))
    BY <1>3, <1>6, <1>8
  <2>2. IdFor(i, Get(s, x)) = NoId
    BY <1>8, IdForOK
  <2>3. V[5] = Append(U[5], NoId)
    BY <1>3, <1>6, <2>1, <2>2, IdsAppend
  <2>4. 5 \in 1..5 /\ \A b \in 1..5 : b # 5 => V[b] = U[b]
    BY <1>4
  <2>5. Increasing(V) /\ IdsOf(V) = IdsOf(U)
    BY <2>3, <2>4, IdleWay
  <2> QED BY <1>1, <1>8, <2>5 DEF Asked
<1>9. CASE p # q
  <2>1. outbox'[p] = outbox[p] /\ i # s
    BY <1>2, <1>3, <1>6, <1>9
  <2>2. \A b \in 1..5 : V[b] = U[b]
    BY <1>3, <1>4, <2>1
  <2>3. Increasing(V) /\ IdsOf(V) = IdsOf(U)
    BY <2>2, SameWay
  <2> QED BY <1>1, <2>1, <2>3 DEF Asked
<1> QED BY <1>7, <1>8, <1>9

---------------------------------------------------------------------------
(* What a step does to all pipelines.                                      *)

\* The segment k may be lost: given to the player or dropped, not to be read
\* from the file, or under way when a peer disconnects.
Lost(k) ==
    \/ WriteSegment /\ k = fs.cwi /\ fs'.cwi = k + 1
    \/ DropSegment /\ k = Front(fs, io.slot).id
    \/ \E p \in Peers : HandleGetSegment(p) /\ k = Head(req[p]).id /\ ~CanGet(cf[p], k)
    \/ gone' # {}

\* What was asked moves on, and slot s, if any, is asked for the next segment.
Moves(s) ==
    /\ fs'.csi = IF s = 0 THEN fs.csi ELSE fs.csi + 1
    /\ \A i \in Slots(fs) :
          /\ Increasing(Pipeline(i)')
          /\ \A k \in Asked(i)' : k \in Asked(i) \/ (i = s /\ k = fs.csi + 1)
          /\ \A k \in Asked(i) : k \in Asked(i)' \/ Lost(k)
    /\ s # 0 => fs.csi + 1 \in Asked(s)'

\* The two of them when nobody asks.
LEMMA MovesOn ==
    ASSUME fs'.csi = fs.csi,
           \A i \in Slots(fs) : /\ Increasing(Pipeline(i)') /\ Asked(i)' \subseteq Asked(i)
                                /\ \A k \in Asked(i) : k \in Asked(i)' \/ Lost(k)
    PROVE  Moves(0)
BY DEF Moves

LEMMA QuietMoves ==
    ASSUME TypeOK, PipelinesMerge, Steady, fs'.queue = fs.queue, fs'.csi = fs.csi,
           UNCHANGED << inbox, resp, req, outbox >>
    PROVE  Moves(0)
<1>1. \A i \in Slots(fs) : Increasing(Pipeline(i)') /\ Asked(i)' = Asked(i)
  BY StillSlot
<1> QED BY <1>1, MovesOn

\* try_writing_segment takes a front.
LEMMA FrontTaken ==
    ASSUME TypeOK, TypeOK', PipelinesMerge, Steady, io.slot \in Slots(fs), HasFront(fs, io.slot),
           \/ fs' = WriteFront(fs, io.slot)
           \/ fs' = DropFront(fs, io.slot),
           UNCHANGED << inbox, resp, req, outbox >>
    PROVE  LET id == Front(fs, io.slot).id
           IN  /\ fs'.csi = fs.csi
               /\ \A i \in Slots(fs) :
                     /\ Increasing(Pipeline(i)')
                     /\ \A k : k \in Asked(i)' <=> k \in Asked(i) /\ k # id
               /\ id \in Asked(io.slot)
<1>1. PICK n \in Slots(fs), id \in Nat : n = io.slot /\ id = Front(fs, io.slot).id
  BY FrontOK DEF TypeOK, Segment
<1>2. SharingOK(fs)
  BY DEF TypeOK
<1>3. fs'.csi = fs.csi
  BY <1>2, MethodsKeep
<1>4. fs'.queue = [fs.queue EXCEPT ![n] = Tail(@)]
  BY <1>1, <1>2 DEF WriteFront, DropFront, SharingOK, SharingState
<1>5. fs.queue \in Seq(Seq(Segment)) /\ DOMAIN fs.queue = Slots(fs)
  BY <1>2 DEF SharingOK, SharingState, Slots
<1>6. /\ Increasing(Pipeline(n)')
      /\ \A k : k \in Asked(n)' <=> k \in Asked(n) /\ k # id
      /\ id \in Asked(n)
  <2>1. fs'.queue[n] = Tail(fs.queue[n])
    BY <1>4, <1>5
  <2> QED BY <1>1, <2>1, PopSlot
<1>7. ASSUME NEW i \in Slots(fs), i # n
      PROVE  /\ Increasing(Pipeline(i)')
             /\ \A k : k \in Asked(i)' <=> k \in Asked(i) /\ k # id
  <2>1. fs'.queue[i] = fs.queue[i]
    BY <1>4, <1>5, <1>7
  <2>2. Increasing(Pipeline(i)') /\ Asked(i)' = Asked(i)
    BY <2>1, StillSlot
  <2>3. Asked(i) \cap Asked(n) = {}
    BY <1>7 DEF PipelinesMerge
  <2> QED BY <1>6, <2>2, <2>3
<1> QED BY <1>1, <1>3, <1>6, <1>7

LEMMA TakenMoves ==
    ASSUME TypeOK, TypeOK', PipelinesMerge, Steady, WriteSegment \/ DropSegment
    PROVE  Moves(0)
<1> USE DEF netVars, userVars
<1>0. /\ io.slot \in Slots(fs) /\ HasFront(fs, io.slot)
      /\ UNCHANGED << inbox, resp, req, outbox >>
  BY DEF WriteSegment, DropSegment, AtQueue, Writable, Droppable
<1>1. CASE fs' = fs
  BY <1>0, <1>1, QuietMoves
<1>2. CASE fs' = WriteFront(fs, io.slot) \/ fs' = DropFront(fs, io.slot)
  <2>1. /\ fs'.csi = fs.csi
        /\ \A i \in Slots(fs) :
              /\ Increasing(Pipeline(i)')
              /\ \A k : k \in Asked(i)' <=> k \in Asked(i) /\ k # Front(fs, io.slot).id
    BY <1>0, <1>2, FrontTaken
  <2>2. fs' # fs => Lost(Front(fs, io.slot).id)
    <3>1. CASE WriteSegment /\ fs' # fs
      <4>1. fs' = WriteFront(fs, io.slot) /\ Front(fs, io.slot).id = fs.cwi
        BY <3>1 DEF WriteSegment, Writable
      <4>2. fs'.cwi = fs.cwi + 1
        BY <1>0, <4>1, MethodsKeep DEF TypeOK
      <4> QED BY <3>1, <4>1, <4>2 DEF Lost
    <3>2. CASE DropSegment
      BY <3>2 DEF Lost
    <3> QED BY <3>1, <3>2
  <2>3. CASE fs' # fs
    BY <2>1, <2>2, <2>3, MovesOn
  <2> QED BY <1>1, <2>3
<1> QED BY <1>1, <1>2 DEF WriteSegment, DropSegment

\* From one slot that asks to all.
LEMMA AskMoves ==
    ASSUME NEW s \in Slots(fs), fs'.csi = fs.csi + 1,
           \A i \in Slots(fs) :
              /\ Increasing(Pipeline(i)')
              /\ \A k : k \in Asked(i)' <=> k \in Asked(i) \/ (i = s /\ k = fs.csi + 1)
    PROVE  Moves(s)
<1>1. s # 0
  BY DEF Slots
<1> QED BY <1>1 DEF Moves

LEMMA IdleMoves ==
    ASSUME TypeOK, TypeOK', PipelinesMerge, Steady, AskIdlePeer
    PROVE  \E s \in Slots(fs) \cup {0} : Moves(s)
<1> USE DEF netVars, userVars
<1>0. PICK s \in Slots(fs) : s = io.slot
  BY DEF AskIdlePeer
<1>1. SharingOK(fs) /\ UNCHANGED << inbox, resp, req >>
  BY DEF TypeOK, AskIdlePeer
<1>2. CASE ~fs.idle[s] \/ AllSegmentsAsked(fs)
  <2>1. outbox' = outbox /\ (fs' = fs \/ fs' = UnsetPeerIdle(fs, s))
    BY <1>0, <1>2 DEF AskIdlePeer
  <2>2. fs'.csi = fs.csi /\ fs'.queue = fs.queue
    BY <1>1, <2>1, MethodsKeep
  <2>3. Moves(0)
    BY <1>1, <2>1, <2>2, QuietMoves
  <2> QED BY <2>3
<1>3. CASE fs.idle[s] /\ ~AllSegmentsAsked(fs)
  <2>1. /\ fs' = UnsetPeerIdle(TakeSegmentId(fs), s)
        /\ PushMessage(fs.peer[s], Get(s, fs.csi + 1))
    BY <1>0, <1>3 DEF AskIdlePeer, NextSegmentId
  <2>2. SharingOK(TakeSegmentId(fs)) /\ s \in Slots(TakeSegmentId(fs))
    BY <1>1, TakeSegmentIdOK, TakeKeeps DEF Slots
  <2>3. fs'.queue = fs.queue /\ fs'.csi = fs.csi + 1
    BY <1>1, <2>1, <2>2, MethodsKeep, TakeKeeps
  <2>4. ASSUME NEW i \in Slots(fs)
        PROVE  /\ Increasing(Pipeline(i)')
               /\ \A k : k \in Asked(i)' <=> k \in Asked(i) \/ (i = s /\ k = fs.csi + 1)
    <3>1. IsWay(Pipeline(i)) /\ \A b \in 1..4 : Pipeline(i)'[b] = Pipeline(i)[b]
      <4>1. /\ IsWay(Pipeline(i))
            /\ Pipeline(i)'[1] = Pipeline(i)[1] /\ Pipeline(i)'[2] = Pipeline(i)[2]
            /\ Pipeline(i)'[3] = Pipeline(i)[3] /\ Pipeline(i)'[4] = Pipeline(i)[4]
        BY <1>1, <2>3, SteadyParts
      <4> QED BY <4>1
    <3>2. Increasing(Pipeline(i)) /\ IdsOf(Pipeline(i)) = Asked(i)
      BY MergeParts DEF Asked
    <3> QED BY <2>1, <3>1, <3>2, AskSlot
  <2>5. Moves(s)
    BY <2>3, <2>4, AskMoves
  <2> QED BY <2>5
<1> QED BY <1>2, <1>3

\* What has been read and does not ask: its head goes, of interest to no slot
\* or to that of a segment.
LEMMA InboxHead ==
    ASSUME TypeOK, SlotsOfPeers, inbox # << >>
    PROVE  LET e == Head(inbox)
           IN  /\ e \in [from : Peers, msg : Message]
               /\ SlotOf(e.msg) \in Slots(fs) /\ fs.peer[SlotOf(e.msg)] = e.from
               /\ \A i : /\ ReadIds(i, inbox) # << >>
                         /\ Head(ReadIds(i, inbox)) = IdFor(i, e.msg)
                         /\ ReadIds(i, Tail(inbox)) = Tail(ReadIds(i, inbox))
<1>1. Head(inbox) \in MessagesRead
  BY OneChannel DEF SlotsOfPeers
<1>2. Head(inbox) \in [from : Peers, msg : Message] /\ inbox \in Seq([from : Peers, msg : Message])
  BY <1>1, MessagesReadOK DEF TypeOK
<1>3. Head(inbox).msg \in MessagesOf(Head(inbox).from)
  BY <1>1 DEF MessagesRead
<1>4. /\ SlotOf(Head(inbox).msg) \in Slots(fs)
      /\ fs.peer[SlotOf(Head(inbox).msg)] = Head(inbox).from
  BY <1>3 DEF MessagesOf
<1> QED BY <1>2, <1>4, ReadIdsMove

\* A way as it is when the last of it has still to come.
Before(W, V) == [b \in 1..5 |-> IF b = 5 THEN W[5] ELSE V[b]]

LEMMA BeforeOK ==
    ASSUME NEW W, IsWay(W), NEW V, IsWay(V)
    PROVE  /\ IsWay(Before(W, V)) /\ Before(W, V)[5] = W[5]
           /\ \A b \in 1..5 : b # 5 => Before(W, V)[b] = V[b]
BY DEF IsWay, Before

LEMMA IgnoreMoves ==
    ASSUME TypeOK, TypeOK', PipelinesMerge, SlotsOfPeers, Steady, IgnoreNoSuchFile
    PROVE  Moves(0)
<1> USE DEF netVars, userVars
<1>1. /\ inbox # << >> /\ inbox' = Tail(inbox) /\ Head(inbox).msg.type = "nofile"
      /\ UNCHANGED << fs, resp, req, outbox >>
  BY DEF IgnoreNoSuchFile, Draining
<1>2. ASSUME NEW i \in Slots(fs) PROVE Increasing(Pipeline(i)') /\ Asked(i)' = Asked(i)
  <2>1. PICK W, V : W = Pipeline(i) /\ V = Pipeline(i)'
    OBVIOUS
  <2>2. /\ IsWay(W) /\ IsWay(V) /\ W[2] = ReadIds(i, inbox) /\ V[2] = ReadIds(i, inbox')
        /\ V[1] = W[1] /\ V[3] = W[3] /\ V[4] = W[4] /\ V[5] = W[5]
    BY <1>1, <2>1, SteadyParts
  <2>3. W[2] # << >> /\ Head(W[2]) = NoId /\ V[2] = Tail(W[2])
    BY <1>1, <2>2, InboxHead, IdForOK
  <2>4. 2 \in 1..5 /\ \A b \in 1..5 : b # 2 => V[b] = W[b]
    BY <2>2
  <2>5. Increasing(W)
    BY <2>1, MergeParts
  <2>6. Increasing(V) /\ IdsOf(V) = IdsOf(W)
    BY <2>2, <2>3, <2>4, <2>5, SkipWay
  <2> QED BY <2>1, <2>6 DEF Asked
<1> QED BY <1>1, <1>2, MovesOn

LEMMA PreparedMoves ==
    ASSUME TypeOK, TypeOK', PipelinesMerge, SlotsOfPeers, Steady, HandlePreparedFileSharing
    PROVE  \E s \in Slots(fs) \cup {0} : Moves(s)
<1> USE DEF netVars, userVars
<1>0. /\ inbox # << >> /\ inbox' = Tail(inbox) /\ Head(inbox).msg.type = "prepared"
      /\ UNCHANGED << resp, req >> /\ SharingOK(fs)
  BY DEF HandlePreparedFileSharing, Draining, TypeOK
<1>1. PICK s \in Slots(fs), m \in Message :
        m = Head(inbox).msg /\ s = m.slot /\ fs.peer[s] = Head(inbox).from
  BY <1>0, InboxHead DEF SlotOf
<1>2. PushMessage(fs.peer[s], Get(s, fs.csi + 1))
  BY <1>1 DEF HandlePreparedFileSharing, NextSegmentId
<1>3. fs'.queue = fs.queue /\ fs'.csi = fs.csi + 1
  <2> DEFINE t == SetFileInfo(fs, m.total, m.chunk, m.bytes)
  <2>1. m.total \in Int /\ m.chunk \in Nat /\ m.bytes \in Int
    BY <1>0, <1>1, MessageFields
  <2>2. SharingOK(t) /\ t.queue = fs.queue /\ t.csi = fs.csi
    BY <1>0, <2>1, SetFileInfoOK DEF SetFileInfo, SharingOK, SharingState
  <2>3. fs' = TakeSegmentId(t)
    BY <1>1 DEF HandlePreparedFileSharing
  <2> HIDE DEF t
  <2> QED BY <2>2, <2>3, TakeKeeps
<1>4. ASSUME NEW i \in Slots(fs)
      PROVE  /\ Increasing(Pipeline(i)')
             /\ \A k : k \in Asked(i)' <=> k \in Asked(i) \/ (i = s /\ k = fs.csi + 1)
  <2>1. PICK W, V, U : W = Pipeline(i) /\ V = Pipeline(i)' /\ U = Before(W, V)
    OBVIOUS
  <2>2. /\ IsWay(W) /\ IsWay(V) /\ W[2] = ReadIds(i, inbox) /\ V[2] = ReadIds(i, inbox')
        /\ V[1] = W[1] /\ V[3] = W[3] /\ V[4] = W[4]
    BY <1>0, <1>3, <2>1, SteadyParts
  <2>3. W[2] # << >> /\ Head(W[2]) = NoId /\ V[2] = Tail(W[2])
    BY <1>0, <2>2, InboxHead, IdForOK
  <2>4. IsWay(U) /\ U[5] = W[5] /\ \A b \in 1..5 : b # 5 => U[b] = V[b]
    BY <2>1, <2>2, BeforeOK
  <2>5. 2 \in 1..5 /\ U[2] = Tail(W[2]) /\ \A b \in 1..5 : b # 2 => U[b] = W[b]
    BY <2>2, <2>3, <2>4
  <2>6. Increasing(W)
    BY <2>1, MergeParts
  <2>7. Increasing(U) /\ IdsOf(U) = IdsOf(W)
    BY <2>2, <2>3, <2>4, <2>5, <2>6, SkipWay
  <2>8. IdsOf(U) = Asked(i) /\ U[5] = Pipeline(i)[5] /\ \A b \in 1..4 : Pipeline(i)'[b] = U[b]
    BY <2>1, <2>4, <2>7 DEF Asked
  <2> QED BY <1>2, <2>4, <2>7, <2>8, AskSlot
<1>5. Moves(s)
  BY <1>3, <1>4, AskMoves
<1> QED BY <1>5

\* push_segment.
LEMMA PushQueue ==
    ASSUME NEW s, SharingOK(s), NEW seg \in Segment, seg.slot \in Slots(s)
    PROVE  \A i \in Slots(s) :
              PushSegment(s, seg).queue[i] = IF i = seg.slot THEN Append(s.queue[i], seg)
                                             ELSE s.queue[i]
<1>1. s.queue \in Seq(Seq(Segment)) /\ DOMAIN s.queue = Slots(s)
  BY DEF SharingOK, SharingState, Slots
<1>2. PushSegment(s, seg).queue = [s.queue EXCEPT ![seg.slot] = Append(@, seg)]
  BY DEF PushSegment, SharingOK, SharingState
<1> QED BY <1>1, <1>2

LEMMA ReturnMoves ==
    ASSUME TypeOK, TypeOK', PipelinesMerge, SlotsOfPeers, Steady, HandleReturnSegment
    PROVE  \E s \in Slots(fs) \cup {0} : Moves(s)
<1> USE DEF netVars, userVars
<1>0. /\ inbox # << >> /\ inbox' = Tail(inbox) /\ Head(inbox).msg.type = "segment"
      /\ UNCHANGED << resp, req >> /\ SharingOK(fs)
  BY DEF HandleReturnSegment, Draining, TypeOK
<1>1. PICK s \in Slots(fs), seg \in Segment :
        seg = Head(inbox).msg.seg /\ s = seg.slot /\ fs.peer[s] = Head(inbox).from
  BY <1>0, InboxHead, MessageFields DEF SlotOf
<1>2. PICK got : got = PushSegment(fs, seg)
  OBVIOUS
<1>3. /\ SharingOK(got) /\ got.csi = fs.csi
      /\ \A i \in Slots(fs) : got.queue[i] = IF i = s THEN Append(fs.queue[i], seg) ELSE fs.queue[i]
  BY <1>0, <1>1, <1>2, PushSegmentOK, PushKeeps, PushQueue
<1>4. /\ fs'.queue = got.queue
      /\ \/ fs'.csi = fs.csi /\ outbox' = outbox
         \/ fs'.csi = fs.csi + 1 /\ PushMessage(fs.peer[s], Get(s, fs.csi + 1))
  <2>1. \/ fs' = got /\ outbox' = outbox
        \/ fs' = TakeSegmentId(got) /\ PushMessage(fs.peer[s], Get(s, NextSegmentId(got)))
    BY <1>1, <1>2 DEF HandleReturnSegment
  <2>2. TakeSegmentId(got).queue = got.queue /\ TakeSegmentId(got).csi = got.csi + 1
    BY <1>3, TakeKeeps
  <2> QED BY <1>3, <2>1, <2>2 DEF NextSegmentId
<1>5. ASSUME NEW i \in Slots(fs), NEW U, U = Before(Pipeline(i), Pipeline(i)')
      PROVE  /\ IsWay(U) /\ Increasing(U) /\ IdsOf(U) = Asked(i) /\ U[5] = Pipeline(i)[5]
             /\ \A b \in 1..4 : Pipeline(i)'[b] = U[b]
  <2>1. PICK W, V : W = Pipeline(i) /\ V = Pipeline(i)'
    OBVIOUS
  <2>2. /\ IsWay(W) /\ IsWay(V) /\ W[2] = ReadIds(i, inbox) /\ V[2] = ReadIds(i, inbox')
        /\ W[1] = QueueIds(fs.queue[i]) /\ V[1] = QueueIds(fs'.queue[i])
        /\ V[3] = W[3] /\ V[4] = W[4] /\ fs.queue[i] \in Seq(Segment)
    BY <1>0, <2>1, SteadyParts
  <2>3. W[2] # << >> /\ Head(W[2]) = IdFor(i, Head(inbox).msg) /\ V[2] = Tail(W[2])
    BY <1>0, <2>2, InboxHead
  <2>4. IsWay(U) /\ U[5] = W[5] /\ \A b \in 1..5 : b # 5 => U[b] = V[b]
    BY <1>5, <2>1, <2>2, BeforeOK
  <2>5. Increasing(W)
    BY <2>1, MergeParts
  <2>6. Increasing(U) /\ IdsOf(U) = IdsOf(W)
    <3>1. CASE i = s
      <4>1. Head(W[2]) = seg.id
        BY <1>0, <1>1, <2>3, <3>1 DEF IdFor
      <4>2. V[1] = Append(W[1], seg.id)
        BY <1>3, <1>4, <2>2, <3>1, QueueIdsMove
      <4>3. PICK a \in 1..4 : a = 1
        OBVIOUS
      <4>4. /\ W[a+1] # << >> /\ U[a] = Append(W[a], Head(W[a+1])) /\ U[a+1] = Tail(W[a+1])
            /\ \A b \in 1..5 : b # a /\ b # a + 1 => U[b] = W[b]
        <5>1. a + 1 = 2
          BY <4>3
        <5>2. U[1] = V[1] /\ U[2] = V[2] /\ U[3] = W[3] /\ U[4] = W[4] /\ U[5] = W[5]
          BY <2>2, <2>4
        <5>3. \A b \in 1..5 : b # 1 /\ b # 2 => U[b] = W[b]
          BY <5>2
        <5> QED BY <2>3, <4>1, <4>2, <4>3, <5>1, <5>2, <5>3
      <4> QED BY <2>2, <2>5, <4>4, MoveInWay
    <3>2. CASE i # s
      <4>1. Head(W[2]) = NoId
        BY <1>0, <1>1, <2>3, <3>2 DEF IdFor
      <4>2. V[1] = W[1]
        BY <1>3, <1>4, <2>2, <3>2
      <4>3. 2 \in 1..5 /\ U[2] = Tail(W[2]) /\ \A b \in 1..5 : b # 2 => U[b] = W[b]
        BY <2>2, <2>3, <2>4, <4>2
      <4> QED BY <2>2, <2>3, <2>4, <2>5, <4>1, <4>3, SkipWay
    <3> QED BY <3>1, <3>2
  <2> QED BY <2>1, <2>4, <2>6 DEF Asked
<1>6. CASE fs'.csi = fs.csi /\ outbox' = outbox
  <2>1. ASSUME NEW i \in Slots(fs) PROVE Increasing(Pipeline(i)') /\ Asked(i)' = Asked(i)
    <3>1. PICK U : U = Before(Pipeline(i), Pipeline(i)')
      OBVIOUS
    <3>2. /\ IsWay(U) /\ Increasing(U) /\ IdsOf(U) = Asked(i) /\ U[5] = Pipeline(i)[5]
          /\ \A b \in 1..4 : Pipeline(i)'[b] = U[b]
      BY <1>5, <3>1
    <3>3. Pipeline(i)'[5] = Pipeline(i)[5]
      BY <1>6, SteadyParts
    <3>4. \A b \in 1..5 : Pipeline(i)'[b] = U[b]
      BY <3>2, <3>3
    <3> QED BY <3>2, <3>4, SameWay DEF Asked
  <2>2. Moves(0)
    BY <1>6, <2>1, MovesOn
  <2> QED BY <2>2
<1>7. CASE fs'.csi = fs.csi + 1 /\ PushMessage(fs.peer[s], Get(s, fs.csi + 1))
  <2>1. ASSUME NEW i \in Slots(fs)
        PROVE  /\ Increasing(Pipeline(i)')
               /\ \A k : k \in Asked(i)' <=> k \in Asked(i) \/ (i = s /\ k = fs.csi + 1)
    <3>1. PICK U : U = Before(Pipeline(i), Pipeline(i)')
      OBVIOUS
    <3>2. /\ IsWay(U) /\ Increasing(U) /\ IdsOf(U) = Asked(i) /\ U[5] = Pipeline(i)[5]
          /\ \A b \in 1..4 : Pipeline(i)'[b] = U[b]
      BY <1>5, <3>1
    <3> QED BY <1>7, <3>2, AskSlot
  <2>2. Moves(s)
    BY <1>7, <2>1, AskMoves
  <2> QED BY <2>2
<1> QED BY <1>4, <1>6, <1>7

LEMMA WritingMoves ==
    ASSUME TypeOK, TypeOK', PipelinesMerge, Steady, StartWriting
    PROVE  Moves(0)
<1> USE DEF netVars, userVars
<1>0. UNCHANGED << fs, inbox, resp, gone >>
  BY DEF StartWriting
<1>1. ASSUME NEW i \in Slots(fs)
      PROVE  /\ Increasing(Pipeline(i)') /\ Asked(i)' \subseteq Asked(i)
             /\ \A k \in Asked(i) : k \in Asked(i)' \/ Lost(k)
  <2>0. PICK W, V : W = Pipeline(i) /\ V = Pipeline(i)'
    OBVIOUS
  <2>1. PICK p \in Peers : p = fs.peer[i] /\ W = Pipeline(i) /\ V = Pipeline(i)'
    BY <2>0, SteadyParts
  <2>2. /\ IsWay(W) /\ IsWay(V) /\ V[1] = W[1] /\ V[2] = W[2] /\ V[3] = W[3]
        /\ W[4] = Ids(i, req[p]) /\ V[4] = Ids(i, req'[p])
        /\ W[5] = Ids(i, outbox[p]) /\ V[5] = Ids(i, outbox'[p])
        /\ req[p] \in Seq(Message) /\ outbox[p] \in Seq(Message)
    BY <1>0, <2>1, SteadyParts
  <2>3. Increasing(W)
    BY <2>1, MergeParts
  <2>4. V[5] = << >>
    BY <2>2, IdsMove DEF StartWriting
  <2>5. CASE p \in gone
    <3>1. V[4] = << >>
      BY <2>2, <2>5, IdsMove DEF StartWriting
    <3>2. \A b \in 1..5 : V[b] = W[b] \/ V[b] = << >>
      BY <2>2, <2>4, <3>1
    <3>3. Increasing(V) /\ IdsOf(V) \subseteq IdsOf(W)
      BY <2>3, <3>2, EmptyWay
    <3>4. gone' # {}
      BY <1>0, <2>5
    <3> QED BY <2>1, <3>3, <3>4 DEF Asked, Lost
  <2>6. CASE p \notin gone
    <3>1. V[4] = W[4] \o W[5]
      <4>1. req'[p] = req[p] \o outbox[p]
        BY <2>6 DEF StartWriting
      <4> QED BY <2>2, <4>1, IdsMove
    <3>2. \A b \in 1..3 : V[b] = W[b]
      BY <2>2
    <3>3. Increasing(V) /\ IdsOf(V) = IdsOf(W)
      BY <2>2, <2>3, <2>4, <3>1, <3>2, JoinWay
    <3> QED BY <2>1, <3>3 DEF Asked
  <2> QED BY <2>5, <2>6
<1> QED BY <1>0, <1>1, MovesOn

LEMMA ReadMoves ==
    ASSUME TypeOK, TypeOK', PipelinesMerge, SlotsOfPeers, Steady,
           NEW q \in Peers, ReadMessage(q)
    PROVE  Moves(0)
<1> USE DEF netVars, userVars
<1>1. PICK m \in Message : /\ m = Head(resp[q]) /\ resp[q] # << >>
                           /\ SlotOf(m) \in Slots(fs) /\ fs.peer[SlotOf(m)] = q
  <2>1. resp[q] \in Seq(MessagesOf(q)) /\ resp[q] # << >>
    BY DEF SlotsOfPeers, ReadMessage
  <2>2. Head(resp[q]) \in MessagesOf(q)
    BY <2>1, OneChannel
  <2> QED BY <2>1, <2>2 DEF MessagesOf
<1>2. /\ resp' = [resp EXCEPT ![q] = Tail(@)] /\ resp \in [Peers -> Seq(Message)]
      /\ inbox' = Append(inbox, [from |-> q, msg |-> m])
      /\ UNCHANGED << fs, req, outbox >>
      /\ inbox \in Seq([from : Peers, msg : Message])
  BY <1>1 DEF ReadMessage, TypeOK
<1>3. ASSUME NEW i \in Slots(fs) PROVE Increasing(Pipeline(i)') /\ Asked(i)' = Asked(i)
  <2>0. PICK W, V : W = Pipeline(i) /\ V = Pipeline(i)'
    OBVIOUS
  <2>1. PICK p \in Peers : p = fs.peer[i] /\ W = Pipeline(i) /\ V = Pipeline(i)'
    BY <2>0, SteadyParts
  <2>2. /\ IsWay(W) /\ IsWay(V) /\ V[1] = W[1] /\ V[4] = W[4] /\ V[5] = W[5]
        /\ W[2] = ReadIds(i, inbox) /\ V[2] = ReadIds(i, inbox')
        /\ W[3] = Ids(i, resp[p]) /\ V[3] = Ids(i, resp'[p])
        /\ resp[p] \in Seq(Message)
    BY <1>2, <2>1, SteadyParts
  <2>3. Increasing(W)
    BY <2>1, MergeParts
  <2>4. V[2] = Append(W[2], IdFor(i, m))
    <3>1. PICK e \in [from : Peers, msg : Message] : e = [from |-> q, msg |-> m]
      OBVIOUS
    <3>2. e.msg = m /\ inbox' = Append(inbox, e)
      BY <1>2, <3>1
    <3> QED BY <1>2, <2>2, <3>2, ReadIdsMove
  <2>5. CASE p = q
    <3>1. W[3] # << >> /\ Head(W[3]) = IdFor(i, m) /\ V[3] = Tail(W[3])
      BY <1>1, <1>2, <2>2, <2>5, IdsMove
    <3>2. PICK a \in 1..4 : a = 2
      OBVIOUS
    <3>3. /\ W[a+1] # << >> /\ V[a] = Append(W[a], Head(W[a+1])) /\ V[a+1] = Tail(W[a+1])
          /\ \A b \in 1..5 : b # a /\ b # a + 1 => V[b] = W[b]
      <4>1. a + 1 = 3
        BY <3>2
      <4>2. \A b \in 1..5 : b # 2 /\ b # 3 => V[b] = W[b]
        BY <2>2
      <4> QED BY <2>4, <3>1, <3>2, <4>1, <4>2
    <3>4. Increasing(V) /\ IdsOf(V) = IdsOf(W)
      BY <2>2, <2>3, <3>3, MoveInWay
    <3> QED BY <2>1, <3>4 DEF Asked
  <2>6. CASE p # q
    <3>1. V[3] = W[3]
      BY <1>2, <2>2, <2>6
    <3>2. IdFor(i, m) = NoId
      BY <1>1, <2>1, <2>6, IdForOK
    <3>3. 2 \in 1..5 /\ V[2] = Append(W[2], NoId) /\ \A b \in 1..5 : b # 2 => V[b] = W[b]
      BY <2>2, <2>4, <3>1, <3>2
    <3>4. Increasing(V) /\ IdsOf(V) = IdsOf(W)
      BY <2>2, <2>3, <3>3, IdleWay
    <3> QED BY <2>1, <3>4 DEF Asked
  <2> QED BY <2>5, <2>6
<1> QED BY <1>2, <1>3, MovesOn

\* The oldest request at q, and a peer that answers it or does not.
LEMMA RequestHead ==
    ASSUME TypeOK, SlotsOfPeers, NEW q \in Peers, req[q] # << >>
    PROVE  /\ Head(req[q]) \in Message /\ Tail(req[q]) \in Seq(Message)
           /\ SlotOf(Head(req[q])) \in Slots(fs) /\ fs.peer[SlotOf(Head(req[q]))] = q
           /\ \A i : /\ Ids(i, req[q]) # << >>
                     /\ Head(Ids(i, req[q])) = IdFor(i, Head(req[q]))
                     /\ Ids(i, Tail(req[q])) = Tail(Ids(i, req[q]))
<1>1. req[q] \in Seq(Message) /\ req[q] \in Seq(MessagesOf(q))
  BY DEF TypeOK, SlotsOfPeers
<1>2. Head(req[q]) \in MessagesOf(q) /\ Tail(req[q]) \in Seq(Message)
  BY <1>1, OneChannel
<1> QED BY <1>1, <1>2, IdsMove DEF MessagesOf

LEMMA AnswerMoves ==
    ASSUME TypeOK, TypeOK', PipelinesMerge, SlotsOfPeers, Steady, NEW q \in Peers, req[q] # << >>,
           req' = [req EXCEPT ![q] = Tail(@)], UNCHANGED << fs, inbox, outbox >>,
           NEW a \in Message, Answer(q, a),
           \A i : IdFor(i, a) = IdFor(i, Head(req[q]))
    PROVE  Moves(0)
<1>1. req \in [Peers -> Seq(Message)] /\ resp \in [Peers -> Seq(Message)]
  BY DEF TypeOK
<1>2. ASSUME NEW i \in Slots(fs) PROVE Increasing(Pipeline(i)') /\ Asked(i)' = Asked(i)
  <2>0. PICK W, V : W = Pipeline(i) /\ V = Pipeline(i)'
    OBVIOUS
  <2>1. PICK p \in Peers : p = fs.peer[i] /\ W = Pipeline(i) /\ V = Pipeline(i)'
    BY <2>0, SteadyParts
  <2>2. /\ IsWay(W) /\ IsWay(V) /\ V[1] = W[1] /\ V[2] = W[2] /\ V[5] = W[5]
        /\ W[3] = Ids(i, resp[p]) /\ V[3] = Ids(i, resp'[p]) /\ resp[p] \in Seq(Message)
        /\ W[4] = Ids(i, req[p]) /\ V[4] = Ids(i, req'[p])
    BY <2>1, SteadyParts
  <2>3. Increasing(W)
    BY <2>1, MergeParts
  <2>4. CASE p = q
    <3>1. resp'[p] = Append(resp[p], a) /\ req'[p] = Tail(req[p])
      BY <1>1, <2>4 DEF Answer
    <3>2. V[3] = Append(W[3], IdFor(i, a))
      BY <2>2, <3>1, IdsAppend
    <3>3. W[4] # << >> /\ Head(W[4]) = IdFor(i, a) /\ V[4] = Tail(W[4])
      <4>1. /\ Ids(i, req[p]) # << >> /\ Head(Ids(i, req[p])) = IdFor(i, Head(req[p]))
            /\ Ids(i, Tail(req[p])) = Tail(Ids(i, req[p]))
        BY <2>4, RequestHead
      <4>2. IdFor(i, a) = IdFor(i, Head(req[p]))
        BY <2>4
      <4> QED BY <2>2, <3>1, <4>1, <4>2
    <3>4. PICK c \in 1..4 : c = 3
      OBVIOUS
    <3>5. /\ W[c+1] # << >> /\ V[c] = Append(W[c], Head(W[c+1])) /\ V[c+1] = Tail(W[c+1])
          /\ \A b \in 1..5 : b # c /\ b # c + 1 => V[b] = W[b]
      <4>1. c + 1 = 4
        BY <3>4
      <4>2. \A b \in 1..5 : b # 3 /\ b # 4 => V[b] = W[b]
        BY <2>2
      <4> QED BY <3>2, <3>3, <3>4, <4>1, <4>2
    <3>6. Increasing(V) /\ IdsOf(V) = IdsOf(W)
      BY <2>2, <2>3, <3>5, MoveInWay
    <3> QED BY <2>1, <3>6 DEF Asked
  <2>5. CASE p # q
    <3>1. resp'[p] = resp[p] /\ req'[p] = req[p]
      BY <1>1, <2>5 DEF Answer
    <3> QED BY <2>1, <3>1, StillSlot
  <2> QED BY <2>4, <2>5
<1> QED BY <1>2, MovesOn

LEMMA PrepareMoves ==
    ASSUME TypeOK, TypeOK', PipelinesMerge, SlotsOfPeers, Steady,
           NEW q \in Peers, HandlePrepareFileSharing(q)
    PROVE  Moves(0)
<1> USE DEF netVars, userVars
<1>1. /\ req[q] # << >> /\ Head(req[q]).type = "prepare" /\ Head(req[q]) \in Message
      /\ req' = [req EXCEPT ![q] = Tail(@)] /\ UNCHANGED << fs, inbox, outbox >>
      /\ Head(req[q]).slot \in Nat \ {0}
  BY RequestHead, MessageFields DEF HandlePrepareFileSharing, Received
<1>2. PICK slot \in Nat \ {0}, f \in Files : slot = Head(req[q]).slot /\ f = Head(req[q]).file
  BY <1>1, MessageFields
<1>3. PICK a \in Message : Answer(q, a) /\ a.type \in {"prepared", "nofile"}
  <2>1. CASE f \in Holds[q]
    <3>1. cf'[q] \in ChunkState(Contents)
      BY DEF TypeOK
    <3>2. Prepared(slot, cf'[q]) \in Message
      BY <3>1, MessageOK
    <3>3. Answer(q, Prepared(slot, cf'[q])) /\ Prepared(slot, cf'[q]).type = "prepared"
      BY <1>2, <2>1 DEF HandlePrepareFileSharing, Prepared
    <3> QED BY <3>2, <3>3
  <2>2. CASE f \notin Holds[q]
    <3>1. NoSuchFile(slot) \in Message
      BY MessageOK
    <3>2. Answer(q, NoSuchFile(slot)) /\ NoSuchFile(slot).type = "nofile"
      BY <1>2, <2>2 DEF HandlePrepareFileSharing, NoSuchFile
    <3> QED BY <3>1, <3>2
  <2> QED BY <2>1, <2>2
<1>4. \A i : IdFor(i, a) = NoId /\ IdFor(i, Head(req[q])) = NoId
  BY <1>1, <1>3, IdForOK
<1> QED BY <1>1, <1>3, <1>4, AnswerMoves

LEMMA GetMoves ==
    ASSUME TypeOK, TypeOK', PipelinesMerge, SlotsOfPeers, Steady,
           NEW q \in Peers, HandleGetSegment(q)
    PROVE  Moves(0)
<1> USE DEF netVars, userVars
<1>1. /\ req[q] # << >> /\ Head(req[q]).type = "get" /\ Head(req[q]) \in Message
      /\ req' = [req EXCEPT ![q] = Tail(@)] /\ UNCHANGED << fs, inbox, outbox, cf >>
  BY RequestHead DEF HandleGetSegment, Received
<1>2. PICK slot \in Nat \ {0}, id \in Nat : slot = Head(req[q]).slot /\ id = Head(req[q]).id
  BY <1>1, MessageFields
<1>3. \A i : IdFor(i, Head(req[q])) = IF slot = i THEN id ELSE NoId
  BY <1>1, <1>2 DEF IdFor
<1>4. CASE CanGet(cf[q], id)
  <2>1. cf[q].file \in Contents
    BY DEF TypeOK, ChunkState
  <2>2. PICK a \in Message : a = Return(slot, id, cf[q].file)
    BY <2>1, MessageOK
  <2>3. Answer(q, a)
    BY <1>2, <1>4, <2>2 DEF HandleGetSegment
  <2>4. \A i : IdFor(i, a) = IdFor(i, Head(req[q]))
    BY <1>3, <2>2, IdForOK
  <2> QED BY <1>1, <2>3, <2>4, AnswerMoves
<1>5. CASE ~CanGet(cf[q], id)
  <2>0. resp' = resp /\ req \in [Peers -> Seq(Message)]
    BY <1>2, <1>5 DEF HandleGetSegment, TypeOK
  <2>1. ASSUME NEW i \in Slots(fs)
        PROVE  /\ Increasing(Pipeline(i)') /\ Asked(i)' \subseteq Asked(i)
               /\ \A k \in Asked(i) : k \in Asked(i)' \/ Lost(k)
    <3>0. PICK W, V : W = Pipeline(i) /\ V = Pipeline(i)'
      OBVIOUS
    <3>1. PICK p \in Peers : p = fs.peer[i] /\ W = Pipeline(i) /\ V = Pipeline(i)'
      BY <3>0, SteadyParts
    <3>2. /\ IsWay(W) /\ IsWay(V) /\ V[1] = W[1] /\ V[2] = W[2] /\ V[3] = W[3] /\ V[5] = W[5]
          /\ W[4] = Ids(i, req[p]) /\ V[4] = Ids(i, req'[p])
      BY <1>1, <2>0, <3>1, SteadyParts
    <3>3. Increasing(W)
      BY <3>1, MergeParts
    <3>4. CASE p = q
      <4>1. W[4] # << >> /\ Head(W[4]) = IdFor(i, Head(req[q])) /\ V[4] = Tail(W[4])
        BY <1>1, <2>0, <3>2, <3>4, RequestHead
      <4>2. \E c \in 1..5 : /\ Head(W[c]) = Head(W[4]) /\ V[c] = Tail(W[c]) /\ W[c] # << >>
                             /\ \A b \in 1..5 : b # c => V[b] = W[b]
        <5>1. 4 \in 1..5 /\ \A b \in 1..5 : b # 4 => V[b] = W[b]
          BY <3>2
        <5> QED BY <4>1, <5>1
      <4>3. /\ Increasing(V) /\ IdsOf(V) \subseteq IdsOf(W)
            /\ IdsOf(W) \subseteq IdsOf(V) \cup {Head(W[4])}
        BY <3>2, <3>3, <4>2, PopWay
      <4>4. NoId \notin IdsOf(W)
        BY IdsOfWay
      <4>5. \A k \in IdsOf(W) : k \in IdsOf(V) \/ k = id
        BY <1>3, <4>1, <4>3, <4>4
      <4>6. \A k : k = id => Lost(k)
        BY <1>2, <1>5 DEF Lost
      <4> QED BY <3>1, <4>3, <4>5, <4>6 DEF Asked
    <3>5. CASE p # q
      <4>1. req'[p] = req[p] /\ resp'[p] = resp[p]
        BY <1>1, <2>0, <3>5
      <4>2. Increasing(Pipeline(i)') /\ Asked(i)' = Asked(i)
        BY <1>1, <3>1, <4>1, StillSlot
      <4> QED BY <4>2
    <3> QED BY <3>4, <3>5
  <2> QED BY <1>1, <2>1, MovesOn
<1> QED BY <1>4, <1>5

LEMMA LeaveMoves ==
    ASSUME TypeOK, TypeOK', PipelinesMerge, Steady, NEW q \in Peers, Leave(q)
    PROVE  Moves(0)
<1> USE DEF netVars, userVars
<1>1. /\ UNCHANGED << fs, inbox, outbox >> /\ gone' # {}
      /\ req' = [req EXCEPT ![q] = << >>] /\ resp' = [resp EXCEPT ![q] = << >>]
      /\ req \in [Peers -> Seq(Message)] /\ resp \in [Peers -> Seq(Message)]
  BY DEF Leave, TypeOK
<1>2. ASSUME NEW i \in Slots(fs)
      PROVE  /\ Increasing(Pipeline(i)') /\ Asked(i)' \subseteq Asked(i)
             /\ \A k \in Asked(i) : k \in Asked(i)' \/ Lost(k)
  <2>0. PICK W, V : W = Pipeline(i) /\ V = Pipeline(i)'
    OBVIOUS
  <2>1. PICK p \in Peers : p = fs.peer[i] /\ W = Pipeline(i) /\ V = Pipeline(i)'
    BY <2>0, SteadyParts
  <2>2. /\ IsWay(W) /\ IsWay(V) /\ V[1] = W[1] /\ V[2] = W[2] /\ V[5] = W[5]
        /\ W[3] = Ids(i, resp[p]) /\ V[3] = Ids(i, resp'[p])
        /\ W[4] = Ids(i, req[p]) /\ V[4] = Ids(i, req'[p])
    BY <1>1, <2>1, SteadyParts
  <2>3. Increasing(W)
    BY <2>1, MergeParts
  <2>4. (V[3] = W[3] \/ V[3] = << >>) /\ (V[4] = W[4] \/ V[4] = << >>)
    <3>1. (resp'[p] = resp[p] \/ resp'[p] = << >>) /\ (req'[p] = req[p] \/ req'[p] = << >>)
      BY <1>1
    <3>2. Ids(i, << >>) = << >>
      BY DEF Ids
    <3> QED BY <2>2, <3>1, <3>2
  <2>5. \A b \in 1..5 : V[b] = W[b] \/ V[b] = << >>
    BY <2>2, <2>4
  <2>6. Increasing(V) /\ IdsOf(V) \subseteq IdsOf(W)
    BY <2>3, <2>5, EmptyWay
  <2> QED BY <1>1, <2>1, <2>6 DEF Asked, Lost
<1> QED BY <1>1, <1>2, MovesOn

\* Every step but those of start_file_sharing.
LEMMA StepMoves ==
    ASSUME TypeOK, TypeOK', PipelinesMerge, SlotsOfPeers, [Next]_vars, ~StartFileSharing, ~AddOwner
    PROVE  \E s \in Slots(fs) \cup {0} : Moves(s)
<1> USE DEF netVars, userVars
<1>0. Steady /\ SharingOK(fs)
  BY SlotsStay DEF Steady, TypeOK
<1>1. ASSUME Moves(0) PROVE \E s \in Slots(fs) \cup {0} : Moves(s)
  BY <1>1
<1>2. ASSUME \/ \E f \in Files : ChangeMusic(f)
             \/ PauseMusic \/ FinishPause \/ PlayMusic \/ NewBufferedAudio \/ RaceOnVectors
             \/ Tick \/ ShouldPause \/ BeginWriting \/ SkipQueue \/ EndPass \/ BeginAsking \/ EndAsking
             \/ UNCHANGED vars
             \/ \E p \in Peers, f \in Files : HandleOtherPrepare(p, f)
      PROVE  Moves(0)
  <2>1. fs' = fs \/ fs' \in {PauseWriting(fs), MustPause(fs), ResumeWriting(fs), StopMustPause(fs)}
    BY <1>2 DEF ChangeMusic, PauseMusic, FinishPause, PlayMusic, NewBufferedAudio, RaceOnVectors,
                Tick, ShouldPause, BeginWriting, SkipQueue, EndPass, BeginAsking, EndAsking,
                vars, HandleOtherPrepare
  <2>2. fs'.queue = fs.queue /\ fs'.csi = fs.csi
    BY <1>0, <2>1, PauseKeeps
  <2>3. UNCHANGED << inbox, resp, req, outbox >>
    BY <1>2 DEF ChangeMusic, PauseMusic, FinishPause, PlayMusic, NewBufferedAudio, RaceOnVectors,
                Tick, ShouldPause, BeginWriting, SkipQueue, EndPass, BeginAsking, EndAsking,
                vars, HandleOtherPrepare
  <2> QED BY <1>0, <2>2, <2>3, QuietMoves
<1>3. ASSUME NEW p \in Peers, ReadMessage(p) \/ SenderStep(p) \/ Leave(p) PROVE Moves(0)
  BY <1>0, <1>3, ReadMoves, PrepareMoves, GetMoves, LeaveMoves DEF SenderStep
<1>4. ASSUME WriteSegment \/ DropSegment \/ IgnoreNoSuchFile \/ StartWriting PROVE Moves(0)
  BY <1>0, <1>4, TakenMoves, IgnoreMoves, WritingMoves
<1>5. ASSUME AskIdlePeer \/ HandlePreparedFileSharing \/ HandleReturnSegment
      PROVE  \E s \in Slots(fs) \cup {0} : Moves(s)
  BY <1>0, <1>5, IdleMoves, PreparedMoves, ReturnMoves
<1> QED BY <1>1, <1>2, <1>3, <1>4, <1>5
        DEF Next, UserStep, GtkStep, HookStep, DrainStep, OtherStep

\* A new slot has nothing under way, and the others keep what they have.
LEMMA AddOwnerAdds ==
    ASSUME TypeOK, TypeOK', PipelinesMerge, SlotsOfPeers, AddOwner
    PROVE  /\ Slots(fs) \subseteq Slots(fs') /\ fs'.csi = fs.csi
           /\ \A i \in Slots(fs') : Increasing(Pipeline(i)')
           /\ \A i \in Slots(fs) : Asked(i)' = Asked(i)
           /\ \A i \in Slots(fs') \ Slots(fs) : Asked(i)' = {}
<1> USE DEF netVars
<1>1. /\ SharingOK(fs) /\ fs.queue \in Seq(Seq(Segment)) /\ fs.peer \in Seq(Peers)
      /\ Len(fs.peer) = Len(fs.queue) /\ Head(gtk.todo) \in Peers /\ gtk.file \in Files
  <2>1. SharingOK(fs)
    BY DEF TypeOK
  <2>2. Head(gtk.todo) \in Peers /\ gtk.file \in Files
    BY HeadTailProperties DEF AddOwner, TypeOK, GtkState
  <2> QED BY <2>1, <2>2 DEF SharingOK, SharingState, Aligned
<1>2. PICK q \in Peers, n \in Nat \ {0}, m \in Message :
        q = Head(gtk.todo) /\ n = Len(fs.queue) + 1 /\ m = Prepare(n, gtk.file)
  <2>1. PICK n \in Nat \ {0} : n = Len(fs.queue) + 1
    BY <1>1
  <2>2. Prepare(n, gtk.file) \in Message
    BY <1>1, MessageOK
  <2> QED BY <1>1, <2>1, <2>2
<1>3. /\ fs'.queue = Append(fs.queue, << >>) /\ fs'.peer = Append(fs.peer, q) /\ fs'.csi = fs.csi
      /\ outbox' = [outbox EXCEPT ![q] = Append(@, m)]
      /\ outbox \in [Peers -> Seq(Message)]
      /\ UNCHANGED << inbox, resp, req >>
  BY <1>1, <1>2 DEF AddOwner, NewPeer, PushMessage, SharingOK, SharingState, TypeOK
<1>4. /\ Len(fs'.queue) = n /\ fs'.queue[n] = << >> /\ fs'.peer[n] = q
      /\ \A i \in 1..Len(fs.queue) : fs'.queue[i] = fs.queue[i] /\ fs'.peer[i] = fs.peer[i]
  <2>1. << >> \in Seq(Segment)
    BY EmptySeq
  <2>2. /\ Len(fs'.queue) = n /\ fs'.queue[n] = << >>
        /\ \A i \in 1..Len(fs.queue) : fs'.queue[i] = fs.queue[i]
    BY <1>1, <1>2, <1>3, <2>1, AppendProperties
  <2>3. fs'.peer[n] = q /\ \A i \in 1..Len(fs.queue) : fs'.peer[i] = fs.peer[i]
    BY <1>1, <1>2, <1>3, AppendProperties
  <2> QED BY <2>2, <2>3
<1>5. /\ Slots(fs) \subseteq Slots(fs') /\ n \in Slots(fs') /\ n \notin Slots(fs)
      /\ \A i \in Slots(fs') : i \in Slots(fs) \/ i = n
  <2>1. PICK l \in Nat : l = Len(fs.queue) /\ n = l + 1
    BY <1>1, <1>2
  <2> QED BY <1>4, <2>1 DEF Slots
<1>6. ASSUME NEW i \in Slots(fs) PROVE Increasing(Pipeline(i)') /\ Asked(i)' = Asked(i)
  <2>0. PICK W, V : W = Pipeline(i) /\ V = Pipeline(i)'
    OBVIOUS
  <2>1. PICK p \in Peers : p = fs.peer[i] /\ fs'.peer[i] = p /\ fs'.queue[i] = fs.queue[i]
    <3>1. i \in 1..Len(fs.queue)
      BY DEF Slots
    <3> QED BY <1>1, <1>4, <3>1
  <2>2. /\ IsWay(W) /\ V[1] = W[1] /\ V[2] = W[2] /\ V[3] = W[3] /\ V[4] = W[4]
        /\ W[5] = Ids(i, outbox[p]) /\ V[5] = Ids(i, outbox'[p]) /\ outbox[p] \in Seq(Message)
    <3>1. /\ IsWay(W) /\ W[1] = QueueIds(fs.queue[i]) /\ W[2] = ReadIds(i, inbox)
          /\ W[3] = Ids(i, resp[p]) /\ W[4] = Ids(i, req[p])
          /\ W[5] = Ids(i, outbox[p]) /\ outbox[p] \in Seq(Message)
      BY <2>0, <2>1, Parts
    <3>2. /\ V[1] = QueueIds(fs'.queue[i]) /\ V[2] = ReadIds(i, inbox')
          /\ V[3] = Ids(i, resp'[p]) /\ V[4] = Ids(i, req'[p]) /\ V[5] = Ids(i, outbox'[p])
      <4>1. i \in Slots(fs')
        BY <1>5
      <4> QED BY <2>0, <2>1, <4>1, PartsNext
    <3> QED BY <1>3, <2>1, <3>1, <3>2
  <2>3. Increasing(W)
    BY <2>0, MergeParts
  <2>4. CASE p = q
    <3>1. outbox'[p] = Append(outbox[p], m)
      BY <1>3, <2>4
    <3>2. IdFor(i, m) = NoId
      BY <1>2 DEF IdFor, Prepare
    <3>3. 5 \in 1..5 /\ V[5] = Append(W[5], NoId) /\ \A b \in 1..5 : b # 5 => V[b] = W[b]
      BY <2>2, <3>1, <3>2, IdsMove
    <3>4. Increasing(V) /\ IdsOf(V) = IdsOf(W)
      BY <2>2, <2>3, <3>3, IdleWay
    <3> QED BY <2>0, <3>4 DEF Asked
  <2>5. CASE p # q
    <3>1. outbox'[p] = outbox[p]
      BY <1>3, <2>5
    <3>2. \A b \in 1..5 : V[b] = W[b]
      BY <2>2, <3>1
    <3>3. Increasing(V) /\ IdsOf(V) = IdsOf(W)
      BY <2>3, <3>2, SameWay
    <3> QED BY <2>0, <3>3 DEF Asked
  <2> QED BY <2>4, <2>5
<1>7. Increasing(Pipeline(n)') /\ Asked(n)' = {}
  <2>0. PICK V : V = Pipeline(n)'
    OBVIOUS
  <2>1. /\ V[1] = QueueIds(fs'.queue[n]) /\ V[2] = ReadIds(n, inbox')
        /\ V[3] = Ids(n, resp'[q]) /\ V[4] = Ids(n, req'[q]) /\ V[5] = Ids(n, outbox'[q])
    BY <1>4, <1>5, <2>0, PartsNext
  <2>2. ASSUME NEW s \in Seq(MessagesOf(q)), NEW k \in DOMAIN Ids(n, s) PROVE Ids(n, s)[k] = NoId
    <3>1. k \in DOMAIN s /\ Ids(n, s)[k] = IdFor(n, s[k])
      BY DEF Ids
    <3>2. s[k] \in MessagesOf(q)
      BY <3>1
    <3>3. s[k] \in Message /\ SlotOf(s[k]) # n
      BY <1>5, <3>2 DEF MessagesOf
    <3> QED BY <3>1, <3>3, IdForOK
  <2>3. \A k \in DOMAIN V[1] : V[1][k] = NoId
    BY <1>4, <2>1 DEF QueueIds
  <2>4. ASSUME NEW k \in DOMAIN V[2] PROVE V[2][k] = NoId
    <3>1. k \in DOMAIN inbox /\ V[2][k] = IdFor(n, inbox[k].msg)
      BY <1>3, <2>1, <2>4 DEF ReadIds
    <3>2. inbox[k] \in MessagesRead
      BY <3>1 DEF SlotsOfPeers
    <3>3. inbox[k].msg \in Message /\ SlotOf(inbox[k].msg) # n
      BY <1>5, <3>2 DEF MessagesRead, MessagesOf
    <3> QED BY <3>1, <3>3, IdForOK
  <2>5. \A k \in DOMAIN V[3] : V[3][k] = NoId
    BY <1>3, <2>1, <2>2 DEF SlotsOfPeers
  <2>6. \A k \in DOMAIN V[4] : V[4][k] = NoId
    BY <1>3, <2>1, <2>2 DEF SlotsOfPeers
  <2>7. ASSUME NEW k \in DOMAIN V[5] PROVE V[5][k] = NoId
    <3>1. V[5] = Append(Ids(n, outbox[q]), NoId)
      <4>1. outbox'[q] = Append(outbox[q], m) /\ outbox[q] \in Seq(Message)
        BY <1>3
      <4>2. IdFor(n, m) = NoId
        BY <1>2 DEF IdFor, Prepare
      <4> QED BY <2>1, <4>1, <4>2, IdsAppend
    <3>2. Ids(n, outbox[q]) \in Seq(Int) /\ NoId \in Int
      BY <1>3, IdsMove DEF NoId
    <3>3. PICK u \in Seq(Int), l \in Nat : u = Ids(n, outbox[q]) /\ l = Len(u)
      BY <3>2
    <3>4. /\ DOMAIN V[5] = 1..(l + 1) /\ V[5][l + 1] = NoId
          /\ \A j \in 1..l : V[5][j] = u[j] /\ j \in DOMAIN u
      <4>1. /\ Append(u, NoId) \in Seq(Int) /\ Len(Append(u, NoId)) = l + 1
            /\ \A j \in 1..l : Append(u, NoId)[j] = u[j]
            /\ Append(u, NoId)[l + 1] = NoId
        BY <3>2, <3>3, AppendProperties
      <4>2. DOMAIN Append(u, NoId) = 1..(l + 1) /\ DOMAIN u = 1..l
        BY <3>3, <4>1
      <4> QED BY <3>1, <3>3, <4>1, <4>2
    <3>5. outbox[q] \in Seq(MessagesOf(q))
      BY DEF SlotsOfPeers
    <3>6. \A j \in DOMAIN u : u[j] = NoId
      BY <2>2, <3>3, <3>5
    <3>7. k = l + 1 \/ k \in 1..l
      BY <2>7, <3>4
    <3> QED BY <3>4, <3>6, <3>7
  <2>8. \A b \in 1..5 : \A k \in DOMAIN V[b] : V[b][k] = NoId
    BY <2>3, <2>4, <2>5, <2>6, <2>7
  <2>9. Increasing(V) /\ IdsOf(V) = {}
    BY <2>8, BareWay
  <2> QED BY <2>0, <2>9 DEF Asked
<1> QED BY <1>3, <1>5, <1>6, <1>7

LEMMA AskedIsInt ==
    ASSUME NEW i, IsWay(Pipeline(i)), NEW k \in Asked(i)
    PROVE  k \in Int
<1>1. \A b \in 1..5 : Pipeline(i)[b] \in Seq(Int)
  BY DEF IsWay
<1>2. \A b \in 1..5 : \A l \in DOMAIN Pipeline(i)[b] : Pipeline(i)[b][l] \in Int
  BY <1>1
<1> QED BY <1>2, IdsOfWay DEF Asked

\* A step keeps the pipelines in order and apart.
LEMMA PipelinesMergeNext ==
    ASSUME TypeOK, TypeOK', Unstarted, SlotsOfPeers, PipelinesMerge, [Next]_vars
    PROVE  PipelinesMerge'
<1>0. fs.csi \in Int /\ \A i \in Slots(fs) : \A k \in Asked(i) : k <= fs.csi
  <2>1. fs.csi \in Int
    BY DEF TypeOK, SharingOK, SharingState
  <2> QED BY <2>1, MergeParts
<1>1. SUFFICES /\ \A i \in Slots(fs') : Increasing(Pipeline(i)')
               /\ \A i, j \in Slots(fs') : i # j => Asked(i)' \cap Asked(j)' = {}
               /\ \A i \in Slots(fs') : \A k \in Asked(i)' : k <= fs'.csi
  BY DEF PipelinesMerge, UnderWay
<1>2. CASE StartFileSharing
  <2>1. Slots(fs') = {}
    BY <1>2 DEF StartFileSharing, ResetSharingFile, Slots
  <2> QED BY <2>1
<1>3. CASE AddOwner
  BY <1>0, <1>3, AddOwnerAdds DEF PipelinesMerge
<1>4. CASE ~StartFileSharing /\ ~AddOwner
  <2>1. PICK s \in Slots(fs) \cup {0} : Moves(s)
    BY <1>4, StepMoves
  <2>2. Slots(fs') = Slots(fs)
    BY <1>4, SlotsStay DEF Slots
  <2>3. ASSUME NEW i \in Slots(fs), NEW j \in Slots(fs), i # j, NEW k \in Asked(i)', k \in Asked(j)'
        PROVE  FALSE
    <3>1. k \in Asked(i) \/ (i = s /\ k = fs.csi + 1)
      BY <2>1, <2>3 DEF Moves
    <3>2. k \in Asked(j) \/ (j = s /\ k = fs.csi + 1)
      BY <2>1, <2>3 DEF Moves
    <3>3. ~(k \in Asked(i) /\ k \in Asked(j))
      BY <2>3 DEF PipelinesMerge
    <3>4. k <= fs.csi /\ k = fs.csi + 1
      BY <1>0, <2>3, <3>1, <3>2, <3>3
    <3> QED BY <1>0, <3>4
  <2>4. ASSUME NEW i \in Slots(fs), NEW k \in Asked(i)' PROVE k <= fs'.csi
    <3>1. k \in Asked(i) \/ (i = s /\ k = fs.csi + 1)
      BY <2>1, <2>4 DEF Moves
    <3>2. fs'.csi = IF s = 0 THEN fs.csi ELSE fs.csi + 1
      BY <2>1 DEF Moves
    <3>3. i # 0
      BY DEF Slots
    <3>4. CASE k \in Asked(i)
      <4>1. k <= fs.csi /\ k \in Int
        <5>1. k \in Int
          <6>1. IsWay(Pipeline(i))
            BY <1>4, SteadyParts, SlotsStay DEF Steady
          <6> QED BY <3>4, <6>1, AskedIsInt
        <5> QED BY <1>0, <3>4, <5>1
      <4> QED BY <1>0, <3>2, <4>1
    <3>5. CASE i = s /\ k = fs.csi + 1
      BY <1>0, <3>2, <3>3, <3>5
    <3> QED BY <3>1, <3>4, <3>5
  <2>5. \A i \in Slots(fs) : Increasing(Pipeline(i)')
    BY <2>1 DEF Moves
  <2> QED BY <2>2, <2>3, <2>4, <2>5
<1> QED BY <1>2, <1>3, <1>4

LEMMA PipelineInit == Init => PipelineInv
<1> SUFFICES ASSUME Init PROVE PipelineInv
  OBVIOUS
<1>1. TypeOK
  BY TypeInit
<1>2. Unstarted
  BY DEF Init, Unstarted, ResetSharingFile
<1>3. SlotsOfPeers
  BY EmptySeq DEF Init, SlotsOfPeers
<1>4. Slots(fs) = {}
  BY DEF Init, ResetSharingFile, Slots
<1>5. PipelinesMerge
  BY <1>4 DEF PipelinesMerge, UnderWay
<1> QED BY <1>1, <1>2, <1>3, <1>5 DEF PipelineInv

LEMMA PipelineNext == ASSUME OneSession PROVE PipelineInv /\ [Next]_vars => PipelineInv'
<1> SUFFICES ASSUME PipelineInv, [Next]_vars PROVE PipelineInv'
  OBVIOUS
<1> USE DEF PipelineInv
<1>1. TypeOK'
  BY TypeNext
<1>2. Unstarted'
  BY <1>1, UnstartedNext
<1>3. SlotsOfPeers'
  BY SlotsOfPeersNext
<1>4. PipelinesMerge'
  BY <1>1, PipelinesMergeNext
<1> QED BY <1>1, <1>2, <1>3, <1>4

\* Whatever the owners, their files and what they serve to others, and
\* whoever pauses or disconnects, each owner is asked for the segments of a
\* song in increasing order, its answers come back and are queued in that
\* order, and no segment is asked of two owners or before
\* current_segment_id has reached it (if_idle, handle_return_segment,
\* push_segment): the queues can be merged by their fronts.
THEOREM PipelinesMergeAlways == ASSUME OneSession PROVE Spec => []PipelinesMerge
<1>1. PipelineInv => PipelinesMerge
  BY DEF PipelineInv
<1> QED BY <1>1, PipelineInit, PipelineNext, PTL DEF Spec

---------------------------------------------------------------------------
(* Nothing that is under way is behind what has been written.              *)

\* Every file has a segment.
LEMMA SongHasSegments == ASSUME TypeOK, gtk.file # NoFile PROVE SongCount # 0
<1>1. FileSize[gtk.file] \in Nat \ {0} /\ Chunk \in Nat \ {0}
  BY TransferAssumption DEF TypeOK, GtkState, Contents
<1>2. ASSUME NEW size \in Nat \ {0}, NEW chunk \in Nat \ {0} PROVE CeilDiv(size, chunk) # 0
  <2>1. size \div chunk \in Nat /\ size = chunk * (size \div chunk) + (size % chunk)
    OBVIOUS
  <2>2. CASE size % chunk # 0
    BY <2>1, <2>2 DEF CeilDiv
  <2>3. CASE size % chunk = 0
    <3>1. CASE size \div chunk = 0
      <4>1. chunk * (size \div chunk) = 0
        BY <3>1
      <4> QED BY <2>1, <2>3, <4>1
    <3>2. CASE size \div chunk # 0
      BY <2>1, <2>3, <3>2 DEF CeilDiv
    <3> QED BY <3>1, <3>2
  <2> QED BY <2>2, <2>3
<1> QED BY <1>1, <1>2 DEF SongCount, SegmentCount

\* What a step does to the ids of FileSharing, unless it is of start_file_sharing.
LEMMA IdsKept ==
    ASSUME StreamInv, [Next]_vars, ~StartFileSharing, ~AddOwner
    PROVE  /\ \/ fs'.cwi = fs.cwi
              \/ /\ WriteSegment /\ fs' = WriteFront(fs, io.slot) /\ fs'.cwi = fs.cwi + 1
                 /\ Front(fs, io.slot).id = fs.cwi /\ HasFront(fs, io.slot) /\ io.slot \in Slots(fs)
           /\ fs'.total = fs.total \/ (HandlePreparedFileSharing /\ fs'.total = SongCount)
           /\ fs'.csi # fs.csi => fs'.total # 0
<1> USE DEF netVars, userVars, StreamInv
<1>0. SharingOK(fs) /\ TypeOK
  BY DEF TypeOK
<1>1. ASSUME \/ \E f \in Files : ChangeMusic(f)
             \/ PauseMusic \/ FinishPause \/ PlayMusic \/ NewBufferedAudio \/ RaceOnVectors
             \/ Tick \/ ShouldPause \/ BeginWriting \/ SkipQueue \/ EndPass \/ BeginAsking \/ EndAsking
             \/ IgnoreNoSuchFile \/ StartWriting \/ UNCHANGED vars
             \/ \E p \in Peers : \/ Leave(p) \/ ReadMessage(p) \/ SenderStep(p)
                                 \/ \E f \in Files : HandleOtherPrepare(p, f)
      PROVE  fs'.cwi = fs.cwi /\ fs'.total = fs.total /\ fs'.csi = fs.csi
  <2>1. fs' = fs \/ fs' \in {PauseWriting(fs), MustPause(fs), ResumeWriting(fs), StopMustPause(fs)}
    BY <1>1 DEF ChangeMusic, PauseMusic, FinishPause, PlayMusic, NewBufferedAudio, RaceOnVectors,
                Tick, ShouldPause, BeginWriting, SkipQueue, EndPass, BeginAsking, EndAsking,
                IgnoreNoSuchFile, StartWriting, vars, Leave, ReadMessage, SenderStep,
                HandlePrepareFileSharing, HandleGetSegment, HandleOtherPrepare
  <2> QED BY <1>0, <2>1, PauseKeeps
<1>2. ASSUME WriteSegment, fs' # fs
      PROVE  /\ fs' = WriteFront(fs, io.slot) /\ fs'.cwi = fs.cwi + 1
             /\ Front(fs, io.slot).id = fs.cwi /\ HasFront(fs, io.slot) /\ io.slot \in Slots(fs)
             /\ fs'.total = fs.total /\ fs'.csi = fs.csi
  <2>1. /\ fs' = WriteFront(fs, io.slot) /\ io.slot \in Slots(fs)
        /\ Front(fs, io.slot).id = fs.cwi /\ HasFront(fs, io.slot)
    BY <1>2 DEF WriteSegment, AtQueue, Writable
  <2> QED BY <1>0, <2>1, MethodsKeep
<1>3. ASSUME DropSegment PROVE fs'.cwi = fs.cwi /\ fs'.total = fs.total /\ fs'.csi = fs.csi
  BY <1>0, <1>3, MethodsKeep DEF DropSegment, AtQueue
<1>4. ASSUME AskIdlePeer
      PROVE  fs'.cwi = fs.cwi /\ fs'.total = fs.total /\ (fs'.csi # fs.csi => fs.total # 0)
  <2>1. io.slot \in Slots(fs)
    BY <1>4 DEF AskIdlePeer
  <2>2. LET t == TakeSegmentId(fs)
        IN  /\ SharingOK(t) /\ t.total = fs.total /\ t.cwi = fs.cwi /\ io.slot \in Slots(t)
    BY <1>0, <2>1, TakeSegmentIdOK, TakeKeeps DEF Slots
  <2>3. fs'.cwi = fs.cwi /\ fs'.total = fs.total
    BY <1>0, <1>4, <2>1, <2>2, MethodsKeep DEF AskIdlePeer
  <2>4. ASSUME fs'.csi # fs.csi PROVE fs.total # 0
    <3>1. ~AllSegmentsAsked(fs)
      BY <1>0, <1>4, <2>1, <2>4, MethodsKeep DEF AskIdlePeer
    <3>2. fs.csi \in Int /\ fs.csi >= -1
      BY <1>0 DEF SharingOK, SharingState
    <3> QED BY <3>1, <3>2 DEF AllSegmentsAsked
  <2> QED BY <2>3, <2>4
<1>5. ASSUME HandlePreparedFileSharing
      PROVE  fs'.cwi = fs.cwi /\ fs'.total = SongCount /\ fs'.total # 0
  <2>1. inbox # << >> /\ Head(inbox).msg.type = "prepared"
    BY <1>5 DEF HandlePreparedFileSharing, Draining
  <2>2. PICK m \in ReceiverMessages : m = Head(inbox).msg
    <3>1. Head(inbox) \in [from : Peers, msg : ReceiverMessages]
      BY <2>1, HeadTailProperties DEF OneSong
    <3> QED BY <3>1
  <2>3. m.total = SongCount /\ m.total \in Int /\ m.chunk \in Nat /\ m.bytes \in Int
    BY <2>1, <2>2, MessageFields DEF ReceiverMessages
  <2>4. gtk.file # NoFile
    BY <2>1 DEF Untouched, Unstarted
  <2> DEFINE t == SetFileInfo(fs, m.total, m.chunk, m.bytes)
  <2>5. SharingOK(t) /\ t.cwi = fs.cwi /\ t.total = SongCount
    BY <1>0, <2>3, SetFileInfoOK DEF SetFileInfo, SharingOK, SharingState
  <2>6. fs' = TakeSegmentId(t)
    BY <1>5, <2>2 DEF HandlePreparedFileSharing
  <2> HIDE DEF t
  <2>7. SongCount # 0
    BY <1>0, <2>4, SongHasSegments
  <2> QED BY <2>5, <2>6, <2>7, TakeKeeps
<1>6. ASSUME HandleReturnSegment
      PROVE  fs'.cwi = fs.cwi /\ fs'.total = fs.total /\ fs.total # 0
  <2>1. inbox # << >> /\ Head(inbox).msg.type = "segment"
    BY <1>6 DEF HandleReturnSegment, Draining
  <2>2. PICK m \in ReceiverMessages : m = Head(inbox).msg
    <3>1. Head(inbox) \in [from : Peers, msg : ReceiverMessages]
      BY <2>1, HeadTailProperties DEF OneSong
    <3> QED BY <3>1
  <2>3. m.seg \in SongSegments
    BY <2>1, <2>2 DEF ReceiverMessages
  <2>4. m.seg \in Segment /\ m.seg.id \in Nat /\ m.seg.id < SongCount /\ fs.total = SongCount
    BY <2>3 DEF SongSegments, Segment
  <2>5. SongCount \in Nat
    BY <1>0, SongCountOK
  <2> DEFINE got == PushSegment(fs, m.seg)
  <2>6. SharingOK(got) /\ got.cwi = fs.cwi /\ got.total = fs.total
    BY <1>0, <2>4, PushSegmentOK, PushKeeps
  <2>7. fs' = got \/ fs' = TakeSegmentId(got)
    BY <1>6, <2>2 DEF HandleReturnSegment
  <2> HIDE DEF got
  <2>8. fs'.cwi = fs.cwi /\ fs'.total = fs.total
    BY <2>6, <2>7, TakeKeeps
  <2> QED BY <2>4, <2>5, <2>8
<1> QED BY <1>1, <1>2, <1>3, <1>4, <1>5, <1>6
        DEF Next, UserStep, GtkStep, HookStep, DrainStep, OtherStep

LEMMA IdTypes ==
    ASSUME TypeOK
    PROVE  /\ fs.cwi \in Nat /\ fs.csi \in Int /\ fs.csi >= -1 /\ fs.total \in Int
           /\ UnderWay \subseteq Int
<1>1. fs.cwi \in Nat /\ fs.csi \in Int /\ fs.csi >= -1 /\ fs.total \in Int
  BY DEF TypeOK, SharingOK, SharingState
<1>2. ASSUME NEW i \in Slots(fs), NEW k \in Asked(i) PROVE k \in Int
  <2>1. PICK p \in Peers : p = fs.peer[i]
    <3>1. SharingOK(fs)
      BY DEF TypeOK
    <3>2. fs.peer \in Seq(Peers) /\ i \in 1..Len(fs.peer)
      BY <3>1 DEF SharingOK, SharingState, Aligned, Slots
    <3> QED BY <3>2
  <2>2. IsWay(Pipeline(i))
    BY <2>1, Parts
  <2> QED BY <2>2, AskedIsInt
<1> QED BY <1>1, <1>2 DEF UnderWay

\* Before LoadMusic nothing is under way.
LEMMA NothingUnderWay ==
    ASSUME TypeOK, Unstarted, StartFileSharing
    PROVE  UnderWay = {} /\ UnderWay' = {} /\ fs' = ResetSharingFile
<1>1. gtk.file = NoFile
  BY TransferAssumption DEF StartFileSharing, TypeOK, Unstarted
<1>2. Slots(fs) = {}
  BY <1>1 DEF Unstarted, Slots
<1>3. fs' = ResetSharingFile /\ Slots(fs') = {}
  BY DEF StartFileSharing, ResetSharingFile, Slots
<1> QED BY <1>2, <1>3 DEF UnderWay

LEMMA NothingBehindNext ==
    ASSUME TransferInv, TypeOK', [Next]_vars
    PROVE  NothingBehind'
<1> USE DEF TransferInv, StreamInv, PipelineInv
<1>0. fs.cwi \in Nat /\ fs.csi \in Int /\ fs.csi >= -1 /\ fs.total \in Int /\ UnderWay \subseteq Int
  BY IdTypes
<1>1. CASE StartFileSharing
  BY <1>1, NothingUnderWay DEF NothingBehind, ResetSharingFile
<1>2. CASE AddOwner
  <2>1. fs'.cwi = fs.cwi /\ fs'.total = fs.total /\ fs'.csi = fs.csi
    BY <1>2 DEF AddOwner, NewPeer, TypeOK, SharingOK, SharingState
  <2>2. \A k \in UnderWay' : k \in UnderWay
    BY <1>2, AddOwnerAdds DEF UnderWay
  <2> QED BY <2>1, <2>2 DEF NothingBehind
<1>3. CASE ~StartFileSharing /\ ~AddOwner
  <2>1. PICK s \in Slots(fs) \cup {0} : Moves(s)
    BY <1>3, StepMoves
  <2>2. Slots(fs') = Slots(fs) /\ Steady
    BY <1>3, SlotsStay DEF Slots, Steady
  <2>3. \A k \in UnderWay' : k \in UnderWay \/ k = fs.csi + 1
    BY <2>1, <2>2 DEF UnderWay, Moves
  <2>4. fs'.csi = fs.csi \/ fs'.csi = fs.csi + 1
    BY <2>1 DEF Moves
  <2>5. fs'.total = 0 => fs'.csi = -1
    <3>1. ASSUME fs'.total = 0 PROVE fs'.csi = fs.csi /\ fs.total = 0
      <4>1. fs'.csi = fs.csi
        BY <1>3, <3>1, IdsKept
      <4>2. HandlePreparedFileSharing => SongCount # 0
        <5>1. HandlePreparedFileSharing => gtk.file # NoFile
          BY DEF HandlePreparedFileSharing, Draining, Untouched, Unstarted
        <5> QED BY <5>1, SongHasSegments
      <4>3. fs'.total = fs.total
        BY <1>3, <3>1, <4>2, IdsKept
      <4> QED BY <3>1, <4>1, <4>3
    <3> QED BY <3>1 DEF NothingBehind
  <2>6. CASE fs'.cwi = fs.cwi
    <3>1. fs.cwi <= fs.csi + 1
      BY DEF NothingBehind
    <3>2. ASSUME NEW k \in UnderWay' PROVE fs'.cwi <= k
      <4>1. CASE k \in UnderWay
        BY <2>6, <4>1 DEF NothingBehind
      <4>2. CASE k = fs.csi + 1
        BY <2>6, <3>1, <4>2
      <4> QED BY <2>3, <4>1, <4>2
    <3>3. fs'.cwi <= fs'.csi + 1
      BY <1>0, <2>4, <2>6, <3>1
    <3> QED BY <2>5, <3>2, <3>3 DEF NothingBehind
  <2>7. CASE /\ WriteSegment /\ fs' = WriteFront(fs, io.slot) /\ fs'.cwi = fs.cwi + 1
             /\ Front(fs, io.slot).id = fs.cwi /\ HasFront(fs, io.slot) /\ io.slot \in Slots(fs)
    <3>1. UNCHANGED << inbox, resp, req, outbox >>
      BY <2>7 DEF WriteSegment, netVars
    <3>2. /\ fs'.csi = fs.csi
          /\ \A i \in Slots(fs) : \A k : k \in Asked(i)' <=> k \in Asked(i) /\ k # fs.cwi
          /\ fs.cwi \in Asked(io.slot)
      BY <2>2, <2>7, <3>1, FrontTaken
    <3>3. fs.cwi \in UnderWay /\ \A k \in UnderWay' : k \in UnderWay /\ k # fs.cwi
      BY <2>2, <2>7, <3>2 DEF UnderWay
    <3>4. fs.cwi <= fs.csi
      BY <3>3 DEF PipelinesMerge
    <3>5. \A k \in UnderWay' : k \in Int /\ fs.cwi <= k /\ k # fs.cwi
      BY <1>0, <3>3 DEF NothingBehind
    <3> QED BY <1>0, <2>5, <2>7, <3>2, <3>4, <3>5 DEF NothingBehind
  <2> QED BY <1>3, <2>6, <2>7, IdsKept
<1> QED BY <1>1, <1>2, <1>3

LEMMA TransferInit == ASSUME OneGoodTransfer, Init PROVE TransferInv
<1>1. StreamInv /\ PipelineInv
  BY InvInit, PipelineInit
<1>2. Slots(fs) = {}
  BY DEF Init, ResetSharingFile, Slots
<1>3. NothingBehind
  BY <1>2 DEF NothingBehind, UnderWay, Init, ResetSharingFile
<1> QED BY <1>1, <1>3 DEF TransferInv

LEMMA TransferNext == ASSUME OneGoodTransfer, TransferInv, [Next]_vars PROVE TransferInv'
<1>1. TypeOK'
  BY TypeNext DEF TransferInv, StreamInv
<1>2. StreamInv'
  BY <1>1, UntouchedNext, OneSongNext, PreparedFirstNext, StreamIsPrefixNext DEF TransferInv, StreamInv
<1>3. PipelineInv'
  BY PipelineNext DEF TransferInv, OneGoodTransfer
<1>4. NothingBehind'
  BY <1>1, NothingBehindNext
<1> QED BY <1>2, <1>3, <1>4 DEF TransferInv

\* What a step loses.
LEMMA LosesAhead ==
    ASSUME OneGoodTransfer, Leavers = {}, TransferInv, TypeOK', [Next]_vars,
           NEW k \in UnderWay, k \notin UnderWay'
    PROVE  \/ k = fs.cwi /\ fs'.cwi = k + 1
           \/ DropSegment /\ k > fs.cwi + Len(fs.queue) /\ k = Front(fs, io.slot).id
           \/ k >= fs.total
<1> USE DEF TransferInv, StreamInv, PipelineInv
<1>0. fs.cwi \in Nat /\ fs.total \in Int /\ k \in Int /\ fs.cwi <= k
  BY IdTypes DEF NothingBehind
<1>1. ~StartFileSharing
  BY NothingUnderWay
<1>2. ~AddOwner
  <2> SUFFICES ASSUME AddOwner PROVE FALSE
    OBVIOUS
  <2>1. \A i \in UnderWay : i \in UnderWay'
    BY AddOwnerAdds DEF UnderWay
  <2> QED BY <2>1
<1>3. PICK s \in Slots(fs) \cup {0} : Moves(s)
  BY <1>1, <1>2, StepMoves
<1>4. Slots(fs') = Slots(fs)
  BY <1>1, <1>2, SlotsStay DEF Slots
<1>5. Lost(k)
  <2>1. PICK i \in Slots(fs) : k \in Asked(i)
    BY DEF UnderWay
  <2>2. k \notin Asked(i)'
    BY <1>4 DEF UnderWay
  <2> QED BY <1>3, <2>1, <2>2 DEF Moves
<1>6. gone' = {}
  BY DEF TypeOK
<1>7. CASE DropSegment /\ k = Front(fs, io.slot).id
  <2>1. Droppable(fs, io.slot)
    BY <1>7 DEF DropSegment
  <2>2. k < fs.cwi \/ k > fs.cwi + Len(fs.queue)
    BY <1>7, <2>1 DEF Droppable
  <2>3. ~(k < fs.cwi)
    BY <1>0
  <2> QED BY <1>7, <2>2, <2>3
<1>8. CASE \E p \in Peers : HandleGetSegment(p) /\ k = Head(req[p]).id /\ ~CanGet(cf[p], k)
  <2>1. PICK p \in Peers : HandleGetSegment(p) /\ k = Head(req[p]).id /\ ~CanGet(cf[p], k)
    BY <1>8
  <2>2. req[p] # << >> /\ Head(req[p]).type = "get"
    BY <2>1 DEF HandleGetSegment, Received
  <2>3. req[p] \in Seq(SenderMessages) /\ cf[p] \in SongFiles
    BY DEF OneSong
  <2>4. Head(req[p]) \in SenderMessages
    BY <2>2, <2>3, HeadTailProperties
  <2>5. fs.total = SongCount
    BY <2>2, <2>4 DEF SenderMessages
  <2>6. cf[p].file # NoFile
    <3>1. p \notin gone
      BY DEF TypeOK
    <3> QED BY <2>2, <3>1 DEF PreparedFirst, NotPrepared
  <2>7. ~cf[p].failed /\ cf[p].total = SongCount
    BY <2>3, <2>6 DEF SongFiles
  <2>8. k \in Nat
    BY <1>0
  <2> QED BY <1>0, <2>1, <2>5, <2>7, <2>8 DEF CanGet
<1> QED BY <1>5, <1>6, <1>7, <1>8 DEF Lost

\* While every owner can read the song and stays, nothing that is under way is
\* lost, but segments that arrive so far ahead of the others that
\* try_writing_segment throws them away, and ids beyond the end of the song.
THEOREM LosesOnlyAheadAlways ==
    ASSUME OneGoodTransfer, Leavers = {} PROVE Spec => LosesOnlyAhead
<1>1. Init => TransferInv
  BY TransferInit
<1>2. TransferInv /\ [Next]_vars => TransferInv'
  BY TransferNext
<1>3. TransferInv /\ TransferInv' /\ [Next]_vars
         => [\A k \in UnderWay \ UnderWay' : \/ k = fs.cwi /\ fs'.cwi = k + 1
                                             \/ k > fs.cwi + Len(fs.queue)
                                             \/ k >= fs.total]_vars
  BY LosesAhead DEF TransferInv, StreamInv
<1> QED BY <1>1, <1>2, <1>3, PTL DEF Spec, LosesOnlyAhead

\* The sum over no slot, and over one.
LEMMA SumOfNone == ASSUME NEW f, DOMAIN f = {} PROVE SumFunction(f) = 0
<1> DEFINE F(g) == [s \in SUBSET {} |-> IF s = {} THEN 0
                                        ELSE f[CHOOSE x \in s : TRUE] + g[s \ {CHOOSE x \in s : TRUE}]]
<1> DEFINE g == CHOOSE g : g = F(g)
<1>1. SumFunction(f) = g[{}]
  BY DEF SumFunction, SumFunctionOnSet, FoldFunctionOnSet, MapThenFoldSet
<1>2. \E h : h = F(h)
  <2> DEFINE h == [s \in SUBSET {} |-> 0]
  <2>1. h = F(h)
    OBVIOUS
  <2> QED BY <2>1
<1>3. g = F(g)
  BY <1>2
<1> HIDE DEF g
<1>4. g[{}] = F(g)[{}]
  BY <1>3
<1> QED BY <1>1, <1>4

LEMMA SumOfOne == ASSUME NEW f, NEW a, DOMAIN f = {a}, f[a] \in Nat PROVE SumFunction(f) = f[a]
<1> DEFINE F(g) == [s \in SUBSET {a} |-> IF s = {} THEN 0
                                        ELSE f[CHOOSE x \in s : TRUE] + g[s \ {CHOOSE x \in s : TRUE}]]
<1> DEFINE g == CHOOSE g : g = F(g)
<1>1. SumFunction(f) = g[{a}]
  BY DEF SumFunction, SumFunctionOnSet, FoldFunctionOnSet, MapThenFoldSet
<1>0. (CHOOSE x \in {a} : TRUE) = a /\ {a} \ {a} = {} /\ \A s \in SUBSET {a} : s = {} \/ s = {a}
  OBVIOUS
<1>2. \E h : h = F(h)
  <2> DEFINE h == [s \in SUBSET {a} |-> IF s = {} THEN 0 ELSE f[a]]
  <2>1. h[{}] = 0 /\ h[{a}] = f[a]
    OBVIOUS
  <2>2. ASSUME NEW s \in SUBSET {a} PROVE h[s] = F(h)[s]
    <3>1. CASE s = {}
      BY <3>1
    <3>2. CASE s = {a}
      <4>1. h[s] = f[a]
        BY <3>2, <2>1
      <4>2. h[s \ {CHOOSE x \in s : TRUE}] = 0
        BY <1>0, <2>1, <3>2
      <4>3. F(h)[s] = f[CHOOSE x \in s : TRUE] + h[s \ {CHOOSE x \in s : TRUE}]
        BY <3>2
      <4>4. F(h)[s] = f[a] + 0
        BY <1>0, <3>2, <4>2, <4>3
      <4> QED BY <4>1, <4>4
    <3> QED BY <1>0, <3>1, <3>2
  <2>3. h = F(h)
    BY <2>2
  <2> QED BY <2>3
<1>3. g = F(g)
  BY <1>2
<1> HIDE DEF g
<1>4. g[{}] = F(g)[{}] /\ g[{a}] = F(g)[{a}]
  BY <1>3
<1>5. F(g)[{}] = 0
  OBVIOUS
<1>6. F(g)[{a}] = f[a] + g[{}]
  BY <1>0
<1> QED BY <1>1, <1>4, <1>5, <1>6

LEMMA QueuedInOne ==
    ASSUME NEW q \in Seq(Seq(Segment)), Len(q) <= 1
    PROVE  LET sum == SumFunction([i \in 1..Len(q) |-> Len(q[i])])
           IN  /\ Len(q) = 0 => sum = 0
               /\ Len(q) = 1 => sum = Len(q[1]) /\ q[1] \in Seq(Segment)
<1> DEFINE f == [i \in 1..Len(q) |-> Len(q[i])]
<1>1. ASSUME Len(q) = 0 PROVE SumFunction(f) = 0
  <2>1. DOMAIN f = {}
    BY <1>1
  <2> HIDE DEF f
  <2> QED BY <2>1, SumOfNone
<1>2. ASSUME Len(q) = 1 PROVE SumFunction(f) = Len(q[1]) /\ q[1] \in Seq(Segment)
  <2>1. q[1] \in Seq(Segment)
    BY <1>2
  <2>2. DOMAIN f = {1} /\ f[1] = Len(q[1])
    BY <1>2
  <2>3. Len(q[1]) \in Nat
    BY <2>1
  <2> HIDE DEF f
  <2> QED BY <2>1, <2>2, <2>3, SumOfOne
<1> QED BY <1>1, <1>2

---------------------------------------------------------------------------
(* One owner. *)

\* The first of a pipeline is the least.
LEMMA FrontIsLeast ==
    ASSUME NEW W, IsWay(W), Increasing(W), W[1] # << >>, Head(W[1]) # NoId, NEW y \in IdsOf(W)
    PROVE  /\ Head(W[1]) \in IdsOf(W)
           /\ Head(W[1]) <= y
<1>1. PICK n \in [1..5 -> Nat] : \A a \in 1..5 :
        DOMAIN W[a] = 1..n[a] /\ \A k \in 1..n[a] : W[a][k] \in Int
  BY WayLengths
<1>2. n[1] # 0 /\ 1 \in DOMAIN W[1] /\ Head(W[1]) = W[1][1]
  <2>1. W[1] \in Seq(Int)
    BY DEF IsWay
  <2>2. Len(W[1]) # 0
    BY <2>1, EmptySeq
  <2>3. DOMAIN W[1] = 1..Len(W[1]) /\ Len(W[1]) \in Nat
    BY <2>1
  <2>4. 1 \in DOMAIN W[1] /\ Head(W[1]) = W[1][1]
    BY <2>1, <2>2, <2>3
  <2>5. DOMAIN W[1] = 1..n[1] /\ n[1] \in Nat
    BY <1>1
  <2>6. n[1] # 0
    BY <2>4, <2>5
  <2> QED BY <2>4, <2>6
<1>3. Head(W[1]) \in IdsOf(W)
  <2>1. \E a \in 1..5 : \E k \in DOMAIN W[a] : W[a][k] = Head(W[1])
    BY <1>2
  <2> QED BY <2>1, IdsOfWay
<1>4. PICK a \in 1..5 : \E k \in DOMAIN W[a] : W[a][k] = y
  BY IdsOfWay
<1>5. PICK k \in DOMAIN W[a] : W[a][k] = y
  BY <1>4
<1>6. y # NoId /\ y \in Int /\ k \in 1..n[a]
  BY <1>1, <1>5, IdsOfWay
<1>7. CASE a = 1 /\ k = 1
  BY <1>2, <1>5, <1>6, <1>7
<1>8. CASE ~(a = 1 /\ k = 1)
  <2>1. 1 < a \/ (1 = a /\ 1 < k)
    BY <1>6, <1>8
  <2>2. W[1][1] < W[a][k]
    BY <1>2, <1>5, <1>6, <2>1, IncreasingAt
  <2>3. W[1][1] \in Int
    BY <1>1, <1>2
  <2> QED BY <1>2, <1>3, <1>5, <1>6, <2>2, <2>3
<1> QED BY <1>3, <1>7, <1>8

\* The slots of start_file_sharing.
LEMMA OneSlotNext ==
    ASSUME SingleOwner, TypeOK, OneSlot, [Next]_vars
    PROVE  OneSlot'
<1> USE DEF netVars, userVars
<1>0. /\ fs.queue \in Seq(Seq(Segment)) /\ Len(fs.queue) \in Nat
      /\ gtk.todo \in Seq(Peers) /\ Len(gtk.todo) \in Nat /\ gtk \in GtkState
  <2>1. fs.queue \in Seq(Seq(Segment)) /\ gtk.todo \in Seq(Peers) /\ gtk \in GtkState
    BY DEF TypeOK, SharingOK, SharingState, GtkState
  <2> QED BY <2>1
<1>1. CASE StartFileSharing
  <2>1. fs'.queue = << >> /\ gtk'.todo = Owners[gtk.load] /\ gtk.load \in Files
    BY <1>0, <1>1 DEF StartFileSharing, ResetSharingFile, GtkState, TypeOK
  <2>2. Owners[gtk.load] \in Seq(Peers)
    BY <2>1, TransferAssumption
  <2>3. Len(Owners[gtk.load]) <= 1 /\ Len(Owners[gtk.load]) \in Nat
    BY <2>1, <2>2 DEF SingleOwner
  <2>4. Len(fs'.queue) = 0
    BY <2>1
  <2> QED BY <2>1, <2>3, <2>4 DEF OneSlot
<1>2. CASE AddOwner
  <2>1. fs'.queue = Append(fs.queue, << >>) /\ gtk'.todo = Tail(gtk.todo) /\ gtk.todo # << >>
    BY <1>0, <1>2 DEF AddOwner, NewPeer, GtkState, TypeOK, SharingOK, SharingState
  <2>2. << >> \in Seq(Segment)
    BY EmptySeq
  <2>3. Len(fs'.queue) = Len(fs.queue) + 1
    BY <1>0, <2>1, <2>2, AppendProperties
  <2>4. Len(gtk'.todo) = Len(gtk.todo) - 1
    BY <1>0, <2>1, HeadTailProperties
  <2>5. PICK a \in Nat, b \in Nat : a = Len(fs.queue) /\ b = Len(gtk.todo)
    BY <1>0
  <2>6. a + b <= 1
    BY <2>5 DEF OneSlot
  <2>7. (a + 1) + (b - 1) <= 1
    BY <2>6
  <2>8. Len(fs'.queue) + Len(gtk'.todo) <= 1
    BY <2>3, <2>4, <2>5, <2>7
  <2> QED BY <2>8 DEF OneSlot
<1>3. CASE ~StartFileSharing /\ ~AddOwner
  <2>1. Len(fs'.queue) = Len(fs.queue)
    BY <1>3, SlotsStay
  <2>2. gtk'.todo = gtk.todo
    <3>1. ASSUME NEW f \in Files, ChangeMusic(f) PROVE gtk'.todo = gtk.todo
      BY <1>0, <3>1 DEF ChangeMusic, GtkState
    <3>2. ASSUME PauseMusic \/ FinishPause \/ PlayMusic \/ NewBufferedAudio \/ RaceOnVectors
          PROVE  gtk'.todo = gtk.todo
      <4>1. CASE PauseMusic
        BY <1>0, <4>1 DEF PauseMusic, GtkState
      <4>2. CASE FinishPause
        BY <1>0, <4>2 DEF FinishPause, GtkState
      <4>3. CASE PlayMusic
        BY <1>0, <4>3 DEF PlayMusic, GtkState
      <4>4. CASE NewBufferedAudio
        BY <1>0, <4>4 DEF NewBufferedAudio, GtkState
      <4>5. CASE RaceOnVectors
        BY <1>0, <4>5 DEF RaceOnVectors, Crash, GtkState
      <4> QED BY <3>2, <4>1, <4>2, <4>3, <4>4, <4>5
    <3>3. ASSUME HookStep \/ DrainStep PROVE gtk'.todo = gtk.todo
      BY <1>0, <3>3 DEF HookStep, DrainStep, Tick, ShouldPause, BeginWriting, WriteSegment,
           DropSegment, SkipQueue, EndPass, BeginAsking, AskIdlePeer, EndAsking,
           HandlePreparedFileSharing, HandleReturnSegment, IgnoreNoSuchFile, StartWriting, Crash, GtkState
    <3>4. ASSUME NEW p \in Peers, ReadMessage(p) \/ SenderStep(p) \/ Leave(p)
          PROVE  gtk'.todo = gtk.todo
      BY <3>4 DEF ReadMessage, SenderStep, HandlePrepareFileSharing, HandleGetSegment, Leave
    <3>5. ASSUME NEW p \in Peers, NEW f \in Files, HandleOtherPrepare(p, f) PROVE gtk'.todo = gtk.todo
      BY <3>5 DEF HandleOtherPrepare
    <3>6. ASSUME UNCHANGED vars PROVE gtk'.todo = gtk.todo
      BY <3>6 DEF vars
    <3> QED BY <1>3, <3>1, <3>2, <3>3, <3>4, <3>5, <3>6 DEF Next, UserStep, GtkStep, OtherStep
  <2> QED BY <2>1, <2>2 DEF OneSlot
<1> QED BY <1>1, <1>2, <1>3

\* With one owner the front is the segment to write, or there is none to wait for.
LEMMA NoDrop ==
    ASSUME TransferInv, OneSlot, NothingThrownAway
    PROVE  ~DropSegment
<1> USE DEF TransferInv, StreamInv, PipelineInv
<1> SUFFICES ASSUME DropSegment PROVE FALSE
  OBVIOUS
<1>0. /\ fs.cwi \in Nat /\ fs.csi \in Int /\ fs.total \in Int /\ SharingOK(fs)
      /\ Len(fs.queue) \in Nat /\ Len(fs.queue) <= 1
  <2>1. SharingOK(fs) /\ gtk.todo \in Seq(Peers)
    BY DEF TypeOK, GtkState
  <2>2. Len(fs.queue) \in Nat /\ Len(gtk.todo) \in Nat
    BY <2>1 DEF SharingOK, SharingState
  <2>3. PICK a \in Nat, b \in Nat : a = Len(fs.queue) /\ b = Len(gtk.todo)
    BY <2>2
  <2>4. a <= 1
    <3>1. a + b <= 1
      BY <2>3 DEF OneSlot
    <3> QED BY <3>1
  <2> QED BY <2>1, <2>3, <2>4, IdTypes
<1>1. Droppable(fs, io.slot) /\ HasFront(fs, io.slot) /\ io.slot \in Slots(fs)
  BY DEF DropSegment, Droppable, AtQueue
<1>2. Slots(fs) = {io.slot}
  BY <1>0, <1>1 DEF Slots
<1>3. PICK i \in Slots(fs), k \in Nat : i = io.slot /\ k = Front(fs, io.slot).id
  BY <1>0, <1>1, FrontOK DEF Segment
<1>4. PICK W : W = Pipeline(i)
  OBVIOUS
<1>5. IsWay(W) /\ W[1] = QueueIds(fs.queue[i]) /\ fs.queue[i] \in Seq(Segment)
  <2>1. PICK p \in Peers : p = fs.peer[i]
    BY <1>1, <1>3, SlotHasPeer
  <2> QED BY <1>4, <2>1, Parts
<1>6. W[1] # << >> /\ Head(W[1]) = k
  BY <1>1, <1>3, <1>5, QueueIdsMove DEF HasFront, Front
<1>7. Increasing(W) /\ IdsOf(W) = UnderWay
  <2>1. Increasing(W)
    BY <1>4 DEF PipelinesMerge
  <2>2. \A y : y \in IdsOf(W) <=> y \in UnderWay
    BY <1>2, <1>3, <1>4 DEF UnderWay, Asked
  <2> QED BY <2>1, <2>2
<1>8. k # NoId
  BY DEF NoId
<1>9. \A y \in UnderWay : k \in UnderWay /\ k <= y
  BY <1>5, <1>6, <1>7, <1>8, FrontIsLeast
<1>10. k \in UnderWay
  <2>1. 1 \in DOMAIN W[1] /\ W[1][1] = k
    <3>1. W[1] \in Seq(Int)
      BY <1>5 DEF IsWay
    <3> QED BY <1>6, <3>1, EmptySeq
  <2> QED BY <1>7, <1>8, <2>1, IdsOfWay
<1>11. fs.cwi <= k /\ k <= fs.csi
  BY <1>10 DEF NothingBehind, PipelinesMerge
<1>12. k < fs.total
  <2>1. fs.queue \in Seq(Seq(SongSegments))
    BY DEF OneSong
  <2>2. Front(fs, io.slot) \in SongSegments
    BY <1>0, <1>1, <2>1, QueueKept
  <2> QED BY <1>3, <2>2 DEF SongSegments
<1>13. fs.cwi \in UnderWay
  BY <1>0, <1>11, <1>12 DEF NothingThrownAway
<1>14. k <= fs.cwi
  BY <1>9, <1>13
<1> QED BY <1>0, <1>1, <1>3, <1>11, <1>14 DEF Droppable

LEMMA NothingThrownAwayNext ==
    ASSUME OneGoodTransfer, Leavers = {}, SingleOwnerInv, TypeOK', [Next]_vars
    PROVE  NothingThrownAway'
<1> USE DEF SingleOwnerInv, TransferInv, StreamInv, PipelineInv
<1>0. fs.cwi \in Nat /\ fs.csi \in Int /\ fs.csi >= -1 /\ fs.total \in Int
  BY IdTypes
<1>1. CASE StartFileSharing
  <2>1. fs'.cwi = 0 /\ fs'.csi = -1
    BY <1>1 DEF StartFileSharing, ResetSharingFile
  <2> QED BY <2>1 DEF NothingThrownAway
<1>2. CASE AddOwner
  <2>1. fs'.cwi = fs.cwi /\ fs'.total = fs.total /\ fs'.csi = fs.csi
    BY <1>2 DEF AddOwner, NewPeer, TypeOK, SharingOK, SharingState
  <2>2. \A k \in UnderWay : k \in UnderWay'
    BY <1>2, AddOwnerAdds DEF UnderWay
  <2> QED BY <2>1, <2>2 DEF NothingThrownAway
<1>3. CASE ~StartFileSharing /\ ~AddOwner
  <2>1. PICK s \in Slots(fs) \cup {0} : Moves(s)
    BY <1>3, StepMoves
  <2>2. Slots(fs') = Slots(fs)
    BY <1>3, SlotsStay DEF Slots
  <2>3. fs'.csi = IF s = 0 THEN fs.csi ELSE fs.csi + 1
    BY <2>1 DEF Moves
  <2>4. s # 0 => fs.csi + 1 \in UnderWay'
    BY <2>1, <2>2 DEF Moves, UnderWay
  <2>5. fs'.cwi = fs.cwi \/ fs'.cwi = fs.cwi + 1
    BY <1>3, IdsKept
  <2>6. SUFFICES ASSUME NEW k \in fs'.cwi .. fs'.csi, k < fs'.total PROVE k \in UnderWay'
    BY DEF NothingThrownAway
  <2>7. k \in Int /\ fs'.cwi <= k /\ k <= fs'.csi
    BY <1>0, <2>3, <2>5
  <2>8. CASE k = fs.csi + 1
    <3>1. s # 0
      BY <1>0, <2>3, <2>7, <2>8
    <3> QED BY <2>4, <2>8, <3>1
  <2>9. CASE k # fs.csi + 1
    <3>1. fs.cwi <= k /\ k <= fs.csi
      BY <1>0, <2>3, <2>5, <2>7, <2>9
    <3>2. fs'.total = fs.total
      <4>1. fs.total # 0
        BY <1>0, <3>1 DEF NothingBehind
      <4> QED BY <1>3, <4>1, IdsKept DEF OneSong
    <3>3. k \in UnderWay
      BY <1>0, <2>6, <2>7, <3>1, <3>2 DEF NothingThrownAway
    <3>4. k \notin UnderWay' => \/ k = fs.cwi /\ fs'.cwi = k + 1
                                \/ DropSegment
                                \/ k >= fs.total
      BY <3>3, LosesAhead
    <3>5. ~DropSegment
      BY NoDrop
    <3>6. ~(fs'.cwi = k + 1) /\ ~(k >= fs.total)
      BY <1>0, <2>6, <2>7, <3>2
    <3> QED BY <3>4, <3>5, <3>6
  <2> QED BY <2>8, <2>9
<1> QED BY <1>1, <1>2, <1>3

---------------------------------------------------------------------------
(* What queue_current_bytes counts. *)

\* The methods of FileSharing that do not touch the queues.
LEMMA BytesKept ==
    ASSUME NEW s, SharingOK(s)
    PROVE  /\ \A t \in {PauseWriting(s), MustPause(s), ResumeWriting(s), StopMustPause(s), TakeSegmentId(s)} :
                 t.qcb = s.qcb /\ t.chunk = s.chunk /\ t.queue = s.queue /\ t.total = s.total
           /\ \A i \in Slots(s) : LET t == UnsetPeerIdle(s, i)
                                  IN  /\ t.qcb = s.qcb /\ t.chunk = s.chunk
                                      /\ t.queue = s.queue /\ t.total = s.total
BY DEF SharingOK, SharingState, PauseWriting, MustPause, ResumeWriting, StopMustPause, TakeSegmentId, UnsetPeerIdle

Quiet == fs'.qcb = fs.qcb /\ fs'.chunk = fs.chunk /\ fs'.queue = fs.queue /\ fs'.total = fs.total

Known == fs'.qcb = fs.qcb /\ fs'.queue = fs.queue /\ fs'.chunk = Chunk /\ fs'.total = SongCount /\ SongCount # 0

Pushed(i, seg) ==
    /\ fs'.qcb = fs.qcb + fs.chunk /\ fs'.chunk = fs.chunk /\ fs'.total = fs.total
    /\ fs'.queue = [fs.queue EXCEPT ![i] = Append(@, seg)]

Popped(i) ==
    /\ fs'.qcb = fs.qcb - fs.chunk /\ fs'.chunk = fs.chunk /\ fs'.total = fs.total
    /\ fs.queue[i] # << >> /\ fs'.queue = [fs.queue EXCEPT ![i] = Tail(@)]

LEMMA BytesNext ==
    ASSUME StreamInv, [Next]_vars, ~StartFileSharing, ~AddOwner, ~DropSegment
    PROVE  \/ Quiet \/ Known
           \/ \E i \in Slots(fs), seg \in Segment : Pushed(i, seg)
           \/ \E i \in Slots(fs) : Popped(i)
<1> USE DEF netVars, userVars, StreamInv
<1>0. SharingOK(fs)
  BY DEF TypeOK
<1>1. ASSUME \/ \E f \in Files : ChangeMusic(f)
             \/ PauseMusic \/ FinishPause \/ PlayMusic \/ NewBufferedAudio \/ RaceOnVectors
             \/ Tick \/ ShouldPause \/ BeginWriting \/ SkipQueue \/ EndPass \/ BeginAsking \/ EndAsking
             \/ IgnoreNoSuchFile \/ StartWriting \/ UNCHANGED vars
             \/ \E p \in Peers : \/ Leave(p) \/ ReadMessage(p) \/ SenderStep(p)
                                 \/ \E f \in Files : HandleOtherPrepare(p, f)
      PROVE  Quiet
  <2>1. fs' = fs \/ fs' \in {PauseWriting(fs), MustPause(fs), ResumeWriting(fs), StopMustPause(fs)}
    BY <1>1 DEF ChangeMusic, PauseMusic, FinishPause, PlayMusic, NewBufferedAudio, RaceOnVectors,
                Tick, ShouldPause, BeginWriting, SkipQueue, EndPass, BeginAsking, EndAsking,
                IgnoreNoSuchFile, StartWriting, vars, Leave, ReadMessage, SenderStep,
                HandlePrepareFileSharing, HandleGetSegment, HandleOtherPrepare
  <2> QED BY <1>0, <2>1, BytesKept DEF Quiet
<1>2. ASSUME WriteSegment PROVE Quiet \/ \E i \in Slots(fs) : Popped(i)
  <2>1. fs' = fs \/ /\ fs' = WriteFront(fs, io.slot) /\ io.slot \in Slots(fs)
                    /\ HasFront(fs, io.slot)
    BY <1>2 DEF WriteSegment, AtQueue, Writable
  <2>2. CASE fs' = fs
    BY <2>2 DEF Quiet
  <2>3. CASE fs' = WriteFront(fs, io.slot) /\ io.slot \in Slots(fs) /\ HasFront(fs, io.slot)
    <3>1. Popped(io.slot)
      BY <1>0, <2>3 DEF Popped, WriteFront, HasFront, SharingOK, SharingState
    <3> QED BY <2>3, <3>1
  <2> QED BY <2>1, <2>2, <2>3
<1>3. ASSUME AskIdlePeer PROVE Quiet
  <2>1. io.slot \in Slots(fs)
    BY <1>3 DEF AskIdlePeer
  <2>2. PICK t : t = TakeSegmentId(fs)
    OBVIOUS
  <2>3. SharingOK(t) /\ t.qcb = fs.qcb /\ t.chunk = fs.chunk /\ t.queue = fs.queue /\ t.total = fs.total
    BY <1>0, <2>2, TakeSegmentIdOK, BytesKept
  <2>4. io.slot \in Slots(t)
    BY <2>1, <2>3 DEF Slots
  <2>5. fs' = fs \/ fs' = UnsetPeerIdle(fs, io.slot) \/ fs' = UnsetPeerIdle(t, io.slot)
    BY <1>3, <2>2 DEF AskIdlePeer
  <2>6. CASE fs' = fs
    BY <2>6 DEF Quiet
  <2>7. CASE fs' = UnsetPeerIdle(fs, io.slot)
    BY <1>0, <2>1, <2>7, BytesKept DEF Quiet
  <2>8. CASE fs' = UnsetPeerIdle(t, io.slot)
    BY <2>3, <2>4, <2>8, BytesKept DEF Quiet
  <2> QED BY <2>5, <2>6, <2>7, <2>8
<1>4. ASSUME HandlePreparedFileSharing PROVE Known
  <2>1. inbox # << >> /\ Head(inbox).msg.type = "prepared"
    BY <1>4 DEF HandlePreparedFileSharing, Draining
  <2>2. PICK m \in ReceiverMessages : m = Head(inbox).msg
    <3>1. Head(inbox) \in [from : Peers, msg : ReceiverMessages]
      BY <2>1, HeadTailProperties DEF OneSong
    <3> QED BY <3>1
  <2>3. m.total = SongCount /\ m.chunk = Chunk /\ m.total \in Int /\ m.chunk \in Nat /\ m.bytes \in Int
    BY <2>1, <2>2, MessageFields DEF ReceiverMessages
  <2>4. gtk.file # NoFile
    BY <2>1 DEF Untouched, Unstarted
  <2> DEFINE t == SetFileInfo(fs, m.total, m.chunk, m.bytes)
  <2>5. /\ SharingOK(t) /\ t.total = SongCount /\ t.qcb = fs.qcb
        /\ t.queue = fs.queue /\ t.chunk = Chunk
    BY <1>0, <2>3, SetFileInfoOK DEF SetFileInfo, SharingOK, SharingState
  <2>6. fs' = TakeSegmentId(t)
    BY <1>4, <2>2 DEF HandlePreparedFileSharing
  <2> HIDE DEF t
  <2>7. SongCount # 0
    BY <2>4, SongHasSegments
  <2> QED BY <2>5, <2>6, <2>7, BytesKept DEF Known
<1>5. ASSUME HandleReturnSegment PROVE Quiet \/ \E i \in Slots(fs), seg \in Segment : Pushed(i, seg)
  <2>1. inbox # << >> /\ Head(inbox).msg.type = "segment"
    BY <1>5 DEF HandleReturnSegment, Draining
  <2>2. PICK m \in ReceiverMessages : m = Head(inbox).msg
    <3>1. Head(inbox) \in [from : Peers, msg : ReceiverMessages]
      BY <2>1, HeadTailProperties DEF OneSong
    <3> QED BY <3>1
  <2>3. PICK seg \in Segment : seg = m.seg
    BY <2>1, <2>2 DEF ReceiverMessages, SongSegments
  <2> DEFINE got == PushSegment(fs, seg)
  <2>4. SharingOK(got)
    BY <1>0, PushSegmentOK
  <2>5. fs' = got \/ fs' = TakeSegmentId(got)
    BY <1>5, <2>2, <2>3 DEF HandleReturnSegment
  <2>6. got = fs \/ /\ seg.slot \in Slots(fs)
                    /\ got = [fs EXCEPT !.qcb = fs.qcb + fs.chunk,
                                        !.queue = [fs.queue EXCEPT ![seg.slot] = Append(@, seg)]]
    BY DEF PushSegment
  <2>7. fs'.qcb = got.qcb /\ fs'.chunk = got.chunk /\ fs'.queue = got.queue /\ fs'.total = got.total
    <3> HIDE DEF got
    <3> QED BY <2>4, <2>5, BytesKept
  <2>8. CASE got = fs
    <3> HIDE DEF got
    <3> QED BY <2>7, <2>8 DEF Quiet
  <2>9. CASE got # fs
    <3>1. /\ got.qcb = fs.qcb + fs.chunk /\ got.chunk = fs.chunk /\ got.total = fs.total
          /\ got.queue = [fs.queue EXCEPT ![seg.slot] = Append(@, seg)]
          /\ seg.slot \in Slots(fs)
      <4> HIDE DEF got
      <4> QED BY <1>0, <2>6, <2>9 DEF SharingOK, SharingState
    <3> HIDE DEF got
    <3>2. Pushed(seg.slot, seg)
      BY <2>7, <3>1 DEF Pushed
    <3> QED BY <3>1, <3>2
  <2> QED BY <2>8, <2>9
<1> QED BY <1>1, <1>2, <1>3, <1>4, <1>5
        DEF Next, UserStep, GtkStep, HookStep, DrainStep, OtherStep

LEMMA ChunkKnownNext ==
    ASSUME StreamInv, ChunkKnown, [Next]_vars
    PROVE  ChunkKnown'
<1>1. CASE StartFileSharing
  BY <1>1 DEF StartFileSharing, ResetSharingFile, ChunkKnown
<1>2. CASE AddOwner \/ DropSegment
  <2>1. SharingOK(fs)
    BY DEF StreamInv, TypeOK
  <2>2. fs'.chunk = fs.chunk /\ fs'.total = fs.total
    BY <1>2, <2>1 DEF AddOwner, NewPeer, DropSegment, DropFront, SharingOK, SharingState
  <2> QED BY <2>2 DEF ChunkKnown
<1>3. CASE ~StartFileSharing /\ ~AddOwner /\ ~DropSegment
  <2>1. (fs'.chunk = fs.chunk /\ fs'.total = fs.total) \/ (fs'.chunk = Chunk /\ fs'.total # 0)
    BY <1>3, BytesNext DEF Quiet, Known, Pushed, Popped
  <2> QED BY <2>1 DEF ChunkKnown
<1> QED BY <1>1, <1>2, <1>3

LEMMA Times ==
    ASSUME NEW c \in Int, NEW l \in Int
    PROVE  c * (l + 1) = c * l + c /\ c * (l - 1) = c * l - c
OBVIOUS

\* The segments counted over no queue, and over one.
LEMMA OneQueue ==
    ASSUME NEW s, SharingOK(s), NEW todo \in Seq(Peers), Len(s.queue) + Len(todo) <= 1
    PROVE  LET sum == SumFunction([i \in Slots(s) |-> Len(s.queue[i])])
           IN  /\ s.queue \in Seq(Seq(Segment)) /\ Len(s.queue) \in {0, 1}
               /\ s.qcb \in Int /\ s.chunk \in Nat
               /\ Len(s.queue) = 0 => sum = 0
               /\ Len(s.queue) = 1 => /\ sum = Len(s.queue[1]) /\ Len(s.queue[1]) \in Nat
                                      /\ s.queue[1] \in Seq(Segment)
<1>1. s.queue \in Seq(Seq(Segment)) /\ s.qcb \in Int /\ s.chunk \in Nat
  BY DEF SharingOK, SharingState
<1>2. PICK q \in Seq(Seq(Segment)), a \in Nat, b \in Nat :
        q = s.queue /\ a = Len(q) /\ b = Len(todo)
  BY <1>1
<1>3. a + b <= 1
  BY <1>2
<1>4. a \in {0, 1} /\ a <= 1
  BY <1>3
<1>5. /\ Len(q) = 0 => SumFunction([i \in 1..Len(q) |-> Len(q[i])]) = 0
      /\ Len(q) = 1 => /\ SumFunction([i \in 1..Len(q) |-> Len(q[i])]) = Len(q[1])
                       /\ q[1] \in Seq(Segment)
  BY <1>2, <1>4, QueuedInOne
<1>6. Len(q) = 1 => Len(q[1]) \in Nat
  BY <1>5
<1> QED BY <1>1, <1>2, <1>4, <1>5, <1>6 DEF Slots

LEMMA QueuedIs ==
    ASSUME TypeOK, OneSlot
    PROVE  /\ fs.queue \in Seq(Seq(Segment)) /\ Len(fs.queue) \in {0, 1}
           /\ fs.qcb \in Int /\ fs.chunk \in Nat
           /\ Len(fs.queue) = 0 => Queued = 0
           /\ Len(fs.queue) = 1 => /\ Queued = Len(fs.queue[1]) /\ Len(fs.queue[1]) \in Nat
                                   /\ fs.queue[1] \in Seq(Segment)
<1>1. SharingOK(fs) /\ gtk.todo \in Seq(Peers)
  BY DEF TypeOK, GtkState
<1> QED BY <1>1, OneQueue DEF OneSlot, Queued

LEMMA QueueBytesNext ==
    ASSUME SingleOwnerInv, TypeOK', OneSlot', [Next]_vars
    PROVE  QueueBytesExact'
<1> USE DEF SingleOwnerInv, TransferInv, StreamInv, PipelineInv
<1>1. /\ fs.queue \in Seq(Seq(Segment)) /\ Len(fs.queue) \in {0, 1}
      /\ fs.qcb \in Int /\ fs.chunk \in Nat
      /\ Len(fs.queue) = 0 => Queued = 0
      /\ Len(fs.queue) = 1 => /\ Queued = Len(fs.queue[1]) /\ Len(fs.queue[1]) \in Nat
                              /\ fs.queue[1] \in Seq(Segment)
  BY QueuedIs
<1>2. /\ fs'.queue \in Seq(Seq(Segment)) /\ Len(fs'.queue) \in {0, 1}
      /\ fs'.qcb \in Int /\ fs'.chunk \in Nat
      /\ Len(fs'.queue) = 0 => Queued' = 0
      /\ Len(fs'.queue) = 1 => Queued' = Len(fs'.queue[1]) /\ Len(fs'.queue[1]) \in Nat
  <2>1. SharingOK(fs') /\ gtk'.todo \in Seq(Peers)
    BY DEF TypeOK, GtkState
  <2>2. Len(fs'.queue) + Len(gtk'.todo) <= 1
    BY DEF OneSlot
  <2>3. Queued' = SumFunction([i \in Slots(fs') |-> Len(fs'.queue[i])])
    BY DEF Queued
  <2> QED BY <2>1, <2>2, <2>3, OneQueue
<1>3. fs.qcb = fs.chunk * Queued
  BY DEF QueueBytesExact
<1>4. SUFFICES fs'.qcb = fs'.chunk * Queued'
  BY DEF QueueBytesExact
<1>5. CASE StartFileSharing
  <2>1. fs'.qcb = 0 /\ fs'.chunk = 0 /\ fs'.queue = << >>
    BY <1>5 DEF StartFileSharing, ResetSharingFile
  <2>2. Len(fs'.queue) = 0
    BY <2>1
  <2> QED BY <1>2, <2>1, <2>2
<1>6. CASE AddOwner
  <2>1. /\ fs'.queue = Append(fs.queue, << >>) /\ fs'.qcb = fs.qcb /\ fs'.chunk = fs.chunk
        /\ gtk.todo \in Seq(Peers) /\ gtk.todo # << >>
    BY <1>6 DEF AddOwner, NewPeer, TypeOK, GtkState, SharingOK, SharingState
  <2>2. << >> \in Seq(Segment)
    BY EmptySeq
  <2>3. Len(fs'.queue) = Len(fs.queue) + 1 /\ fs'.queue[Len(fs.queue) + 1] = << >>
    BY <1>1, <2>1, <2>2, AppendProperties
  <2>4. Len(fs.queue) = 0
    BY <1>1, <1>2, <2>3
  <2>5. Queued = 0 /\ Queued' = 0
    BY <1>1, <1>2, <2>3, <2>4
  <2> QED BY <1>1, <1>3, <2>1, <2>5
<1>7. CASE ~StartFileSharing /\ ~AddOwner
  <2>1. \/ Quiet \/ Known
        \/ \E i \in Slots(fs), seg \in Segment : Pushed(i, seg)
        \/ \E i \in Slots(fs) : Popped(i)
    BY <1>7, BytesNext, NoDrop
  <2>2. ASSUME fs'.queue = fs.queue PROVE Queued' = Queued
    BY <2>2 DEF Queued, Slots
  <2>3. CASE Quiet
    BY <1>3, <2>2, <2>3 DEF Quiet
  <2>4. CASE Known
    <3>1. fs'.qcb = fs.qcb /\ Queued' = Queued /\ fs'.chunk = Chunk
      BY <2>2, <2>4 DEF Known
    <3>2. CASE fs.total = SongCount
      BY <1>3, <2>4, <3>1, <3>2 DEF Known, ChunkKnown
    <3>3. CASE fs.total # SongCount
      <4>1. SongSegments = {}
        BY <3>3 DEF SongSegments
      <4>2. fs.queue \in Seq(Seq({}))
        BY <4>1 DEF OneSong
      <4>3. Len(fs.queue) = 1 => fs.queue[1] = << >>
        <5>1. Len(fs.queue) = 1 => fs.queue[1] \in Seq({})
          BY <4>2
        <5>2. \A t \in Seq({}) : t = << >>
          BY HeadTailProperties
        <5> QED BY <5>1, <5>2
      <4>4. Queued = 0
        BY <1>1, <4>3
      <4>5. Chunk \in Nat
        BY TransferAssumption
      <4> QED BY <1>1, <1>3, <3>1, <4>4, <4>5
    <3> QED BY <3>2, <3>3
  <2>5. ASSUME NEW i \in Slots(fs) PROVE i = 1 /\ Len(fs.queue) = 1
    <3>1. PICK l \in {0, 1} : l = Len(fs.queue)
      BY <1>1
    <3>2. i \in 1..l
      BY <3>1 DEF Slots
    <3>3. CASE l = 0
      BY <3>2, <3>3
    <3>4. CASE l = 1
      BY <3>1, <3>2, <3>4
    <3> QED BY <3>3, <3>4
  <2>6. ASSUME NEW i \in Slots(fs), NEW seg \in Segment, Pushed(i, seg)
        PROVE  fs'.qcb = fs'.chunk * Queued'
    <3>1. i = 1 /\ Len(fs.queue) = 1
      BY <2>5
    <3>2. PICK s \in Seq(Segment), n \in Nat : s = fs.queue[1] /\ n = Len(s)
      BY <1>1, <3>1
    <3>3. Len(Append(s, seg)) = n + 1
      BY <3>2, AppendProperties
    <3>4. Len(fs'.queue) = 1 /\ fs'.queue[1] = Append(s, seg)
      BY <1>1, <2>6, <3>1, <3>2 DEF Pushed
    <3>5. Queued = n /\ Queued' = n + 1
      BY <1>1, <1>2, <3>1, <3>2, <3>3, <3>4
    <3>6. fs'.qcb = fs.chunk * n + fs.chunk /\ fs'.chunk = fs.chunk
      BY <1>3, <2>6, <3>5 DEF Pushed
    <3>7. fs.chunk * (n + 1) = fs.chunk * n + fs.chunk
      <4>1. PICK c \in Int, l \in Int : c = fs.chunk /\ l = n
        BY <1>1
      <4>2. c * (l + 1) = c * l + c
        BY Times
      <4> QED BY <4>1, <4>2
    <3> QED BY <3>5, <3>6, <3>7
  <2>7. ASSUME NEW i \in Slots(fs), Popped(i)
        PROVE  fs'.qcb = fs'.chunk * Queued'
    <3>1. i = 1 /\ Len(fs.queue) = 1
      BY <2>5
    <3>2. PICK s \in Seq(Segment), n \in Nat : s = fs.queue[1] /\ n = Len(s) /\ s # << >>
      BY <1>1, <2>7, <3>1 DEF Popped
    <3>3. Len(Tail(s)) = n - 1
      BY <3>2, HeadTailProperties
    <3>4. Len(fs'.queue) = 1 /\ fs'.queue[1] = Tail(s)
      BY <1>1, <2>7, <3>1, <3>2 DEF Popped
    <3>5. Queued = n /\ Queued' = n - 1
      BY <1>1, <1>2, <3>1, <3>2, <3>3, <3>4
    <3>6. fs'.qcb = fs.chunk * n - fs.chunk /\ fs'.chunk = fs.chunk
      BY <1>3, <2>7, <3>5 DEF Popped
    <3>7. fs.chunk * (n - 1) = fs.chunk * n - fs.chunk
      <4>1. PICK c \in Int, l \in Int : c = fs.chunk /\ l = n
        BY <1>1
      <4>2. c * (l - 1) = c * l - c
        BY Times
      <4> QED BY <4>1, <4>2
    <3> QED BY <3>5, <3>6, <3>7
  <2> QED BY <2>1, <2>3, <2>4, <2>6, <2>7
<1> QED BY <1>5, <1>6, <1>7

LEMMA SingleOwnerInit == ASSUME OneGoodTransfer, Init PROVE SingleOwnerInv
<1>1. TransferInv
  BY TransferInit
<1>2. /\ fs.queue = << >> /\ fs.total = 0 /\ fs.chunk = 0 /\ fs.qcb = 0 /\ fs.cwi = 0 /\ fs.csi = -1
      /\ gtk.todo = << >>
  BY DEF Init, ResetSharingFile
<1>3. OneSlot /\ ChunkKnown /\ NothingThrownAway
  BY <1>2 DEF OneSlot, ChunkKnown, NothingThrownAway
<1>4. Queued = 0
  BY <1>1, <1>2, <1>3, QueuedIs DEF TransferInv, StreamInv
<1>5. QueueBytesExact
  BY <1>2, <1>4 DEF QueueBytesExact
<1> QED BY <1>1, <1>3, <1>5 DEF SingleOwnerInv

LEMMA SingleOwnerNext ==
    ASSUME OneGoodTransfer, SingleOwner, Leavers = {}, SingleOwnerInv, [Next]_vars
    PROVE  SingleOwnerInv'
<1>1. TypeOK /\ StreamInv /\ TransferInv /\ OneSlot /\ ChunkKnown
  BY DEF SingleOwnerInv, TransferInv, StreamInv
<1>2. TransferInv' /\ TypeOK'
  BY <1>1, TransferNext DEF TransferInv, StreamInv
<1>3. OneSlot'
  BY <1>1, OneSlotNext
<1>4. ChunkKnown'
  BY <1>1, ChunkKnownNext
<1>5. NothingThrownAway'
  BY <1>2, NothingThrownAwayNext
<1>6. QueueBytesExact'
  BY <1>2, <1>3, QueueBytesNext
<1> QED BY <1>2, <1>3, <1>4, <1>5, <1>6 DEF SingleOwnerInv

\* While one owner streams a song that it can read, and stays, no segment that
\* was asked for is lost before it has been played: every id from
\* current_writing_id to current_segment_id is queued, or on its way to the
\* owner or back, however often the user pauses (try_writing_segment,
\* if_idle, handle_return_segment).
THEOREM NothingThrownAwayAlways ==
    ASSUME OneGoodTransfer, SingleOwner, Leavers = {} PROVE Spec => []NothingThrownAway
<1>1. Init => SingleOwnerInv
  BY SingleOwnerInit
<1>2. SingleOwnerInv /\ [Next]_vars => SingleOwnerInv'
  BY SingleOwnerNext
<1>3. SingleOwnerInv => NothingThrownAway
  BY DEF SingleOwnerInv
<1> QED BY <1>1, <1>2, <1>3, PTL DEF Spec

\* Meanwhile queue_current_bytes, from which should_pause decides, is the
\* number of segments that are queued times bytes_per_chunk.
THEOREM QueueBytesAlways ==
    ASSUME OneGoodTransfer, SingleOwner, Leavers = {} PROVE Spec => []QueueBytesExact
<1>1. Init => SingleOwnerInv
  BY SingleOwnerInit
<1>2. SingleOwnerInv /\ [Next]_vars => SingleOwnerInv'
  BY SingleOwnerNext
<1>3. SingleOwnerInv => QueueBytesExact
  BY DEF SingleOwnerInv
<1> QED BY <1>1, <1>2, <1>3, PTL DEF Spec
=============================================================================
