---------------------------- MODULE FileTransfer ----------------------------
(***************************************************************************)
(* One node streaming songs from the peers that own them: the handlers of  *)
(* MyApplication that use the FileSharing object (application.cpp), the    *)
(* cycle of ApplicationClient that runs them (application-client.cpp), the *)
(* GTK thread that starts, pauses and resumes a song, and the handlers of  *)
(* the sending peers.                                                      *)
(*                                                                         *)
(* Two threads of the receiving node share the FileSharing object without  *)
(* a lock.  The io thread runs one cycle after another; `io.pc' is where   *)
(* it is:                                                                  *)
(*   wait      between two cycles, the time when sockets are read          *)
(*   pausing, resuming   should_pause has decided, and not yet acted       *)
(*   begin, write        try_writing_segment                               *)
(*   beginAsk, ask       if_idle                                           *)
(*   drain     the loop that handles in_msgs, then start_writing           *)
(* One step is one call, or one iteration of a loop over the queues.  The  *)
(* GTK thread has its own steps (`gtk.pc') and may run between any two.    *)
(*                                                                         *)
(* A connection delivers what is written to it in order; reading and       *)
(* writing single messages is the subject of MessagePump.                  *)
(***************************************************************************)
EXTENDS FileSharing, ChunkedFile, Functions

CONSTANTS Owners,      \* network_tracks: the peers known to own each file
          Holds,       \* the files each peer's store can find
          FileSize,    \* size in bytes of each file that is there
          Missing,     \* <<peer, file>>: a row, and no file at its path any more
          Unreadable,  \* <<peer, file>>: a file that cannot be opened
          Chunk,       \* DEFAULT_CHUNK_SIZE * 8, what a sender cuts files into
          Garbage,     \* values of a ChunkedFile's total before any open
          Leavers,     \* peers that may disconnect
          MaxSessions, \* bound: songs the user selects
          MaxPauses,   \* bound: times the user presses pause
          MaxOthers    \* bound: transfers other receivers start at the peers

ASSUME TransferAssumption ==
    /\ NoFile \notin Files
    /\ Owners \in [Files -> Seq(Peers)]
    /\ Holds \in [Peers -> SUBSET Files]
    /\ FileSize \in [Files -> Nat \ {0}]
    /\ Missing \subseteq Peers \X Files /\ Unreadable \subseteq Peers \X Files
    /\ Chunk \in Nat \ {0}
    /\ Garbage \subseteq Int /\ Garbage # {}
    /\ Leavers \subseteq Peers
    /\ MaxSessions \in Nat /\ MaxPauses \in Nat /\ MaxOthers \in Nat

VARIABLES
    fs,      \* the FileSharing object
    io,      \* the io thread: pc, pass and slot of its loops, any queue seen
    gtk,     \* the GTK thread: pc, the song it loads, peers still to add
    stream,  \* the BufferedAudio object: its song, what it was given, EOS
    outbox,  \* out_msgs, per destination
    req,     \* bytes written to each peer's connection, not yet handled
    resp,    \* bytes each peer wrote back, not yet read
    inbox,   \* in_msgs
    cf,      \* the ChunkedFile object of each peer
    gone,    \* the peers that have disconnected
    used     \* how much of each bound is used up

vars == << fs, io, gtk, stream, outbox, req, resp, inbox, cf, gone, used >>

\* Groups for UNCHANGED.
netVars  == << req, resp, inbox, cf, gone >>
userVars == << gtk, used >>

Message ==
    [type : {"prepare"}, slot : Nat \ {0}, file : Files]
    \cup [type : {"prepared"}, slot : Nat \ {0}, total : Int, chunk : Nat, bytes : Int]
    \cup [type : {"nofile"}, slot : Nat \ {0}]
    \cup [type : {"get"}, slot : Nat \ {0}, id : Nat]
    \cup [type : {"segment"}, seg : Segment]

Prepare(slot, file) == [type |-> "prepare", slot |-> slot, file |-> file]
Prepared(slot, c)   == [type |-> "prepared", slot |-> slot, total |-> c.total,
                        chunk |-> c.chunk, bytes |-> c.size]
NoSuchFile(slot)    == [type |-> "nofile", slot |-> slot]
Get(slot, id)       == [type |-> "get", slot |-> slot, id |-> id]
Return(slot, id, f) == [type |-> "segment",
                        seg |-> [id |-> id, slot |-> slot, file |-> f]]

SegmentCount(f) == CeilDiv(FileSize[f], Chunk)
SizeAt(p, f)    == IF << p, f >> \in Missing THEN -1 ELSE FileSize[f]
StreamAt(p, f)  == IF << p, f >> \in Unreadable THEN NoFile ELSE f
OpenAt(p, f)    == OpenFile(cf[p], StreamAt(p, f), SizeAt(p, f), Chunk, StreamAt(p, f) # NoFile)

PushMessage(p, m) == outbox' = [outbox EXCEPT ![p] = Append(@, m)]

IoAt(pc, pass) == [pc |-> pc, pass |-> pass, slot |-> 1, seen |-> FALSE]
GoTo(pc) == io' = IoAt(pc, 1)

\* Undefined behaviour: nothing is known of the receiver from here on.
Crashed == io.pc = "crashed"
Crash == /\ GoTo("crashed")
         /\ gtk' = [gtk EXCEPT !.pc = "crashed"]

\* The io thread holds a reference into the vectors of the FileSharing object.
Iterating == io.pc \in {"write", "ask"} /\ fs.queue # << >>

---------------------------------------------------------------------------
Init ==
    /\ fs = ResetSharingFile
    /\ io = IoAt("wait", 1)
    /\ gtk = [pc |-> "rest", file |-> NoFile, load |-> NoFile, todo |-> << >>, playing |-> FALSE]
    /\ stream = [file |-> NoFile, data |-> << >>, eos |-> 0]
    /\ outbox = [p \in Peers |-> << >>]
    /\ req = [p \in Peers |-> << >>]
    /\ resp = [p \in Peers |-> << >>]
    /\ inbox = << >>
    /\ cf \in [Peers -> {[file |-> NoFile, size |-> 0, total |-> g, chunk |-> 0,
                          failed |-> b] : g \in Garbage, b \in BOOLEAN}]
    /\ gone = {}
    /\ used = [sessions |-> 0, pauses |-> 0, others |-> 0]

---------------------------------------------------------------------------
(* The GTK thread. *)

\* ChangeMusic: the user selects a song that is in the network.
ChangeMusic(f) ==
    /\ gtk.pc = "rest" /\ used.sessions < MaxSessions
    /\ fs' = MustPause(fs)
    /\ gtk' = [gtk EXCEPT !.pc = "pausing", !.load = f]
    /\ used' = [used EXCEPT !.sessions = @ + 1]
    /\ UNCHANGED << io, stream, outbox, netVars >>

\* PauseMusic, from its first call on the FileSharing object.
PauseMusic ==
    /\ gtk.pc = "rest" /\ gtk.playing /\ used.pauses < MaxPauses
    /\ fs' = MustPause(fs)
    /\ gtk' = [gtk EXCEPT !.pc = "pausing"]
    /\ used' = [used EXCEPT !.pauses = @ + 1]
    /\ UNCHANGED << io, stream, outbox, netVars >>

\* The rest of PauseMusic; ChangeMusic goes on to LoadMusic.
FinishPause ==
    /\ gtk.pc = "pausing"
    /\ fs' = PauseWriting(fs)
    /\ gtk' = [gtk EXCEPT !.pc = IF gtk.load = NoFile THEN "rest" ELSE "loading",
                          !.playing = FALSE]
    /\ UNCHANGED << io, stream, outbox, netVars, used >>

\* PlayMusic of a paused song.
PlayMusic ==
    /\ gtk.pc = "rest" /\ ~gtk.playing /\ gtk.file # NoFile
    /\ fs' = StopMustPause(fs)
    /\ gtk' = [gtk EXCEPT !.playing = TRUE]
    /\ UNCHANGED << io, stream, outbox, netVars, used >>

\* start_file_sharing, first the reset and then one owner after another.
StartFileSharing ==
    /\ gtk.pc = "loading" /\ ~Iterating
    /\ fs' = ResetSharingFile
    /\ gtk' = [gtk EXCEPT !.pc = "adding", !.file = gtk.load, !.load = NoFile,
                          !.todo = Owners[gtk.load]]
    /\ UNCHANGED << io, stream, outbox, netVars, used >>

AddOwner ==
    /\ gtk.pc = "adding" /\ gtk.todo # << >> /\ ~Iterating
    /\ LET p == Head(gtk.todo)
       IN  /\ fs' = NewPeer(fs, p)
           /\ PushMessage(p, Prepare(Len(fs.queue) + 1, gtk.file))
    /\ gtk' = [gtk EXCEPT !.todo = Tail(@)]
    /\ UNCHANGED << io, stream, netVars, used >>

\* LoadMusic replaces the BufferedAudio object only now, and not at all when
\* nobody owns the file and start_file_sharing has returned false.
NewBufferedAudio ==
    /\ gtk.pc = "adding" /\ gtk.todo = << >>
    /\ stream' = IF Owners[gtk.file] = << >> THEN stream
                 ELSE [file |-> gtk.file, data |-> << >>, eos |-> 0]
    /\ gtk' = [gtk EXCEPT !.pc = "rest"]
    /\ UNCHANGED << fs, io, outbox, netVars, used >>

\* The vectors are cleared or grown while the io thread walks through them.
RaceOnVectors ==
    /\ Iterating
    /\ \/ gtk.pc = "loading"
       \/ gtk.pc = "adding" /\ gtk.todo # << >>
    /\ Crash
    /\ UNCHANGED << fs, stream, outbox, netVars, used >>

---------------------------------------------------------------------------
(* The io thread: additional_cycle_hook. *)

\* should_pause reads the byte counts and hard_pause ...
Tick ==
    /\ io.pc = "wait"
    /\ GoTo(CASE ~MayThrottle(fs) -> "begin"
              [] MayThrottle(fs) /\ TooMuchQueued(fs) -> "pausing"
              [] OTHER -> "resuming")
    /\ UNCHANGED << fs, stream, outbox, netVars, userVars >>

\* ... and then pauses or resumes.
ShouldPause ==
    /\ io.pc \in {"pausing", "resuming"}
    /\ fs' = IF io.pc = "pausing" THEN PauseWriting(fs) ELSE ResumeWriting(fs)
    /\ GoTo("begin")
    /\ UNCHANGED << stream, outbox, netVars, userVars >>

BeginWriting ==
    /\ io.pc = "begin"
    /\ GoTo(IF Paused(fs) THEN "beginAsk" ELSE "write")
    /\ UNCHANGED << fs, stream, outbox, netVars, userVars >>

AtQueue == io.pc = "write" /\ io.slot \in Slots(fs)
NextQueue(seen) == io' = [io EXCEPT !.slot = @ + 1, !.seen = @ \/ seen]

\* try_writing_segment, one queue: segment_has_arrived gets its front.
WriteSegment ==
    /\ AtQueue /\ Writable(fs, io.slot)
    /\ IF stream.file = NoFile
       THEN /\ Crash    \* bfa is still NULL
            /\ UNCHANGED << fs, stream >>
       ELSE /\ fs' = WriteFront(fs, io.slot)
            /\ stream' = [stream EXCEPT
                            !.data = Append(@, [id   |-> Front(fs, io.slot).id,
                                                file |-> Front(fs, io.slot).file]),
                            !.eos  = IF IsEnd(fs) THEN @ + 1 ELSE @]
            /\ IF IsEnd(fs) THEN GoTo("beginAsk") ELSE NextQueue(TRUE)
            /\ UNCHANGED gtk
    /\ UNCHANGED << outbox, netVars, used >>

\* A front whose turn is over, or too far ahead, is popped unwritten.
DropSegment ==
    /\ AtQueue /\ Droppable(fs, io.slot)
    /\ fs' = DropFront(fs, io.slot)
    /\ NextQueue(TRUE)
    /\ UNCHANGED << stream, outbox, netVars, userVars >>

SkipQueue ==
    /\ AtQueue /\ ~Writable(fs, io.slot) /\ ~Droppable(fs, io.slot)
    /\ NextQueue(HasFront(fs, io.slot))
    /\ UNCHANGED << fs, stream, outbox, netVars, userVars >>

\* After the second pass, or a pass that saw nothing, writing is over.
EndPass ==
    /\ io.pc = "write" /\ io.slot \notin Slots(fs)
    /\ IF io.pass = 1 /\ io.seen
       THEN io' = IoAt("write", 2)
       ELSE GoTo("beginAsk")
    /\ UNCHANGED << fs, stream, outbox, netVars, userVars >>

BeginAsking ==
    /\ io.pc = "beginAsk"
    /\ GoTo(IF Paused(fs) THEN "drain" ELSE "ask")
    /\ UNCHANGED << fs, stream, outbox, netVars, userVars >>

\* if_idle, one peer.
AskIdlePeer ==
    /\ io.pc = "ask" /\ io.slot \in Slots(fs)
    /\ IF ~fs.idle[io.slot] THEN UNCHANGED << fs, outbox >>
       ELSE IF AllSegmentsAsked(fs)
       THEN fs' = UnsetPeerIdle(fs, io.slot) /\ UNCHANGED outbox
       ELSE /\ fs' = UnsetPeerIdle(TakeSegmentId(fs), io.slot)
            /\ PushMessage(fs.peer[io.slot], Get(io.slot, NextSegmentId(fs)))
    /\ io' = [io EXCEPT !.slot = @ + 1]
    /\ UNCHANGED << stream, netVars, userVars >>

EndAsking ==
    /\ io.pc = "ask" /\ io.slot \notin Slots(fs)
    /\ GoTo("drain")
    /\ UNCHANGED << fs, stream, outbox, netVars, userVars >>

---------------------------------------------------------------------------
(* The io thread: the messages of in_msgs, then start_writing. *)

Draining(type) ==
    /\ io.pc = "drain" /\ inbox # << >> /\ Head(inbox).msg.type = type
    /\ inbox' = Tail(inbox)

HandlePreparedFileSharing ==
    /\ Draining("prepared")
    /\ LET m == Head(inbox).msg
       IN  /\ fs' = TakeSegmentId(SetFileInfo(fs, m.total, m.chunk, m.bytes))
           /\ PushMessage(Head(inbox).from, Get(m.slot, NextSegmentId(fs)))
    /\ UNCHANGED << io, stream, req, resp, cf, gone, userVars >>

HandleReturnSegment ==
    /\ Draining("segment")
    /\ LET seg == Head(inbox).msg.seg
           got == PushSegment(fs, seg)
       IN  IF AllSegmentsAsked(got) \/ got.pause
           THEN fs' = got /\ UNCHANGED outbox
           ELSE /\ fs' = TakeSegmentId(got)
                /\ PushMessage(Head(inbox).from, Get(seg.slot, NextSegmentId(got)))
    /\ UNCHANGED << io, stream, req, resp, cf, gone, userVars >>

\* NO_SUCH_FILE has no case in handle_message.
IgnoreNoSuchFile ==
    /\ Draining("nofile")
    /\ UNCHANGED << fs, io, stream, outbox, req, resp, cf, gone, userVars >>

\* Messages for a peer that is no longer in `peers' are discarded.
StartWriting ==
    /\ io.pc = "drain" /\ inbox = << >>
    /\ req' = [p \in Peers |-> IF p \in gone THEN << >> ELSE req[p] \o outbox[p]]
    /\ outbox' = [p \in Peers |-> << >>]
    /\ GoTo("wait")
    /\ UNCHANGED << fs, stream, resp, inbox, cf, gone, userVars >>

\* start_reading ... add_to_incoming, between two cycles.
ReadMessage(p) ==
    /\ io.pc = "wait" /\ resp[p] # << >>
    /\ inbox' = Append(inbox, [from |-> p, msg |-> Head(resp[p])])
    /\ resp' = [resp EXCEPT ![p] = Tail(@)]
    /\ UNCHANGED << fs, io, stream, outbox, req, cf, gone, userVars >>

---------------------------------------------------------------------------
(* The sending peers. *)

Received(p, type) ==
    /\ req[p] # << >> /\ Head(req[p]).type = type
    /\ req' = [req EXCEPT ![p] = Tail(@)]

Answer(p, m) == resp' = [resp EXCEPT ![p] = Append(@, m)]

\* Slip: no return after NO_SUCH_FILE.
HandlePrepareWithoutReturn(p) ==
    /\ Received(p, "prepare")
    /\ LET m == Head(req[p])
       IN  /\ cf' = IF m.file \in Holds[p]
                    THEN [cf EXCEPT ![p] = OpenAt(p, m.file)]
                    ELSE cf
           /\ Answer(p, Prepared(m.slot, cf'[p]))
    /\ UNCHANGED << fs, io, stream, outbox, inbox, gone, userVars >>

HandlePrepareFileSharing(p) ==
    /\ Received(p, "prepare")
    /\ LET m == Head(req[p])
       IN  IF m.file \notin Holds[p]
           THEN Answer(p, NoSuchFile(m.slot)) /\ UNCHANGED cf
           ELSE /\ cf' = [cf EXCEPT ![p] = OpenAt(p, m.file)]
                /\ Answer(p, Prepared(m.slot, cf'[p]))
    /\ UNCHANGED << fs, io, stream, outbox, inbox, gone, userVars >>

\* A segment that cannot be read is not answered: NO_SUCH_SEGMENT is built
\* and not sent.
HandleGetSegment(p) ==
    /\ Received(p, "get")
    /\ LET m == Head(req[p])
       IN  IF CanGet(cf[p], m.id)
           THEN Answer(p, Return(m.slot, m.id, cf[p].file))
           ELSE UNCHANGED resp
    /\ UNCHANGED << fs, io, stream, outbox, inbox, cf, gone, userVars >>

\* Another node asks p for file f: p has one ChunkedFile for all of them.
HandleOtherPrepare(p, f) ==
    /\ used.others < MaxOthers /\ f \in Holds[p]
    /\ cf' = [cf EXCEPT ![p] = OpenAt(p, f)]
    /\ used' = [used EXCEPT !.others = @ + 1]
    /\ UNCHANGED << fs, io, gtk, stream, outbox, req, resp, inbox, gone >>

\* p disconnects; what was under way is lost.
Leave(p) ==
    /\ p \in Leavers \ gone
    /\ gone' = gone \cup {p}
    /\ req' = [req EXCEPT ![p] = << >>]
    /\ resp' = [resp EXCEPT ![p] = << >>]
    /\ UNCHANGED << fs, io, stream, outbox, inbox, cf, userVars >>

---------------------------------------------------------------------------
UserStep == (\E f \in Files : ChangeMusic(f)) \/ PauseMusic \/ PlayMusic
GtkStep  == FinishPause \/ StartFileSharing \/ AddOwner \/ NewBufferedAudio \/ RaceOnVectors
HookStep == \/ Tick \/ ShouldPause \/ BeginWriting
            \/ WriteSegment \/ DropSegment \/ SkipQueue \/ EndPass
            \/ BeginAsking \/ AskIdlePeer \/ EndAsking
DrainStep == HandlePreparedFileSharing \/ HandleReturnSegment \/ IgnoreNoSuchFile \/ StartWriting
SenderStep(p) == HandlePrepareFileSharing(p) \/ HandleGetSegment(p)
OtherStep == \E p \in Peers : Leave(p) \/ \E f \in Files : HandleOtherPrepare(p, f)

Next == \/ UserStep \/ GtkStep \/ HookStep \/ DrainStep \/ OtherStep
        \/ \E p \in Peers : ReadMessage(p) \/ SenderStep(p)

Spec == Init /\ [][Next]_vars

\* A thread that has work to do goes on with it; an open connection that has
\* bytes is read in one of the pauses between two cycles, which last a
\* second.  The user is under no obligation.
Fairness ==
    /\ WF_vars(GtkStep)
    /\ WF_vars(HookStep \/ DrainStep)
    /\ \A p \in Peers : /\ SF_vars(ReadMessage(p))
                        /\ WF_vars(SenderStep(p))

FairSpec == Spec /\ Fairness

---------------------------------------------------------------------------
(* What is true of the receiver. *)

IoState == [pc : {"wait", "pausing", "resuming", "begin", "write", "beginAsk",
                  "ask", "drain", "crashed"},
            pass : {1, 2}, slot : Nat \ {0}, seen : BOOLEAN]
GtkState == [pc : {"rest", "pausing", "loading", "adding", "crashed"},
             file : Contents, load : Contents, todo : Seq(Peers), playing : BOOLEAN]
StreamState == [file : Contents, eos : Nat, data : Seq([id : Nat, file : Contents])]
Counts == [sessions : Nat, pauses : Nat, others : Nat]

\* Type invariant: the vectors of FileSharing that are indexed by assigned id
\* have equal lengths, and the GTK thread only loads songs that exist.
TypeOK ==
    /\ SharingOK(fs)
    /\ io \in IoState
    /\ gtk \in GtkState
    /\ gtk.pc = "loading" => gtk.load \in Files
    /\ gtk.pc = "adding" => gtk.file \in Files
    /\ stream \in StreamState
    /\ outbox \in [Peers -> Seq(Message)]
    /\ req \in [Peers -> Seq(Message)]
    /\ resp \in [Peers -> Seq(Message)]
    /\ inbox \in Seq([from : Peers, msg : Message])
    /\ cf \in [Peers -> ChunkState(Contents)]
    /\ gone \subseteq Leavers
    /\ used \in Counts

\* The BufferedAudio object is given the song in order, without gaps,
\* repetitions or foreign bytes, and the end of stream exactly once, with the
\* last segment (segment_has_arrived).
Delivery == INSTANCE StreamDelivery
              WITH song <- stream.file, out <- stream.data, eos <- stream.eos
DeliversTheSong == Delivery!Spec

\* The segment that a message asks of slot i, or returns for it, if any.
NoId == -1
IdFor(i, m) == IF m.type = "get" /\ m.slot = i THEN m.id
               ELSE IF m.type = "segment" /\ m.seg.slot = i THEN m.seg.id
               ELSE NoId
Ids(i, msgs) == [k \in DOMAIN msgs |-> IdFor(i, msgs[k])]

\* What was asked from a slot and is still of use, oldest first: received
\* and queued, read, answered, asked, and about to be asked.
Pipeline(i) ==
    LET p == fs.peer[i]
    IN  << [k \in DOMAIN fs.queue[i] |-> fs.queue[i][k].id],
           [k \in DOMAIN inbox |-> IdFor(i, inbox[k].msg)],
           Ids(i, resp[p]), Ids(i, req[p]), Ids(i, outbox[p]) >>

IdsOf(way) == (UNION {Range(way[a]) : a \in 1..5}) \ {NoId}
Asked(i)   == IdsOf(Pipeline(i))
UnderWay   == UNION {Asked(i) : i \in Slots(fs)}

Increasing(way) ==
    \A a, b \in 1..5 : \A k \in DOMAIN way[a], l \in DOMAIN way[b] :
        /\ a < b \/ (a = b /\ k < l)
        /\ way[a][k] # NoId /\ way[b][l] # NoId
        => way[a][k] < way[b][l]

\* Each peer is asked in increasing order and no reply overtakes another, and
\* no segment is asked of two peers: the queues can be merged by looking at
\* their fronts only, as try_writing_segment does.
PipelinesMerge ==
    /\ \A i \in Slots(fs) : Increasing(Pipeline(i))
    /\ \A i, j \in Slots(fs) : i # j => Asked(i) \cap Asked(j) = {}
    /\ \A k \in UnderWay : k <= fs.csi

\* A segment that has been asked for and not been written is still under way:
\* it is never asked for again, so losing it would stop the song.  With one
\* owner, a peer never gets ahead of the others.
NothingThrownAway ==
    \A k \in fs.cwi .. fs.csi : k < fs.total => k \in UnderWay

\* Whatever is done with requests, answers and queues, a segment that is no
\* longer under way was given to the player in that step, or lies beyond the
\* look-ahead of try_writing_segment, or beyond the end of the song, which
\* handle_prepared_file_sharing asks for without looking.
LosesOnlyAhead ==
    [][\A k \in UnderWay \ UnderWay' :
          \/ k = fs.cwi /\ fs'.cwi = k + 1
          \/ k > fs.cwi + Len(fs.queue)
          \/ k >= fs.total]_vars

\* queue_current_bytes, from which should_pause decides, counts what is queued.
Queued == SumFunction([i \in Slots(fs) |-> Len(fs.queue[i])])
QueueBytesExact == fs.qcb = fs.chunk * Queued

\* A song that the user selects is played to its end.
EventuallyEnds == (gtk.file # NoFile) ~> (stream.eos > 0 \/ Crashed)

---------------------------------------------------------------------------
(* What comments and documents say of the receiver, and the code does not  *)
(* do.                                                                     *)

\* application.cpp, segment_has_arrived: if end is on, the entire file was sent.
EndMeansWholeFile ==
    stream.eos > 0 => Len(stream.data) = SegmentCount(stream.file)

\* application.h, start_file_sharing: the segments are those of the file asked.
OnlyBytesOfTheSong ==
    \A k \in DOMAIN stream.data : stream.data[k].file = stream.file

\* NETWORK.md: do this until the last segment is requested.
LastSegmentRequested == (fs.total > 0) ~> (AllSegmentsAsked(fs) \/ Crashed)
=============================================================================
