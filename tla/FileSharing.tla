----------------------------- MODULE FileSharing -----------------------------
(***************************************************************************)
(* The FileSharing object of a receiving node (file-sharing.cpp/.h): what  *)
(* has been asked for, what has been written, and one queue of received    *)
(* segments for every peer that takes part in the transfer.                *)
(*                                                                         *)
(* The object is a record and every method an operator from the object     *)
(* before the call to the object after it, so that a handler that makes    *)
(* several calls is their composition.  An assigned id a of the code is    *)
(* the slot a+1 here, since sequences start at 1; current_assigned_id is   *)
(* the number of slots, Len(queue).                                        *)
(*                                                                         *)
(* The worker thread of the object calls ctx.run() before any timer is     *)
(* started and returns at once for want of work, so that no handler of a   *)
(* timer runs in it: the failure and dead bits of a peer's status keep     *)
(* their first value, and only the idle bit changes here.                  *)
(***************************************************************************)
EXTENDS Integers, Sequences

CONSTANTS Peers,  \* the other nodes
          Files,  \* the checksums that name files
          NoFile  \* no file at all

\* The bytes of a segment: those at position id of a file, or meaningless.
Contents == Files \cup {NoFile}

\* A RETURN_SEGMENT body: segment_id, assigned_id_for_peer, body.
Segment == [id : Nat, slot : Nat \ {0}, file : Contents]

SharingState ==
    [csi       : Nat \cup {-1},      \* current_segment_id, last id asked for
     total     : Int,               \* total_segment_count
     cwi       : Nat,               \* current_writing_id, next id to write
     qcb       : Int,               \* queue_current_bytes
     chunk     : Nat,               \* bytes_per_chunk
     bytes     : Int,               \* total_bytes
     pause     : BOOLEAN,
     hardPause : BOOLEAN,
     peer      : Seq(Peers),        \* peer_map
     idle      : Seq(BOOLEAN),      \* the idle bit of status
     queue     : Seq(Seq(Segment))] \* queue_buffer

\* The three vectors indexed by assigned id always have the same length.
Aligned(s) == /\ Len(s.peer) = Len(s.queue)
              /\ Len(s.idle) = Len(s.queue)
SharingOK(s) == s \in SharingState /\ Aligned(s)

ResetSharingFile ==
    [csi |-> -1, total |-> 0, cwi |-> 0, qcb |-> 0, chunk |-> 0, bytes |-> 0,
     pause |-> FALSE, hardPause |-> FALSE,
     peer |-> << >>, idle |-> << >>, queue |-> << >>]

Slots(s) == 1..Len(s.queue)

\* Slip: the status vector is not extended.
NewPeerWithoutStatus(s, p) == [s EXCEPT !.queue = Append(@, << >>),
                                        !.peer  = Append(@, p)]
NewPeer(s, p) == [s EXCEPT !.queue = Append(@, << >>),
                           !.idle  = Append(@, FALSE),
                           !.peer  = Append(@, p)]

\* Slip: an assigned id taken for an index, one too small.
PushSegmentByIndex(s, seg) ==
    IF seg.slot + 1 \in Slots(s)
    THEN [s EXCEPT !.qcb = @ + s.chunk,
                   !.queue[seg.slot + 1] = Append(@, seg)]
    ELSE s
PushSegment(s, seg) ==
    IF seg.slot \in Slots(s)
    THEN [s EXCEPT !.qcb = @ + s.chunk,
                   !.queue[seg.slot] = Append(@, seg)]
    ELSE s

\* get_next_segment_id returns the new value.
NextSegmentId(s) == s.csi + 1
\* Slip: current_segment_id + 1 instead of ++current_segment_id.
TakeSegmentIdAgain(s) == s
TakeSegmentId(s) == [s EXCEPT !.csi = @ + 1]

\* Slip: ids taken to start at 1.
AllButOneAsked(s) == s.csi >= s.total - 2
AllSegmentsAsked(s) == s.csi >= s.total - 1

\* set_segment_count and set_file_info, always called together.
SetFileInfo(s, total, chunk, bytes) ==
    [s EXCEPT !.total = total, !.chunk = chunk, !.bytes = bytes]

AllIdle(s) == [i \in 1..Len(s.idle) |-> TRUE]

PauseWriting(s)  == [s EXCEPT !.pause = TRUE, !.idle = AllIdle(s)]
MustPause(s)     == [s EXCEPT !.hardPause = TRUE, !.idle = AllIdle(s)]
ResumeWriting(s) == [s EXCEPT !.pause = FALSE]
StopMustPause(s) == [s EXCEPT !.hardPause = FALSE]

UnsetPeerIdle(s, i) == [s EXCEPT !.idle[i] = FALSE]

Paused(s) == s.pause \/ s.hardPause

\* should_pause: too much is queued when it exceeds half of the file.
MayThrottle(s)   == s.bytes # 0 /\ ~s.hardPause
TooMuchQueued(s) == 2 * s.qcb > s.bytes

---------------------------------------------------------------------------
(* try_writing_segment, one queue at a time. *)

HasFront(s, i) == s.queue[i] # << >>
Front(s, i)    == Head(s.queue[i])

Writable(s, i) == HasFront(s, i) /\ Front(s, i).id = s.cwi
\* Slip: the number of peers is not added.
DroppableAhead(s, i) == HasFront(s, i) /\ Front(s, i).id # s.cwi
\* A front that is over already, or so far ahead that it is thrown away.
Droppable(s, i) ==
    /\ HasFront(s, i)
    /\ \/ Front(s, i).id < s.cwi
       \/ Front(s, i).id > s.cwi + Len(s.queue)

\* Slip: current_writing_id++ instead of ++current_writing_id.
IsEndLate(s) == s.cwi >= s.total
IsEnd(s) == s.cwi + 1 >= s.total

\* Slip: queue_current_bytes is not reduced.
WriteFrontUncounted(s, i) == [s EXCEPT !.cwi = @ + 1, !.queue[i] = Tail(@)]
WriteFront(s, i) == [s EXCEPT !.cwi = @ + 1, !.qcb = @ - s.chunk,
                              !.queue[i] = Tail(@)]
DropFront(s, i)  == [s EXCEPT !.queue[i] = Tail(@)]
=============================================================================
