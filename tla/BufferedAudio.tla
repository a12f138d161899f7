---------------------------- MODULE BufferedAudio ----------------------------
(***************************************************************************)
(* The player of a streamed song (bufferedaudio.cpp): the deque of buffers *)
(* that pushBuffer fills on the io thread (segment_has_arrived), that the  *)
(* two callbacks of the pipeline drain on its streaming threads -- appsrc  *)
(* asks for data, the queue element tells that it has run dry -- and that  *)
(* the GTK thread makes, plays, pauses and deletes.  Nothing is locked:    *)
(* every call is split where another thread can come between.              *)
(*                                                                         *)
(* Two threads that change the deque at the same time, a flag that is read *)
(* before it was ever set, and a call on an object that is being deleted   *)
(* have no defined outcome: `undefined' is set and nothing is said of what *)
(* follows.                                                                *)
(*                                                                         *)
(* GStreamer is external: appsrc asks once for data when it has none, and  *)
(* again after it has passed data on; the queue signals once each time it  *)
(* runs dry; a paused pipeline plays nothing, but buffers still move to    *)
(* the queue.                                                              *)
(***************************************************************************)
EXTENDS Integers, Sequences, SequencesExt

CONSTANTS Buffers,    \* how many buffers the song has
          QueueMax,   \* how many the queue element holds
          MaxToggles, \* bound: how often the user plays or pauses
          Prompt      \* appsrc passes on what it has, and asks, before the queue runs dry

ASSUME BufferedAudioAssumption ==
    /\ {Buffers, QueueMax} \subseteq Nat \ {0} /\ MaxToggles \in Nat
    /\ Prompt \in BOOLEAN

Threads == {"gtk", "io", "src", "queue"}

VARIABLES
    data,     \* the deque
    paused,   \* pipeline_paused
    eos,
    gst,      \* the state of the pipeline
    src,      \* what appsrc holds; EndOfStream after end_of_stream
    asked,    \* appsrc has asked for data and got none yet
    queue,    \* what the queue element holds
    signalled,\* it has told that it ran dry
    pc,       \* where each thread is
    want,     \* the user wants to hear: IsPlaying
    toggles,
    given, heard, over, \* history: as in AudioQueue
    undefined

fields   == << data, paused, eos >>
elements == << src, asked, queue, signalled >>
user     == << want, toggles >>
history  == << given, heard, over >>
vars     == << fields, gst, elements, pc, user, history, undefined >>

EndOfStream == 0
At(t, label) == pc[t] = label
Goto(t, label) == pc' = [pc EXCEPT ![t] = label]
\* Another thread than t is between the look at the deque and the pop.
Popping(t) == \E u \in Threads \ {t} : At(u, "push")

Init ==
    /\ data = << >> /\ paused \in BOOLEAN /\ eos \in BOOLEAN
    /\ gst = "null"
    /\ src = << >> /\ asked = FALSE /\ queue = << >> /\ signalled = FALSE
    /\ pc = [t \in Threads |-> IF t = "gtk" THEN "new" ELSE "idle"]
    /\ want = FALSE /\ toggles = 0
    /\ given = << >> /\ heard = << >> /\ over = FALSE
    /\ undefined = FALSE

---------------------------------------------------------------------------
(* GTK thread. *)

\* The constructor starts the pipeline before it sets the flags, which hold
\* anything until then.
Construct ==
    /\ At("gtk", "new") /\ gst' = "playing"
    /\ Goto("gtk", "flags")
    /\ UNCHANGED << fields, elements, user, history, undefined >>
\* Slip: a field is left as it was found.
ConstructFlagsPaused ==
    /\ At("gtk", "flags")
    /\ paused' = FALSE
    /\ Goto("gtk", "idle")
    /\ UNCHANGED << data, eos, gst, elements, user, history, undefined >>
ConstructFlags ==
    /\ At("gtk", "flags")
    /\ paused' = FALSE /\ eos' = FALSE
    /\ Goto("gtk", "idle")
    /\ UNCHANGED << data, gst, elements, user, history, undefined >>

Constructing == At("gtk", "new") \/ At("gtk", "flags")
Alive        == At("gtk", "idle")
Destroyed    == At("gtk", "stop") \/ At("gtk", "gone")

\* PlayMusic and PauseMusic of the application.
Toggle ==
    /\ Alive /\ toggles < MaxToggles
    /\ want' = ~want /\ gst' = IF want THEN "paused" ELSE "playing"
    /\ toggles' = toggles + 1
    /\ UNCHANGED << fields, elements, pc, history, undefined >>

\* The destructor empties the deque before it stops the pipeline, which waits
\* for the callbacks under way.
Destruct ==
    /\ Alive
    /\ data' = << >> /\ want' = FALSE
    /\ undefined' = (~At("io", "idle") \/ Popping("gtk"))
    /\ Goto("gtk", "stop")
    /\ UNCHANGED << paused, eos, gst, elements, toggles, history >>
DestructStop ==
    /\ At("gtk", "stop") /\ At("src", "idle") /\ At("queue", "idle")
    /\ gst' = "null"
    /\ Goto("gtk", "gone")
    /\ UNCHANGED << fields, elements, user, history, undefined >>

---------------------------------------------------------------------------
(* push_data, on any of the other threads. *)

\* What the end_of_stream of appsrc did.
Closed == EndOfStream \in Range(src) \/ EndOfStream \in Range(queue) \/ over

\* data.empty(), and eos when it is.
Look(t) ==
    /\ At(t, "look")
    /\ Goto(t, IF data # << >> THEN "push" ELSE IF eos THEN "end" ELSE "idle")
    /\ undefined' = (At("gtk", "flags") /\ eos)
    /\ UNCHANGED << fields, gst, elements, user, history >>
Push(t) ==
    /\ At(t, "push")
    /\ src' = Append(src, Head(data)) /\ data' = Tail(data)
    /\ undefined' = Popping(t)
    /\ Goto(t, "idle")
    /\ UNCHANGED << paused, eos, gst, asked, queue, signalled, user, history >>
\* Slip: the end is forgotten.
PushEndNever(t) ==
    /\ At(t, "end")
    /\ Goto(t, "idle")
    /\ UNCHANGED << fields, gst, elements, user, history, undefined >>
PushEnd(t) ==
    /\ At(t, "end")
    /\ src' = IF Closed THEN src ELSE Append(src, EndOfStream)
    /\ Goto(t, "idle")
    /\ UNCHANGED << fields, gst, asked, queue, signalled, user, history, undefined >>
PushData(t) == Look(t) \/ Push(t) \/ PushEnd(t)

---------------------------------------------------------------------------
(* Io thread. *)

\* segment_has_arrived calls pushBuffer through bfa, which GTK may be deleting.
PushBuffer ==
    /\ Alive \/ At("gtk", "stop")
    /\ At("io", "idle") /\ Len(given) < Buffers
    /\ Goto("io", "append")
    /\ UNCHANGED << fields, gst, elements, user, history, undefined >>
PushBufferAppend ==
    /\ At("io", "append")
    /\ given' = Append(given, Len(given) + 1)
    /\ data' = Append(data, Len(given'))
    /\ undefined' = (~Alive \/ Popping("io"))
    /\ Goto("io", "check")
    /\ UNCHANGED << paused, eos, gst, elements, user, heard, over >>
\* A pipeline that was paused for want of data plays again, whether or not
\* the user has paused it since ...
PushBufferCheck ==
    /\ At("io", "check")
    /\ gst' = IF paused THEN "playing" ELSE gst
    /\ Goto("io", IF paused THEN "unflag" ELSE "idle")
    /\ UNCHANGED << fields, elements, user, history, undefined >>
\* Slip: ... without data.
PushBufferResumeOnly ==
    /\ At("io", "unflag")
    /\ paused' = FALSE
    /\ Goto("io", "idle")
    /\ UNCHANGED << data, eos, gst, elements, user, history, undefined >>
\* ... and is given data.
PushBufferResume ==
    /\ At("io", "unflag")
    /\ paused' = FALSE
    /\ Goto("io", "look")
    /\ UNCHANGED << data, eos, gst, elements, user, history, undefined >>

\* Slip: the end is passed on at once.
PushEOSNow ==
    /\ Alive /\ At("io", "idle") /\ Len(given) = Buffers /\ ~eos
    /\ eos' = TRUE /\ src' = Append(src, EndOfStream)
    /\ UNCHANGED << data, paused, gst, asked, queue, signalled, pc, user, history, undefined >>
\* pushEOS, a call of its own after that of the last segment.
PushEOS ==
    /\ Alive /\ At("io", "idle") /\ Len(given) = Buffers /\ ~eos
    /\ eos' = TRUE
    /\ UNCHANGED << data, paused, gst, elements, pc, user, history, undefined >>

---------------------------------------------------------------------------
(* The streaming threads. *)

Streaming == gst # "null"

\* need-data: cb_need_data calls push_data.
NeedData ==
    /\ Streaming /\ At("src", "idle")
    /\ src = << >> /\ ~asked /\ ~Closed
    /\ asked' = TRUE
    /\ Goto("src", "look")
    /\ UNCHANGED << fields, gst, src, queue, signalled, user, history, undefined >>

\* appsrc passes on what it has.
Handoff ==
    /\ Streaming /\ At("src", "idle") /\ src # << >> /\ Len(queue) < QueueMax
    /\ queue' = Append(queue, Head(src)) /\ src' = Tail(src)
    /\ asked' = FALSE /\ signalled' = FALSE
    /\ UNCHANGED << fields, gst, pc, user, history, undefined >>

QueueActs == Streaming /\ At("queue", "idle")

\* underrun: on_queue_underrun calls pause_pipeline ...
QueueUnderrun ==
    /\ QueueActs /\ queue = << >> /\ ~signalled /\ ~over
    /\ Prompt => src = << >> /\ (asked \/ Closed)
    /\ signalled' = TRUE
    /\ Goto("queue", "underrun")
    /\ UNCHANGED << fields, gst, src, asked, queue, user, history, undefined >>
\* ... which looks at the deque ...
PausePipeline ==
    /\ At("queue", "underrun")
    /\ Goto("queue", IF data = << >> THEN "pause" ELSE "look")
    /\ UNCHANGED << fields, gst, elements, user, history, undefined >>
\* ... and pauses ...
UnderrunPause ==
    /\ At("queue", "pause") /\ gst' = "paused"
    /\ Goto("queue", "flag")
    /\ UNCHANGED << fields, elements, user, history, undefined >>
\* ... and notes that.
UnderrunFlag ==
    /\ At("queue", "flag") /\ paused' = TRUE
    /\ Goto("queue", "idle")
    /\ UNCHANGED << data, eos, gst, elements, user, history, undefined >>

\* The sink plays, and the bus tells of the end.
Hear ==
    /\ QueueActs /\ gst = "playing" /\ queue # << >>
    /\ queue' = Tail(queue)
    /\ IF Head(queue) = EndOfStream THEN over' = TRUE /\ UNCHANGED heard
       ELSE heard' = Append(heard, Head(queue)) /\ UNCHANGED over
    /\ UNCHANGED << fields, gst, src, asked, signalled, pc, user, given, undefined >>

GtkStep == Construct \/ ConstructFlags \/ DestructStop
UserStep == Toggle \/ Destruct
IoStep == PushBufferAppend \/ PushBufferCheck \/ PushBufferResume \/ PushData("io") \/ PushEOS
SrcStep == NeedData \/ PushData("src") \/ Handoff
QueueStep ==
    \/ QueueUnderrun \/ PausePipeline \/ UnderrunPause \/ UnderrunFlag \/ PushData("queue")
    \/ Hear

Next == ~undefined /\ (GtkStep \/ UserStep \/ PushBuffer \/ IoStep \/ SrcStep \/ QueueStep)

\* Every thread goes on with what it has begun; the user and the peers need not.
Fairness ==
    /\ WF_vars(~undefined /\ GtkStep) /\ WF_vars(~undefined /\ IoStep)
    /\ WF_vars(~undefined /\ SrcStep) /\ WF_vars(~undefined /\ QueueStep)
Spec == Init /\ [][Next]_vars /\ Fairness

---------------------------------------------------------------------------
(* Properties. *)

\* The queue holds no more than it takes, the buffers are counted from one, and
\* nothing is over before all of them have been heard or dropped.
TypeOK ==
    /\ Len(queue) <= QueueMax
    /\ gst \in {"null", "playing", "paused"}
    /\ given = [i \in 1..Len(given) |-> i]
    /\ over => Len(heard) = Buffers \/ Destroyed

\* A BufferedAudio is the queue it promises to be, however its calls overlap.
Abstract == INSTANCE AudioQueue WITH closed <- eos /\ ~Constructing, dropped <- Destroyed
Promise == Abstract!Spec

\* Two calls on the object, or its constructor and one, are under way.
Overlapping == \E t, u \in Threads : t # u /\ ~At(t, "idle") /\ ~At(u, "idle")
\* The user goes on listening in the end.
Listening == <>[]want

\* As long as the user goes on listening and no calls overlap, every buffer is
\* heard ...
EverythingHeard ==
    ([]~Overlapping /\ Listening) =>
        \A n \in 1..Buffers : (Len(given) >= n) ~> (Len(heard) >= n)
\* ... and so is the end when it was announced before the last was taken.
EndHeard ==
    ([]~Overlapping /\ Listening) => (eos /\ data # << >> ~> over)
---------------------------------------------------------------------------
(* What the code does not do. *)

\* The fields are never read unset, nor the deque changed by two at once.
NeverUndefined == ~undefined
\* What the user has paused stays paused.
PauseHolds == [][heard' # heard => want]_vars
\* The end is heard whenever it is announced.
EveryEndHeard == ([]~Overlapping /\ Listening) => (eos /\ want ~> over)
\* Every buffer is heard whatever calls overlap.
OverlapHeard ==
    ([]~undefined /\ Listening) => \A n \in 1..Buffers : (Len(given) >= n) ~> (Len(heard) >= n)
=============================================================================
