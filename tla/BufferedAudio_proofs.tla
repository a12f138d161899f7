-------------------------- MODULE BufferedAudio_proofs --------------------------
(***************************************************************************)
(* What is proved of BufferedAudio, for every number of buffers, size of   *)
(* the queue and number of toggles, and however its calls overlap.         *)
(***************************************************************************)
EXTENDS BufferedAudio, SequenceTheorems, TLAPS

\* Where each thread can be.
PlacesOf ==
    /\ pc = [t \in Threads |-> pc[t]]
    /\ pc["gtk"] \in {"new", "flags", "idle", "stop", "gone"}
    /\ pc["io"] \in {"idle", "append", "check", "unflag", "look", "push"}
    /\ pc["src"] \in {"idle", "look", "push", "end"}
    /\ pc["queue"] \in {"idle", "underrun", "pause", "flag", "look", "push", "end"}
Flags ==
    /\ paused \in BOOLEAN /\ eos \in BOOLEAN /\ over \in BOOLEAN /\ undefined \in BOOLEAN
    /\ gst \in {"null", "playing", "paused"}
Pieces ==
    /\ data \in Seq(Nat) /\ src \in Seq(Nat) /\ queue \in Seq(Nat)
    /\ given \in Seq(Nat) /\ heard \in Seq(Nat)

\* The buffers are numbered in the order they were given and heard.
InOrder ==
    /\ given = [i \in 1..Len(given) |-> i]
    /\ heard = [i \in 1..Len(heard) |-> i]

\* What holds whatever happens.
Kept ==
    /\ Pieces /\ Flags /\ PlacesOf /\ InOrder
    /\ Len(queue) <= QueueMax
    /\ over => Len(heard) = Buffers \/ Destroyed

\* The n-th thing that the pipeline takes of m buffers and the end.
Piece(n, m) == IF n <= m THEN n ELSE EndOfStream
\* What was heard, the queue and the source are, one after the other, the first
\* `sent' buffers, and the deque those that follow; the end may come after all.
Flow(sent, heard_, data_, src_, queue_, over_, eos_) ==
    LET h == Len(heard_)
        q == Len(queue_)
        s == Len(src_)
    IN  /\ h <= sent
        /\ \A i \in 1..Len(data_) : data_[i] = sent + i
        /\ \A i \in 1..q : queue_[i] = Piece(h + i, sent)
        /\ \A i \in 1..s : src_[i] = Piece(h + q + i, sent)
        /\ \/ h + q + s = sent
           \/ h + q + s = sent + 1 /\ eos_ /\ ~over_ /\ Len(data_) = 0
        /\ over_ => h = sent /\ q + s = 0 /\ eos_ /\ Len(data_) = 0
\* The destructor drops what is in the deque.
Sent(sent, given_, data_, dropped) ==
    /\ sent + Len(data_) <= Len(given_)
    /\ ~dropped => sent + Len(data_) = Len(given_)
FlowNow ==
    \E sent \in Nat : /\ Flow(sent, heard, data, src, queue, over, eos)
                      /\ Sent(sent, given, data, Destroyed)

\* Nobody is called before the constructor has begun.
Started == At("gtk", "new") => gst = "null" /\ \A t \in Threads \ {"gtk"} : At(t, "idle")
\* Nothing is given or heard before the constructor has ended.
Unused ==
    Constructing =>
        /\ given = << >> /\ heard = << >> /\ data = << >> /\ src = << >> /\ queue = << >>
        /\ ~over /\ At("io", "idle")

\* What each thread may rely on where it is.
Relied ==
    /\ Len(given) <= Buffers
    /\ eos /\ ~Constructing => Len(given) = Buffers /\ At("io", "idle")
    /\ At("io", "append") => Len(given) < Buffers
    /\ \A t \in Threads : At(t, "push") => data # << >>
    /\ \A t \in Threads : At(t, "end") => eos /\ data = << >> /\ ~Constructing
    /\ Destroyed => data = << >> /\ pc["io"] \in {"idle", "append"}

\* ... and what holds until something undefined is done.
Working == Started /\ Unused /\ Relied /\ FlowNow

AudioInv == Kept /\ (undefined \/ Working)

USE DEF fields, elements, user, history

---------------------------------------------------------------------------
(* Sequences. *)

\* t is s with e at its end, and s without its first.
IsAppend(t, s, e) ==
    /\ Len(t) = Len(s) + 1 /\ t[Len(s) + 1] = e
    /\ \A i \in 1..Len(s) : t[i] = s[i]
IsTail(t, s) ==
    /\ Len(s) > 0 /\ Len(t) = Len(s) - 1
    /\ \A i \in 1..Len(t) : t[i] = s[i + 1]

LEMMA LenNat ==
    ASSUME NEW s \in Seq(Nat)
    PROVE  Len(s) \in Nat
BY LenProperties

LEMMA AppendNat ==
    ASSUME NEW s \in Seq(Nat), NEW e \in Nat
    PROVE  Append(s, e) \in Seq(Nat) /\ IsAppend(Append(s, e), s, e)
BY AppendProperties, LenProperties DEF IsAppend

LEMMA TailNat ==
    ASSUME NEW s \in Seq(Nat), s # << >>
    PROVE  /\ Head(s) = s[1] /\ Head(s) \in Nat
           /\ Tail(s) \in Seq(Nat) /\ IsTail(Tail(s), s)
<1>1. /\ Len(s) \in Nat /\ Len(s) # 0 /\ Head(s) \in Nat /\ Head(s) = s[1]
      /\ Tail(s) \in Seq(Nat) /\ Len(Tail(s)) = Len(s) - 1
      /\ \A i \in 1..(Len(s) - 1) : Tail(s)[i] = s[i + 1]
  BY HeadTailProperties, LenProperties, EmptySeq
<1> QED BY <1>1 DEF IsTail

LEMMA InRange ==
    ASSUME NEW s \in Seq(Nat), NEW i \in 1..Len(s)
    PROVE  s[i] \in Range(s)
BY LenProperties DEF Range

\* The numbers up to n are those up to n - 1 and n.
LEMMA CountOn ==
    ASSUME NEW s \in Seq(Nat), s = [i \in 1..Len(s) |-> i]
    PROVE  Append(s, Len(s) + 1) = [i \in 1..Len(Append(s, Len(s) + 1)) |-> i]
<1> DEFINE n == Len(s)
           t == Append(s, n + 1)
           u == [i \in 1..(n + 1) |-> i]
<1>1. n \in Nat /\ t \in Seq(Nat) /\ Len(t) = n + 1 /\ t[n + 1] = n + 1
      /\ \A i \in 1..n : t[i] = s[i]
  BY LenProperties, AppendNat DEF IsAppend
<1>2. u \in [1..(n + 1) -> Nat]
  BY <1>1
<1>3. u \in Seq(Nat) /\ Len(u) = n + 1
  BY <1>1, <1>2, SeqDef
<1>4. \A i \in 1..(n + 1) : t[i] = u[i]
  <2> HIDE DEF t
  <2>1. \A i \in 1..n : s[i] = i
    OBVIOUS
  <2> QED BY <1>1, <2>1
<1> HIDE DEF t, u
<1>5. t = u
  BY <1>1, <1>3, <1>4, SeqEqual
<1> QED BY <1>1, <1>5 DEF t, u

---------------------------------------------------------------------------
(* The flow of the buffers. *)

\* The first of the deque becomes the last of the source.
LEMMA FlowPush ==
    ASSUME NEW sent \in Nat, NEW h, NEW d, NEW s, NEW q, NEW over_, NEW eos_, NEW d2, NEW s2,
           Len(h) \in Nat, Len(d) \in Nat, Len(s) \in Nat, Len(q) \in Nat,
           Flow(sent, h, d, s, q, over_, eos_), IsTail(d2, d), IsAppend(s2, s, d[1])
    PROVE  Flow(sent + 1, h, d2, s2, q, over_, eos_)
<1> DEFINE before == Len(h) + Len(q)
<1>1. /\ Len(h) <= sent /\ before + Len(s) = sent /\ d[1] = sent + 1 /\ ~over_
  BY DEF Flow, IsTail
<1>2. /\ \A i \in 1..Len(d) : d[i] = sent + i
      /\ \A i \in 1..Len(q) : q[i] = Piece(Len(h) + i, sent)
      /\ \A i \in 1..Len(s) : s[i] = Piece(before + i, sent)
  BY DEF Flow
<1>4. \A i \in 1..Len(d2) : d2[i] = sent + 1 + i
  BY <1>2 DEF IsTail
<1>5. \A i \in 1..Len(q) : q[i] = Piece(Len(h) + i, sent + 1)
  BY <1>1, <1>2 DEF Piece
<1>6. \A i \in 1..Len(s2) : s2[i] = Piece(before + i, sent + 1)
  <2> TAKE i \in 1..Len(s2)
  <2>1. CASE i <= Len(s)
    BY <1>1, <1>2, <2>1 DEF Piece, IsAppend
  <2>2. CASE i = Len(s) + 1
    BY <1>1, <2>2 DEF Piece, IsAppend
  <2> QED BY <2>1, <2>2 DEF IsAppend
<1>7. before + Len(s2) = sent + 1 /\ Len(h) <= sent + 1
  BY <1>1 DEF IsAppend
<1> QED BY <1>1, <1>4, <1>5, <1>6, <1>7 DEF Flow

\* The end follows the last buffer into the source.
LEMMA FlowEnd ==
    ASSUME NEW n \in Nat, NEW h, NEW d, NEW s, NEW q, NEW over_, NEW eos_, NEW s2,
           Len(h) \in Nat, Len(d) = 0, Len(s) \in Nat, Len(q) \in Nat,
           Flow(n, h, d, s, q, over_, eos_), eos_, ~over_,
           \A i \in 1..Len(s) : s[i] # EndOfStream, \A i \in 1..Len(q) : q[i] # EndOfStream,
           IsAppend(s2, s, EndOfStream)
    PROVE  Flow(n, h, d, s2, q, over_, eos_)
<1> DEFINE before == Len(h) + Len(q)
<1>1. /\ Len(h) <= n
      /\ \A i \in 1..Len(q) : q[i] = Piece(Len(h) + i, n)
      /\ \A i \in 1..Len(s) : s[i] = Piece(before + i, n)
      /\ before + Len(s) \in {n, n + 1}
  BY DEF Flow
<1>2. before + Len(s) = n
  <2> SUFFICES ASSUME before + Len(s) = n + 1 PROVE FALSE
    BY <1>1
  <2>1. CASE Len(s) > 0
    BY <1>1, <2>1 DEF Piece
  <2>2. CASE Len(s) = 0 /\ Len(q) > 0
    BY <1>1, <2>2 DEF Piece
  <2>3. CASE Len(s) = 0 /\ Len(q) = 0
    BY <1>1, <2>3
  <2> QED BY <2>1, <2>2, <2>3
<1>3. \A i \in 1..Len(s2) : s2[i] = Piece(before + i, n)
  <2> TAKE i \in 1..Len(s2)
  <2>1. CASE i <= Len(s)
    BY <1>1, <1>2, <2>1 DEF Piece, IsAppend
  <2>2. CASE i = Len(s) + 1
    BY <1>1, <1>2, <2>2 DEF Piece, IsAppend
  <2> QED BY <2>1, <2>2 DEF IsAppend
<1>4. before + Len(s2) = n + 1
  BY <1>2 DEF IsAppend
<1> QED BY <1>1, <1>3, <1>4 DEF Flow

\* The first of the source becomes the last of the queue.
LEMMA FlowHandoff ==
    ASSUME NEW sent \in Nat, NEW h, NEW d, NEW s, NEW q, NEW over_, NEW eos_, NEW s2, NEW q2,
           Len(h) \in Nat, Len(d) \in Nat, Len(s) \in Nat, Len(q) \in Nat,
           Flow(sent, h, d, s, q, over_, eos_), IsTail(s2, s), IsAppend(q2, q, s[1])
    PROVE  Flow(sent, h, d, s2, q2, over_, eos_)
<1>1. /\ \A i \in 1..Len(q) : q[i] = Piece(Len(h) + i, sent)
      /\ \A i \in 1..Len(s) : s[i] = Piece(Len(h) + Len(q) + i, sent)
  BY DEF Flow
<1>2. \A i \in 1..Len(q2) : q2[i] = Piece(Len(h) + i, sent)
  <2> TAKE i \in 1..Len(q2)
  <2>1. CASE i <= Len(q)
    BY <1>1, <2>1 DEF Piece, IsAppend
  <2>2. CASE i = Len(q) + 1
    BY <1>1, <2>2 DEF Piece, IsAppend, IsTail
  <2> QED BY <2>1, <2>2 DEF IsAppend
<1>3. \A i \in 1..Len(s2) : s2[i] = Piece(Len(h) + Len(q2) + i, sent)
  <2> TAKE i \in 1..Len(s2)
  <2>1. s2[i] = s[i + 1] /\ i + 1 \in 1..Len(s)
    BY DEF IsTail
  <2>2. s[i + 1] = Piece(Len(h) + Len(q) + (i + 1), sent)
    BY <1>1, <2>1
  <2>3. Len(h) + Len(q) + (i + 1) = Len(h) + Len(q2) + i
    BY DEF IsAppend
  <2> QED BY <2>1, <2>2, <2>3
<1>4. Len(q2) + Len(s2) = Len(q) + Len(s) /\ Len(h) + Len(q2) + Len(s2) = Len(h) + Len(q) + Len(s)
  BY DEF IsTail, IsAppend
<1> QED BY <1>2, <1>3, <1>4 DEF Flow

\* The sink takes a buffer: the next one.
LEMMA FlowHear ==
    ASSUME NEW sent \in Nat, NEW h, NEW d, NEW s, NEW q, NEW over_, NEW eos_, NEW h2, NEW q2,
           Len(h) \in Nat, Len(d) \in Nat, Len(s) \in Nat, Len(q) \in Nat,
           Flow(sent, h, d, s, q, over_, eos_), IsTail(q2, q), q[1] # EndOfStream,
           IsAppend(h2, h, q[1])
    PROVE  /\ q[1] = Len(h) + 1 /\ Len(h) + 1 <= sent /\ ~over_
           /\ Flow(sent, h2, d, s, q2, over_, eos_)
<1>1. /\ \A i \in 1..Len(q) : q[i] = Piece(Len(h) + i, sent)
      /\ \A i \in 1..Len(s) : s[i] = Piece(Len(h) + Len(q) + i, sent)
  BY DEF Flow
<1>2. q[1] = Len(h) + 1 /\ Len(h) + 1 <= sent
  BY <1>1 DEF Piece, IsTail
<1>3. ~over_
  BY <1>2 DEF Flow, IsTail
<1>4. \A i \in 1..Len(q2) : q2[i] = Piece(Len(h2) + i, sent)
  <2> TAKE i \in 1..Len(q2)
  <2>1. q2[i] = q[i + 1] /\ i + 1 \in 1..Len(q)
    BY DEF IsTail
  <2>2. q[i + 1] = Piece(Len(h) + (i + 1), sent)
    BY <1>1, <2>1
  <2>3. Len(h) + (i + 1) = Len(h2) + i
    BY DEF IsAppend
  <2> QED BY <2>1, <2>2, <2>3
<1>5. Len(h2) + Len(q2) = Len(h) + Len(q) /\ Len(h2) <= sent
  BY <1>2 DEF IsTail, IsAppend
<1> QED BY <1>2, <1>3, <1>4, <1>5 DEF Flow

\* The sink takes the end: it was announced, and everything sent was heard.
LEMMA FlowOver ==
    ASSUME NEW sent \in Nat, NEW h, NEW d, NEW s, NEW q, NEW over_, NEW eos_, NEW q2, NEW over2,
           Len(h) \in Nat, Len(d) \in Nat, Len(s) \in Nat, Len(q) \in Nat,
           Flow(sent, h, d, s, q, over_, eos_), IsTail(q2, q), q[1] = EndOfStream
    PROVE  /\ eos_ /\ Len(h) = sent /\ Len(d) = 0
           /\ Flow(sent, h, d, s, q2, over2, eos_)
<1>1. q[1] = Piece(Len(h) + 1, sent)
  BY DEF Flow, IsTail
<1>2. Len(h) + 1 > sent
  BY <1>1 DEF Piece, EndOfStream
<1>3. Len(h) = sent /\ Len(q) = 1 /\ Len(s) = 0 /\ eos_ /\ Len(d) = 0
  BY <1>2 DEF Flow, IsTail
<1>4. Len(q2) = 0
  BY <1>3 DEF IsTail
<1> QED BY <1>3, <1>4 DEF Flow

\* The next buffer becomes the last of the deque.
LEMMA FlowAppend ==
    ASSUME NEW sent \in Nat, NEW h, NEW d, NEW s, NEW q, NEW over_, NEW eos_, NEW d2,
           Len(h) \in Nat, Len(d) \in Nat, Len(s) \in Nat, Len(q) \in Nat,
           Flow(sent, h, d, s, q, over_, eos_), ~eos_,
           IsAppend(d2, d, sent + Len(d) + 1)
    PROVE  Flow(sent, h, d2, s, q, over_, eos_)
<1>2. \A i \in 1..Len(d) : d[i] = sent + i
  BY DEF Flow
<1>3. \A i \in 1..Len(d2) : d2[i] = sent + i
  <2> TAKE i \in 1..Len(d2)
  <2>1. CASE i <= Len(d)
    BY <1>2, <2>1 DEF IsAppend
  <2>2. CASE i = Len(d) + 1
    BY <1>2, <2>2 DEF IsAppend
  <2> QED BY <2>1, <2>2 DEF IsAppend
<1> QED BY <1>3 DEF Flow

\* The deque is emptied.
LEMMA FlowClear ==
    ASSUME NEW sent \in Nat, NEW h, NEW d, NEW s, NEW q, NEW over_, NEW eos_,
           Flow(sent, h, d, s, q, over_, eos_)
    PROVE  Flow(sent, h, << >>, s, q, over_, eos_)
BY DEF Flow

\* The end may be announced at any time.
LEMMA FlowMayEnd ==
    ASSUME NEW sent \in Nat, NEW h, NEW d, NEW s, NEW q, NEW over_, NEW eos_, NEW eos2, eos_ => eos2,
           Flow(sent, h, d, s, q, over_, eos_)
    PROVE  Flow(sent, h, d, s, q, over_, eos2)
BY DEF Flow

\* Of nothing, nothing is on its way.
LEMMA FlowStarts ==
    ASSUME NEW eos_ PROVE Flow(0, << >>, << >>, << >>, << >>, FALSE, eos_)
BY DEF Flow

---------------------------------------------------------------------------
(* The invariant. *)

LEMMA Lens ==
    ASSUME Pieces
    PROVE  /\ Len(given) \in Nat /\ Len(heard) \in Nat /\ Len(data) \in Nat
           /\ Len(src) \in Nat /\ Len(queue) \in Nat
BY LenNat DEF Pieces

LEMMA Limits ==
    /\ Buffers \in Nat /\ QueueMax \in Nat /\ Buffers > 0 /\ QueueMax > 0
BY BufferedAudioAssumption

LEMMA InitInv == Init => AudioInv
<1> SUFFICES ASSUME Init PROVE AudioInv
  OBVIOUS
<1> USE Limits
<1>1. << >> \in Seq(Nat) /\ Len(<< >>) = 0 /\ << >> = [i \in 1..0 |-> i]
  OBVIOUS
<1>2. Pieces /\ InOrder
  BY <1>1 DEF Init, Pieces, InOrder
<1>3. Flags /\ PlacesOf
  BY DEF Init, Flags, PlacesOf, Threads
<1>4. Kept
  BY <1>1, <1>2, <1>3 DEF Init, Kept
<1>5. Started /\ Unused /\ Relied
  BY <1>1 DEF Init, Started, Unused, Relied, Constructing, Destroyed, At, Threads
<1>6. FlowNow
  <2>1. /\ given = << >> /\ heard = << >> /\ data = << >> /\ src = << >> /\ queue = << >>
        /\ over = FALSE
    BY DEF Init
  <2>2. Flow(0, heard, data, src, queue, over, eos)
    BY <2>1, FlowStarts
  <2>3. Sent(0, given, data, Destroyed)
    BY <1>1, <2>1 DEF Sent
  <2> QED BY <2>2, <2>3 DEF FlowNow
<1> QED BY <1>4, <1>5, <1>6 DEF AudioInv, Working

\* A step that leaves the buffers where they are, on an object as it was.
LEMMA FlowKept ==
    ASSUME FlowNow, UNCHANGED << given, heard, data, src, queue, over >>,
           eos => eos', Destroyed' = Destroyed
    PROVE  FlowNow'
<1>1. PICK sent \in Nat : /\ Flow(sent, heard, data, src, queue, over, eos)
                          /\ Sent(sent, given, data, Destroyed)
  BY DEF FlowNow
<1>2. Flow(sent, heard, data, src, queue, over, eos')
  BY <1>1, FlowMayEnd
<1> HIDE DEF Destroyed
<1> QED BY <1>1, <1>2 DEF FlowNow

\* Such a step keeps the sequences too.
LEMMA PiecesKept ==
    ASSUME Kept, UNCHANGED << given, heard, data, src, queue, over >>,
           Destroyed => Destroyed'
    PROVE  /\ Pieces' /\ InOrder' /\ Len(queue') <= QueueMax
           /\ over' => Len(heard') = Buffers \/ Destroyed'
BY DEF Kept, Pieces, InOrder

LEMMA ConstructInv ==
    ASSUME AudioInv, ~undefined, Construct PROVE AudioInv'
<1> USE DEF Construct
<1>1. Destroyed' = Destroyed /\ PlacesOf' /\ Flags'
  BY DEF AudioInv, Kept, Flags, PlacesOf, Destroyed, At, Goto, Threads
<1>2. Kept'
  BY <1>1, PiecesKept DEF AudioInv, Kept
<1>3. FlowNow'
  BY <1>1, FlowKept DEF AudioInv, Working
<1>4. Started' /\ Unused' /\ Relied'
  BY DEF AudioInv, Kept, Working, PlacesOf, Started, Unused, Relied, Constructing, Destroyed, At, Goto, Threads
<1> QED BY <1>2, <1>3, <1>4 DEF AudioInv, Working

LEMMA ConstructFlagsInv ==
    ASSUME AudioInv, ~undefined, ConstructFlags PROVE AudioInv'
<1> USE DEF ConstructFlags
<1>1. Destroyed' = Destroyed /\ ~Destroyed /\ PlacesOf' /\ Flags'
  BY DEF AudioInv, Kept, Flags, PlacesOf, Destroyed, At, Goto, Threads
<1>2. Kept'
  BY <1>1, PiecesKept DEF AudioInv, Kept
<1>3. given = << >> /\ heard = << >> /\ data = << >> /\ src = << >> /\ queue = << >> /\ ~over
  BY DEF AudioInv, Working, Unused, Constructing
<1>4. FlowNow'
  <2>1. Flow(0, heard, data, src, queue, FALSE, eos')
    BY <1>3, FlowStarts
  <2>2. over' = FALSE
    BY <1>3 DEF AudioInv, Kept, Flags
  <2>3. Sent(0, given, data, Destroyed')
    BY <1>3 DEF Sent
  <2> QED BY <2>1, <2>2, <2>3 DEF FlowNow
<1>5. Started' /\ Unused' /\ Relied'
  BY <1>3, Limits DEF AudioInv, Kept, Working, PlacesOf, Started, Unused, Relied, Constructing, Destroyed, At, Goto, Threads
<1> QED BY <1>2, <1>4, <1>5 DEF AudioInv, Working

LEMMA ToggleInv ==
    ASSUME AudioInv, ~undefined, Toggle PROVE AudioInv'
<1> USE DEF Toggle
<1>1. Destroyed' = Destroyed /\ PlacesOf' /\ Flags'
  BY DEF AudioInv, Kept, Flags, PlacesOf, Destroyed, At
<1>2. Kept'
  BY <1>1, PiecesKept DEF AudioInv, Kept
<1>3. FlowNow'
  BY <1>1, FlowKept DEF AudioInv, Working
<1>4. Started' /\ Unused' /\ Relied'
  BY DEF AudioInv, Working, Started, Unused, Relied, Alive, Constructing, Destroyed, At, Threads
<1> QED BY <1>2, <1>3, <1>4 DEF AudioInv, Working

LEMMA DestructInv ==
    ASSUME AudioInv, ~undefined, Destruct PROVE AudioInv'
<1> USE DEF Destruct
<1>1. Destroyed' /\ PlacesOf' /\ Flags'
  BY DEF AudioInv, Kept, Flags, PlacesOf, Destroyed, At, Goto, Threads
<1>2. << >> \in Seq(Nat) /\ Len(<< >>) = 0
  OBVIOUS
<1>3. Kept'
  BY <1>1, <1>2 DEF AudioInv, Kept, Pieces, InOrder
<1>4. FlowNow'
  <2>1. PICK sent \in Nat : /\ Flow(sent, heard, data, src, queue, over, eos)
                            /\ Sent(sent, given, data, Destroyed)
    BY DEF AudioInv, Working, FlowNow
  <2>2. Flow(sent, heard, << >>, src, queue, over, eos)
    BY <2>1, FlowClear
  <2>3. Sent(sent, given, << >>, Destroyed')
    BY <1>1, <1>2, <2>1, Lens DEF Sent, AudioInv, Kept
  <2> QED BY <2>2, <2>3 DEF FlowNow
<1>5. CASE undefined'
  BY <1>3, <1>5 DEF AudioInv
<1>6. CASE ~undefined'
  <2>1. At("io", "idle") /\ \A u \in Threads \ {"gtk"} : ~At(u, "push")
    BY <1>6 DEF Popping
  <2>2. Started' /\ Unused' /\ Relied'
    BY <2>1 DEF AudioInv, Kept, Working, PlacesOf, Alive, Started, Unused, Relied, Constructing, Destroyed,
        At, Goto, Threads
  <2> QED BY <1>3, <1>4, <2>2 DEF AudioInv, Working
<1> QED BY <1>5, <1>6

LEMMA DestructStopInv ==
    ASSUME AudioInv, ~undefined, DestructStop PROVE AudioInv'
<1> USE DEF DestructStop
<1>1. Destroyed' = Destroyed /\ PlacesOf' /\ Flags'
  BY DEF AudioInv, Kept, Flags, PlacesOf, Destroyed, At, Goto, Threads
<1>2. Kept'
  BY <1>1, PiecesKept DEF AudioInv, Kept
<1>3. FlowNow'
  BY <1>1, FlowKept DEF AudioInv, Working
<1>4. Started' /\ Unused' /\ Relied'
  BY DEF AudioInv, Kept, Working, PlacesOf, Started, Unused, Relied, Constructing, Destroyed, At, Goto, Threads
<1> QED BY <1>2, <1>3, <1>4 DEF AudioInv, Working

---------------------------------------------------------------------------
(* Steps of the io thread and of the streaming threads. *)

\* A step of another thread than GTK's leaves the object's life as it is.
LEMMA OtherThread ==
    ASSUME Kept, NEW t \in Threads \ {"gtk"}, NEW label, Goto(t, label)
    PROVE  /\ Destroyed' = Destroyed /\ Constructing' = Constructing /\ Alive' = Alive
           /\ \A u \in Threads \ {t} : pc'[u] = pc[u]
           /\ pc'[t] = label
BY DEF Kept, PlacesOf, Destroyed, Constructing, Alive, At, Goto, Threads

\* The call goes on to another place and changes at most the flags.
LEMMA PlaceChangeInv ==
    ASSUME AudioInv, ~undefined, ~undefined', NEW t \in Threads \ {"gtk"}, NEW label,
           Goto(t, label), ~At("gtk", "new"), PlacesOf', Flags', UNCHANGED << history, data, src, queue, eos >>,
           t = "io" /\ label # "idle" => ~eos /\ ~Constructing,
           t = "io" /\ label = "append" => Len(given) < Buffers,
           t = "io" /\ label \notin {"idle", "append"} => ~Destroyed,
           label = "push" => data # << >>,
           label = "end" => eos /\ data = << >> /\ ~Constructing
    PROVE  AudioInv'
<1>0. /\ Destroyed' = Destroyed /\ Constructing' = Constructing
      /\ \A u \in Threads \ {t} : pc'[u] = pc[u]
      /\ pc'[t] = label
  BY OtherThread DEF AudioInv
<1>1. Kept'
  BY <1>0, PiecesKept DEF AudioInv, Kept
<1>2. FlowNow'
  BY <1>0, FlowKept DEF AudioInv, Working
<1>3. Started' /\ Unused'
  <2>1. ~At("gtk", "new")'
    BY <1>0 DEF At, Threads
  <2> QED BY <1>0, <2>1 DEF AudioInv, Working, Started, Unused, At, Threads
<1>4. Relied'
  <2> USE <1>0 DEF AudioInv, Working, At, Threads
  <2>1. Len(given') <= Buffers
    BY DEF Relied
  <2>2. eos' /\ ~Constructing' => Len(given') = Buffers /\ At("io", "idle")'
    BY DEF Relied
  <2>3. At("io", "append")' => Len(given') < Buffers
    BY DEF Relied
  <2>4. \A u \in Threads : At(u, "push")' => data' # << >>
    BY DEF Relied
  <2>5. \A u \in Threads : At(u, "end")' => eos' /\ data' = << >> /\ ~Constructing'
    BY DEF Relied
  <2>6. Destroyed' => data' = << >> /\ pc'["io"] \in {"idle", "append"}
    BY DEF Relied
  <2> QED BY <2>1, <2>2, <2>3, <2>4, <2>5, <2>6 DEF Relied
<1> QED BY <1>1, <1>2, <1>3, <1>4 DEF AudioInv, Working

LEMMA PushBufferInv ==
    ASSUME AudioInv, ~undefined, PushBuffer PROVE AudioInv'
<1> USE DEF PushBuffer
<1>1. Goto("io", "append") /\ UNCHANGED << history, data, src, queue, eos >> /\ ~undefined'
  OBVIOUS
<1>2. PlacesOf' /\ Flags'
  BY DEF AudioInv, Kept, PlacesOf, Flags, Goto, Threads
<1>3. ~Constructing /\ Len(given) < Buffers /\ ~At("gtk", "new")
  BY DEF Alive, Constructing, At
<1>4. ~(eos /\ ~Constructing)
  BY <1>3, Lens, Limits DEF AudioInv, Kept, Working, Relied
<1> HIDE DEF PushBuffer
<1> QED BY <1>1, <1>2, <1>3, <1>4, PlaceChangeInv DEF Threads

\* Inside pushBuffer the end has not been announced, and the object is whole.
LEMMA InCall ==
    ASSUME AudioInv, ~undefined, ~At("io", "idle")
    PROVE  ~eos /\ ~Constructing /\ ~At("gtk", "new") /\ (~At("io", "append") => ~Destroyed)
BY DEF AudioInv, Kept, Constructing, PlacesOf, Working, Unused, Relied, At

LEMMA PushBufferCheckInv ==
    ASSUME AudioInv, ~undefined, PushBufferCheck PROVE AudioInv'
<1> USE DEF PushBufferCheck
<1>1. PICK label \in {"unflag", "idle"} : Goto("io", label)
  BY DEF AudioInv, Kept, Flags
<1>2. UNCHANGED << history, data, src, queue, eos >> /\ ~undefined'
  OBVIOUS
<1>3. PlacesOf' /\ Flags'
  BY <1>1 DEF AudioInv, Kept, PlacesOf, Flags, Goto, Threads
<1>4. ~eos /\ ~Constructing /\ ~At("gtk", "new") /\ ~Destroyed
  BY InCall DEF At
<1> HIDE DEF PushBufferCheck
<1> QED BY <1>1, <1>2, <1>3, <1>4, PlaceChangeInv DEF Threads

LEMMA PushBufferResumeInv ==
    ASSUME AudioInv, ~undefined, PushBufferResume PROVE AudioInv'
<1> USE DEF PushBufferResume
<1>1. Goto("io", "look") /\ UNCHANGED << history, data, src, queue, eos >> /\ ~undefined'
  OBVIOUS
<1>2. PlacesOf' /\ Flags'
  BY DEF AudioInv, Kept, PlacesOf, Flags, Goto, Threads
<1>3. ~eos /\ ~Constructing /\ ~At("gtk", "new") /\ ~Destroyed
  BY InCall DEF At
<1> HIDE DEF PushBufferResume
<1> QED BY <1>1, <1>2, <1>3, PlaceChangeInv DEF Threads

LEMMA NeedDataInv ==
    ASSUME AudioInv, ~undefined, NeedData PROVE AudioInv'
<1> USE DEF NeedData
<1>1. Goto("src", "look") /\ UNCHANGED << history, data, src, queue, eos >> /\ ~undefined'
  OBVIOUS
<1>2. PlacesOf' /\ Flags'
  BY DEF AudioInv, Kept, PlacesOf, Flags, Goto, Threads
<1>3. ~At("gtk", "new")
  BY DEF Streaming, AudioInv, Working, Started
<1> HIDE DEF NeedData
<1> QED BY <1>1, <1>2, <1>3, PlaceChangeInv DEF Threads

LEMMA UnderrunInv ==
    ASSUME AudioInv, ~undefined, QueueUnderrun \/ PausePipeline \/ UnderrunPause \/ UnderrunFlag
    PROVE  AudioInv'
<1> USE DEF QueueUnderrun, PausePipeline, UnderrunPause, UnderrunFlag
<1>1. PICK label \in {"underrun", "pause", "look", "flag", "idle"} : Goto("queue", label)
  BY Zenon
<1>2. UNCHANGED << history, data, src, queue, eos >> /\ ~undefined'
  OBVIOUS
<1>3. PlacesOf' /\ Flags'
  BY <1>1 DEF AudioInv, Kept, PlacesOf, Flags, Goto, Threads
<1>4. ~At("gtk", "new")
  BY DEF QueueActs, Streaming, AudioInv, Working, Started, At, Threads
<1> HIDE DEF QueueUnderrun, PausePipeline, UnderrunPause, UnderrunFlag
<1> QED BY <1>1, <1>2, <1>3, <1>4, PlaceChangeInv DEF Threads

LEMMA LookInv ==
    ASSUME AudioInv, ~undefined, NEW t \in Threads \ {"gtk"}, Look(t) PROVE AudioInv'
<1> DEFINE label == IF data # << >> THEN "push" ELSE IF eos THEN "end" ELSE "idle"
<1>1. /\ At(t, "look") /\ Goto(t, label) /\ UNCHANGED << history, data, src, queue, eos, paused, gst >>
      /\ undefined' = (At("gtk", "flags") /\ eos)
  BY DEF Look
<1>2. ~At("gtk", "new")
  BY <1>1 DEF AudioInv, Working, Started, At
<1>3. t = "io" => ~eos /\ ~Constructing /\ ~Destroyed
  BY <1>1, InCall DEF At
<1>4. label \in {"push", "end", "idle"} /\ (t = "io" => label # "end")
  BY <1>3
<1>5. PlacesOf' /\ Flags'
  <2> HIDE DEF label
  <2>1. undefined' \in BOOLEAN
    BY <1>1 DEF AudioInv, Kept, Flags
  <2> QED BY <1>1, <1>4, <2>1 DEF AudioInv, Kept, PlacesOf, Flags, Goto, Threads
<1>6. CASE undefined'
  <2>1. Destroyed' = Destroyed
    BY <1>1, OtherThread DEF AudioInv
  <2>2. Kept'
    BY <1>1, <1>5, <2>1, PiecesKept DEF AudioInv, Kept
  <2> QED BY <1>6, <2>2 DEF AudioInv
<1>7. CASE ~undefined'
  <2>1. label = "push" => data # << >>
    OBVIOUS
  <2>2. label = "end" => eos /\ data = << >> /\ ~Constructing
    <3> SUFFICES ASSUME label = "end" PROVE eos /\ data = << >> /\ ~Constructing
      OBVIOUS
    <3>1. eos /\ data = << >>
      OBVIOUS
    <3>2. ~At("gtk", "flags")
      BY <1>1, <1>7, <3>1
    <3> QED BY <1>2, <3>1, <3>2 DEF Constructing
  <2> HIDE DEF label
  <2> QED BY <1>1, <1>2, <1>3, <1>4, <1>5, <1>7, <2>1, <2>2, PlaceChangeInv
<1> QED BY <1>6, <1>7

\* The front of the deque goes to the source.
LEMMA PushInv ==
    ASSUME AudioInv, ~undefined, NEW t \in Threads \ {"gtk"}, Push(t) PROVE AudioInv'
<1>1. /\ At(t, "push") /\ Goto(t, "idle") /\ undefined' = Popping(t)
      /\ src' = Append(src, Head(data)) /\ data' = Tail(data)
      /\ UNCHANGED << history, paused, eos, gst, queue >>
  BY DEF Push
<1>2. data # << >> /\ ~Destroyed /\ ~Constructing /\ Working
  BY <1>1 DEF AudioInv, Working, Relied, Unused
<1>3. Destroyed' = Destroyed /\ Constructing' = Constructing
      /\ (\A u \in Threads \ {t} : pc'[u] = pc[u]) /\ pc'[t] = "idle"
  BY <1>1, OtherThread DEF AudioInv
<1>4. /\ Len(given) \in Nat /\ Len(heard) \in Nat /\ Len(data) \in Nat
      /\ Len(src) \in Nat /\ Len(queue) \in Nat
  BY Lens DEF AudioInv, Kept
<1>5. data' \in Seq(Nat) /\ Head(data) = data[1] /\ Head(data) \in Nat /\ IsTail(data', data)
  BY <1>1, <1>2, TailNat DEF AudioInv, Kept, Pieces
<1>6. src' \in Seq(Nat) /\ IsAppend(src', src, data[1])
  BY <1>1, <1>5, AppendNat DEF AudioInv, Kept, Pieces
<1>7. Pieces' /\ InOrder'
  BY <1>1, <1>5, <1>6 DEF AudioInv, Kept, Pieces, InOrder
<1>8. PlacesOf' /\ Flags'
  BY <1>1 DEF AudioInv, Kept, PlacesOf, Flags, Goto, Threads, Popping
<1>9. Kept'
  BY <1>1, <1>3, <1>7, <1>8 DEF AudioInv, Kept
<1>10. FlowNow'
  <2>1. PICK sent \in Nat : /\ Flow(sent, heard, data, src, queue, over, eos)
                            /\ Sent(sent, given, data, Destroyed)
    BY <1>2 DEF Working, FlowNow
  <2>2. Flow(sent + 1, heard, data', src', queue, over, eos)
    BY <1>4, <1>5, <1>6, <2>1, FlowPush
  <2>3. Sent(sent + 1, given, data', Destroyed')
    <3>1. Len(data') = Len(data) - 1
      BY <1>5 DEF IsTail
    <3> QED BY <1>2, <1>3, <1>4, <2>1, <3>1 DEF Sent
  <2> QED BY <1>1, <2>2, <2>3 DEF FlowNow
<1>11. CASE undefined'
  BY <1>9, <1>11 DEF AudioInv
<1>12. CASE ~undefined'
  <2>1. \A u \in Threads : ~At(u, "push")'
    BY <1>1, <1>3, <1>12 DEF Popping, At
  <2>2. \A u \in Threads : At(u, "end")' => FALSE
    BY <1>2, <1>3 DEF Working, Relied, At
  <2>3. Started' /\ Unused'
    BY <1>2, <1>3 DEF Started, Unused, Constructing, At
  <2>4. Relied'
    <3>1. eos' /\ ~Constructing' => Len(given') = Buffers /\ At("io", "idle")'
      BY <1>1, <1>2, <1>3 DEF Working, Relied, At, Threads
    <3>2. At("io", "append")' => Len(given') < Buffers
      BY <1>1, <1>2, <1>3 DEF Working, Relied, At, Threads
    <3> QED BY <1>1, <1>2, <1>3, <2>1, <2>2, <3>1, <3>2 DEF Working, Relied
  <2> QED BY <1>9, <1>10, <2>3, <2>4 DEF AudioInv, Working
<1> QED BY <1>11, <1>12

\* The end goes to the source when it has not been there before.
LEMMA PushEndInv ==
    ASSUME AudioInv, ~undefined, NEW t \in Threads \ {"gtk"}, PushEnd(t) PROVE AudioInv'
<1>1. /\ At(t, "end") /\ Goto(t, "idle") /\ ~undefined'
      /\ src' = IF Closed THEN src ELSE Append(src, EndOfStream)
      /\ UNCHANGED << history, data, paused, eos, gst, queue, undefined >>
  BY DEF PushEnd
<1>2. data = << >> /\ eos /\ ~Constructing /\ Working
  BY <1>1 DEF AudioInv, Working, Relied
<1>3. Destroyed' = Destroyed /\ Constructing' = Constructing
      /\ (\A u \in Threads \ {t} : pc'[u] = pc[u]) /\ pc'[t] = "idle"
  BY <1>1, OtherThread DEF AudioInv
<1>4. /\ Len(heard) \in Nat /\ Len(data) = 0 /\ Len(src) \in Nat /\ Len(queue) \in Nat
  BY <1>2, Lens DEF AudioInv, Kept
<1>5. PICK sent \in Nat : /\ Flow(sent, heard, data, src, queue, over, eos)
                          /\ Sent(sent, given, data, Destroyed)
  BY <1>2 DEF Working, FlowNow
<1>6. src' \in Seq(Nat) /\ Flow(sent, heard, data, src', queue, over, eos)
  <2>1. CASE Closed
    BY <1>1, <1>5, <2>1 DEF AudioInv, Kept, Pieces
  <2>2. CASE ~Closed
    <3>1. EndOfStream \notin Range(src) /\ EndOfStream \notin Range(queue) /\ ~over
      BY <2>2 DEF Closed
    <3>2. src' \in Seq(Nat) /\ IsAppend(src', src, EndOfStream)
      BY <1>1, <2>2, AppendNat DEF AudioInv, Kept, Pieces, EndOfStream
    <3>3. \A i \in 1..Len(src) : src[i] # EndOfStream
      BY <3>1, InRange DEF AudioInv, Kept, Pieces
    <3>4. \A i \in 1..Len(queue) : queue[i] # EndOfStream
      BY <3>1, InRange DEF AudioInv, Kept, Pieces
    <3>5. Flow(sent, heard, data, src', queue, over, eos)
      BY <1>2, <1>4, <1>5, <3>1, <3>2, <3>3, <3>4, FlowEnd
    <3> QED BY <3>2, <3>5
  <2> QED BY <2>1, <2>2
<1>7. Pieces' /\ InOrder'
  BY <1>1, <1>6 DEF AudioInv, Kept, Pieces, InOrder
<1>8. PlacesOf' /\ Flags'
  BY <1>1 DEF AudioInv, Kept, PlacesOf, Flags, Goto, Threads
<1>9. Kept'
  BY <1>1, <1>3, <1>7, <1>8 DEF AudioInv, Kept
<1>10. FlowNow'
  BY <1>1, <1>3, <1>5, <1>6 DEF FlowNow
<1>11. Started' /\ Unused'
  BY <1>2, <1>3 DEF Started, Unused, Constructing, At
<1>12. Relied'
  <2>1. \A u \in Threads : At(u, "push")' => data' # << >>
    BY <1>1, <1>2, <1>3 DEF Working, Relied, At
  <2>2. \A u \in Threads : At(u, "end")' => eos' /\ data' = << >> /\ ~Constructing'
    BY <1>1, <1>2, <1>3
  <2>3. At("io", "idle")' /\ Len(given') = Buffers
    BY <1>1, <1>2, <1>3 DEF Working, Relied, At, Threads
  <2> QED BY <1>1, <1>2, <1>3, <2>1, <2>2, <2>3, Limits DEF Working, Relied, At
<1> QED BY <1>9, <1>10, <1>11, <1>12 DEF AudioInv, Working

LEMMA PushDataInv ==
    ASSUME AudioInv, ~undefined, NEW t \in Threads \ {"gtk"}, PushData(t) PROVE AudioInv'
BY LookInv, PushInv, PushEndInv DEF PushData

LEMMA PushBufferAppendInv ==
    ASSUME AudioInv, ~undefined, PushBufferAppend PROVE AudioInv'
<1>1. /\ At("io", "append") /\ Goto("io", "check") /\ undefined' = (~Alive \/ Popping("io"))
      /\ given' = Append(given, Len(given) + 1) /\ data' = Append(data, Len(given'))
      /\ UNCHANGED << heard, over, paused, eos, gst, src, queue >>
  BY DEF PushBufferAppend
<1>2. Working /\ ~eos /\ ~Constructing /\ Len(given) < Buffers
  BY <1>1, InCall DEF AudioInv, Working, Relied, At
<1>3. Destroyed' = Destroyed /\ Constructing' = Constructing /\ Alive' = Alive
      /\ (\A u \in Threads \ {"io"} : pc'[u] = pc[u]) /\ pc'["io"] = "check"
  BY <1>1, OtherThread DEF AudioInv, Threads
<1>4. /\ Len(given) \in Nat /\ Len(heard) \in Nat /\ Len(data) \in Nat
      /\ Len(src) \in Nat /\ Len(queue) \in Nat
  BY Lens DEF AudioInv, Kept
<1>5. given' \in Seq(Nat) /\ IsAppend(given', given, Len(given) + 1)
  BY <1>1, <1>4, AppendNat DEF AudioInv, Kept, Pieces
<1>6. Len(given') = Len(given) + 1
  BY <1>5 DEF IsAppend
<1>7. data' \in Seq(Nat) /\ IsAppend(data', data, Len(given) + 1)
  BY <1>1, <1>4, <1>6, AppendNat DEF AudioInv, Kept, Pieces
<1>8. data' # << >>
  BY <1>4, <1>7 DEF IsAppend
<1>9. Pieces' /\ InOrder'
  <2>1. given' = [i \in 1..Len(given') |-> i]
    BY <1>1, CountOn DEF AudioInv, Kept, Pieces, InOrder
  <2> QED BY <1>1, <1>5, <1>7, <2>1 DEF AudioInv, Kept, Pieces, InOrder
<1>10. PlacesOf' /\ Flags'
  BY <1>1 DEF AudioInv, Kept, PlacesOf, Flags, Goto, Threads, Popping
<1>11. Kept'
  BY <1>1, <1>3, <1>9, <1>10 DEF AudioInv, Kept
<1>12. CASE undefined'
  BY <1>11, <1>12 DEF AudioInv
<1>13. CASE ~undefined'
  <2>1. Alive /\ ~Destroyed /\ \A u \in Threads \ {"io"} : ~At(u, "push")
    BY <1>1, <1>13 DEF Popping, Alive, Destroyed, At
  <2>2. FlowNow'
    <3>1. PICK sent \in Nat : /\ Flow(sent, heard, data, src, queue, over, eos)
                              /\ Sent(sent, given, data, Destroyed)
      BY <1>2 DEF Working, FlowNow
    <3>2. sent + Len(data) = Len(given)
      BY <2>1, <3>1 DEF Sent
    <3>3. Flow(sent, heard, data', src, queue, over, eos)
      BY <1>2, <1>4, <1>7, <3>1, <3>2, FlowAppend
    <3>4. Sent(sent, given', data', Destroyed')
      BY <1>4, <1>6, <1>7, <3>2 DEF Sent, IsAppend
    <3> QED BY <1>1, <3>3, <3>4 DEF FlowNow
  <2>3. Started' /\ Unused'
    BY <1>2, <1>3 DEF Started, Unused, Constructing, At
  <2>4. Relied'
    <3>1. Len(given') <= Buffers
      BY <1>2, <1>4, <1>6, Limits
    <3>2. \A u \in Threads : ~At(u, "end")'
      BY <1>2, <1>3 DEF Working, Relied, At
    <3> QED BY <1>1, <1>2, <1>3, <1>8, <2>1, <3>1, <3>2 DEF Relied, At
  <2> QED BY <1>11, <2>2, <2>3, <2>4 DEF AudioInv, Working
<1> QED BY <1>12, <1>13

LEMMA PushEOSInv ==
    ASSUME AudioInv, ~undefined, PushEOS PROVE AudioInv'
<1> USE DEF PushEOS
<1>1. Destroyed' = Destroyed /\ PlacesOf' /\ Flags'
  BY DEF AudioInv, Kept, Flags, PlacesOf, Destroyed, At
<1>2. Kept'
  BY <1>1, PiecesKept DEF AudioInv, Kept
<1>3. FlowNow'
  BY <1>1, FlowKept DEF AudioInv, Working
<1>4. Started' /\ Unused' /\ Relied'
  BY DEF AudioInv, Working, Started, Unused, Relied, Alive, Constructing, Destroyed, At
<1> QED BY <1>2, <1>3, <1>4 DEF AudioInv, Working

LEMMA HandoffInv ==
    ASSUME AudioInv, ~undefined, Handoff PROVE AudioInv'
<1>1. /\ src # << >> /\ Len(queue) < QueueMax
      /\ queue' = Append(queue, Head(src)) /\ src' = Tail(src)
      /\ UNCHANGED << history, fields, gst, pc, undefined >>
  BY DEF Handoff
<1>2. Working /\ ~Constructing /\ ~undefined'
  BY <1>1 DEF AudioInv, Working, Unused
<1>3. /\ Len(given) \in Nat /\ Len(heard) \in Nat /\ Len(data) \in Nat
      /\ Len(src) \in Nat /\ Len(queue) \in Nat
  BY Lens DEF AudioInv, Kept
<1>4. src' \in Seq(Nat) /\ Head(src) = src[1] /\ Head(src) \in Nat /\ IsTail(src', src)
  BY <1>1, TailNat DEF AudioInv, Kept, Pieces
<1>5. queue' \in Seq(Nat) /\ IsAppend(queue', queue, src[1])
  BY <1>1, <1>4, AppendNat DEF AudioInv, Kept, Pieces
<1>6. Len(queue') <= QueueMax
  BY <1>1, <1>3, <1>5, Limits DEF IsAppend
<1>7. Kept'
  BY <1>1, <1>4, <1>5, <1>6 DEF AudioInv, Kept, Pieces, InOrder, Flags, PlacesOf, Destroyed, At
<1>8. FlowNow'
  <2>1. PICK sent \in Nat : /\ Flow(sent, heard, data, src, queue, over, eos)
                            /\ Sent(sent, given, data, Destroyed)
    BY <1>2 DEF Working, FlowNow
  <2>2. Flow(sent, heard, data, src', queue', over, eos)
    BY <1>3, <1>4, <1>5, <2>1, FlowHandoff
  <2>3. Destroyed' = Destroyed
    BY <1>1 DEF Destroyed, At
  <2> QED BY <1>1, <2>1, <2>2, <2>3 DEF FlowNow
<1>9. Started' /\ Unused' /\ Relied'
  BY <1>1, <1>2 DEF Working, Started, Unused, Relied, Constructing, Destroyed, At
<1> QED BY <1>7, <1>8, <1>9 DEF AudioInv, Working

\* What is heard is the next buffer; the end is heard when it was announced and
\* after every buffer that was not dropped.
LEMMA HearFlows ==
    ASSUME AudioInv, ~undefined, Hear
    PROVE  /\ ~Constructing /\ queue' \in Seq(Nat) /\ Len(queue') < Len(queue) /\ FlowNow'
           /\ \/ /\ heard' = Append(heard, Len(heard) + 1) /\ Len(heard) < Len(given)
                 /\ over' = over /\ ~over
              \/ heard' = heard /\ eos /\ over' = TRUE /\ (heard = given \/ Destroyed)
<1>1. /\ queue # << >> /\ queue' = Tail(queue)
      /\ IF Head(queue) = EndOfStream THEN over' = TRUE /\ heard' = heard
         ELSE heard' = Append(heard, Head(queue)) /\ over' = over
      /\ UNCHANGED << given, fields, gst, src, pc, undefined >>
  BY DEF Hear
<1>2. /\ Len(given) \in Nat /\ Len(heard) \in Nat /\ Len(data) \in Nat
      /\ Len(src) \in Nat /\ Len(queue) \in Nat
  BY Lens DEF AudioInv, Kept
<1>3. ~Constructing
  BY <1>1 DEF AudioInv, Working, Unused
<1>4. queue' \in Seq(Nat) /\ Head(queue) = queue[1] /\ Head(queue) \in Nat /\ IsTail(queue', queue)
  BY <1>1, TailNat DEF AudioInv, Kept, Pieces
<1>5. Len(queue') < Len(queue)
  BY <1>2, <1>4 DEF IsTail
<1>6. PICK sent \in Nat : /\ Flow(sent, heard, data, src, queue, over, eos)
                          /\ Sent(sent, given, data, Destroyed)
  BY DEF AudioInv, Working, FlowNow
<1>7. Destroyed' = Destroyed
  BY <1>1 DEF Destroyed, At
<1>8. CASE Head(queue) # EndOfStream
  <2>1. heard' = Append(heard, Head(queue)) /\ over' = over
    BY <1>1, <1>8
  <2>2. IsAppend(heard', heard, queue[1])
    BY <1>4, <2>1, AppendNat DEF AudioInv, Kept, Pieces
  <2>3. /\ queue[1] = Len(heard) + 1 /\ Len(heard) + 1 <= sent /\ ~over
        /\ Flow(sent, heard', data, src, queue', over, eos)
    BY <1>2, <1>4, <1>6, <1>8, <2>2, FlowHear
  <2>4. Len(heard) < Len(given)
    BY <1>2, <1>6, <2>3 DEF Sent
  <2> QED BY <1>1, <1>3, <1>4, <1>5, <1>6, <1>7, <2>1, <2>3, <2>4 DEF FlowNow
<1>9. CASE Head(queue) = EndOfStream
  <2>1. heard' = heard /\ over' = TRUE
    BY <1>1, <1>9
  <2>2. queue[1] = EndOfStream /\ IsTail(queue', queue)
    BY <1>4, <1>9
  <2>3. /\ eos /\ Len(heard) = sent /\ Len(data) = 0
        /\ Flow(sent, heard, data, src, queue', over', eos)
    BY <1>2, <1>6, <2>2, FlowOver
  <2>4. heard = given \/ Destroyed
    <3> SUFFICES ASSUME ~Destroyed PROVE heard = given
      OBVIOUS
    <3>1. Len(heard) = Len(given)
      BY <1>2, <1>6, <2>3 DEF Sent
    <3> QED BY <3>1 DEF AudioInv, Kept, InOrder
  <2> QED BY <1>1, <1>3, <1>4, <1>5, <1>6, <1>7, <2>1, <2>3, <2>4 DEF FlowNow
<1> QED BY <1>8, <1>9

LEMMA HearInv ==
    ASSUME AudioInv, ~undefined, Hear PROVE AudioInv'
<1>1. /\ ~Constructing /\ queue' \in Seq(Nat) /\ Len(queue') < Len(queue) /\ FlowNow'
      /\ \/ heard' = Append(heard, Len(heard) + 1) /\ over' = over /\ ~over
         \/ heard' = heard /\ eos /\ over' = TRUE /\ (heard = given \/ Destroyed)
  BY HearFlows
<1>2. /\ Len(heard) \in Nat /\ Len(queue) \in Nat /\ Len(queue') \in Nat
  BY <1>1, Lens, LenNat DEF AudioInv, Kept
<1>3. UNCHANGED << given, fields, gst, src, pc, undefined >>
  BY DEF Hear
<1>4. Pieces' /\ InOrder'
  <2>1. Append(heard, Len(heard) + 1) \in Seq(Nat)
    BY <1>2, AppendNat DEF AudioInv, Kept, Pieces
  <2>2. Append(heard, Len(heard) + 1) = [i \in 1..Len(Append(heard, Len(heard) + 1)) |-> i]
    BY CountOn DEF AudioInv, Kept, Pieces, InOrder
  <2> QED BY <1>1, <1>3, <2>1, <2>2 DEF AudioInv, Kept, Pieces, InOrder
<1>5. Destroyed' = Destroyed /\ Constructing' = Constructing
  BY <1>3 DEF Destroyed, Constructing, At
<1>6. over' => Len(heard') = Buffers \/ Destroyed'
  <2>1. eos => Len(given) = Buffers
    BY <1>1 DEF AudioInv, Working, Relied
  <2> QED BY <1>1, <1>5, <2>1
<1>7. Kept'
  <2>1. Len(queue') <= QueueMax
    BY <1>1, <1>2, Limits DEF AudioInv, Kept
  <2>2. over \in BOOLEAN
    BY DEF AudioInv, Kept, Flags
  <2>3. over' = TRUE \/ over' = over
    BY <1>1
  <2>4. over' \in BOOLEAN
    BY <2>2, <2>3, Zenon
  <2>5. Flags' /\ PlacesOf'
    BY <1>3, <2>4 DEF AudioInv, Kept, Flags, PlacesOf
  <2> QED BY <1>4, <1>6, <2>1, <2>5 DEF Kept
<1>8. Started' /\ Unused' /\ Relied'
  BY <1>1, <1>3, <1>5 DEF AudioInv, Working, Started, Unused, Relied, At
<1> QED BY <1>1, <1>3, <1>7, <1>8 DEF AudioInv, Working

LEMMA StutterInv ==
    ASSUME AudioInv, UNCHANGED vars PROVE AudioInv'
<1> USE DEF vars
<1>1. Destroyed' = Destroyed /\ Constructing' = Constructing
  BY DEF Destroyed, Constructing, At
<1>2. Kept'
  BY <1>1 DEF AudioInv, Kept, Pieces, Flags, PlacesOf, InOrder
<1>3. Working => Started' /\ Unused' /\ Relied'
  BY <1>1 DEF Working, Started, Unused, Relied, At
<1>4. Working => FlowNow'
  BY <1>1, FlowKept DEF Working
<1> QED BY <1>2, <1>3, <1>4 DEF AudioInv, Working

LEMMA StepInv ==
    ASSUME AudioInv, [Next]_vars PROVE AudioInv'
<1>1. CASE ~undefined /\ GtkStep
  BY <1>1, ConstructInv, ConstructFlagsInv, DestructStopInv DEF GtkStep
<1>2. CASE ~undefined /\ UserStep
  BY <1>2, ToggleInv, DestructInv DEF UserStep
<1>3. CASE ~undefined /\ PushBuffer
  BY <1>3, PushBufferInv
<1>4. CASE ~undefined /\ IoStep
  BY <1>4, PushBufferAppendInv, PushBufferCheckInv, PushBufferResumeInv, PushDataInv, PushEOSInv
     DEF IoStep, Threads
<1>5. CASE ~undefined /\ SrcStep
  BY <1>5, NeedDataInv, PushDataInv, HandoffInv DEF SrcStep, Threads
<1>6. CASE ~undefined /\ QueueStep
  BY <1>6, UnderrunInv, PushDataInv, HearInv DEF QueueStep, Threads
<1>7. CASE UNCHANGED vars
  BY <1>7, StutterInv
<1> QED BY <1>1, <1>2, <1>3, <1>4, <1>5, <1>6, <1>7 DEF Next

\* In every state of every run.
LEMMA Invariant == Spec => []AudioInv
<1>1. Init => AudioInv
  BY InitInv
<1>2. AudioInv /\ [Next]_vars => AudioInv'
  BY StepInv
<1> QED BY <1>1, <1>2, PTL DEF Spec

---------------------------------------------------------------------------
(* What follows. *)

\* The queue element never holds more than it takes, buffers are counted from
\* one in the order of pushBuffer, and the end is not told before the last of
\* them has been heard, unless the song was abandoned.
THEOREM TypeCorrect == Spec => []TypeOK
<1>1. AudioInv => TypeOK
  BY DEF AudioInv, Kept, Flags, InOrder, TypeOK
<1> QED BY <1>1, Invariant, PTL

LEMMA StartsAsQueue == Init => Abstract!Init
BY DEF Init, Abstract!Init, Constructing, Destroyed, At, Threads

\* Every step is one of the abstract queue, or none.
LEMMA StepsAsQueue ==
    ASSUME AudioInv, [Next]_vars
    PROVE  [Abstract!Next]_(Abstract!audioVars)
<1> USE DEF Abstract!Next, Abstract!audioVars
<1>0. CASE UNCHANGED vars
  BY <1>0 DEF vars, Constructing, Destroyed, At
<1> SUFFICES ASSUME ~undefined, Next
             PROVE  [Abstract!Next]_(Abstract!audioVars)
  BY <1>0 DEF Next
<1>1. Kept /\ Working
  BY DEF AudioInv
<1>2. CASE Construct
  BY <1>1, <1>2 DEF Construct, At, Goto, Kept, PlacesOf, Constructing, Destroyed, Threads
<1>3. CASE ConstructFlags
  BY <1>1, <1>3 DEF ConstructFlags, At, Goto, Kept, PlacesOf, Constructing, Destroyed, Threads
<1>4. CASE DestructStop
  BY <1>1, <1>4 DEF DestructStop, At, Goto, Kept, PlacesOf, Constructing, Destroyed, Threads
<1>5. CASE Toggle
  BY <1>5 DEF Toggle, At, Constructing, Destroyed
<1>6. CASE Destruct
  BY <1>1, <1>6 DEF Destruct, Abstract!Drop, Alive, At, Goto, Kept, PlacesOf, Constructing, Destroyed, Threads
<1>7. ASSUME NEW t \in Threads \ {"gtk"}, NEW label, Goto(t, label), UNCHANGED << history, eos >>
      PROVE  [Abstract!Next]_(Abstract!audioVars)
  <2>1. Destroyed' = Destroyed /\ Constructing' = Constructing
    BY <1>1, <1>7, OtherThread
  <2> QED BY <1>7, <2>1
<1>8. CASE PushBuffer \/ PushBufferResume
  BY <1>7, <1>8 DEF PushBuffer, PushBufferResume, Threads
<1>9. CASE PushBufferCheck
  BY <1>7, <1>9 DEF PushBufferCheck, Threads
<1>10. CASE PushBufferAppend
  <2>1. ~eos /\ Destroyed' = Destroyed /\ Constructing' = Constructing
    BY <1>1, <1>10, InCall, OtherThread DEF PushBufferAppend, At, Threads
  <2> QED BY <1>10, <2>1 DEF PushBufferAppend, Abstract!Give
<1>11. CASE PushEOS
  BY <1>11 DEF PushEOS, Alive, Abstract!Close, At, Constructing, Destroyed
<1>12. ASSUME NEW t \in Threads \ {"gtk"}, PushData(t)
       PROVE  [Abstract!Next]_(Abstract!audioVars)
  BY <1>7, <1>12 DEF PushData, Look, Push, PushEnd
<1>13. CASE NeedData
  BY <1>7, <1>13 DEF NeedData, Threads
<1>14. CASE Handoff
  BY <1>14 DEF Handoff, At, Constructing, Destroyed
<1>15. CASE QueueUnderrun \/ UnderrunPause \/ UnderrunFlag
  BY <1>7, <1>15 DEF QueueUnderrun, UnderrunPause, UnderrunFlag, Threads
<1>16. CASE PausePipeline
  BY <1>7, <1>16 DEF PausePipeline, Threads
<1>17. CASE Hear
  <2>1. /\ ~Constructing
        /\ \/ /\ heard' = Append(heard, Len(heard) + 1) /\ Len(heard) < Len(given)
              /\ over' = over
           \/ heard' = heard /\ eos /\ over' = TRUE /\ (heard = given \/ Destroyed)
    BY <1>17, HearFlows
  <2>2. UNCHANGED << given, eos, pc >> /\ Destroyed' = Destroyed /\ Constructing' = Constructing
    BY <1>17 DEF Hear, Destroyed, Constructing, At
  <2>3. CASE heard' = Append(heard, Len(heard) + 1) /\ Len(heard) < Len(given) /\ over' = over
    <3>1. given[Len(heard) + 1] = Len(heard) + 1
      <4>1. Len(heard) + 1 \in 1..Len(given)
        BY <1>1, <2>3, Lens DEF Kept
      <4> QED BY <1>1, <4>1 DEF Kept, InOrder
    <3> QED BY <2>2, <2>3, <3>1 DEF Abstract!Hear
  <2>4. CASE heard' = heard /\ eos /\ over' = TRUE /\ (heard = given \/ Destroyed)
    BY <2>1, <2>2, <2>4 DEF Abstract!Finish
  <2> QED BY <2>1, <2>3, <2>4
<1> QED BY <1>2, <1>3, <1>4, <1>5, <1>6, <1>8, <1>9, <1>10, <1>11, <1>12, <1>13, <1>14, <1>15, <1>16,
    <1>17 DEF Next, GtkStep, UserStep, IoStep, SrcStep, QueueStep, Threads

\* A BufferedAudio is a queue, whichever of its calls overlap on which threads:
\* what pushBuffer was given is heard in its order, each buffer once, and the
\* end comes only when it was announced by pushEOS and everything has been
\* heard, or was dropped with the object.
THEOREM Refinement == Spec => Promise
<1>1. AudioInv /\ [Next]_vars => [Abstract!Next]_(Abstract!audioVars)
  BY StepsAsQueue
<1> QED BY <1>1, StartsAsQueue, Invariant, PTL DEF Spec, Promise, Abstract!Spec
=============================================================================
