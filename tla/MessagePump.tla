----------------------------- MODULE MessagePump -----------------------------
(***************************************************************************)
(* How BaseClient moves messages (base-client.cpp): start_writing and      *)
(* write_body on one side of a connection, start_reading, read_body and    *)
(* add_to_incoming on the other, and remove_socket when it breaks.         *)
(*                                                                         *)
(* A message is a header and a body of `size' pieces, a piece being what   *)
(* one send or receive of the socket moves.  A write or a read keeps only  *)
(* a pointer: the handlers look at out_msgs.front() and at temp_msg again, *)
(* whatever these are by then.  out_msgs and in_msgs belong to a node,     *)
(* temp_msg too, and is shared by all of its sockets.                      *)
(*                                                                         *)
(* The io thread of a node runs one handler at a time; a step below is one *)
(* handler, or one piece moved by the operating system between handlers.   *)
(***************************************************************************)
EXTENDS Integers, Sequences, SequencesExt

CONSTANTS Nodes,
          Links,     \* the pairs <<a, b>> where a pushes messages for b
          Fragile,   \* the links whose connection may break
          Size,      \* the number of pieces of the k-th message of a link
          MaxPushed, \* bound: messages pushed on a link
          Window,    \* bound: pieces under way on a connection
          MaxWrites, \* bound: writes of a node under way at the same time
          Prompt     \* what is pushed in a cycle is written before the next

ASSUME PumpAssumption ==
    /\ Links \subseteq Nodes \X Nodes
    /\ \A l \in Links : l[1] # l[2]
    /\ Fragile \subseteq Links
    /\ MaxPushed \in Nat /\ Window \in Nat \ {0} /\ MaxWrites \in Nat \ {0}
    /\ Size \in [1..MaxPushed -> Nat]
    /\ Prompt \in BOOLEAN

VARIABLES
    pushed,   \* how many messages were pushed, for every link
    out,      \* out_msgs of every node
    writes,   \* the writes that a node has started
    wire,     \* the pieces under way between two nodes
    peers,    \* the nodes in peers and in reverse
    temp,     \* temp_msg of every node
    reads,    \* the read a node has started on the socket of a peer
    in,       \* every message added to in_msgs of a node, by the peer it is from
    broken,   \* the links whose connection has broken
    crashed   \* undefined behaviour: nothing is known from here on

vars == << pushed, out, writes, wire, peers, temp, reads, in, broken, crashed >>

writeVars == << pushed, out, writes >>
readVars  == << temp, reads, in >>

MaxSize == Max({0} \cup {Size[k] : k \in 1..MaxPushed})

OutMessage == [to : Nodes, k : 1..MaxPushed]
\* Piece 0 is the header.
Piece == [msg : OutMessage, part : 0..MaxSize]
\* The size field of a header is part of its bytes.
Header == [piece : Piece, size : 0..MaxSize]
NoPiece == [msg |-> [to |-> "none"], part |-> 0]
EmptyTemp == [header |-> [piece |-> NoPiece, size |-> 0], body |-> << >>]

\* The most that one write or read moves; a header is one piece.
MaxPieces == Max({1, MaxSize})

Write == [to : Nodes, part : {"header", "body"}, msg : OutMessage, left : 0..MaxPieces]
Read  == [at : {"header", "body", "closed"}, want : 0..MaxPieces, got : 0..MaxPieces]

Pairs == Links \cup {<< l[2], l[1] >> : l \in Links}
Neighbours(n) == {m \in Nodes : << n, m >> \in Pairs}
IsBroken(a, b) == << a, b >> \in broken \/ << b, a >> \in broken

ReadHeader == [at |-> "header", want |-> 1, got |-> 0]
Closed     == [at |-> "closed", want |-> 0, got |-> 0]

Init ==
    /\ pushed = [l \in Links |-> 0]
    /\ out = [n \in Nodes |-> << >>]
    /\ writes = [n \in Nodes |-> << >>]
    /\ wire = [l \in Pairs |-> << >>]
    /\ peers = [n \in Nodes |-> Neighbours(n)]
    /\ temp = [n \in Nodes |-> EmptyTemp]
    /\ reads = [l \in Pairs |-> ReadHeader]
    /\ in = [l \in Pairs |-> << >>]
    /\ broken = {}
    /\ crashed = FALSE

---------------------------------------------------------------------------
(* Removing a socket reads a map entry that it has just erased: the build  *)
(* goes on with what is still there, or not.                               *)

RemoveSocket(n, ids) ==
    /\ peers' = [peers EXCEPT ![n] = @ \ ids]
    /\ IF ids \cap peers[n] = {} THEN UNCHANGED crashed ELSE crashed' \in BOOLEAN

\* The connection of n to m does not work, as far as n can see.
Unusable(n, m) == IsBroken(n, m) \/ m \notin peers[n]

---------------------------------------------------------------------------
(* Writing. *)

\* push_message, from a handler or from the GTK thread.
PushMessage(l) ==
    /\ ~crashed /\ pushed[l] < MaxPushed
    /\ pushed' = [pushed EXCEPT ![l] = @ + 1]
    /\ out' = [out EXCEPT ![l[1]] = Append(@, [to |-> l[2], k |-> pushed[l] + 1])]
    /\ UNCHANGED << writes, wire, peers, readVars, broken, crashed >>

WriteHeader(m) == [to |-> m.to, part |-> "header", msg |-> m, left |-> 1]
\* Slip: the header counts as part of the body.
WriteBodyAndHeader(to, m) ==
    [to |-> to, part |-> "body", msg |-> m, left |-> Size[m.k] + 1]
WriteBody(to, m) == [to |-> to, part |-> "body", msg |-> m, left |-> Size[m.k]]

\* start_writing, with the messages q and the writes ws: messages for peers
\* that are unknown, or whose endpoint is found to be gone, are popped; the
\* first other one has its header written.
StartWriting(n, q, ws, forgotten) ==
    \E dead \in SUBSET {m \in peers[n] : IsBroken(n, m)} :
        LET known == peers[n] \ (dead \cup forgotten)
            first == SelectInSeq(q, LAMBDA m : m.to \in known)
            popped == IF first = 0 THEN q ELSE SubSeq(q, 1, first - 1)
            rest == SubSeq(q, Len(popped) + 1, Len(q))
        IN  /\ dead \subseteq {popped[i].to : i \in DOMAIN popped}
            /\ out' = [out EXCEPT ![n] = rest]
            /\ writes' = [writes EXCEPT ![n] =
                            IF rest = << >> THEN ws ELSE Append(ws, WriteHeader(Head(rest)))]
            /\ RemoveSocket(n, dead \cup forgotten)

\* The cycle comes to start_writing, whether or not a write is under way.
Cycle(n) ==
    /\ ~crashed /\ out[n] # << >>
    /\ Prompt => writes[n] = << >>
    /\ Len(writes[n]) < MaxWrites
    /\ StartWriting(n, out[n], writes[n], {})
    /\ UNCHANGED << pushed, wire, readVars, broken >>

\* The socket takes one piece.  Its bytes are gone if the message is no
\* longer in out_msgs.
WritePiece(n, i) ==
    /\ ~crashed
    /\ LET w == writes[n][i]
           part == IF w.part = "header" THEN 0 ELSE Size[w.msg.k] - w.left + 1
       IN  /\ w.left > 0 /\ ~Unusable(n, w.to)
           /\ Len(wire[<< n, w.to >>]) < Window
           /\ wire' = [wire EXCEPT ![<< n, w.to >>] =
                         Append(@, [msg |-> w.msg, part |-> part])]
           /\ writes' = [writes EXCEPT ![n][i].left = @ - 1]
           /\ IF \E j \in DOMAIN out[n] : out[n][j] = w.msg
              THEN UNCHANGED crashed ELSE crashed' \in BOOLEAN
    /\ UNCHANGED << pushed, out, peers, readVars, broken >>

\* Slip: no return after write_body.
HeaderWrittenPopping(n, i) ==
    /\ writes[n][i].part = "header"
    /\ IF Size[Head(out[n]).k] > 0
       THEN StartWriting(n, Tail(out[n]),
                         ReplaceAt(writes[n], i, WriteBody(writes[n][i].to, Head(out[n]))), {})
       ELSE StartWriting(n, Tail(out[n]), RemoveAt(writes[n], i), {})
\* The handler of a header: a body is that of the front of out_msgs, and
\* goes to the socket the header went to.
HeaderWritten(n, i) ==
    /\ writes[n][i].part = "header"
    /\ IF Size[Head(out[n]).k] > 0
       THEN /\ writes' = [writes EXCEPT ![n][i] = WriteBody(@.to, Head(out[n]))]
            /\ UNCHANGED << out, peers, crashed >>
       ELSE StartWriting(n, Tail(out[n]), RemoveAt(writes[n], i), {})

BodyWritten(n, i) ==
    /\ writes[n][i].part = "body"
    /\ StartWriting(n, Tail(out[n]), RemoveAt(writes[n], i), {})

\* A handler that finds out_msgs empty looks at what is not there.
NoFront(n, i) ==
    /\ crashed' = TRUE
    /\ UNCHANGED << out, writes, peers >>

Written(n, i) ==
    /\ ~crashed /\ writes[n][i].left = 0
    /\ IF out[n] = << >> THEN NoFront(n, i)
       ELSE HeaderWritten(n, i) \/ BodyWritten(n, i)
    /\ UNCHANGED << pushed, wire, readVars, broken >>

\* The peer of the front of out_msgs is removed, and its message popped.
WriteFailed(n, i) ==
    /\ ~crashed /\ writes[n][i].left > 0 /\ Unusable(n, writes[n][i].to)
    /\ IF out[n] = << >> THEN NoFront(n, i)
       ELSE StartWriting(n, Tail(out[n]), RemoveAt(writes[n], i), {Head(out[n]).to})
    /\ UNCHANGED << pushed, wire, readVars, broken >>

---------------------------------------------------------------------------
(* Reading, at n from the socket of m. *)

\* The sizes a header says when its bytes are the given piece.
SizesSaid(piece) == IF piece.part = 0 THEN {Size[piece.msg.k]} ELSE 0..MaxSize

ReceiveHeader(n, m) ==
    /\ ~crashed /\ reads[<< n, m >>].at = "header" /\ reads[<< n, m >>].got = 0
    /\ wire[<< m, n >>] # << >> /\ m \in peers[n]
    /\ LET piece == Head(wire[<< m, n >>])
       IN  \E size \in SizesSaid(piece) :
             temp' = [temp EXCEPT ![n].header = [piece |-> piece, size |-> size]]
    /\ wire' = [wire EXCEPT ![<< m, n >>] = Tail(@)]
    /\ reads' = [reads EXCEPT ![<< n, m >>].got = 1]
    /\ UNCHANGED << writeVars, peers, in, broken, crashed >>

\* body.resize keeps what is there.
Resize(body, size) == [i \in 1..size |-> IF i <= Len(body) THEN body[i] ELSE NoPiece]

\* What is copied to in_msgs.
Message(t) == [header |-> t.header.piece, body |-> t.body]

\* Slip: the next message is not read.
AddToIncomingOnce(n, m) ==
    /\ in' = [in EXCEPT ![<< n, m >>] = Append(@, Message(temp[n]))]
    /\ temp' = [temp EXCEPT ![n] = EmptyTemp]
    /\ reads' = [reads EXCEPT ![<< n, m >>] = Closed]
AddToIncoming(n, m) ==
    IF m \notin peers[n]
    THEN /\ reads' = [reads EXCEPT ![<< n, m >>] = Closed]
         /\ UNCHANGED << in, temp >>
    ELSE /\ in' = [in EXCEPT ![<< n, m >>] = Append(@, Message(temp[n]))]
         /\ temp' = [temp EXCEPT ![n] = EmptyTemp]
         /\ reads' = [reads EXCEPT ![<< n, m >>] = ReadHeader]

\* The handler of start_reading.
HeaderRead(n, m) ==
    /\ ~crashed /\ reads[<< n, m >>].at = "header" /\ reads[<< n, m >>].got = 1
    /\ LET size == temp[n].header.size
       IN  IF size = 0 THEN AddToIncoming(n, m)
           ELSE /\ temp' = [temp EXCEPT ![n].body = Resize(@, size)]
                /\ reads' = [reads EXCEPT ![<< n, m >>] = [at |-> "body", want |-> size, got |-> 0]]
                /\ UNCHANGED in
    /\ UNCHANGED << writeVars, wire, peers, broken, crashed >>

\* The bytes go where temp_msg.body was when the read was started: memory
\* that is no longer its own when another socket has resized or reset it.
ReceiveBody(n, m) ==
    /\ ~crashed
    /\ LET r == reads[<< n, m >>]
       IN  /\ r.at = "body" /\ r.got < r.want
           /\ wire[<< m, n >>] # << >> /\ m \in peers[n]
           /\ reads' = [reads EXCEPT ![<< n, m >>].got = @ + 1]
           /\ wire' = [wire EXCEPT ![<< m, n >>] = Tail(@)]
           /\ IF Len(temp[n].body) = r.want
              THEN /\ temp' = [temp EXCEPT ![n].body[r.got + 1] = Head(wire[<< m, n >>])]
                   /\ UNCHANGED crashed
              ELSE /\ crashed' \in BOOLEAN
                   /\ UNCHANGED temp
    /\ UNCHANGED << writeVars, peers, in, broken >>

\* The handler of read_body.
BodyRead(n, m) ==
    /\ ~crashed /\ reads[<< n, m >>].at = "body"
    /\ reads[<< n, m >>].got = reads[<< n, m >>].want
    /\ AddToIncoming(n, m)
    /\ UNCHANGED << writeVars, wire, peers, broken, crashed >>

\* A read is under way and fails; the handler removes the socket.
ReadFailed(n, m) ==
    /\ ~crashed
    /\ LET r == reads[<< n, m >>]
       IN  /\ r.at # "closed" /\ r.got < r.want
           /\ Unusable(n, m)
           /\ reads' = [reads EXCEPT ![<< n, m >>] = Closed]
    /\ RemoveSocket(n, {m})
    /\ UNCHANGED << writeVars, wire, temp, in, broken >>

---------------------------------------------------------------------------
Break(l) ==
    /\ ~crashed /\ l \in Fragile \ broken
    /\ broken' = broken \cup {l}
    /\ UNCHANGED << writeVars, wire, peers, readVars, crashed >>

WriteStep(n) == \/ Cycle(n)
                \/ \E i \in DOMAIN writes[n] :
                     WritePiece(n, i) \/ Written(n, i) \/ WriteFailed(n, i)
ReadStep(n, m) == \/ ReceiveHeader(n, m) \/ HeaderRead(n, m)
                  \/ ReceiveBody(n, m) \/ BodyRead(n, m) \/ ReadFailed(n, m)

Next == \/ \E l \in Links : PushMessage(l) \/ Break(l)
        \/ \E n \in Nodes : WriteStep(n)
        \/ \E p \in Pairs : ReadStep(p[1], p[2])

Spec == Init /\ [][Next]_vars

\* The io threads run, and a connection that works moves bytes.
Fairness == /\ \A n \in Nodes : WF_vars(WriteStep(n))
            /\ \A p \in Pairs : WF_vars(ReadStep(p[1], p[2]))

FairSpec == Spec /\ Fairness

---------------------------------------------------------------------------
\* Type invariant: no write or read moves more than the message it is for.
TypeOK ==
    /\ pushed \in [Links -> 0..MaxPushed]
    /\ out \in [Nodes -> Seq(OutMessage)]
    /\ writes \in [Nodes -> Seq(Write)]
    /\ wire \in [Pairs -> Seq(Piece)]
    /\ peers \in [Nodes -> SUBSET Nodes]
    /\ \A n \in Nodes : /\ temp[n].header.size \in 0..MaxSize
                        /\ temp[n].body \in Seq(Piece \cup {NoPiece})
    /\ reads \in [Pairs -> Read]
    /\ in \in [Pairs -> Seq([header : Piece \cup {NoPiece}, body : Seq(Piece \cup {NoPiece})])]
    /\ broken \subseteq Fragile
    /\ crashed \in BOOLEAN

\* A message as its receiver should have it.
Intact(l, k) ==
    LET msg == [to |-> l[2], k |-> k]
    IN  [header |-> [msg |-> msg, part |-> 0],
         body |-> [i \in 1..Size[k] |-> [msg |-> msg, part |-> i]]]

ReceivedOn(l) == in[<< l[2], l[1] >>]

\* Messages arrive whole, once and in the order in which they were pushed,
\* whatever becomes of the other connections of their sender (start_reading,
\* start_writing).
Delivery == INSTANCE Channels
              WITH Message <- Intact, received <- [l \in Links |-> ReceivedOn(l)]
DeliversInOrder == Delivery!Spec

\* The connection of one peer breaking does not keep back the messages for
\* another.
EventuallyReceived ==
    \A l \in Links \ Fragile : \A k \in 1..MaxPushed :
        (pushed[l] >= k) ~> (crashed \/ Len(ReceivedOn(l)) >= k)

\* A body is read into a buffer that is still its own: not so when a node has
\* two senders, who share its temp_msg.
ReadsOwnBuffer ==
    ~crashed => \A p \in Pairs :
        reads[p].at = "body" => Len(temp[p[1]].body) = reads[p].want
=============================================================================
