------------------------- MODULE MessagePump_proofs -------------------------
(***************************************************************************)
(* What is proved of MessagePump, for any number of nodes, links, messages *)
(* and pieces.                                                             *)
(***************************************************************************)
EXTENDS MessagePump, CommunityFacts

---------------------------------------------------------------------------
(* Types. *)

OutOf(n)   == {m \in OutMessage : << n, m.to >> \in Links}
WriteOf(n) == {w \in Write : /\ << n, w.to >> \in Links
                             /\ w.left <= (IF w.part = "header" THEN 1 ELSE Size[w.msg.k])}
ReadOf     == {r \in Read : r.got <= r.want /\ (r.at = "header" => r.want = 1)}
Bytes      == Piece \cup {NoPiece}
Temp       == [header : [piece : Bytes, size : 0..MaxSize], body : Seq(Bytes)]
Received   == [header : Bytes, body : Seq(Bytes)]

OutTypes   == out \in [Nodes -> Seq(OutMessage)] /\ \A n \in Nodes : out[n] \in Seq(OutOf(n))
WriteTypes == writes \in [Nodes -> Seq(Write)] /\ \A n \in Nodes : writes[n] \in Seq(WriteOf(n))
WireTypes  == /\ wire \in [Pairs -> Seq(Piece)]
              /\ \A l \in Pairs : wire[l] # << >> => l \in Links
ReadTypes  == /\ temp \in [Nodes -> Temp]
              /\ reads \in [Pairs -> ReadOf]
              /\ \A p \in Pairs : reads[p].at = "body" \/ reads[p].got # 0 => << p[2], p[1] >> \in Links
              /\ in \in [Pairs -> Seq(Received)]
RestTypes  == /\ pushed \in [Links -> 0..MaxPushed]
              /\ peers \in [Nodes -> SUBSET Nodes]
              /\ broken \subseteq Fragile
              /\ crashed \in BOOLEAN
TypeInv == OutTypes /\ WriteTypes /\ WireTypes /\ ReadTypes /\ RestTypes

---------------------------------------------------------------------------
(* Constants. *)

LEMMA MaxIs ==
  ASSUME NEW T, NEW x \in T, \A y \in T : x >= y
  PROVE  Max(T) \in T /\ \A y \in T : Max(T) >= y
BY DEF Max

LEMMA Sizes ==
  /\ MaxPushed \in Nat /\ Size \in [1..MaxPushed -> Nat]
  /\ MaxSize \in Nat /\ \A k \in 1..MaxPushed : Size[k] \in 0..MaxSize
  /\ MaxPieces \in Nat \ {0} /\ MaxSize <= MaxPieces
<1>1. MaxPushed \in Nat /\ Size \in [1..MaxPushed -> Nat]
  BY PumpAssumption
<1> DEFINE T == {0} \cup {Size[k] : k \in 1..MaxPushed}
<1>2. T \subseteq Nat /\ 0 \in T /\ \A k \in 1..MaxPushed : Size[k] \in T
  BY <1>1
<1>3. \E x \in T : \A y \in T : x >= y
  <2>1. CASE MaxPushed = 0
    <3>1. 1..MaxPushed = {}
      BY <2>1
    <3>2. T = {0}
      BY <3>1
    <3> HIDE DEF T
    <3> QED BY <3>2
  <2>2. CASE MaxPushed # 0
    <3>1. PICK k \in 1..MaxPushed : \A i \in 1..MaxPushed : Size[i] <= Size[k]
      BY <1>1, <2>2, Greatest
    <3>2. Size[k] \in T /\ \A y \in T : Size[k] >= y
      BY <1>1, <3>1
    <3> QED BY <3>2
  <2> QED BY <2>1, <2>2
<1>4. MaxSize = Max(T)
  BY DEF MaxSize
<1>5. MaxSize \in T /\ \A y \in T : MaxSize >= y
  <2> HIDE DEF T
  <2> QED BY <1>3, <1>4, MaxIs
<1>6. MaxSize \in Nat /\ \A k \in 1..MaxPushed : Size[k] \in 0..MaxSize
  BY <1>1, <1>2, <1>5
<1>7. MaxPieces \in {1, MaxSize} /\ \A y \in {1, MaxSize} : MaxPieces >= y
  <2>1. \E x \in {1, MaxSize} : \A y \in {1, MaxSize} : x >= y
    BY <1>6
  <2> QED BY <2>1, MaxIs DEF MaxPieces
<1> QED BY <1>1, <1>6, <1>7

LEMMA LinksTyped ==
  /\ \A l \in Links : /\ l = << l[1], l[2] >> /\ l[1] \in Nodes /\ l[2] \in Nodes /\ l[1] # l[2]
                     /\ l \in Pairs /\ << l[2], l[1] >> \in Pairs
  /\ \A p \in Pairs : p = << p[1], p[2] >> /\ p[1] \in Nodes /\ p[2] \in Nodes /\ << p[2], p[1] >> \in Pairs
<1>1. ASSUME NEW l \in Links
      PROVE  /\ l = << l[1], l[2] >> /\ l[1] \in Nodes /\ l[2] \in Nodes /\ l[1] # l[2]
             /\ l \in Pairs /\ << l[2], l[1] >> \in Pairs
  <2>1. l \in Nodes \X Nodes /\ l[1] # l[2]
    BY PumpAssumption
  <2> QED BY <2>1 DEF Pairs
<1>2. ASSUME NEW p \in Pairs
      PROVE  p = << p[1], p[2] >> /\ p[1] \in Nodes /\ p[2] \in Nodes /\ << p[2], p[1] >> \in Pairs
  <2>1. p \in Links \/ \E l \in Links : p = << l[2], l[1] >>
    BY DEF Pairs
  <2>2. CASE p \in Links
    BY <1>1, <2>2
  <2>3. CASE \E l \in Links : p = << l[2], l[1] >>
    <3>1. PICK l \in Links : p = << l[2], l[1] >>
      BY <2>3
    <3>2. p[1] = l[2] /\ p[2] = l[1]
      BY <3>1
    <3> QED BY <1>1, <3>1, <3>2
  <2> QED BY <2>1, <2>2, <2>3
<1> QED BY <1>1, <1>2

---------------------------------------------------------------------------
(* start_writing. *)

LEMMA RemoveAtFirst ==
  ASSUME NEW S, NEW ws \in Seq(S), NEW i \in 1..Len(ws)
  PROVE  /\ RemoveAt(ws, i) \in Seq(S)
         /\ Len(ws) = 1 => RemoveAt(ws, i) = << >>
<1>1. PICK n \in Nat : n = Len(ws)
  BY LenProperties
<1>2. SubSeq(ws, 1, i - 1) \in Seq(S) /\ SubSeq(ws, i + 1, n) \in Seq(S)
      /\ Len(SubSeq(ws, 1, i - 1)) = i - 1 /\ Len(SubSeq(ws, i + 1, n)) = n - i
  BY <1>1, SubSeqProperties
<1> DEFINE a == SubSeq(ws, 1, i - 1)
<1> DEFINE b == SubSeq(ws, i + 1, n)
<1>3. RemoveAt(ws, i) = a \o b
  BY <1>1 DEF RemoveAt
<1> HIDE DEF a, b
<1>4. a \o b \in Seq(S) /\ Len(a \o b) = Len(a) + Len(b)
  BY <1>2, ConcatProperties DEF a, b
<1>5. n = 1 => Len(a \o b) = 0
  <2> SUFFICES ASSUME n = 1 PROVE Len(a \o b) = 0
    OBVIOUS
  <2>1. Len(a) = i - 1 /\ Len(b) = 1 - i /\ i = 1
    BY <1>1, <1>2 DEF a, b
  <2> QED BY <1>4, <2>1
<1> QED BY <1>1, <1>3, <1>4, <1>5, EmptySeq

\* The first c messages are popped, none of which is for a known peer, and the
\* next one, if there is one, is, and is being written.
Started(n, q, ws, rest, gone, c) ==
    /\ out' = [out EXCEPT ![n] = rest]
    /\ writes' = [writes EXCEPT ![n] = IF rest = << >> THEN ws ELSE Append(ws, WriteHeader(Head(rest)))]
    /\ peers' = [peers EXCEPT ![n] = @ \ gone]
    /\ crashed' \in {crashed, TRUE, FALSE}
    /\ gone \cap peers[n] = {} => UNCHANGED crashed
    /\ c \in 0..Len(q) /\ Len(rest) = Len(q) - c
    /\ \A i \in 1..Len(rest) : rest[i] = q[c + i]
    /\ \A i \in 1..c : q[i].to \notin peers[n] \ gone
    /\ rest # << >> => Head(rest).to \in peers[n] \ gone

LEMMA StartWritingFacts ==
  ASSUME NEW n \in Nodes, NEW S, NEW q \in Seq(S), NEW ws, NEW forgotten,
         StartWriting(n, q, ws, forgotten), peers \in [Nodes -> SUBSET Nodes]
  PROVE  \E rest \in Seq(S) : \E gone, c : Started(n, q, ws, rest, gone, c) /\ forgotten \subseteq gone
<1>1. PICK dead \in SUBSET {m \in peers[n] : IsBroken(n, m)} :
        LET known == peers[n] \ (dead \cup forgotten)
            first == SelectInSeq(q, LAMBDA m : m.to \in known)
            popped == IF first = 0 THEN q ELSE SubSeq(q, 1, first - 1)
            rest == SubSeq(q, Len(popped) + 1, Len(q))
        IN  /\ dead \subseteq {popped[i].to : i \in DOMAIN popped}
            /\ out' = [out EXCEPT ![n] = rest]
            /\ writes' = [writes EXCEPT ![n] =
                            IF rest = << >> THEN ws ELSE Append(ws, WriteHeader(Head(rest)))]
            /\ RemoveSocket(n, dead \cup forgotten)
  BY DEF StartWriting
<1> DEFINE gone == dead \cup forgotten
<1> DEFINE known == peers[n] \ gone
<1> DEFINE idx == {i \in 1..Len(q) : q[i].to \in known}
<1> DEFINE first == SelectInSeq(q, LAMBDA m : m.to \in known)
<1> DEFINE popped == IF first = 0 THEN q ELSE SubSeq(q, 1, first - 1)
<1> DEFINE c == Len(popped)
<1> DEFINE rest == SubSeq(q, c + 1, Len(q))
<1>2. /\ out' = [out EXCEPT ![n] = rest]
      /\ writes' = [writes EXCEPT ![n] =
                            IF rest = << >> THEN ws ELSE Append(ws, WriteHeader(Head(rest)))]
      /\ RemoveSocket(n, gone)
  BY <1>1
<1>3. first = IF idx # {} THEN Min(idx) ELSE 0
  BY DEF SelectInSeq
<1>4. PICK k \in Nat : k = Len(q)
  BY LenProperties
<1>5. first \in 0..k /\ (first # 0 => first \in idx) /\ \A i \in idx : first # 0 /\ first <= i
  <2> HIDE DEF first
  <2>1. idx \subseteq Nat /\ idx \subseteq 1..k
    BY <1>4
  <2> HIDE DEF idx
  <2>2. CASE idx = {}
    BY <1>3, <2>2
  <2>3. CASE idx # {}
    <3>1. first \in idx /\ \A i \in idx : first <= i
      BY <1>3, <2>1, <2>3, MinNat
    <3>2. first \in 1..k
      BY <2>1, <3>1
    <3> QED BY <3>1, <3>2
  <2> QED BY <2>2, <2>3
<1>6. c \in 0..k /\ c = IF first = 0 THEN k ELSE first - 1
  <2>1. CASE first = 0
    BY <1>4, <2>1
  <2>2. CASE first # 0
    <3>1. popped = SubSeq(q, 1, first - 1)
      BY <2>2
    <3>0. first \in 1..k
      <4> HIDE DEF first
      <4> QED BY <1>4, <1>5, <2>2
    <3> HIDE DEF first, popped
    <3>2. Len(SubSeq(q, 1, first - 1)) = first - 1
      BY <1>4, <3>0, SubSeqProperties
    <3> QED BY <1>4, <2>2, <3>0, <3>1, <3>2
  <2> QED BY <2>1, <2>2
<1> HIDE DEF popped, first
<1>7. rest \in Seq(S) /\ Len(rest) = k - c /\ \A i \in 1..k - c : rest[i] = q[c + i]
  <2> HIDE DEF c
  <2>1. CASE c = k
    <3>1. rest \in Seq(S) /\ Len(rest) = 0
      BY <1>4, <2>1, SubSeqProperties
    <3> QED BY <1>4, <2>1, <3>1
  <2>2. CASE c # k
    <3>1. c + 1 \in 1..k
      BY <1>4, <1>6, <2>2
    <3>2. rest \in Seq(S) /\ Len(rest) = k - (c + 1) + 1
          /\ \A i \in 1..k - (c + 1) + 1 : rest[i] = q[(c + 1) + i - 1]
      BY <1>4, <3>1, SubSeqProperties
    <3>3. PICK d \in 0..k : d = c
      BY <1>6
    <3>4. k - (d + 1) + 1 = k - d /\ \A i \in 1..k - d : (d + 1) + i - 1 = d + i
      BY <1>4
    <3> QED BY <1>4, <3>2, <3>3, <3>4
  <2> QED BY <2>1, <2>2
<1>8. ASSUME NEW i \in 1..c PROVE q[i].to \notin peers[n] \ gone
  <2>1. i \in 1..k /\ (first # 0 => i < first)
    BY <1>4, <1>5, <1>6
  <2>2. i \notin idx
    <3> HIDE DEF idx
    <3> QED BY <1>5, <2>1
  <2> QED BY <1>4, <2>1, <2>2
<1>9. rest # << >> => Head(rest).to \in peers[n] \ gone
  <2> SUFFICES ASSUME rest # << >> PROVE Head(rest).to \in known
    OBVIOUS
  <2>1. Len(rest) # 0 /\ Head(rest) = rest[1]
    BY <1>7, EmptySeq, HeadTailProperties
  <2> HIDE DEF rest
  <2>2. first # 0 /\ c = first - 1
    <3> HIDE DEF c
    <3> QED BY <1>4, <1>6, <1>7, <2>1
  <2>3. 1 \in 1..k - c /\ c + 1 = first
    <3> HIDE DEF c
    <3> QED BY <1>4, <1>5, <1>6, <1>7, <2>1, <2>2
  <2>4. Head(rest) = q[first]
    BY <1>7, <2>1, <2>3
  <2> QED BY <1>5, <2>2, <2>4
<1>10. /\ peers' = [peers EXCEPT ![n] = @ \ gone]
       /\ crashed' \in {crashed, TRUE, FALSE}
       /\ gone \cap peers[n] = {} => UNCHANGED crashed
  BY <1>2 DEF RemoveSocket
<1> HIDE DEF rest, gone, c
<1>11. forgotten \subseteq gone
  BY DEF gone
<1> QED BY <1>2, <1>4, <1>6, <1>7, <1>8, <1>9, <1>10, <1>11 DEF Started

LEMMA SetOut ==
  ASSUME OutTypes, NEW n \in Nodes, NEW q \in Seq(OutOf(n)), out' = [out EXCEPT ![n] = q]
  PROVE  OutTypes' /\ out'[n] = q /\ \A m \in Nodes : m # n => out'[m] = out[m]
<1>1. q \in Seq(OutMessage)
  BY SeqMonotonic DEF OutOf
<1>2. out' \in [Nodes -> Seq(OutMessage)] /\ \A m \in Nodes : out'[m] = IF m = n THEN q ELSE out[m]
  BY <1>1 DEF OutTypes
<1>3. \A m \in Nodes : out'[m] \in Seq(OutOf(m))
  BY <1>2 DEF OutTypes
<1> QED BY <1>2, <1>3 DEF OutTypes

LEMMA SetWrites ==
  ASSUME WriteTypes, NEW n \in Nodes, NEW ws \in Seq(WriteOf(n)), writes' = [writes EXCEPT ![n] = ws]
  PROVE  WriteTypes' /\ writes'[n] = ws /\ \A m \in Nodes : m # n => writes'[m] = writes[m]
<1>1. ws \in Seq(Write)
  BY SeqMonotonic DEF WriteOf
<1>2. writes' \in [Nodes -> Seq(Write)] /\ \A m \in Nodes : writes'[m] = IF m = n THEN ws ELSE writes[m]
  BY <1>1 DEF WriteTypes
<1>3. \A m \in Nodes : writes'[m] \in Seq(WriteOf(m))
  BY <1>2 DEF WriteTypes
<1> QED BY <1>2, <1>3 DEF WriteTypes

LEMMA WritesMade ==
  ASSUME NEW n \in Nodes, NEW m \in OutOf(n)
  PROVE  /\ WriteHeader(m) \in WriteOf(n)
         /\ \A to \in Nodes : << n, to >> \in Links => WriteBody(to, m) \in WriteOf(n)
<1>1. m \in OutMessage /\ << n, m.to >> \in Links /\ m.to \in Nodes /\ m.k \in 1..MaxPushed
  BY DEF OutOf, OutMessage
<1>2. Size[m.k] \in 0..MaxPieces /\ 1 \in 0..MaxPieces
  BY <1>1, Sizes
<1>3. WriteHeader(m) \in Write
  BY <1>1, <1>2 DEF WriteHeader, Write
<1>4. ASSUME NEW to \in Nodes PROVE WriteBody(to, m) \in Write
  BY <1>1, <1>2 DEF WriteBody, Write
<1>5. WriteHeader(m).to = m.to /\ WriteHeader(m).left = 1 /\ WriteHeader(m).part = "header"
  BY DEF WriteHeader
<1>6. \A to : /\ WriteBody(to, m).to = to /\ WriteBody(to, m).left = Size[m.k]
              /\ WriteBody(to, m).part = "body" /\ WriteBody(to, m).msg = m
  BY DEF WriteBody
<1> QED BY <1>1, <1>2, <1>3, <1>4, <1>5, <1>6 DEF WriteOf

LEMMA StartWritingTypes ==
  ASSUME OutTypes, WriteTypes, RestTypes, UNCHANGED << pushed, broken >>,
         NEW n \in Nodes, NEW q \in Seq(OutOf(n)), NEW ws \in Seq(WriteOf(n)), NEW forgotten,
         StartWriting(n, q, ws, forgotten)
  PROVE  OutTypes' /\ WriteTypes' /\ RestTypes'
<1>0. peers \in [Nodes -> SUBSET Nodes]
  BY DEF RestTypes
<1>1. PICK rest \in Seq(OutOf(n)) : \E gone, c : Started(n, q, ws, rest, gone, c)
  BY <1>0, StartWritingFacts
<1>2. PICK gone, c : Started(n, q, ws, rest, gone, c)
  BY <1>1
<1> DEFINE next == IF rest = << >> THEN ws ELSE Append(ws, WriteHeader(Head(rest)))
<1>3. next \in Seq(WriteOf(n))
  <2>1. CASE rest = << >>
    BY <2>1
  <2>2. CASE rest # << >>
    <3>1. Head(rest) \in OutOf(n)
      BY <2>2, HeadTailProperties
    <3>2. WriteHeader(Head(rest)) \in WriteOf(n)
      BY <3>1, WritesMade
    <3> QED BY <2>2, <3>2, AppendProperties
  <2> QED BY <2>1, <2>2
<1>4. OutTypes'
  BY <1>2, SetOut DEF Started
<1>5. WriteTypes'
  <2> HIDE DEF next
  <2>1. writes' = [writes EXCEPT ![n] = next]
    BY <1>2 DEF next, Started
  <2> QED BY <1>3, <2>1, SetWrites
<1>6. RestTypes'
  <2>1. peers' = [peers EXCEPT ![n] = @ \ gone] /\ crashed' \in {crashed, TRUE, FALSE}
    BY <1>2 DEF Started
  <2>2. peers' \in [Nodes -> SUBSET Nodes]
    BY <1>0, <2>1
  <2>3. crashed' \in BOOLEAN /\ pushed' = pushed /\ broken' = broken
    BY <2>1 DEF RestTypes
  <2> QED BY <2>2, <2>3 DEF RestTypes
<1> QED BY <1>4, <1>5, <1>6

---------------------------------------------------------------------------
(* The steps keep the types. *)

LEMMA ReadsMade ==
  /\ ReadHeader \in ReadOf /\ Closed \in ReadOf
  /\ ReadHeader.at = "header" /\ ReadHeader.got = 0 /\ ReadHeader.want = 1
  /\ Closed.at = "closed" /\ Closed.got = 0
  /\ EmptyTemp \in Temp /\ EmptyTemp.body = << >>
  /\ \A size \in 1..MaxSize : [at |-> "body", want |-> size, got |-> 0] \in ReadOf
  /\ \A t \in Temp : Message(t) \in Received
<1>1. 0 \in 0..MaxPieces /\ 1 \in 0..MaxPieces /\ 0 \in 0..MaxSize
  BY Sizes
<1>2. \A size \in 1..MaxSize : size \in 0..MaxPieces /\ 0 <= size
  BY Sizes
<1>3. << >> \in Seq(Bytes) /\ NoPiece \in Bytes
  BY DEF Bytes
<1>4. EmptyTemp \in Temp /\ EmptyTemp.body = << >>
  BY <1>1, <1>3 DEF EmptyTemp, Temp
<1>5. \A t \in Temp : Message(t) \in Received
  BY DEF Message, Temp, Received
<1> QED BY <1>1, <1>2, <1>4, <1>5 DEF ReadHeader, Closed, ReadOf, Read

LEMMA InitTypes == Init => TypeInv
<1> SUFFICES ASSUME Init PROVE TypeInv
  OBVIOUS
<1>1. OutTypes /\ WriteTypes
  BY DEF Init, OutTypes, WriteTypes
<1>2. WireTypes
  BY DEF Init, WireTypes
<1>3. temp \in [Nodes -> Temp]
  BY ReadsMade DEF Init
<1>4. reads \in [Pairs -> ReadOf] /\ \A p \in Pairs : reads[p] = ReadHeader
  BY ReadsMade DEF Init
<1>5. in \in [Pairs -> Seq(Received)]
  BY DEF Init
<1>6. ReadTypes
  BY <1>3, <1>4, <1>5, ReadsMade DEF ReadTypes
<1>7. RestTypes
  <2>1. 0 \in 0..MaxPushed
    BY Sizes
  <2>2. pushed \in [Links -> 0..MaxPushed]
    BY <2>1 DEF Init
  <2>3. peers \in [Nodes -> SUBSET Nodes]
    BY DEF Init, Neighbours
  <2> QED BY <2>2, <2>3 DEF Init, RestTypes
<1> QED BY <1>1, <1>2, <1>6, <1>7 DEF TypeInv

LEMMA PushTypes ==
  ASSUME TypeInv, NEW l \in Links, PushMessage(l) PROVE TypeInv'
<1>1. l[1] \in Nodes /\ l[2] \in Nodes /\ l = << l[1], l[2] >>
  BY LinksTyped
<1>2. pushed \in [Links -> 0..MaxPushed] /\ MaxPushed \in Nat /\ pushed[l] < MaxPushed
      /\ pushed' = [pushed EXCEPT ![l] = @ + 1]
  BY Sizes DEF TypeInv, RestTypes, PushMessage
<1>3. pushed' \in [Links -> 0..MaxPushed] /\ pushed[l] + 1 \in 1..MaxPushed
  BY <1>2
<1> DEFINE m == [to |-> l[2], k |-> pushed[l] + 1]
<1>4. m \in OutOf(l[1])
  BY <1>1, <1>3 DEF OutOf, OutMessage
<1>5. out[l[1]] \in Seq(OutOf(l[1])) /\ out' = [out EXCEPT ![l[1]] = Append(out[l[1]], m)]
  BY <1>1 DEF TypeInv, OutTypes, PushMessage
<1>6. OutTypes'
  <2> HIDE DEF m
  <2>1. Append(out[l[1]], m) \in Seq(OutOf(l[1]))
    BY <1>4, <1>5
  <2> QED BY <1>1, <1>5, <2>1, SetOut DEF TypeInv
<1> QED BY <1>3, <1>6 DEF TypeInv, WriteTypes, WireTypes, ReadTypes, RestTypes, PushMessage, readVars

LEMMA BreakTypes ==
  ASSUME TypeInv, NEW l \in Links, Break(l) PROVE TypeInv'
BY DEF TypeInv, OutTypes, WriteTypes, WireTypes, ReadTypes, RestTypes, Break, readVars, writeVars

\* What start_writing and what calls it leave alone.
LEMMA ReadsKept ==
  ASSUME WireTypes, ReadTypes, UNCHANGED << wire, readVars >>
  PROVE  WireTypes' /\ ReadTypes'
BY DEF WireTypes, ReadTypes, readVars

LEMMA CycleTypes ==
  ASSUME TypeInv, NEW n \in Nodes, Cycle(n) PROVE TypeInv'
<1>1. out[n] \in Seq(OutOf(n)) /\ writes[n] \in Seq(WriteOf(n))
  BY DEF TypeInv, OutTypes, WriteTypes
<1>2. StartWriting(n, out[n], writes[n], {}) /\ UNCHANGED << pushed, wire, readVars, broken >>
  BY DEF Cycle
<1>3. OutTypes' /\ WriteTypes' /\ RestTypes'
  BY <1>1, <1>2, StartWritingTypes DEF TypeInv
<1> QED BY <1>2, <1>3, ReadsKept DEF TypeInv

LEMMA WriteAt ==
  ASSUME TypeInv, NEW n \in Nodes, NEW i \in DOMAIN writes[n]
  PROVE  /\ writes[n] \in Seq(WriteOf(n)) /\ i \in 1..Len(writes[n]) /\ writes[n][i] \in WriteOf(n)
         /\ RemoveAt(writes[n], i) \in Seq(WriteOf(n))
         /\ out[n] \in Seq(OutOf(n))
         /\ out[n] # << >> => Head(out[n]) \in OutOf(n) /\ Tail(out[n]) \in Seq(OutOf(n))
<1>1. writes[n] \in Seq(WriteOf(n)) /\ out[n] \in Seq(OutOf(n))
  BY DEF TypeInv, OutTypes, WriteTypes
<1>2. i \in 1..Len(writes[n])
  BY <1>1, LenProperties
<1> QED BY <1>1, <1>2, RemoveAtFirst, ElementOfSeq, HeadTailProperties

\* The piece that a write moves next, and the write without it.
NextPiece(w) == [msg |-> w.msg, part |-> IF w.part = "header" THEN 0 ELSE Size[w.msg.k] - w.left + 1]
Less(w) == [w EXCEPT !.left = @ - 1]

LEMMA PieceOfWrite ==
  ASSUME NEW n \in Nodes, NEW w \in WriteOf(n), w.left > 0
  PROVE  /\ NextPiece(w) \in Piece /\ NextPiece(w).msg = w.msg /\ w.msg \in OutMessage
         /\ Less(w) \in WriteOf(n) /\ Less(w).to = w.to /\ Less(w).msg = w.msg
         /\ Less(w).part = w.part /\ Less(w).left = w.left - 1
         /\ << n, w.to >> \in Links /\ w.to \in Nodes
         /\ w.left \in Nat /\ Size[w.msg.k] \in Nat
         /\ w.left <= (IF w.part = "header" THEN 1 ELSE Size[w.msg.k])
<1> DEFINE part == IF w.part = "header" THEN 0 ELSE Size[w.msg.k] - w.left + 1
<1>1. w.msg \in OutMessage /\ w.left \in Nat /\ w.left \in 0..MaxPieces /\ << n, w.to >> \in Links
      /\ w.left <= (IF w.part = "header" THEN 1 ELSE Size[w.msg.k]) /\ w \in Write /\ w.to \in Nodes
  BY Sizes DEF WriteOf, Write
<1>2. Size[w.msg.k] \in 0..MaxSize /\ MaxSize \in Nat /\ Size[w.msg.k] \in Nat
  BY <1>1, Sizes DEF OutMessage
<1>3. part \in 0..MaxSize
  <2> DEFINE z == Size[w.msg.k]
             t == w.left
  <2>1. z \in 0..MaxSize /\ t \in Nat /\ t > 0 /\ (w.part # "header" => t <= z)
    BY <1>1, <1>2
  <2>2. part = IF w.part = "header" THEN 0 ELSE z - t + 1
    OBVIOUS
  <2> HIDE DEF z, t, part
  <2> QED BY <1>2, <2>1, <2>2
<1>4. NextPiece(w) = [msg |-> w.msg, part |-> part]
  BY DEF NextPiece
<1>5. NextPiece(w) \in Piece /\ NextPiece(w).msg = w.msg
  <2> HIDE DEF part
  <2> QED BY <1>1, <1>3, <1>4 DEF Piece
<1>6. w.left - 1 \in 0..MaxPieces /\ w.left - 1 <= w.left
  BY <1>1, Sizes
<1>7. /\ Less(w) \in Write /\ Less(w).to = w.to /\ Less(w).part = w.part /\ Less(w).msg = w.msg
      /\ Less(w).left = w.left - 1
  BY <1>1, <1>6 DEF Write, Less
<1>8. Less(w).left <= (IF Less(w).part = "header" THEN 1 ELSE Size[Less(w).msg.k])
  <2>1. CASE w.part = "header"
    BY <1>1, <1>6, <1>7, <2>1
  <2>2. CASE w.part # "header"
    <3>1. PICK z \in Nat : z = Size[w.msg.k]
      BY <1>2
    <3> QED BY <1>1, <1>6, <1>7, <2>2, <3>1
  <2> QED BY <2>1, <2>2
<1>9. Less(w) \in WriteOf(n)
  BY <1>1, <1>7, <1>8 DEF WriteOf
<1> QED BY <1>1, <1>2, <1>5, <1>7, <1>9

\* What happens to the wire and to the write.
LEMMA WritePieceFacts ==
  ASSUME TypeInv, NEW n \in Nodes, NEW i \in DOMAIN writes[n], WritePiece(n, i)
  PROVE  \E w \in WriteOf(n), l \in Links :
           /\ w = writes[n][i] /\ l = << n, w.to >> /\ w.left > 0 /\ w.to \in peers[n]
           /\ wire' = [wire EXCEPT ![l] = Append(@, NextPiece(w))]
           /\ writes' = [writes EXCEPT ![n] = [writes[n] EXCEPT ![i] = Less(w)]]
           /\ UNCHANGED << pushed, out, peers, readVars, broken >>
           /\ crashed' \in {crashed, TRUE, FALSE}
           /\ (\E j \in DOMAIN out[n] : out[n][j] = w.msg) => UNCHANGED crashed
<1>0. PICK w, l : w = writes[n][i] /\ l = << n, w.to >>
  OBVIOUS
<1>1. w \in WriteOf(n)
  BY <1>0, WriteAt
<1>2. /\ w.left > 0 /\ w.to \in peers[n] /\ wire' = [wire EXCEPT ![l] = Append(@, NextPiece(w))]
      /\ writes' = [writes EXCEPT ![n][i].left = @ - 1] /\ crashed' \in {crashed, TRUE, FALSE}
      /\ UNCHANGED << pushed, out, peers, readVars, broken >>
      /\ (\E j \in DOMAIN out[n] : out[n][j] = w.msg) => UNCHANGED crashed
  BY <1>0 DEF WritePiece, NextPiece, Unusable
<1>3. writes' = [writes EXCEPT ![n] = [writes[n] EXCEPT ![i] = Less(w)]]
  BY <1>0, <1>2 DEF Less
<1>4. l \in Links
  BY <1>0, <1>1, <1>2, PieceOfWrite
<1> QED BY <1>0, <1>1, <1>2, <1>3, <1>4

LEMMA WritePieceTypes ==
  ASSUME TypeInv, NEW n \in Nodes, NEW i \in DOMAIN writes[n], WritePiece(n, i) PROVE TypeInv'
<1>2. PICK w \in WriteOf(n), l \in Links :
        /\ w = writes[n][i] /\ l = << n, w.to >> /\ w.left > 0 /\ w.to \in peers[n]
        /\ wire' = [wire EXCEPT ![l] = Append(@, NextPiece(w))]
        /\ writes' = [writes EXCEPT ![n] = [writes[n] EXCEPT ![i] = Less(w)]]
        /\ UNCHANGED << pushed, out, peers, readVars, broken >>
        /\ crashed' \in {crashed, TRUE, FALSE}
        /\ (\E j \in DOMAIN out[n] : out[n][j] = w.msg) => UNCHANGED crashed
  BY WritePieceFacts
<1>3. NextPiece(w) \in Piece /\ Less(w) \in WriteOf(n)
  BY <1>2, PieceOfWrite
<1>4. WireTypes'
  <2>1. wire \in [Pairs -> Seq(Piece)] /\ wire[l] \in Seq(Piece)
    BY <1>2, LinksTyped DEF TypeInv, WireTypes
  <2>2. Append(wire[l], NextPiece(w)) \in Seq(Piece)
    BY <1>3, <2>1, AppendProperties
  <2>3. wire' \in [Pairs -> Seq(Piece)] /\ \A p \in Pairs : p # l => wire'[p] = wire[p]
    BY <1>2, <2>1, <2>2
  <2> QED BY <1>2, <2>3 DEF TypeInv, WireTypes
<1>5. WriteTypes'
  <2>1. [writes[n] EXCEPT ![i] = Less(w)] \in Seq(WriteOf(n))
    BY <1>3, WriteAt, ExceptSeq
  <2> QED BY <1>2, <2>1, SetWrites DEF TypeInv
<1>6. OutTypes' /\ ReadTypes' /\ RestTypes'
  BY <1>2 DEF TypeInv, OutTypes, ReadTypes, RestTypes, readVars
<1> QED BY <1>4, <1>5, <1>6 DEF TypeInv

LEMMA WrittenTypes ==
  ASSUME TypeInv, NEW n \in Nodes, NEW i \in DOMAIN writes[n], Written(n, i) PROVE TypeInv'
<1>1. UNCHANGED << pushed, wire, readVars, broken >>
  BY DEF Written
<1>2. WireTypes' /\ ReadTypes'
  BY <1>1, ReadsKept DEF TypeInv
<1>3. CASE NoFront(n, i)
  BY <1>1, <1>2, <1>3 DEF TypeInv, OutTypes, WriteTypes, RestTypes, NoFront
<1>4. CASE out[n] # << >> /\ StartWriting(n, Tail(out[n]), RemoveAt(writes[n], i), {})
  <2>1. OutTypes' /\ WriteTypes' /\ RestTypes'
    BY <1>1, <1>4, WriteAt, StartWritingTypes DEF TypeInv
  <2> QED BY <1>2, <2>1 DEF TypeInv
<1>5. CASE out[n] # << >> /\ writes' = [writes EXCEPT ![n][i] = WriteBody(@.to, Head(out[n]))]
           /\ UNCHANGED << out, peers, crashed >>
  <2> DEFINE w == writes[n][i]
             v == WriteBody(w.to, Head(out[n]))
  <2>1. w \in WriteOf(n) /\ Head(out[n]) \in OutOf(n)
    BY <1>5, WriteAt
  <2>2. v \in WriteOf(n)
    BY <2>1, WritesMade DEF WriteOf, Write
  <2>3. writes' = [writes EXCEPT ![n] = [writes[n] EXCEPT ![i] = v]]
    BY <1>5
  <2> HIDE DEF v
  <2>4. [writes[n] EXCEPT ![i] = v] \in Seq(WriteOf(n))
    BY <2>2, WriteAt, ExceptSeq
  <2>5. WriteTypes'
    BY <2>3, <2>4, SetWrites DEF TypeInv
  <2> QED BY <1>1, <1>2, <1>5, <2>5 DEF TypeInv, OutTypes, RestTypes
<1> QED BY <1>3, <1>4, <1>5 DEF Written, HeaderWritten, BodyWritten

LEMMA WriteFailedTypes ==
  ASSUME TypeInv, NEW n \in Nodes, NEW i \in DOMAIN writes[n], WriteFailed(n, i) PROVE TypeInv'
<1>1. UNCHANGED << pushed, wire, readVars, broken >>
  BY DEF WriteFailed
<1>2. WireTypes' /\ ReadTypes'
  BY <1>1, ReadsKept DEF TypeInv
<1>3. CASE NoFront(n, i)
  BY <1>1, <1>2, <1>3 DEF TypeInv, OutTypes, WriteTypes, RestTypes, NoFront
<1>4. CASE out[n] # << >> /\ StartWriting(n, Tail(out[n]), RemoveAt(writes[n], i), {Head(out[n]).to})
  <2>1. OutTypes' /\ WriteTypes' /\ RestTypes'
    BY <1>1, <1>4, WriteAt, StartWritingTypes DEF TypeInv
  <2> QED BY <1>2, <2>1 DEF TypeInv
<1> QED BY <1>3, <1>4 DEF WriteFailed

\* What the receiving steps leave alone.
LEMMA WritesKept ==
  ASSUME TypeInv, UNCHANGED << writeVars, peers, broken >>, crashed' \in {crashed, TRUE, FALSE}
  PROVE  OutTypes' /\ WriteTypes' /\ RestTypes'
BY DEF TypeInv, OutTypes, WriteTypes, RestTypes, writeVars

LEMMA WireTaken ==
  ASSUME WireTypes, NEW l \in Pairs, wire[l] # << >>, wire' = [wire EXCEPT ![l] = Tail(@)]
  PROVE  /\ WireTypes' /\ l \in Links /\ Head(wire[l]) \in Piece
         /\ wire'[l] = Tail(wire[l]) /\ \A p \in Pairs : p # l => wire'[p] = wire[p]
<1>1. wire[l] \in Seq(Piece) /\ l \in Links
  BY DEF WireTypes
<1>2. Tail(wire[l]) \in Seq(Piece) /\ Head(wire[l]) \in Piece
  BY <1>1, HeadTailProperties
<1>3. /\ wire' \in [Pairs -> Seq(Piece)]
      /\ wire'[l] = Tail(wire[l]) /\ \A p \in Pairs : p # l => wire'[p] = wire[p]
  BY <1>2 DEF WireTypes
<1> QED BY <1>1, <1>2, <1>3 DEF WireTypes

LEMMA SetReads ==
  ASSUME ReadTypes, NEW p \in Pairs, NEW r \in ReadOf, reads' = [reads EXCEPT ![p] = r],
         r.at = "body" \/ r.got # 0 => << p[2], p[1] >> \in Links
  PROVE  /\ reads' \in [Pairs -> ReadOf]
         /\ \A q \in Pairs : reads'[q].at = "body" \/ reads'[q].got # 0 => << q[2], q[1] >> \in Links
         /\ reads'[p] = r /\ \A q \in Pairs : q # p => reads'[q] = reads[q]
<1>1. reads' \in [Pairs -> ReadOf] /\ \A q \in Pairs : reads'[q] = IF q = p THEN r ELSE reads[q]
  BY DEF ReadTypes
<1> QED BY <1>1 DEF ReadTypes

LEMMA ReadAt ==
  ASSUME TypeInv, NEW p \in Pairs
  PROVE  /\ reads[p] \in ReadOf /\ reads[p].want \in Nat /\ reads[p].got \in Nat
         /\ reads[p].got <= reads[p].want /\ reads[p].want <= MaxPieces
         /\ temp[p[1]] \in Temp /\ in[p] \in Seq(Received)
<1>1. reads[p] \in ReadOf /\ MaxPieces \in Nat
  BY Sizes DEF TypeInv, ReadTypes
<1>2. reads[p].want \in Nat /\ reads[p].got \in Nat /\ reads[p].got <= reads[p].want /\ reads[p].want <= MaxPieces
  <2> DEFINE r == reads[p]
  <2>1. r \in ReadOf
    BY <1>1
  <2> HIDE DEF r
  <2>2. r.want \in 0..MaxPieces /\ r.got \in 0..MaxPieces /\ r.got <= r.want
    BY <2>1 DEF ReadOf, Read
  <2> QED BY <1>1, <2>2 DEF r
<1>3. temp[p[1]] \in Temp /\ in[p] \in Seq(Received)
  BY LinksTyped DEF TypeInv, ReadTypes
<1> QED BY <1>1, <1>2, <1>3

LEMMA ReceiveHeaderTypes ==
  ASSUME TypeInv, NEW n, NEW m, << n, m >> \in Pairs, ReceiveHeader(n, m) PROVE TypeInv'
<1> DEFINE p == << n, m >>
           l == << m, n >>
<1>1. n \in Nodes /\ l \in Pairs
  BY LinksTyped
<1>2. PICK size \in SizesSaid(Head(wire[l])) :
        temp' = [temp EXCEPT ![n].header = [piece |-> Head(wire[l]), size |-> size]]
  BY DEF ReceiveHeader
<1>3. /\ reads[p].at = "header" /\ reads[p].got = 0 /\ wire[l] # << >>
      /\ wire' = [wire EXCEPT ![l] = Tail(@)] /\ reads' = [reads EXCEPT ![p].got = 1]
      /\ UNCHANGED << writeVars, peers, in, broken, crashed >>
  BY DEF ReceiveHeader
<1>4. WireTypes' /\ l \in Links /\ Head(wire[l]) \in Piece
  <2> HIDE DEF l
  <2> QED BY <1>1, <1>3, WireTaken DEF TypeInv
<1>5. size \in 0..MaxSize
  <2>1. Head(wire[l]).msg.k \in 1..MaxPushed
    BY <1>4 DEF Piece, OutMessage
  <2> QED BY <1>2, <2>1, Sizes DEF SizesSaid
<1>6. temp' \in [Nodes -> Temp]
  <2> DEFINE h == [piece |-> Head(wire[l]), size |-> size]
  <2>1. h \in [piece : Bytes, size : 0..MaxSize] /\ temp[n] \in Temp
    BY <1>1, <1>4, <1>5 DEF Bytes, TypeInv, ReadTypes
  <2> HIDE DEF h
  <2>2. [temp[n] EXCEPT !.header = h] \in Temp
    BY <2>1 DEF Temp
  <2>3. temp' = [temp EXCEPT ![n] = [temp[n] EXCEPT !.header = h]]
    BY <1>2 DEF h
  <2> QED BY <1>1, <2>2, <2>3 DEF TypeInv, ReadTypes
<1> DEFINE r == [reads[p] EXCEPT !.got = 1]
<1>7. r \in ReadOf
  <2>1. reads[p] \in ReadOf /\ reads[p].want = 1 /\ 1 \in 0..MaxPieces
    BY <1>3, Sizes DEF TypeInv, ReadTypes, ReadOf
  <2> HIDE DEF p
  <2> QED BY <2>1 DEF ReadOf, Read
<1>8. ReadTypes'
  <2>1. reads' = [reads EXCEPT ![p] = r]
    BY <1>3
  <2> HIDE DEF r
  <2> QED BY <1>3, <1>4, <1>6, <1>7, <2>1, SetReads DEF TypeInv, ReadTypes
<1> QED BY <1>3, <1>4, <1>8, WritesKept DEF TypeInv

LEMMA AddToIncomingTypes ==
  ASSUME TypeInv, NEW n, NEW m, << n, m >> \in Pairs, AddToIncoming(n, m)
  PROVE  ReadTypes'
<1> DEFINE p == << n, m >>
<1>1. n \in Nodes /\ p[1] = n /\ p[2] = m
  BY LinksTyped
<1>2. CASE reads' = [reads EXCEPT ![p] = Closed] /\ UNCHANGED << in, temp >>
  <2> HIDE DEF p
  <2> QED BY <1>2, ReadsMade, SetReads DEF p, TypeInv, ReadTypes
<1>3. CASE /\ in' = [in EXCEPT ![p] = Append(@, Message(temp[n]))]
           /\ temp' = [temp EXCEPT ![n] = EmptyTemp]
           /\ reads' = [reads EXCEPT ![p] = ReadHeader]
  <2>1. Message(temp[n]) \in Received /\ in[p] \in Seq(Received)
    BY <1>1, ReadsMade DEF TypeInv, ReadTypes
  <2>2. Append(in[p], Message(temp[n])) \in Seq(Received)
    BY <2>1, AppendProperties
  <2>3. in' \in [Pairs -> Seq(Received)]
    BY <1>3, <2>2 DEF TypeInv, ReadTypes
  <2>4. temp' \in [Nodes -> Temp]
    BY <1>3, ReadsMade DEF TypeInv, ReadTypes
  <2> HIDE DEF p
  <2> QED BY <1>3, <2>3, <2>4, ReadsMade, SetReads DEF p, TypeInv, ReadTypes
<1> QED BY <1>2, <1>3 DEF AddToIncoming

LEMMA HeaderReadTypes ==
  ASSUME TypeInv, NEW n, NEW m, << n, m >> \in Pairs, HeaderRead(n, m) PROVE TypeInv'
<1> DEFINE p == << n, m >>
           size == temp[n].header.size
<1>1. n \in Nodes /\ p[1] = n /\ p[2] = m
  BY LinksTyped
<1>2. reads[p].got = 1 /\ UNCHANGED << writeVars, wire, peers, broken, crashed >>
  BY DEF HeaderRead
<1>3. << m, n >> \in Links
  <2>1. << p[2], p[1] >> \in Links
    <3> HIDE DEF p
    <3> QED BY <1>2 DEF p, TypeInv, ReadTypes
  <2> QED BY <1>1, <2>1
<1>4. ASSUME AddToIncoming(n, m) PROVE ReadTypes'
  BY <1>4, AddToIncomingTypes
<1>5. ASSUME size # 0, temp' = [temp EXCEPT ![n].body = Resize(@, size)],
             reads' = [reads EXCEPT ![p] = [at |-> "body", want |-> size, got |-> 0]], UNCHANGED in
      PROVE  ReadTypes'
  <2>1. temp[n] \in Temp
    BY <1>1 DEF TypeInv, ReadTypes
  <2>2. size \in 1..MaxSize /\ temp[n].body \in Seq(Bytes)
    BY <1>5, <2>1, Sizes DEF Temp
  <2>3. Resize(temp[n].body, size) \in Seq(Bytes)
    <3>1. PICK z \in Nat : z = size
      BY <2>2, Sizes
    <3>2. PICK b \in Seq(Bytes) : b = temp[n].body
      BY <2>2
    <3>3. NoPiece \in Bytes /\ Len(b) \in Nat /\ \A i \in 1..Len(b) : b[i] \in Bytes
      BY DEF Bytes
    <3>4. [i \in 1..z |-> IF i <= Len(b) THEN b[i] ELSE NoPiece] \in Seq(Bytes)
      BY <3>3
    <3> QED BY <3>1, <3>2, <3>4 DEF Resize
  <2>4. temp' \in [Nodes -> Temp]
    <3> DEFINE b == Resize(temp[n].body, size)
    <3>1. temp' = [temp EXCEPT ![n] = [temp[n] EXCEPT !.body = b]]
      BY <1>5
    <3>2. b \in Seq(Bytes)
      BY <2>3
    <3> HIDE DEF b
    <3>3. [temp[n] EXCEPT !.body = b] \in Temp
      BY <2>1, <3>2 DEF Temp
    <3> QED BY <1>1, <3>1, <3>3 DEF TypeInv, ReadTypes
  <2> DEFINE r == [at |-> "body", want |-> size, got |-> 0]
  <2>5. r \in ReadOf
    <3> HIDE DEF size
    <3> QED BY <2>2, ReadsMade
  <2> HIDE DEF r, p
  <2> QED BY <1>1, <1>3, <1>5, <2>4, <2>5, SetReads DEF r, p, TypeInv, ReadTypes
<1>6. ReadTypes'
  BY <1>4, <1>5 DEF HeaderRead
<1> QED BY <1>2, <1>6, WritesKept DEF TypeInv, WireTypes

LEMMA ReceiveBodyTypes ==
  ASSUME TypeInv, NEW n, NEW m, << n, m >> \in Pairs, ReceiveBody(n, m) PROVE TypeInv'
<1> DEFINE p == << n, m >>
           l == << m, n >>
           r == reads[p]
           v == [r EXCEPT !.got = @ + 1]
<1>1. n \in Nodes /\ l \in Pairs
  BY LinksTyped
<1>2. /\ r.at = "body" /\ r.got < r.want /\ wire[l] # << >>
      /\ wire' = [wire EXCEPT ![l] = Tail(@)] /\ reads' = [reads EXCEPT ![p] = v]
      /\ UNCHANGED << writeVars, peers, in, broken >> /\ crashed' \in {crashed, TRUE, FALSE}
  BY DEF ReceiveBody
<1>3. \/ UNCHANGED temp
      \/ Len(temp[n].body) = r.want /\ temp' = [temp EXCEPT ![n].body[r.got + 1] = Head(wire[l])]
  BY DEF ReceiveBody
<1>4. WireTypes' /\ l \in Links /\ Head(wire[l]) \in Piece
  <2> HIDE DEF l
  <2> QED BY <1>1, <1>2, WireTaken DEF TypeInv
<1>5. r \in ReadOf /\ r.want \in 0..MaxPieces /\ r.got \in 0..MaxPieces /\ MaxPieces \in Nat
  BY Sizes DEF TypeInv, ReadTypes, ReadOf, Read
<1>6. v \in ReadOf
  <2> HIDE DEF r
  <2>1. r.got + 1 \in 0..MaxPieces /\ r.got + 1 <= r.want
    BY <1>2, <1>5
  <2> QED BY <1>2, <1>5, <2>1 DEF ReadOf, Read
<1>7. temp' \in [Nodes -> Temp]
  <2>1. CASE UNCHANGED temp
    BY <2>1 DEF TypeInv, ReadTypes
  <2>2. CASE Len(temp[n].body) = r.want /\ temp' = [temp EXCEPT ![n].body[r.got + 1] = Head(wire[l])]
    <3>1. temp[n] \in Temp
      BY <1>1 DEF TypeInv, ReadTypes
    <3>2. temp[n].body \in Seq(Bytes) /\ Head(wire[l]) \in Bytes
      BY <1>4, <3>1 DEF Temp, Bytes
    <3>3. r.got + 1 \in 1..Len(temp[n].body)
      <4> HIDE DEF r
      <4>1. PICK g \in Nat, w \in Nat : g = r.got /\ w = r.want
        BY <1>5
      <4> QED BY <1>2, <2>2, <4>1
    <3> DEFINE b == [temp[n].body EXCEPT ![r.got + 1] = Head(wire[l])]
    <3>4. b \in Seq(Bytes)
      BY <3>2, <3>3, ExceptSeq
    <3>5. temp' = [temp EXCEPT ![n] = [temp[n] EXCEPT !.body = b]]
      BY <2>2
    <3> HIDE DEF b
    <3>6. [temp[n] EXCEPT !.body = b] \in Temp
      BY <3>1, <3>4 DEF Temp
    <3> QED BY <1>1, <3>5, <3>6 DEF TypeInv, ReadTypes
  <2> QED BY <1>3, <2>1, <2>2
<1>8. ReadTypes'
  <2> HIDE DEF v
  <2> QED BY <1>2, <1>4, <1>6, <1>7, SetReads DEF TypeInv, ReadTypes
<1> QED BY <1>2, <1>4, <1>8, WritesKept DEF TypeInv

LEMMA BodyReadTypes ==
  ASSUME TypeInv, NEW n, NEW m, << n, m >> \in Pairs, BodyRead(n, m) PROVE TypeInv'
<1>1. AddToIncoming(n, m) /\ UNCHANGED << writeVars, wire, peers, broken, crashed >>
  BY DEF BodyRead
<1>2. ReadTypes'
  BY <1>1, AddToIncomingTypes
<1> QED BY <1>1, <1>2, WritesKept DEF TypeInv, WireTypes

LEMMA ReadFailedTypes ==
  ASSUME TypeInv, NEW n, NEW m, << n, m >> \in Pairs, ReadFailed(n, m) PROVE TypeInv'
<1>1. /\ reads' = [reads EXCEPT ![<< n, m >>] = Closed]
      /\ peers' = [peers EXCEPT ![n] = @ \ {m}] /\ crashed' \in {crashed, TRUE, FALSE}
      /\ UNCHANGED << writeVars, wire, temp, in, broken >>
  BY DEF ReadFailed, RemoveSocket
<1>2. ReadTypes'
  BY <1>1, ReadsMade, SetReads DEF TypeInv, ReadTypes
<1>3. peers' \in [Nodes -> SUBSET Nodes]
  BY <1>1 DEF TypeInv, RestTypes
<1> QED BY <1>1, <1>2, <1>3 DEF TypeInv, OutTypes, WriteTypes, WireTypes, RestTypes, writeVars

LEMMA TypeStep == TypeInv /\ [Next]_vars => TypeInv'
<1> SUFFICES ASSUME TypeInv, [Next]_vars PROVE TypeInv'
  OBVIOUS
<1>1. CASE UNCHANGED vars
  BY <1>1 DEF TypeInv, OutTypes, WriteTypes, WireTypes, ReadTypes, RestTypes, vars
<1>2. ASSUME NEW l \in Links, PushMessage(l) \/ Break(l) PROVE TypeInv'
  BY <1>2, PushTypes, BreakTypes
<1>3. ASSUME NEW n \in Nodes, WriteStep(n) PROVE TypeInv'
  BY <1>3, CycleTypes, WritePieceTypes, WrittenTypes, WriteFailedTypes DEF WriteStep
<1>4. ASSUME NEW p \in Pairs, ReadStep(p[1], p[2]) PROVE TypeInv'
  <2>1. << p[1], p[2] >> \in Pairs
    BY LinksTyped
  <2> QED BY <1>4, <2>1, ReceiveHeaderTypes, HeaderReadTypes, ReceiveBodyTypes, BodyReadTypes,
             ReadFailedTypes DEF ReadStep
<1> QED BY <1>1, <1>2, <1>3, <1>4 DEF Next

\* No write or read moves more than the message it is for: nothing is written
\* for a node that no message is for, and what is under way, in temp_msg and in
\* in_msgs are pieces of messages, whatever connections break.
THEOREM TypeCorrect == Spec => []TypeOK
<1>1. TypeInv => TypeOK
  <2> SUFFICES ASSUME TypeInv PROVE TypeOK
    OBVIOUS
  <2>1. pushed \in [Links -> 0..MaxPushed] /\ out \in [Nodes -> Seq(OutMessage)]
        /\ writes \in [Nodes -> Seq(Write)] /\ wire \in [Pairs -> Seq(Piece)]
        /\ peers \in [Nodes -> SUBSET Nodes] /\ broken \subseteq Fragile /\ crashed \in BOOLEAN
    BY DEF TypeInv, OutTypes, WriteTypes, WireTypes, RestTypes
  <2>2. reads \in [Pairs -> Read]
    BY DEF TypeInv, ReadTypes, ReadOf
  <2>3. ASSUME NEW n \in Nodes PROVE /\ temp[n].header.size \in 0..MaxSize
                                     /\ temp[n].body \in Seq(Piece \cup {NoPiece})
    BY DEF TypeInv, ReadTypes, Temp, Bytes
  <2>4. in \in [Pairs -> Seq([header : Piece \cup {NoPiece}, body : Seq(Piece \cup {NoPiece})])]
    BY DEF TypeInv, ReadTypes, Received, Bytes
  <2> QED BY <2>1, <2>2, <2>3, <2>4 DEF TypeOK
<1>2. Spec => []TypeInv
  BY InitTypes, TypeStep, PTL DEF Spec
<1> QED BY <1>1, <1>2, PTL

---------------------------------------------------------------------------
(* One sender: no node is written to by two others, so that no two sockets *)
(* of a node are reading a message into its temp_msg.                      *)

OneSender == \A l1, l2 \in Links : l1[2] = l2[2] => l1 = l2

InMessage(p) == reads[p].at = "body" \/ reads[p].got # 0

LEMMA OneReader ==
  ASSUME OneSender, TypeInv, NEW p \in Pairs, NEW q \in Pairs, p[1] = q[1],
         InMessage(p), InMessage(q)
  PROVE  p = q
<1>1. << p[2], p[1] >> \in Links /\ << q[2], q[1] >> \in Links
  BY DEF TypeInv, ReadTypes, InMessage
<1>2. << p[2], p[1] >> = << q[2], q[1] >>
  <2> DEFINE l1 == << p[2], p[1] >>
             l2 == << q[2], q[1] >>
  <2>1. l1[2] = l2[2] /\ l1 \in Links /\ l2 \in Links
    BY <1>1
  <2> HIDE DEF l1, l2
  <2>2. l1 = l2
    BY <2>1 DEF OneSender
  <2> QED BY <2>2 DEF l1, l2
<1>3. p[2] = q[2]
  BY <1>2
<1> QED BY <1>3, LinksTyped

\* A body has its place in temp_msg, whatever else is read.
Placed(p) == reads[p].at = "body" => Len(temp[p[1]].body) = reads[p].want
Placing == \A p \in Pairs : Placed(p)

\* What one socket does to temp_msg is nothing to the bodies of others.
LEMMA OthersPlaced ==
  ASSUME OneSender, TypeInv, Placing, NEW p \in Pairs, InMessage(p),
         \A q \in Pairs : q # p => reads'[q] = reads[q],
         \A n \in Nodes : n # p[1] => temp'[n] = temp[n],
         Placed(p)'
  PROVE  Placing'
<1> SUFFICES ASSUME NEW q \in Pairs, q # p PROVE Placed(q)'
  BY DEF Placing
<1>1. CASE q[1] = p[1]
  <2>1. ~InMessage(q)
    BY <1>1, OneReader
  <2> QED BY <2>1 DEF InMessage, Placed
<1>2. CASE q[1] # p[1]
  <2>1. q[1] \in Nodes
    BY LinksTyped
  <2> QED BY <1>2, <2>1 DEF Placing, Placed
<1> QED BY <1>1, <1>2

LEMMA AddToIncomingPlaced ==
  ASSUME OneSender, TypeInv, Placing, NEW n, NEW m, << n, m >> \in Pairs, InMessage(<< n, m >>),
         AddToIncoming(n, m)
  PROVE  Placing'
<1> DEFINE p == << n, m >>
<1>1. n \in Nodes /\ p[1] = n /\ p[2] = m /\ p \in Pairs
  BY LinksTyped
<1>2. reads \in [Pairs -> ReadOf] /\ temp \in [Nodes -> Temp]
  BY DEF TypeInv, ReadTypes
<1>3. /\ \E r \in {ReadHeader, Closed} : reads' = [reads EXCEPT ![p] = r]
      /\ temp' = temp \/ temp' = [temp EXCEPT ![n] = EmptyTemp]
  BY DEF AddToIncoming
<1> HIDE DEF p
<1>4. \A q \in Pairs : q # p => reads'[q] = reads[q]
  BY <1>2, <1>3
<1>5. reads'[p].at # "body"
  BY <1>1, <1>2, <1>3, ReadsMade
<1>6. \A k \in Nodes : k # p[1] => temp'[k] = temp[k]
  BY <1>1, <1>2, <1>3
<1>7. Placed(p)'
  BY <1>5 DEF Placed
<1> QED BY <1>1, <1>4, <1>6, <1>7, OthersPlaced DEF p

LEMMA ResizeLength ==
  ASSUME NEW body, NEW size \in Nat
  PROVE  /\ Len(Resize(body, size)) = size
         /\ \A i \in 1..size : i <= Len(body) => Resize(body, size)[i] = body[i]
BY DEF Resize

LEMMA HeaderReadPlaced ==
  ASSUME OneSender, TypeInv, Placing, NEW n, NEW m, << n, m >> \in Pairs, HeaderRead(n, m)
  PROVE  Placing'
<1> DEFINE p == << n, m >>
           size == temp[n].header.size
<1>1. n \in Nodes /\ p[1] = n /\ p[2] = m /\ p \in Pairs
  BY LinksTyped
<1>2. InMessage(p)
  BY DEF HeaderRead, InMessage
<1>3. ASSUME AddToIncoming(n, m) PROVE Placing'
  BY <1>2, <1>3, AddToIncomingPlaced
<1>4. ASSUME temp' = [temp EXCEPT ![n].body = Resize(@, size)],
             reads' = [reads EXCEPT ![p] = [at |-> "body", want |-> size, got |-> 0]]
      PROVE  Placing'
  <2>1. reads \in [Pairs -> ReadOf] /\ temp \in [Nodes -> Temp] /\ size \in Nat
    <3>1. reads \in [Pairs -> ReadOf] /\ temp \in [Nodes -> Temp]
      BY DEF TypeInv, ReadTypes
    <3>2. size \in 0..MaxSize
      BY <1>1, <3>1 DEF Temp
    <3> QED BY <3>1, <3>2, Sizes
  <2>2. Len(Resize(temp[n].body, size)) = size
    BY <2>1, ResizeLength
  <2>3. temp'[n].body = Resize(temp[n].body, size)
    BY <1>1, <1>4, <2>1 DEF Temp
  <2>4. \A k \in Nodes : k # n => temp'[k] = temp[k]
    BY <1>4, <2>1
  <2>5. reads'[p].want = size /\ \A q \in Pairs : q # p => reads'[q] = reads[q]
    <3> HIDE DEF p, size
    <3> QED BY <1>1, <1>4, <2>1
  <2>6. Placed(p)'
    <3> HIDE DEF p, size
    <3> QED BY <1>1, <2>2, <2>3, <2>5 DEF Placed
  <2> HIDE DEF p
  <2> QED BY <1>1, <1>2, <2>4, <2>5, <2>6, OthersPlaced
<1> QED BY <1>3, <1>4 DEF HeaderRead

LEMMA ReceiveBodyPlaced ==
  ASSUME OneSender, TypeInv, Placing, NEW n, NEW m, << n, m >> \in Pairs, ReceiveBody(n, m)
  PROVE  Placing'
<1> DEFINE p == << n, m >>
           r == reads[p]
<1>1. n \in Nodes /\ p[1] = n /\ p[2] = m /\ p \in Pairs
  BY LinksTyped
<1>2. /\ r.at = "body" /\ reads' = [reads EXCEPT ![p].got = @ + 1]
      /\ \/ UNCHANGED temp
         \/ /\ Len(temp[n].body) = r.want
            /\ temp' = [temp EXCEPT ![n].body[r.got + 1] = Head(wire[<< m, n >>])]
  BY DEF ReceiveBody
<1>3. reads \in [Pairs -> ReadOf] /\ temp \in [Nodes -> Temp]
  BY DEF TypeInv, ReadTypes
<1>4. reads'[p].want = r.want /\ \A q \in Pairs : q # p => reads'[q] = reads[q]
  <2> HIDE DEF p
  <2> QED BY <1>1, <1>2, <1>3 DEF ReadOf, Read
<1>5. \A k \in Nodes : k # n => temp'[k] = temp[k]
  BY <1>2, <1>3
<1>6. Len(temp'[n].body) = Len(temp[n].body)
  <2>1. CASE UNCHANGED temp
    BY <2>1
  <2>2. CASE temp' = [temp EXCEPT ![n].body[r.got + 1] = Head(wire[<< m, n >>])]
    <3>1. temp[n] \in Temp /\ temp'[n].body = [temp[n].body EXCEPT ![r.got + 1] = Head(wire[<< m, n >>])]
      BY <1>1, <1>3, <2>2 DEF Temp
    <3>2. PICK b \in Seq(Bytes) : b = temp[n].body
      BY <3>1 DEF Temp
    <3>3. \A x, y : DOMAIN [b EXCEPT ![x] = y] = DOMAIN b
      OBVIOUS
    <3>4. DOMAIN temp'[n].body = DOMAIN temp[n].body
      BY <3>1, <3>2, <3>3
    <3>5. temp'[n].body \in Seq(Bytes) /\ temp[n].body \in Seq(Bytes)
      <4>1. TypeInv'
        BY ReceiveBodyTypes
      <4> QED BY <1>1, <3>1, <4>1 DEF TypeInv, ReadTypes, Temp
    <3>6. PICK c \in Seq(Bytes) : c = temp'[n].body
      BY <3>5
    <3>7. Len(b) \in Nat /\ Len(c) \in Nat /\ 1..Len(b) = 1..Len(c)
      BY <3>2, <3>4, <3>6, LenProperties
    <3>8. \A x, y \in Nat : 1..x = 1..y => x = y
      <4> SUFFICES ASSUME NEW x \in Nat, NEW y \in Nat, 1..x = 1..y PROVE x = y
        OBVIOUS
      <4>1. (x # 0 => x \in 1..y) /\ (y # 0 => y \in 1..x)
        OBVIOUS
      <4> QED BY <4>1
    <3> QED BY <3>2, <3>6, <3>7, <3>8
  <2> QED BY <1>2, <2>1, <2>2
<1>7. Placed(p)
  BY <1>1 DEF Placing
<1>8. Placed(p)'
  <2> HIDE DEF p
  <2> QED BY <1>1, <1>2, <1>4, <1>6, <1>7 DEF Placed
<1> HIDE DEF p
<1> QED BY <1>1, <1>2, <1>4, <1>5, <1>8, OthersPlaced DEF InMessage

LEMMA PlacingStep == ASSUME OneSender PROVE TypeInv /\ Placing /\ [Next]_vars => Placing'
<1> SUFFICES ASSUME TypeInv, Placing, [Next]_vars PROVE Placing'
  OBVIOUS
<1>1. CASE UNCHANGED << temp, reads >>
  BY <1>1 DEF Placing, Placed
<1>2. ASSUME NEW p \in Pairs, ReadStep(p[1], p[2]) PROVE Placing'
  <2>1. PICK n, m : n = p[1] /\ m = p[2]
    OBVIOUS
  <2>2. << n, m >> \in Pairs /\ n \in Nodes
    BY <2>1, LinksTyped
  <2>3. reads \in [Pairs -> ReadOf] /\ temp \in [Nodes -> Temp]
    BY DEF TypeInv, ReadTypes
  <2>4. CASE ReceiveHeader(n, m)
    <3>1. /\ reads[<< n, m >>].at = "header"
          /\ reads' = [reads EXCEPT ![<< n, m >>].got = 1]
          /\ \E h : temp' = [temp EXCEPT ![n].header = h]
      BY <2>4 DEF ReceiveHeader
    <3>2. \A q \in Pairs : reads'[q].at = reads[q].at /\ reads'[q].want = reads[q].want
      BY <2>2, <2>3, <3>1 DEF ReadOf, Read
    <3>3. \A k \in Nodes : temp'[k].body = temp[k].body
      BY <2>2, <2>3, <3>1 DEF Temp
    <3>4. ASSUME NEW q \in Pairs PROVE Placed(q)'
      <4>1. temp'[q[1]].body = temp[q[1]].body
        BY <3>3, LinksTyped
      <4> QED BY <3>2, <4>1 DEF Placing, Placed
    <3> QED BY <3>4 DEF Placing
  <2>5. CASE HeaderRead(n, m)
    BY <2>2, <2>5, HeaderReadPlaced
  <2>6. CASE ReceiveBody(n, m)
    BY <2>2, <2>6, ReceiveBodyPlaced
  <2>7. CASE BodyRead(n, m)
    BY <2>2, <2>7, AddToIncomingPlaced DEF BodyRead, InMessage
  <2>8. CASE ReadFailed(n, m)
    <3>1. temp' = temp /\ reads' = [reads EXCEPT ![<< n, m >>] = Closed]
      BY <2>8 DEF ReadFailed
    <3>2. \A q \in Pairs : reads'[q] = reads[q] \/ reads'[q].at # "body"
      BY <2>3, <3>1, ReadsMade
    <3> QED BY <3>1, <3>2 DEF Placing, Placed
  <2> QED BY <1>2, <2>1, <2>4, <2>5, <2>6, <2>7, <2>8 DEF ReadStep
<1>3. CASE \E l \in Links : PushMessage(l) \/ Break(l)
  BY <1>1, <1>3 DEF PushMessage, Break, readVars
<1>4. CASE \E n \in Nodes : WriteStep(n)
  <2>1. PICK n \in Nodes : WriteStep(n)
    BY <1>4
  <2>2. Cycle(n) \/ \E i \in DOMAIN writes[n] : WritePiece(n, i) \/ Written(n, i) \/ WriteFailed(n, i)
    BY <2>1 DEF WriteStep
  <2>3. UNCHANGED readVars
    <3>1. ASSUME NEW i, WritePiece(n, i) PROVE UNCHANGED readVars
      BY <3>1 DEF WritePiece
    <3>2. ASSUME NEW i, Written(n, i) PROVE UNCHANGED readVars
      BY <3>2 DEF Written
    <3>3. ASSUME NEW i, WriteFailed(n, i) PROVE UNCHANGED readVars
      BY <3>3 DEF WriteFailed
    <3>4. ASSUME Cycle(n) PROVE UNCHANGED readVars
      BY <3>4 DEF Cycle
    <3> QED BY <2>2, <3>1, <3>2, <3>3, <3>4
  <2> QED BY <1>1, <2>3 DEF readVars
<1> QED BY <1>1, <1>2, <1>3, <1>4 DEF Next, vars, readVars

---------------------------------------------------------------------------
(* The pieces of a link, in their order. *)

At(l, k, part) == [msg |-> [to |-> l[2], k |-> k], part |-> part]
After(x) == IF x.part < Size[x.msg.k]
            THEN [msg |-> x.msg, part |-> x.part + 1]
            ELSE [msg |-> [to |-> x.msg.to, k |-> x.msg.k + 1], part |-> 0]

Reading(l) == reads[<< l[2], l[1] >>]
Turn(l)    == Len(ReceivedOn(l)) + 1
\* The piece that the receiver of a link needs next, and the one after those
\* that are under way.
Wanted(l) == IF Reading(l).at = "header" /\ Reading(l).got = 0 THEN At(l, Turn(l), 0)
             ELSE After(At(l, Turn(l), IF Reading(l).at = "header" THEN 0 ELSE Reading(l).got))
ToCome(l) == IF wire[l] = << >> THEN Wanted(l) ELSE After(wire[l][Len(wire[l])])

\* What is under way is in its order, ...
UnderWay(l) ==
    /\ wire[l] # << >> => wire[l][1] = Wanted(l)
    /\ \A i \in 1..Len(wire[l]) - 1 : wire[l][i + 1] = After(wire[l][i])
    /\ \A i \in 1..Len(wire[l]) : wire[l][i].msg.k <= pushed[l]
\* ... temp_msg is what has been read of a message, ...
PartlyRead(l) ==
    LET t == temp[l[2]]
        r == Reading(l)
    IN  /\ r.at = "header" => t.body = << >>
        /\ r.at = "header" /\ r.got = 1 => t.header = [piece |-> At(l, Turn(l), 0), size |-> Size[Turn(l)]]
        /\ r.at = "body" => /\ t.header.piece = At(l, Turn(l), 0)
                            /\ r.want = Size[Turn(l)] /\ Len(t.body) = r.want
                            /\ \A i \in 1..r.got : t.body[i] = At(l, Turn(l), i)
        /\ r.at = "body" \/ r.got = 1 => Turn(l) <= pushed[l]
\* ... and of the messages for a peer, those from the d-th on are in out_msgs,
\* of which the d-th may be partly written.
InQueue(q, l, k) == \E i \in 1..Len(q) : q[i] = [to |-> l[2], k |-> k]
Pending(q, l, d) == /\ d \in 1..pushed[l] + 1
                    /\ \A k \in 1..MaxPushed : InQueue(q, l, k) <=> d <= k /\ k <= pushed[l]
Writing(l) == writes[l[1]] # << >> /\ writes[l[1]][1].to = l[2]
Left(l, w) == IF w.part = "header" /\ w.left = 1 THEN At(l, w.msg.k, 0)
              ELSE After(At(l, w.msg.k, IF w.part = "header" THEN 0 ELSE Size[w.msg.k] - w.left))
UnsentFrom(l, d) ==
    /\ Pending(out[l[1]], l, d)
    /\ IF Writing(l) THEN writes[l[1]][1].msg.k = d /\ ToCome(l) = Left(l, writes[l[1]][1])
       ELSE ToCome(l) = At(l, d, 0)
Unsent(l) == \E d \in 1..MaxPushed + 1 : UnsentFrom(l, d)

\* out_msgs has the messages for a peer in their order, and its front is what
\* is being written.
InOrder(q, n) ==
    /\ \A i \in 1..Len(q) : q[i].k <= pushed[<< n, q[i].to >>]
    /\ \A i, j \in 1..Len(q) : i < j /\ q[i].to = q[j].to => q[i].k < q[j].k
AtFront(n) ==
    writes[n] # << >> => /\ Len(writes[n]) = 1 /\ out[n] # << >>
                         /\ writes[n][1].msg = out[n][1] /\ writes[n][1].to = out[n][1].to
Queued(n) == InOrder(out[n], n) /\ AtFront(n)

Open(l) == Reading(l).at # "closed"
Link(l) == Open(l) => /\ UnderWay(l) /\ PartlyRead(l)
                      /\ l[2] \in peers[l[1]] => Unsent(l)
PumpInv == ~crashed => (\A n \in Nodes : Queued(n)) /\ (\A l \in Links : Link(l))

LEMMA AfterAt ==
  ASSUME NEW l, NEW k, NEW part
  PROVE  /\ part < Size[k] => After(At(l, k, part)) = At(l, k, part + 1)
         /\ ~(part < Size[k]) => After(At(l, k, part)) = At(l, k + 1, 0)
BY DEF After, At

LEMMA LinkTypes ==
  ASSUME TypeInv, NEW l \in Links
  PROVE  /\ l = << l[1], l[2] >> /\ l[1] \in Nodes /\ l[2] \in Nodes /\ l[1] # l[2]
         /\ l \in Pairs /\ << l[2], l[1] >> \in Pairs
         /\ Reading(l) \in ReadOf /\ Reading(l).got \in Nat /\ Reading(l).want \in Nat
         /\ Reading(l).got <= Reading(l).want
         /\ temp[l[2]] \in Temp /\ ReceivedOn(l) \in Seq(Received) /\ Turn(l) \in Nat \ {0}
         /\ pushed[l] \in 0..MaxPushed /\ MaxPushed \in Nat
         /\ wire[l] \in Seq(Piece)
<1>1. /\ l = << l[1], l[2] >> /\ l[1] \in Nodes /\ l[2] \in Nodes /\ l[1] # l[2]
      /\ l \in Pairs /\ << l[2], l[1] >> \in Pairs
  BY LinksTyped
<1> DEFINE p == << l[2], l[1] >>
<1>2. p[1] = l[2]
  OBVIOUS
<1>3. /\ reads[p] \in ReadOf /\ reads[p].want \in Nat /\ reads[p].got \in Nat
      /\ reads[p].got <= reads[p].want
      /\ temp[p[1]] \in Temp /\ in[p] \in Seq(Received)
  <2> HIDE DEF p
  <2> QED BY <1>1, ReadAt DEF p
<1>4. Turn(l) \in Nat \ {0} /\ ReceivedOn(l) \in Seq(Received)
  <2>1. Len(in[p]) \in Nat
    BY <1>3, LenProperties
  <2> QED BY <1>3, <2>1 DEF Turn, ReceivedOn
<1>5. pushed[l] \in 0..MaxPushed /\ MaxPushed \in Nat /\ wire[l] \in Seq(Piece)
  BY <1>1, Sizes DEF TypeInv, RestTypes, WireTypes
<1> QED BY <1>1, <1>2, <1>3, <1>4, <1>5 DEF Reading

LEMMA PushedNat ==
  ASSUME TypeInv, NEW l \in Links
  PROVE  pushed[l] \in Nat /\ MaxPushed \in Nat /\ pushed[l] <= MaxPushed /\ Turn(l) \in Nat
<1>1. pushed[l] \in 0..MaxPushed /\ MaxPushed \in Nat
  BY Sizes DEF TypeInv, RestTypes
<1>2. Turn(l) \in Nat
  BY LinkTypes
<1> QED BY <1>1, <1>2

---------------------------------------------------------------------------
(* The sending side. *)

\* What only concerns the sending side leaves the receiving side alone.
LEMMA ReceiverKept ==
  ASSUME TypeInv, TypeInv', NEW l \in Links, UNCHANGED << wire, temp, reads, in >>, pushed[l] <= pushed'[l]
  PROVE  /\ ToCome(l)' = ToCome(l) /\ Open(l)' = Open(l)
         /\ UnderWay(l) => UnderWay(l)'
         /\ PartlyRead(l) => PartlyRead(l)'
<1>1. Reading(l)' = Reading(l) /\ Turn(l)' = Turn(l)
  BY DEF Reading, Turn, ReceivedOn
<1>2. Wanted(l)' = Wanted(l)
  BY <1>1 DEF Wanted
<1>3. ToCome(l)' = ToCome(l) /\ Open(l)' = Open(l)
  BY <1>1, <1>2 DEF ToCome, Open
<1>4. Turn(l) \in Nat /\ pushed[l] \in Nat /\ pushed'[l] \in Nat
  <2>1. pushed'[l] \in 0..MaxPushed
    BY DEF TypeInv, RestTypes
  <2> QED BY <2>1, PushedNat
<1>5. ASSUME UnderWay(l) PROVE UnderWay(l)'
  <2>1. \A i \in 1..Len(wire[l]) : wire[l][i].msg.k \in Nat
    <3>1. \A i \in 1..Len(wire[l]) : wire[l][i] \in Piece
      BY LinkTypes, ElementOfSeq
    <3> QED BY <3>1, Sizes DEF Piece, OutMessage
  <2>2. ASSUME NEW i \in 1..Len(wire[l]) PROVE wire[l][i].msg.k <= pushed'[l]
    <3>1. PICK k \in Nat : k = wire[l][i].msg.k
      BY <2>1
    <3>2. k <= pushed[l]
      BY <1>5, <3>1 DEF UnderWay
    <3> QED BY <1>4, <3>1, <3>2
  <2> QED BY <1>2, <1>5, <2>2 DEF UnderWay
<1>6. ASSUME PartlyRead(l) PROVE PartlyRead(l)'
  BY <1>1, <1>4, <1>6 DEF PartlyRead
<1> QED BY <1>3, <1>5, <1>6

\* What start_writing keeps of a queue is in order, and has the messages for
\* the peers that are known.
LEMMA RestOf ==
  ASSUME TypeInv, NEW n \in Nodes, NEW q \in Seq(OutOf(n)), InOrder(q, n),
         NEW rest \in Seq(OutOf(n)), NEW ws, NEW gone, NEW c, Started(n, q, ws, rest, gone, c)
  PROVE  /\ InOrder(rest, n)
         /\ \A l \in Links : l[1] = n /\ l[2] \in peers[n] \ gone =>
              \A k : InQueue(rest, l, k) <=> InQueue(q, l, k)
<1>1. PICK a \in Nat, b \in Nat : a = Len(q) /\ b = Len(rest)
  BY LenProperties
<1>2. c \in 0..a /\ b = a - c /\ (\A i \in 1..b : rest[i] = q[c + i])
      /\ (\A i \in 1..c : q[i].to \notin peers[n] \ gone)
  BY <1>1 DEF Started
<1>3. \A i \in 1..b : c + i \in 1..a
  BY <1>2
<1>4. InOrder(rest, n)
  <2>1. ASSUME NEW i \in 1..b PROVE rest[i].k <= pushed[<< n, rest[i].to >>]
    BY <1>1, <1>2, <1>3 DEF InOrder
  <2>2. ASSUME NEW i \in 1..b, NEW j \in 1..b, i < j, rest[i].to = rest[j].to
        PROVE  rest[i].k < rest[j].k
    <3>1. c + i < c + j
      BY <1>2, <2>2
    <3> QED BY <1>1, <1>2, <1>3, <2>2, <3>1 DEF InOrder
  <2> QED BY <1>1, <2>1, <2>2 DEF InOrder
<1>5. ASSUME NEW l \in Links, l[1] = n, l[2] \in peers[n] \ gone, NEW k
      PROVE  InQueue(rest, l, k) <=> InQueue(q, l, k)
  <2>1. ASSUME InQueue(rest, l, k) PROVE InQueue(q, l, k)
    BY <1>1, <1>2, <1>3, <2>1 DEF InQueue
  <2>2. ASSUME NEW i \in 1..a, q[i] = [to |-> l[2], k |-> k] PROVE \E j \in 1..b : rest[j] = q[i]
    <3>1. ~(i \in 1..c)
      BY <1>2, <1>5, <2>2
    <3>2. i - c \in 1..b /\ c + (i - c) = i
      BY <1>2, <3>1
    <3> QED BY <1>2, <3>2
  <2>3. ASSUME InQueue(q, l, k) PROVE InQueue(rest, l, k)
    BY <1>1, <2>2, <2>3 DEF InQueue
  <2> QED BY <2>1, <2>3
<1> QED BY <1>4, <1>5

\* The first message for a peer is the one that its link has come to.
LEMMA FrontIsNext ==
  ASSUME TypeInv, NEW l \in Links, NEW n, n = l[1], NEW q \in Seq(OutOf(n)), q # << >>, InOrder(q, n),
         q[1].to = l[2], NEW d, Pending(q, l, d)
  PROVE  q[1].k = d /\ q[1] = [to |-> l[2], k |-> d] /\ d \in 1..pushed[l]
<1>1. PICK P \in Nat, M \in Nat : P = pushed[l] /\ P <= M /\ M = MaxPushed
  BY PushedNat
<1>2. PICK a \in Nat \ {0} : a = Len(q)
  BY EmptySeq
<1>3. \A i \in 1..a : q[i] \in OutOf(n)
  BY <1>2, ElementOfSeq
<1>4. q[1] \in OutMessage /\ q[1] = [to |-> l[2], k |-> q[1].k] /\ q[1].k \in 1..M
  <2>1. q[1] \in OutOf(n)
    BY <1>2, <1>3
  <2> QED BY <1>1, <2>1 DEF OutOf, OutMessage
<1>5. PICK k \in 1..M : k = q[1].k
  BY <1>4
<1>6. InQueue(q, l, k)
  BY <1>2, <1>4, <1>5 DEF InQueue
<1>7. d \in 1..P+1 /\ \A x \in 1..M : InQueue(q, l, x) <=> d <= x /\ x <= P
  BY <1>1 DEF Pending
<1>8. d <= k /\ k <= P
  BY <1>6, <1>7
<1>9. d \in 1..M /\ InQueue(q, l, d)
  BY <1>1, <1>7, <1>8
<1>10. PICK j \in 1..a : q[j] = [to |-> l[2], k |-> d]
  BY <1>2, <1>9 DEF InQueue
<1>11. j # 1 => k < d
  BY <1>2, <1>5, <1>10 DEF InOrder
<1>12. k = d
  BY <1>5, <1>7, <1>8, <1>10, <1>11
<1> QED BY <1>1, <1>4, <1>5, <1>7, <1>8, <1>12

\* After start_writing, when nothing was being written.
LEMMA StartedOrder ==
  ASSUME TypeInv, TypeInv', NEW n \in Nodes, NEW q \in Seq(OutOf(n)), InOrder(q, n), NEW forgotten,
         StartWriting(n, q, << >>, forgotten), UNCHANGED << pushed, wire, readVars >>,
         \A l \in Links : l[1] = n /\ Open(l) /\ l[2] \in peers[n] \ forgotten =>
            \E d \in 1..MaxPushed + 1 : Pending(q, l, d) /\ ToCome(l) = At(l, d, 0)
  PROVE  /\ Queued(n)'
         /\ \A l \in Links : l[1] = n /\ Open(l) /\ l[2] \in peers'[n] => Unsent(l)'
<1>0. peers \in [Nodes -> SUBSET Nodes]
  BY DEF TypeInv, RestTypes
<1>1. PICK rest, gone, c : /\ rest \in Seq(OutOf(n)) /\ Started(n, q, << >>, rest, gone, c)
                           /\ forgotten \subseteq gone
  BY <1>0, StartWritingFacts
<1> DEFINE next == IF rest = << >> THEN << >> ELSE << WriteHeader(Head(rest)) >>
<1>2. /\ out' = [out EXCEPT ![n] = rest] /\ peers' = [peers EXCEPT ![n] = @ \ gone]
      /\ writes' = [writes EXCEPT ![n] = next]
      /\ rest # << >> => Head(rest).to \in peers[n] \ gone
  <2>1. Append(<< >>, WriteHeader(Head(rest))) = << WriteHeader(Head(rest)) >>
    OBVIOUS
  <2> QED BY <1>1, <2>1 DEF Started
<1>3. out'[n] = rest /\ peers'[n] = peers[n] \ gone /\ writes'[n] = next
  BY <1>0, <1>2 DEF TypeInv, OutTypes, WriteTypes
<1>4. InOrder(rest, n) /\ \A l \in Links : l[1] = n /\ l[2] \in peers[n] \ gone =>
              \A k : InQueue(rest, l, k) <=> InQueue(q, l, k)
  BY <1>1, RestOf
<1>5. InOrder(rest, n)' 
  BY <1>4 DEF InOrder
<1>6. rest # << >> =>
        /\ Len(next) = 1 /\ Head(rest) = rest[1] /\ next[1] = WriteHeader(rest[1])
        /\ next[1].msg = rest[1] /\ next[1].to = rest[1].to /\ next[1].part = "header" /\ next[1].left = 1
  BY DEF WriteHeader
<1>7. Queued(n)'
  <2>1. InOrder(out[n], n)'
    BY <1>3, <1>5 DEF InOrder
  <2>2. AtFront(n)'
    BY <1>3, <1>6 DEF AtFront
  <2> QED BY <2>1, <2>2 DEF Queued
<1>8. ASSUME NEW l \in Links, l[1] = n, Open(l), l[2] \in peers'[n] PROVE Unsent(l)'
  <2>1. l[2] \in peers[n] \ gone /\ l[2] \in peers[n] \ forgotten
    BY <1>1, <1>3, <1>8
  <2>2. PICK d \in 1..MaxPushed + 1 : Pending(q, l, d) /\ ToCome(l) = At(l, d, 0)
    BY <1>8, <2>1
  <2>3. Pending(rest, l, d)
    BY <1>4, <1>8, <2>1, <2>2 DEF Pending
  <2>4. Pending(out[n], l, d)'
    BY <1>3, <2>3 DEF Pending, InQueue
  <2>5. ToCome(l)' = At(l, d, 0)
    <3>1. pushed[l] <= pushed'[l]
      BY PushedNat
    <3>2. ToCome(l)' = ToCome(l)
      BY <3>1, ReceiverKept DEF readVars
    <3> QED BY <2>2, <3>2
  <2>6. CASE rest = << >> \/ rest[1].to # l[2]
    <3>1. ~Writing(l)'
      BY <1>3, <1>6, <1>8, <2>6 DEF Writing
    <3>2. UnsentFrom(l, d)'
      BY <1>8, <2>4, <2>5, <3>1 DEF UnsentFrom
    <3> QED BY <3>2 DEF Unsent
  <2>7. CASE rest # << >> /\ rest[1].to = l[2]
    <3>1. rest[1].k = d
      <4> HIDE DEF next
      <4>1. rest[1].k = d /\ rest[1] = [to |-> l[2], k |-> d] /\ d \in 1..pushed[l]
        <5>1. rest \in Seq(OutOf(n))
          BY <1>1
        <5> QED BY <1>4, <1>8, <2>3, <2>7, <5>1, FrontIsNext
      <4> QED BY <4>1
    <3>2. writes'[l[1]][1].msg.k = d /\ writes'[l[1]][1].part = "header" /\ writes'[l[1]][1].left = 1
      BY <1>3, <1>6, <1>8, <2>7, <3>1
    <3>3. At(l, writes'[l[1]][1].msg.k, 0) = At(l, d, 0)
      BY <3>2
    <3>4. Left(l, writes[l[1]][1])' = At(l, d, 0)
      BY <3>2, <3>3 DEF Left
    <3>5. UnsentFrom(l, d)'
      BY <1>8, <2>4, <2>5, <3>2, <3>4 DEF UnsentFrom
    <3> QED BY <3>5 DEF Unsent
  <2> QED BY <2>6, <2>7
<1> QED BY <1>7, <1>8

\* A link is in order when the receiving side has not moved and its messages
\* are accounted for.
LEMMA LinkKept ==
  ASSUME TypeInv, TypeInv', NEW l \in Links, UNCHANGED << wire, temp, reads, in >>, pushed[l] <= pushed'[l],
         Link(l), Open(l) /\ l[2] \in peers'[l[1]] => Unsent(l)'
  PROVE  Link(l)'
<1>1. /\ Open(l)' = Open(l)
      /\ UnderWay(l) => UnderWay(l)'
      /\ PartlyRead(l) => PartlyRead(l)'
  BY ReceiverKept
<1> QED BY <1>1 DEF Link

LEMMA StartOrder ==
  ASSUME TypeInv, TypeInv', PumpInv, ~crashed,
         NEW n \in Nodes, NEW q \in Seq(OutOf(n)), InOrder(q, n), NEW forgotten,
         StartWriting(n, q, << >>, forgotten), UNCHANGED << pushed, wire, readVars >>,
         \A l \in Links : l[1] = n /\ Open(l) /\ l[2] \in peers[n] \ forgotten =>
            \E d \in 1..MaxPushed + 1 : Pending(q, l, d) /\ ToCome(l) = At(l, d, 0)
  PROVE  PumpInv'
<1>1. Queued(n)' /\ \A l \in Links : l[1] = n /\ Open(l) /\ l[2] \in peers'[n] => Unsent(l)'
  BY StartedOrder
<1>2. ASSUME NEW m \in Nodes, m # n
      PROVE  out'[m] = out[m] /\ writes'[m] = writes[m] /\ peers'[m] = peers[m]
  <2>1. peers \in [Nodes -> SUBSET Nodes] /\ out \in [Nodes -> Seq(OutMessage)] /\ writes \in [Nodes -> Seq(Write)]
    BY DEF TypeInv, RestTypes, OutTypes, WriteTypes
  <2>2. PICK rest, ws, gone : /\ out' = [out EXCEPT ![n] = rest] /\ writes' = [writes EXCEPT ![n] = ws]
                              /\ peers' = [peers EXCEPT ![n] = @ \ gone]
    <3>1. PICK rest, gone, c : rest \in Seq(OutOf(n)) /\ Started(n, q, << >>, rest, gone, c)
      BY <2>1, StartWritingFacts
    <3> QED BY <3>1 DEF Started
  <2> QED BY <1>2, <2>1, <2>2
<1>3. ASSUME NEW m \in Nodes PROVE Queued(m)'
  <2>1. CASE m = n
    BY <1>1, <2>1
  <2>2. CASE m # n
    <3>1. out'[m] = out[m] /\ writes'[m] = writes[m]
      BY <1>2, <2>2
    <3>2. InOrder(out[m], m) /\ AtFront(m)
      BY DEF PumpInv, Queued
    <3>3. InOrder(out[m], m)'
      BY <3>1, <3>2 DEF InOrder
    <3>4. AtFront(m)'
      BY <3>1, <3>2 DEF AtFront
    <3> QED BY <3>3, <3>4 DEF Queued
  <2> QED BY <2>1, <2>2
<1>4. ASSUME NEW l \in Links PROVE Link(l)'
  <2>1. Open(l) /\ l[2] \in peers'[l[1]] => Unsent(l)'
    <3>1. CASE l[1] = n
      BY <1>1, <3>1
    <3>2. CASE l[1] # n
      <4>1. l[1] \in Nodes
        BY LinksTyped
      <4>2. out'[l[1]] = out[l[1]] /\ writes'[l[1]] = writes[l[1]] /\ peers'[l[1]] = peers[l[1]]
        BY <1>2, <3>2, <4>1
      <4>3. ToCome(l)' = ToCome(l)
        <5>1. pushed[l] <= pushed'[l]
          BY PushedNat
        <5> QED BY <5>1, ReceiverKept DEF readVars
      <4>4. Writing(l)' = Writing(l) /\ Left(l, writes[l[1]][1])' = Left(l, writes[l[1]][1])
        BY <4>2 DEF Writing, Left
      <4>5. ASSUME NEW d, UnsentFrom(l, d) PROVE UnsentFrom(l, d)'
        <5>1. Pending(out[l[1]], l, d)'
          BY <4>2, <4>5 DEF UnsentFrom, Pending, InQueue
        <5> QED BY <4>2, <4>3, <4>4, <4>5, <5>1 DEF UnsentFrom
      <4> QED BY <4>2, <4>5 DEF PumpInv, Link, Unsent
    <3> QED BY <3>1, <3>2
  <2>2. pushed[l] <= pushed'[l]
    BY PushedNat
  <2> QED BY <2>1, <2>2, LinkKept DEF PumpInv, readVars
<1> QED BY <1>3, <1>4 DEF PumpInv

LEMMA CycleOrder ==
  ASSUME Prompt, TypeInv, TypeInv', PumpInv, NEW n \in Nodes, Cycle(n)
  PROVE  PumpInv'
<1>1. ~crashed /\ writes[n] = << >> /\ StartWriting(n, out[n], << >>, {})
      /\ UNCHANGED << pushed, wire, readVars >>
  BY DEF Cycle
<1>2. out[n] \in Seq(OutOf(n)) /\ InOrder(out[n], n)
  BY <1>1 DEF TypeInv, OutTypes, PumpInv, Queued
<1>3. ASSUME NEW l \in Links, l[1] = n, Open(l), l[2] \in peers[n]
      PROVE  \E d \in 1..MaxPushed + 1 : Pending(out[n], l, d) /\ ToCome(l) = At(l, d, 0)
  BY <1>1, <1>3 DEF PumpInv, Link, Unsent, UnsentFrom, Writing
<1> QED BY <1>1, <1>2, <1>3, StartOrder

\* Without the front of out_msgs.
LEMMA TailPending ==
  ASSUME TypeInv, NEW l \in Links, NEW n, n = l[1], NEW q \in Seq(OutOf(n)), q # << >>, InOrder(q, n),
         NEW d \in 1..MaxPushed + 1, Pending(q, l, d)
  PROVE  /\ q[1].to # l[2] => Pending(Tail(q), l, d)
         /\ q[1].to = l[2] => d + 1 \in 1..MaxPushed + 1 /\ Pending(Tail(q), l, d + 1)
<1>1. PICK P \in Nat, M \in Nat : P = pushed[l] /\ P <= M /\ M = MaxPushed
  BY PushedNat
<1>2. PICK a \in Nat \ {0} : a = Len(q)
  BY EmptySeq
<1>3. Len(Tail(q)) = a - 1 /\ \A i \in 1..a - 1 : Tail(q)[i] = q[i + 1]
  BY <1>2, HeadTailProperties
<1>4. d \in 1..P + 1 /\ \A k \in 1..M : InQueue(q, l, k) <=> d <= k /\ k <= P
  BY <1>1 DEF Pending
<1>5. ASSUME NEW k PROVE InQueue(q, l, k) <=> q[1] = [to |-> l[2], k |-> k] \/ InQueue(Tail(q), l, k)
  <2>1. ASSUME InQueue(Tail(q), l, k) PROVE InQueue(q, l, k)
    <3>1. PICK i \in 1..a - 1 : q[i + 1] = [to |-> l[2], k |-> k]
      BY <1>2, <1>3, <2>1 DEF InQueue
    <3>2. i + 1 \in 1..a
      BY <1>2
    <3> QED BY <1>2, <3>1, <3>2 DEF InQueue
  <2>2. ASSUME NEW i \in 1..a, q[i] = [to |-> l[2], k |-> k], i # 1 PROVE InQueue(Tail(q), l, k)
    <3>1. i - 1 \in 1..a - 1 /\ (i - 1) + 1 = i
      BY <1>2, <2>2
    <3>2. Tail(q)[i - 1] = [to |-> l[2], k |-> k]
      BY <1>3, <2>2, <3>1
    <3> QED BY <1>3, <3>1, <3>2 DEF InQueue
  <2>3. q[1] = [to |-> l[2], k |-> k] => InQueue(q, l, k)
    BY <1>2 DEF InQueue
  <2>4. InQueue(q, l, k) => \E i \in 1..a : q[i] = [to |-> l[2], k |-> k]
    BY <1>2 DEF InQueue
  <2> QED BY <2>1, <2>2, <2>3, <2>4
<1>6. CASE q[1].to # l[2]
  <2>1. \A k : q[1] # [to |-> l[2], k |-> k]
    BY <1>6
  <2>2. \A k \in 1..M : InQueue(Tail(q), l, k) <=> d <= k /\ k <= P
    BY <1>4, <1>5, <2>1
  <2> QED BY <1>1, <1>4, <1>6, <2>2 DEF Pending
<1>7. CASE q[1].to = l[2]
  <2>1. q[1].k = d /\ q[1] = [to |-> l[2], k |-> d] /\ d \in 1..pushed[l]
    BY <1>7, FrontIsNext
  <2>2. d \in 1..P
    BY <1>1, <2>1
  <2>3. ~InQueue(Tail(q), l, d)
    <3> SUFFICES ASSUME NEW i \in 1..a - 1, q[i + 1] = [to |-> l[2], k |-> d] PROVE FALSE
      BY <1>2, <1>3 DEF InQueue
    <3>1. i + 1 \in 1..a /\ 1 \in 1..a /\ 1 < i + 1
      BY <1>2
    <3>2. q[1].k < q[i + 1].k
      BY <1>2, <1>7, <3>1 DEF InOrder
    <3> QED BY <2>1, <2>2, <3>2
  <2>4. \A k \in 1..M : k # d => q[1] # [to |-> l[2], k |-> k]
    BY <2>1
  <2>5. ASSUME NEW k \in 1..M PROVE InQueue(Tail(q), l, k) <=> d + 1 <= k /\ k <= P
    <3>1. CASE k = d
      BY <2>2, <2>3, <3>1
    <3>2. CASE k # d
      <4>1. InQueue(Tail(q), l, k) <=> d <= k /\ k <= P
        BY <1>4, <1>5, <2>4, <3>2
      <4> QED BY <2>2, <3>2, <4>1
    <3> QED BY <3>1, <3>2
  <2>6. d + 1 \in 1..P + 1 /\ d + 1 \in 1..M + 1
    BY <1>1, <2>2
  <2> QED BY <1>1, <1>7, <2>5, <2>6 DEF Pending
<1> QED BY <1>6, <1>7

LEMMA TailOrder ==
  ASSUME NEW n \in Nodes, NEW q \in Seq(OutOf(n)), q # << >>, InOrder(q, n)
  PROVE  Tail(q) \in Seq(OutOf(n)) /\ InOrder(Tail(q), n)
<1>1. PICK a \in Nat \ {0} : a = Len(q)
  BY EmptySeq
<1>2. Tail(q) \in Seq(OutOf(n)) /\ Len(Tail(q)) = a - 1 /\ \A i \in 1..a - 1 : Tail(q)[i] = q[i + 1]
  BY <1>1, HeadTailProperties
<1>3. \A i \in 1..a - 1 : i + 1 \in 1..a
  BY <1>1
<1>4. \A i \in 1..a - 1 : Tail(q)[i].k <= pushed[<< n, Tail(q)[i].to >>]
  BY <1>1, <1>2, <1>3 DEF InOrder
<1>5. ASSUME NEW i \in 1..a - 1, NEW j \in 1..a - 1, i < j, Tail(q)[i].to = Tail(q)[j].to
      PROVE  Tail(q)[i].k < Tail(q)[j].k
  <2>1. i + 1 < j + 1
    BY <1>5
  <2> QED BY <1>1, <1>2, <1>3, <1>5, <2>1 DEF InOrder
<1> QED BY <1>2, <1>4, <1>5 DEF InOrder

\* The one write of a node is that of the front of out_msgs.
LEMMA FrontWritten ==
  ASSUME TypeInv, PumpInv, ~crashed, NEW n \in Nodes, NEW i \in DOMAIN writes[n]
  PROVE  /\ i = 1 /\ Len(writes[n]) = 1 /\ writes[n] # << >> /\ out[n] # << >>
         /\ out[n] \in Seq(OutOf(n)) /\ InOrder(out[n], n) /\ out[n][1] \in OutOf(n) /\ Head(out[n]) = out[n][1]
         /\ writes[n][1].msg = out[n][1] /\ writes[n][1].to = out[n][1].to /\ writes[n][1] \in WriteOf(n)
         /\ RemoveAt(writes[n], i) = << >>
         /\ out[n][1] = [to |-> out[n][1].to, k |-> out[n][1].k]
         /\ out[n][1].k \in 1..MaxPushed /\ Size[out[n][1].k] \in Nat
<1>1. writes[n] \in Seq(WriteOf(n)) /\ out[n] \in Seq(OutOf(n))
  BY DEF TypeInv, WriteTypes, OutTypes
<1>2. i \in 1..Len(writes[n]) /\ writes[n] # << >>
  BY <1>1, LenProperties, EmptySeq
<1>3. /\ InOrder(out[n], n) /\ Len(writes[n]) = 1 /\ out[n] # << >>
      /\ writes[n][1].msg = out[n][1] /\ writes[n][1].to = out[n][1].to
  BY <1>2 DEF PumpInv, Queued, AtFront
<1>4. i = 1
  BY <1>2, <1>3
<1>5. Head(out[n]) \in OutOf(n) /\ Head(out[n]) = out[n][1]
  BY <1>1, <1>3, HeadTailProperties
<1>6. out[n][1] \in OutMessage
  BY <1>5 DEF OutOf
<1>7. out[n][1] = [to |-> out[n][1].to, k |-> out[n][1].k] /\ out[n][1].k \in 1..MaxPushed
  BY <1>6 DEF OutMessage
<1>8. Size[out[n][1].k] \in Nat
  BY <1>7, Sizes
<1>9. RemoveAt(writes[n], i) = << >>
  BY <1>1, <1>2, <1>3, RemoveAtFirst
<1>10. writes[n][1] \in WriteOf(n)
  BY <1>1, <1>2, <1>4, ElementOfSeq
<1> QED BY <1>1, <1>2, <1>3, <1>4, <1>5, <1>7, <1>8, <1>9, <1>10

\* For another peer nothing has been written of its next message.
LEMMA OtherPeer ==
  ASSUME TypeInv, PumpInv, ~crashed, NEW n \in Nodes, NEW i \in DOMAIN writes[n],
         NEW l \in Links, l[1] = n, Open(l), l[2] \in peers[n], l[2] # out[n][1].to
  PROVE  \E d \in 1..MaxPushed + 1 : Pending(Tail(out[n]), l, d) /\ ToCome(l) = At(l, d, 0)
<1>1. /\ out[n] # << >> /\ out[n] \in Seq(OutOf(n)) /\ InOrder(out[n], n)
      /\ writes[n][1].to = out[n][1].to
  BY FrontWritten
<1>2. PICK d \in 1..MaxPushed + 1 : Pending(out[n], l, d) /\ ToCome(l) = At(l, d, 0)
  BY <1>1 DEF PumpInv, Link, Unsent, UnsentFrom, Writing
<1>3. Pending(Tail(out[n]), l, d)
  BY <1>1, <1>2, TailPending
<1> QED BY <1>2, <1>3

LEMMA WriteFailedOrder ==
  ASSUME TypeInv, TypeInv', PumpInv, NEW n \in Nodes, NEW i \in DOMAIN writes[n], WriteFailed(n, i)
  PROVE  PumpInv'
<1>1. ~crashed /\ UNCHANGED << pushed, wire, readVars >>
  BY DEF WriteFailed
<1>2. /\ out[n] # << >> /\ out[n] \in Seq(OutOf(n)) /\ InOrder(out[n], n) /\ Head(out[n]) = out[n][1]
      /\ RemoveAt(writes[n], i) = << >>
  BY <1>1, FrontWritten
<1>3. StartWriting(n, Tail(out[n]), << >>, {out[n][1].to})
  BY <1>2 DEF WriteFailed
<1>4. Tail(out[n]) \in Seq(OutOf(n)) /\ InOrder(Tail(out[n]), n)
  BY <1>2, TailOrder
<1>5. ASSUME NEW l \in Links, l[1] = n, Open(l), l[2] \in peers[n] \ {out[n][1].to}
      PROVE  \E d \in 1..MaxPushed + 1 : Pending(Tail(out[n]), l, d) /\ ToCome(l) = At(l, d, 0)
  BY <1>1, <1>5, OtherPeer
<1> DEFINE q == Tail(out[n])
<1> HIDE DEF q
<1>6. q \in Seq(OutOf(n)) /\ InOrder(q, n) /\ StartWriting(n, q, << >>, {out[n][1].to})
  BY <1>3, <1>4 DEF q
<1>7. ASSUME NEW l \in Links, l[1] = n, Open(l), l[2] \in peers[n] \ {out[n][1].to}
      PROVE  \E d \in 1..MaxPushed + 1 : Pending(q, l, d) /\ ToCome(l) = At(l, d, 0)
  BY <1>5, <1>7 DEF q
<1> QED BY <1>1, <1>6, <1>7, StartOrder

\* A message that is written altogether is done with.
LEMMA PoppedOrder ==
  ASSUME TypeInv, TypeInv', PumpInv, ~crashed, NEW n \in Nodes, NEW i \in DOMAIN writes[n],
         writes[n][1].left = 0, writes[n][1].part = "header" => Size[out[n][1].k] = 0,
         StartWriting(n, Tail(out[n]), << >>, {}), UNCHANGED << pushed, wire, readVars >>
  PROVE  PumpInv'
<1> DEFINE m == out[n][1]
           w == writes[n][1]
<1>1. /\ out[n] # << >> /\ out[n] \in Seq(OutOf(n)) /\ InOrder(out[n], n)
      /\ w.msg = m /\ w.to = m.to /\ writes[n] # << >> /\ Size[m.k] \in Nat
  BY FrontWritten
<1>2. Tail(out[n]) \in Seq(OutOf(n)) /\ InOrder(Tail(out[n]), n)
  BY <1>1, TailOrder
<1>3. ASSUME NEW l \in Links, l[1] = n, Open(l), l[2] \in peers[n]
      PROVE  \E d \in 1..MaxPushed + 1 : Pending(Tail(out[n]), l, d) /\ ToCome(l) = At(l, d, 0)
  <2>1. CASE l[2] # m.to
    BY <1>3, <2>1, OtherPeer
  <2>2. CASE l[2] = m.to
    <3>1. PICK d \in 1..MaxPushed + 1 : Pending(out[n], l, d) /\ m.k = d /\ ToCome(l) = Left(l, w)
      BY <1>1, <1>3, <2>2 DEF PumpInv, Link, Unsent, UnsentFrom, Writing
    <3>2. d + 1 \in 1..MaxPushed + 1 /\ Pending(Tail(out[n]), l, d + 1)
      BY <1>1, <1>3, <2>2, <3>1, TailPending
    <3>3. Left(l, w) = After(At(l, d, IF w.part = "header" THEN 0 ELSE Size[d] - 0))
      BY <1>1, <3>1 DEF Left
    <3>4. Left(l, w) = At(l, d + 1, 0)
      <4>1. PICK z \in Nat : z = Size[d]
        BY <1>1, <3>1
      <4>2. z - 0 = z /\ ~(z < z) /\ (w.part = "header" => ~(0 < z))
        BY <1>1, <3>1, <4>1
      <4>3. ~(0 < z) => After(At(l, d, 0)) = At(l, d + 1, 0)
        BY <4>1, AfterAt
      <4>4. After(At(l, d, z)) = At(l, d + 1, 0)
        BY <4>1, <4>2, AfterAt
      <4> QED BY <3>3, <4>1, <4>2, <4>3, <4>4
    <3> QED BY <3>1, <3>2, <3>4
  <2> QED BY <2>1, <2>2
<1> DEFINE q == Tail(out[n])
<1> HIDE DEF q
<1>4. q \in Seq(OutOf(n)) /\ InOrder(q, n) /\ StartWriting(n, q, << >>, {})
  BY <1>2 DEF q
<1>5. ASSUME NEW l \in Links, l[1] = n, Open(l), l[2] \in peers[n]
      PROVE  \E d \in 1..MaxPushed + 1 : Pending(q, l, d) /\ ToCome(l) = At(l, d, 0)
  BY <1>3, <1>5 DEF q
<1> QED BY <1>4, <1>5, StartOrder

\* The one write of a node is replaced by another one of the same message.
LEMMA WriteTurned ==
  ASSUME TypeInv, PumpInv, ~crashed, NEW n \in Nodes, NEW i \in DOMAIN writes[n], NEW v \in WriteOf(n),
         v.to = writes[n][1].to, v.msg = writes[n][1].msg,
         writes' = [writes EXCEPT ![n] = [writes[n] EXCEPT ![i] = v]], UNCHANGED << pushed, out >>
  PROVE  /\ \A m \in Nodes : Queued(m)'
         /\ writes'[n] # << >> /\ writes'[n][1] = v
         /\ \A m \in Nodes : m # n => writes'[m] = writes[m]
<1>1. /\ i = 1 /\ Len(writes[n]) = 1 /\ out[n] # << >>
      /\ writes[n][1].msg = out[n][1] /\ writes[n][1].to = out[n][1].to
  BY FrontWritten
<1>2. writes \in [Nodes -> Seq(Write)] /\ writes[n] \in Seq(WriteOf(n))
  BY DEF TypeInv, WriteTypes
<1> DEFINE ws == [writes[n] EXCEPT ![i] = v]
<1>3. ws \in Seq(WriteOf(n)) /\ Len(ws) = 1 /\ ws[1] = v
  <2>1. PICK s \in Seq(WriteOf(n)) : s = writes[n]
    BY <1>2
  <2>2. 1 \in 1..Len(s)
    BY <1>1, <2>1
  <2>3. /\ [s EXCEPT ![1] = v] \in Seq(WriteOf(n)) /\ Len([s EXCEPT ![1] = v]) = Len(s)
        /\ \A j \in 1..Len(s) : [s EXCEPT ![1] = v][j] = IF j = 1 THEN v ELSE s[j]
    BY <2>2, ExceptSeq
  <2> QED BY <1>1, <2>1, <2>2, <2>3
<1>4. ws # << >>
  BY <1>3
<1>5. writes'[n] = ws /\ \A m \in Nodes : m # n => writes'[m] = writes[m]
  BY <1>2
<1> HIDE DEF ws
<1>6. ASSUME NEW m \in Nodes PROVE Queued(m)'
  <2>1. InOrder(out[m], m)'
    BY DEF PumpInv, Queued, InOrder
  <2>2. AtFront(m)'
    <3>1. CASE m = n
      BY <1>1, <1>3, <1>5, <3>1 DEF AtFront
    <3>2. CASE m # n
      BY <1>5, <3>2 DEF PumpInv, Queued, AtFront
    <3> QED BY <3>1, <3>2
  <2> QED BY <2>1, <2>2 DEF Queued
<1> QED BY <1>3, <1>4, <1>5, <1>6

\* What is not written for has the same messages to come.
LEMMA UnsentKept ==
  ASSUME TypeInv, PumpInv, ~crashed, NEW l \in Links, UNCHANGED << pushed, out, peers >>,
         Open(l), l[2] \in peers[l[1]], ToCome(l)' = ToCome(l),
         Writing(l)' = Writing(l), Writing(l) => writes'[l[1]][1].msg = writes[l[1]][1].msg /\
                                                 Left(l, writes[l[1]][1])' = Left(l, writes[l[1]][1])
  PROVE  Unsent(l)'
<1>1. PICK d \in 1..MaxPushed + 1 : UnsentFrom(l, d)
  BY DEF PumpInv, Link, Unsent
<1>2. Pending(out[l[1]], l, d)'
  BY <1>1 DEF UnsentFrom, Pending, InQueue
<1>3. UnsentFrom(l, d)'
  BY <1>1, <1>2 DEF UnsentFrom
<1> QED BY <1>3 DEF Unsent

LEMMA WrittenOrder ==
  ASSUME TypeInv, TypeInv', PumpInv, NEW n \in Nodes, NEW i \in DOMAIN writes[n], Written(n, i)
  PROVE  PumpInv'
<1> DEFINE m == out[n][1]
           w == writes[n][1]
<1>1. ~crashed /\ UNCHANGED << pushed, wire, readVars >>
  BY DEF Written
<1>2. /\ i = 1 /\ out[n] # << >> /\ out[n] \in Seq(OutOf(n)) /\ Head(out[n]) = m /\ m \in OutOf(n)
      /\ w.msg = m /\ w.to = m.to /\ w \in WriteOf(n) /\ RemoveAt(writes[n], i) = << >>
      /\ Size[m.k] \in Nat /\ writes[n] # << >>
  BY <1>1, FrontWritten
<1>3. HeaderWritten(n, i) \/ BodyWritten(n, i)
  BY <1>2 DEF Written
<1>4. w.left = 0
  BY <1>2 DEF Written
<1>5. ASSUME StartWriting(n, Tail(out[n]), << >>, {}), w.part = "header" => Size[m.k] = 0
      PROVE  PumpInv'
  BY <1>1, <1>4, <1>5, PoppedOrder
<1>6. ASSUME w.part = "header", writes' = [writes EXCEPT ![n][i] = WriteBody(@.to, Head(out[n]))],
             UNCHANGED << out, peers, crashed >>
      PROVE  PumpInv'
  <2>0. PICK v : v = WriteBody(w.to, m)
    OBVIOUS
  <2>1. v \in WriteOf(n) /\ v.to = w.to /\ v.msg = m /\ v.part = "body" /\ v.left = Size[m.k]
    <3>1. w.to \in Nodes /\ << n, w.to >> \in Links
      BY <1>2 DEF WriteOf, Write
    <3>2. v \in WriteOf(n)
      BY <1>2, <2>0, <3>1, WritesMade
    <3> QED BY <2>0, <3>2 DEF WriteBody
  <2>2. writes' = [writes EXCEPT ![n] = [writes[n] EXCEPT ![i] = v]]
    BY <1>2, <1>6, <2>0
  <2>3. /\ \A x \in Nodes : Queued(x)'
        /\ writes'[n] # << >> /\ writes'[n][1] = v
        /\ \A x \in Nodes : x # n => writes'[x] = writes[x]
    <3>1. /\ v \in WriteOf(n) /\ v.to = writes[n][1].to /\ v.msg = writes[n][1].msg
          /\ UNCHANGED << pushed, out >> /\ ~crashed
      BY <1>1, <1>2, <1>6, <2>1
    <3> HIDE DEF m, w
    <3> QED BY <2>2, <3>1, WriteTurned
  <2>4. ASSUME NEW l \in Links PROVE Link(l)'
    <3>1. pushed[l] <= pushed'[l]
      BY <1>1, PushedNat
    <3>2. ToCome(l)' = ToCome(l) /\ Open(l)' = Open(l)
      BY <1>1, <3>1, ReceiverKept DEF readVars
    <3>3. ASSUME Open(l), l[2] \in peers'[l[1]] PROVE Unsent(l)'
      <4>1. CASE l[1] = n
        <5>1. Writing(l)' = Writing(l)
          BY <1>2, <2>1, <2>3, <4>1 DEF Writing
        <5>2. Left(l, w) = After(At(l, m.k, 0))
          BY <1>2, <1>4, <1>6 DEF Left
        <5>3. Left(l, v) = After(At(l, m.k, 0))
          <6>1. PICK z \in Nat : z = Size[m.k]
            BY <1>2
          <6>2. z - z = 0
            OBVIOUS
          <6> QED BY <2>1, <6>1, <6>2 DEF Left
        <5>4. Left(l, writes[l[1]][1])' = Left(l, w)
          <6>1. Left(l, writes[l[1]][1])' = Left(l, v)
            BY <2>3, <4>1 DEF Left
          <6> QED BY <5>2, <5>3, <6>1
        <5>5. writes'[l[1]][1].msg = w.msg
          BY <1>2, <2>1, <2>3, <4>1
        <5> QED BY <1>1, <1>6, <3>2, <3>3, <4>1, <5>1, <5>4, <5>5, UnsentKept
      <4>2. CASE l[1] # n
        <5>1. writes'[l[1]] = writes[l[1]]
          BY <2>3, <4>2, LinksTyped
        <5>2. Writing(l)' = Writing(l) /\ Left(l, writes[l[1]][1])' = Left(l, writes[l[1]][1])
          BY <5>1 DEF Writing, Left
        <5> QED BY <1>1, <1>6, <3>2, <3>3, <5>1, <5>2, UnsentKept
      <4> QED BY <4>1, <4>2
    <3> QED BY <1>1, <3>1, <3>3, LinkKept DEF PumpInv, readVars
  <2> QED BY <2>3, <2>4 DEF PumpInv
<1>7. CASE HeaderWritten(n, i)
  <2>1. w.part = "header"
    BY <1>2, <1>7 DEF HeaderWritten
  <2>2. CASE Size[m.k] > 0
    BY <1>2, <1>6, <1>7, <2>1, <2>2 DEF HeaderWritten
  <2>3. CASE ~(Size[m.k] > 0)
    <3>1. Size[m.k] = 0
      BY <1>2, <2>3
    <3>2. StartWriting(n, Tail(out[n]), << >>, {})
      BY <1>2, <1>7, <2>3 DEF HeaderWritten
    <3> QED BY <1>5, <3>1, <3>2
  <2> QED BY <2>2, <2>3
<1>8. CASE BodyWritten(n, i)
  BY <1>2, <1>5, <1>8 DEF BodyWritten
<1> QED BY <1>3, <1>7, <1>8

LEMMA PushOrder ==
  ASSUME TypeInv, TypeInv', PumpInv, NEW l \in Links, PushMessage(l)
  PROVE  PumpInv'
<1> DEFINE n == l[1]
           m == [to |-> l[2], k |-> pushed[l] + 1]
<1>1. /\ ~crashed /\ pushed' = [pushed EXCEPT ![l] = @ + 1] /\ out' = [out EXCEPT ![n] = Append(@, m)]
      /\ UNCHANGED << writes, wire, peers, readVars, broken, crashed >>
  BY DEF PushMessage
<1>2. n \in Nodes /\ l = << n, l[2] >>
  BY LinksTyped
<1>3. PICK P \in Nat, M \in Nat : P = pushed[l] /\ P <= M /\ M = MaxPushed
  BY PushedNat
<1>4. pushed'[l] = P + 1 /\ \A x \in Links : x # l => pushed'[x] = pushed[x]
  BY <1>1, <1>3 DEF TypeInv, RestTypes
<1>5. m = [to |-> l[2], k |-> P + 1]
  BY <1>3
<1>6. P + 1 <= M
  <2>1. pushed'[l] \in 0..MaxPushed
    BY DEF TypeInv, RestTypes
  <2> QED BY <1>3, <1>4, <2>1
<1> HIDE DEF n, m
<1>7. PICK a \in Nat : a = Len(out[n])
  BY <1>2, LenProperties DEF TypeInv, OutTypes
<1>8. out[n] \in Seq(OutMessage) /\ out \in [Nodes -> Seq(OutMessage)] /\ \A i \in 1..a : out[n][i] \in OutOf(n)
  BY <1>2, <1>7, ElementOfSeq DEF TypeInv, OutTypes
<1>9. m \in OutMessage
  <2>1. l[2] \in Nodes
    BY LinksTyped
  <2>2. P + 1 \in 1..MaxPushed
    BY <1>3, <1>6
  <2> QED BY <1>5, <2>1, <2>2 DEF OutMessage
<1>10. /\ out'[n] = Append(out[n], m) /\ \A x \in Nodes : x # n => out'[x] = out[x]
       /\ Len(out'[n]) = a + 1 /\ out'[n][a + 1] = m /\ \A i \in 1..a : out'[n][i] = out[n][i]
  BY <1>1, <1>2, <1>7, <1>8, <1>9, AppendProperties
<1>11. ASSUME NEW i \in 1..a
       PROVE  << n, out[n][i].to >> \in Links /\ out[n][i].k \in Nat
              /\ (out[n][i].to = l[2] => out[n][i].k <= P)
              /\ out[n][i].k <= pushed[<< n, out[n][i].to >>]
  <2>1. out[n][i] \in OutMessage /\ << n, out[n][i].to >> \in Links
    BY <1>8 DEF OutOf
  <2>2. out[n][i].k \in Nat
    BY <2>1 DEF OutMessage
  <2>3. out[n][i].k <= pushed[<< n, out[n][i].to >>]
    BY <1>1, <1>2, <1>7 DEF PumpInv, Queued, InOrder
  <2> QED BY <1>2, <1>3, <2>1, <2>2, <2>3
<1>12. ASSUME NEW i \in 1..a + 1 PROVE out'[n][i].k <= pushed'[<< n, out'[n][i].to >>]
  <2>1. CASE i = a + 1
    <3>1. << n, m.to >> = l /\ m.k = P + 1
      BY <1>2, <1>5
    <3> QED BY <1>4, <1>10, <2>1, <3>1
  <2>2. CASE i # a + 1
    <3>1. i \in 1..a
      BY <1>7, <2>2
    <3>2. out'[n][i] = out[n][i]
      BY <1>10, <3>1
    <3>3. CASE out[n][i].to = l[2]
      <4>1. PICK k \in Nat : k = out[n][i].k
        BY <1>11, <3>1
      <4>2. k <= P
        BY <1>11, <3>1, <3>3, <4>1
      <4>3. << n, out[n][i].to >> = l
        BY <1>2, <3>3
      <4> QED BY <1>4, <3>2, <4>1, <4>2, <4>3
    <3>4. CASE out[n][i].to # l[2]
      <4>1. << n, out[n][i].to >> # l
        BY <1>2, <3>4
      <4> QED BY <1>4, <1>11, <3>1, <3>2, <4>1
    <3> QED BY <3>3, <3>4
  <2> QED BY <2>1, <2>2
<1>13. ASSUME NEW i \in 1..a + 1, NEW j \in 1..a + 1, i < j, out'[n][i].to = out'[n][j].to
       PROVE  out'[n][i].k < out'[n][j].k
  <2>1. i \in 1..a
    BY <1>7, <1>13
  <2>2. CASE j = a + 1
    <3>1. out[n][i].to = l[2] /\ out'[n][i].k = out[n][i].k /\ out'[n][j].k = P + 1
      BY <1>5, <1>10, <1>13, <2>1, <2>2
    <3>2. PICK k \in Nat : k = out[n][i].k
      BY <1>11, <2>1
    <3>3. k <= P
      BY <1>11, <2>1, <3>1, <3>2
    <3> QED BY <3>1, <3>2, <3>3
  <2>3. CASE j # a + 1
    <3>1. j \in 1..a
      BY <1>7, <2>3
    <3> QED BY <1>1, <1>2, <1>7, <1>10, <1>13, <2>1, <3>1 DEF PumpInv, Queued, InOrder
  <2> QED BY <2>2, <2>3
<1>14. ASSUME NEW x \in Nodes PROVE Queued(x)'
  <2>1. CASE x = n
    <3>1. InOrder(out[n], n)'
      BY <1>10, <1>12, <1>13 DEF InOrder
    <3>2. AtFront(n)'
      <4> SUFFICES ASSUME writes[n] # << >>
                   PROVE  /\ Len(writes[n]) = 1 /\ out'[n] # << >>
                          /\ writes[n][1].msg = out'[n][1] /\ writes[n][1].to = out'[n][1].to
        BY <1>1 DEF AtFront
      <4>1. /\ Len(writes[n]) = 1 /\ out[n] # << >>
            /\ writes[n][1].msg = out[n][1] /\ writes[n][1].to = out[n][1].to
        BY <1>1, <1>2 DEF PumpInv, Queued, AtFront
      <4>2. a # 0
        BY <1>7, <1>8, <4>1, EmptySeq
      <4>3. 1 \in 1..a
        BY <4>2
      <4>4. out'[n][1] = out[n][1]
        BY <1>10, <4>3
      <4>5. out'[n] # << >>
        <5>1. Append(out[n], m) # << >>
          BY <1>8, <1>9, AppendProperties
        <5> QED BY <1>10, <5>1
      <4> QED BY <4>1, <4>4, <4>5
    <3> QED BY <2>1, <3>1, <3>2 DEF Queued
  <2>2. CASE x # n
    <3>1. out'[x] = out[x] /\ writes'[x] = writes[x]
      BY <1>1, <1>10, <2>2
    <3>2. \A i : << x, out[x][i].to >> # l
      BY <1>2, <2>2
    <3>3. InOrder(out[x], x)
      BY <1>1 DEF PumpInv, Queued
    <3>4. \A i \in 1..Len(out[x]) : pushed'[<< x, out[x][i].to >>] = pushed[<< x, out[x][i].to >>]
      <4> SUFFICES ASSUME NEW i \in 1..Len(out[x])
                   PROVE  pushed'[<< x, out[x][i].to >>] = pushed[<< x, out[x][i].to >>]
        OBVIOUS
      <4>1. out[x][i] \in OutOf(x)
        BY ElementOfSeq DEF TypeInv, OutTypes
      <4>2. << x, out[x][i].to >> \in Links
        BY <4>1 DEF OutOf
      <4> QED BY <1>4, <3>2, <4>2
    <3>5. InOrder(out[x], x)'
      BY <3>1, <3>3, <3>4 DEF InOrder
    <3> QED BY <1>1, <3>1, <3>5 DEF PumpInv, Queued, AtFront
  <2> QED BY <2>1, <2>2
<1>15. ASSUME NEW y \in Links PROVE Link(y)'
  <2>1. pushed[y] <= pushed'[y]
    <3>1. pushed[y] \in Nat
      BY PushedNat
    <3> QED BY <1>3, <1>4, <3>1
  <2>2. ToCome(y)' = ToCome(y)
    BY <1>1, <2>1, ReceiverKept DEF readVars
  <2>3. ASSUME Open(y), y[2] \in peers[y[1]] PROVE Unsent(y)'
    <3>1. PICK d \in 1..MaxPushed + 1 : UnsentFrom(y, d)
      BY <1>1, <2>3 DEF PumpInv, Link, Unsent
    <3>2. Pending(out[y[1]], y, d)'
      <4>1. CASE y = l
        <5>1. d \in 1..P + 1 /\ \A k \in 1..M : InQueue(out[n], l, k) <=> d <= k /\ k <= P
          BY <1>3, <3>1, <4>1 DEF UnsentFrom, Pending, n
        <5>2. ASSUME NEW k \in 1..M PROVE InQueue(out[n], l, k)' <=> d <= k /\ k <= P + 1
          <6>1. InQueue(out[n], l, k)' <=> InQueue(out[n], l, k) \/ k = P + 1
            <7>1. ASSUME InQueue(out[n], l, k)' PROVE InQueue(out[n], l, k) \/ k = P + 1
              <8>1. PICK i \in 1..a + 1 : out'[n][i] = [to |-> l[2], k |-> k]
                BY <1>10, <7>1 DEF InQueue
              <8>2. CASE i = a + 1
                BY <1>5, <1>10, <8>1, <8>2
              <8>3. CASE i # a + 1
                <9>1. i \in 1..a
                  BY <1>7, <8>3
                <9> QED BY <1>7, <1>10, <8>1, <9>1 DEF InQueue
              <8> QED BY <8>2, <8>3
            <7>2. ASSUME InQueue(out[n], l, k) PROVE InQueue(out[n], l, k)'
              <8>1. PICK i \in 1..a : out[n][i] = [to |-> l[2], k |-> k]
                BY <1>7, <7>2 DEF InQueue
              <8>2. i \in 1..a + 1
                BY <1>7
              <8> QED BY <1>10, <8>1, <8>2 DEF InQueue
            <7>3. ASSUME k = P + 1 PROVE InQueue(out[n], l, k)'
              <8>1. a + 1 \in 1..a + 1
                BY <1>7
              <8> QED BY <1>5, <1>10, <7>3, <8>1 DEF InQueue
            <7> QED BY <7>1, <7>2, <7>3
          <6> QED BY <1>3, <5>1, <6>1
        <5>3. d \in 1..(P + 1) + 1
          BY <1>3, <5>1
        <5> QED BY <1>3, <1>4, <4>1, <5>2, <5>3 DEF Pending, n
      <4>2. CASE y # l /\ y[1] = n
        <5>1. y[2] # l[2]
          BY <1>2, <4>2, LinksTyped
        <5>2. ASSUME NEW k \in 1..M PROVE InQueue(out[n], y, k)' <=> InQueue(out[n], y, k)
          <6>1. m # [to |-> y[2], k |-> k]
            BY <1>5, <5>1
          <6>2. ASSUME NEW i \in 1..a + 1, out'[n][i] = [to |-> y[2], k |-> k] PROVE i \in 1..a
            BY <1>7, <1>10, <6>1, <6>2
          <6>3. \A i \in 1..a : i \in 1..a + 1
            BY <1>7
          <6> QED BY <1>7, <1>10, <6>2, <6>3 DEF InQueue
        <5> QED BY <1>3, <1>4, <3>1, <4>2, <5>2 DEF Pending, UnsentFrom
      <4>3. CASE y[1] # n
        <5>1. y # l /\ y[1] \in Nodes
          BY <4>3, LinksTyped DEF n
        <5>2. out'[y[1]] = out[y[1]] /\ pushed'[y] = pushed[y]
          BY <1>4, <1>10, <4>3, <5>1
        <5> QED BY <3>1, <5>2 DEF Pending, UnsentFrom, InQueue
      <4> QED BY <4>1, <4>2, <4>3
    <3>3. Writing(y)' = Writing(y) /\ Left(y, writes[y[1]][1])' = Left(y, writes[y[1]][1])
      BY <1>1 DEF Writing, Left
    <3>4. UnsentFrom(y, d)'
      BY <1>1, <2>2, <3>1, <3>2, <3>3 DEF UnsentFrom
    <3> QED BY <3>4 DEF Unsent
  <2> QED BY <1>1, <2>1, <2>3, LinkKept DEF PumpInv, readVars
<1> QED BY <1>14, <1>15 DEF PumpInv

\* A piece that is the one to come is put at the end of what is under way.
LEMMA SentOrder ==
  ASSUME TypeInv, NEW l \in Links, NEW x \in Piece, x = ToCome(l), x.msg.k <= pushed[l],
         wire'[l] = Append(wire[l], x), UNCHANGED << pushed, temp, reads, in >>,
         UnderWay(l), PartlyRead(l)
  PROVE  UnderWay(l)' /\ PartlyRead(l)' /\ ToCome(l)' = After(x) /\ Open(l)' = Open(l)
<1>1. Reading(l)' = Reading(l) /\ Turn(l)' = Turn(l)
  BY DEF Reading, Turn, ReceivedOn
<1>2. Wanted(l)' = Wanted(l)
  BY <1>1 DEF Wanted
<1>3. PartlyRead(l)' /\ Open(l)' = Open(l)
  BY <1>1 DEF PartlyRead, Open
<1>4. PICK a \in Nat : a = Len(wire[l])
  BY LinkTypes, LenProperties
<1>5. wire[l] \in Seq(Piece) /\ (wire[l] = << >> <=> a = 0)
  BY <1>4, LinkTypes, EmptySeq
<1>6. /\ Len(wire'[l]) = a + 1 /\ wire'[l] # << >> /\ wire'[l][a + 1] = x
      /\ \A i \in 1..a : wire'[l][i] = wire[l][i]
  BY <1>4, <1>5, AppendProperties
<1>7. ToCome(l)' = After(x)
  BY <1>6 DEF ToCome
<1>8. wire'[l][1] = Wanted(l)
  <2>1. CASE a = 0
    <3>1. x = Wanted(l)
      BY <1>5, <2>1 DEF ToCome
    <3> QED BY <1>6, <2>1, <3>1
  <2>2. CASE a # 0
    <3>1. 1 \in 1..a
      BY <2>2
    <3> QED BY <1>5, <1>6, <2>2, <3>1 DEF UnderWay
  <2> QED BY <2>1, <2>2
<1>9. ASSUME NEW i \in 1..a PROVE wire'[l][i + 1] = After(wire'[l][i])
  <2>1. CASE i = a
    <3>1. a # 0
      BY <2>1
    <3>2. x = After(wire[l][a])
      BY <1>4, <1>5, <3>1 DEF ToCome
    <3> QED BY <1>6, <2>1, <3>2
  <2>2. CASE i # a
    <3>1. i \in 1..a - 1 /\ i + 1 \in 1..a
      BY <2>2
    <3> QED BY <1>4, <1>6, <3>1 DEF UnderWay
  <2> QED BY <2>1, <2>2
<1>10. ASSUME NEW i \in 1..a + 1 PROVE wire'[l][i].msg.k <= pushed[l]
  <2>1. CASE i = a + 1
    BY <1>6, <2>1
  <2>2. CASE i # a + 1
    <3>1. i \in 1..a
      BY <2>2
    <3> QED BY <1>4, <1>6, <3>1 DEF UnderWay
  <2> QED BY <2>1, <2>2
<1>11. UnderWay(l)'
  <2>1. (a + 1) - 1 = a
    BY <1>4
  <2> QED BY <1>2, <1>6, <1>8, <1>9, <1>10, <2>1 DEF UnderWay
<1> QED BY <1>3, <1>7, <1>11

\* What a write moves next is what is left of its message.
LEMMA LeftIsNext ==
  ASSUME NEW n \in Nodes, NEW w \in WriteOf(n), w.left > 0, NEW l,
         w.msg = [to |-> l[2], k |-> w.msg.k]
  PROVE  Left(l, w) = NextPiece(w) /\ Left(l, Less(w)) = After(NextPiece(w))
<1>1. /\ w.left \in Nat /\ Size[w.msg.k] \in Nat
      /\ w.left <= (IF w.part = "header" THEN 1 ELSE Size[w.msg.k])
      /\ Less(w).msg = w.msg /\ Less(w).part = w.part /\ Less(w).left = w.left - 1
  BY PieceOfWrite
<1>2. PICK z, t, k : z \in Nat /\ t \in Nat /\ z = Size[k] /\ t = w.left /\ k = w.msg.k
  BY <1>1
<1>3. CASE w.part = "header"
  <2>1. t = 1 /\ Less(w).left = 0
    BY <1>1, <1>2, <1>3
  <2>2. Left(l, w) = At(l, k, 0) /\ Left(l, Less(w)) = After(At(l, k, 0))
    BY <1>1, <1>2, <1>3, <2>1 DEF Left
  <2>3. NextPiece(w) = At(l, k, 0)
    BY <1>2, <1>3 DEF NextPiece, At
  <2> QED BY <2>2, <2>3
<1>4. CASE w.part # "header"
  <2>1. 0 < t /\ t <= z /\ z - t < z /\ (z - t) + 1 = z - t + 1 /\ z - (t - 1) = z - t + 1
    BY <1>1, <1>2, <1>4
  <2>2. Left(l, w) = After(At(l, k, z - t))
    BY <1>2, <1>4 DEF Left
  <2>3. Left(l, Less(w)) = After(At(l, k, z - (t - 1)))
    BY <1>1, <1>2, <1>4 DEF Left
  <2>4. NextPiece(w) = At(l, k, z - t + 1)
    BY <1>2, <1>4 DEF NextPiece, At
  <2>5. After(At(l, k, z - t)) = At(l, k, (z - t) + 1)
    BY <1>2, <2>1, AfterAt
  <2> QED BY <2>1, <2>2, <2>3, <2>4, <2>5
<1> QED BY <1>3, <1>4

LEMMA WritePieceOrder ==
  ASSUME TypeInv, TypeInv', PumpInv, NEW n \in Nodes, NEW i \in DOMAIN writes[n], WritePiece(n, i)
  PROVE  PumpInv'
<1>1. ~crashed
  BY DEF WritePiece
<1>4. PICK w \in WriteOf(n), l \in Links :
        /\ w = writes[n][i] /\ l = << n, w.to >> /\ w.left > 0 /\ w.to \in peers[n]
        /\ wire' = [wire EXCEPT ![l] = Append(@, NextPiece(w))]
        /\ writes' = [writes EXCEPT ![n] = [writes[n] EXCEPT ![i] = Less(w)]]
        /\ UNCHANGED << pushed, out, peers, readVars, broken >>
        /\ crashed' \in {crashed, TRUE, FALSE}
        /\ (\E j \in DOMAIN out[n] : out[n][j] = w.msg) => UNCHANGED crashed
  BY WritePieceFacts
<1>2. PICK m : m = out[n][1]
  OBVIOUS
<1>3. /\ i = 1 /\ w = writes[n][1] /\ l = << n, w.to >>
      /\ out[n] # << >> /\ m = [to |-> m.to, k |-> m.k] /\ m.k \in 1..MaxPushed
      /\ w.msg = m /\ w.to = m.to /\ writes[n] # << >> /\ out[n] \in Seq(OutOf(n)) /\ InOrder(out[n], n)
  BY <1>1, <1>2, <1>4, FrontWritten
<1>5. Less(w) \in WriteOf(n) /\ Less(w).to = w.to /\ Less(w).msg = w.msg /\ NextPiece(w) \in Piece
      /\ NextPiece(w).msg = w.msg
  BY <1>4, PieceOfWrite
<1>6. /\ \A x \in Nodes : Queued(x)'
      /\ writes'[n] # << >> /\ writes'[n][1] = Less(w)
      /\ \A x \in Nodes : x # n => writes'[x] = writes[x]
  <2>1. PICK v : v = Less(w)
    OBVIOUS
  <2>2. v \in WriteOf(n) /\ v.to = writes[n][1].to /\ v.msg = writes[n][1].msg
        /\ writes' = [writes EXCEPT ![n] = [writes[n] EXCEPT ![i] = v]] /\ UNCHANGED << pushed, out >>
    BY <1>3, <1>4, <1>5, <2>1
  <2> QED BY <1>1, <2>1, <2>2, WriteTurned
<1>7. \A y \in Links : y # l => wire'[y] = wire[y]
  BY <1>4, LinksTyped DEF TypeInv, WireTypes
<1>8. wire'[l] = Append(wire[l], NextPiece(w))
  BY <1>4, LinksTyped DEF TypeInv, WireTypes
<1>9. ASSUME NEW y \in Links, y # l PROVE Link(y)'
  <2>1. /\ Reading(y)' = Reading(y) /\ Turn(y)' = Turn(y) /\ wire'[y] = wire[y]
    BY <1>4, <1>7, <1>9 DEF Reading, Turn, ReceivedOn, readVars
  <2>2. Wanted(y)' = Wanted(y)
    BY <2>1 DEF Wanted
  <2>3. ToCome(y)' = ToCome(y) /\ Open(y)' = Open(y)
    BY <2>1, <2>2 DEF ToCome, Open
  <2>4. UnderWay(y) => UnderWay(y)'
    BY <1>4, <2>1, <2>2 DEF UnderWay
  <2>5. PartlyRead(y) => PartlyRead(y)'
    BY <1>4, <2>1 DEF PartlyRead, readVars
  <2>6. ASSUME Open(y), y[2] \in peers[y[1]] PROVE Unsent(y)'
    <3>1. CASE y[1] = n
      <4>1. y[2] # w.to
        <5>1. y = << n, y[2] >>
          BY <3>1, LinksTyped
        <5> QED BY <1>3, <1>9, <5>1
      <4>2. ~Writing(y) /\ ~Writing(y)'
        BY <1>3, <1>5, <1>6, <3>1, <4>1 DEF Writing
      <4>3. Writing(y)' = Writing(y)
        BY <4>2 DEF Writing
      <4> QED BY <1>1, <1>4, <2>3, <2>6, <4>2, <4>3, UnsentKept
    <3>2. CASE y[1] # n
      <4>1. writes'[y[1]] = writes[y[1]]
        BY <1>6, <3>2, LinksTyped
      <4>2. Writing(y)' = Writing(y) /\ Left(y, writes[y[1]][1])' = Left(y, writes[y[1]][1])
        BY <4>1 DEF Writing, Left
      <4> QED BY <1>1, <1>4, <2>3, <2>6, <4>1, <4>2, UnsentKept
    <3> QED BY <3>1, <3>2
  <2> QED BY <1>1, <1>4, <2>3, <2>4, <2>5, <2>6 DEF PumpInv, Link
<1>10. ASSUME Open(l) PROVE Link(l)'
  <2>1. l[1] = n /\ l[2] = w.to /\ l[2] = m.to
    BY <1>2, <1>3
  <2>2. UnderWay(l) /\ PartlyRead(l) /\ Unsent(l)
    BY <1>1, <1>4, <1>10, <2>1 DEF PumpInv, Link
  <2>3. PICK d \in 1..MaxPushed + 1 : Pending(out[n], l, d) /\ w.msg.k = d /\ ToCome(l) = Left(l, w)
    BY <1>2, <1>3, <2>1, <2>2 DEF Unsent, UnsentFrom, Writing
  <2>4. Left(l, w) = NextPiece(w) /\ Left(l, Less(w)) = After(NextPiece(w))
    BY <1>3, <1>4, <2>1, LeftIsNext
  <2>5. NextPiece(w).msg.k <= pushed[l]
    <3>1. PICK a \in Nat \ {0} : a = Len(out[n])
      BY <1>3, EmptySeq
    <3>2. out[n][1].k <= pushed[<< n, out[n][1].to >>]
      <4>1. 1 \in 1..a
        BY <3>1
      <4> QED BY <1>3, <3>1, <4>1 DEF InOrder
    <3> QED BY <1>2, <1>3, <1>5, <3>2
  <2>6. UnderWay(l)' /\ PartlyRead(l)' /\ ToCome(l)' = After(NextPiece(w)) /\ Open(l)' = Open(l)
    <3>1. PICK x \in Piece : x = NextPiece(w)
      BY <1>5
    <3>2. UNCHANGED << pushed, temp, reads, in >>
      BY <1>4 DEF readVars
    <3>3. x = ToCome(l) /\ x.msg.k <= pushed[l] /\ wire'[l] = Append(wire[l], x)
      BY <1>8, <2>3, <2>4, <2>5, <3>1
    <3>4. UnderWay(l)' /\ PartlyRead(l)' /\ ToCome(l)' = After(x) /\ Open(l)' = Open(l)
      BY <1>4, <2>2, <3>2, <3>3, SentOrder
    <3> QED BY <3>1, <3>4
  <2>7. UnsentFrom(l, d)'
    <3>1. Pending(out[n], l, d)'
      BY <1>4, <2>3 DEF Pending, InQueue
    <3>2. Writing(l)'
      BY <1>5, <1>6, <2>1 DEF Writing
    <3>3. Left(l, writes[n][1])' = Left(l, Less(w))
      BY <1>6 DEF Left
    <3>4. writes'[n][1].msg.k = d
      BY <1>5, <1>6, <2>3
    <3> QED BY <2>1, <2>4, <2>6, <3>1, <3>2, <3>3, <3>4 DEF UnsentFrom
  <2> QED BY <2>6, <2>7 DEF Link, Unsent
<1>11. ~Open(l) => ~Open(l)'
  BY <1>4 DEF Open, Reading, readVars
<1> QED BY <1>6, <1>9, <1>10, <1>11 DEF PumpInv, Link

LEMMA BreakOrder ==
  ASSUME TypeInv, TypeInv', PumpInv, NEW x \in Links, Break(x)
  PROVE  PumpInv'
<1>1. UNCHANGED << writeVars, wire, peers, readVars, crashed >>
  BY DEF Break
<1>2. UNCHANGED << pushed, out, writes, wire, peers, temp, reads, in, crashed >>
  BY <1>1 DEF writeVars, readVars
<1>3. ASSUME ~crashed, NEW n \in Nodes PROVE Queued(n)'
  BY <1>2, <1>3 DEF PumpInv, Queued, InOrder, AtFront
<1>4. ASSUME ~crashed, NEW l \in Links PROVE Link(l)'
  <2>1. pushed[l] <= pushed'[l]
    BY <1>2, PushedNat
  <2>2. ToCome(l)' = ToCome(l)
    BY <1>2, <2>1, ReceiverKept
  <2>3. Writing(l)' = Writing(l) /\ Left(l, writes[l[1]][1])' = Left(l, writes[l[1]][1])
    BY <1>2 DEF Writing, Left
  <2>4. Open(l) /\ l[2] \in peers[l[1]] => Unsent(l)'
    BY <1>2, <1>4, <2>2, <2>3, UnsentKept
  <2> QED BY <1>2, <1>4, <2>1, <2>4, LinkKept DEF PumpInv
<1> QED BY <1>2, <1>3, <1>4 DEF PumpInv

---------------------------------------------------------------------------
(* The receiving side. *)

\* Only a socket that messages come from is read.
LEMMA ReaderLink ==
  ASSUME TypeInv, NEW n, NEW m, << n, m >> \in Pairs,
         ReceiveHeader(n, m) \/ HeaderRead(n, m) \/ ReceiveBody(n, m) \/ BodyRead(n, m)
  PROVE  \E l \in Links : l = << m, n >> /\ n = l[2] /\ m = l[1]
<1>1. PICK p \in Pairs, l \in Pairs : p = << n, m >> /\ l = << m, n >> /\ l = << p[2], p[1] >>
  <2>1. << m, n >> \in Pairs
    BY LinksTyped
  <2> QED BY <2>1
<1>2. wire[l] # << >> \/ reads[p].at = "body" \/ reads[p].got # 0
  BY <1>1 DEF ReceiveHeader, HeaderRead, ReceiveBody, BodyRead
<1>3. l \in Links
  BY <1>1, <1>2 DEF TypeInv, WireTypes, ReadTypes
<1> QED BY <1>1, <1>3

\* A link that a step is not about stays as it is.
LEMMA LinkSame ==
  ASSUME NEW y \in Links, UNCHANGED << pushed, out, writes >>, peers'[y[1]] \subseteq peers[y[1]],
         wire'[y] = wire[y], reads'[<< y[2], y[1] >>] = reads[<< y[2], y[1] >>],
         in'[<< y[2], y[1] >>] = in[<< y[2], y[1] >>], temp'[y[2]] = temp[y[2]], Link(y)
  PROVE  Link(y)'
<1>1. Reading(y)' = Reading(y) /\ Turn(y)' = Turn(y)
  BY DEF Reading, Turn, ReceivedOn
<1>2. Wanted(y)' = Wanted(y)
  BY <1>1 DEF Wanted
<1>3. ToCome(y)' = ToCome(y) /\ Open(y)' = Open(y)
  BY <1>1, <1>2 DEF ToCome, Open
<1>4. UnderWay(y) => UnderWay(y)'
  BY <1>2 DEF UnderWay
<1>5. PartlyRead(y) => PartlyRead(y)'
  BY <1>1 DEF PartlyRead
<1>6. Writing(y)' = Writing(y) /\ Left(y, writes[y[1]][1])' = Left(y, writes[y[1]][1])
  BY DEF Writing, Left
<1>7. ASSUME NEW d, UnsentFrom(y, d) PROVE UnsentFrom(y, d)'
  BY <1>3, <1>6, <1>7 DEF UnsentFrom, Pending, InQueue
<1>8. Unsent(y) => Unsent(y)'
  BY <1>7 DEF Unsent
<1> QED BY <1>3, <1>4, <1>5, <1>8 DEF Link

\* What is written does not depend on what is read.
LEMMA QueuedKept ==
  ASSUME PumpInv, ~crashed, UNCHANGED << pushed, out, writes >>
  PROVE  \A n \in Nodes : Queued(n)'
BY DEF PumpInv, Queued, InOrder, AtFront

\* A node reads the messages of one link only.
LEMMA ReaderOrder ==
  ASSUME OneSender, TypeInv, PumpInv, ~crashed, NEW l \in Links,
         UNCHANGED << pushed, out, writes, peers >>,
         \A y \in Pairs : y # l => wire'[y] = wire[y],
         \A q \in Pairs : q # << l[2], l[1] >> => reads'[q] = reads[q] /\ in'[q] = in[q],
         \A x \in Nodes : x # l[2] => temp'[x] = temp[x],
         Link(l)'
  PROVE  PumpInv'
<1>1. ASSUME NEW y \in Links, y # l PROVE Link(y)'
  <2>1. y[2] # l[2] /\ y[2] \in Nodes /\ y \in Pairs /\ << y[2], y[1] >> \in Pairs
    BY <1>1, LinksTyped DEF OneSender
  <2>2. << y[2], y[1] >> # << l[2], l[1] >>
    BY <2>1
  <2>3. /\ wire'[y] = wire[y] /\ reads'[<< y[2], y[1] >>] = reads[<< y[2], y[1] >>]
        /\ in'[<< y[2], y[1] >>] = in[<< y[2], y[1] >>] /\ temp'[y[2]] = temp[y[2]]
    BY <1>1, <2>1, <2>2
  <2>4. Link(y)
    BY DEF PumpInv
  <2> QED BY <2>3, <2>4, LinkSame
<1> QED BY <1>1, QueuedKept DEF PumpInv

\* The sender does not see what the receiver does.
LEMMA ReadLink ==
  ASSUME TypeInv, PumpInv, ~crashed, NEW l \in Links, UNCHANGED << pushed, out, writes, peers >>, Open(l),
         UnderWay(l)', PartlyRead(l)', ToCome(l)' = ToCome(l)
  PROVE  Link(l)'
<1>1. Writing(l)' = Writing(l) /\ Left(l, writes[l[1]][1])' = Left(l, writes[l[1]][1])
  BY DEF Writing, Left
<1>2. l[2] \in peers[l[1]] => Unsent(l)'
  BY <1>1, UnsentKept
<1> QED BY <1>2 DEF Link

\* The first piece under way is taken.
LEMMA Taken ==
  ASSUME TypeInv, NEW l \in Links, UnderWay(l), wire[l] # << >>, wire'[l] = Tail(wire[l]),
         Wanted(l)' = After(wire[l][1]), UNCHANGED pushed
  PROVE  UnderWay(l)' /\ ToCome(l)' = ToCome(l)
<1>1. wire[l] \in Seq(Piece)
  BY LinkTypes
<1>2. PICK a \in Nat \ {0} : a = Len(wire[l])
  BY <1>1, EmptySeq
<1>3. /\ wire'[l] \in Seq(Piece) /\ Len(wire'[l]) = a - 1
      /\ \A i \in 1..a - 1 : wire'[l][i] = wire[l][i + 1]
  BY <1>1, <1>2, HeadTailProperties
<1>4. ASSUME NEW i \in 1..a - 1 PROVE wire[l][i + 1] = After(wire[l][i])
  BY <1>2, <1>4 DEF UnderWay
<1>5. CASE a = 1
  <2>0. Len(wire'[l]) = 0
    BY <1>3, <1>5
  <2>1. wire'[l] = << >>
    <3>1. PICK t \in Seq(Piece) : t = wire'[l]
      BY <1>3
    <3>2. t = << >>
      BY <2>0, <3>1, EmptySeq
    <3> QED BY <3>1, <3>2
  <2>2. UnderWay(l)'
    <3>1. 1..0 = {} /\ 1..0 - 1 = {}
      OBVIOUS
    <3> QED BY <2>0, <2>1, <3>1 DEF UnderWay
  <2>3. ToCome(l)' = Wanted(l)'
    BY <2>1 DEF ToCome
  <2>4. ToCome(l) = After(wire[l][1])
    BY <1>2, <1>5 DEF ToCome
  <2> QED BY <2>2, <2>3, <2>4
<1>6. CASE a # 1
  <2>1. 1 \in 1..a - 1 /\ a - 1 \in 1..a - 1 /\ (a - 1) + 1 = a /\ 1 + 1 = 2 /\ a - 1 # 0
    BY <1>6
  <2>2. wire'[l] # << >>
    BY <1>3, <2>1, EmptySeq
  <2>3. wire'[l][1] = Wanted(l)'
    BY <1>3, <1>4, <2>1
  <2>4. ASSUME NEW i \in 1..(a - 1) - 1 PROVE wire'[l][i + 1] = After(wire'[l][i])
    <3>1. i \in 1..a - 1 /\ i + 1 \in 1..a - 1
      OBVIOUS
    <3> QED BY <1>3, <1>4, <3>1
  <2>5. ASSUME NEW i \in 1..a - 1 PROVE wire'[l][i].msg.k <= pushed[l]
    <3>1. i + 1 \in 1..a
      OBVIOUS
    <3> QED BY <1>2, <1>3, <3>1 DEF UnderWay
  <2>6. UnderWay(l)'
    BY <1>3, <2>3, <2>4, <2>5 DEF UnderWay
  <2>7. ToCome(l)' = After(wire'[l][a - 1])
    BY <1>3, <2>2 DEF ToCome
  <2>8. wire'[l][a - 1] = wire[l][a]
    BY <1>3, <2>1
  <2>9. ToCome(l) = After(wire[l][a])
    BY <1>2 DEF ToCome
  <2> QED BY <2>6, <2>7, <2>8, <2>9
<1> QED BY <1>5, <1>6

\* Nothing is taken.
LEMMA NotTaken ==
  ASSUME NEW l \in Links, UnderWay(l), wire'[l] = wire[l], Wanted(l)' = Wanted(l), UNCHANGED pushed
  PROVE  UnderWay(l)' /\ ToCome(l)' = ToCome(l)
BY DEF UnderWay, ToCome

\* The invariant of a link that is read.
LEMMA OfReader ==
  ASSUME TypeInv, PumpInv, ~crashed, NEW l \in Links, Open(l)
  PROVE  /\ UnderWay(l) /\ PartlyRead(l)
         /\ wire[l] # << >> => /\ Head(wire[l]) = Wanted(l) /\ Head(wire[l]) = wire[l][1]
                               /\ Wanted(l).msg.k <= pushed[l]
<1>1. UnderWay(l) /\ PartlyRead(l)
  BY DEF PumpInv, Link
<1>2. ASSUME wire[l] # << >>
      PROVE  /\ Head(wire[l]) = Wanted(l) /\ Head(wire[l]) = wire[l][1]
             /\ Wanted(l).msg.k <= pushed[l]
  <2>1. PICK a \in Nat \ {0} : a = Len(wire[l])
    BY <1>2, LinkTypes, EmptySeq
  <2>2. 1 \in 1..a
    BY <2>1
  <2>3. wire[l][1] = Wanted(l) /\ wire[l][1].msg.k <= pushed[l]
    BY <1>1, <1>2, <2>1, <2>2 DEF UnderWay
  <2> QED BY <2>3, <1>2, LinkTypes, HeadTailProperties
<1> QED BY <1>1, <1>2

\* The steps of the reader of one link.
LEMMA ReceiveHeaderOrder ==
  ASSUME OneSender, TypeInv, PumpInv, NEW n, NEW m, << n, m >> \in Pairs, ReceiveHeader(n, m)
  PROVE  PumpInv'
<1>1. PICK l \in Links : l = << m, n >> /\ n = l[2] /\ m = l[1]
  BY ReaderLink
<1>2. PICK p \in Pairs : p = << n, m >> /\ p = << l[2], l[1] >>
  BY <1>1
<1>3. /\ ~crashed /\ reads[p].at = "header" /\ reads[p].got = 0 /\ wire[l] # << >>
      /\ wire' = [wire EXCEPT ![l] = Tail(@)] /\ reads' = [reads EXCEPT ![p].got = 1]
      /\ UNCHANGED << pushed, out, writes, peers, in >>
  BY <1>1, <1>2 DEF ReceiveHeader, writeVars
<1>4. Reading(l) = reads[p] /\ reads[p] \in ReadOf /\ temp[n] \in Temp /\ n \in Nodes /\ l \in Pairs
  BY <1>1, <1>2, LinkTypes DEF Reading
<1>5. Open(l)
  BY <1>3, <1>4 DEF Open
<1>6. PICK k : k = Turn(l)
  OBVIOUS
<1>7. UnderWay(l) /\ PartlyRead(l) /\ Head(wire[l]) = At(l, k, 0) /\ wire[l][1] = At(l, k, 0)
      /\ At(l, k, 0).msg.k <= pushed[l] /\ Wanted(l) = At(l, k, 0)
  <2>1. Wanted(l) = At(l, k, 0)
    BY <1>3, <1>4, <1>6 DEF Wanted
  <2> QED BY <1>3, <1>5, <2>1, OfReader
<1>8. temp' = [temp EXCEPT ![n].header = [piece |-> At(l, k, 0), size |-> Size[k]]]
  <2>1. SizesSaid(At(l, k, 0)) = {Size[k]}
    BY DEF SizesSaid, At
  <2>2. \E size \in SizesSaid(Head(wire[l])) :
          temp' = [temp EXCEPT ![n].header = [piece |-> Head(wire[l]), size |-> size]]
    BY <1>1 DEF ReceiveHeader
  <2> QED BY <1>7, <2>1, <2>2
<1>9. /\ temp'[n].header = [piece |-> At(l, k, 0), size |-> Size[k]] /\ temp'[n].body = temp[n].body
      /\ \A x \in Nodes : x # n => temp'[x] = temp[x]
  BY <1>4, <1>8 DEF Temp, TypeInv, ReadTypes
<1>10. /\ reads'[p].at = "header" /\ reads'[p].got = 1 /\ \A q \in Pairs : q # p => reads'[q] = reads[q]
  BY <1>3, <1>4 DEF ReadOf, Read, TypeInv, ReadTypes
<1>11. wire'[l] = Tail(wire[l]) /\ \A y \in Pairs : y # l => wire'[y] = wire[y]
  BY <1>3, <1>4 DEF TypeInv, WireTypes
<1>12. Reading(l)' = reads'[p] /\ Turn(l)' = k
  BY <1>2, <1>3, <1>6 DEF Reading, Turn, ReceivedOn
<1>13. Wanted(l)' = After(wire[l][1])
  BY <1>7, <1>10, <1>12 DEF Wanted
<1>14. UnderWay(l)' /\ ToCome(l)' = ToCome(l)
  BY <1>3, <1>7, <1>11, <1>13, Taken
<1>15. PartlyRead(l)'
  <2>1. temp[n].body = << >>
    BY <1>1, <1>3, <1>4, <1>7 DEF PartlyRead
  <2>2. k <= pushed[l]
    BY <1>7 DEF At
  <2> QED BY <1>1, <1>3, <1>9, <1>10, <1>12, <2>1, <2>2 DEF PartlyRead
<1>16. Link(l)'
  BY <1>3, <1>5, <1>14, <1>15, ReadLink
<1> QED BY <1>1, <1>2, <1>3, <1>9, <1>10, <1>11, <1>16, ReaderOrder

\* A message that is complete is in its turn.
LEMMA AddedOrder ==
  ASSUME OneSender, TypeInv, PumpInv, ~crashed, NEW l \in Links, UNCHANGED << pushed, out, writes, wire, peers >>,
         Open(l), Wanted(l) = At(l, Turn(l) + 1, 0), AddToIncoming(l[2], l[1])
  PROVE  PumpInv'
<1>1. PICK p \in Pairs, n \in Nodes : p = << l[2], l[1] >> /\ n = l[2]
  BY LinksTyped
<1>2. /\ Reading(l) = reads[p] /\ Reading(l)' = reads'[p]
      /\ temp \in [Nodes -> Temp] /\ reads \in [Pairs -> ReadOf] /\ in \in [Pairs -> Seq(Received)]
  BY <1>1 DEF Reading, TypeInv, ReadTypes
<1>3. UnderWay(l) /\ PartlyRead(l)
  BY OfReader
<1>4. ASSUME reads' = [reads EXCEPT ![p] = Closed], UNCHANGED << in, temp >> PROVE PumpInv'
  <2>1. reads'[p] = Closed /\ \A q \in Pairs : q # p => reads'[q] = reads[q]
    BY <1>2, <1>4
  <2>2. Link(l)'
    BY <1>2, <2>1, ReadsMade DEF Link, Open
  <2> QED BY <1>1, <1>4, <2>1, <2>2, ReaderOrder
<1>5. ASSUME in' = [in EXCEPT ![p] = Append(@, Message(temp[n]))],
             temp' = [temp EXCEPT ![n] = EmptyTemp], reads' = [reads EXCEPT ![p] = ReadHeader]
      PROVE  PumpInv'
  <2>1. /\ reads'[p] = ReadHeader /\ \A q \in Pairs : q # p => reads'[q] = reads[q] /\ in'[q] = in[q]
        /\ temp'[n] = EmptyTemp /\ \A x \in Nodes : x # n => temp'[x] = temp[x]
        /\ in'[p] = Append(in[p], Message(temp[n]))
    BY <1>2, <1>5
  <2>2. Turn(l)' = Turn(l) + 1
    <3>1. in[p] \in Seq(Received) /\ Message(temp[n]) \in Received
      BY <1>2, ReadsMade
    <3>2. Len(in'[p]) = Len(in[p]) + 1
      BY <2>1, <3>1, AppendProperties
    <3> QED BY <1>1, <3>2 DEF Turn, ReceivedOn
  <2>3. Wanted(l)' = Wanted(l)
    <3>1. Wanted(l)' = At(l, Turn(l)', 0)
      BY <1>2, <2>1, ReadsMade DEF Wanted, At
    <3> QED BY <2>2, <3>1
  <2>4. UnderWay(l)' /\ ToCome(l)' = ToCome(l)
    BY <1>3, <2>3, NotTaken
  <2>5. PartlyRead(l)'
    BY <1>1, <1>2, <2>1, ReadsMade DEF PartlyRead
  <2>6. Link(l)'
    BY <2>4, <2>5, ReadLink
  <2> QED BY <1>1, <2>1, <2>6, ReaderOrder
<1> QED BY <1>1, <1>4, <1>5 DEF AddToIncoming

LEMMA HeaderReadOrder ==
  ASSUME OneSender, TypeInv, PumpInv, NEW n, NEW m, << n, m >> \in Pairs, HeaderRead(n, m)
  PROVE  PumpInv'
<1>1. PICK l \in Links : l = << m, n >> /\ n = l[2] /\ m = l[1]
  BY ReaderLink
<1>2. PICK p \in Pairs : p = << n, m >> /\ p = << l[2], l[1] >>
  BY <1>1
<1>3. /\ ~crashed /\ reads[p].at = "header" /\ reads[p].got = 1
      /\ UNCHANGED << pushed, out, writes, wire, peers >>
  BY <1>1, <1>2 DEF HeaderRead, writeVars
<1>4. Reading(l) = reads[p] /\ reads[p] \in ReadOf /\ temp[n] \in Temp /\ n \in Nodes /\ l \in Pairs
  BY <1>1, <1>2, LinkTypes DEF Reading
<1>5. Open(l)
  BY <1>3, <1>4 DEF Open
<1>6. PICK k : k = Turn(l)
  OBVIOUS
<1>7. /\ UnderWay(l) /\ PartlyRead(l) /\ Wanted(l) = After(At(l, k, 0)) /\ temp[n].body = << >>
      /\ temp[n].header = [piece |-> At(l, k, 0), size |-> Size[k]] /\ k <= pushed[l]
  <2>1. Wanted(l) = After(At(l, k, 0))
    BY <1>3, <1>4, <1>6 DEF Wanted
  <2>2. UnderWay(l) /\ PartlyRead(l)
    BY <1>3, <1>5, OfReader
  <2> QED BY <1>1, <1>3, <1>4, <1>6, <2>1, <2>2 DEF PartlyRead
<1>8. Size[k] \in Nat /\ temp[n].header.size = Size[k]
  <2>1. temp[n].header.size \in 0..MaxSize
    BY <1>4 DEF Temp
  <2> QED BY <1>7, <2>1, Sizes
<1>9. ASSUME Size[k] = 0, AddToIncoming(n, m) PROVE PumpInv'
  <2>1. Wanted(l) = At(l, Turn(l) + 1, 0)
    BY <1>6, <1>7, <1>9, AfterAt
  <2> QED BY <1>1, <1>3, <1>5, <1>9, <2>1, AddedOrder
<1>10. ASSUME temp' = [temp EXCEPT ![n].body = Resize(@, Size[k])],
              reads' = [reads EXCEPT ![p] = [at |-> "body", want |-> Size[k], got |-> 0]], UNCHANGED in
       PROVE  PumpInv'
  <2>1. PICK z \in Nat : z = Size[k]
    BY <1>8
  <2>2. /\ reads'[p] = [at |-> "body", want |-> z, got |-> 0]
        /\ \A q \in Pairs : q # p => reads'[q] = reads[q]
        /\ \A x \in Nodes : x # n => temp'[x] = temp[x]
        /\ temp'[n].header = temp[n].header /\ temp'[n].body = Resize(temp[n].body, z)
    BY <1>4, <1>10, <2>1 DEF TypeInv, ReadTypes, Temp
  <2>3. Len(temp'[n].body) = z
    BY <2>2, ResizeLength
  <2>4. Reading(l)' = reads'[p] /\ Turn(l)' = k
    BY <1>2, <1>6, <1>10 DEF Reading, Turn, ReceivedOn
  <2>5. Wanted(l)' = Wanted(l)
    BY <1>7, <2>2, <2>4 DEF Wanted
  <2>6. UnderWay(l)' /\ ToCome(l)' = ToCome(l)
    BY <1>3, <1>7, <2>5, NotTaken
  <2>7. PartlyRead(l)'
    BY <1>1, <1>3, <1>7, <2>1, <2>2, <2>3, <2>4 DEF PartlyRead
  <2>8. Link(l)'
    BY <1>3, <1>5, <2>6, <2>7, ReadLink
  <2> QED BY <1>1, <1>2, <1>3, <1>10, <2>2, <2>8, ReaderOrder
<1> QED BY <1>2, <1>8, <1>9, <1>10 DEF HeaderRead

LEMMA ReceiveBodyOrder ==
  ASSUME OneSender, TypeInv, PumpInv, NEW n, NEW m, << n, m >> \in Pairs, ReceiveBody(n, m)
  PROVE  PumpInv'
<1>1. PICK l \in Links : l = << m, n >> /\ n = l[2] /\ m = l[1]
  BY ReaderLink
<1>2. PICK p \in Pairs : p = << n, m >> /\ p = << l[2], l[1] >>
  BY <1>1
<1>3. /\ ~crashed /\ reads[p].at = "body" /\ reads[p].got < reads[p].want /\ wire[l] # << >>
      /\ wire' = [wire EXCEPT ![l] = Tail(@)] /\ reads' = [reads EXCEPT ![p].got = @ + 1]
      /\ UNCHANGED << pushed, out, writes, peers, in >>
  BY <1>1, <1>2 DEF ReceiveBody, writeVars
<1>4. /\ Reading(l) = reads[p] /\ reads[p] \in ReadOf /\ temp[n] \in Temp /\ n \in Nodes /\ l \in Pairs
      /\ reads[p].got \in Nat /\ reads[p].want \in Nat
  BY <1>1, <1>2, LinkTypes DEF Reading
<1>5. Open(l)
  BY <1>3, <1>4 DEF Open
<1>6. PICK k, g, z : k = Turn(l) /\ g \in Nat /\ z \in Nat /\ g = reads[p].got /\ z = reads[p].want /\ g < z
  BY <1>3, <1>4
<1>7. /\ UnderWay(l) /\ PartlyRead(l) /\ z = Size[k] /\ Len(temp[n].body) = z
      /\ temp[n].header.piece = At(l, k, 0) /\ k <= pushed[l]
      /\ \A i \in 1..g : temp[n].body[i] = At(l, k, i)
  <2>1. UnderWay(l) /\ PartlyRead(l)
    BY <1>3, <1>5, OfReader
  <2> QED BY <1>1, <1>3, <1>4, <1>6, <2>1 DEF PartlyRead
<1>8. Head(wire[l]) = At(l, k, g + 1) /\ wire[l][1] = At(l, k, g + 1)
  <2>1. Wanted(l) = After(At(l, k, g))
    BY <1>3, <1>4, <1>6 DEF Wanted
  <2>2. Wanted(l) = At(l, k, g + 1)
    BY <1>6, <1>7, <2>1, AfterAt
  <2> QED BY <1>3, <1>5, <2>2, OfReader
<1>9. temp' = [temp EXCEPT ![n].body[g + 1] = At(l, k, g + 1)]
  <2>1. temp' = [temp EXCEPT ![n].body[reads[p].got + 1] = Head(wire[l])]
    BY <1>1, <1>2, <1>6, <1>7 DEF ReceiveBody
  <2> QED BY <1>6, <1>8, <2>1
<1>10. PICK b \in Seq(Bytes) : b = temp[n].body
  BY <1>4 DEF Temp
<1>11. g + 1 \in 1..Len(b) /\ Len(b) = z
  BY <1>6, <1>7, <1>10
<1>12. At(l, k, g + 1) \in Bytes
  <2>1. Head(wire[l]) \in Piece
    BY <1>3, LinkTypes, HeadTailProperties
  <2> QED BY <1>8, <2>1 DEF Bytes
<1>13. PICK c \in Seq(Bytes) : c = [b EXCEPT ![g + 1] = At(l, k, g + 1)]
  BY <1>11, <1>12, ExceptSeq
<1>14. /\ Len(c) = z /\ c[g + 1] = At(l, k, g + 1) /\ \A i \in 1..g : c[i] = b[i]
  BY <1>6, <1>11, <1>12, <1>13, ExceptSeq
<1>15. /\ temp'[n].header = temp[n].header /\ temp'[n].body = c
       /\ \A x \in Nodes : x # n => temp'[x] = temp[x]
  BY <1>4, <1>9, <1>10, <1>13 DEF Temp, TypeInv, ReadTypes
<1>16. /\ reads'[p].at = "body" /\ reads'[p].got = g + 1 /\ reads'[p].want = z
       /\ \A q \in Pairs : q # p => reads'[q] = reads[q]
  BY <1>3, <1>4, <1>6 DEF ReadOf, Read, TypeInv, ReadTypes
<1>17. wire'[l] = Tail(wire[l]) /\ \A y \in Pairs : y # l => wire'[y] = wire[y]
  BY <1>3, <1>4 DEF TypeInv, WireTypes
<1>18. Reading(l)' = reads'[p] /\ Turn(l)' = k
  BY <1>2, <1>3, <1>6 DEF Reading, Turn, ReceivedOn
<1>19. Wanted(l)' = After(wire[l][1])
  BY <1>8, <1>16, <1>18 DEF Wanted
<1>20. UnderWay(l)' /\ ToCome(l)' = ToCome(l)
  BY <1>3, <1>7, <1>17, <1>19, Taken
<1>21. PartlyRead(l)'
  <2>1. ASSUME NEW i \in 1..g + 1 PROVE c[i] = At(l, k, i)
    <3>1. CASE i = g + 1
      BY <1>14, <3>1
    <3>2. CASE i # g + 1
      <4>1. i \in 1..g
        BY <1>6, <3>2
      <4> QED BY <1>7, <1>10, <1>14, <4>1
    <3> QED BY <3>1, <3>2
  <2>2. PICK u, r : u = temp'[n] /\ r = reads'[p]
    OBVIOUS
  <2>3. u.header.piece = At(l, k, 0) /\ u.body = c /\ r.at = "body" /\ r.got = g + 1 /\ r.want = Size[k]
        /\ Len(u.body) = Size[k]
    BY <1>7, <1>14, <1>15, <1>16, <2>2
  <2>4. Reading(l)' = r /\ Turn(l)' = k /\ temp'[l[2]] = u /\ k <= pushed'[l]
    BY <1>1, <1>3, <1>7, <1>18, <2>2
  <2> QED BY <2>1, <2>3, <2>4 DEF PartlyRead
<1>22. Link(l)'
  BY <1>3, <1>5, <1>20, <1>21, ReadLink
<1> QED BY <1>1, <1>2, <1>3, <1>15, <1>16, <1>17, <1>22, ReaderOrder

LEMMA BodyReadOrder ==
  ASSUME OneSender, TypeInv, PumpInv, NEW n, NEW m, << n, m >> \in Pairs, BodyRead(n, m)
  PROVE  PumpInv'
<1>1. PICK l \in Links : l = << m, n >> /\ n = l[2] /\ m = l[1]
  BY ReaderLink
<1>2. PICK p \in Pairs : p = << n, m >> /\ p = << l[2], l[1] >>
  BY <1>1
<1>3. /\ ~crashed /\ reads[p].at = "body" /\ reads[p].got = reads[p].want
      /\ UNCHANGED << pushed, out, writes, wire, peers >> /\ AddToIncoming(n, m)
  BY <1>1, <1>2 DEF BodyRead, writeVars
<1>4. Reading(l) = reads[p] /\ Open(l) /\ reads[p].want \in Nat
  BY <1>2, <1>3, LinkTypes DEF Reading, Open
<1>5. PICK k, z : k = Turn(l) /\ z \in Nat /\ z = reads[p].want
  BY <1>4
<1>6. z = Size[k]
  <2>1. PartlyRead(l)
    BY <1>3, <1>4, OfReader
  <2> QED BY <1>3, <1>4, <1>5, <2>1 DEF PartlyRead
<1>7. Wanted(l) = After(At(l, k, z))
  BY <1>3, <1>4, <1>5 DEF Wanted
<1>8. Wanted(l) = At(l, Turn(l) + 1, 0)
  BY <1>5, <1>6, <1>7, AfterAt
<1> QED BY <1>1, <1>3, <1>4, <1>8, AddedOrder

LEMMA ReadFailedOrder ==
  ASSUME TypeInv, PumpInv, NEW p \in Pairs, ReadFailed(p[1], p[2])
  PROVE  PumpInv'
<1>1. PICK n \in Nodes, m \in Nodes : n = p[1] /\ m = p[2] /\ p = << n, m >>
  BY LinksTyped
<1>2. /\ ~crashed /\ reads' = [reads EXCEPT ![p] = Closed] /\ peers' = [peers EXCEPT ![n] = @ \ {m}]
      /\ UNCHANGED << pushed, out, writes, wire, temp, in >>
  BY <1>1 DEF ReadFailed, RemoveSocket, writeVars
<1>3. \A x \in Nodes : peers'[x] \subseteq peers[x]
  BY <1>2 DEF TypeInv, RestTypes
<1>4. reads'[p] = Closed /\ \A q \in Pairs : q # p => reads'[q] = reads[q]
  BY <1>2 DEF TypeInv, ReadTypes
<1>5. ASSUME NEW l \in Links PROVE Link(l)'
  <2>1. l[1] \in Nodes /\ << l[2], l[1] >> \in Pairs
    BY LinksTyped
  <2>2. CASE << l[2], l[1] >> = p
    BY <1>4, <2>2, ReadsMade DEF Link, Open, Reading
  <2>3. CASE << l[2], l[1] >> # p
    <3>1. Link(l) /\ peers'[l[1]] \subseteq peers[l[1]]
          /\ reads'[<< l[2], l[1] >>] = reads[<< l[2], l[1] >>]
      BY <1>2, <1>3, <1>4, <2>1, <2>3 DEF PumpInv
    <3> QED BY <1>2, <3>1, LinkSame
  <2> QED BY <2>2, <2>3
<1> QED BY <1>2, <1>5, QueuedKept DEF PumpInv

---------------------------------------------------------------------------
(* The invariant, and the refinement. *)

LEMMA PumpInit == TypeInv /\ Init => PumpInv
<1> SUFFICES ASSUME TypeInv, Init PROVE PumpInv
  OBVIOUS
<1>1. ASSUME NEW n \in Nodes PROVE Queued(n)
  <2>1. out[n] = << >> /\ writes[n] = << >>
    BY DEF Init
  <2>2. \A i : i \notin 1..Len(out[n])
    BY <2>1
  <2> QED BY <2>1, <2>2 DEF Queued, InOrder, AtFront
<1>2. ASSUME NEW l \in Links PROVE Link(l)
  <2>1. /\ l \in Pairs /\ << l[2], l[1] >> \in Pairs /\ l[1] \in Nodes /\ l[2] \in Nodes
    BY LinksTyped
  <2>2. /\ wire[l] = << >> /\ Reading(l) = ReadHeader /\ ReceivedOn(l) = << >> /\ temp[l[2]] = EmptyTemp
        /\ out[l[1]] = << >> /\ writes[l[1]] = << >> /\ pushed[l] = 0
    BY <2>1 DEF Init, Reading, ReceivedOn
  <2>3. Turn(l) = 1
    BY <2>2 DEF Turn
  <2>4. Wanted(l) = At(l, 1, 0)
    BY <2>2, <2>3, ReadsMade DEF Wanted
  <2>5. UnderWay(l)
    <3>1. \A i : i \notin 1..Len(wire[l]) /\ i \notin 1..Len(wire[l]) - 1
      BY <2>2
    <3> QED BY <2>2, <3>1 DEF UnderWay
  <2>6. PartlyRead(l)
    BY <2>2, ReadsMade DEF PartlyRead
  <2>7. Pending(out[l[1]], l, 1)
    <3>1. \A k : ~InQueue(out[l[1]], l, k)
      BY <2>2 DEF InQueue
    <3>2. 1 \in 1..pushed[l] + 1 /\ \A k \in 1..MaxPushed : ~(1 <= k /\ k <= pushed[l])
      BY <2>2
    <3> QED BY <3>1, <3>2 DEF Pending
  <2>8. UnsentFrom(l, 1)
    BY <2>2, <2>4, <2>7 DEF UnsentFrom, Writing, ToCome
  <2>9. 1 \in 1..MaxPushed + 1
    BY Sizes
  <2> QED BY <2>5, <2>6, <2>8, <2>9 DEF Link, Unsent
<1> QED BY <1>1, <1>2 DEF PumpInv

LEMMA PumpStep ==
  ASSUME OneSender, Prompt
  PROVE  TypeInv /\ PumpInv /\ [Next]_vars => PumpInv'
<1> SUFFICES ASSUME TypeInv, PumpInv, [Next]_vars PROVE PumpInv'
  OBVIOUS
<1>0. TypeInv'
  BY TypeStep
<1>1. CASE UNCHANGED vars
  <2>1. UNCHANGED << pushed, out, writes, wire, peers, temp, reads, in, crashed >>
    BY <1>1 DEF vars
  <2>2. ASSUME ~crashed, NEW l \in Links PROVE Link(l)'
    BY <2>1, <2>2, LinkSame DEF PumpInv
  <2> QED BY <2>1, <2>2, QueuedKept DEF PumpInv
<1>2. ASSUME NEW l \in Links, PushMessage(l) \/ Break(l) PROVE PumpInv'
  BY <1>0, <1>2, PushOrder, BreakOrder
<1>3. ASSUME NEW n \in Nodes, WriteStep(n) PROVE PumpInv'
  BY <1>0, <1>3, CycleOrder, WritePieceOrder, WrittenOrder, WriteFailedOrder DEF WriteStep
<1>4. ASSUME NEW p \in Pairs, ReadStep(p[1], p[2]) PROVE PumpInv'
  <2>1. << p[1], p[2] >> \in Pairs
    BY LinksTyped
  <2> QED BY <1>4, <2>1, ReceiveHeaderOrder, HeaderReadOrder, ReceiveBodyOrder, BodyReadOrder,
             ReadFailedOrder DEF ReadStep
<1> QED BY <1>1, <1>2, <1>3, <1>4 DEF Next

\* What a node adds to in_msgs when a message is complete is that message.
LEMMA CompleteIsIntact ==
  ASSUME TypeInv, PumpInv, ~crashed, NEW l \in Links,
         \/ Reading(l).at = "header" /\ Reading(l).got = 1 /\ temp[l[2]].header.size = 0
         \/ Reading(l).at = "body" /\ Reading(l).got = Reading(l).want
  PROVE  Message(temp[l[2]]) = Intact(l, Turn(l)) /\ Len(ReceivedOn(l)) < pushed[l]
<1>1. PartlyRead(l)
  BY OfReader DEF Open
<1>2. PICK k, t : k \in Nat /\ k = Turn(l) /\ t = temp[l[2]] /\ t \in Temp
  BY LinkTypes
<1>3. k <= pushed[l] /\ t.header.piece = At(l, k, 0)
  BY <1>1, <1>2 DEF PartlyRead
<1>4. Len(ReceivedOn(l)) < pushed[l]
  <2>1. Len(ReceivedOn(l)) \in Nat
    BY LinkTypes, LenProperties
  <2>2. PICK r, P : r \in Nat /\ P \in Nat /\ r = Len(ReceivedOn(l)) /\ P = pushed[l]
    BY <2>1, PushedNat
  <2>3. k = r + 1
    BY <1>2, <2>2 DEF Turn
  <2> QED BY <1>3, <2>2, <2>3
<1>5. t.body \in Seq(Bytes) /\ Len(t.body) = Size[k] /\ \A i \in 1..Size[k] : t.body[i] = At(l, k, i)
  <2>1. t.body \in Seq(Bytes)
    BY <1>2 DEF Temp
  <2>2. CASE Reading(l).at = "header"
    <3>1. Size[k] = 0 /\ t.body = << >>
      BY <1>1, <1>2, <2>2 DEF PartlyRead
    <3>2. Len(t.body) = Size[k] /\ 1..Size[k] = {}
      BY <3>1
    <3> QED BY <2>1, <3>2
  <2>3. CASE Reading(l).at = "body"
    BY <1>1, <1>2, <2>1, <2>3 DEF PartlyRead
  <2> QED BY <2>2, <2>3
<1>6. t.body = [i \in 1..Size[k] |-> At(l, k, i)]
  <2>1. PICK b \in Seq(Bytes) : b = t.body
    BY <1>5
  <2>2. b = [i \in 1..Len(b) |-> b[i]]
    OBVIOUS
  <2> QED BY <1>5, <2>1, <2>2
<1>7. Message(t) = Intact(l, k)
  BY <1>3, <1>6 DEF Message, Intact, At
<1> QED BY <1>2, <1>4, <1>7

\* Received, seen from the abstract specification.
Inbox == [l \in Links |-> ReceivedOn(l)]

LEMMA AddedIsReceived ==
  ASSUME TypeInv, PumpInv, ~crashed, NEW l \in Links,
         \/ Reading(l).at = "header" /\ Reading(l).got = 1 /\ temp[l[2]].header.size = 0
         \/ Reading(l).at = "body" /\ Reading(l).got = Reading(l).want,
         AddToIncoming(l[2], l[1]), UNCHANGED pushed
  PROVE  [Delivery!Next]_(Delivery!channelVars)
<1>1. PICK p \in Pairs, n \in Nodes : p = << l[2], l[1] >> /\ n = l[2]
  BY LinksTyped
<1>2. CASE UNCHANGED in
  BY <1>2 DEF Delivery!channelVars, ReceivedOn
<1>3. CASE in' = [in EXCEPT ![p] = Append(@, Message(temp[n]))]
  <2>1. in \in [Pairs -> Seq(Received)]
    BY DEF TypeInv, ReadTypes
  <2>2. Message(temp[n]) = Intact(l, Len(Inbox[l]) + 1) /\ Len(Inbox[l]) < pushed[l]
    BY <1>1, CompleteIsIntact DEF Inbox, Turn
  <2>3. in'[p] = Append(in[p], Message(temp[n])) /\ \A q \in Pairs : q # p => in'[q] = in[q]
    BY <1>3, <2>1
  <2>4. ASSUME NEW y \in Links, y # l PROVE ReceivedOn(y)' = ReceivedOn(y)
    <3>1. << y[2], y[1] >> \in Pairs /\ << y[2], y[1] >> # p
      BY <1>1, <2>4, LinksTyped
    <3> QED BY <2>3, <3>1 DEF ReceivedOn
  <2>5. Inbox' = [Inbox EXCEPT ![l] = Append(Inbox[l], Intact(l, Len(Inbox[l]) + 1))]
    BY <1>1, <2>2, <2>3, <2>4 DEF Inbox, ReceivedOn
  <2>6. Delivery!Receive(l)
    BY <2>2, <2>5 DEF Delivery!Receive, Inbox
  <2> QED BY <2>6 DEF Delivery!Next
<1> QED BY <1>1, <1>2, <1>3 DEF AddToIncoming

LEMMA StepRefines ==
  TypeInv /\ PumpInv /\ [Next]_vars => [Delivery!Next]_(Delivery!channelVars)
<1> SUFFICES ASSUME TypeInv, PumpInv, [Next]_vars PROVE [Delivery!Next]_(Delivery!channelVars)
  OBVIOUS
<1>1. CASE UNCHANGED << pushed, in >>
  BY <1>1 DEF Delivery!channelVars, ReceivedOn
<1>2. ASSUME NEW l \in Links, PushMessage(l) PROVE [Delivery!Next]_(Delivery!channelVars)
  <2>1. Delivery!Push(l)
    BY <1>2 DEF PushMessage, readVars, Delivery!Push, ReceivedOn
  <2> QED BY <2>1 DEF Delivery!Next
<1>3. ASSUME NEW p \in Pairs, NEW n, NEW m, p = << n, m >>, HeaderRead(n, m) \/ BodyRead(n, m)
      PROVE  [Delivery!Next]_(Delivery!channelVars)
  <2>1. PICK l \in Links : l = << m, n >> /\ n = l[2] /\ m = l[1]
    BY <1>3, ReaderLink
  <2>2. Reading(l) = reads[p] /\ ~crashed /\ UNCHANGED pushed
    BY <1>3, <2>1 DEF Reading, HeaderRead, BodyRead, writeVars
  <2>3. CASE HeaderRead(n, m)
    <3>1. CASE temp[n].header.size = 0
      <4>1. AddToIncoming(n, m) /\ reads[p].at = "header" /\ reads[p].got = 1
        BY <1>3, <2>3, <3>1 DEF HeaderRead
      <4> QED BY <2>1, <2>2, <3>1, <4>1, AddedIsReceived
    <3>2. CASE temp[n].header.size # 0
      BY <1>1, <2>2, <2>3, <3>2 DEF HeaderRead
    <3> QED BY <3>1, <3>2
  <2>4. CASE BodyRead(n, m)
    <3>1. AddToIncoming(n, m) /\ reads[p].at = "body" /\ reads[p].got = reads[p].want
      BY <1>3, <2>4 DEF BodyRead
    <3> QED BY <2>1, <2>2, <3>1, AddedIsReceived
  <2> QED BY <1>3, <2>3, <2>4
<1>4. ASSUME NEW l \in Links, Break(l) PROVE UNCHANGED << pushed, in >>
  BY <1>4 DEF Break, writeVars, readVars
<1>5. ASSUME NEW n \in Nodes, WriteStep(n) PROVE UNCHANGED << pushed, in >>
  BY <1>5 DEF WriteStep, Cycle, WritePiece, Written, WriteFailed, readVars
<1>6. ASSUME NEW p \in Pairs, ReceiveHeader(p[1], p[2]) \/ ReceiveBody(p[1], p[2]) \/ ReadFailed(p[1], p[2])
      PROVE  UNCHANGED << pushed, in >>
  BY <1>6 DEF ReceiveHeader, ReceiveBody, ReadFailed, writeVars
<1>7. ASSUME NEW p \in Pairs, HeaderRead(p[1], p[2]) \/ BodyRead(p[1], p[2])
      PROVE  [Delivery!Next]_(Delivery!channelVars)
  <2>1. p = << p[1], p[2] >>
    BY LinksTyped
  <2> QED BY <1>3, <1>7, <2>1
<1>8. CASE UNCHANGED vars
  BY <1>1, <1>8 DEF vars
<1> QED BY <1>1, <1>2, <1>4, <1>5, <1>6, <1>7, <1>8 DEF Next, ReadStep

\* When no node is written to by two others, and what is pushed in a cycle is
\* written before the next: messages arrive whole, once and in the order in
\* which they were pushed, whichever connections break in between.
THEOREM Refinement == ASSUME OneSender, Prompt PROVE Spec => DeliversInOrder
<1>1. Init => Delivery!Init
  <2> SUFFICES ASSUME Init PROVE Delivery!Init
    OBVIOUS
  <2>1. \A l \in Links : ReceivedOn(l) = << >>
    BY LinksTyped DEF Init, ReceivedOn
  <2> QED BY <2>1 DEF Init, Delivery!Init
<1>2. Init => TypeInv /\ PumpInv
  BY InitTypes, PumpInit
<1>3. TypeInv /\ [Next]_vars => TypeInv'
  BY TypeStep
<1>4. TypeInv /\ PumpInv /\ [Next]_vars => PumpInv'
  BY PumpStep
<1>5. TypeInv /\ PumpInv /\ [Next]_vars => [Delivery!Next]_(Delivery!channelVars)
  BY StepRefines
<1> QED BY <1>1, <1>2, <1>3, <1>4, <1>5, PTL DEF Spec, DeliversInOrder, Delivery!Spec

=============================================================================
