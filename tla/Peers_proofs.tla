---------------------------- MODULE Peers_proofs ----------------------------
(***************************************************************************)
(* What is proved of Peers, for any number of hosts, songs and sockets.    *)
(***************************************************************************)
EXTENDS Peers, CommunityFacts, FunctionTheorems

Adding == IF gtk.pc = "adding" THEN 1 ELSE 0
Counting == IF io = "counting" THEN 1 ELSE 0

\* Every socket has been counted, or is about to be; and who looks at
\* current_id - 1 does so after a socket has been counted.
Counted == /\ socks \in Seq(Socket) /\ Len(socks) <= MaxSockets
           /\ currentId \in Nat \ {0}
           /\ currentId + Adding + Counting = Len(socks) + 1
           /\ gtk.pc = "resolving" \/ io = "accepted" \/ pending # {} => currentId >= 2
Threads == /\ gtk \in [pc : {"rest", "adding", "resolving"}, id : Nat, host : Hosts \cup {"none"}]
           /\ gtk.pc # "rest" => gtk.host \in Hosts
           /\ io \in {"run", "counting", "accepted"}
           /\ listening \in BOOLEAN /\ crashed \in BOOLEAN
           /\ pending \subseteq [id : Nat, sock : Sockets] /\ ips \in Seq(Hosts)
Maps == /\ peers \in [DOMAIN peers -> Sockets] /\ DOMAIN peers \subseteq 1..currentId
        /\ reverse \in [DOMAIN reverse -> 1..currentId] /\ DOMAIN reverse \subseteq Sockets
        /\ ipMap \in [DOMAIN ipMap -> Address] /\ DOMAIN ipMap \subseteq 1..currentId
Queues == /\ asks \in Seq(1..currentId)
          /\ inbox \in Seq([id : 1..currentId, songs : SUBSET Songs])
Shown == /\ DOMAIN tracks \subseteq Songs \ Local
         /\ \A c \in DOMAIN tracks : tracks[c] \in Seq(1..currentId) /\ tracks[c] # << >>
TypeInv == Counted /\ Threads /\ Maps /\ Queues /\ Shown

\* One connection at a time: the ids are the numbers of the sockets.
Alone == /\ gtk.pc # "rest" => io = "run" /\ pending = {}
         /\ io # "run" => pending = {}
         /\ gtk.pc = "resolving" => gtk.id = Len(socks)
         /\ \A p \in pending : p.id = Len(socks) /\ p.sock = Len(socks)
         /\ gtk.pc = "adding" => socks[Len(socks)].state # "open"
         /\ io # "run" => socks[Len(socks)].state # "new"
Same == /\ \A id \in DOMAIN peers : peers[id] = id /\ id \in DOMAIN reverse
        /\ \A s \in DOMAIN reverse : reverse[s] = s
        /\ \A s \in Sockets : socks[s].state = "open" => s \in DOMAIN peers
\* An address is that of the socket with its id, whatever became of it.
Addressed == \A id \in DOMAIN ipMap : id \in Sockets /\ ipMap[id] = AddressOf(id)
\* A connection that is being made has not been asked for its database.
Making(s) == socks[s].state = "new" \/ (io # "run" /\ s = Len(socks))
Asked == /\ \A i \in 1..Len(asks) : asks[i] < currentId
         /\ \A s \in Sockets :
              IF Making(s) THEN socks[s].asked = 0 /\ Unwritten(s) = 0
              ELSE socks[s].state = "open" => socks[s].asked + Unwritten(s) = 1
OwnSongs(id, songs) == id < currentId /\ songs \subseteq Owns[socks[id].host]
Owned == /\ \A i \in 1..Len(inbox) : OwnSongs(inbox[i].id, inbox[i].songs)
         /\ \A c \in DOMAIN tracks : \A i \in 1..Len(tracks[c]) : OwnSongs(tracks[c][i], {c})
PeersInv == ~crashed => Alone /\ Same /\ Addressed /\ Asked /\ Owned

---------------------------------------------------------------------------
(* Operators. *)

\* remove_network_tracks leaves a list with one id less, and no new one.
LEMMA RemoveIdFacts ==
  ASSUME NEW S, NEW ids \in Seq(S), ids # << >>, NEW id
  PROVE  /\ RemoveId(ids, id) \in Seq(S)
         /\ Len(RemoveId(ids, id)) = Len(ids) - 1
         /\ \A i \in 1..Len(RemoveId(ids, id)) :
              \E j \in 1..Len(ids) : RemoveId(ids, id)[i] = ids[j]
<1> DEFINE others(i) == Cardinality({j \in 1..i : ids[j] # id})
<1> DEFINE late(k) == {i \in DOMAIN ids : others(i) >= k}
<1> DEFINE source(k) == IF k <= others(Len(ids)) THEN Min(late(k)) ELSE k + 1
<1> DEFINE n == Len(ids)
<1>1. n \in Nat \ {0} /\ DOMAIN ids = 1..n /\ \A j \in 1..n : ids[j] \in S
  BY EmptySeq, LenProperties
<1>2. RemoveId(ids, id) = [k \in 1..n - 1 |-> ids[source(k)]]
  BY DEF RemoveId
<1>3. ASSUME NEW k \in 1..n - 1 PROVE source(k) \in 1..n
  <2> HIDE DEF n, others
  <2>1. CASE k <= others(n)
    <3>1. n \in late(k)
      BY <1>1, <2>1
    <3>2. late(k) \in SUBSET Nat /\ late(k) # {}
      BY <1>1, <3>1
    <3> HIDE DEF late
    <3>3. Min(late(k)) \in late(k)
      BY <3>2, MinNat
    <3>4. Min(late(k)) \in 1..n
      BY <1>1, <3>3 DEF late
    <3> QED BY <2>1, <3>4 DEF n
  <2>2. CASE ~(k <= others(n))
    <3>1. source(k) = k + 1
      BY <2>2 DEF n
    <3>2. k + 1 \in 1..n
      BY <1>1
    <3> QED BY <3>1, <3>2
  <2> QED BY <2>1, <2>2
<1> DEFINE r == RemoveId(ids, id)
<1> HIDE DEF source
<1>4. r \in [1..n - 1 -> S] /\ \A k \in 1..n - 1 : r[k] = ids[source(k)]
  BY <1>1, <1>2, <1>3
<1>5. n - 1 \in Nat
  BY <1>1
<1>6. r \in Seq(S) /\ Len(r) = n - 1
  <2> HIDE DEF r, n
  <2> QED BY <1>4, <1>5, IsASeq, LenProperties
<1> QED BY <1>3, <1>4, <1>6

LEMMA SocketSet ==
  ASSUME NEW ss \in Seq(Socket), NEW s \in 1..Len(ss), NEW v \in Socket
  PROVE  /\ [ss EXCEPT ![s] = v] \in Seq(Socket) /\ Len([ss EXCEPT ![s] = v]) = Len(ss)
         /\ [ss EXCEPT ![s] = v][s] = v
         /\ \A t \in 1..Len(ss) : t # s => [ss EXCEPT ![s] = v][t] = ss[t]
BY ExceptSeq, LenProperties

\* What becomes of the sockets when one of them changes, and nothing else.
Turned(s) == /\ socks' \in Seq(Socket) /\ Len(socks') = Len(socks)
             /\ \A t \in Sockets : /\ socks'[t].host = socks[t].host
                                   /\ socks'[t].dialled = socks[t].dialled
                                   /\ t # s => socks'[t] = socks[t]

LEMMA SocketTurned ==
  ASSUME socks \in Seq(Socket), NEW s \in Sockets, NEW x \in {"new", "open", "closed"}
  PROVE  /\ socks' = [socks EXCEPT ![s].state = x] =>
              /\ Turned(s)
              /\ socks'[s] = [socks[s] EXCEPT !.state = x]
         /\ socks' = [socks EXCEPT ![s].asked = @ + 1] =>
              /\ Turned(s)
              /\ socks'[s] = [socks[s] EXCEPT !.asked = @ + 1]
         /\ socks' = [socks EXCEPT ![s].answered = @ + 1] =>
              /\ Turned(s)
              /\ socks'[s] = [socks[s] EXCEPT !.answered = @ + 1]
<1>1. socks[s] \in Socket
  BY ElementOfSeq DEF Sockets
<1>2. /\ [socks[s] EXCEPT !.state = x] \in Socket
      /\ [socks[s] EXCEPT !.asked = @ + 1] \in Socket
      /\ [socks[s] EXCEPT !.answered = @ + 1] \in Socket
  <2> DEFINE r == socks[s]
  <2>1. r.asked \in Nat /\ r.answered \in Nat
    BY <1>1 DEF Socket
  <2>2. r.asked + 1 \in Nat /\ r.answered + 1 \in Nat
    BY <2>1
  <2> HIDE DEF r
  <2>3. [r EXCEPT !.state = x] \in Socket
    BY <1>1 DEF Socket, r
  <2>4. [r EXCEPT !.asked = r.asked + 1] \in Socket
    BY <1>1, <2>2 DEF Socket, r
  <2>5. [r EXCEPT !.answered = r.answered + 1] \in Socket
    BY <1>1, <2>2 DEF Socket, r
  <2> QED BY <2>3, <2>4, <2>5 DEF r
<1>3. \A v \in Socket : v.host = socks[s].host /\ v.dialled = socks[s].dialled
        /\ socks' = [socks EXCEPT ![s] = v] => Turned(s) /\ socks'[s] = v
  BY SocketSet DEF Turned, Sockets
<1>4. /\ [socks[s] EXCEPT !.state = x].host = socks[s].host
      /\ [socks[s] EXCEPT !.asked = @ + 1].host = socks[s].host
      /\ [socks[s] EXCEPT !.answered = @ + 1].host = socks[s].host
      /\ [socks[s] EXCEPT !.state = x].dialled = socks[s].dialled
      /\ [socks[s] EXCEPT !.asked = @ + 1].dialled = socks[s].dialled
      /\ [socks[s] EXCEPT !.answered = @ + 1].dialled = socks[s].dialled
  BY <1>1 DEF Socket
<1> QED BY <1>2, <1>3, <1>4

\* add_to_peers.
LEMMA SocketAdded ==
  ASSUME socks \in Seq(Socket), NEW v \in Socket, socks' = Append(socks, v)
  PROVE  /\ socks' \in Seq(Socket) /\ Len(socks') = Len(socks) + 1
         /\ Len(socks) \in Nat /\ socks'[Len(socks) + 1] = v
         /\ \A t \in Sockets : socks'[t] = socks[t]
BY AppendProperties, LenProperties DEF Sockets

---------------------------------------------------------------------------
(* The type invariant. *)

LEMMA Sizes == ASSUME TypeInv
  PROVE  /\ Len(socks) \in Nat /\ Len(socks) <= MaxSockets /\ MaxSockets \in Nat
         /\ currentId \in Nat \ {0} /\ currentId \in 1..MaxSockets + 1
         /\ currentId <= Len(socks) + 1
BY LenProperties, PeersAssumption DEF TypeInv, Counted, Adding, Counting

LEMMA CountedKept ==
  ASSUME TypeInv, UNCHANGED << currentId, gtk, io >>, pending' \subseteq pending,
         socks' \in Seq(Socket), Len(socks') = Len(socks)
  PROVE  Counted'
BY DEF TypeInv, Counted, Adding, Counting

LEMMA Around ==
  ASSUME NEW n \in Nat, NEW k \in 1..n
  PROVE  /\ k - 1 \in Int /\ k + 1 \in Int /\ n \in Int
         /\ \A i \in 1..(k - 1) : i \in 1..n
         /\ \A i \in (k + 1)..n : i \in 1..n
OBVIOUS

LEMMA RowRemoved ==
  ASSUME NEW S, NEW row \in Seq(S), NEW k \in DOMAIN row
  PROVE  RemoveAt(row, k) \in Seq(S) /\ row[k] \in S
<1>1. PICK n \in Nat : n = Len(row)
  BY LenProperties
<1>2. k \in 1..n /\ DOMAIN row = 1..n /\ \A i \in 1..n : row[i] \in S
  BY <1>1, LenProperties, ElementOfSeq
<1>3. k - 1 \in Int /\ k + 1 \in Int /\ n \in Int
      /\ (\A i \in 1..(k - 1) : i \in 1..n) /\ (\A i \in (k + 1)..n : i \in 1..n)
  BY <1>2, Around
<1>4. SubSeq(row, 1, k - 1) \in Seq(S) /\ SubSeq(row, k + 1, n) \in Seq(S)
  BY <1>2, <1>3, SubSeqProperties
<1> QED BY <1>1, <1>2, <1>4, ConcatProperties DEF RemoveAt

LEMMA ThreadsKept ==
  ASSUME TypeInv, UNCHANGED << gtk, io >>, listening' \in BOOLEAN, crashed' \in BOOLEAN,
         ips' \in Seq(Hosts), pending' \subseteq pending, Len(socks') = Len(socks)
  PROVE  Threads'
<1>1. Sockets' = Sockets
  BY DEF Sockets
<1> QED BY <1>1 DEF TypeInv, Threads

LEMMA MapsKept ==
  ASSUME TypeInv, UNCHANGED << peers, reverse, ipMap >>,
         Len(socks') \in Nat, Len(socks) <= Len(socks'),
         currentId' \in Nat, currentId <= currentId'
  PROVE  Maps'
<1>1. Sockets \subseteq Sockets'
  BY Sizes DEF Sockets
<1>2. 1..currentId \subseteq 1..currentId'
  BY Sizes
<1> QED BY <1>1, <1>2 DEF TypeInv, Maps

LEMMA QueuesKept ==
  ASSUME TypeInv, UNCHANGED << asks, inbox >>, currentId' \in Nat, currentId <= currentId'
  PROVE  Queues'
<1>1. 1..currentId \subseteq 1..currentId'
  BY Sizes
<1>2. [id : 1..currentId, songs : SUBSET Songs] \subseteq [id : 1..currentId', songs : SUBSET Songs]
  BY <1>1
<1> QED BY <1>1, <1>2, SeqMonotonic DEF TypeInv, Queues

LEMMA ShownKept ==
  ASSUME TypeInv, UNCHANGED tracks, currentId' \in Nat, currentId <= currentId'
  PROVE  Shown'
<1>1. 1..currentId \subseteq 1..currentId'
  BY Sizes
<1>2. Seq(1..currentId) \subseteq Seq(1..currentId')
  BY <1>1, SeqMonotonic
<1> QED BY <1>2 DEF TypeInv, Shown

LEMMA TracksRemoved ==
  ASSUME TypeInv, NEW id, RemoveNetworkTracks(id)
  PROVE  /\ DOMAIN tracks' \subseteq DOMAIN tracks
         /\ \A c \in DOMAIN tracks' :
              /\ tracks'[c] \in Seq(1..currentId) /\ tracks'[c] # << >>
              /\ \A i \in 1..Len(tracks'[c]) :
                   \E j \in 1..Len(tracks[c]) : tracks'[c][i] = tracks[c][j]
<1> DEFINE after == [c \in DOMAIN tracks |-> RemoveId(tracks[c], id)]
<1>1. tracks' = [c \in {x \in DOMAIN tracks : after[x] # << >>} |-> after[c]]
  BY DEF RemoveNetworkTracks
<1>2. \A c \in DOMAIN tracks :
        /\ after[c] \in Seq(1..currentId)
        /\ \A i \in 1..Len(after[c]) : \E j \in 1..Len(tracks[c]) : after[c][i] = tracks[c][j]
  BY RemoveIdFacts DEF TypeInv, Shown
<1> HIDE DEF after
<1> QED BY <1>1, <1>2

\* remove_socket, of either kind.
LEMMA RemovedTypes ==
  ASSUME TypeInv, NEW id, NEW s \in Sockets, Removed(id, s), UNCHANGED currentId
  PROVE  /\ Turned(s) /\ socks'[s] = [socks[s] EXCEPT !.state = "closed"]
         /\ peers' \in [DOMAIN peers' -> Sockets] /\ DOMAIN peers' = DOMAIN peers \ {id}
         /\ \A i \in DOMAIN peers' : peers'[i] = peers[i]
         /\ reverse' \in [DOMAIN reverse' -> 1..currentId] /\ DOMAIN reverse' = DOMAIN reverse \ {s}
         /\ \A i \in DOMAIN reverse' : reverse'[i] = reverse[i]
         /\ DOMAIN peers' \subseteq 1..currentId /\ DOMAIN reverse' \subseteq Sockets
         /\ Sockets' = Sockets
         /\ crashed' \in BOOLEAN
         /\ Shown'
<1>1. Turned(s) /\ socks'[s] = [socks[s] EXCEPT !.state = "closed"]
  BY SocketTurned DEF TypeInv, Counted, Removed, Close
<1>2. Shown'
  BY TracksRemoved DEF Removed, Shown, TypeInv
<1>3. peers' = Erase(peers, id) /\ reverse' = Erase(reverse, s) /\ crashed' \in BOOLEAN
  BY DEF Removed
<1>4. Sockets' = Sockets
  BY <1>1 DEF Turned, Sockets
<1> QED BY <1>1, <1>2, <1>3, <1>4 DEF TypeInv, Maps, Erase

LEMMA RemoveSocketTypes ==
  ASSUME TypeInv, NEW id, RemoveSocketOfId(id), UNCHANGED currentId
  PROVE  /\ socks' \in Seq(Socket) /\ Len(socks') = Len(socks)
         /\ peers' \in [DOMAIN peers' -> Sockets'] /\ DOMAIN peers' \subseteq 1..currentId
         /\ reverse' \in [DOMAIN reverse' -> 1..currentId] /\ DOMAIN reverse' \subseteq Sockets'
         /\ crashed' \in BOOLEAN
         /\ Shown'
<1>1. CASE id \notin DOMAIN peers
  <2>1. UNCHANGED << socks, peers, reverse, tracks, crashed >>
    BY <1>1 DEF RemoveSocketOfId
  <2>2. Shown'
    BY <2>1 DEF TypeInv, Shown
  <2>3. Sockets' = Sockets
    BY <2>1 DEF Sockets
  <2> QED BY <2>1, <2>2, <2>3 DEF TypeInv, Counted, Threads, Maps
<1>2. CASE id \in DOMAIN peers
  <2>1. peers[id] \in Sockets /\ Removed(id, peers[id])
    BY <1>2 DEF RemoveSocketOfId, TypeInv, Maps
  <2> QED BY <2>1, RemovedTypes DEF Turned
<1> QED BY <1>1, <1>2

LEMMA OneMore ==
  ASSUME NEW c \in Nat, NEW a \in Nat, NEW b \in Nat, NEW d \in Nat, NEW e \in Nat,
         NEW k \in Nat, NEW l, l = k + 1, NEW m \in Nat, k < m,
         d + e = a + b + 1, c + a + b = k + 1
  PROVE  c + d + e = l + 1 /\ l <= m
OBVIOUS

LEMMA CountedMore ==
  ASSUME TypeInv, socks' \in Seq(Socket), Len(socks') = Len(socks) + 1, Len(socks) < MaxSockets,
         Adding' + Counting' = Adding + Counting + 1, UNCHANGED << currentId, pending >>,
         gtk'.pc = "resolving" \/ io' = "accepted" => gtk.pc = "resolving" \/ io = "accepted"
  PROVE  Counted'
<1>1. Len(socks) \in Nat /\ MaxSockets \in Nat /\ currentId \in Nat
  BY Sizes
<1>2. Adding \in Nat /\ Counting \in Nat /\ Adding' \in Nat /\ Counting' \in Nat
  BY DEF Adding, Counting
<1>3. currentId + Adding + Counting = Len(socks) + 1
  BY DEF TypeInv, Counted
<1>4. currentId + Adding' + Counting' = Len(socks') + 1 /\ Len(socks') <= MaxSockets
  <2>1. PICK a \in Nat, b \in Nat, d \in Nat, e \in Nat :
          a = Adding /\ b = Counting /\ d = Adding' /\ e = Counting'
    BY <1>2
  <2>2. PICK k \in Nat, l \in Nat : k = Len(socks) /\ l = Len(socks') /\ l = k + 1 /\ k < MaxSockets
    BY <1>1
  <2>3. d + e = a + b + 1 /\ currentId + a + b = k + 1
    BY <1>3, <2>1, <2>2
  <2>4. currentId + d + e = l + 1 /\ l <= MaxSockets
    BY <1>1, <2>2, <2>3, OneMore
  <2> QED BY <2>1, <2>2, <2>4
<1> QED BY <1>4 DEF TypeInv, Counted

LEMMA TypeStep == TypeInv /\ [Next]_vars => TypeInv'
<1> SUFFICES ASSUME TypeInv, [Next]_vars PROVE TypeInv'
  OBVIOUS
<1>0. /\ Len(socks) \in Nat /\ Len(socks) <= MaxSockets /\ MaxSockets \in Nat
      /\ currentId \in Nat \ {0} /\ currentId <= Len(socks) + 1
      /\ socks \in Seq(Socket)
  BY Sizes DEF TypeInv, Counted
<1>1. CASE UNCHANGED vars
  BY <1>1, <1>0, CountedKept, ThreadsKept, MapsKept, QueuesKept, ShownKept DEF vars, TypeInv, Counted, Threads
<1>2. ASSUME NEW h \in Hosts, ConnectToPeer(h) PROVE TypeInv'
  <2>1. /\ socks' = Append(socks, NewSocket(h, TRUE, "new")) /\ Len(socks) < MaxSockets
        /\ peers' = Put(peers, currentId, Len(socks) + 1)
        /\ reverse' = Put(reverse, Len(socks) + 1, currentId)
        /\ gtk' = [gtk EXCEPT !.pc = "adding", !.host = h] /\ gtk.pc = "rest"
        /\ UNCHANGED << ipMap, currentId, io, listening, pending, ips, asks, inbox, tracks, crashed >>
    BY <1>2 DEF ConnectToPeer
  <2>2. socks' \in Seq(Socket) /\ Len(socks') = Len(socks) + 1
    BY <1>0, <2>1, SocketAdded DEF NewSocket, Socket
  <2>3. /\ gtk'.pc = "adding" /\ gtk'.host = h
        /\ gtk' \in [pc : {"rest", "adding", "resolving"}, id : Nat, host : Hosts \cup {"none"}]
    BY <2>1 DEF TypeInv, Threads
  <2>4. Counted'
    <3>1. Adding' + Counting' = Adding + Counting + 1
      BY <2>1, <2>3 DEF Adding, Counting
    <3> QED BY <1>0, <2>1, <2>2, <2>3, <3>1, CountedMore DEF TypeInv, Counted
  <2>5. Sockets \subseteq Sockets' /\ Len(socks) + 1 \in Sockets'
    BY <1>0, <2>2 DEF Sockets
  <2>6. Threads'
    BY <2>1, <2>3, <2>5 DEF TypeInv, Threads
  <2>7. currentId \in 1..currentId
    BY <1>0
  <2>8. Maps'
    BY <2>1, <2>5, <2>7 DEF TypeInv, Maps, Put
  <2>9. Queues' /\ Shown'
    BY <1>0, <2>1, QueuesKept, ShownKept
  <2> QED BY <2>4, <2>6, <2>8, <2>9 DEF TypeInv
<1>3. CASE CountDialled
  <2>1. /\ gtk.pc = "adding" /\ currentId' = currentId + 1
        /\ gtk' = [gtk EXCEPT !.pc = "resolving", !.id = currentId]
        /\ UNCHANGED << socks, peers, reverse, ipMap, io, listening, pending, ips, asks, inbox, tracks, crashed >>
    BY <1>3 DEF CountDialled
  <2>2. /\ gtk'.pc = "resolving" /\ gtk'.host = gtk.host
        /\ gtk' \in [pc : {"rest", "adding", "resolving"}, id : Nat, host : Hosts \cup {"none"}]
    BY <1>0, <2>1 DEF TypeInv, Threads
  <2>3. Counted'
    BY <1>0, <2>1, <2>2 DEF TypeInv, Counted, Adding, Counting
  <2>4. Threads'
    BY <2>1, <2>2 DEF TypeInv, Threads, Sockets
  <2>5. Maps' /\ Queues' /\ Shown'
    BY <1>0, <2>1, MapsKept, QueuesKept, ShownKept
  <2> QED BY <2>3, <2>4, <2>5 DEF TypeInv
<1>4. CASE ResolveFails
  <2>1. /\ gtk.pc = "resolving" /\ gtk' = [gtk EXCEPT !.pc = "rest"]
        /\ UNCHANGED << socks, peers, reverse, ipMap, currentId, io, listening, pending, ips, asks, inbox, tracks, crashed >>
    BY <1>4 DEF ResolveFails
  <2>2. /\ gtk'.pc = "rest"
        /\ gtk' \in [pc : {"rest", "adding", "resolving"}, id : Nat, host : Hosts \cup {"none"}]
    BY <2>1 DEF TypeInv, Threads
  <2>3. Counted'
    BY <2>1, <2>2 DEF TypeInv, Counted, Adding, Counting
  <2>4. Threads'
    BY <2>1, <2>2 DEF TypeInv, Threads, Sockets
  <2>5. Maps' /\ Queues' /\ Shown'
    BY <1>0, <2>1, MapsKept, QueuesKept, ShownKept
  <2> QED BY <2>3, <2>4, <2>5 DEF TypeInv
<1>5. CASE StartConnect
  <2>1. /\ gtk.pc = "resolving" /\ gtk' = [gtk EXCEPT !.pc = "rest"]
        /\ UNCHANGED << socks, peers, reverse, ipMap, currentId, io, listening, asks, inbox, tracks >>
    BY <1>5 DEF StartConnect, Crash
  <2>2. /\ gtk'.pc = "rest"
        /\ gtk' \in [pc : {"rest", "adding", "resolving"}, id : Nat, host : Hosts \cup {"none"}]
    BY <2>1 DEF TypeInv, Threads
  <2>3. /\ pending' \subseteq [id : Nat, sock : Sockets] /\ ips' \in Seq(Hosts)
        /\ crashed' \in BOOLEAN
    <3>1. CASE gtk.id \notin DOMAIN peers
      BY <1>5, <3>1 DEF StartConnect, Crash, TypeInv, Threads
    <3>2. CASE gtk.id \in DOMAIN peers
      <4>1. /\ pending' = pending \cup {[id |-> gtk.id, sock |-> peers[gtk.id]]}
            /\ ips' = Append(ips, gtk.host) /\ crashed' = crashed
        BY <1>5, <3>2 DEF StartConnect
      <4>2. gtk.id \in Nat /\ gtk.host \in Hosts /\ peers[gtk.id] \in Sockets
        BY <2>1, <3>2 DEF TypeInv, Threads, Maps
      <4>3. ips' \in Seq(Hosts)
        BY <4>1, <4>2, AppendProperties DEF TypeInv, Threads
      <4> QED BY <4>1, <4>2, <4>3 DEF TypeInv, Threads
    <3> QED BY <3>1, <3>2
  <2>4. Counted'
    BY <2>1, <2>2 DEF TypeInv, Counted, Adding, Counting
  <2>5. Sockets' = Sockets
    BY <2>1 DEF Sockets
  <2>6. Threads'
    BY <2>1, <2>2, <2>3, <2>5 DEF TypeInv, Threads
  <2>7. Maps' /\ Queues' /\ Shown'
    BY <1>0, <2>1, MapsKept, QueuesKept, ShownKept
  <2> QED BY <2>4, <2>6, <2>7 DEF TypeInv
<1>6. ASSUME NEW k \in DOMAIN ips, RemoveIp(k) PROVE TypeInv'
  <2> DEFINE found == {id \in DOMAIN ipMap : ipMap[id] = [host |-> ips[k], dialled |-> TRUE]}
  <2>1. UNCHANGED << currentId, gtk, io, listening, pending, asks, inbox >> /\ ips' \in Seq(Hosts)
    BY <1>6, RowRemoved DEF RemoveIp, TypeInv, Threads
  <2>2. CASE found = {}
    <3>1. UNCHANGED << socks, peers, reverse, ipMap, tracks, crashed >>
      BY <1>6, <2>2 DEF RemoveIp
    <3> QED BY <1>0, <2>1, <3>1, CountedKept, ThreadsKept, MapsKept, QueuesKept, ShownKept DEF TypeInv, Threads
  <2>3. CASE found # {}
    <3>1. RemoveSocketOfId(Min(found)) /\ ipMap' = Erase(ipMap, Min(found))
      BY <1>6, <2>3 DEF RemoveIp
    <3> HIDE DEF found
    <3>2. ipMap' \in [DOMAIN ipMap' -> Address] /\ DOMAIN ipMap' \subseteq 1..currentId
      BY <3>1 DEF TypeInv, Maps, Erase
    <3>3. Maps'
      BY <2>1, <3>1, <3>2, RemoveSocketTypes DEF Maps
    <3>4. Counted' /\ Threads' /\ Shown' /\ Queues'
      BY <1>0, <2>1, <3>1, RemoveSocketTypes, CountedKept, ThreadsKept, QueuesKept DEF TypeInv, Threads
    <3> QED BY <3>3, <3>4 DEF TypeInv
  <2> QED BY <2>2, <2>3
<1>7. ASSUME NEW h \in Hosts, AcceptSocket(h) PROVE TypeInv'
  <2>1. /\ socks' = Append(socks, NewSocket(h, FALSE, "open")) /\ Len(socks) < MaxSockets
        /\ peers' = Put(peers, currentId, Len(socks) + 1)
        /\ reverse' = Put(reverse, Len(socks) + 1, currentId)
        /\ ipMap' = Put(ipMap, currentId, [host |-> h, dialled |-> FALSE])
        /\ io = "run" /\ io' = "counting" /\ listening' = FALSE
        /\ UNCHANGED << currentId, gtk, pending, ips, asks, inbox, tracks, crashed >>
    BY <1>7 DEF AcceptSocket
  <2>2. socks' \in Seq(Socket) /\ Len(socks') = Len(socks) + 1
    BY <1>0, <2>1, SocketAdded DEF NewSocket, Socket
  <2>3. Counted'
    <3>1. Adding' + Counting' = Adding + Counting + 1
      BY <2>1 DEF Adding, Counting
    <3> QED BY <1>0, <2>1, <2>2, <3>1, CountedMore DEF TypeInv, Counted
  <2>4. Sockets \subseteq Sockets' /\ Len(socks) + 1 \in Sockets'
    BY <1>0, <2>2 DEF Sockets
  <2>5. Threads'
    BY <2>1, <2>4 DEF TypeInv, Threads
  <2>6. currentId \in 1..currentId /\ [host |-> h, dialled |-> FALSE] \in Address
    BY <1>0 DEF Address
  <2>7. Maps'
    BY <2>1, <2>4, <2>6 DEF TypeInv, Maps, Put
  <2>8. Queues' /\ Shown'
    BY <1>0, <2>1, QueuesKept, ShownKept
  <2> QED BY <2>3, <2>5, <2>7, <2>8 DEF TypeInv
<1>8. CASE AcceptFails
  <2>1. /\ listening' = FALSE
        /\ UNCHANGED << socks, peers, reverse, ipMap, currentId, gtk, io, pending, ips, asks, inbox, tracks, crashed >>
    BY <1>8 DEF AcceptFails
  <2>2. Threads'
    BY <2>1, ThreadsKept DEF TypeInv, Threads
  <2> QED BY <1>0, <2>1, <2>2, CountedKept, MapsKept, QueuesKept, ShownKept DEF TypeInv
<1>9. CASE CountAccepted
  <2>1. /\ io = "counting" /\ io' = "accepted" /\ currentId' = currentId + 1
        /\ UNCHANGED << socks, peers, reverse, ipMap, gtk, listening, pending, ips, asks, inbox, tracks, crashed >>
    BY <1>9 DEF CountAccepted
  <2>2. Counted'
    BY <1>0, <2>1 DEF TypeInv, Counted, Adding, Counting
  <2>3. Threads'
    BY <2>1 DEF TypeInv, Threads, Sockets
  <2>4. Maps' /\ Queues' /\ Shown'
    BY <1>0, <2>1, MapsKept, QueuesKept, ShownKept
  <2> QED BY <2>2, <2>3, <2>4 DEF TypeInv
<1>10. CASE OnAccepted
  <2>1. /\ asks' = Append(asks, currentId - 1) /\ io = "accepted" /\ io' = "run" /\ listening' = TRUE
        /\ UNCHANGED << socks, peers, reverse, ipMap, currentId, gtk, pending, ips, inbox, tracks, crashed >>
    BY <1>10 DEF OnAccepted
  <2>2. Counted'
    BY <2>1 DEF TypeInv, Counted, Adding, Counting
  <2>3. Threads'
    BY <2>1 DEF TypeInv, Threads, Sockets
  <2>4. currentId - 1 \in 1..currentId
    BY <1>0, <2>1 DEF TypeInv, Counted
  <2>5. Queues'
    BY <2>1, <2>4, AppendProperties DEF TypeInv, Queues
  <2>6. Maps' /\ Shown'
    BY <1>0, <2>1, MapsKept, ShownKept
  <2> QED BY <2>2, <2>3, <2>5, <2>6 DEF TypeInv
<1>11. ASSUME crashed' = TRUE,
              UNCHANGED << socks, peers, reverse, ipMap, currentId, pending, ips, asks, inbox, tracks, gtk, io, listening >>
       PROVE  TypeInv'
  BY <1>0, <1>11, CountedKept, ThreadsKept, MapsKept, QueuesKept, ShownKept DEF TypeInv, Threads
<1>12. ASSUME NEW p \in pending, Connected(p) PROVE TypeInv'
  <2>1. CASE p.id \notin DOMAIN peers
    BY <1>11, <1>12, <2>1 DEF Connected, Crash
  <2>2. CASE p.id \in DOMAIN peers
    <3>1. /\ pending' = pending \ {p} /\ socks' = [socks EXCEPT ![p.sock].state = "open"]
          /\ ipMap' = Put(ipMap, currentId - 1, AddressOf(p.sock))
          /\ asks' = Append(asks, currentId - 1)
          /\ UNCHANGED << peers, reverse, currentId, gtk, io, listening, ips, inbox, tracks, crashed >>
      BY <1>12, <2>2 DEF Connected
    <3>2. p.sock \in Sockets
      BY DEF TypeInv, Threads
    <3>3. Turned(p.sock)
      BY <1>0, <3>1, <3>2, SocketTurned
    <3>4. socks' \in Seq(Socket) /\ Len(socks') = Len(socks) /\ Sockets' = Sockets
      BY <3>3 DEF Turned, Sockets
    <3>5. AddressOf(p.sock) \in Address
      <4>1. socks[p.sock] \in Socket
        BY <1>0, <3>2, ElementOfSeq DEF Sockets
      <4> QED BY <4>1 DEF AddressOf, Address, Socket
    <3>6. currentId - 1 \in 1..currentId
      BY <1>0 DEF TypeInv, Counted
    <3>7. Maps'
      BY <3>1, <3>4, <3>5, <3>6 DEF TypeInv, Maps, Put
    <3>8. Queues'
      BY <3>1, <3>6, AppendProperties DEF TypeInv, Queues
    <3>9. Counted' /\ Threads' /\ Shown'
      BY <1>0, <3>1, <3>4, CountedKept, ThreadsKept, ShownKept DEF TypeInv, Threads
    <3> QED BY <3>7, <3>8, <3>9 DEF TypeInv
  <2> QED BY <2>1, <2>2
<1>13. ASSUME NEW p \in pending, ConnectFailed(p) PROVE TypeInv'
  <2>1. CASE currentId - 1 \notin DOMAIN peers
    BY <1>11, <1>13, <2>1 DEF ConnectFailed, Crash
  <2>2. CASE currentId - 1 \in DOMAIN peers
    <3>1. /\ pending' = pending \ {p} /\ socks' = [socks EXCEPT ![p.sock].state = "closed"]
          /\ peers' = Erase(peers, currentId - 1)
          /\ UNCHANGED << reverse, ipMap, currentId, gtk, io, listening, ips, asks, inbox, tracks, crashed >>
      BY <1>13, <2>2 DEF ConnectFailed, Close
    <3>2. p.sock \in Sockets
      BY DEF TypeInv, Threads
    <3>3. Turned(p.sock)
      BY <1>0, <3>1, <3>2, SocketTurned
    <3>4. socks' \in Seq(Socket) /\ Len(socks') = Len(socks) /\ Sockets' = Sockets
      BY <3>3 DEF Turned, Sockets
    <3>5. Maps'
      BY <3>1, <3>4 DEF TypeInv, Maps, Erase
    <3>6. Counted' /\ Threads' /\ Queues' /\ Shown'
      BY <1>0, <3>1, <3>4, CountedKept, ThreadsKept, QueuesKept, ShownKept DEF TypeInv, Threads
    <3> QED BY <3>5, <3>6 DEF TypeInv
  <2> QED BY <2>1, <2>2
<1>14. CASE WriteAsk
  <2> DEFINE id == Head(asks)
  <2>1. /\ asks # << >> /\ asks' = Tail(asks)
        /\ UNCHANGED << ipMap, currentId, gtk, io, listening, pending, ips, inbox >>
    BY <1>14 DEF WriteAsk
  <2>2. Queues'
    BY <2>1, HeadTailProperties DEF TypeInv, Queues
  <2>3. CASE id \in DOMAIN peers /\ socks[peers[id]].state = "open"
    <3>1. /\ socks' = [socks EXCEPT ![peers[id]].asked = @ + 1]
          /\ UNCHANGED << peers, reverse, tracks, crashed >>
      BY <1>14, <2>3 DEF WriteAsk
    <3>2. Turned(peers[id])
      BY <1>0, <2>3, <3>1, SocketTurned DEF TypeInv, Maps
    <3>3. socks' \in Seq(Socket) /\ Len(socks') = Len(socks)
      BY <3>2 DEF Turned
    <3> QED BY <1>0, <2>1, <2>2, <3>1, <3>3, CountedKept, ThreadsKept, MapsKept, ShownKept DEF TypeInv, Threads
  <2>4. CASE ~(id \in DOMAIN peers /\ socks[peers[id]].state = "open")
    <3>1. RemoveSocketOfId(id)
      BY <1>14, <2>4 DEF WriteAsk
    <3>2. Maps'
      BY <2>1, <3>1, RemoveSocketTypes DEF TypeInv, Maps
    <3>3. Counted' /\ Threads' /\ Shown'
      BY <2>1, <3>1, RemoveSocketTypes, CountedKept, ThreadsKept DEF TypeInv, Threads
    <3> QED BY <2>2, <3>2, <3>3 DEF TypeInv
  <2> QED BY <2>3, <2>4
<1>15. ASSUME NEW s \in Sockets, ReadDatabase(s) PROVE TypeInv'
  <2>1. /\ s \in DOMAIN reverse /\ socks' = [socks EXCEPT ![s].answered = @ + 1]
        /\ inbox' = Append(inbox, [id |-> reverse[s], songs |-> Owns[socks[s].host]])
        /\ UNCHANGED << peers, reverse, ipMap, currentId, gtk, io, listening, pending, ips, asks, tracks, crashed >>
    BY <1>15 DEF ReadDatabase
  <2>2. socks' \in Seq(Socket) /\ Len(socks') = Len(socks)
    BY <1>0, <2>1, SocketTurned DEF Turned
  <2>3. [id |-> reverse[s], songs |-> Owns[socks[s].host]] \in [id : 1..currentId, songs : SUBSET Songs]
    <3>1. socks[s] \in Socket
      BY <1>0, ElementOfSeq DEF Sockets
    <3>2. Owns[socks[s].host] \in SUBSET Songs
      BY <3>1, PeersAssumption DEF Socket
    <3>3. reverse[s] \in 1..currentId
      BY <2>1 DEF TypeInv, Maps
    <3> QED BY <3>2, <3>3
  <2>4. Queues'
    BY <2>1, <2>3, AppendProperties DEF TypeInv, Queues
  <2> QED BY <1>0, <2>1, <2>2, <2>4, CountedKept, ThreadsKept, MapsKept, ShownKept DEF TypeInv, Threads
<1>16. CASE HandleReturnDatabase
  <2> DEFINE m == Head(inbox)
  <2>1. /\ inbox # << >> /\ inbox' = Tail(inbox) /\ tracks' = AddTracks(m.id, m.songs)
        /\ UNCHANGED << socks, peers, reverse, ipMap, currentId, gtk, io, listening, pending, ips, asks, crashed >>
    BY <1>16 DEF HandleReturnDatabase
  <2>2. m.id \in 1..currentId /\ m.songs \subseteq Songs
    <3>1. m \in [id : 1..currentId, songs : SUBSET Songs]
      BY <2>1, HeadTailProperties DEF TypeInv, Queues
    <3> QED BY <3>1
  <2>3. Queues'
    BY <2>1, HeadTailProperties DEF TypeInv, Queues
  <2> HIDE DEF m
  <2>4. DOMAIN tracks' \subseteq Songs \ Local
    BY <2>1, <2>2 DEF AddTracks, TypeInv, Shown
  <2>5. \A c \in DOMAIN tracks' :
          \/ c \in DOMAIN tracks /\ tracks'[c] \in {tracks[c], Append(tracks[c], m.id)}
          \/ tracks'[c] = << m.id >>
    BY <2>1 DEF AddTracks
  <2>6. \A c \in DOMAIN tracks' : tracks'[c] \in Seq(1..currentId) /\ tracks'[c] # << >>
    <3>1. << m.id >> \in Seq(1..currentId) /\ << m.id >> # << >>
      BY <2>2
    <3> DEFINE S == 1..currentId
    <3>2. m.id \in S /\ \A c \in DOMAIN tracks : tracks[c] \in Seq(S) /\ tracks[c] # << >>
      BY <2>2 DEF TypeInv, Shown
    <3> HIDE DEF S
    <3>3. \A c \in DOMAIN tracks : Append(tracks[c], m.id) \in Seq(S) /\ Append(tracks[c], m.id) # << >>
      BY <3>2, AppendProperties
    <3> QED BY <2>5, <3>1, <3>2, <3>3 DEF S
  <2>7. Shown'
    BY <2>1, <2>4, <2>6 DEF Shown
  <2> QED BY <1>0, <2>1, <2>3, <2>7, CountedKept, ThreadsKept, MapsKept DEF TypeInv, Threads
<1>17. ASSUME NEW s \in Sockets, Disconnected(s) PROVE TypeInv'
  <2>1. UNCHANGED << gtk, io, listening >>
    BY <1>17 DEF Disconnected
  <2>2. CASE s \notin DOMAIN reverse
    <3>1. /\ socks' = Close(s)
          /\ UNCHANGED << peers, reverse, ipMap, currentId, pending, ips, asks, inbox, tracks, crashed >>
      BY <1>17, <2>2 DEF Disconnected
    <3>2. socks' \in Seq(Socket) /\ Len(socks') = Len(socks)
      BY <1>0, <3>1, SocketTurned DEF Turned, Close
    <3> QED BY <1>0, <2>1, <3>1, <3>2, CountedKept, ThreadsKept, MapsKept, QueuesKept, ShownKept DEF TypeInv, Threads
  <2>3. CASE s \in DOMAIN reverse /\ reverse[s] \notin DOMAIN peers
    BY <1>11, <1>17, <2>1, <2>3 DEF Disconnected, Crash
  <2>4. CASE s \in DOMAIN reverse /\ reverse[s] \in DOMAIN peers
    <3>1. Removed(reverse[s], s) /\ UNCHANGED << ipMap, currentId, pending, ips, asks, inbox >>
      BY <1>17, <2>4 DEF Disconnected
    <3>2. /\ socks' \in Seq(Socket) /\ Len(socks') = Len(socks)
          /\ peers' \in [DOMAIN peers' -> Sockets] /\ DOMAIN peers' \subseteq 1..currentId
          /\ reverse' \in [DOMAIN reverse' -> 1..currentId] /\ DOMAIN reverse' \subseteq Sockets
          /\ Sockets' = Sockets /\ crashed' \in BOOLEAN /\ Shown'
      BY <3>1, RemovedTypes DEF Turned
    <3>3. Maps'
      BY <3>1, <3>2 DEF TypeInv, Maps
    <3>4. Counted' /\ Threads' /\ Queues'
      BY <1>0, <2>1, <3>1, <3>2, CountedKept, ThreadsKept, QueuesKept DEF TypeInv, Threads
    <3> QED BY <3>2, <3>3, <3>4 DEF TypeInv
  <2> QED BY <2>2, <2>3, <2>4
<1>18. \A s \in Sockets : Disconnected(s) => TypeInv'
  BY <1>17
<1> QED BY <1>1, <1>2, <1>3, <1>4, <1>5, <1>6, <1>7, <1>8, <1>9, <1>10, <1>12, <1>13, <1>14,
           <1>15, <1>16, <1>17 DEF Next, GtkStep, UserStep, IoStep, HostStep

---------------------------------------------------------------------------
(* One connection at a time. *)

LEMMA NoneUnwritten ==
  ASSUME asks \in Seq(Nat), NEW id, \A i \in 1..Len(asks) : asks[i] # id
  PROVE  Unwritten(id) = 0
<1>1. {i \in DOMAIN asks : asks[i] = id} = {}
  BY LenProperties
<1> QED BY <1>1, FS_EmptySet DEF Unwritten

LEMMA PlacesFinite ==
  ASSUME NEW q \in Seq(Nat), NEW id
  PROVE  IsFiniteSet({i \in DOMAIN q : q[i] = id})
<1>1. DOMAIN q = 1..Len(q) /\ Len(q) \in Nat
  BY LenProperties
<1>2. IsFiniteSet(1..Len(q))
  BY <1>1, FS_Interval
<1> QED BY <1>1, <1>2, FS_Subset

LEMMA UnwrittenNat ==
  ASSUME asks \in Seq(Nat), NEW id
  PROVE  Unwritten(id) \in Nat
BY PlacesFinite, FS_CardinalityType DEF Unwritten

LEMMA AskMore ==
  ASSUME asks \in Seq(Nat), NEW x \in Nat, asks' = Append(asks, x), NEW id
  PROVE  Unwritten(id)' = IF x = id THEN Unwritten(id) + 1 ELSE Unwritten(id)
<1> DEFINE n == Len(asks)
<1> DEFINE A == {i \in DOMAIN asks : asks[i] = id}
<1> DEFINE B == {i \in DOMAIN asks' : asks'[i] = id}
<1>1. n \in Nat /\ DOMAIN asks = 1..n /\ DOMAIN asks' = 1..n + 1
      /\ asks'[n + 1] = x /\ \A i \in 1..n : asks'[i] = asks[i]
  BY AppendProperties, LenProperties
<1>2. IsFiniteSet(A) /\ n + 1 \notin A
  <2>1. IsFiniteSet(A)
    BY PlacesFinite
  <2> QED BY <1>1, <2>1
<1>3. Unwritten(id) = Cardinality(A) /\ Unwritten(id)' = Cardinality(B)
  BY DEF Unwritten
<1>4. B = IF x = id THEN A \cup {n + 1} ELSE A
  <2> HIDE DEF n
  <2>1. 1..n + 1 = 1..n \cup {n + 1} /\ n + 1 \notin 1..n
    BY <1>1
  <2> QED BY <1>1, <2>1
<1> HIDE DEF A, B, n
<1> QED BY <1>2, <1>3, <1>4, FS_AddElement

LEMMA AskLess ==
  ASSUME asks \in Seq(Nat), asks # << >>, asks' = Tail(asks), NEW id
  PROVE  Unwritten(id) = IF Head(asks) = id THEN Unwritten(id)' + 1 ELSE Unwritten(id)'
<1> DEFINE n == Len(asks)
<1> DEFINE A == {i \in DOMAIN asks : asks[i] = id}
<1> DEFINE B == {i \in DOMAIN asks' : asks'[i] = id}
<1> DEFINE C == {i + 1 : i \in B}
<1>1. n \in Nat \ {0} /\ DOMAIN asks = 1..n
  BY EmptySeq, LenProperties
<1>2. asks' \in Seq(Nat) /\ Len(asks') = n - 1 /\ \A i \in 1..n - 1 : asks'[i] = asks[i + 1]
      /\ Head(asks) = asks[1]
  BY HeadTailProperties
<1>3. DOMAIN asks' = 1..n - 1
  BY <1>2, LenProperties
<1>4. Unwritten(id) = Cardinality(A) /\ Unwritten(id)' = Cardinality(B)
  BY DEF Unwritten
<1>5. IsFiniteSet(B)
  BY <1>2, PlacesFinite
<1>6. IsFiniteSet(C) /\ Cardinality(C) = Cardinality(B)
  <2> DEFINE f == [i \in B |-> i + 1]
  <2>1. B \subseteq Nat
    BY <1>3
  <2>2. f \in Bijection(B, C)
    <3> HIDE DEF B
    <3>1. f \in [B -> C] /\ \A i, j \in B : f[i] = f[j] => i = j
      BY <2>1
    <3>2. \A c \in C : \E i \in B : f[i] = c
      OBVIOUS
    <3> QED BY <3>1, <3>2, Fun_IsBij
  <2> HIDE DEF f, C, B
  <2>3. ExistsBijection(B, C)
    BY <2>2 DEF ExistsBijection
  <2> QED BY <1>5, <2>3, FS_Bijection
<1>7. A = IF Head(asks) = id THEN C \cup {1} ELSE C
  <2>1. ASSUME NEW i \in A PROVE i \in C \/ (i = 1 /\ Head(asks) = id)
    <3>1. i \in 1..n /\ asks[i] = id
      BY <1>1
    <3>2. CASE i = 1
      BY <1>2, <3>1, <3>2
    <3>3. CASE i # 1
      <4>1. i - 1 \in 1..n - 1 /\ (i - 1) + 1 = i
        BY <1>1, <3>1, <3>3
      <4>2. i - 1 \in B
        BY <1>2, <1>3, <3>1, <4>1
      <4> QED BY <4>1, <4>2
    <3> QED BY <3>2, <3>3
  <2>2. ASSUME NEW i \in B PROVE i + 1 \in A
    <3>1. i \in 1..n - 1 /\ asks[i + 1] = id
      BY <1>2, <1>3
    <3>2. i + 1 \in 1..n
      BY <1>1, <3>1
    <3> QED BY <1>1, <3>1, <3>2
  <2>3. Head(asks) = id => 1 \in A
    BY <1>1, <1>2
  <2> HIDE DEF A, B
  <2> QED BY <2>1, <2>2, <2>3
<1>8. 1 \notin C
  BY <1>1, <1>3
<1>9. Cardinality(B) \in Nat
  BY <1>5, FS_CardinalityType
<1> HIDE DEF A, B, C
<1> QED BY <1>4, <1>6, <1>7, <1>8, <1>9, FS_AddElement

\* What all the steps start from.
Whole == TypeInv /\ Alone /\ Same /\ Addressed /\ Asked /\ Owned

LEMMA Numbers ==
  ASSUME TypeInv
  PROVE  /\ Len(socks) \in Nat /\ currentId \in Nat \ {0}
         /\ socks \in Seq(Socket) /\ asks \in Seq(Nat)
         /\ currentId <= Len(socks) + 1
         /\ gtk.pc # "adding" /\ io # "counting" => currentId = Len(socks) + 1
         /\ gtk.pc = "adding" /\ io # "counting" => currentId = Len(socks)
         /\ gtk.pc # "adding" /\ io = "counting" => currentId = Len(socks)
<1>1. /\ Len(socks) \in Nat /\ currentId \in Nat \ {0} /\ socks \in Seq(Socket)
      /\ currentId + Adding + Counting = Len(socks) + 1
  BY Sizes DEF TypeInv, Counted
<1>2. asks \in Seq(Nat)
  <2>1. 1..currentId \subseteq Nat
    BY <1>1
  <2> QED BY <2>1, SeqMonotonic DEF TypeInv, Queues
<1>3. PICK n \in Nat : n = Len(socks)
  BY <1>1
<1>4. currentId + Adding + Counting = n + 1
  BY <1>1, <1>3
<1>5. /\ currentId <= n + 1
      /\ gtk.pc # "adding" /\ io # "counting" => currentId = n + 1
      /\ gtk.pc = "adding" /\ io # "counting" => currentId = n
      /\ gtk.pc # "adding" /\ io = "counting" => currentId = n
  <2>1. currentId \in Nat
    BY <1>1
  <2> QED BY <1>4, <2>1 DEF Adding, Counting
<1> QED BY <1>1, <1>2, <1>3, <1>5

LEMMA OwnedFrame ==
  ASSUME TypeInv, currentId' \in Nat, currentId <= currentId',
         \A t \in Sockets : socks'[t].host = socks[t].host
  PROVE  \A id \in 1..currentId : \A songs : OwnSongs(id, songs) =>
            id < currentId' /\ songs \subseteq Owns[socks'[id].host]
<1> SUFFICES ASSUME NEW id \in 1..currentId, NEW songs, OwnSongs(id, songs)
             PROVE  id < currentId' /\ songs \subseteq Owns[socks'[id].host]
  OBVIOUS
<1>1. id < currentId /\ songs \subseteq Owns[socks[id].host]
  BY DEF OwnSongs
<1>2. id \in Sockets
  <2>1. PICK n \in Nat : n = Len(socks)
    BY Numbers
  <2>2. currentId \in Nat /\ currentId <= n + 1
    BY <2>1, Numbers
  <2>3. id \in 1..n
    BY <1>1, <2>2
  <2> QED BY <2>1, <2>3 DEF Sockets
<1>3. id < currentId'
  BY <1>1, Numbers
<1> QED BY <1>1, <1>2, <1>3

\* The ids of the messages and of the owners have been given out.
LEMMA IdsGiven ==
  ASSUME TypeInv
  PROVE  /\ \A i \in 1..Len(inbox) : inbox[i].id \in 1..currentId
         /\ \A c \in DOMAIN tracks : \A i \in 1..Len(tracks[c]) : tracks[c][i] \in 1..currentId
<1>1. ASSUME NEW i \in 1..Len(inbox) PROVE inbox[i].id \in 1..currentId
  <2>1. inbox[i] \in [id : 1..currentId, songs : SUBSET Songs]
    BY ElementOfSeq DEF TypeInv, Queues
  <2> QED BY <2>1
<1>2. ASSUME NEW c \in DOMAIN tracks, NEW i \in 1..Len(tracks[c])
      PROVE  tracks[c][i] \in 1..currentId
  BY ElementOfSeq DEF TypeInv, Shown
<1> QED BY <1>1, <1>2

LEMMA OwnedKept ==
  ASSUME TypeInv, Owned, currentId' \in Nat, currentId <= currentId',
         \A t \in Sockets : socks'[t].host = socks[t].host, UNCHANGED << inbox, tracks >>
  PROVE  Owned'
<1>1. \A id \in 1..currentId : \A songs : OwnSongs(id, songs) =>
         id < currentId' /\ songs \subseteq Owns[socks'[id].host]
  BY OwnedFrame
<1>2. ASSUME NEW i \in 1..Len(inbox)
      PROVE  inbox[i].id < currentId' /\ inbox[i].songs \subseteq Owns[socks'[inbox[i].id].host]
  <2>1. inbox[i].id \in 1..currentId /\ OwnSongs(inbox[i].id, inbox[i].songs)
    BY IdsGiven DEF Owned
  <2> QED BY <1>1, <2>1
<1>3. ASSUME NEW c \in DOMAIN tracks, NEW i \in 1..Len(tracks[c])
      PROVE  tracks[c][i] < currentId' /\ {c} \subseteq Owns[socks'[tracks[c][i]].host]
  <2>1. tracks[c][i] \in 1..currentId /\ OwnSongs(tracks[c][i], {c})
    BY IdsGiven DEF Owned
  <2> QED BY <1>1, <2>1
<1>4. inbox' = inbox /\ tracks' = tracks
  OBVIOUS
<1> QED BY <1>2, <1>3, <1>4 DEF Owned, OwnSongs

LEMMA ConnKept ==
  ASSUME Whole, UNCHANGED << socks, peers, reverse, ipMap, currentId, asks, inbox, tracks, io >>
  PROVE  (Same /\ Addressed /\ Asked /\ Owned)'
<1>1. Same' /\ Addressed'
  BY DEF Whole, Same, Addressed, AddressOf, Sockets
<1>2. Asked'
  BY DEF Whole, Asked, Making, Unwritten, Sockets
<1>3. Owned'
  BY DEF Whole, Owned, OwnSongs
<1> QED BY <1>1, <1>2, <1>3

LEMMA ConnectConn ==
  ASSUME Whole, OneAtATime, NEW h \in Hosts, ConnectToPeer(h)
  PROVE  (Alone /\ Same /\ Addressed /\ Asked /\ Owned)'
<1>1. /\ socks' = Append(socks, NewSocket(h, TRUE, "new"))
      /\ peers' = Put(peers, currentId, Len(socks) + 1)
      /\ reverse' = Put(reverse, Len(socks) + 1, currentId)
      /\ gtk' = [gtk EXCEPT !.pc = "adding", !.host = h] /\ gtk.pc = "rest"
      /\ UNCHANGED << ipMap, currentId, io, listening, pending, ips, asks, inbox, tracks, crashed >>
      /\ io = "run" /\ pending = {}
  BY DEF ConnectToPeer, Quiet
<1>2. PICK n \in Nat : n = Len(socks)
  BY Numbers DEF Whole
<1>3. currentId = n + 1 /\ asks \in Seq(Nat) /\ Sockets = 1..n
  BY <1>1, <1>2, Numbers DEF Whole, Sockets
<1>4. /\ Len(socks') = n + 1 /\ socks'[n + 1] = NewSocket(h, TRUE, "new")
      /\ \A t \in Sockets : socks'[t] = socks[t]
  BY <1>1, <1>2, SocketAdded, Numbers DEF Whole, NewSocket, Socket
<1>5. Sockets' = Sockets \cup {n + 1} /\ n + 1 \notin Sockets
  BY <1>3, <1>4 DEF Sockets
<1>6. socks'[n + 1].state = "new" /\ socks'[n + 1].asked = 0
  BY <1>4 DEF NewSocket
<1>7. DOMAIN peers \subseteq Sockets /\ DOMAIN reverse \subseteq Sockets
  BY DEF Whole, TypeInv, Maps, Same
<1>8. gtk'.pc = "adding"
  BY <1>1 DEF Whole, TypeInv, Threads
<1>9. Alone'
  BY <1>1, <1>4, <1>6, <1>8 DEF Alone
<1>10. Same'
  BY <1>1, <1>2, <1>3, <1>4, <1>5, <1>6, <1>7 DEF Whole, Same, Put
<1>11. Addressed'
  <2> QED BY <1>1, <1>4, <1>5 DEF Whole, Addressed, AddressOf
<1>12. Asked'
  <2>1. Unwritten(n + 1) = 0
    BY <1>3, NoneUnwritten DEF Whole, Asked
  <2>2. \A s : Unwritten(s)' = Unwritten(s)
    BY <1>1 DEF Unwritten
  <2>3. \A s \in Sockets : Making(s)' = Making(s)
    BY <1>1, <1>4 DEF Making
  <2>4. Making(n + 1)'
    BY <1>6 DEF Making
  <2>5. \A s \in Sockets' :
          IF Making(s)' THEN socks'[s].asked = 0 /\ Unwritten(s)' = 0
          ELSE socks'[s].state = "open" => socks'[s].asked + Unwritten(s)' = 1
    BY <1>4, <1>5, <1>6, <2>1, <2>2, <2>3, <2>4 DEF Whole, Asked
  <2> QED BY <1>1, <2>5 DEF Whole, Asked
<1>13. Owned'
  <2>1. TypeInv /\ Owned /\ currentId' = currentId /\ UNCHANGED << inbox, tracks >>
    BY <1>1 DEF Whole
  <2>2. currentId \in Nat /\ currentId <= currentId
    BY <1>3
  <2> QED BY <1>4, <2>1, <2>2, OwnedKept
<1> QED BY <1>9, <1>10, <1>11, <1>12, <1>13

LEMMA AcceptConn ==
  ASSUME Whole, OneAtATime, NEW h \in Hosts, AcceptSocket(h)
  PROVE  (Alone /\ Same /\ Addressed /\ Asked /\ Owned)'
<1>1. /\ socks' = Append(socks, NewSocket(h, FALSE, "open"))
      /\ peers' = Put(peers, currentId, Len(socks) + 1)
      /\ reverse' = Put(reverse, Len(socks) + 1, currentId)
      /\ ipMap' = Put(ipMap, currentId, [host |-> h, dialled |-> FALSE])
      /\ io' = "counting" /\ io = "run" /\ gtk.pc = "rest" /\ pending = {}
      /\ UNCHANGED << currentId, gtk, pending, ips, asks, inbox, tracks, crashed >>
  BY DEF AcceptSocket, Quiet
<1>2. PICK n \in Nat : n = Len(socks)
  BY Numbers DEF Whole
<1>3. currentId = n + 1 /\ asks \in Seq(Nat) /\ Sockets = 1..n
  BY <1>1, <1>2, Numbers DEF Whole, Sockets
<1>4. /\ Len(socks') = n + 1 /\ socks'[n + 1] = NewSocket(h, FALSE, "open")
      /\ \A t \in Sockets : socks'[t] = socks[t]
  BY <1>1, <1>2, SocketAdded, Numbers DEF Whole, NewSocket, Socket
<1>5. Sockets' = Sockets \cup {n + 1} /\ n + 1 \notin Sockets
  BY <1>3, <1>4 DEF Sockets
<1>6. /\ socks'[n + 1].state = "open" /\ socks'[n + 1].asked = 0
      /\ AddressOf(n + 1)' = [host |-> h, dialled |-> FALSE]
  BY <1>4 DEF NewSocket, AddressOf
<1>7. DOMAIN peers \subseteq Sockets /\ DOMAIN reverse \subseteq Sockets
  BY DEF Whole, TypeInv, Maps, Same
<1>8. Alone'
  BY <1>1, <1>4, <1>6 DEF Alone
<1>9. Same'
  BY <1>1, <1>2, <1>3, <1>4, <1>5, <1>6, <1>7 DEF Whole, Same, Put
<1>10. Addressed'
  <2>1. ipMap'[n + 1] = [host |-> h, dialled |-> FALSE]
        /\ \A id \in DOMAIN ipMap' : id # n + 1 => id \in DOMAIN ipMap /\ ipMap'[id] = ipMap[id]
    BY <1>1, <1>3 DEF Put
  <2> QED BY <1>4, <1>5, <1>6, <2>1 DEF Whole, Addressed, AddressOf
<1>11. Asked'
  <2>1. Unwritten(n + 1) = 0
    BY <1>3, NoneUnwritten DEF Whole, Asked
  <2>2. \A s : Unwritten(s)' = Unwritten(s)
    BY <1>1 DEF Unwritten
  <2>3. \A s \in Sockets : Making(s)' = Making(s)
    BY <1>1, <1>4, <1>5 DEF Making
  <2>4. Making(n + 1)'
    BY <1>1, <1>4 DEF Making
  <2>5. \A s \in Sockets' :
          IF Making(s)' THEN socks'[s].asked = 0 /\ Unwritten(s)' = 0
          ELSE socks'[s].state = "open" => socks'[s].asked + Unwritten(s)' = 1
    BY <1>4, <1>5, <1>6, <2>1, <2>2, <2>3, <2>4 DEF Whole, Asked
  <2> QED BY <1>1, <2>5 DEF Whole, Asked
<1>12. Owned'
  <2>1. TypeInv /\ Owned /\ currentId' = currentId /\ UNCHANGED << inbox, tracks >>
    BY <1>1 DEF Whole
  <2>2. currentId \in Nat /\ currentId <= currentId
    BY <1>3
  <2> QED BY <1>4, <2>1, <2>2, OwnedKept
<1> QED BY <1>8, <1>9, <1>10, <1>11, <1>12

\* What becomes of the invariant when only the threads move on.
LEMMA ConnCounted ==
  ASSUME Whole, UNCHANGED << socks, peers, reverse, ipMap, asks, inbox, tracks >>,
         currentId' = currentId + 1, io' = io \/ (io' # "run" /\ io # "run")
  PROVE  (Same /\ Addressed /\ Asked /\ Owned)'
<1>1. Same' /\ Addressed'
  BY DEF Whole, Same, Addressed, AddressOf, Sockets
<1>2. currentId \in Nat /\ currentId <= currentId' /\ currentId' \in Nat
      /\ \A i \in 1..currentId : i < currentId => i < currentId'
  BY Numbers DEF Whole
<1>3. Asked'
  <2>1. /\ \A s \in Sockets : Making(s)' = Making(s)
        /\ \A s : Unwritten(s)' = Unwritten(s)
        /\ Sockets' = Sockets
    BY DEF Making, Unwritten, Sockets
  <2>2. \A i \in 1..Len(asks) : asks[i] < currentId'
    <3>1. \A i \in 1..Len(asks) : asks[i] \in 1..currentId /\ asks[i] < currentId
      BY ElementOfSeq DEF Whole, TypeInv, Queues, Asked
    <3> QED BY <1>2, <3>1
  <2>3. \A s \in Sockets' :
          IF Making(s)' THEN socks'[s].asked = 0 /\ Unwritten(s)' = 0
          ELSE socks'[s].state = "open" => socks'[s].asked + Unwritten(s)' = 1
    BY <2>1 DEF Whole, Asked
  <2> QED BY <2>2, <2>3 DEF Asked
<1>4. Owned'
  BY <1>2, OwnedKept DEF Whole
<1> QED BY <1>1, <1>3, <1>4

LEMMA CountDialledConn ==
  ASSUME Whole, CountDialled
  PROVE  (Alone /\ Same /\ Addressed /\ Asked /\ Owned)'
<1>1. /\ gtk.pc = "adding" /\ currentId' = currentId + 1
      /\ gtk' = [gtk EXCEPT !.pc = "resolving", !.id = currentId]
      /\ UNCHANGED << socks, peers, reverse, ipMap, io, listening, pending, ips, asks, inbox, tracks, crashed >>
  BY DEF CountDialled
<1>2. io = "run" /\ pending = {} /\ currentId = Len(socks)
  BY <1>1, Numbers DEF Whole, Alone
<1>3. gtk'.pc = "resolving" /\ gtk'.id = Len(socks)
  BY <1>1, <1>2 DEF Whole, TypeInv, Threads
<1>4. Alone'
  BY <1>1, <1>2, <1>3 DEF Alone
<1> QED BY <1>1, <1>4, ConnCounted

LEMMA CountAcceptedConn ==
  ASSUME Whole, CountAccepted
  PROVE  (Alone /\ Same /\ Addressed /\ Asked /\ Owned)'
<1>1. /\ io = "counting" /\ io' = "accepted" /\ currentId' = currentId + 1
      /\ UNCHANGED << socks, peers, reverse, ipMap, gtk, listening, pending, ips, asks, inbox, tracks, crashed >>
  BY DEF CountAccepted
<1>2. Alone'
  BY <1>1 DEF Whole, Alone
<1> QED BY <1>1, <1>2, ConnCounted

\* The question for the peer that came last.
LEMMA AskLast ==
  ASSUME Whole, Len(socks) \in Sockets, Making(Len(socks)), asks' = Append(asks, Len(socks)),
         currentId = Len(socks) + 1, UNCHANGED currentId,
         Turned(Len(socks)), socks'[Len(socks)].asked = socks[Len(socks)].asked,
         socks'[Len(socks)].state # "new", io' = "run"
  PROVE  Asked'
<1>1. PICK n \in Nat : n = Len(socks)
  BY Numbers DEF Whole
<1>2. /\ n \in Sockets /\ asks \in Seq(Nat) /\ asks' = Append(asks, n) /\ currentId = n + 1
      /\ Len(socks') = n /\ \A t \in Sockets : t # n => socks'[t] = socks[t]
      /\ socks'[n].asked = 0 /\ Unwritten(n) = 0
  BY <1>1, Numbers DEF Whole, Turned, Asked
<1>3. \A s : Unwritten(s)' = IF n = s THEN Unwritten(s) + 1 ELSE Unwritten(s)
  BY <1>2, AskMore
<1>4. Sockets' = Sockets
  BY <1>1, <1>2 DEF Sockets
<1>5. \A s \in Sockets : s # n => Making(s)' = Making(s)
  BY <1>1, <1>2 DEF Making
<1>6. \A s \in Sockets' :
        IF Making(s)' THEN socks'[s].asked = 0 /\ Unwritten(s)' = 0
        ELSE socks'[s].state = "open" => socks'[s].asked + Unwritten(s)' = 1
  <2> SUFFICES ASSUME NEW s \in Sockets
               PROVE  IF Making(s)' THEN socks'[s].asked = 0 /\ Unwritten(s)' = 0
                      ELSE socks'[s].state = "open" => socks'[s].asked + Unwritten(s)' = 1
    BY <1>4
  <2>1. CASE s = n
    <3>1. ~Making(s)'
      BY <1>1, <2>1 DEF Making
    <3>2. socks'[s].asked = 0 /\ Unwritten(s)' = 1
      BY <1>2, <1>3, <2>1
    <3> QED BY <3>1, <3>2
  <2>2. CASE s # n
    BY <1>2, <1>3, <1>5, <2>2 DEF Whole, Asked
  <2> QED BY <2>1, <2>2
<1>7. \A i \in 1..Len(asks') : asks'[i] < currentId'
  <2>1. PICK k \in Nat : k = Len(asks)
    BY <1>2, LenProperties
  <2>2. Len(asks') = k + 1 /\ asks'[k + 1] = n /\ \A i \in 1..k : asks'[i] = asks[i]
    BY <1>2, <2>1, AppendProperties
  <2>3. \A i \in 1..k : asks[i] < currentId
    BY <2>1 DEF Whole, Asked
  <2>4. \A i \in 1..k + 1 : i = k + 1 \/ i \in 1..k
    BY <2>1
  <2>5. n < currentId
    BY <1>2
  <2> QED BY <2>2, <2>3, <2>4, <2>5
<1> QED BY <1>6, <1>7 DEF Asked

LEMMA OnAcceptedConn ==
  ASSUME Whole, OnAccepted
  PROVE  (Alone /\ Same /\ Addressed /\ Asked /\ Owned)'
<1>1. /\ io = "accepted" /\ io' = "run" /\ asks' = Append(asks, currentId - 1)
      /\ UNCHANGED << socks, peers, reverse, ipMap, currentId, gtk, pending, ips, inbox, tracks, crashed >>
  BY DEF OnAccepted
<1>2. gtk.pc = "rest" /\ pending = {} /\ currentId >= 2
  BY <1>1 DEF Whole, Alone, TypeInv, Counted
<1>3. PICK n \in Nat : n = Len(socks)
  BY Numbers DEF Whole
<1>4. currentId = n + 1 /\ n \in Sockets /\ currentId - 1 = n
  BY <1>1, <1>2, <1>3, Numbers DEF Whole, Sockets
<1>5. Making(Len(socks)) /\ socks'[Len(socks)].state # "new"
  BY <1>1 DEF Whole, Alone, Making
<1>6. Turned(Len(socks))
  BY <1>1, Numbers DEF Whole, Turned
<1>7. Asked'
  BY <1>1, <1>3, <1>4, <1>5, <1>6, AskLast
<1>8. Same' /\ Addressed'
  BY <1>1 DEF Whole, Same, Addressed, AddressOf, Sockets
<1>9. Owned'
  <2>1. currentId \in Nat /\ currentId <= currentId
    BY <1>3, <1>4
  <2> QED BY <1>1, <2>1, OwnedKept DEF Whole
<1>10. Alone'
  BY <1>1, <1>2 DEF Alone
<1> QED BY <1>7, <1>8, <1>9, <1>10

LEMMA ConnectedConn ==
  ASSUME Whole, NEW p \in pending, Connected(p), ~crashed'
  PROVE  (Alone /\ Same /\ Addressed /\ Asked /\ Owned)'
<1>1. /\ io = "run" /\ socks[p.sock].state = "new" /\ p.id \in DOMAIN peers
      /\ pending' = pending \ {p}
      /\ socks' = [socks EXCEPT ![p.sock].state = "open"]
      /\ ipMap' = Put(ipMap, currentId - 1, AddressOf(p.sock))
      /\ asks' = Append(asks, currentId - 1)
      /\ UNCHANGED << peers, reverse, currentId, gtk, io, listening, ips, inbox, tracks, crashed >>
  BY DEF Connected, Crash
<1>2. gtk.pc = "rest" /\ p.id = Len(socks) /\ p.sock = Len(socks) /\ p.sock \in Sockets
  BY <1>1 DEF Whole, Alone, TypeInv, Threads
<1>3. PICK n \in Nat : n = Len(socks)
  BY Numbers DEF Whole
<1>4. currentId = n + 1 /\ n \in Sockets /\ currentId - 1 = n /\ n \in DOMAIN peers
  BY <1>1, <1>2, <1>3, Numbers DEF Whole
<1>5. Turned(n) /\ socks'[n] = [socks[n] EXCEPT !.state = "open"]
  BY <1>1, <1>2, <1>3, SocketTurned, Numbers DEF Whole
<1>6. socks[n] \in Socket
  BY <1>4, ElementOfSeq, Numbers DEF Whole, Sockets
<1>7. socks'[n].asked = socks[n].asked /\ socks'[n].state = "open"
  BY <1>5, <1>6 DEF Socket
<1>8. Making(n) /\ socks'[n].state # "new"
  BY <1>1, <1>2, <1>3, <1>7 DEF Making
<1>9. Asked'
  BY <1>1, <1>3, <1>4, <1>5, <1>7, <1>8, AskLast
<1>10. Sockets' = Sockets
  BY <1>5 DEF Turned, Sockets
<1>11. Same'
  BY <1>1, <1>4, <1>5, <1>10 DEF Whole, Same, Turned
<1>12. Addressed'
  <2>1. \A id \in Sockets : AddressOf(id)' = AddressOf(id)
    BY <1>5 DEF Turned, AddressOf
  <2>2. ipMap' = Put(ipMap, n, AddressOf(n))
    BY <1>1, <1>2, <1>3, <1>4
  <2>3. /\ ipMap'[n] = AddressOf(n) \/ n \notin DOMAIN ipMap'
        /\ \A id \in DOMAIN ipMap' : id # n => id \in DOMAIN ipMap /\ ipMap'[id] = ipMap[id]
    BY <2>2 DEF Put
  <2> QED BY <1>4, <1>10, <2>1, <2>3 DEF Whole, Addressed
<1>13. Owned'
  <2>1. currentId \in Nat /\ currentId <= currentId
    BY <1>3, <1>4
  <2> QED BY <1>1, <1>5, <2>1, OwnedKept DEF Whole, Turned
<1>14. Alone'
  BY <1>1, <1>2, <1>5 DEF Whole, Alone, Turned
<1> QED BY <1>9, <1>11, <1>12, <1>13, <1>14

\* A socket is closed: nothing that is asked of the open ones changes.
LEMMA ClosedAsked ==
  ASSUME Whole, NEW s \in Sockets, Turned(s), socks'[s].state = "closed",
         socks'[s].asked = socks[s].asked, UNCHANGED << currentId, io, asks >>
  PROVE  Asked'
<1>1. Sockets' = Sockets /\ Len(socks') = Len(socks)
  BY DEF Turned, Sockets
<1>2. \A t : Unwritten(t)' = Unwritten(t)
  BY DEF Unwritten
<1>3. \A t \in Sockets : Making(t)' => Making(t)
  BY <1>1 DEF Making, Turned
<1>4. \A t \in Sockets : t # s => Making(t)' = Making(t)
  BY <1>1 DEF Making, Turned
<1>5. \A t \in Sockets' :
        IF Making(t)' THEN socks'[t].asked = 0 /\ Unwritten(t)' = 0
        ELSE socks'[t].state = "open" => socks'[t].asked + Unwritten(t)' = 1
  <2> SUFFICES ASSUME NEW t \in Sockets
               PROVE  IF Making(t)' THEN socks'[t].asked = 0 /\ Unwritten(t)' = 0
                      ELSE socks'[t].state = "open" => socks'[t].asked + Unwritten(t)' = 1
    BY <1>1
  <2>1. CASE t = s
    BY <1>2, <1>3, <2>1 DEF Whole, Asked
  <2>2. CASE t # s
    BY <1>2, <1>4, <2>2 DEF Whole, Asked, Turned
  <2> QED BY <2>1, <2>2
<1> QED BY <1>5 DEF Whole, Asked

LEMMA ConnectFailedConn ==
  ASSUME Whole, NEW p \in pending, ConnectFailed(p), ~crashed'
  PROVE  (Alone /\ Same /\ Addressed /\ Asked /\ Owned)'
<1>1. /\ io = "run" /\ currentId - 1 \in DOMAIN peers
      /\ pending' = pending \ {p}
      /\ socks' = [socks EXCEPT ![p.sock].state = "closed"]
      /\ peers' = Erase(peers, currentId - 1)
      /\ UNCHANGED << reverse, ipMap, currentId, gtk, io, listening, ips, asks, inbox, tracks, crashed >>
  BY DEF ConnectFailed, Crash, Close
<1>2. gtk.pc = "rest" /\ p.id = Len(socks) /\ p.sock = Len(socks) /\ p.sock \in Sockets
  BY <1>1 DEF Whole, Alone, TypeInv, Threads
<1>3. PICK n \in Nat : n = Len(socks)
  BY Numbers DEF Whole
<1>4. currentId = n + 1 /\ n \in Sockets /\ currentId - 1 = n
  BY <1>1, <1>2, <1>3, Numbers DEF Whole
<1>5. Turned(n) /\ socks'[n] = [socks[n] EXCEPT !.state = "closed"]
  BY <1>1, <1>2, <1>3, SocketTurned, Numbers DEF Whole
<1>6. socks[n] \in Socket
  BY <1>4, ElementOfSeq, Numbers DEF Whole, Sockets
<1>7. socks'[n].asked = socks[n].asked /\ socks'[n].state = "closed"
  BY <1>5, <1>6 DEF Socket
<1>8. Asked'
  BY <1>1, <1>4, <1>5, <1>7, ClosedAsked
<1>9. Sockets' = Sockets
  BY <1>5 DEF Turned, Sockets
<1>10. DOMAIN peers' = DOMAIN peers \ {n} /\ \A i \in DOMAIN peers' : peers'[i] = peers[i]
  BY <1>1, <1>4 DEF Erase
<1>11. Same'
  BY <1>1, <1>5, <1>7, <1>9, <1>10 DEF Whole, Same, Turned
<1>12. Addressed'
  <2>1. \A id \in Sockets : AddressOf(id)' = AddressOf(id)
    BY <1>5 DEF Turned, AddressOf
  <2> QED BY <1>1, <1>9, <2>1 DEF Whole, Addressed
<1>13. Owned'
  <2>1. currentId \in Nat /\ currentId <= currentId
    BY <1>3, <1>4
  <2> QED BY <1>1, <1>5, <2>1, OwnedKept DEF Whole, Turned
<1>14. Alone'
  BY <1>1, <1>2, <1>5 DEF Whole, Alone, Turned
<1> QED BY <1>8, <1>11, <1>12, <1>13, <1>14

\* remove_socket takes a peer out of both tables; its address may stay.
LEMMA RemovedConn ==
  ASSUME Whole, NEW id \in DOMAIN peers, Removed(id, peers[id]),
         UNCHANGED << currentId, inbox >>,
         \A i \in DOMAIN ipMap' : i \in DOMAIN ipMap /\ ipMap'[i] = ipMap[i]
  PROVE  /\ id \in Sockets /\ peers[id] = id /\ Turned(id)
         /\ socks'[id].state = "closed" /\ socks'[id].asked = socks[id].asked
         /\ (Same /\ Addressed /\ Owned)'
<1>1. id \in Sockets /\ peers[id] = id
  BY DEF Whole, Same, TypeInv, Maps
<1>2. /\ Turned(id) /\ socks'[id] = [socks[id] EXCEPT !.state = "closed"]
      /\ DOMAIN peers' = DOMAIN peers \ {id}
      /\ \A i \in DOMAIN peers' : peers'[i] = peers[i]
      /\ DOMAIN reverse' = DOMAIN reverse \ {id}
      /\ \A i \in DOMAIN reverse' : reverse'[i] = reverse[i]
      /\ Sockets' = Sockets
  BY <1>1, RemovedTypes DEF Whole
<1>3. socks[id] \in Socket
  BY <1>1, ElementOfSeq, Numbers DEF Whole, Sockets
<1>4. socks'[id].state = "closed" /\ socks'[id].asked = socks[id].asked
  BY <1>2, <1>3 DEF Socket
<1>5. Same'
  BY <1>1, <1>2, <1>4 DEF Whole, Same, Turned
<1>6. Addressed'
  <2>1. \A i \in Sockets : AddressOf(i)' = AddressOf(i)
    BY <1>2 DEF Turned, AddressOf
  <2> QED BY <1>2, <2>1 DEF Whole, Addressed
<1>7. Owned'
  <2>1. \A i \in 1..currentId : \A songs : OwnSongs(i, songs) =>
           i < currentId' /\ songs \subseteq Owns[socks'[i].host]
    <3>1. currentId \in Nat /\ currentId <= currentId
      BY Numbers DEF Whole
    <3> QED BY <1>2, <3>1, OwnedFrame DEF Whole, Turned
  <2>2. ASSUME NEW i \in 1..Len(inbox)
        PROVE  inbox[i].id < currentId' /\ inbox[i].songs \subseteq Owns[socks'[inbox[i].id].host]
    <3>1. inbox[i].id \in 1..currentId /\ OwnSongs(inbox[i].id, inbox[i].songs)
      BY IdsGiven DEF Whole, Owned
    <3> QED BY <2>1, <3>1
  <2>3. ASSUME NEW c \in DOMAIN tracks', NEW i \in 1..Len(tracks'[c])
        PROVE  tracks'[c][i] < currentId' /\ {c} \subseteq Owns[socks'[tracks'[c][i]].host]
    <3>1. RemoveNetworkTracks(id)
      BY DEF Removed
    <3>2. c \in DOMAIN tracks /\ \E j \in 1..Len(tracks[c]) : tracks'[c][i] = tracks[c][j]
      BY <3>1, TracksRemoved DEF Whole
    <3>3. tracks'[c][i] \in 1..currentId /\ OwnSongs(tracks'[c][i], {c})
      <4>1. PICK j \in 1..Len(tracks[c]) : tracks'[c][i] = tracks[c][j]
        BY <3>2
      <4>2. tracks[c][j] \in 1..currentId /\ OwnSongs(tracks[c][j], {c})
        BY <3>2, IdsGiven DEF Whole, Owned
      <4> QED BY <4>1, <4>2
    <3> QED BY <2>1, <3>3
  <2> QED BY <2>2, <2>3 DEF Owned, OwnSongs
<1> QED BY <1>1, <1>2, <1>4, <1>5, <1>6, <1>7

\* Closing a socket does not disturb who is connecting.
LEMMA ClosedAlone ==
  ASSUME Whole, NEW s \in Sockets, Turned(s), socks'[s].state = "closed",
         UNCHANGED << gtk, io, pending >>
  PROVE  Alone'
<1>1. Len(socks') = Len(socks)
  BY DEF Turned
<1>2. gtk.pc = "adding" => socks'[Len(socks)].state # "open"
  <2>1. ASSUME gtk.pc = "adding" PROVE Len(socks) \in Sockets
    <3>1. PICK n \in Nat : n = Len(socks)
      BY Numbers DEF Whole
    <3>2. currentId = n /\ currentId # 0
      BY <2>1, <3>1, Numbers DEF Whole, Alone
    <3>3. n \in 1..n
      BY <3>1, <3>2
    <3> QED BY <3>1, <3>3 DEF Sockets
  <2> QED BY <2>1 DEF Whole, Alone, Turned
<1>3. io # "run" => socks'[Len(socks)].state # "new"
  <2>1. ASSUME io # "run" PROVE Len(socks) \in Sockets
    <3>1. PICK n \in Nat : n = Len(socks)
      BY Numbers DEF Whole
    <3>2. gtk.pc = "rest" /\ io \in {"counting", "accepted"}
      BY <2>1 DEF Whole, Alone, TypeInv, Threads
    <3>3. CASE io = "counting"
      <4>1. currentId = n /\ currentId # 0
        BY <3>1, <3>2, <3>3, Numbers DEF Whole
      <4>2. n \in 1..n
        BY <3>1, <4>1
      <4> QED BY <3>1, <4>2 DEF Sockets
    <3>4. CASE io = "accepted"
      <4>1. currentId = n + 1 /\ currentId >= 2
        BY <3>1, <3>2, <3>4, Numbers DEF Whole, TypeInv, Counted
      <4>2. n \in 1..n
        BY <3>1, <4>1
      <4> QED BY <3>1, <4>2 DEF Sockets
    <3> QED BY <3>2, <3>3, <3>4
  <2> QED BY <2>1 DEF Whole, Alone, Turned
<1> QED BY <1>1, <1>2, <1>3 DEF Whole, Alone

LEMMA DisconnectedConn ==
  ASSUME Whole, NEW s \in Sockets, Disconnected(s), ~crashed'
  PROVE  (Alone /\ Same /\ Addressed /\ Asked /\ Owned)'
<1>1. socks[s].state = "open" /\ io = "run" /\ UNCHANGED << gtk, io, listening >>
  BY DEF Disconnected
<1>2. s \in DOMAIN peers /\ peers[s] = s /\ s \in DOMAIN reverse /\ reverse[s] = s
  BY <1>1 DEF Whole, Same
<1>3. Removed(s, peers[s]) /\ UNCHANGED << ipMap, currentId, pending, ips, asks, inbox >>
  BY <1>2 DEF Disconnected
<1>4. /\ Turned(s) /\ socks'[s].state = "closed" /\ socks'[s].asked = socks[s].asked
      /\ (Same /\ Addressed /\ Owned)'
  BY <1>2, <1>3, RemovedConn
<1>5. Alone'
  BY <1>1, <1>3, <1>4, ClosedAlone
<1>6. Asked'
  BY <1>1, <1>3, <1>4, ClosedAsked
<1> QED BY <1>4, <1>5, <1>6

LEMMA RemoveIpConn ==
  ASSUME Whole, NEW k \in DOMAIN ips, RemoveIp(k), ~crashed'
  PROVE  (Alone /\ Same /\ Addressed /\ Asked /\ Owned)'
<1> DEFINE found == {id \in DOMAIN ipMap : ipMap[id] = [host |-> ips[k], dialled |-> TRUE]}
<1>1. /\ gtk.pc = "rest"
      /\ UNCHANGED << currentId, gtk, io, listening, pending, asks, inbox >>
      /\ IF found = {}
         THEN UNCHANGED << socks, peers, reverse, ipMap, tracks, crashed >>
         ELSE RemoveSocketOfId(Min(found)) /\ ipMap' = Erase(ipMap, Min(found))
  BY DEF RemoveIp
<1> HIDE DEF found
<1>2. CASE UNCHANGED << socks, peers, reverse, tracks >> /\ UNCHANGED ipMap
  <2>1. Alone'
    BY <1>1, <1>2 DEF Whole, Alone
  <2> QED BY <1>1, <1>2, <2>1, ConnKept
<1>3. CASE found # {}
  <2>1. PICK id : id = Min(found)
    OBVIOUS
  <2>2. RemoveSocketOfId(id) /\ ipMap' = Erase(ipMap, id)
    BY <1>1, <1>3, <2>1
  <2>3. \A i \in DOMAIN ipMap' : i \in DOMAIN ipMap /\ ipMap'[i] = ipMap[i]
    BY <2>2 DEF Erase
  <2>4. CASE id \in DOMAIN peers
    <3>1. Removed(id, peers[id])
      BY <2>2, <2>4 DEF RemoveSocketOfId
    <3>2. /\ id \in Sockets /\ Turned(id)
          /\ socks'[id].state = "closed" /\ socks'[id].asked = socks[id].asked
          /\ (Same /\ Addressed /\ Owned)'
      BY <1>1, <2>3, <2>4, <3>1, RemovedConn
    <3>3. Alone' /\ Asked'
      BY <1>1, <3>2, ClosedAlone, ClosedAsked
    <3> QED BY <3>2, <3>3
  <2>5. CASE id \notin DOMAIN peers
    <3>1. UNCHANGED << socks, peers, reverse, tracks, crashed >>
      BY <2>2, <2>5 DEF RemoveSocketOfId
    <3>2. Alone' /\ Same'
      BY <1>1, <3>1 DEF Whole, Alone, Same, Sockets
    <3>3. Addressed'
      BY <2>3, <3>1 DEF Whole, Addressed, AddressOf, Sockets
    <3>4. Asked'
      BY <1>1, <3>1 DEF Whole, Asked, Making, Unwritten, Sockets
    <3>5. Owned'
      BY <1>1, <3>1 DEF Whole, Owned, OwnSongs
    <3> QED BY <3>2, <3>3, <3>4, <3>5
  <2> QED BY <2>4, <2>5
<1>4. CASE found = {}
  BY <1>1, <1>2, <1>4
<1> QED BY <1>3, <1>4

\* A question is written, or there is nobody to write it to.
LEMMA WriteAskConn ==
  ASSUME Whole, WriteAsk, ~crashed'
  PROVE  (Alone /\ Same /\ Addressed /\ Asked /\ Owned)'
<1>1. PICK id : id = Head(asks)
  OBVIOUS
<1>2. /\ io = "run" /\ asks # << >> /\ asks' = Tail(asks)
      /\ UNCHANGED << ipMap, currentId, gtk, io, listening, pending, ips, inbox >>
      /\ IF id \in DOMAIN peers /\ socks[peers[id]].state = "open"
         THEN /\ socks' = [socks EXCEPT ![peers[id]].asked = @ + 1]
              /\ UNCHANGED << peers, reverse, tracks, crashed >>
         ELSE RemoveSocketOfId(id)
  BY <1>1 DEF WriteAsk
<1>3. asks \in Seq(Nat) /\ currentId \in Nat /\ Len(socks) \in Nat
  BY Numbers DEF Whole
<1>4. \A s : Unwritten(s) = IF id = s THEN Unwritten(s)' + 1 ELSE Unwritten(s)'
  BY <1>1, <1>2, <1>3, AskLess
<1>5. asks' \in Seq(Nat) /\ \A s : Unwritten(s)' \in Nat
  <2>1. asks' \in Seq(Nat)
    BY <1>2, <1>3, HeadTailProperties
  <2>2. \A s : IsFiniteSet({i \in DOMAIN asks' : asks'[i] = s})
    BY <2>1, PlacesFinite
  <2> QED BY <2>1, <2>2, FS_CardinalityType DEF Unwritten
<1>6. id \in Sockets => ~Making(id)
  BY <1>4, <1>5 DEF Whole, Asked
<1>7. \A i \in 1..Len(asks') : asks'[i] < currentId'
  <2>1. PICK k \in Nat : k = Len(asks)
    BY <1>3, LenProperties
  <2>2. Len(asks') = k - 1 /\ \A i \in 1..k - 1 : asks'[i] = asks[i + 1]
    BY <1>2, <1>3, <2>1, HeadTailProperties
  <2>3. \A i \in 1..k - 1 : i + 1 \in 1..k
    BY <2>1
  <2>4. \A i \in 1..k : asks[i] < currentId
    BY <2>1 DEF Whole, Asked
  <2> QED BY <1>2, <2>2, <2>3, <2>4
<1>8. \A s \in Sockets : IF Making(s) THEN socks[s].asked = 0 /\ Unwritten(s) = 0
                         ELSE socks[s].state = "open" => socks[s].asked + Unwritten(s) = 1
  BY DEF Whole, Asked
<1>9. CASE id \in DOMAIN peers /\ socks[peers[id]].state = "open"
  <2>1. id \in Sockets /\ peers[id] = id
    BY <1>9 DEF Whole, Same, TypeInv, Maps
  <2>2. /\ socks' = [socks EXCEPT ![id].asked = @ + 1]
        /\ UNCHANGED << peers, reverse, tracks, crashed >>
    BY <1>2, <1>9, <2>1
  <2>3. Turned(id) /\ socks'[id] = [socks[id] EXCEPT !.asked = @ + 1]
    BY <2>1, <2>2, SocketTurned, Numbers DEF Whole
  <2>4. socks[id] \in Socket
    BY <2>1, ElementOfSeq, Numbers DEF Whole, Sockets
  <2>5. /\ socks'[id].asked = socks[id].asked + 1 /\ socks'[id].state = socks[id].state
        /\ socks[id].asked \in Nat
    BY <2>3, <2>4 DEF Socket
  <2>6. Sockets' = Sockets /\ Len(socks') = Len(socks)
    BY <2>3 DEF Turned, Sockets
  <2>7. \A s \in Sockets : socks'[s].state = socks[s].state /\ socks'[s].host = socks[s].host
                           /\ socks'[s].dialled = socks[s].dialled
    BY <2>3, <2>5 DEF Turned
  <2>8. Alone'
    <3>1. UNCHANGED << gtk, io, pending >>
      BY <1>2
    <3>3. gtk.pc = "adding" => Len(socks) \in Sockets
      <4>1. ASSUME gtk.pc = "adding" PROVE currentId = Len(socks) /\ currentId # 0
        BY <1>2, <4>1, Numbers DEF Whole
      <4>2. PICK n \in Nat : n = Len(socks)
        BY <1>3
      <4>3. gtk.pc = "adding" => n \in 1..n
        BY <4>1, <4>2
      <4> QED BY <4>2, <4>3 DEF Sockets
    <3> QED BY <1>2, <2>6, <2>7, <3>1, <3>3 DEF Whole, Alone
  <2>9. Same'
    BY <2>2, <2>6, <2>7 DEF Whole, Same
  <2>10. Addressed'
    <3>1. \A i \in Sockets : AddressOf(i)' = AddressOf(i)
      BY <2>7 DEF AddressOf
    <3> QED BY <1>2, <2>6, <3>1 DEF Whole, Addressed
  <2>11. Owned'
    <3>1. currentId <= currentId
      BY <1>3
    <3> QED BY <1>2, <1>3, <2>2, <2>7, <3>1, OwnedKept DEF Whole
  <2>12. \A s \in Sockets : Making(s)' = Making(s)
    BY <1>2, <2>6, <2>7 DEF Making
  <2>13. ASSUME NEW s \in Sockets'
         PROVE  IF Making(s)' THEN socks'[s].asked = 0 /\ Unwritten(s)' = 0
                ELSE socks'[s].state = "open" => socks'[s].asked + Unwritten(s)' = 1
    <3>1. s \in Sockets /\ Making(s)' = Making(s)
      BY <2>6, <2>12, <2>13
    <3>2. CASE s = id
      <4>1. ~Making(s) /\ socks[s].asked + Unwritten(s) = 1
        BY <1>6, <1>8, <1>9, <2>1, <3>2
      <4>2. Unwritten(s) = Unwritten(s)' + 1 /\ Unwritten(s)' \in Nat
        BY <1>4, <1>5, <3>2
      <4>3. socks'[s].asked + Unwritten(s)' = 1
        <5>1. PICK a \in Nat, u \in Nat : a = socks[s].asked /\ u = Unwritten(s)'
          BY <2>5, <3>2, <4>2
        <5>2. a + (u + 1) = 1
          BY <4>1, <4>2, <5>1
        <5>3. (a + 1) + u = 1
          BY <5>2
        <5> QED BY <2>5, <3>2, <5>1, <5>3
      <4> QED BY <3>1, <4>1, <4>3
    <3>3. CASE s # id
      <4>1. Unwritten(s)' = Unwritten(s) /\ socks'[s] = socks[s]
        BY <1>4, <2>3, <3>1, <3>3 DEF Turned
      <4> QED BY <1>8, <3>1, <4>1
    <3> QED BY <3>2, <3>3
  <2>14. Asked'
    BY <1>7, <2>13 DEF Asked
  <2> QED BY <2>8, <2>9, <2>10, <2>11, <2>14
<1>10. ASSUME Sockets' = Sockets, id \in Sockets => socks'[id].state # "open",
              \A s \in Sockets : s # id => socks'[s] = socks[s],
              id \in Sockets => ~Making(id)', Len(socks') = Len(socks)
       PROVE  Asked'
  <2>1. ASSUME NEW s \in Sockets'
        PROVE  IF Making(s)' THEN socks'[s].asked = 0 /\ Unwritten(s)' = 0
               ELSE socks'[s].state = "open" => socks'[s].asked + Unwritten(s)' = 1
    <3>1. s \in Sockets
      BY <1>10, <2>1
    <3>2. CASE s = id
      BY <1>10, <3>1, <3>2
    <3>3. CASE s # id
      <4>1. Unwritten(s)' = Unwritten(s) /\ socks'[s] = socks[s]
        BY <1>4, <1>10, <3>1, <3>3
      <4>2. Making(s)' = Making(s)
        BY <1>2, <1>10, <4>1 DEF Making
      <4> QED BY <1>8, <3>1, <4>1, <4>2
    <3> QED BY <3>2, <3>3
  <2> QED BY <1>7, <2>1 DEF Asked
<1>11. CASE id \in DOMAIN peers /\ socks[peers[id]].state # "open"
  <2>1. Removed(id, peers[id])
    BY <1>2, <1>11 DEF RemoveSocketOfId
  <2>2. /\ id \in Sockets /\ Turned(id)
        /\ socks'[id].state = "closed" /\ socks'[id].asked = socks[id].asked
        /\ (Same /\ Addressed /\ Owned)'
    BY <1>2, <1>11, <2>1, RemovedConn
  <2>3. Alone'
    BY <1>2, <2>2, ClosedAlone
  <2>4. Sockets' = Sockets /\ Len(socks') = Len(socks)
    BY <2>2 DEF Turned, Sockets
  <2>5. ~Making(id)'
    BY <1>2, <2>2 DEF Making
  <2>6. Asked'
    BY <1>10, <2>2, <2>4, <2>5 DEF Turned
  <2> QED BY <2>2, <2>3, <2>6
<1>12. CASE id \notin DOMAIN peers
  <2>1. UNCHANGED << socks, peers, reverse, tracks, crashed >>
    BY <1>2, <1>12 DEF RemoveSocketOfId
  <2>2. Alone' /\ Same' /\ Addressed'
    BY <1>2, <2>1 DEF Whole, Alone, Same, Addressed, AddressOf, Sockets
  <2>3. Owned'
    BY <1>2, <2>1 DEF Whole, Owned, OwnSongs
  <2>4. id \in Sockets => socks'[id].state # "open"
    BY <1>12, <2>1 DEF Whole, Same
  <2>5. id \in Sockets => ~Making(id)'
    BY <1>2, <1>6, <2>1 DEF Making
  <2>6. Sockets' = Sockets
    BY <2>1 DEF Sockets
  <2>7. Asked'
    BY <1>10, <2>1, <2>4, <2>5, <2>6
  <2> QED BY <2>2, <2>3, <2>7
<1> QED BY <1>9, <1>11, <1>12

LEMMA InboxMore ==
  ASSUME TypeInv, NEW m, inbox' = Append(inbox, m)
  PROVE  /\ Len(inbox') = Len(inbox) + 1 /\ inbox'[Len(inbox) + 1] = m
         /\ \A i \in 1..Len(inbox) : inbox'[i] = inbox[i]
<1> DEFINE S == [id : 1..currentId, songs : SUBSET Songs] \cup {m}
<1>1. inbox \in Seq(S) /\ m \in S
  <2>1. inbox \in Seq([id : 1..currentId, songs : SUBSET Songs])
    BY DEF TypeInv, Queues
  <2> QED BY <2>1, SeqMonotonic
<1> HIDE DEF S
<1> QED BY <1>1, AppendProperties

LEMMA ReadDatabaseConn ==
  ASSUME Whole, NEW s \in Sockets, ReadDatabase(s)
  PROVE  (Alone /\ Same /\ Addressed /\ Asked /\ Owned)'
<1> DEFINE m == [id |-> reverse[s], songs |-> Owns[socks[s].host]]
<1>1. /\ io = "run" /\ s \in DOMAIN reverse /\ socks[s].state = "open"
      /\ socks' = [socks EXCEPT ![s].answered = @ + 1]
      /\ inbox' = Append(inbox, m)
      /\ UNCHANGED << peers, reverse, ipMap, currentId, gtk, io, listening, pending, ips, asks, tracks, crashed >>
  BY DEF ReadDatabase
<1>2. Turned(s) /\ socks'[s] = [socks[s] EXCEPT !.answered = @ + 1]
  BY <1>1, SocketTurned, Numbers DEF Whole
<1>3. socks[s] \in Socket
  BY ElementOfSeq, Numbers DEF Whole, Sockets
<1>4. socks'[s].asked = socks[s].asked /\ socks'[s].state = socks[s].state
  BY <1>2, <1>3 DEF Socket
<1>5. Sockets' = Sockets /\ Len(socks') = Len(socks)
  BY <1>2 DEF Turned, Sockets
<1>6. \A t \in Sockets :
        /\ socks'[t].state = socks[t].state /\ socks'[t].host = socks[t].host
        /\ socks'[t].dialled = socks[t].dialled /\ socks'[t].asked = socks[t].asked
  BY <1>2, <1>4 DEF Turned
<1>7. PICK n \in Nat : n = Len(socks)
  BY Numbers DEF Whole
<1>8. currentId \in Nat /\ s \in 1..n /\ s < currentId
  <2>1. s \in 1..n /\ currentId \in Nat
    BY <1>7, Numbers DEF Whole, Sockets
  <2>2. CASE gtk.pc = "adding"
    <3>1. currentId = n /\ s # n
      BY <1>1, <1>7, <2>2, Numbers DEF Whole, Alone
    <3> QED BY <1>7, <2>1, <3>1
  <2>3. CASE gtk.pc # "adding"
    <3>1. currentId = n + 1
      BY <1>1, <1>7, <2>3, Numbers DEF Whole
    <3> QED BY <1>7, <2>1, <3>1
  <2> QED BY <2>1, <2>2, <2>3
<1>9. Alone'
  <2>1. gtk.pc = "adding" => n \in Sockets
    <3>1. gtk.pc = "adding" => currentId = n /\ currentId # 0
      BY <1>1, <1>7, Numbers DEF Whole
    <3>2. gtk.pc = "adding" => n \in 1..n
      BY <1>7, <3>1
    <3> QED BY <1>7, <3>2 DEF Sockets
  <2> QED BY <1>1, <1>5, <1>6, <1>7, <2>1 DEF Whole, Alone
<1>10. Same'
  BY <1>1, <1>5, <1>6 DEF Whole, Same
<1>11. Addressed'
  <2>1. \A i \in Sockets : AddressOf(i)' = AddressOf(i)
    BY <1>6 DEF AddressOf
  <2> QED BY <1>1, <1>5, <2>1 DEF Whole, Addressed
<1>12. Asked'
  <2>1. \A t \in Sockets : Making(t)' = Making(t)
    BY <1>1, <1>5, <1>6 DEF Making
  <2>2. \A t : Unwritten(t)' = Unwritten(t)
    BY <1>1 DEF Unwritten
  <2>3. \A t \in Sockets' :
          IF Making(t)' THEN socks'[t].asked = 0 /\ Unwritten(t)' = 0
          ELSE socks'[t].state = "open" => socks'[t].asked + Unwritten(t)' = 1
    BY <1>5, <1>6, <2>1, <2>2 DEF Whole, Asked
  <2> QED BY <1>1, <2>3 DEF Whole, Asked
<1>13. Owned'
  <2>1. \A i \in 1..currentId : \A songs : OwnSongs(i, songs) =>
           i < currentId' /\ songs \subseteq Owns[socks'[i].host]
    <3>1. currentId <= currentId
      BY <1>8
    <3> QED BY <1>1, <1>6, <1>8, <3>1, OwnedFrame DEF Whole
  <2>2. m.id = s /\ m.songs = Owns[socks[s].host]
    BY <1>1 DEF Whole, Same
  <2>3. m.id < currentId' /\ m.songs \subseteq Owns[socks'[m.id].host]
    BY <1>1, <1>6, <1>8, <2>2
  <2> HIDE DEF m
  <2>4. PICK k \in Nat : k = Len(inbox)
    BY LenProperties DEF Whole, TypeInv, Queues
  <2>5. Len(inbox') = k + 1 /\ inbox'[k + 1] = m /\ \A i \in 1..k : inbox'[i] = inbox[i]
    BY <1>1, <2>4, InboxMore DEF Whole
  <2>6. ASSUME NEW i \in 1..k + 1
        PROVE  inbox'[i].id < currentId' /\ inbox'[i].songs \subseteq Owns[socks'[inbox'[i].id].host]
    <3>1. CASE i = k + 1
      BY <2>3, <2>5, <3>1
    <3>2. CASE i # k + 1
      <4>1. i \in 1..k
        BY <2>4, <3>2
      <4>2. inbox[i].id \in 1..currentId /\ OwnSongs(inbox[i].id, inbox[i].songs)
        BY <2>4, <4>1, IdsGiven DEF Whole, Owned
      <4> QED BY <2>1, <2>5, <4>1, <4>2
    <3> QED BY <3>1, <3>2
  <2>7. ASSUME NEW c \in DOMAIN tracks, NEW i \in 1..Len(tracks[c])
        PROVE  tracks[c][i] < currentId' /\ {c} \subseteq Owns[socks'[tracks[c][i]].host]
    <3>1. tracks[c][i] \in 1..currentId /\ OwnSongs(tracks[c][i], {c})
      BY IdsGiven DEF Whole, Owned
    <3> QED BY <2>1, <3>1
  <2>8. tracks' = tracks
    BY <1>1
  <2> QED BY <2>5, <2>6, <2>7, <2>8 DEF Owned, OwnSongs
<1> QED BY <1>9, <1>10, <1>11, <1>12, <1>13

LEMMA HandleReturnDatabaseConn ==
  ASSUME Whole, HandleReturnDatabase
  PROVE  (Alone /\ Same /\ Addressed /\ Asked /\ Owned)'
<1> DEFINE m == Head(inbox)
<1>1. /\ inbox # << >> /\ inbox' = Tail(inbox) /\ tracks' = AddTracks(m.id, m.songs)
      /\ UNCHANGED << socks, peers, reverse, ipMap, currentId, gtk, io, listening, pending, ips, asks, crashed >>
  BY DEF HandleReturnDatabase
<1>2. Alone' /\ Same' /\ Addressed'
  BY <1>1 DEF Whole, Alone, Same, Addressed, AddressOf, Sockets
<1>3. Asked'
  BY <1>1 DEF Whole, Asked, Making, Unwritten, Sockets
<1>4. PICK k \in Nat : k = Len(inbox)
  BY LenProperties DEF Whole, TypeInv, Queues
<1>5. k # 0 /\ m = inbox[1] /\ Len(inbox') = k - 1 /\ \A i \in 1..k - 1 : inbox'[i] = inbox[i + 1]
  BY <1>1, <1>4, EmptySeq, HeadTailProperties DEF Whole, TypeInv, Queues
<1>6. m.id < currentId /\ m.songs \subseteq Owns[socks[m.id].host]
  <2>1. 1 \in 1..k
    BY <1>4, <1>5
  <2> QED BY <1>4, <1>5, <2>1 DEF Whole, Owned, OwnSongs
<1> HIDE DEF m
<1>7. ASSUME NEW i \in 1..k - 1 PROVE OwnSongs(inbox'[i].id, inbox'[i].songs)
  <2>1. i + 1 \in 1..k
    BY <1>4
  <2> QED BY <1>4, <1>5, <2>1 DEF Whole, Owned
<1>8. ASSUME NEW c \in DOMAIN tracks', NEW i \in 1..Len(tracks'[c])
      PROVE  OwnSongs(tracks'[c][i], {c})
  <2>1. CASE c \in m.songs \ Local /\ c \in DOMAIN tracks
    <3>1. tracks'[c] = Append(tracks[c], m.id)
      BY <1>1, <2>1 DEF AddTracks
    <3>2. tracks[c] \in Seq(Nat) /\ m.id \in Nat
      <4>1. 1..currentId \subseteq Nat
        BY Numbers DEF Whole
      <4>2. m.id \in 1..currentId
        BY <1>4, <1>5, IdsGiven DEF Whole
      <4> QED BY <2>1, <4>1, <4>2, SeqMonotonic DEF Whole, TypeInv, Shown
    <3>3. PICK l \in Nat : l = Len(tracks[c])
      BY <3>2, LenProperties
    <3>4. Len(tracks'[c]) = l + 1 /\ tracks'[c][l + 1] = m.id
          /\ \A j \in 1..l : tracks'[c][j] = tracks[c][j]
      BY <3>1, <3>2, <3>3, AppendProperties
    <3>5. CASE i = l + 1
      BY <1>6, <2>1, <3>4, <3>5 DEF OwnSongs
    <3>6. CASE i # l + 1
      <4>1. i \in 1..l
        BY <3>3, <3>4, <3>6
      <4> QED BY <2>1, <3>3, <3>4, <4>1 DEF Whole, Owned
    <3> QED BY <3>5, <3>6
  <2>2. CASE c \in m.songs \ Local /\ c \notin DOMAIN tracks
    <3>1. tracks'[c] = << m.id >>
      BY <1>1, <2>2 DEF AddTracks
    <3>2. i = 1
      BY <3>1
    <3> QED BY <1>6, <2>2, <3>1, <3>2 DEF OwnSongs
  <2>3. CASE c \notin m.songs \ Local
    <3>1. c \in DOMAIN tracks /\ tracks'[c] = tracks[c]
      BY <1>1, <2>3 DEF AddTracks
    <3> QED BY <3>1 DEF Whole, Owned
  <2> QED BY <2>1, <2>2, <2>3
<1>9. Owned'
  <2>1. /\ \A i \in 1..Len(inbox') :
             /\ inbox'[i].id < currentId
             /\ inbox'[i].songs \subseteq Owns[socks[inbox'[i].id].host]
        /\ \A c \in DOMAIN tracks' : \A i \in 1..Len(tracks'[c]) :
             /\ tracks'[c][i] < currentId
             /\ {c} \subseteq Owns[socks[tracks'[c][i]].host]
    BY <1>5, <1>7, <1>8 DEF OwnSongs
  <2>2. UNCHANGED << socks, currentId >>
    BY <1>1
  <2> QED BY <2>1, <2>2 DEF Owned, OwnSongs
<1> QED BY <1>2, <1>3, <1>9

\* The address is resolved, or is not, or nobody is accepted any more.
LEMMA ThreadsConn ==
  ASSUME Whole, ResolveFails \/ StartConnect \/ AcceptFails, ~crashed'
  PROVE  (Alone /\ Same /\ Addressed /\ Asked /\ Owned)'
<1>1. UNCHANGED << socks, peers, reverse, ipMap, currentId, asks, inbox, tracks, io >>
  BY DEF ResolveFails, StartConnect, AcceptFails, Crash
<1>2. CASE ResolveFails
  <2>1. gtk'.pc = "rest" /\ UNCHANGED << pending, io, socks >>
    BY <1>2 DEF ResolveFails, Whole, TypeInv, Threads
  <2>2. Alone'
    BY <2>1 DEF Whole, Alone
  <2> QED BY <1>1, <2>2, ConnKept
<1>3. CASE StartConnect
  <2>1. /\ gtk.pc = "resolving" /\ gtk.id \in DOMAIN peers
        /\ pending' = pending \cup {[id |-> gtk.id, sock |-> peers[gtk.id]]}
        /\ gtk'.pc = "rest"
    BY <1>3 DEF StartConnect, Crash, Whole, TypeInv, Threads
  <2>2. io = "run" /\ pending = {} /\ gtk.id = Len(socks) /\ peers[gtk.id] = gtk.id
    BY <2>1 DEF Whole, Alone, Same
  <2>3. \A p \in pending' : p.id = Len(socks) /\ p.sock = Len(socks)
    BY <2>1, <2>2
  <2>4. Alone'
    BY <1>1, <2>1, <2>2, <2>3 DEF Alone
  <2> QED BY <1>1, <2>4, ConnKept
<1>4. CASE AcceptFails
  <2>1. Alone'
    BY <1>1, <1>4 DEF AcceptFails, Whole, Alone
  <2> QED BY <1>1, <2>1, ConnKept
<1> QED BY <1>2, <1>3, <1>4

LEMMA ConnStep ==
  ASSUME TypeInv, PeersInv, OneAtATime, [Next]_vars
  PROVE  PeersInv'
<1> SUFFICES ASSUME ~crashed' PROVE (Alone /\ Same /\ Addressed /\ Asked /\ Owned)'
  BY DEF PeersInv
<1>1. CASE UNCHANGED vars
  <2>1. Whole /\ UNCHANGED << socks, peers, reverse, ipMap, currentId, asks, inbox, tracks, io, gtk, pending >>
    BY <1>1 DEF vars, Whole, PeersInv
  <2>2. Alone'
    BY <2>1 DEF Whole, Alone
  <2> QED BY <2>1, <2>2, ConnKept
<1>2. CASE Next
  <2>1. ~crashed
    BY <1>2 DEF Next, GtkStep, UserStep, IoStep, HostStep, CountDialled, StartConnect, ConnectToPeer,
                RemoveIp, ResolveFails, CountAccepted, OnAccepted, WriteAsk, HandleReturnDatabase,
                ReadDatabase, Connected, ConnectFailed, AcceptFails, AcceptSocket, Disconnected
  <2>2. Whole
    BY <2>1 DEF Whole, PeersInv
  <2>3. CASE GtkStep
    BY <2>2, <2>3, CountDialledConn, ThreadsConn DEF GtkStep
  <2>4. CASE UserStep
    BY <2>2, <2>4, ConnectConn, RemoveIpConn, ThreadsConn DEF UserStep
  <2>5. CASE IoStep
    BY <2>2, <2>5, CountAcceptedConn, OnAcceptedConn, WriteAskConn, HandleReturnDatabaseConn,
       ReadDatabaseConn, ConnectedConn, ConnectFailedConn DEF IoStep
  <2>6. CASE HostStep
    BY <2>2, <2>6, ThreadsConn, AcceptConn, DisconnectedConn DEF HostStep
  <2> QED BY <1>2, <2>3, <2>4, <2>5, <2>6 DEF Next
<1> QED BY <1>1, <1>2

---------------------------------------------------------------------------
LEMMA InitTypes == Init => TypeInv
<1> SUFFICES ASSUME Init PROVE TypeInv
  OBVIOUS
<1>1. /\ socks = << >> /\ peers = << >> /\ reverse = << >> /\ ipMap = << >>
      /\ currentId = 1 /\ gtk = [pc |-> "rest", id |-> 0, host |-> "none"]
      /\ io = "run" /\ listening = TRUE /\ pending = {} /\ ips = << >>
      /\ asks = << >> /\ inbox = << >> /\ tracks = << >> /\ crashed = FALSE
  BY DEF Init
<1>2. Len(socks) = 0 /\ socks \in Seq(Socket)
  BY <1>1
<1>3. Counted
  BY <1>1, <1>2, PeersAssumption DEF Counted, Adding, Counting
<1>4. Threads
  BY <1>1, EmptySeq DEF Threads
<1>5. DOMAIN peers = {} /\ DOMAIN reverse = {} /\ DOMAIN ipMap = {} /\ DOMAIN tracks = {}
  BY <1>1
<1>6. peers = [i \in {} |-> peers[i]] /\ reverse = [i \in {} |-> reverse[i]] /\ ipMap = [i \in {} |-> ipMap[i]]
  BY <1>1
<1>7. Maps
  BY <1>5, <1>6 DEF Maps
<1>8. Queues
  BY <1>1 DEF Queues
<1>9. Shown
  BY <1>5 DEF Shown
<1> QED BY <1>3, <1>4, <1>7, <1>8, <1>9 DEF TypeInv

LEMMA InitPeers == Init => PeersInv
<1> SUFFICES ASSUME Init PROVE PeersInv
  OBVIOUS
<1>1. /\ socks = << >> /\ peers = << >> /\ reverse = << >> /\ ipMap = << >>
      /\ gtk.pc = "rest" /\ io = "run" /\ pending = {}
      /\ asks = << >> /\ inbox = << >> /\ tracks = << >>
  BY DEF Init
<1>2. Sockets = {} /\ DOMAIN peers = {} /\ DOMAIN reverse = {} /\ DOMAIN ipMap = {} /\ DOMAIN tracks = {}
      /\ 1..Len(asks) = {} /\ 1..Len(inbox) = {}
  BY <1>1 DEF Sockets
<1> QED BY <1>1, <1>2 DEF PeersInv, Alone, Same, Addressed, Asked, Owned

LEMMA TypesTold == TypeInv => TypeOK
<1> SUFFICES ASSUME TypeInv PROVE TypeOK
  OBVIOUS
<1>1. currentId \in 1..MaxSockets + 1
  BY Sizes
<1>2. \A p \in pending : p.sock \in Sockets
  BY DEF TypeInv, Threads
<1>3. gtk.pc \in {"rest", "adding", "resolving"}
  BY DEF TypeInv, Threads
<1> QED BY <1>1, <1>2, <1>3 DEF TypeOK, TypeInv, Counted, Threads, Maps, Queues, Shown

\* Ids have been given out before anything is known of them, and network_tracks
\* holds no song of the own database and none without an owner.
THEOREM TypeCorrect == Spec => []TypeOK
<1>1. Spec => []TypeInv
  BY InitTypes, TypeStep, PTL DEF Spec
<1> QED BY <1>1, TypesTold, PTL

\* The tables, the addresses, the questions and the owners of one connection
\* at a time.
LEMMA Always ==
  ASSUME OneAtATime
  PROVE  Spec => [](TypeInv /\ PeersInv)
<1>1. Init => TypeInv /\ PeersInv
  BY InitTypes, InitPeers
<1>2. TypeInv /\ PeersInv /\ [Next]_vars => (TypeInv /\ PeersInv)'
  BY TypeStep, ConnStep
<1> QED BY <1>1, <1>2, PTL DEF Spec

\* While no connection is begun before the last one is made or has failed, a
\* message from an open connection is taken for one of the peer that answers
\* are sent to, and remove_socket finds both entries.
THEOREM TablesInverse ==
  ASSUME OneAtATime
  PROVE  Spec => []TablesAgree
<1>1. TypeInv /\ PeersInv => TablesAgree
  BY DEF PeersInv, Same, TablesAgree
<1> QED BY <1>1, Always, PTL

\* ... a user who removes an address disconnects no peer at another: the id
\* that remove_socket_by_ip finds is that of a socket to the address.
THEOREM OthersStay ==
  ASSUME OneAtATime
  PROVE  Spec => RemovesNoOther
<1> DEFINE Others == \A k \in DOMAIN ips : RemoveIp(k) =>
             \A s \in Sockets : socks'[s].state # socks[s].state =>
                 AddressOf(s) = [host |-> ips[k], dialled |-> TRUE]
<1>1. ASSUME TypeInv, PeersInv, NEW k \in DOMAIN ips, RemoveIp(k),
             NEW s \in Sockets, socks'[s].state # socks[s].state
      PROVE  AddressOf(s) = [host |-> ips[k], dialled |-> TRUE]
  <2> DEFINE found == {id \in DOMAIN ipMap : ipMap[id] = [host |-> ips[k], dialled |-> TRUE]}
  <2>1. /\ ~crashed /\ UNCHANGED currentId
        /\ IF found = {}
           THEN UNCHANGED << socks, peers, reverse, ipMap, tracks, crashed >>
           ELSE RemoveSocketOfId(Min(found)) /\ ipMap' = Erase(ipMap, Min(found))
    BY <1>1 DEF RemoveIp
  <2>2. found # {}
    BY <1>1, <2>1
  <2>3. found \subseteq Nat
    BY <1>1, Sizes DEF TypeInv, Maps
  <2>4. PICK id \in found : id = Min(found)
    BY <2>2, <2>3, MinNat
  <2>5. RemoveSocketOfId(id) /\ ipMap[id] = [host |-> ips[k], dialled |-> TRUE] /\ id \in DOMAIN ipMap
    BY <2>1, <2>2, <2>4
  <2> HIDE DEF found
  <2>6. id \in DOMAIN peers /\ Removed(id, peers[id])
    BY <1>1, <2>5 DEF RemoveSocketOfId
  <2>7. peers[id] = id /\ id \in Sockets /\ ipMap[id] = AddressOf(id)
    BY <1>1, <2>1, <2>5, <2>6 DEF PeersInv, Same, Addressed
  <2>8. Turned(id)
    BY <1>1, <2>1, <2>6, <2>7, RemovedTypes
  <2>9. s = id
    BY <1>1, <2>8 DEF Turned
  <2> QED BY <2>5, <2>7, <2>9
<1>2. TypeInv /\ PeersInv /\ [Next]_vars => [Others]_vars
  BY <1>1
<1> QED BY <1>2, Always, PTL DEF Spec, RemovesNoOther

\* ... every peer is asked for its database once, as soon as it is connected.
\* With connects that overlap, where it could fail, it does.
LEMMA AskedOnce ==
  ASSUME OneAtATime
  PROVE  Spec => []EveryPeerAsked
<1>1. ASSUME TypeInv, PeersInv PROVE EveryPeerAsked
  <2> SUFFICES ASSUME Settled, NEW s \in Sockets, socks[s].state = "open", s \in DOMAIN reverse
               PROVE  socks[s].asked + Unwritten(reverse[s]) = 1
    BY DEF EveryPeerAsked
  <2>1. ~crashed /\ io = "run"
    BY DEF Settled
  <2>2. reverse[s] = s
    BY <1>1, <2>1 DEF PeersInv, Same
  <2>3. ~Making(s)
    BY <2>1 DEF Making
  <2>4. socks[s].asked + Unwritten(s) = 1
    BY <1>1, <2>1, <2>3 DEF PeersInv, Asked
  <2> QED BY <2>2, <2>4
<1> QED BY <1>1, Always, PTL

\* ... and a song is only asked of peers that have it: no id among its owners
\* has become that of somebody else.
THEOREM IdsAreNotReused ==
  ASSUME OneAtATime
  PROVE  Spec => []OwnersOwn
<1>1. ASSUME TypeInv, PeersInv PROVE OwnersOwn
  <2> SUFFICES ASSUME ~crashed, NEW c \in DOMAIN tracks, NEW id \in ToSet(tracks[c]), id \in DOMAIN peers
               PROVE  c \in Owns[socks[peers[id]].host]
    BY DEF OwnersOwn
  <2>1. PICK i \in 1..Len(tracks[c]) : id = tracks[c][i]
    BY <1>1, LenProperties DEF ToSet, TypeInv, Shown
  <2>2. {c} \subseteq Owns[socks[id].host]
    BY <1>1, <2>1 DEF PeersInv, Owned, OwnSongs
  <2>3. peers[id] = id
    BY <1>1 DEF PeersInv, Same
  <2> QED BY <2>2, <2>3
<1> QED BY <1>1, Always, PTL

=============================================================================
