-------------------------------- MODULE Peers --------------------------------
(***************************************************************************)
(* The connections of a node and what it knows of its peers' songs: the    *)
(* maps peers, reverse and peer_ip_map of BaseClient (base-client.cpp) and *)
(* network_tracks of MyApplication (application.cpp).                      *)
(*                                                                         *)
(* The GTK thread connects and removes addresses while the io thread       *)
(* accepts, completes connects, removes broken sockets and handles         *)
(* databases.  Both use current_id, which a handler reads again when it    *)
(* runs: `current_id - 1' is meant to be the peer the handler is about.    *)
(* add_to_peers is two steps here, the entries and current_id++.           *)
(***************************************************************************)
EXTENDS Integers, Sequences, SequencesExt

CONSTANTS Hosts,      \* the other nodes
          Songs,      \* checksums
          Owns,       \* the songs in the database of each host
          Local,      \* the songs in the database of this node
          MaxSockets, \* bound: sockets in the life of the node
          OneAtATime  \* no connection is begun while another one is

ASSUME PeersAssumption ==
    /\ Owns \in [Hosts -> SUBSET Songs]
    /\ Local \subseteq Songs
    /\ MaxSockets \in Nat
    /\ OneAtATime \in BOOLEAN

VARIABLES
    socks,     \* every socket: host, dialled or accepted, state, databases asked and answered
    peers,     \* peer id -> socket
    reverse,   \* socket -> peer id
    ipMap,     \* peer id -> address
    currentId,
    gtk,       \* the GTK thread in connect_to_peer
    io,        \* the io thread in the handler of accept_socket
    listening, \* async_accept will be called again
    pending,   \* connects under way: the entry of peers, and its socket
    ips,       \* NetworkIps: an address added twice is there twice
    asks,      \* GET_DATABASE messages in out_msgs
    inbox,     \* RETURN_DATABASE messages in in_msgs
    tracks,    \* network_tracks: song -> the ids of its owners
    crashed    \* undefined behaviour: nothing is known from here on

vars == << socks, peers, reverse, ipMap, currentId, gtk, io, listening, pending,
           ips, asks, inbox, tracks, crashed >>

Sockets == 1..Len(socks)
Socket == [host : Hosts, dialled : BOOLEAN, state : {"new", "open", "closed"},
           asked : Nat, answered : Nat]
Address == [host : Hosts, dialled : BOOLEAN]
AddressOf(s) == [host |-> socks[s].host, dialled |-> socks[s].dialled]

NewSocket(h, dialled, state) ==
    [host |-> h, dialled |-> dialled, state |-> state, asked |-> 0, answered |-> 0]

Put(f, k, v) == [x \in DOMAIN f \cup {k} |-> IF x = k THEN v ELSE f[x]]
Erase(f, k)  == [x \in DOMAIN f \ {k} |-> f[x]]

Init ==
    /\ socks = << >> /\ peers = << >> /\ reverse = << >> /\ ipMap = << >>
    /\ currentId = 1
    /\ gtk = [pc |-> "rest", id |-> 0, host |-> "none"]
    /\ io = "run" /\ listening = TRUE
    /\ pending = {} /\ ips = << >>
    /\ asks = << >> /\ inbox = << >>
    /\ tracks = << >>
    /\ crashed = FALSE

\* Nothing else is being connected.
Quiet == OneAtATime => gtk.pc = "rest" /\ io = "run" /\ pending = {}

---------------------------------------------------------------------------
(* network_tracks. *)

\* Slip: no availability check.
AddAllTracks(id, songs) ==
    [c \in DOMAIN tracks \cup songs |->
       IF c \notin songs THEN tracks[c]
       ELSE IF c \in DOMAIN tracks THEN Append(tracks[c], id) ELSE << id >>]
\* handle_return_database: the songs that are not in the own database.
AddTracks(id, songs) ==
    [c \in DOMAIN tracks \cup (songs \ Local) |->
       IF c \notin songs \ Local THEN tracks[c]
       ELSE IF c \in DOMAIN tracks THEN Append(tracks[c], id) ELSE << id >>]

\* erase(remove(ids, id)): std::remove moves the others forward and leaves
\* what is behind them; the one element behind them is erased.  When the id is
\* not there, that is the end, and the build takes the last element or worse.
RemoveId(ids, id) ==
    LET others(i) == Cardinality({j \in 1..i : ids[j] # id})
        source(k) == IF k <= others(Len(ids)) THEN Min({i \in DOMAIN ids : others(i) >= k})
                     ELSE k + 1
    IN  [k \in 1..Len(ids) - 1 |-> ids[source(k)]]

RemoveNetworkTracks(id) ==
    LET after == [c \in DOMAIN tracks |-> RemoveId(tracks[c], id)]
    IN  tracks' = [c \in {x \in DOMAIN tracks : after[x] # << >>} |-> after[c]]

Close(s) == [socks EXCEPT ![s].state = "closed"]

\* Slip: the socket is not closed.
RemovedOnly(id, s) ==
    /\ reverse' = Erase(reverse, s)
    /\ peers' = Erase(peers, id)
    /\ RemoveNetworkTracks(id)
    /\ crashed' \in BOOLEAN
    /\ UNCHANGED socks
\* remove_socket, for an id or for a socket: the entries are erased, the
\* socket is closed through the iterator that was erased (the build goes on
\* with what is still there, or not), and on_disconnect.
Removed(id, s) ==
    /\ socks' = Close(s)
    /\ reverse' = Erase(reverse, s)
    /\ peers' = Erase(peers, id)
    /\ RemoveNetworkTracks(id)
    /\ crashed' \in BOOLEAN
RemoveSocketOfId(id) ==
    IF id \notin DOMAIN peers
    THEN UNCHANGED << socks, peers, reverse, tracks, crashed >>
    ELSE Removed(id, peers[id])

---------------------------------------------------------------------------
(* The GTK thread. *)

Crash == /\ crashed' = TRUE
         /\ UNCHANGED << socks, peers, reverse, ipMap, currentId, pending, ips,
                         asks, inbox, tracks >>

\* connect_to_peer, add_to_peers: the socket is not open yet.
ConnectToPeer(h) ==
    /\ ~crashed /\ gtk.pc = "rest" /\ Quiet /\ Len(socks) < MaxSockets
    /\ socks' = Append(socks, NewSocket(h, TRUE, "new"))
    /\ peers' = Put(peers, currentId, Len(socks) + 1)
    /\ reverse' = Put(reverse, Len(socks) + 1, currentId)
    /\ gtk' = [gtk EXCEPT !.pc = "adding", !.host = h]
    /\ UNCHANGED << ipMap, currentId, io, listening, pending, ips, asks, inbox, tracks, crashed >>

\* current_id++, and the reference to peers[current_id - 1].
CountDialled ==
    /\ ~crashed /\ gtk.pc = "adding"
    /\ currentId' = currentId + 1
    /\ gtk' = [gtk EXCEPT !.pc = "resolving", !.id = currentId]
    /\ UNCHANGED << socks, peers, reverse, ipMap, io, listening, pending, ips, asks, inbox, tracks, crashed >>

\* The name cannot be resolved: the entry stays.
ResolveFails ==
    /\ ~crashed /\ gtk.pc = "resolving"
    /\ gtk' = [gtk EXCEPT !.pc = "rest"]
    /\ UNCHANGED << socks, peers, reverse, ipMap, currentId, io, listening, pending, ips,
                    asks, inbox, tracks, crashed >>

\* async_connect of the socket the reference is to.
StartConnect ==
    /\ ~crashed /\ gtk.pc = "resolving"
    /\ IF gtk.id \notin DOMAIN peers THEN Crash
       ELSE /\ pending' = pending \cup {[id |-> gtk.id, sock |-> peers[gtk.id]]}
            /\ ips' = Append(ips, gtk.host)
            /\ UNCHANGED << socks, peers, reverse, ipMap, currentId, asks, inbox, tracks, crashed >>
    /\ gtk' = [gtk EXCEPT !.pc = "rest"]
    /\ UNCHANGED << io, listening >>

\* on_ButtonRemoveIp1_clicked, row k: the first entry with its address.
RemoveIp(k) ==
    /\ ~crashed /\ gtk.pc = "rest" /\ k \in DOMAIN ips
    /\ ips' = RemoveAt(ips, k)
    /\ LET found == {id \in DOMAIN ipMap : ipMap[id] = [host |-> ips[k], dialled |-> TRUE]}
       IN  IF found = {}
           THEN UNCHANGED << socks, peers, reverse, ipMap, tracks, crashed >>
           ELSE /\ RemoveSocketOfId(Min(found))
                /\ ipMap' = Erase(ipMap, Min(found))
    /\ UNCHANGED << currentId, gtk, io, listening, pending, asks, inbox >>

---------------------------------------------------------------------------
(* The io thread. *)

\* The handler of accept_socket: add_to_peers ...
AcceptSocket(h) ==
    /\ ~crashed /\ io = "run" /\ listening /\ Quiet /\ Len(socks) < MaxSockets
    /\ socks' = Append(socks, NewSocket(h, FALSE, "open"))
    /\ peers' = Put(peers, currentId, Len(socks) + 1)
    /\ reverse' = Put(reverse, Len(socks) + 1, currentId)
    /\ ipMap' = Put(ipMap, currentId, [host |-> h, dialled |-> FALSE])
    /\ io' = "counting" /\ listening' = FALSE
    /\ UNCHANGED << currentId, gtk, pending, ips, asks, inbox, tracks, crashed >>

\* ... which has no endpoint any more, or could not be accepted: the
\* handler returns without a further accept_socket.
AcceptFails ==
    /\ ~crashed /\ io = "run" /\ listening
    /\ listening' = FALSE
    /\ UNCHANGED << socks, peers, reverse, ipMap, currentId, gtk, io, pending,
                    ips, asks, inbox, tracks, crashed >>

\* Slip: no current_id++.
CountAcceptedNot ==
    /\ ~crashed /\ io = "counting"
    /\ io' = "accepted"
    /\ UNCHANGED << socks, peers, reverse, ipMap, currentId, gtk, listening, pending,
                    ips, asks, inbox, tracks, crashed >>
CountAccepted ==
    /\ ~crashed /\ io = "counting"
    /\ currentId' = currentId + 1
    /\ io' = "accepted"
    /\ UNCHANGED << socks, peers, reverse, ipMap, gtk, listening, pending, ips, asks, inbox, tracks, crashed >>

\* Slip: current_id has been counted up already.
OnAcceptedNext ==
    /\ ~crashed /\ io = "accepted"
    /\ asks' = Append(asks, currentId)
    /\ io' = "run" /\ listening' = TRUE
    /\ UNCHANGED << socks, peers, reverse, ipMap, currentId, gtk, pending, ips, inbox, tracks, crashed >>
\* ... and on_connect, which asks for the database; accept_socket again.
OnAccepted ==
    /\ ~crashed /\ io = "accepted"
    /\ asks' = Append(asks, currentId - 1)
    /\ io' = "run" /\ listening' = TRUE
    /\ UNCHANGED << socks, peers, reverse, ipMap, currentId, gtk, pending, ips, inbox, tracks, crashed >>

\* Slip: current_id has been counted up already.
ConnectedNext(p) ==
    /\ ~crashed /\ io = "run" /\ p \in pending /\ socks[p.sock].state = "new"
    /\ pending' = pending \ {p}
    /\ socks' = [socks EXCEPT ![p.sock].state = "open"]
    /\ ipMap' = Put(ipMap, currentId, AddressOf(p.sock))
    /\ asks' = Append(asks, currentId)
    /\ UNCHANGED << peers, reverse, currentId, gtk, io, listening, ips, inbox, tracks, crashed >>
\* The handler of connect_to_peer: the address and the question are for
\* current_id - 1, the socket is that of the entry referred to.
Connected(p) ==
    /\ ~crashed /\ io = "run" /\ p \in pending /\ socks[p.sock].state = "new"
    /\ IF p.id \notin DOMAIN peers
       THEN Crash /\ UNCHANGED << gtk, io, listening >>
       ELSE /\ pending' = pending \ {p}
            /\ socks' = [socks EXCEPT ![p.sock].state = "open"]
            /\ ipMap' = Put(ipMap, currentId - 1, AddressOf(p.sock))
            /\ asks' = Append(asks, currentId - 1)
            /\ UNCHANGED << peers, reverse, currentId, gtk, io, listening, ips, inbox, tracks, crashed >>

\* A connect fails, or its socket was closed: only the entry of peers goes.
ConnectFailed(p) ==
    /\ ~crashed /\ io = "run" /\ p \in pending
    /\ IF currentId - 1 \notin DOMAIN peers
       THEN Crash /\ UNCHANGED << gtk, io, listening >>
       ELSE /\ pending' = pending \ {p}
            /\ socks' = Close(p.sock)
            /\ peers' = Erase(peers, currentId - 1)
            /\ UNCHANGED << reverse, ipMap, currentId, gtk, io, listening, ips, asks, inbox, tracks, crashed >>

\* start_writing of a GET_DATABASE: unknown peers are skipped, and those
\* that are not connected removed.
WriteAsk ==
    /\ ~crashed /\ io = "run" /\ asks # << >>
    /\ asks' = Tail(asks)
    /\ LET id == Head(asks)
       IN  IF id \in DOMAIN peers /\ socks[peers[id]].state = "open"
           THEN /\ socks' = [socks EXCEPT ![peers[id]].asked = @ + 1]
                /\ UNCHANGED << peers, reverse, tracks, crashed >>
           ELSE RemoveSocketOfId(id)
    /\ UNCHANGED << ipMap, currentId, gtk, io, listening, pending, ips, inbox >>

\* add_to_incoming of a RETURN_DATABASE.
ReadDatabase(s) ==
    /\ ~crashed /\ io = "run" /\ s \in DOMAIN reverse
    /\ socks[s].state = "open" /\ socks[s].answered < socks[s].asked
    /\ socks' = [socks EXCEPT ![s].answered = @ + 1]
    /\ inbox' = Append(inbox, [id |-> reverse[s], songs |-> Owns[socks[s].host]])
    /\ UNCHANGED << peers, reverse, ipMap, currentId, gtk, io, listening, pending, ips, asks, tracks, crashed >>

\* Slip: every message is taken for one of the peer that came last.
HandleDatabaseOfLast ==
    /\ ~crashed /\ io = "run" /\ inbox # << >>
    /\ tracks' = AddTracks(currentId - 1, Head(inbox).songs)
    /\ inbox' = Tail(inbox)
    /\ UNCHANGED << socks, peers, reverse, ipMap, currentId, gtk, io, listening, pending, ips, asks, crashed >>
HandleReturnDatabase ==
    /\ ~crashed /\ io = "run" /\ inbox # << >>
    /\ tracks' = AddTracks(Head(inbox).id, Head(inbox).songs)
    /\ inbox' = Tail(inbox)
    /\ UNCHANGED << socks, peers, reverse, ipMap, currentId, gtk, io, listening, pending, ips, asks, crashed >>

\* A peer closes its end: the read fails, and remove_socket looks the
\* socket up in reverse.
Disconnected(s) ==
    /\ ~crashed /\ io = "run" /\ s \in Sockets /\ socks[s].state = "open"
    /\ IF s \notin DOMAIN reverse
       THEN /\ socks' = Close(s)
            /\ UNCHANGED << peers, reverse, ipMap, currentId, pending, ips, asks, inbox, tracks, crashed >>
       ELSE IF reverse[s] \notin DOMAIN peers THEN Crash
       ELSE Removed(reverse[s], s) /\ UNCHANGED << ipMap, currentId, pending, ips, asks, inbox >>
    /\ UNCHANGED << gtk, io, listening >>

---------------------------------------------------------------------------
GtkStep == CountDialled \/ StartConnect
UserStep == \/ \E h \in Hosts : ConnectToPeer(h)
            \/ \E k \in DOMAIN ips : RemoveIp(k)
            \/ ResolveFails
IoStep == \/ CountAccepted \/ OnAccepted \/ WriteAsk \/ HandleReturnDatabase
          \/ \E s \in Sockets : ReadDatabase(s)
          \/ \E p \in pending : Connected(p) \/ ConnectFailed(p)
HostStep == \/ AcceptFails
            \/ \E h \in Hosts : AcceptSocket(h)
            \/ \E s \in Sockets : Disconnected(s)

Next == GtkStep \/ UserStep \/ IoStep \/ HostStep

Spec == Init /\ [][Next]_vars

---------------------------------------------------------------------------
\* Type invariant: ids have been given out, and network_tracks holds no song of
\* the own database and none without an owner.
TypeOK ==
    /\ socks \in Seq(Socket)
    /\ peers \in [DOMAIN peers -> Sockets] /\ DOMAIN peers \subseteq 1..currentId
    /\ reverse \in [DOMAIN reverse -> 1..currentId] /\ DOMAIN reverse \subseteq Sockets
    /\ ipMap \in [DOMAIN ipMap -> Address] /\ DOMAIN ipMap \subseteq 1..currentId
    /\ currentId \in 1..MaxSockets + 1
    /\ gtk.pc \in {"rest", "adding", "resolving"}
    /\ io \in {"run", "counting", "accepted"} /\ listening \in BOOLEAN
    /\ \A p \in pending : p.sock \in Sockets
    /\ ips \in Seq(Hosts)
    /\ asks \in Seq(1..currentId)
    /\ \A c \in DOMAIN tracks : c \in Songs \ Local /\ tracks[c] # << >>
    /\ crashed \in BOOLEAN

\* Handlers of accept_socket run to their end before others see the tables.
Settled == ~crashed /\ io = "run" /\ gtk.pc # "adding"

\* peers and reverse are inverse for every connection that is open: what
\* comes in from it is attributed to the peer that answers go to, and
\* remove_socket finds both entries.
TablesAgree ==
    ~crashed => \A s \in Sockets : socks[s].state = "open" =>
        /\ s \in DOMAIN reverse
        /\ reverse[s] \in DOMAIN peers
        /\ peers[reverse[s]] = s

\* remove_socket_by_ip goes from an address to an id and from the id to a
\* socket: the user who removes an address disconnects no peer at another.
RemovesNoOther ==
    [][\A k \in DOMAIN ips : RemoveIp(k) =>
         \A s \in Sockets : socks'[s].state # socks[s].state =>
             AddressOf(s) = [host |-> ips[k], dialled |-> TRUE]]_vars

\* The questions for a peer that have not been written yet.
Unwritten(id) == Cardinality({i \in DOMAIN asks : asks[i] = id})

\* Every peer is asked for its database as soon as it is connected, once.
EveryPeerAsked ==
    Settled => \A s \in Sockets : socks[s].state = "open" /\ s \in DOMAIN reverse =>
        socks[s].asked + Unwritten(reverse[s]) = 1

\* A song is only asked of peers that have it: no id of its owners belongs to
\* a connection with somebody else.
OwnersOwn ==
    ~crashed => \A c \in DOMAIN tracks : \A id \in ToSet(tracks[c]) :
        id \in DOMAIN peers => c \in Owns[socks[peers[id]].host]

\* application.h, network_tracks: whenever a client disconnects, it is removed
\* from every id array.
OwnersConnected ==
    Settled => \A c \in DOMAIN tracks : ToSet(tracks[c]) \subseteq DOMAIN peers

\* A user who removes an address is no longer connected to it.
RemovesThePeer ==
    [][\A k \in DOMAIN ips : RemoveIp(k) =>
         \A s \in Sockets :
             AddressOf(s) = [host |-> ips[k], dialled |-> TRUE] => socks'[s].state # "open"]_vars
=============================================================================
