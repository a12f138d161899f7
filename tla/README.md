# p2p-music-player: verification project

This directory holds TLA+ models of p2p-music-player: its peer-to-peer part, its
store of songs, its play list and its playing; TLC configurations that check
them on small instances, and TLAPS proofs of what holds on instances of any size. Paths below
are relative to the repository's root; the code is in `src/`, and `NETWORK.md` is its own
account of the network.

    tlc -config one_owner.cfg MCFileTransfer     check one run
    tlapm FileTransfer_proofs.tla                check one module's proofs (some minutes)

## 1. The system

A node is a GTK player with a SQLite store of its own songs, a TCP server, and
connections to other nodes. It asks every peer for its list of songs, shows them
beside its own, and streams a song it does not have from all peers that have it.

Two threads matter. The **GTK thread** runs the signal handlers of the widgets.
The **io thread** runs the asio handlers of `BaseClient`, and once a second the
cycle of `ApplicationClient`: the hook (`additional_cycle_hook`), then a handler
for every message in `in_msgs`, then `start_writing`. Only the two queues have a
lock; everything else is shared without one. `FileSharing` starts a third thread
for its timers, which ends at once, because there is no work when it calls
`ctx.run()`.

| component | state | operations | talks to |
|---|---|---|---|
| `FileSharing` (`file-sharing.*`) | a queue of received segments, a status byte, a timer and a peer id per *assigned id*; `current_segment_id` (asked), `current_writing_id` (written), `total_segment_count`, byte counts, `pause`, `hard_pause` | `reset_sharing_file`, `new_peer`, `push_segment`, `get_next_segment_id`, `try_writing_segment`, `if_idle`, `should_pause`, `pause_writing`, `must_pause`, timers | called by `MyApplication` from both threads |
| `ChunkedFile` (`chunked-file.*`) | the open file, its size, segment size and number of segments | `open_file`, `open_file_with_segment_count`, `get` | one object per node, for every node it serves |
| streaming handlers (`application.cpp` 986-1175, 2082-2230) | the song selected, `playing`, `bfa` | `LoadMusic`, `PauseMusic`, `PlayMusic`, `start_file_sharing`, `handle_*`, `segment_has_arrived` | `FileSharing`, `ChunkedFile`, `BaseClient`, `BufferedAudio` |
| `BaseClient` (`base-client.*`, `tsqueue.h`) | `in_msgs`, `out_msgs`, `temp_msg`; `peers`, `reverse`, `peer_ip_map`, `current_id` | `accept_socket`, `connect_to_peer`, `start_reading`, `start_writing`, `remove_socket`, `remove_socket_by_ip`, `cycle` | sockets; callbacks `handle_message`, `on_connect`, `on_disconnect` |
| network tracks (`application.cpp` 1924-2000) | `network_tracks`: checksum -> song and the ids of its owners | `on_connect`, `on_disconnect`, `handle_return_database`, `remove_network_tracks` | `BaseClient`, `Store` |
| `BufferedAudio` | a GStreamer pipeline fed by an `appsrc` | `pushBuffer`, `pushEOS`, `push_data`, `pause_pipeline`; need-data and underrun | called by `segment_has_arrived`; GStreamer's threads |
| `Store` (`store.*`) | the table `tracks` | `create`, `update`, `upsert`, `upsert_many`, `read_all`, searches | SQLite, the file system |
| song list (`application.cpp` 498-605, 814-933, 1505-1551, `listfiles.*`) | `AllMusic`, the folder, a thread per reload | `MusicListChanged`, `set_music_list`, `taglib_get_data`, `taglib_set_data` | `Store` (from the thread), `network_tracks` |
| play list (`application.cpp` 628-768, 832-984, 1177-1320) | an index per column, the rows, `CurrentMusic`, `SelectedMusic`, the shuffled order with its position and size | next, previous, shuffle, column and row clicks, search | the pipeline |
| pipeline and its time (`application.cpp` 690-716, 881-902, 986-1175, 1324-1600) | `pipeline`, `bfa`, `wav`, `IsPlaying`, `CurrentPosInMilliseconds`, `PlayedInMilliseconds`, `GstNeedSeek`, the scale, `LyricIndex` | `LoadMusic`, `ChangeMusic`, `PlayMusic`, `PauseMusic`, seeking, the timers | GStreamer, `Wav`, `Lrc`, `BufferedAudio` |
| `Lrc` (`lrc.*`) | the lines of a lyric file with their times | reading, `GetLyricIndex` | pipeline and its time, `GET_LYRICS` |
| `Wav` (`wav.*`) | the data of one wav file | `openWavFile` | pipeline and its time |
| `Message` (`message.*`) | a type, a size and a body that is a stack of fields | `<<`, `>>` per type | all handlers |
| picture example (`client.*`, `network-example.cpp`) | a second client on `BaseClient`, `FileSharing`, `ChunkedFile` | the same protocol, with a segment count chosen by the receiver | |
| widgets, `main`, `md5`, `BufferedAudioTest` | | input, output and computations on bytes | |

**What is hard.** (a) The GTK thread resets and grows the `FileSharing` vectors
while the io thread walks through them. (b) Segments of one song come from
several peers and are merged by looking at the fronts of their queues only;
what is dropped is never asked for again. (c) Answers to a previous song arrive
after the next one was selected. (d) Pausing has two flags, set by two threads in
several steps. (e) Every pending read or write keeps a pointer to something that
is looked up again when its handler runs: `temp_msg`, `out_msgs.front()`,
`peers[current_id - 1]`. (f) Connections break at any moment, with messages queued on
both sides. (g) Databases are handled a cycle after they were read. (h) A reload reads a
folder, its tags and its digests in three passes, while other programs change it, and
peers are told of rows made from older contents. (i) `BufferedAudio` is used by four
threads without a lock. (j) On the GTK thread nothing is concurrent, but one fact is kept
in several variables (is there music, where in the song, which row) which long sequences of
handlers must keep together. The list with lines, and the properties that answer each, is `hazards` in `PROJECT.json`.

**What makes each part correct.** The receiver: the player is given the song in
order, once, and its end with the last segment; nothing needed is lost; a
transfer from a peer that stays ends. The message layer: what is pushed for a
peer arrives whole, once, in order, whatever happens on other connections. The
connection tables: they are inverse to each other, every peer is asked once, and
a song is attributed to peers that have it and are still there. The store: one row per
song, made of what was in its file, found again by whoever was told of it. The play list:
next and previous follow the rows, and shuffling is fair and remembers its past. The
pipeline: the one the application has plays the current song when it should, from all of its
data, and no line of the lyrics is shown before its time. `BufferedAudio`: a queue, whatever calls overlap.

## 2. Modules

| module | stands for | uses |
|---|---|---|
| `FileSharing` | the object, as a record; each method an operator from the object before to the object after | |
| `ChunkedFile` | the object, in the same way | |
| `FileTransfer` | one receiving node (both threads) and its senders: the composition of the handlers, the cycle, `FileSharing` and `ChunkedFile` | `FileSharing`, `ChunkedFile`, `StreamDelivery` |
| `StreamDelivery` | abstract specification: what a transfer promises the player | |
| `FileTransferInv` | the inductive invariants of the proofs, and the conditions they need | `FileTransfer` |
| `*_proofs` | inductive invariants, lemmas and theorems about the module of that name | it |
| `CommunityFacts` | lemmas on sequences, functions and minima that several proofs need | |
| `MessagePump` | reading and writing of messages on the connections of several nodes | `Channels` |
| `Channels` | abstract specification: what the message layer promises | |
| `Peers` | connections, ids, addresses and `network_tracks` of one node | |
| `AudioQueue` | abstract specification: what a `BufferedAudio` promises | |
| `BufferedAudio` | the object, its pipeline and the four threads that use them | `AudioQueue` |
| `Store` | the table: each method an operator from the table before to the table after | |
| `Library` | the song list, the folder behind it, the thread that stores it, and other programs | `Store` |
| `Player` | the play list | |
| `Lyrics` | reading a lyric file, and looking a time up in it | |
| `Playback` | the pipeline, the position, the scale and the lyrics | `Lyrics` |
| `MC*` | values of the constants for TLC | |

### FileTransfer

State: `fs` is the `FileSharing` object, `cf[p]` the `ChunkedFile` of peer `p`,
`stream` what `BufferedAudio` was given, `io` and `gtk` the program counters of the
two threads, `outbox` is `out_msgs`, `inbox` is `in_msgs`, `req` and `resp` are the
bytes under way on a connection, `gone` the peers that left.

A segment is its id, its slot (assigned id + 1) and the file its bytes are from,
which is all the properties tell apart. Of a peer's song three things may be wrong: its store
finds no row (`Holds`), the row's file is gone (`Missing`, whose size is -1), or it is there and cannot be
opened (`Unreadable`). In the last two cases `open_file` fails, and `PREPARED_FILE_SHARING` goes out all the same, with
the number of segments the object was left with: that of another song, one never set (`Garbage`), or, when
only the stream failed, the right one. A message is a record with the fields
the handlers read.

`Tick`, `ShouldPause`, `BeginWriting`, `WriteSegment`, `DropSegment`, `SkipQueue`,
`EndPass`, `BeginAsking`, `AskIdlePeer`, `EndAsking` are `additional_cycle_hook`: one
call or one iteration of its loops each, since the GTK thread can run between any
two. `Handle*` and `IgnoreNoSuchFile` are one iteration of the loop over `in_msgs`, and
`StartWriting` ends the cycle. `ChangeMusic`, `PauseMusic`, `FinishPause`,
`PlayMusic`, `StartFileSharing`, `AddOwner` and `NewBufferedAudio` are the GTK thread.
A step that clears or grows the vectors while the io thread holds a reference into
them (`RaceOnVectors`), or a segment written before there is a `BufferedAudio`, is
undefined behaviour: the state is `crashed` from then on, and no property is claimed of
it. Outside of these races the run goes on with every interleaving.

### MessagePump

A message is a header and `Size` pieces of body. `out[n]` is `out_msgs` of node `n`,
`writes[n]` the `async_write`s it has started, `wire` the bytes under way, `temp[n]` its
`temp_msg`, `reads` the `async_read` pending on each socket, `in[<<n, m>>]` everything ever put
in `in_msgs` of `n` that came from `m` (what came from different peers is not ordered by any property,
and so is kept apart). Handlers read `out[n]`'s head and `temp[n]` when they run, as the code does.
Bytes read into a buffer that has been resized or reset, bytes written from a
message that is no longer in `out_msgs`, and the map iterator used after `erase` may
end in `crashed` or go on.

### Peers

One node, the GTK thread in `connect_to_peer` and `on_ButtonRemoveIp1_clicked`
(`gtk`), and the io thread with the handlers of accept, connect, write, read and
disconnect. `add_to_peers` is two steps, because the entries are made before
`current_id++` and the other thread reads `current_id`. `peers`, `reverse`, `ipMap` are the
maps of `BaseClient`, `ips` is `NetworkIps`, which may have an address twice, `tracks` is `network_tracks`, `asks` and `inbox` the messages
about databases. A peer answers a `GET_DATABASE` with the songs it has. `RemoveId`
is `ids.erase(std::remove(...))` with its missing second argument: one element is
erased, whether or not the id was there.

### BufferedAudio

`data`, `paused`, `eos` are the fields, `gst` the state of the pipeline, `src` and `queue` what
its two elements hold, `pc` where each thread is: the GTK thread in the constructor or the
destructor, the io thread in `pushBuffer`, the source's thread in `cb_need_data`, the queue's in
`on_queue_underrun`. Nothing is locked, so every call is split wherever another thread can come
between: `push_data` is `Look`, then `Push` or `PushEnd`; `pushBuffer` is `PushBuffer`,
`PushBufferAppend`, `PushBufferCheck`, `PushBufferResume` and `push_data`; `pause_pipeline` is `PausePipeline`,
`UnderrunPause` and `UnderrunFlag`, or `push_data`. `pushEOS` is a call of its own after that of the
last buffer. `pushBuffer` asks nobody whether the user has paused: `segment_has_arrived` does not.
Two threads that change the deque at once, an `eos` that is found true before it was ever set, and a call on
an object that is being deleted have no defined outcome: `undefined` is set, and nothing follows.
GStreamer is external: `appsrc` asks once when it has nothing and again
after it has passed data on, the queue signals once each time it runs dry, and a paused
pipeline plays nothing. `given`, `heard` and `over` are history, and the state of
`AudioQueue`; its `closed` is `eos`, once the constructor has set that flag.

### Store and Library

A table is a function from ids to rows. `Upsert` is what the code does: look the row
up by path, then update *the row of the caller's id*. A track of `set_music_list` has the
id -1, so nothing is updated. `Library` puts other programs around it: they
change, replace and delete songs and lyric files between any two steps of a reload, the
user edits tags (which renames the file), and the io thread sends the table to peers. `scan` is
the program counter of `set_music_list`: listing, one step per file for its tags, then one
step per track of the background thread, then `join`. `versions` and `touched` are history: what
was ever at a path, and what has been changed since the scan began.

### Player

A `MusicInfo` is named by its song. `order[c]` is the order of column `c`: the `Sort...Index`
fields in one function. The rows are `allMusic`; a click on a column turns it. `Sorted` is
`std::sort`: any order that agrees with the comparator, and any order at all when the
comparator is not a strict weak order. A reload makes all of it anew and leaves `selected`
`Deleted`. `Orders` is the shuffle: any order. Each handler is one action, with `ChangeMusic`,
`PauseMusic` and `PlayMusic` inlined as far as the play list is concerned.

### Playback

The same handlers from the other side: which song, row or button was chosen is left
open, and what happens to the pipeline, to time and to the lyrics is kept. `pipe` is
`pipeline` with the song it was made for, `at` its position, `queue` the buffers of a wav that
were pushed, `pos`, `played`, `scale`, `needSeek` the variables of the same purpose. A song is of
one of three kinds, "bin" (a `playbin`), "wav" or "stream" (a `BufferedAudio`, which its constructor sets
playing). `Choose` is every handler that chooses a song while the new one is already current; `DoubleClick`
pauses while the old one still is. `PlayOn` is the pipeline, which plays a `Step` between two ticks or none, and
`StreamTurns` a `BufferedAudio` that pauses its pipeline for want of data or starts it, whatever `IsPlaying`
says. `bfa` is "stray" when its pipeline plays and `pipeline` has been pointed elsewhere. `Tick` is `timeout1`: position to
scale, scale to `CurrentPosInMilliseconds` if it moved, and one line of the lyrics at most. Double
deletions, rows that are not there, a wav played from behind its end (`RunsOff`), and the like end
in `crashed`. `Lyrics` reads a file as `Lrc` does, in unsigned arithmetic modulo `Word`.

### What is abstracted

Names, tags, file contents, ports and logging are left out. A checksum is a model
value. The body of a message is its fields; that `<<` and `>>` are inverse is not
checked yet. In `FileTransfer` connections are FIFO and whole messages are moved:
this is what `Channels` promises, and what `MessagePump` shows under the conditions
stated there. `FileTransfer` takes `network_tracks` as a constant (`Owners`), its changes are
the subject of `Peers`.

## 3. Runs

| run | question | result |
|---|---|---|
| `one_owner` | is nothing lost that was asked for, is a song from one peer played to its end, and does `queue_current_bytes`, which `should_pause` decides from, count what is queued? | yes |
| `two_owners` | with two peers, one of which gets far ahead, is anything lost but what is beyond the look-ahead? is the refinement's invariant true? | no; yes |
| `paused_pair` | the user pauses twice, at any step of the io thread: is a segment asked twice, are pipelines still mergeable? | no; yes |
| `bad_owner` | the file of one owner is gone, and it may leave; another finds nothing in its store; and others ask the peers for the song or for one they cannot open: is what is delivered the song? | yes |
| `pump` | one node writes to two others, one connection may break: does every message arrive whole, once and in order, and is the other peer served? | yes |
| `peers` | three connections, begun one at a time, that fail, break or are removed: do the maps agree, does removing an address leave the others connected, is every peer asked once, do songs belong to their owners? | yes |
| `audio` | a streamed song comes at any pace, the user plays, pauses and chooses another song, and the calls of four threads overlap: is a `BufferedAudio` a queue? when no calls overlap, is everything heard, and the end if it is announced in time? | yes; yes |
| `library` | folders are read again while files change: has a song one row, made of what was its file; can every listed song be served, and everything a peer was told of be found; does a reload end? | yes |
| `player` | any sequence of list handlers: do next and previous follow the rows, is shuffling fair, is its past kept, does the button tell, does music go on? | yes |
| `playback` | any sequence of playing, pausing, seeking and choosing: does `pipeline` play the current song when the program says so, and nothing but a stream when it does not; is a wav pushed whole, has a line of the lyrics that is shown begun? | yes |
| `two_live` | is every segment requested in the end? | no |
| `upsert` | does reading a folder again bring its rows up to date? | no |

The last two contradict a sentence of the repository; `findings` in `PROJECT.json`
quotes it:

* `two_live`: with more than half of the file queued, `should_pause` pauses. If the
  segment whose turn it is has not been asked for, nobody asks while paused.
* `upsert`: the row that is updated is that of the caller's id, which `set_music_list` does
  not set. After an edit the row keeps the old tags and the old digest, and peers are told them.

### What does not hold beyond the passing runs

Each of these is a counterexample TLC finds in a few seconds or minutes. Five have
a configuration of their own in this directory; the others are a configuration
named here that checks the property as well, or has one constant changed. `hazards` has the lines.

| property | with | because |
|---|---|---|
| `EndMeansWholeFile` | `stale_segment.cfg`: two songs selected | `total_segment_count` is 0 until `PREPARED_FILE_SHARING`: a late segment 0 of the previous song is in order and the last |
| `OnlyBytesOfTheSong` | `shared_sender.cfg`: a peer serves two nodes | one `ChunkedFile` per node, opened anew for every request |
| `DeliversInOrder` | `pump_two_senders.cfg`; or `pump` with `Prompt = FALSE`, `MaxWrites = 2` | one `temp_msg` for all sockets; a write is started while one is under way |
| `ReadsOwnBuffer` | `pump_two_senders.cfg` | a body is read through a pointer into the `temp_msg` that another socket's header has resized or a message has cleared |
| `OwnersConnected` | `peers_gone.cfg` | a database waits in `in_msgs` for the next cycle, which may be after `on_disconnect` |
| `EveryPeerAsked` | `peers_crossed.cfg`: connections begun at the same time | `current_id - 1` is not the peer the handler is about |
| `RemovesThePeer` | `peers` | an address that was connected twice has two entries, and one of a peer that has gone stays: the first is taken, which leads to another socket or none, and the peer stays connected while its row disappears |
| `DeliversTheSong` | `bad_owner` with `MaxPauses = 1` | the count of an owner that cannot open its file comes last; a pause between `should_pause` and `try_writing_segment` lets a segment be written as the last |
| `NothingThrownAway` | `two_owners` | the look-ahead is the number of peers: one peer answers four times while the other is slow, its backlog is played two segments a tick, the next answer of the slow peer lies beyond it and is dropped, and never asked for again |
| `QueueBytesExact` | `two_owners` | a drop does not lower `queue_current_bytes` |
| `EventuallyEnds` | `one_owner` with `NumSegments` 1 or 2 | the first segment alone is more than half of the file, so that `should_pause` stops the writing of it |
| `OneRowPerPath` | `library` with `Real` mapping a link to another song | the path is looked up as listed and stored canonically |
| `LyricNotAhead` | `playback` with `Patient = FALSE` | a wav that is paused before a tick moved the scale has lost its position |
| `LyricNotAhead` | `playback` with `Scrolls = TRUE` | the line is only looked up while the scale is held |
| `LyricNotAhead` | `playback` with a negative offset beyond a time | unsigned times wrap |
| `TypeOK` | `playback` with a malformed time | it is read as -1, and a double click seeks there |
| `SilentWhenPaused` | `playback` | the constructor of `BufferedAudio` sets the pipeline playing: Next while paused, on to a song of a peer, is heard |
| `HeardAlone` | `playback` | such a stream is not paused when `pipeline` is pointed at another song's |
| `NeverUndefined` | `audio` | a callback runs before `eos` is set; two threads change the deque; `delete bfa` under `pushBuffer` |
| `PauseHolds` | `audio` | `pushBuffer` starts a pipeline that was paused for want of data, whatever the user has paused since |
| `OverlapHeard` | `audio` | a buffer that arrives between the look at the deque and `pipeline_paused = true` starts nothing |
| `EveryEndHeard` | `audio` | `pushEOS` only notes the end: when the last buffer was taken before, and the queue runs dry after, nobody looks at it again |
| `EverythingHeard`, `EndHeard` | `audio` with `Prompt = FALSE` | nothing starts a pipeline that was paused with its last buffer under way |

`ToldIsFound` holds for a doubtful reason: since `upsert` updates no row, no checksum a
peer was told of is ever replaced. Its mutant is the obvious repair of `upsert`.

### Bounds, and why they are enough

* Songs of 4 to 12 segments: `should_pause` compares with half of the file and
  `try_writing_segment` looks ahead by the number of peers. `two_owners` reaches both tests
  on both sides: with 8 segments the backlog that a drop needs is more than half of the file, and
  pauses the transfer; with 12 it is not. One owner is
  asked for one segment after the other, and reaches neither from 3 segments on. The last segment is shorter.
  `paused_pair` uses 4, which keeps two pauses within a million states, and still
  lets both peers be paused before, in the middle of and after their last segment.
* `MaxSessions` songs selected: 1, or 2 where the previous song matters.
  `MaxPauses` 2: a pause during a pause's aftermath. `MaxOthers` 1: one foreign
  transfer is enough to replace a sender's file. `bad_owner` has two songs: other nodes may ask for either, from
  any peer; the one that is not selected can be opened by nobody.
* `MessagePump`: two messages per link, one with a body of two pieces and one without,
  `Window` 2: a header and part of its body, or two messages, can be under way, and
  every handler of the pump runs with something behind it in the queue.
* `Peers`: 3 sockets to 2 hosts: one host twice, after its first connection went.
  Three songs: owned by one, owned by both, and present in the own store.

* `Library`: three paths in two folders, one of them free at the start so that a song can be
  renamed to it, two contents, and two changes: one during a reload and one between two.
* `Player`: three songs, two of which tie in their length and two in the album's lower case, and the
  empty list. `MaxRounds` 2: the shuffled order is made longer once.
* `Playback`: one song of each kind and a wav that cannot be read. Times are multiples
  of half a second, so that a position can lie between two whole seconds, which the offset of
  a wav is cut to; 2.5 seconds reach two lines of lyrics, a line that begins late, and
  both ends of seeking by `Back` and `Ahead` (10 and 30 seconds in the code). `MaxBufSize` 3
  of at most 10 bytes: full buffers, a short last one, and a single one.
* `BufferedAudio`: five buffers and a queue of two: the queue is full, the deque holds several, and
  the pipeline runs dry more than once. Five toggles: two pauses, each with data before and after.

A finished song, or a user who stops, is a state without successors: the system
really may stop, hence `CHECK_DEADLOCK FALSE`.

### Assumptions on the environment

* `Prompt` (`MessagePump`): what is pushed in one cycle has been written before the
  next tick, a second later. On a slower link the tick starts a second write
  while one is under way; with `Prompt = FALSE`, `MaxWrites = 2` TLC refutes
  `DeliversInOrder`. This is listed as a hazard.
* One sender per receiver (`Links <- FanOut` in `pump`), so that `temp_msg` is only ever in the middle of one
  message. Nothing in the code ensures it, and with two senders `DeliversInOrder` is refuted; the run shows the
  writing side, breaks, and what the messages of one link need.
* `OneAtATime` (`Peers`): no connection is begun while another is. Nothing in the code ensures it either.
* `bad_owner`: the user does not pause (`MaxPauses = 0`), and of the songs that other nodes ask for, no peer can
  read one that is not selected.
* `one_owner`: that nothing is thrown away, and that `queue_current_bytes` is exact, is only claimed
  of a song with one owner. This too is a hazard in the list.
* `Patient` (`Playback`): the user waits for the tick that follows a play, 25 milliseconds later, and
  each tick of a wav moves the scale; `not Scrolls`: the scale is moved by its button, not by the
  wheel or by keys.
* `EverythingHeard` and `EndHeard` are claimed of runs in which no two calls on a `BufferedAudio` overlap
  (`[]~Overlapping`), while the calls themselves come in any order. `Promise` and `TypeOK` have no such condition.
* `Prompt` (`BufferedAudio`): the source hands on what it has and asks for more before the
  queue runs dry.
* `Library`: other programs do not make links, and songs that are links are not edited.

What happens without each of them is in the table above.

### Fairness

`FairSpec` of `FileTransfer`: weak fairness of the GTK thread inside a handler, of the io
thread, and of each sender's thread, since a thread of the operating system that has work
goes on. Reading a message that has arrived has strong fairness: the model's sockets
are read in the pauses between two cycles, and these last a second. Nothing is
assumed of the user or of peers leaving. `Library`: weak fairness of the steps of a reload, which
are those of the GTK thread and of the thread it joins. `BufferedAudio`: weak fairness of each of
the four threads inside a call, and of the source and the queue, which GStreamer runs
as long as the pipeline does; what the user wants enters the properties as `<>[]want`. `MessagePump`: weak fairness of the reading
and the writing side of each node. `EventuallyEnds` and `EventuallyReceived` allow
`crashed`: undefined behaviour ends all promises.

## 4. Proofs

Each theorem holds for every value of the constants that the assumption of its module
allows: any number of peers, sockets, songs, buffers, files and changes. TLC evaluates these
assumptions in the runs. Where a theorem has a hypothesis besides, it is named here; section 3 tells
what happens without it. Every invariant below was checked with TLC before it was proved.

The invariants the runs check are seldom inductive. Each module states what is kept
in between, as a conjunction of named parts, with one lemma or step per action.

### FileTransfer

* `TypeCorrect`: `Spec => []TypeOK`, without any assumption besides those on the
  constants. It contains that the vectors of `FileSharing` have equal lengths.
* `StreamInvariant`: `OneGoodTransfer` implies `Spec => []StreamInv`.
* `Refinement`: `OneGoodTransfer` implies `Spec => DeliversTheSong`, that is, `FileTransfer`
  implements `StreamDelivery`.

The user may pause, at any step. `OneGoodTransfer` says that one song is selected, that every peer has and can read its
copy, and that the peers serve no other node. It is needed: without one of the first
and the last conjuncts `stale_segment.cfg` and `shared_sender.cfg` are counterexamples, and a peer
that cannot read its copy announces a wrong count.

That the stream is right is not inductive: the next segment written is right because
what is queued is, which is because what was read is, which is because what the
sender opened is the song. `StreamInv` says this of each place on the way:
`OneSong` of the queues and messages (nobody holds a segment before the count is
known), `PreparedFirst` that a peer is not asked for a segment before it has opened the
song (what comes first on its way is `PREPARE_FILE_SHARING`), `Untouched` that before
`LoadMusic` nothing has happened, and `StreamIsPrefix` that the player was given exactly the
first `current_writing_id` segments. There is one lemma per conjunct, with one step per
action, and lemmas on each method of `FileSharing` and `ChunkedFile`
(`PushSegmentOK`, `OpenFileOK`, ...). `two_owners` checks `StreamInv` with TLC.

The other four theorems are about what is asked and not yet played:

* `PipelinesMergeAlways` (`PipelinesMerge`) under `OneSession` alone: owners may have no copy, serve others
  and leave, and the user may pause.
* `LosesOnlyAheadAlways` (`LosesOnlyAhead`, an action property) under `OneGoodTransfer` and when no
  owner leaves: a segment is only lost if it is beyond the look-ahead, or an id beyond the end.
* `NothingThrownAwayAlways` (`NothingThrownAway`) and `QueueBytesAlways` (`QueueBytesExact`) if
  there is one owner besides (`SingleOwner`), for any number of segments and pauses.

They follow a segment through the five places of `Pipeline(i)`: the queue of slot `i`, and what is in `in_msgs`, on
the way back, on the way to the owner and in `out_msgs` about that slot. The lemmas
(`Moves`) say that a step takes an id from the front of one place to the end of the place before it, which keeps the
whole `Increasing` and loses nothing. `PipelineInv` adds to `PipelinesMerge` that a
message is about a slot of the peer it comes from or goes to (`SlotsOfPeers`), since a slot's ids would otherwise
be in two pipelines. `TransferInv` is `PipelineInv`, `StreamInv` and `NothingBehind`: what is under way has not been
played, so that the second branch of `try_writing_segment`, which drops what is over, never runs. With one
owner there is one slot (`OneSlot`), all that is under way is in one increasing pipeline, and
by `NothingThrownAway` it begins with `current_writing_id`: the front of the queue is written and never
dropped, which is also why `queue_current_bytes` stays exact (`SingleOwnerInv`). With two owners this last step
fails, and TLC has the counterexample (section 3). `PipelineInv` was checked with TLC on
`bad_owner`, `TransferInv` on `two_owners` and `paused_pair`, `SingleOwnerInv` on `one_owner`, with pauses as well.

### MessagePump

* `TypeCorrect` has no hypothesis: nothing is read or written beyond the message it is for, and what is
  under way, in `temp_msg` and in `in_msgs` are pieces of messages, whatever breaks.
* `Refinement` under `OneSender` (no node is written to by two others) and `Prompt`: `MessagePump` implements `Channels`, for any number of
  nodes, links, messages and pieces, and whichever connections break: messages are received
  whole, once, and in the order in which they were pushed.

The invariant of the refinement, `PumpInv`, follows one link from end to end. `Wanted` is the piece its
receiver needs next and `ToCome` the one after all that is on the wire. `UnderWay` says that the
wire starts with the first and goes on in order up to the second; `PartlyRead` that `temp_msg` is
what has been read of the message in turn; `Unsent` that what `out_msgs` still has for the peer
goes on exactly at `ToCome`, in the middle of its front if that is being written. `Queued` says that
the one write of a node is that of the front of `out_msgs`, which is where the handlers look.
A link counts only as long as the receiver reads (`Open`), and its sending side only as long as the
sender knows the peer: after a break, what was under way is lost and nothing more is received.

### BufferedAudio

Without a hypothesis, for any number of buffers and any size of the queue, and however the calls of
the four threads overlap: `TypeCorrect`, and `Refinement`, that `BufferedAudio` implements the queue
`AudioQueue` until a call has no defined outcome.

`AudioInv` is `Kept`, what holds whatever happens, and `Working`, what holds as long as no call was
undefined. `FlowNow` says that what was heard, the queue element, the source and the deque are,
one after the other, exactly what was given, with the end after all of it or nowhere. `Relied` says what each
thread may rely on at its program counter: the one about to pop has something to pop, since a second one there
would have made the step undefined, and the one about to pass on the end has seen `eos`, after which nothing is
given. `Unused` says that nothing was given before the constructor ended.

### Player

Without a hypothesis, for any finite set of songs, any comparators and any lists a reload finds:
`TypeCorrect`, `RowsAreFound` (`IndexIsRow`), `ShuffleIsFair` (`ShuffledFairly`), `ButtonIsRight`
(`ButtonTells`), and the action properties `MusicContinues` (`MusicGoesOn`) and `PastRemains`
(`PastIsKept`).

`ListInv` says that each table is a permutation of the list and that the rows are the sorted
table or its reverse; `ShuffleInv` that the shuffled order consists of whole permutations, one after the
other, with the current song at its position. The lemmas are on what `Reverse`, a
permutation and another round do to indices.

### Lyrics and Playback

`LyricsOfAFile` and `LineOfATime` are about the pure functions, for every lyric file: what `Lrc` makes of
it, and that `GetLyricIndex` returns the line that has begun while the next has not.
`TypeCorrect`, `OnePipeline` (`PlayingIsCurrent`) and `DataIsWhole` (`PushedIsWhole`) need no hypothesis; they follow from `PlaybackInv`, which relates the pipeline, its
queue of buffers, the position, the scale and the flags. `LineHasBegun` (`LyricNotAhead`) holds
under `Orderly`: the user waits for a tick (`Patient`), the scale is moved by its button
(not `Scrolls`), and no offset of a lyric file takes a time below zero. Its
invariant `LyricInv` adds that the line shown has begun at the time of the last tick, and that
the position has only gone on from there.

### Store and Library

`TypeCorrect` and `ToldStaysTrue` (`ToldIsFound`) need no hypothesis. Under `Linkless`, no path is a link:
`OneRowEach` (`OneRowPerPath`), `RowsAreTheirFiles` (`RowsTellOfTheirFile`) and `ListedAreStored`
(`ListedHaveRows`).

That a told checksum stays found rests on a fact about `upsert` which `LibraryInv` makes
explicit: every track handed to it has the id -1, so that `Update` changes no row and the table
only grows. `RowsInv` says that the row found by a path is that path's, and `StoredInv`
that a listed song is stored, waits for the thread, or has been touched.

### Peers

`TypeCorrect` needs no hypothesis. Under `OneAtATime` (no connection is begun while another is):
`TablesInverse` (`TablesAgree`), `OthersStay` (`RemovesNoOther`) and `IdsAreNotReused` (`OwnersOwn`), for any
number of hosts, songs and sockets. `EveryPeerAsked` is the lemma `AskedOnce` under the same condition; without it,
it is false.

`TypeInv` already needs an argument: `current_id` counts the sockets that were made, less the ones the
two threads have not counted yet (`Counted`), so that `current_id - 1` exists when it is looked up. In
`PeersInv`, `Alone` says at most one thread is making a connection; then ids are the numbers of the
sockets (`Same`), and what each map, question, answer and list of owners holds under an id is
about that socket (`Addressed`, `Asked`, `Owned`).

### Only model-checked

* Everything with fairness, which is out of the prover's reach: `EventuallyEnds`,
  `EventuallyReceived`, `LastSegmentRequested`, `EverythingHeard`, `EndHeard`, `ScansEnd`.
* `DeliversTheSong` with an owner whose copy is gone or cannot be opened (`bad_owner`), which `OneGoodTransfer`
  excludes.

Every other property of a passing run is a theorem, or the lemma `AskedOnce`. What `FairSpec` adds was left to TLC because neither
fairness nor `ENABLED` is supported by the prover.

## 5. Plan

Done: all the modules of section 2, and the proofs of section 4.

Proof to come: `DeliversTheSong` without the condition that every owner has a readable copy, for which
`OneSong` must allow the wrong count such an owner announces before it is known to have failed.

Modules to come: the message body as a stack of fields, with each pair of operators
inverse; the segments of a file as a partition (`ChunkedFile` alone); the picture example, with
its division by the segment count; `PeerTimeouts`, what the ten seconds would do if
their handlers ran; the life cycle of `BaseClient`, whose destructor joins a worker that
never stops.

## 6. Not modelled

Drawing, dialogs and settings (`application.cpp` up to 490, `main.cpp`) only move
data between widgets and files. `md5.cpp` and the header fields of `wav.cpp` compute on the bytes of a file and
have no state the system shares. GStreamer, SQLite and asio appear as what the code
expects of them. `BufferedAudioTest.cpp` is a test program, `client.cpp` and `network-example.cpp` are
an example. The player answers requests for lyrics and never makes one. The items of the
plan above are not modelled yet, and `PROJECT.json` says so of each component.

## 7. Hazards without a property

`PROJECT.json` lists the hazards of this code that the modules reach; where a property holds only under a
condition, or nothing holds, its note says so. The code has these too; most end in undefined behaviour,
for which a model has the state `crashed` and nothing to promise.

* Connections: `remove_socket` uses the iterator it has erased and reads an id from it
  (`base-client.cpp` 216); a peer that is gone before it is accepted ends the accepting for good (60);
  removing all addresses passes text with a port, and port 4000 always (`application.cpp` 1815);
  `erase` of `std::remove` without an end erases another peer's id when there is nothing to remove, and
  leaves one of two equal ids (1990).
* Transfers: the remainder by a segment size of 0 (`chunked-file.cpp` 28).
* Store and files: numerals in columns of type `STRING` (`store.cpp` 11); `f.tag()` of a file that has gone
  (`application.cpp` 906); `rename` over another song, or one that fails half way (1536);
  `set_music_list` walking over `network_tracks` while the io thread changes it (553); peers are told of the table
  when they connect and not again (1950).
* Play list: `SelectedMusic` after a reload (`application.cpp` 846, 872, 952), or `EmptyMusic` at a click on a column;
  shuffling an empty list (639); comparators that are no strict weak order (1264, 1289). An instance
  with an unsortable list takes longer than a run may.
* Playing: a pipeline that is freed twice, from a song of a peer to a wav (`application.cpp` 1083, 991); data deleted
  twice (`wav.cpp` 28); a row of lyrics that the list shown does not have (`application.cpp` 1557, 1594); a song of a peer whose
  name ends in `.wav` played from other data (1104); fractions of three digits (`lrc.cpp` 189); lyrics of a peer that replace
  `LrcFile` under the GTK thread (`application.cpp` 2070); callbacks on the stack of which one field of three is set
  (`bufferedaudio.cpp` 12).
