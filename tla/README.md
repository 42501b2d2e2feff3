# P2P-File-Transfer in TLA+

Models, model-checking runs and proofs for the peer program under `src/code/`:
a BitTorrent-like program that fetches the chunks of a file from other peers
over UDP, with a sliding window and TCP-like congestion control of its own.
Line numbers below refer to `src/code/`.

## 1. Inventory

### Components, their state and operations

| component | state | operations |
|---|---|---|
| select loop, user GET, set up (`peer.c`) | `have`, `missing`, `wanted`, the names of the last user GET | `peer_setup`, `process_inbound_udp`, `process_get`, `handle_timeout` |
| server side (`bt_server.c`) | `transfers` (outgoing) | `receive_WHOHAS`, `receive_GET`, `receive_ACK`, `handle_server_timeout` |
| client side (`bt_client.c`) | `transfers` (incoming), the bits and data of missing chunks, the peers known to own them | `receive_IHAVE`, `receive_DATA`, `receive_DENIED`, `get_chunk_data`, `check_all_received`, `handle_client_timeout` |
| transfers (`transfer.c`) | peer, chunk, `CongestCtrl`, timestamp; the `available` flag of the peer | `create_transfer`, `delete_transfer` |
| congestion control (`congestion.c`) | `CongestCtrl`: mode, window, threshold | `slow_start`, `congestion_avoidance`, `detected_first_loss` |
| linked lists (`linkedlist.c`) | every list above | insert at the head, find, delete, filter |
| chunks, hashes, chunk files (`chunk.c`, `hash.c`, `bt_io.c`) | chunk records | create, compare, load from the master file |
| packets (`packet.c`) | none | serialise, deserialise, send to one or all |
| configuration (`bt_parse.c`) | the peer list, `-m`, the identity | parse |
| clock (`mytime.c`) and the timers of the select loop | timestamps and timeout counts of transfers | `millitime`, `transfer_has_timeout`, the wait of `select` |
| user input buffer (`input_buffer.c`) | a buffer of 8 KB and how much of it is in use | `process_user_input` |
| router library (`spiffy.c`) | none | `spiffy_sendto`, `spiffy_recvfrom` |
| network simulator (`hupsim.pl`) | routing tables, queues | `createTable`, `recv`, `enQ`, `run` |
| make-chunks, SHA-1, logging | | see "not modelled" |

`parse.c`, `bitrate.c`, `stream.c` and `inbound.c` are leftovers of another
program: they use a structure that is defined nowhere, and nothing calls them.

### Interactions

A user GET puts the chunks that are not owned in `missing` and floods WHOHAS.
Every peer answers with IHAVE.  An IHAVE enters the sender as an owner of
missing chunks and starts a transfer for every missing chunk that has an
available owner: a GET.  The server answers with DENIED, with nothing (the
chunk is in flight to somebody) or with the first DATA packets.  Each DATA
packet is answered with a cumulative ACK, which moves the server's window.  A
complete chunk with the right SHA-1 moves to `have`, from where it is served to
others; when nothing is missing the output file is written and GOT is printed.
Client and server side of one process share `have` and the `available` flag of
each peer.  Everything that goes wrong is repaired by `handle_timeout`, which
runs when `select` is silent for five seconds.  Lines of the user come through
`process_user_input`; datagrams go through `spiffy.c`, which, when SPIFFY_ROUTER
is set, sends them to `hupsim.pl` and has them delivered by it.

### What is hard

* **Matching by sender.**  A DATA or an ACK packet carries no hash: it goes to
  the first transfer with the sender (`node_find` by peer id), also when it
  belongs to a transfer that is over.
* **One `available` flag, two transfer lists.**  The end of an upload tells the
  client that the peer is free, and the other way round.
* **Loss, duplication, reordering, delay** at any point, together with two
  independent timeouts that give up on a transfer.
* **Silence as an answer** to a GET for a chunk that is in flight.
* **A second user GET** before the first is done.
* **Limits**: connections, the 74 hashes of a packet, 8-bit chunk ids, windows of
  one, timeouts at their count, a clock that wraps, an input buffer that is full.
* **Stale memory**: datagrams are read out of a buffer whatever their length, and
  the input buffer keeps the end of what was in it.

`PROJECT.json` lists each of these under `hazards`, at the line where it bites.

### What makes each component correct

* Server: never more than `-m` transfers, one per hash; windows stay sane
  whatever ACKs arrive; a transfer that ends gives its peer back.
* Client: never two transfers for a hash, none for a hash that is not missing;
  the cumulative ACK does not run past a gap; every owned chunk has the right
  data; GOT means the output file is complete, and is printed once per GET.
* Congestion control: the window is positive, slow start ends near its threshold.
* The swarm: chunks are only ever copied from peers that own them, none is
  forgotten, and a user's GET is eventually answered.
* Timers: a silent transfer is given up in time and a live one is not; the window
  grows linearly in congestion avoidance.
* Input buffer: lines are handled whole, in order, and all of them.
* Packets: what is read is what was written, for every type and with extension
  IDs.  Simulator: shortest routes, order kept per pair, queues drain.

## 2. Modules

| module | models | remarks |
|---|---|---|
| `Lists` | `linkedlist.c` | a list is a sequence, a node a position |
| `Congestion` | `congestion.c`, the window part of `bt_server.c` | operators on a `CongestCtrl` record |
| `PeerState` | `peer.h`, `chunk.h`, `transfer.h`, `packet.h` | constants, variables, records, packets |
| `BtServer` | `bt_server.c` | one action per way through a handler |
| `BtClient` | `bt_client.c` | likewise |
| `Swarm` | `peer.c`, `bt_io.c`, and the network | composes the two sides; Next, fairness, properties |
| `Replication` | the abstract specification of the swarm | peers copy chunks from one another |
| `MCSwarm` | | who has and who asks for what, for TLC |
| `Timers` | `mytime.c`, the select loop and `transfer.c` with the clock | one peer; extends `Congestion` and `Lists` |
| `InputBuffer` | `input_buffer.c` | the buffer at the level of bytes |
| `Packets` | `packet.c` | the layout of a datagram, one cell for each field |
| `Wire` | `spiffy.c`, `hupsim.pl`, the reading half of `process_inbound_udp` | extends `Packets` |
| `LossyFifo` | the abstract specification of the simulator | per pair: may lose, keeps the order |
| `MCWire` | | the packets sent, for TLC |
| `ListsProofs` | | lemmas on lists |
| `SwarmProofs` | | windows, type correctness, connections, integrity |
| `SwarmTransfers` | | both transfer lists, availability, names freed once |
| `SwarmReplication` | | the refinement of `Replication` |
| `SwarmAnswers` | | what a user's GET comes to, what the server believes of it |
| `TimersProofs` | | the select loop against the clock |
| `InputBufferProofs` | | the user input buffer |
| `WireProofs` | | routes, order on the wire, packets read back |

How state and actions correspond to the code:

* A variable of `PeerState` is a function from peers to what that process keeps
  in the global of that name; `uploads` and `downloads` are the two static lists
  called `transfers`.  A chunk is a heap cell; `have`, `missing` and `wanted`
  hold pointers `<<n, l>>` (line `l` of the `n`-th get-chunk file, `n = 0` for
  the has-chunk file), so that aliasing of chunks between lists is kept.
* `data`, `bits` and `bits_count` of a chunk are one function from sequence
  numbers: `Unset` where the bit is not set, else the block's content.  A block
  is named by the hash of the chunk it was cut from.  SHA-1 becomes: the data
  has the hash exactly if every block was cut from that chunk.  (For a chunk of
  the has-chunk file the code sets `bits_count` only; nothing reads its bits.)
* One iteration of the select loop is one step, since a process has one thread:
  a datagram (`process_inbound_udp`), a user GET (`process_get`) or a timeout.
  A handler is one action, split by the way it takes through the code.
* The network is a bag of datagrams, delivered in any order.  `Lose` and
  `Duplicate` are bounded by `MAX_FAULTS`.
* `handle_timeout`: `select` waits five seconds and a transfer times out after
  three, while every timestamp is set by an event that ends the wait.  So
  whenever `handle_timeout` runs, every transfer has timed out, and timestamps
  need not be state of `Swarm`; `Timers!AllTimedOut` checks this with the clock
  and its wrap.  `QuietTimeout` is a timeout while nothing is on its way to
  or from the peer; `EarlyTimeout` one while a datagram is in flight, hence
  more than five seconds late, and counts as a fault.
* Congestion avoidance computes the window from the clock.  `Swarm` has none:
  between two ACKs the window grows by 0 to `MAX_RTTS`.  In `Timers` the window
  is computed as in the code, in unsigned arithmetic.
* Conversions that matter are kept: `create_chunk` cuts an id to `ID_WIDTH`
  (256) values, the master file reads as zeros past its end, and the id of a
  line overwrites the id of the chunk.
* The branch of `validate_chunk` that finds no missing chunk of the hash
  (bt_client.c:553) is in `complete_DATA` and is never taken: that is what
  `DownloadsMatchMissing` says, and what keeps the names from being freed twice.
* `node_delete` during iteration (the timeout loops) becomes `node_keep`, what
  the loop leaves of the list.
* `Timers` is one peer, and what others send it is arbitrary.  Real time advances
  only while `select` waits; any number of inputs arrive at one time.
  `transfer_has_timeout` subtracts unsigned values of a clock that wraps.  At the
  end of standard input `select` returns at once for ever, as `process_user_input`
  returns on an empty read without a trace: `close_stdin`.
* `InputBuffer` splits one call of `process_user_input` into the read, one step
  per line, and the return; lines may be typed between these.  `Shifted` is the
  `memmove` as it is: the bytes behind what it moves stay.  A terminal returns at
  most one line per read (`TERMINAL`), and may return less at an end-of-file key.
* In `Packets` a datagram is a sequence of cells, the fields in the order in which
  `serialize_header` and `serialize_payload` write them; a receiver reads them out
  of a buffer whose end holds what an earlier datagram left (`Garbage`).
* In `Wire` a packet is taken from a queue and received by the next router in one
  step, as in `NSRouter::run`.  The simulator's delays only decide when.

## 3. Runs

Deadlock is checked where a peer can always time out (`MCSwarm`, `Timers`).  It is
not in `terminal` and `wire`: a peer whose user types nothing more, and a
simulator nobody sends to, may rest.

| run | instance | checks |
|---|---|---|
| `transfer` | one client, one server, one chunk of 4 packets, 3 faults, transfers die at the 3rd timeout | `TypeOK`, `AckBacked`, `WindowSane`, `NoAvailabilityLeak` |
| `crosstalk` | a client that owns one chunk fetches two more, of 2 packets, from one server, `-m 1`, 2 faults | `HaveValid`, `GotComplete`, `UploadLimit`, `HaveDistinct`, refinement `Replicates` |
| `recovery` | the same with 1 fault, fair (`PatientSpec`) | liveness `Served` |
| `contention` | two clients want a chunk of a third and then serve it, 1 fault, fair (`FairSpec`) | `OneUploadPerHash`, `DownloadsMatchMissing`, liveness `ServedUnlessFaults` |
| `regets` | a second user GET for a chunk that is being fetched, 1 fault | `DownloadsMatchMissing`, `NamesFreedOnce` |
| `terminal` | a buffer of 3 bytes, up to 3 lines of up to 4 bytes from a terminal, fair | `TypeOK`, `LinesIntact`, `ExitsOnLongLine`, liveness `LinesHandled` |
| `timers` | one upload, two downloads, 6 ticks over a wrap of the clock | `TypeOK`, `AllTimedOut`, `DeadTransfersFreed`, `LinearWithinLap`, action property `PatientWithPeers` |
| `wire` | the 38 connected topologies of 4 routers, queues of 1 or 2, 8 packets, 2 sent, fair | `RoutesShortest`, `TypeOK`, `ReadsBack`, refinement `InOrder`, liveness `Drains` |

Why the bounds are enough.

* `transfer`: four packets let a window be opened, filled, moved and reset to one,
  and leave a gap before stored packets; with the threshold at 2 both modes are
  entered, and three faults make three duplicate ACKs or a timeout together with
  a loss.  One chunk is in play, which `AckBacked` needs: with two, the stale ACK
  of `stale_ack` breaks it.
* `crosstalk`: two packets are the least with a chunk that is partly filled, and
  with two chunks from one peer a late packet of the first is stored in the
  second: the corrupt chunk, its refetch and the stale ACK all occur.  The chunk
  that is owned already goes through `AbsentLines`.  `MAX_HASH_IN_PACKET = 1`
  makes every WHOHAS of two hashes two packets.  `recovery` has one fault instead
  of two to keep the liveness check short.
* `contention`: two clients and a seed are the least in which a GET is ignored
  because of somebody else's transfer, and in which a client becomes a server.
* `terminal`: lines are shorter than, as long as and longer than the buffer, and
  a third line meets what two left behind.
* `timers`: `select` waits 2 ticks and a transfer times out after more than 1, the
  order the code's 5 s and 3 s have; two timeouts kill a transfer; a clock that
  starts 3 ticks before its wrap at 32 makes each of the timestamps, the round-trip
  timer and the wait straddle the wrap in some behaviour; a round-trip time of 3
  ticks lets the window grow twice.  Times are compared in 64 values, counts in 32,
  so that a difference over the wrap is as far out of range as it is in C.
* `wire`: four routers are the least with two shortest paths of several hops, so
  that ties in the routing tables occur.  Peer 5 is in neither map file: what it
  sends and what is sent to it is dropped.  Router 4 is a router without a peer.
  Two packets can meet in a queue of one, overtake, or take different paths.

Each property has a mutant in `PROJECT.json` that breaks it: a dropped guard, an
off-by-one, a missing reset in the mapped definition.  Mutated forms stand next
to what they mutate, marked `Mutant:`.

### Fairness

`FairSpec` assumes of each peer that it takes the datagrams of every other peer
off its socket (weak fairness per pair: the socket queue is first in, first out,
and the process has nothing else to wait for) and that `select` returns when
nothing arrives for five seconds (weak fairness of `QuietTimeout`).  No fairness
is assumed of the user, of loss or of duplication.

After a fault that is not enough: a peer that is written to at least every five
seconds never times out, and two peers can do that to each other.  `PatientSpec`
assumes strong fairness of `QuietTimeout`: a peer that is quiet again and again
times out in the end.  Two peers that wait for each other start their five seconds
at the same exchange, so which of them times out first is up to the delays of
datagrams and schedulers, and it is not always the same one; `recovery` is checked
under this.  With three peers not even this helps: two clients that each retry
every five seconds, at different times, keep a server from ever being silent for
five.  `starvation` shows that under `PatientSpec`, and `contention` therefore
claims `ServedUnlessFaults`, not `Served`.

In `InputBuffer`, `process_user_input` is weakly fair: `select` reports standard
input as long as there is something to read.  In `Wire` each `run` is: the main
loop of the simulator sleeps no longer than until the next packet is due and then
runs every router.  `Timers` states no fairness; its properties are bounds in time.

### Where the code and its comments disagree

Runs marked `violation` state what a comment or a document says; TLC finds the
behaviour of the code that breaks it.

| run | property | what happens |
|---|---|---|
| `starvation` | `Served` | one datagram is lost; the client's GET is ignored while the server's upload lives (bt_server.c:175), and the retries of two clients keep the server from the silence in which the upload would die (peer.c:332) |
| `regets_output` | `GotComplete` | `validate_chunk` (bt_client.c:550) removes the *first* missing chunk of the hash; after a second GET that is not the one that was filled, and the output file has an empty chunk |
| `stale_ack` | `CompleteMeansDelivered` | a late last ACK ends the transfer of the next chunk (bt_server.c:242) |
| `denied_payload` | `DeniedEmpty` | a DENIED has no payload, but `deserialize_payload` reads a number of hashes behind it (bt_server.c:138) |

Smaller disagreements, each seen as a violation while the models were built and
easy to reproduce, that have no run of their own:

* An owned chunk named at two positions of a get-chunk file has one id
  (peer.c:208), so one position of the output is not written.
* `delete_transfer` (transfer.c:35) marks a peer available that still is in the
  other list: two peers that serve each other can have two downloads from one peer.
* After a lost first DATA the client sends its GET again (bt_client.c:219), and
  the server ignores it (bt_server.c:175): only the death of the upload helps.
* `create_chunk` (chunk.c:13) takes an eight-bit id: chunk 256 of a file loads the
  data of chunk 0.  `Integrity` below assumes `FilesAgree` for this reason.
* `-m` bounds uploads; the help text (bt_parse.c:38) says downloads.
* `timeout_count` of a download is never reset: `process_inbound_udp` (peer.c:119)
  resets a count of the peer that nothing reads.  A long transfer dies at the
  fifth silence of its life, however much came in between; hence the wording of
  `PatientWithPeers`.
* Without the condition `SameLap`, `LinearWithinLap` fails: `millitime` goes back to
  zero every 12 days, the difference to `rtt_timer` is then a huge unsigned number,
  and so is the window (congestion.c:79).
* With `TERMINAL = FALSE`, one read can fill the buffer with several lines, and
  `LinesIntact` fails: `memmove` (input_buffer.c:51) leaves the last bytes of the
  buffer in place behind those it moves, and a newline among them ends a line that
  was not typed.
* `HaveDistinct` holds in `crosstalk`, where no chunk is asked for again before it
  has come; in the instance of `regets` it does not, and a hash can be owned twice.
* For a topology that is not connected `createTable` (hupsim.pl:282) does not end:
  the walk along the predecessors creates an empty predecessor for each one it
  looks at.  `Wire` starts from connected topologies.

## 4. Proofs

Proved with TLAPS for every value of the constants that the assumptions allow: every
finite set of peers, every content of the files, every chunk length, threshold,
limit, width of the clock and size of the buffer.  TLC evaluates the assumptions in
every run of their module:

* `CongestionAssumption`: positive lengths and limits.
* `PeerAssumption`: files are sequences of lines; `Zero`, `Unset` and `NoPeer` are
  none of the real values.
* `TimersAssumption`: `select` waits longer than the threshold (5 s and 3 s).  The
  integers are a power of two wide and hold twice the threshold of slow start and
  twice the round trips of a lap of the clock (2^32 against 64, and 2^20 s in steps
  of 200 ms).  `MAX_TIME < CLOCK_WRAP`, so a behaviour lasts at most one turn of the
  clock, with one wrap anywhere in it: after a whole turn the difference of two
  timestamps is zero again and says nothing of their age.
* `InputAssumption`: a buffer of at least two bytes; neither the newline nor NUL is
  an ordinary character.

* `WireAssumption`: finitely many routers, which are numbers; queues hold at least
  one packet.
* `PacketsAssumption`: the magic number is not the version number.
* `OutgoingAssumption`: peers send packets as the senders fill them in, which fit in
  the receive buffer, behind at most one extension ID.  The magic number as the
  extension ID and other versions are allowed: `ReadsBack` says these are dropped.

Some theorems have hypotheses, each because the code does not keep the property
without it:

* `FilesAgree`: the has-chunk files describe the master file and their ids fit.
* `HasFilesDistinct`: a has-chunk file names no chunk twice.
* `[][AsksAfresh]_vars`: no user asks for a chunk while it is missing, and no
  get-chunk file names one twice.  `regets` is an instance where a user does.
* `[][AsksInTurn]_vars`: every user waits for GOT before the next GET, and no file
  names a chunk or a position twice.  It implies `AsksAfresh`.  Without it a GOT may
  come for an incomplete file (`regets_output`).  `crosstalk` is an instance with it.
* `AskForOne`: each user asks for one chunk, as often as he likes; others may ask for
  others.  Without it an ACK of one chunk moves the window of another (`stale_ack`).
* `TERMINAL`: standard input is a terminal, which gives `read` one line at a time;
  what a pipe does is in section 3.

The hypotheses on users restrict what is typed, never what the network, the timeouts
or the other peers do.

| theorem | statement | argument |
|---|---|---|
| `SwarmProofs!TypeCorrect` | `Spec => []TypeOK` | inductive as it stands |
| `SwarmProofs!ConnectionsBounded` | `Spec => []UploadLimit` | from `UploadsOK` |
| `SwarmProofs!WindowsSane` | `Spec => []WindowSane` | from `UploadsOK` |
| `SwarmProofs!Integrity` | `FilesAgree /\ Spec => []HaveValid` | inductive with `TypeOK` |
| `SwarmTransfers!OneUploadEach` | `Spec => []OneUploadPerHash` | inductive with `TypeOK` |
| `SwarmTransfers!NoPeerLost` | `Spec => []NoAvailabilityLeak` | inductive with `TypeOK` |
| `SwarmTransfers!DownloadsMatch` | `Spec => []DownloadsMatchMissing` | inductive with `TypeOK` |
| `SwarmTransfers!FreedOnce` | `Spec => []NamesFreedOnce` | from `AnnouncedOnce`, with `DownloadsMatchMissing` |
| `SwarmReplication!ImplementsReplication` | `FilesAgree /\ Spec => Replicates` | step simulation under `Sourced` |
| `SwarmAnswers!OwnedOnce` | `HasFilesDistinct /\ Spec /\ [][AsksAfresh]_vars => []HaveDistinct` | from `OwnedApart` |
| `SwarmAnswers!AnswersComplete` | `FilesAgree /\ Spec /\ [][AsksInTurn]_vars => []GotComplete` | from `WantedOK` |
| `SwarmAnswers!WindowsBacked` | `FilesAgree /\ AskForOne /\ Spec => []AckBacked` | from `Backed` |
| `TimersProofs!TimersTypeCorrect` | `Spec => []TypeOK` | from `TimersInv` |
| `TimersProofs!EveryoneTimedOut` | `Spec => []AllTimedOut` | from `TimersInv` |
| `TimersProofs!SilentTransfersFreed` | `Spec => []DeadTransfersFreed` | from `TimersInv` |
| `TimersProofs!GrowthIsLinear` | `Spec => []LinearWithinLap` | from `TimersInv` |
| `TimersProofs!TimeoutsArePatient` | `Spec => PatientWithPeers` | action property, from `TimersInv` |
| `InputBufferProofs!BufferTypeCorrect` | `Spec => []TypeOK` | inductive as it stands |
| `InputBufferProofs!LinesStayIntact` | `TERMINAL /\ Spec => []LinesIntact` | from `TerminalInv` |
| `InputBufferProofs!ExitMeansLongLine` | `TERMINAL /\ Spec => []ExitsOnLongLine` | from `TerminalInv` |
| `WireProofs!RoutesAreShortest` | `Spec => []RoutesShortest` | Dijkstra's algorithm, from `WireInv` |
| `WireProofs!WireTypeCorrect` | `Spec => []TypeOK` | from `WireInv` |
| `WireProofs!ChannelsInOrder` | `Spec => InOrder` | step simulation under `WireInv` |
| `WireProofs!PeersReadBack` | `Spec => []ReadsBack` | from `WireInv` |

* **Type correctness.**  Every action changes one peer, so the proof has a frame
  lemma that reduces it to `PeerOK` of that peer, and one lemma per action.  The
  part with content: pointers stay inside a heap that only grows, the transfers
  `get_chunk_data` opens point at missing chunks and at real peers (never
  `NoPeer`), every packet sent is one the receiving handler can read, and no
  loss makes a window empty.
* **Uploads.**  `UploadsOK` says that each upload list is a sequence of uploads
  with a sane window, at most `-m` long.  It is needed because `UploadLimit` and
  `WindowSane` talk of list entries, and handlers build lists by inserting,
  deleting and filtering: the lemmas of `ListsProofs` carry membership in
  `Seq(SaneUpload)` through each of these.  The windows rest on
  the window lemmas of `SwarmProofs`: an ACK may move `begin` past `index`, and `adjust_window`
  moves `index` along.  ACKs are not assumed to belong to the chunk.
* **Integrity.**  Three facts: an intact chunk has every bit set, so
  `data_store` never overwrites it (`IntactStored`), also when it is still in a
  transfer; emptying happens to a chunk that failed the hash check, which an
  intact one cannot; and what enters `have` just passed it.  `FilesAgree` says
  that the has-chunk files describe the master file and their ids fit, without
  which the id of chunk 256 loads another chunk's data.

* **Transfers.**  Two facts about every step carry these proofs.  The hash of a chunk
  never changes (`HashKept`): handlers fill, empty and rename chunks, and a user GET
  only adds cells.  And a list is changed by thinning (`Thinned`): what stays keeps
  its order, its peer and its chunk, and each entry that goes has its peer made
  available in the same step.  `OneUploadPerHash` then needs only the search that
  `receive_GET` makes before it inserts.  `NoAvailabilityLeak` needs that
  `get_chunk_data` takes a peer out of `available` exactly when it opens a download
  from it; the proof follows the set of peers that are available or have a download.
  `DownloadsMatchMissing` needs that a hash leaves `missing` together with every
  download of it, and that `get_chunk_data` opens none for a hash in flight, even
  when a second GET has put the hash into `missing` twice.
* **Names.**  `NamesFreedOnce` is not inductive: `construct_data` announces the file
  of the last GET whenever `missing` is empty.  `AnnouncedOnce` adds that the last
  GET is not announced while something is missing, and `DownloadsMatchMissing` that
  a download completes only when something is.
* **Replication.**  A step that puts a chunk into `have` must be a copy of a chunk
  some peer owns.  The abstract step says nothing of packets, so the invariant
  `Sourced` does: every block in a chunk and in a DATA packet in flight is zero,
  unset or cut from a chunk some peer owns.  A chunk that passes the hash check is
  made of blocks of that hash, so its hash is owned somewhere.
* **Owned once.**  `HaveDistinct` is not inductive: a chunk enters `have` from
  `missing`.  `OwnedApart` says that `have` names no hash twice and shares none with
  `missing`, `MissingApart` that `missing` names none twice.  `AbsentLines` keeps what
  is owned off the missing list, and the hypothesis keeps off what is missing.
* **Answers.**  `GotComplete` speaks of files that were written; `WantedOK` says what
  will be: while something is missing, the wanted list names a chunk with the id and
  hash of every line of the last GET and nothing else, and each of these chunks is
  owned or still missing.  A chunk that completes must be the missing one of its
  pointer, not only of its hash: `DownMissing`, `MissingApart`.  When nothing is
  missing all wanted chunks are owned, and by `HaveValid` intact.
* **Windows backed.**  `AckBacked` compares the window of the server with the chunk of
  the client, two pieces of state that only packets connect.  `Backed` says that no
  packet of another chunk is ever stored (`AllClean`), so that a complete chunk is
  always valid and a filled position is never emptied; that an ACK in flight, however
  old, counts packets the client has (`NetBacked`); and that a window begins where an
  ACK or a GET put it (`UploadsBacked`).  `ComesFrom` traces each upload back over a
  step to one of these.
* **Routes.**  `Visited` is taken one visit at a time under `Settled`: the visited
  vertexes are the nearest ones, none of their links leads more than one step farther,
  and every vertex that was reached has a visited neighbour as its predecessor, one
  step nearer.  Once all are visited, distances are the lengths of shortest paths.
  Both recursions (`after`, `startRoute`) are function definitions; that they have a
  solution is proved by a least counterexample.  Every hop of the tables is then one
  nearer to the destination, and `Hops` a shortest path.
* **Order.**  All packets of a pair are on its one route.  `Ordered`: one that is
  nearer to the destination, or in front in the same queue, was sent earlier.
  A router takes the head of a queue, behind which all of the pair at the same
  distance stand, and appends it where those of the pair that are there already were
  sent earlier.  What is delivered is the oldest under way and what overflows is lost:
  these are the steps of `LossyFifo`.
* **Reading back.**  The fields are cells of known length, so what the parser takes
  at each offset is the field the serializer put there, with the extension ID moving
  all offsets by one cell; what it takes from behind the datagram is not in `Used`.
* **Timers.**  `TimersInv` relates each transfer to real time, from both sides.  The
  timestamp of an upload is the clock at the time its peer was last heard, and
  since then at least `count` waits and the current one have passed (with which
  nobody is given up early, and `AllTimedOut` holds).  While standard input is
  open, no more than these have passed since the last input (with which a silent
  peer is given up in time).  For the windows: slow start doubles from 1 through
  proper divisors of the integers' width, so it cannot overflow to an empty
  window; in congestion avoidance the round-trip timer is the clock at entry.
* **Input buffer.**  `TerminalInv` says that the bytes in use followed by standard
  input spell the lines typed and not yet handled (`PendingLines`), that no
  newline is left behind the bytes in use and only the last one can be a newline
  (`BufferClean`), and that what was handled is what was typed.  Where line `n` of
  the pending bytes starts is given by an offset function that the invariant
  claims to exist, since a concatenation of a sequence of lines would be recursive.
  `BufferClean` is what fails for a pipe: two lines in one `read`.

Every inductive invariant was checked with TLC on the instance of its component's
run before it was proved.

Model-checked only, and staying so: the liveness properties `Served`,
`ServedUnlessFaults`, `LinesHandled` and `Drains`, since fairness and `ENABLED` are
out of the prover's reach.  Every invariant, action
property and refinement that a passing run checks is also a theorem.

## 5. Not modelled

* Byte order and the split of fields into bytes; a field of a packet is one cell.
* Rates, latencies and counters of the simulator, and its log file.
* Pointer surgery of `linkedlist.c`; failures of `calloc` and of file I/O (the
  code asserts or logs); lines of a chunk file that do not parse.
* `readfds` is never cleared with `FD_ZERO` (peer.c:314): which descriptors an
  uninitialised set watches is outside any of the models.
* Lengths of chunks.  `make_chunks` hashes a short last chunk by its own length and
  `validate_chunk` hashes 512 KB always, so the last chunk of a file whose size is
  not a multiple of 512 KB never validates.
* SHA-1 (third-party code; an injective function in the model), hex conversion,
  `getopt`, logging, `make_chunks.c` (sequential I/O around SHA-1), and the files
  of another program.

## 6. Plan

Done: steps 1 to 9.

1. `Lists`, `Congestion`, `PeerState`, `BtServer`, `BtClient`, `Swarm`, the
   passing runs and the disagreements.
2. `Replication` and the refinement run.
3. Type correctness, bounded connections, sane windows, integrity.
4. The select loop with timers and a clock of bounded width (`Timers`).
5. The packet codec, the router library and the simulator (`Packets`, `Wire`,
   `LossyFifo`), and the DENIED payload.
6. The input buffer (`InputBuffer`).
7. Recovery after a fault and the starvation of `handle_timeout`.
8. The transfers, the names, the refinement of `Replication`, the timers and the
   input buffer proved.
9. The chunks a user asked for, the server's windows, and the wire proved.
10. The linked list on pointers, refining sequences.
