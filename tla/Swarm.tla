-------------------------------- MODULE Swarm --------------------------------
(***************************************************************************)
(* peer.c: peers that run the client and the server side in one select     *)
(* loop, over a network that may lose, duplicate, reorder and delay        *)
(* datagrams.  Every iteration of the loop is one step: one datagram, one  *)
(* user GET, or one timeout of select.                                     *)
(***************************************************************************)
EXTENDS BtServer, BtClient

\* The block the id-th chunk of the master data file is made of; zeros past
\* its end.
read_chunk_data_file_by_id(id) == IF id \in DOMAIN Master THEN Master[id] ELSE Zero

\* peer_setup: the chunks of the has-chunk file, with their data loaded.
LoadedChunk(line) ==
    LET c == create_chunk(line.id, line.hash)
    IN  [c EXCEPT !.data = [s \in SeqNums |-> read_chunk_data_file_by_id(c.id)]]

\* Each line of the has-chunk file is inserted at the head of have.
parse_chunkfile(p) == Reverse([l \in DOMAIN HasFile[p] |-> <<0, l>>])

\* Every peer of the list is available.
bt_parse_peer_list == [p \in Peers |-> Peers]

Init ==
    /\ chunk = [p \in Peers |-> [r \in {<<0, l>> : l \in DOMAIN HasFile[p]} |->
                                    LoadedChunk(HasFile[p][r[2]])]]
    /\ have = [p \in Peers |-> parse_chunkfile(p)]
    /\ missing = [p \in Peers |-> << >>]
    /\ wanted = [p \in Peers |-> << >>]
    /\ available = bt_parse_peer_list
    /\ uploads = [p \in Peers |-> << >>]
    /\ downloads = [p \in Peers |-> << >>]
    /\ request = [p \in Peers |-> 0]
    /\ got = [p \in Peers |-> << >>]
    /\ net = EmptyBag
    /\ faults = 0

------------------------------------------------------------------------------
(* process_get: the user's next GET.  Each line of the get-chunk file is   *)
(* looked up in have; a chunk that is not there is created and missing.    *)
(* Either way the chunk takes the line's id and is wanted.                 *)

\* Mutant: the have list is not consulted.
AbsentLines_All(p, lines) == DOMAIN lines

AbsentLines(p, lines) == {l \in DOMAIN lines : Owned(p, lines[l].hash) = {}}

\* The chunk that line l of the n-th file stands for.
ChunkOfLine(p, n, lines, l) ==
    IF l \in AbsentLines(p, lines)
      THEN <<n, l>>
      ELSE CHOOSE r \in {have[p][i] : i \in node_find(Owned(p, lines[l].hash))} : TRUE

\* The heap after all lines are read: the last line of a chunk sets its id.
HeapAfterGet(p, n, lines) ==
    LET LinesOf(r) == {l \in DOMAIN lines : ChunkOfLine(p, n, lines, l) = r}
        NewId(r) == lines[CHOOSE l \in LinesOf(r) : \A k \in LinesOf(r) : k <= l].id
        Base(r) == IF r \in DOMAIN chunk[p] THEN chunk[p][r]
                                            ELSE create_chunk(lines[r[2]].id, lines[r[2]].hash)
    IN  [r \in DOMAIN chunk[p] \cup {<<n, l>> : l \in AbsentLines(p, lines)} |->
            IF LinesOf(r) = {} THEN Base(r) ELSE [Base(r) EXCEPT !.id = NewId(r)]]

process_get(p) ==
    LET n == request[p] + 1
        lines == GetFiles[p][n]
        heap == HeapAfterGet(p, n, lines)
        miss == Reverse(node_keep([l \in DOMAIN lines |-> <<n, l>>], AbsentLines(p, lines)))
                  \o missing[p]
        want == Reverse([l \in DOMAIN lines |-> ChunkOfLine(p, n, lines, l)]) \o wanted[p]
    IN  /\ n <= Len(GetFiles[p])
        /\ request' = [request EXCEPT ![p] = n]
        /\ chunk' = [chunk EXCEPT ![p] = heap]
        /\ missing' = [missing EXCEPT ![p] = miss]
        /\ check_all_received(p, n, heap, miss, want)
        /\ net' = net (+) ToBag(send_WHOHAS(p, heap, miss))
        /\ UNCHANGED <<have, transferVars, faults>>

------------------------------------------------------------------------------
(* select times out.  It does so by itself only when nothing is on its     *)
(* way to p and no answer to p is about to be made; a timeout while a      *)
(* datagram is in flight means that one is more than five seconds late.    *)

Quiet(p) == \A m \in BagToSet(net) : p \notin {m.src, m.dst}

handle_timeout(p) ==
    /\ uploads' = [uploads EXCEPT ![p] = UploadsAfterTimeout(p)]
    /\ handle_client_timeout(p, available[p] \cup FreedByServer(p))
    /\ UNCHANGED <<have, missing, wanted, userVars>>

QuietTimeout(p) == Quiet(p) /\ handle_timeout(p) /\ UNCHANGED faults

EarlyTimeout(p) ==
    /\ ~Quiet(p)
    /\ faults < MAX_FAULTS
    /\ faults' = faults + 1
    /\ handle_timeout(p)

\* process_inbound_udp: dispatch on the type of the datagram.
process_inbound_udp(m) ==
    \/ receive_WHOHAS(m)
    \/ receive_GET(m)
    \/ receive_ACK(m)
    \/ receive_IHAVE(m)
    \/ receive_DENIED(m)
    \/ receive_DATA(m)

\* The network.
Lose(m) ==
    /\ faults < MAX_FAULTS
    /\ faults' = faults + 1
    /\ Deliver(m, Nothing)
    /\ UNCHANGED <<chunkVars, transferVars, userVars>>

Duplicate(m) ==
    /\ faults < MAX_FAULTS
    /\ faults' = faults + 1
    /\ net' = net (+) SetToBag({m})
    /\ UNCHANGED <<chunkVars, transferVars, userVars>>

Next ==
    \/ \E m \in BagToSet(net) : process_inbound_udp(m) \/ Lose(m) \/ Duplicate(m)
    \/ \E p \in Peers : process_get(p) \/ QuietTimeout(p) \/ EarlyTimeout(p)

Spec == Init /\ [][Next]_vars

\* Scheduling: each peer's loop takes the datagrams of every other peer off its
\* socket, and select returns when nothing arrives for five seconds.  The user
\* need not type anything and the network need not lose anything.
DatagramsRead ==
    \A p, q \in Peers : WF_vars(\E m \in BagToSet(net) :
                             m.src = p /\ m.dst = q /\ process_inbound_udp(m))

FairSpec == Spec /\ DatagramsRead /\ \A p \in Peers : WF_vars(QuietTimeout(p))

\* The same, where a peer that is quiet again and again is at some time quiet
\* for long enough: the other peers wait five seconds as well, so none of them
\* is the first to speak every time.
PatientSpec == Spec /\ DatagramsRead /\ \A p \in Peers : SF_vars(QuietTimeout(p))

------------------------------------------------------------------------------
(* What the peers promise. *)

HeapOK(heap) ==
    /\ heap = [r \in DOMAIN heap |-> heap[r]]
    /\ DOMAIN heap \subseteq Pointers
    /\ \A r \in DOMAIN heap : heap[r] \in Chunk

\* What a peer keeps: its lists point into its heap.
PeerOK(heap, hav, mis, wan, av, up, down) ==
    LET D == DOMAIN heap IN
    /\ HeapOK(heap)
    /\ hav \in Seq(D) /\ mis \in Seq(D) /\ wan \in Seq(D)
    /\ av \subseteq Peers
    /\ up \in Seq(Upload(D))
    /\ down \in Seq(Download(D))

\* Shape of the state: pointers lie inside the heap they are followed in, every
\* datagram is one a handler can read, and windows stay positive and inside the
\* chunk whatever losses detected_first_loss is told of.
TypeOK ==
    /\ chunk = [p \in Peers |-> chunk[p]]
    /\ have = [p \in Peers |-> have[p]]
    /\ missing = [p \in Peers |-> missing[p]]
    /\ wanted = [p \in Peers |-> wanted[p]]
    /\ available = [p \in Peers |-> available[p]]
    /\ uploads = [p \in Peers |-> uploads[p]]
    /\ downloads = [p \in Peers |-> downloads[p]]
    /\ request \in [Peers -> Nat]
    /\ \A p \in Peers : PeerOK(chunk[p], have[p], missing[p], wanted[p], available[p],
                               uploads[p], downloads[p])
    /\ BagToSet(net) \subseteq Packets
    /\ faults \in 0..MAX_FAULTS

\* The has-chunk files describe the master data file, and their ids fit
\* create_chunk's parameter.
FilesAgree ==
    \A p \in Peers : \A l \in DOMAIN HasFile[p] :
        read_chunk_data_file_by_id(HasFile[p][l].id % ID_WIDTH) = HasFile[p][l].hash

\* No two lines name the same chunk, or the same position of the output file.
DistinctHashes(lines) == \A k, l \in DOMAIN lines : lines[k].hash = lines[l].hash => k = l

DistinctIds(lines) == \A k, l \in DOMAIN lines : lines[k].id = lines[l].id => k = l

\* The get-chunk file that p's user names next.
NextFile(p) == GetFiles[p][request[p] + 1]

\* A user who asks for no chunk again before it has come.
AsksAfresh ==
    \A p \in Peers : process_get(p) =>
        /\ DistinctHashes(NextFile(p))
        /\ \A j \in DOMAIN missing[p] : \A l \in DOMAIN NextFile(p) :
              chunk[p][missing[p][j]].hash # NextFile(p)[l].hash

\* A user who waits for GOT before the next GET, and whose files name every
\* chunk and every position once.
AsksInTurn ==
    \A p \in Peers : process_get(p) =>
        /\ missing[p] = << >>
        /\ DistinctHashes(NextFile(p)) /\ DistinctIds(NextFile(p))

\* A user who asks for one chunk only, as often as he likes.
Asked(p, h) ==
    \E n \in DOMAIN GetFiles[p] : \E l \in DOMAIN GetFiles[p][n] : GetFiles[p][n][l].hash = h

AskForOne == \A p \in Peers : \A g, h \in Hashes : Asked(p, g) /\ Asked(p, h) => g = h

\* The has-chunk files name every chunk once.
HasFilesDistinct == \A p \in Peers : DistinctHashes(HasFile[p])

\* The data of the chunk is the data its hash stands for.
Intact(c) == \A s \in SeqNums : c.data[s] = c.hash

\* Integrity: whatever DATA packets were lost, duplicated, late or stored in
\* the wrong chunk, the chunks of the have list, from where they are served to
\* others and written to the output file, are intact.
HaveValid == \A p \in Peers : \A i \in DOMAIN have[p] : Intact(chunk[p][have[p][i]])

\* The client never works on a hash twice, and never on one that is no longer
\* missing: get_chunk_data's check against the transfers in flight is enough.
DownloadsMatchMissing ==
    \A p \in Peers : \A i \in DOMAIN downloads[p] :
        LET h == chunk[p][downloads[p][i].c].hash IN
        /\ \E j \in DOMAIN missing[p] : chunk[p][missing[p][j]].hash = h
        /\ \A k \in DOMAIN downloads[p] : chunk[p][downloads[p][k].c].hash = h => k = i

\* construct_data frees the names of the user's GET: it runs at most once for
\* each GET, though a late chunk completes after the list is empty.
NamesFreedOnce ==
    \A p \in Peers : \A i, j \in DOMAIN got[p] : got[p][i].file = got[p][j].file => i = j

\* When GOT is printed the output file holds, at the position of every line of
\* the get-chunk file, the data of the line's hash.
GotComplete ==
    \A p \in Peers : \A i \in DOMAIN got[p] :
        \A l \in DOMAIN GetFiles[p][got[p][i].file] :
            LET line == GetFiles[p][got[p][i].file][l] IN
            /\ line.id \in DOMAIN got[p][i].data
            /\ \A s \in SeqNums : got[p][i].data[line.id][s] = line.hash

\* The server keeps to the -m option, however GETs and timeouts interleave.
UploadLimit == \A p \in Peers : Len(uploads[p]) <= MAX_CONN

\* The server sends a chunk to one peer at a time: receive_GET looks for the
\* hash among all its transfers, and clients that ask again do not add one.
OneUploadPerHash ==
    \A p \in Peers : \A i, j \in DOMAIN uploads[p] :
        chunk[p][uploads[p][i].c].hash = chunk[p][uploads[p][j].c].hash => i = j

\* Every window is sane, whichever ACKs and timeouts moved it: ACKs are matched
\* to a transfer by their sender alone, so some belong to another chunk.
WindowSane ==
    \A p \in Peers : \A i \in DOMAIN uploads[p] : WindowOK(uploads[p][i].cctrl)

\* No peer is lost for good: the available flag of a peer is off only while a
\* transfer with it exists, so that some delete_transfer will set it again.
NoAvailabilityLeak ==
    \A p, q \in Peers :
        q \notin available[p] =>
            \/ \E i \in DOMAIN uploads[p] : uploads[p][i].peer = q
            \/ \E i \in DOMAIN downloads[p] : downloads[p][i].peer = q

\* While no chunk is asked for again before it has come, a hash is owned once,
\* so the reply to a WHOHAS never holds more hashes than the WHOHAS did:
\* receive_WHOHAS collects one for every match in an array of that size.
HaveDistinct ==
    \A p \in Peers : \A i, j \in DOMAIN have[p] :
        chunk[p][have[p][i]].hash = chunk[p][have[p][j]].hash => i = j

\* With one chunk in play the server never believes more than the client has:
\* the beginning of a window is covered by what the receiver stored.
AckBacked ==
    \A p \in Peers : \A i \in DOMAIN uploads[p] :
        LET t == uploads[p][i]
        IN  \E r \in DOMAIN chunk[t.peer] :
              /\ chunk[t.peer][r].hash = chunk[p][t.c].hash
              /\ \A s \in 1..t.cctrl.begin : chunk[t.peer][r].data[s] # Unset

\* The chunks a peer owns, as the abstract specification sees them.
OwnedHashes(p) == {chunk[p][have[p][i]].hash : i \in DOMAIN have[p]}

Copies == INSTANCE Replication
            WITH Seed  <- [p \in Peers |-> {HasFile[p][l].hash : l \in DOMAIN HasFile[p]}],
                 owned <- [p \in Peers |-> OwnedHashes(p)]

\* The peers implement replication: the have lists change one hash at a time,
\* nothing is forgotten, and no chunk appears that no other peer could give.
Replicates == Copies!Spec

\* GOT is printed for the n-th GET of p's user, or a later GET took its place.
Answered(p, n) == request[p] > n \/ \E i \in DOMAIN got[p] : got[p][i].file = n

\* The user's last GET is answered: once typed, GOT is printed for it, whatever
\* datagrams were lost, duplicated or late, and whoever gave up on whom.
Served ==
    \A p \in Peers : \A n \in 1..Len(GetFiles[p]) : request[p] = n ~> Answered(p, n)

\* While the network loses nothing, the last GET is answered though GETs for a
\* chunk in flight are silently ignored.
ServedUnlessFaults ==
    \A p \in Peers : \A n \in 1..Len(GetFiles[p]) :
        request[p] = n ~> (Answered(p, n) \/ faults > 0)

------------------------------------------------------------------------------
(* What comments and documents say, and the code does not keep. *)

\* bt_server.c, receive_ACK: "Transfer complete chunk" is logged when the last
\* ACK arrives, so the receiver has the chunk by then.
CompleteMeansDelivered ==
    [][\A m \in BagToSet(net) : last_ACK(m) =>
          \A i \in node_find(UploadsTo(m.dst, m.src)) :
             \E r \in DOMAIN chunk[m.src] :
                /\ chunk[m.src][r].hash = chunk[m.dst][uploads[m.dst][i].c].hash
                /\ chunk_bits_all_received(chunk[m.src][r].data)]_vars
==============================================================================
