------------------------------- MODULE BtClient -------------------------------
(***************************************************************************)
(* bt_client.c: the downloading side of a peer.  IHAVE tells it who owns a *)
(* missing chunk, get_chunk_data opens transfers with available owners,    *)
(* DATA fills the chunk, and a chunk whose SHA-1 matches moves from        *)
(* missing to have.                                                        *)
(***************************************************************************)
EXTENDS PeerState

DownloadsFrom(p, q) == {i \in DOMAIN downloads[p] : downloads[p][i].peer = q}

------------------------------------------------------------------------------
(* The bits, bits_count and data of a chunk. *)

data_store(data, seq, block) == IF data[seq] = Unset THEN [data EXCEPT ![seq] = block] ELSE data

\* Mutant: the largest number received, gaps or not.
data_find_largest_consec_seq_Gaps(data) ==
    CHOOSE n \in 0..MAX_SEQ_NUM :
        /\ n = 0 \/ data[n] # Unset
        /\ \A s \in (n + 1)..MAX_SEQ_NUM : data[s] = Unset

\* The last of the sequence numbers received without a gap.
data_find_largest_consec_seq(data) ==
    CHOOSE n \in 0..MAX_SEQ_NUM :
        /\ \A s \in 1..n : data[s] # Unset
        /\ n < MAX_SEQ_NUM => data[n + 1] = Unset

chunk_bits_all_received(data) == \A s \in SeqNums : data[s] # Unset

\* Mutant: every complete chunk is taken for valid.
validate_chunk_Unchecked(data, hash) == TRUE

\* The SHA-1 of the data is the hash the chunk was asked for by.
validate_chunk(data, hash) == \A s \in SeqNums : data[s] = hash

------------------------------------------------------------------------------
(* get_chunk_data walks the missing list and gives each chunk that is not  *)
(* in flight to the first available peer of its list.  Its result is a     *)
(* function f from the positions of the list: the peer a GET goes to, or   *)
(* NoPeer.  heap, miss, down and avail are p's chunks, missing list,       *)
(* transfers and available peers at the time of the call.                  *)

\* Mutant: transfers of the same hash are not looked for.
InFlight_Ignored(heap, miss, down, f, i) == FALSE

\* Another transfer of the same hash: an old one, or one opened for an earlier
\* chunk of the list.
InFlight(heap, miss, down, f, i) ==
    \/ \E d \in DOMAIN down : heap[down[d].c].hash = heap[miss[i]].hash
    \/ \E j \in 1..(i - 1) : f[j] # NoPeer /\ heap[miss[j]].hash = heap[miss[i]].hash

\* Positions of the peers of the i-th chunk that no transfer has taken yet.
Candidates(heap, miss, avail, f, i) ==
    {k \in DOMAIN heap[miss[i]].peer :
        heap[miss[i]].peer[k] \in avail \ {f[j] : j \in 1..(i - 1)}}

find_first_available_peer(heap, miss, avail, f, i) ==
    {heap[miss[i]].peer[k] : k \in node_find(Candidates(heap, miss, avail, f, i))}

get_chunk_data(heap, miss, down, avail) ==
    {f \in [DOMAIN miss -> Peers \cup {NoPeer}] : \A i \in DOMAIN miss :
        IF InFlight(heap, miss, down, f, i) \/ Candidates(heap, miss, avail, f, i) = {}
          THEN f[i] = NoPeer
          ELSE f[i] \in find_first_available_peer(heap, miss, avail, f, i)}

Chosen(f) == {i \in DOMAIN f : f[i] # NoPeer}

\* The new transfers, each inserted at the head of the list.
NewDownloads(miss, f) ==
    Reverse(node_keep([i \in DOMAIN miss |->
                          [peer |-> f[i], c |-> miss[i], timeout_count |-> 0]], Chosen(f)))

send_GETs(p, heap, miss, f) == [i \in Chosen(f) |-> GET(p, f[i], heap[miss[i]].hash)]

\* init_data_transfer: f is what get_chunk_data decides, down and avail are
\* the transfers and available peers it starts from.
StartDownloads(p, miss, down, avail, f) ==
    /\ downloads' = [downloads EXCEPT ![p] = NewDownloads(miss, f) \o down]
    /\ available' = [available EXCEPT ![p] = avail \ {f[i] : i \in DOMAIN f}]

\* send_WHOHAS: the missing hashes, at most MAX_HASH_IN_PACKET to a packet, to
\* every other peer.
send_WHOHAS(p, heap, miss) ==
    LET Packet(k) == {i \in DOMAIN miss : (i - 1) \div MAX_HASH_IN_PACKET = k}
        Batches   == {(i - 1) \div MAX_HASH_IN_PACKET : i \in DOMAIN miss}
    IN  [b \in Batches \X Others(p) |->
            WHOHAS(p, b[2], {heap[miss[i]].hash : i \in Packet(b[1])})]

------------------------------------------------------------------------------
(* construct_data and check_all_received *)

\* The output file: chunks are written from the head of the wanted list on, so
\* the last one with an id stays.
construct_data(heap, want) ==
    [id \in {heap[want[k]].id : k \in DOMAIN want} |->
        LET k == CHOOSE k \in DOMAIN want :
                    /\ heap[want[k]].id = id
                    /\ \A j \in DOMAIN want : heap[want[j]].id = id => j <= k
        IN  heap[want[k]].data]

\* Mutant: the last missing chunk is overlooked.
check_all_received_OffByOne(p, n, heap, miss, want) ==
    IF Len(miss) <= 1
      THEN /\ got' = [got EXCEPT ![p] = Append(@, [file |-> n, data |-> construct_data(heap, want)])]
           /\ wanted' = [wanted EXCEPT ![p] = << >>]
      ELSE /\ got' = got
           /\ wanted' = [wanted EXCEPT ![p] = want]

\* The names of the last user GET, n, are announced and freed when nothing is
\* missing any more.
check_all_received(p, n, heap, miss, want) ==
    IF miss = << >>
      THEN /\ got' = [got EXCEPT ![p] = Append(@, [file |-> n, data |-> construct_data(heap, want)])]
           /\ wanted' = [wanted EXCEPT ![p] = << >>]
      ELSE /\ got' = got
           /\ wanted' = [wanted EXCEPT ![p] = want]

------------------------------------------------------------------------------

peer_exist_in_list(list, q) == q \in ToSet(list)

\* The sender is entered as an owner of the missing chunks it claims.
receive_IHAVE(m) ==
    LET p == m.dst
        q == m.src
        claimed == {r \in ToSet(missing[p]) : chunk[p][r].hash \in m.hashes}
        heap == [r \in DOMAIN chunk[p] |->
                    IF r \in claimed /\ ~peer_exist_in_list(chunk[p][r].peer, q)
                      THEN [chunk[p][r] EXCEPT !.peer = node_insert(@, q)]
                      ELSE chunk[p][r]]
    IN  /\ m.type = "IHAVE"
        /\ chunk' = [chunk EXCEPT ![p] = heap]
        /\ \E f \in get_chunk_data(heap, missing[p], downloads[p], available[p]) :
              /\ StartDownloads(p, missing[p], downloads[p], available[p], f)
              /\ Deliver(m, send_GETs(p, heap, missing[p], f))
        /\ UNCHANGED <<have, missing, wanted, uploads, userVars, faults>>

\* receive_DENIED ends the first transfer with the sender, without looking for
\* another peer.
stray_DENIED(m) ==
    /\ m.type = "DENIED"
    /\ DownloadsFrom(m.dst, m.src) = {}
    /\ Deliver(m, Nothing)
    /\ UNCHANGED <<chunkVars, transferVars, userVars, faults>>

drop_DENIED(m) ==
    /\ m.type = "DENIED"
    /\ \E i \in node_find(DownloadsFrom(m.dst, m.src)) :
          downloads' = [downloads EXCEPT ![m.dst] = node_delete(@, i)]
    /\ available' = [available EXCEPT ![m.dst] = @ \cup {m.src}]
    /\ Deliver(m, Nothing)
    /\ UNCHANGED <<chunkVars, uploads, userVars, faults>>

receive_DENIED(m) == stray_DENIED(m) \/ drop_DENIED(m)

------------------------------------------------------------------------------
(* receive_DATA: the packet goes to the chunk of the first transfer with   *)
(* the sender, whatever chunk it was cut from.                             *)

stray_DATA(m) ==
    /\ m.type = "DATA"
    /\ DownloadsFrom(m.dst, m.src) = {}
    /\ Deliver(m, Nothing)
    /\ UNCHANGED <<chunkVars, transferVars, userVars, faults>>

\* The chunk of the i-th transfer of m's receiver, after m is stored.
Stored(m, i) == data_store(chunk[m.dst][downloads[m.dst][i].c].data, m.seq, m.data)

AckFor(m, i) == ACK(m.dst, m.src, data_find_largest_consec_seq(Stored(m, i)))

\* The chunk is not complete yet.
store_DATA(m) ==
    /\ m.type = "DATA"
    /\ \E i \in node_find(DownloadsFrom(m.dst, m.src)) :
          /\ ~chunk_bits_all_received(Stored(m, i))
          /\ chunk' = [chunk EXCEPT ![m.dst][downloads[m.dst][i].c].data = Stored(m, i)]
          /\ Deliver(m, <<AckFor(m, i)>>)
    /\ UNCHANGED <<have, missing, wanted, transferVars, userVars, faults>>

\* Mutant: the finished transfer stays in the list.
NextDownloads_KeepsTransfer(m, i, heap, miss) ==
    /\ Deliver(m, <<AckFor(m, i)>>)
    /\ UNCHANGED <<downloads, available>>

\* Delete the i-th transfer and look for new ones.
NextDownloads(m, i, heap, miss) ==
    LET p == m.dst
        down == node_delete(downloads[p], i)
        avail == available[p] \cup {m.src}
    IN  \E f \in get_chunk_data(heap, miss, down, avail) :
            /\ StartDownloads(p, miss, down, avail, f)
            /\ net' = ((net (-) SetToBag({m})) (+) SetToBag({AckFor(m, i)}))
                          (+) ToBag(send_GETs(p, heap, miss, f))

\* The chunk is complete and valid: the first missing chunk of that hash is no
\* longer missing, and this one is owned.
complete_DATA(m) ==
    /\ m.type = "DATA"
    /\ \E i \in node_find(DownloadsFrom(m.dst, m.src)) :
          LET p == m.dst
              c == downloads[p][i].c
              heap == [chunk[p] EXCEPT ![c].data = Stored(m, i)]
              same == {j \in DOMAIN missing[p] : heap[missing[p][j]].hash = heap[c].hash}
          IN  /\ chunk_bits_all_received(Stored(m, i))
              /\ validate_chunk(Stored(m, i), chunk[p][c].hash)
              /\ chunk' = [chunk EXCEPT ![p] = heap]
              /\ IF same = {}
                   THEN UNCHANGED <<missing, have>>
                   ELSE /\ have' = [have EXCEPT ![p] = node_insert(@, c)]
                        /\ \E j \in node_find(same) :
                              missing' = [missing EXCEPT ![p] = node_delete(@, j)]
              /\ check_all_received(p, request[p], heap, missing'[p], wanted[p])
              /\ NextDownloads(m, i, heap, missing'[p])
    /\ UNCHANGED <<uploads, request, faults>>

\* The chunk is complete and its hash is wrong: it is emptied.
corrupt_DATA(m) ==
    /\ m.type = "DATA"
    /\ \E i \in node_find(DownloadsFrom(m.dst, m.src)) :
          LET p == m.dst
              c == downloads[p][i].c
              heap == [chunk[p] EXCEPT ![c].data = [s \in SeqNums |-> Unset]]
          IN  /\ chunk_bits_all_received(Stored(m, i))
              /\ ~validate_chunk(Stored(m, i), chunk[p][c].hash)
              /\ chunk' = [chunk EXCEPT ![p] = heap]
              /\ NextDownloads(m, i, heap, missing[p])
    /\ UNCHANGED <<have, missing, wanted, uploads, userVars, faults>>

receive_DATA(m) == stray_DATA(m) \/ store_DATA(m) \/ complete_DATA(m) \/ corrupt_DATA(m)

------------------------------------------------------------------------------
(* handle_client_timeout, for p's client with avail the peers available    *)
(* after the server side's timeouts.                                       *)

SurvivingDownloads(p) ==
    {i \in DOMAIN downloads[p] : downloads[p][i].timeout_count + 1 < MAX_TO_COUNTS}

DeadPeers(p) == {downloads[p][i].peer : i \in DOMAIN downloads[p] \ SurvivingDownloads(p)}

\* handle_transfer_dead: a dead peer leaves the lists of the missing chunks.
ForgetDeadPeers(p) ==
    [r \in DOMAIN chunk[p] |->
        IF r \in ToSet(missing[p])
          THEN [chunk[p][r] EXCEPT !.peer = node_keep(@, {k \in DOMAIN @ : @[k] \notin DeadPeers(p)})]
          ELSE chunk[p][r]]

\* A surviving transfer asks again: for the chunk, or for its next packet.
Resent(p) ==
    [i \in SurvivingDownloads(p) |->
        LET t == downloads[p][i]
            c == chunk[p][t.c]
        IN  IF \A s \in SeqNums : c.data[s] = Unset
              THEN GET(p, t.peer, c.hash)
              ELSE ACK(p, t.peer, data_find_largest_consec_seq(c.data))]

DownloadsAfterTimeout(p) ==
    node_keep([i \in DOMAIN downloads[p] |-> [downloads[p][i] EXCEPT !.timeout_count = @ + 1]],
              SurvivingDownloads(p))

\* Mutant: the two lengths are swapped.
UnclaimedChunks_Swapped(down, miss) == Len(down) > Len(miss)

\* Some missing chunk has no transfer.
UnclaimedChunks(down, miss) == Len(down) < Len(miss)

handle_client_timeout(p, avail) ==
    IF missing[p] = << >>
      THEN /\ available' = [available EXCEPT ![p] = avail]
           /\ UNCHANGED <<chunk, downloads, net>>
      ELSE LET heap == ForgetDeadPeers(p)
               down == DownloadsAfterTimeout(p)
               avail2 == avail \cup DeadPeers(p)
           IN  /\ chunk' = [chunk EXCEPT ![p] = heap]
               /\ \E f \in get_chunk_data(heap, missing[p], down, avail2) :
                    /\ StartDownloads(p, missing[p], down, avail2, f)
                    /\ net' = ((net (+) ToBag(Resent(p))) (+) ToBag(send_GETs(p, heap, missing[p], f)))
                                (+) IF UnclaimedChunks(downloads'[p], missing[p])
                                      THEN ToBag(send_WHOHAS(p, heap, missing[p]))
                                      ELSE EmptyBag
==============================================================================
