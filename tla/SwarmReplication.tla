--------------------------- MODULE SwarmReplication ---------------------------
(***************************************************************************)
(* Proof that the swarm implements Replication: a have list grows by one   *)
(* hash at a time, and only by a hash that another peer owns.              *)
(*                                                                         *)
(* That is not an invariant of the have lists alone.  A chunk passes       *)
(* validate_chunk when its packets are the data of its hash, so it has to  *)
(* be known that no packet and no half filled chunk, whatever transfer it  *)
(* was stored for, holds the data of a chunk that nobody owns.             *)
(***************************************************************************)
EXTENDS SwarmTransfers

\* The blocks there are copies of: the chunks that somebody owns.
Known == (UNION {OwnedHashes(p) : p \in Peers}) \cup {Zero, Unset}

Filled(heap, S) == \A r \in DOMAIN heap : \A s \in SeqNums : heap[r].data[s] \in S

DataFrom(packets, S) == \A x \in packets : x.type = "DATA" => x.data \in S

\* The inductive invariant: chunks and DATA packets hold only known blocks.
Sourced ==
    /\ \A p \in Peers : Filled(chunk[p], Known)
    /\ DataFrom(BagToSet(net), Known)

------------------------------------------------------------------------------
(* Ownership *)

\* Only complete_DATA inserts into a have list.
LEMMA HaveMoves ==
  ASSUME TypeOK, [Next]_vars, NEW p \in Peers
  PROVE  \/ have'[p] = have[p]
         \/ \E m \in BagToSet(net) : complete_DATA(m) /\ m.dst = p
<1>1. CASE have' = have  BY <1>1
<1>2. ASSUME NEW m \in BagToSet(net), complete_DATA(m)
      PROVE  have'[p] = have[p] \/ m.dst = p
  <2>1. process_inbound_udp(m)
    BY <1>2 DEF process_inbound_udp, receive_DATA
  <2> QED  BY <2>1, InboundLocal DEF Local
<1>3. \/ have' = have
      \/ \E m \in BagToSet(net) : complete_DATA(m)
  <2>1. ASSUME NEW m \in BagToSet(net), process_inbound_udp(m) PROVE have' = have \/ complete_DATA(m)
    BY <2>1, Zenon DEF process_inbound_udp, receive_WHOHAS, receive_GET, refuse_GET, ignore_GET,
       accept_GET, receive_ACK, stray_ACK, last_ACK, new_ACK, loss_ACK, old_ACK, Continue,
       receive_IHAVE, receive_DENIED, stray_DENIED, drop_DENIED,
       receive_DATA, stray_DATA, store_DATA, corrupt_DATA, chunkVars
  <2>2. ASSUME \/ \E m : Lose(m) \/ Duplicate(m)
               \/ \E q \in Peers : process_get(q) \/ handle_timeout(q)
               \/ UNCHANGED vars
        PROVE  have' = have
    BY <2>2, Zenon DEF Lose, Duplicate, process_get, handle_timeout, vars, chunkVars
  <2> QED  BY <2>1, <2>2, Zenon DEF Next, QuietTimeout, EarlyTimeout
<1> QED  BY <1>1, <1>2, <1>3

\* The pointers of a have list lie in the heap.
LEMMA HaveAt ==
  ASSUME TypeOK, NEW p \in Peers
  PROVE  /\ have[p] \in Seq(DOMAIN chunk[p])
         /\ \A i \in DOMAIN have[p] : have[p][i] \in DOMAIN chunk[p]
<1>1. have[p] \in Seq(DOMAIN chunk[p])
  BY Zenon DEF TypeOK, PeerOK
<1> QED  BY <1>1, LenProperties

\* The hashes owned through a list that is unchanged.
LEMMA OwnedSame ==
  ASSUME TypeOK, [Next]_vars, NEW p \in Peers, have'[p] = have[p]
  PROVE  OwnedHashes(p)' = OwnedHashes(p)
<1>1. \A i \in DOMAIN have[p] : chunk'[p][have[p][i]].hash = chunk[p][have[p][i]].hash
  BY HaveAt, HashesStep DEF HashKept
<1> QED  BY <1>1 DEF OwnedHashes

\* The hashes owned when a chunk is put at the head of the list.
LEMMA OwnedInsert ==
  ASSUME TypeOK, [Next]_vars, NEW p \in Peers, NEW c \in DOMAIN chunk[p],
         have'[p] = node_insert(have[p], c)
  PROVE  OwnedHashes(p)' = OwnedHashes(p) \cup {chunk[p][c].hash}
<1> DEFINE new == node_insert(have[p], c)
<1>1. have[p] \in Seq(DOMAIN chunk[p]) /\ \A i \in DOMAIN have[p] : have[p][i] \in DOMAIN chunk[p]
  BY HaveAt
<1>2. /\ DOMAIN new = 1..(Len(have[p]) + 1) /\ new[1] = c
      /\ \A i \in 2..(Len(have[p]) + 1) : new[i] = have[p][i - 1]
      /\ DOMAIN have[p] = 1..Len(have[p]) /\ Len(have[p]) \in Nat
  BY <1>1, LenProperties, ConcatProperties DEF node_insert
<1> HIDE DEF new
<1>3. \A i \in DOMAIN new : new[i] = c \/ \E j \in DOMAIN have[p] : new[i] = have[p][j]
  BY <1>2, SMTT(30)
<1>4. 1 \in DOMAIN new /\ \A j \in DOMAIN have[p] : j + 1 \in DOMAIN new /\ new[j + 1] = have[p][j]
  BY <1>2
<1>5. \A r \in DOMAIN chunk[p] : chunk'[p][r].hash = chunk[p][r].hash
  BY HashesStep DEF HashKept
<1>6. OwnedHashes(p)' = {chunk'[p][new[i]].hash : i \in DOMAIN new}
  BY DEF OwnedHashes, new
<1>7. ASSUME NEW i \in DOMAIN new PROVE chunk'[p][new[i]].hash \in OwnedHashes(p) \cup {chunk[p][c].hash}
  BY <1>1, <1>3, <1>5 DEF OwnedHashes
<1>8. ASSUME NEW j \in DOMAIN have[p] PROVE \E i \in DOMAIN new : chunk[p][have[p][j]].hash = chunk'[p][new[i]].hash
  BY <1>1, <1>4, <1>5
<1>9. chunk[p][c].hash = chunk'[p][new[1]].hash
  BY <1>2, <1>5
<1>10. OwnedHashes(p) = {chunk[p][have[p][j]].hash : j \in DOMAIN have[p]}
  BY DEF OwnedHashes
<1> QED  BY <1>4, <1>6, <1>7, <1>8, <1>9, <1>10

\* Nothing is forgotten.
LEMMA OwnedGrows ==
  ASSUME TypeOK, [Next]_vars, NEW p \in Peers
  PROVE  OwnedHashes(p) \subseteq OwnedHashes(p)'
<1>1. CASE have'[p] = have[p]
  BY <1>1, OwnedSame
<1>2. ASSUME NEW m \in BagToSet(net), complete_DATA(m), m.dst = p
      PROVE  OwnedHashes(p) \subseteq OwnedHashes(p)'
  <2>1. m \in Packets
    BY DEF TypeOK
  <2>2. PICK i \in node_find(DownloadsFrom(p, m.src)) : Completes(m, i)
    BY <1>2, <2>1, CompleteParts
  <2>3. Target(m, i) \in DOMAIN chunk[p]
    BY <1>2, <2>2, DownloadAt DEF Target
  <2>4. have' = have \/ have' = [have EXCEPT ![p] = node_insert(have[p], Target(m, i))]
    BY <1>2, <2>2, Zenon DEF Completes
  <2>5. have'[p] = have[p] \/ have'[p] = node_insert(have[p], Target(m, i))
    BY <2>4 DEF TypeOK
  <2> QED  BY <1>1, <2>3, <2>5, OwnedInsert
<1> QED  BY <1>1, <1>2, HaveMoves

\* So what is known stays known.
LEMMA KnownGrows ==
  ASSUME TypeOK, [Next]_vars
  PROVE  Known \subseteq Known'
<1> SUFFICES ASSUME NEW b \in Known PROVE b \in Known'
  OBVIOUS
<1>1. CASE b \in {Zero, Unset}
  BY <1>1 DEF Known
<1>2. CASE b \in UNION {OwnedHashes(p) : p \in Peers}
  <2>1. PICK p \in Peers : b \in OwnedHashes(p)
    BY <1>2
  <2>2. b \in OwnedHashes(p)'
    BY <2>1, OwnedGrows
  <2> QED  BY <2>2 DEF Known
<1> QED  BY <1>1, <1>2 DEF Known

------------------------------------------------------------------------------
(* Chunks hold known blocks. *)

\* Replacing the data of a chunk by known blocks.
LEMMA FilledData ==
  ASSUME NEW heap, HeapOK(heap), NEW c \in DOMAIN heap, NEW S, Filled(heap, S),
         NEW d, \A s \in SeqNums : d[s] \in S
  PROVE  Filled([heap EXCEPT ![c].data = d], S)
<1> DEFINE new == [heap EXCEPT ![c].data = d]
<1>1. DOMAIN new = DOMAIN heap
  BY DEF HeapOK
<1>2. ASSUME NEW r \in DOMAIN heap PROVE new[r].data = IF r = c THEN d ELSE heap[r].data
  BY Replaced
<1> HIDE DEF new
<1>3. ASSUME NEW r \in DOMAIN new, NEW s \in SeqNums PROVE new[r].data[s] \in S
  <2>1. CASE r = c  BY <1>1, <1>2, <2>1
  <2>2. CASE r # c  BY <1>1, <1>2, <2>2 DEF Filled
  <2> QED  BY <2>1, <2>2
<1> QED  BY <1>3 DEF Filled, new

\* Changing the owners or the id of a chunk leaves its data alone.
LEMMA FieldData ==
  ASSUME NEW c \in Chunk, NEW v
  PROVE  [c EXCEPT !.peer = v].data = c.data /\ [c EXCEPT !.id = v].data = c.data
  BY DEF Chunk

\* receive_IHAVE stores no data.
LEMMA IhaveData ==
  ASSUME TypeOK, NEW p \in Peers, NEW q, NEW H
  PROVE  /\ DOMAIN HeapAfterIhave(p, q, H) = DOMAIN chunk[p]
         /\ \A r \in DOMAIN chunk[p] : HeapAfterIhave(p, q, H)[r].data = chunk[p][r].data
<1> DEFINE new(r) == IF r \in {x \in ToSet(missing[p]) : chunk[p][x].hash \in H}
                          /\ ~peer_exist_in_list(chunk[p][r].peer, q)
                       THEN [chunk[p][r] EXCEPT !.peer = node_insert(chunk[p][r].peer, q)]
                       ELSE chunk[p][r]
<1>1. HeapAfterIhave(p, q, H) = [r \in DOMAIN chunk[p] |-> new(r)]
  BY Zenon DEF HeapAfterIhave
<1>2. ASSUME NEW r \in DOMAIN chunk[p] PROVE new(r).data = chunk[p][r].data
  <2>1. chunk[p][r] \in Chunk
    BY Zenon DEF TypeOK, PeerOK, HeapOK
  <2>2. [chunk[p][r] EXCEPT !.peer = node_insert(chunk[p][r].peer, q)].data = chunk[p][r].data
    BY <2>1, FieldData
  <2> QED  BY <2>2, Zenon
<1> HIDE DEF new
<1> QED  BY <1>1, <1>2

\* So known blocks stay.
LEMMA FilledIhave ==
  ASSUME TypeOK, NEW p \in Peers, NEW q, NEW H, NEW S, Filled(chunk[p], S)
  PROVE  Filled(HeapAfterIhave(p, q, H), S)
  BY IhaveData DEF Filled

\* The chunks that process_get creates are empty.
LEMMA GetData ==
  ASSUME TypeOK, NEW p \in Peers, NEW n, NEW lines
  PROVE  /\ DOMAIN chunk[p] \subseteq DOMAIN HeapAfterGet(p, n, lines)
         /\ \A r \in DOMAIN chunk[p] : HeapAfterGet(p, n, lines)[r].data = chunk[p][r].data
         /\ \A r \in DOMAIN HeapAfterGet(p, n, lines) \ DOMAIN chunk[p] : \A s \in SeqNums :
               HeapAfterGet(p, n, lines)[r].data[s] = Unset
<1> DEFINE LinesOf(x) == {l \in DOMAIN lines : ChunkOfLine(p, n, lines, l) = x}
           NewId(x) == lines[CHOOSE l \in LinesOf(x) : \A k \in LinesOf(x) : k <= l].id
           fresh(x) == create_chunk(lines[x[2]].id, lines[x[2]].hash)
           Base(x) == IF x \in DOMAIN chunk[p] THEN chunk[p][x] ELSE fresh(x)
           D == DOMAIN chunk[p] \cup {<<n, l>> : l \in AbsentLines(p, lines)}
           new(x) == IF LinesOf(x) = {} THEN Base(x) ELSE [Base(x) EXCEPT !.id = NewId(x)]
<1>1. HeapAfterGet(p, n, lines) = [x \in D |-> new(x)]
  BY Zenon DEF HeapAfterGet
<1>2. ASSUME NEW r \in DOMAIN chunk[p] PROVE new(r).data = chunk[p][r].data
  <2>1. chunk[p][r] \in Chunk
    BY Zenon DEF TypeOK, PeerOK, HeapOK
  <2>2. Base(r) = chunk[p][r]
    OBVIOUS
  <2> HIDE DEF LinesOf, NewId, Base
  <2>3. [Base(r) EXCEPT !.id = NewId(r)].data = chunk[p][r].data
    BY <2>1, <2>2, FieldData
  <2> QED  BY <2>2, <2>3, Zenon
<1>3. ASSUME NEW r, r \notin DOMAIN chunk[p], NEW s \in SeqNums PROVE new(r).data[s] = Unset
  <2>1. Base(r) = fresh(r)
    BY <1>3
  <2> HIDE DEF LinesOf, NewId, Base
  <2>2. ASSUME NEW v PROVE [fresh(r) EXCEPT !.id = v].data = fresh(r).data
    BY DEF create_chunk
  <2>3. fresh(r).data[s] = Unset
    BY DEF create_chunk
  <2> HIDE DEF fresh
  <2>4. new(r).data = fresh(r).data
    BY <2>1, <2>2, Zenon
  <2> QED  BY <2>3, <2>4
<1>4. DOMAIN chunk[p] \subseteq D
  OBVIOUS
<1> HIDE DEF D, new
<1> QED  BY <1>1, <1>2, <1>3, <1>4

\* Empty chunks hold only Unset.
LEMMA FilledGet ==
  ASSUME TypeOK, NEW p \in Peers, NEW n, NEW lines, NEW S, Filled(chunk[p], S), Unset \in S
  PROVE  Filled(HeapAfterGet(p, n, lines), S)
<1> DEFINE heap == HeapAfterGet(p, n, lines)
<1>1. /\ \A r \in DOMAIN chunk[p] : heap[r].data = chunk[p][r].data
      /\ \A r \in DOMAIN heap \ DOMAIN chunk[p] : \A s \in SeqNums : heap[r].data[s] = Unset
  BY GetData
<1> HIDE DEF heap
<1>2. Filled(heap, S)
  BY <1>1 DEF Filled
<1> QED  BY <1>2 DEF heap

\* A timeout stores no data.
LEMMA ForgetData ==
  ASSUME TypeOK, NEW p \in Peers
  PROVE  /\ DOMAIN ForgetDeadPeers(p) = DOMAIN chunk[p]
         /\ \A r \in DOMAIN chunk[p] : ForgetDeadPeers(p)[r].data = chunk[p][r].data
<1> DEFINE rest(r) == node_keep(chunk[p][r].peer,
                        {k \in DOMAIN chunk[p][r].peer : chunk[p][r].peer[k] \notin DeadPeers(p)})
           new(r) == IF r \in ToSet(missing[p]) THEN [chunk[p][r] EXCEPT !.peer = rest(r)]
                                                ELSE chunk[p][r]
<1>1. ForgetDeadPeers(p) = [r \in DOMAIN chunk[p] |-> new(r)]
  BY Zenon DEF ForgetDeadPeers
<1>2. ASSUME NEW r \in DOMAIN chunk[p] PROVE new(r).data = chunk[p][r].data
  <2>1. chunk[p][r] \in Chunk
    BY Zenon DEF TypeOK, PeerOK, HeapOK
  <2> HIDE DEF rest
  <2>2. [chunk[p][r] EXCEPT !.peer = rest(r)].data = chunk[p][r].data
    BY <2>1, FieldData
  <2> QED  BY <2>2, Zenon
<1> HIDE DEF new
<1> QED  BY <1>1, <1>2

\* Known blocks stay.
LEMMA FilledForget ==
  ASSUME TypeOK, NEW p \in Peers, NEW S, Filled(chunk[p], S)
  PROVE  Filled(ForgetDeadPeers(p), S)
  BY ForgetData DEF Filled

\* A packet is stored with what was stored before.
LEMMA StoredBlocks ==
  ASSUME TypeOK, NEW m \in Packets, m.type = "DATA", NEW S, m.data \in S,
         NEW i \in node_find(DownloadsFrom(m.dst, m.src)), Filled(chunk[m.dst], S)
  PROVE  \A s \in SeqNums : Stored(m, i)[s] \in S
<1> DEFINE c == downloads[m.dst][i].c
           data == chunk[m.dst][c].data
<1>1. m.dst \in Peers /\ m.seq \in SeqNums
  BY PacketFields
<1>2. c \in DOMAIN chunk[m.dst] /\ chunk[m.dst][c] \in Chunk
  BY <1>1, DownloadAt
<1>3. data \in [SeqNums -> Blocks] /\ \A s \in SeqNums : data[s] \in S
  BY <1>2 DEF Chunk, Filled
<1>4. Stored(m, i) = data_store(data, m.seq, m.data)
  BY DEF Stored
<1> HIDE DEF data
<1> QED  BY <1>1, <1>3, <1>4 DEF data_store

\* Every step fills chunks with known blocks.
LEMMA FilledStep ==
  ASSUME TypeOK, Sourced, [Next]_vars, NEW q \in Peers
  PROVE  Filled(chunk'[q], Known)
<1>1. Filled(chunk[q], Known) /\ Unset \in Known
  BY DEF Sourced, Known
<1>2. ASSUME chunk'[q] = chunk[q] PROVE Filled(chunk'[q], Known)
  BY <1>1, <1>2
<1>3. ASSUME NEW m \in BagToSet(net), process_inbound_udp(m) PROVE Filled(chunk'[q], Known)
  <2>1. m \in Packets
    BY DEF TypeOK
  <2>2. CASE q # m.dst
    BY <1>2, <1>3, <2>2, InboundLocal DEF Local
  <2>3. CASE q = m.dst
    <3>1. ASSUME NEW x, chunk' = [chunk EXCEPT ![q] = x], Filled(x, Known) PROVE Filled(chunk'[q], Known)
      BY <3>1 DEF TypeOK
    <3>2. HeapOK(chunk[q])
      BY ListsAt
    <3>3. ASSUME NEW i \in node_find(DownloadsFrom(q, m.src)), NEW d, \A s \in SeqNums : d[s] \in Known
          PROVE  Filled([chunk[q] EXCEPT ![downloads[q][i].c].data = d], Known)
      <4>1. downloads[q][i].c \in DOMAIN chunk[q]
        BY DownloadAt
      <4> QED  BY <1>1, <3>2, <3>3, <4>1, FilledData
    <3>4. CASE receive_IHAVE(m)
      <4>1. chunk' = [chunk EXCEPT ![q] = HeapAfterIhave(q, m.src, m.hashes)]
        BY <2>3, <3>4, Zenon DEF receive_IHAVE, HeapAfterIhave
      <4> QED  BY <1>1, <3>1, <4>1, FilledIhave
    <3>5. ASSUME m.type = "DATA", NEW i \in node_find(DownloadsFrom(q, m.src)),
                 chunk' = [chunk EXCEPT ![q] = [chunk[q] EXCEPT ![downloads[q][i].c].data = Stored(m, i)]]
          PROVE  Filled(chunk'[q], Known)
      <4>1. m.data \in Known
        BY <3>5 DEF Sourced, DataFrom
      <4>2. \A s \in SeqNums : Stored(m, i)[s] \in Known
        BY <1>1, <2>1, <2>3, <3>5, <4>1, StoredBlocks
      <4> QED  BY <3>1, <3>3, <3>5, <4>2
    <3>6. CASE store_DATA(m)
      BY <2>3, <3>5, <3>6, Zenon DEF store_DATA
    <3>7. CASE complete_DATA(m)
      BY <2>3, <3>5, <3>7, Zenon DEF complete_DATA
    <3>8. CASE corrupt_DATA(m)
      <4> DEFINE none == [s \in SeqNums |-> Unset]
      <4>1. PICK i \in node_find(DownloadsFrom(q, m.src)) :
               chunk' = [chunk EXCEPT ![q] = [chunk[q] EXCEPT ![downloads[q][i].c].data = none]]
        BY <2>3, <3>8, Zenon DEF corrupt_DATA
      <4>2. \A s \in SeqNums : none[s] \in Known
        BY <1>1
      <4> HIDE DEF none
      <4> QED  BY <3>1, <3>3, <4>1, <4>2
    <3>9. chunk' = chunk \/ receive_IHAVE(m) \/ store_DATA(m) \/ complete_DATA(m) \/ corrupt_DATA(m)
      BY <1>3, Zenon DEF process_inbound_udp, receive_WHOHAS, receive_GET, refuse_GET, ignore_GET,
         accept_GET, receive_ACK, stray_ACK, last_ACK, new_ACK, loss_ACK, old_ACK, Continue,
         receive_DENIED, stray_DENIED, drop_DENIED, receive_DATA, stray_DATA, chunkVars
    <3> QED  BY <1>2, <3>4, <3>6, <3>7, <3>8, <3>9
  <2> QED  BY <2>2, <2>3
<1>4. ASSUME NEW p \in Peers, process_get(p) PROVE Filled(chunk'[q], Known)
  <2>1. CASE q # p
    BY <1>2, <1>4, <2>1, GetLocal DEF Local
  <2>2. CASE q = p
    <3> DEFINE n == request[p] + 1
               heap == HeapAfterGet(p, n, GetFiles[p][n])
    <3>1. chunk' = [chunk EXCEPT ![p] = heap]
      BY <1>4, Zenon DEF process_get
    <3>2. Filled(heap, Known)
      BY <1>1, <2>2, FilledGet
    <3> HIDE DEF heap
    <3>3. chunk'[p] = heap
      BY <3>1 DEF TypeOK
    <3> QED  BY <2>2, <3>2, <3>3
  <2> QED  BY <2>1, <2>2
<1>5. ASSUME NEW p \in Peers, handle_timeout(p) PROVE Filled(chunk'[q], Known)
  <2>1. chunk' = chunk \/ chunk' = [chunk EXCEPT ![p] = ForgetDeadPeers(p)]
    BY <1>5, Zenon DEF handle_timeout, handle_client_timeout
  <2>2. chunk'[q] = chunk[q] \/ (q = p /\ chunk'[q] = ForgetDeadPeers(q))
    BY <2>1 DEF TypeOK
  <2> QED  BY <1>1, <1>2, <2>2, FilledForget
<1>6. ASSUME (\E m : Lose(m) \/ Duplicate(m)) \/ UNCHANGED vars PROVE Filled(chunk'[q], Known)
  <2>1. chunk' = chunk
    BY <1>6, Zenon DEF Lose, Duplicate, vars, chunkVars
  <2> QED  BY <1>2, <2>1
<1> QED  BY <1>3, <1>4, <1>5, <1>6, Zenon DEF Next, QuietTimeout, EarlyTimeout

------------------------------------------------------------------------------
(* Packets hold known blocks. *)

\* Sending more packets.
LEMMA DataPlus ==
  ASSUME NEW B, NEW C, NEW S, DataFrom(BagToSet(B), S), DataFrom(BagToSet(C), S)
  PROVE  DataFrom(BagToSet(B (+) C), S)
<1>1. BagToSet(B (+) C) = BagToSet(B) \cup BagToSet(C)
  BY BagPlus, Zenon
<1> QED  BY <1>1 DEF DataFrom

\* A family of packets.
LEMMA DataFamily ==
  ASSUME NEW out, NEW S, \A i \in DOMAIN out : out[i].type = "DATA" => out[i].data \in S
  PROVE  DataFrom(BagToSet(ToBag(out)), S)
<1>1. BagToSet(ToBag(out)) = {out[i] : i \in DOMAIN out}
  BY BagOf, Zenon
<1> QED  BY <1>1 DEF DataFrom

\* What a handler sends.
LEMMA DataDeliver ==
  ASSUME NEW m, NEW out, NEW S, Deliver(m, out), DataFrom(BagToSet(net), S),
         \A i \in DOMAIN out : out[i].type = "DATA" => out[i].data \in S
  PROVE  DataFrom(BagToSet(net'), S)
<1>1. net' = (net (-) SetToBag({m})) (+) ToBag(out)
  BY DEF Deliver
<1>2. DataFrom(BagToSet(net (-) SetToBag({m})), S)
  BY BagMinus DEF DataFrom
<1>3. DataFrom(BagToSet(ToBag(out)), S)
  BY DataFamily
<1> QED  BY <1>1, <1>2, <1>3, DataPlus, Zenon

\* The packets that are not DATA.
LEMMA OtherPackets ==
  /\ \A p, q, x : /\ WHOHAS(p, q, x).type # "DATA" /\ IHAVE(p, q, x).type # "DATA"
                  /\ GET(p, q, x).type # "DATA" /\ ACK(p, q, x).type # "DATA"
                  /\ DENIED(p, q).type # "DATA"
  /\ \A p, heap, miss, f : \A i \in DOMAIN send_GETs(p, heap, miss, f) :
        send_GETs(p, heap, miss, f)[i].type # "DATA"
  /\ \A p, heap, miss : \A b \in DOMAIN send_WHOHAS(p, heap, miss) :
        send_WHOHAS(p, heap, miss)[b].type # "DATA"
  /\ \A p : \A i \in DOMAIN Resent(p) : Resent(p)[i].type # "DATA"
  /\ \A m, i : AckFor(m, i).type # "DATA"
<1>1. \A p, q, x : /\ WHOHAS(p, q, x).type # "DATA" /\ IHAVE(p, q, x).type # "DATA"
                   /\ GET(p, q, x).type # "DATA" /\ ACK(p, q, x).type # "DATA"
                   /\ DENIED(p, q).type # "DATA"
  BY DEF WHOHAS, IHAVE, GET, ACK, DENIED
<1>2. \A p, heap, miss, f : \A i \in DOMAIN send_GETs(p, heap, miss, f) :
        send_GETs(p, heap, miss, f)[i].type # "DATA"
  BY <1>1, Zenon DEF send_GETs
<1>3. \A p, heap, miss : \A b \in DOMAIN send_WHOHAS(p, heap, miss) :
        send_WHOHAS(p, heap, miss)[b].type # "DATA"
  <2> SUFFICES ASSUME NEW p, NEW heap, NEW miss, NEW b \in DOMAIN send_WHOHAS(p, heap, miss)
               PROVE  send_WHOHAS(p, heap, miss)[b].type # "DATA"
    BY Zenon
  <2> DEFINE hashes == {heap[miss[i]].hash : i \in {j \in DOMAIN miss : (j - 1) \div MAX_HASH_IN_PACKET = b[1]}}
  <2>1. send_WHOHAS(p, heap, miss)[b] = WHOHAS(p, b[2], hashes)
    BY Zenon DEF send_WHOHAS
  <2> QED  BY <1>1, <2>1, Zenon
<1>4. \A p : \A i \in DOMAIN Resent(p) : Resent(p)[i].type # "DATA"
  BY <1>1, Zenon DEF Resent
<1>5. \A m, i : AckFor(m, i).type # "DATA"
  BY <1>1, Zenon DEF AckFor
<1> QED  BY <1>1, <1>2, <1>3, <1>4, <1>5

\* send_DATA sends what is in the chunk.
LEMMA SentBlocks ==
  ASSUME NEW p, NEW q, NEW c \in DOMAIN chunk[p], NEW k \in CongestCtrl, NEW S, Filled(chunk[p], S)
  PROVE  \A s \in DOMAIN send_DATA(p, q, c, k) : send_DATA(p, q, c, k)[s].data \in S
<1>1. DOMAIN send_DATA(p, q, c, k) \subseteq SeqNums
  BY Sending DEF send_DATA
<1>2. \A s \in DOMAIN send_DATA(p, q, c, k) :
         send_DATA(p, q, c, k)[s] = DATA(p, q, s, chunk[p][c].data[s])
  BY DEF send_DATA
<1>3. \A s : DATA(p, q, s, chunk[p][c].data[s]).data = chunk[p][c].data[s]
  BY DEF DATA
<1> QED  BY <1>1, <1>2, <1>3, Zenon DEF Filled

\* The packets sent when transfers start after the end of one.
LEMMA NextData ==
  ASSUME NEW m, NEW i, NEW heap, NEW miss, NextDownloads(m, i, heap, miss),
         NEW S, DataFrom(BagToSet(net), S)
  PROVE  DataFrom(BagToSet(net'), S)
<1>1. PICK f : net' = ((net (-) SetToBag({m})) (+) SetToBag({AckFor(m, i)}))
                          (+) ToBag(send_GETs(m.dst, heap, miss, f))
  BY Zenon DEF NextDownloads
<1>2. DataFrom(BagToSet(net (-) SetToBag({m})), S)
  BY BagMinus DEF DataFrom
<1>3. DataFrom(BagToSet(SetToBag({AckFor(m, i)})), S)
  <2>1. BagToSet(SetToBag({AckFor(m, i)})) = {AckFor(m, i)}
    BY BagSingle
  <2> QED  BY <2>1, OtherPackets, Zenon DEF DataFrom
<1>4. DataFrom(BagToSet(ToBag(send_GETs(m.dst, heap, miss, f))), S)
  BY OtherPackets, DataFamily
<1> QED  BY <1>1, <1>2, <1>3, <1>4, DataPlus, Zenon

\* The packets sent by receive_GET and receive_ACK.
LEMMA ServerData ==
  ASSUME TypeOK, NEW m \in Packets, receive_GET(m) \/ receive_ACK(m),
         NEW S, DataFrom(BagToSet(net), S), Filled(chunk[m.dst], S)
  PROVE  DataFrom(BagToSet(net'), S)
<1> DEFINE p == m.dst
<1>1. p \in Peers
  BY PacketFields
<1>2. ASSUME Deliver(m, Nothing) PROVE DataFrom(BagToSet(net'), S)
  BY <1>2, DataDeliver DEF Nothing
<1>3. ASSUME NEW c \in DOMAIN chunk[p], NEW k \in CongestCtrl, Deliver(m, send_DATA(p, m.src, c, k))
      PROVE  DataFrom(BagToSet(net'), S)
  <2>1. \A s \in DOMAIN send_DATA(p, m.src, c, k) : send_DATA(p, m.src, c, k)[s].data \in S
    BY SentBlocks
  <2> QED  BY <1>3, <2>1, DataDeliver
<1>4. CASE refuse_GET(m)
  <2>1. Deliver(m, <<DENIED(p, m.src)>>)
    BY <1>4, Zenon DEF refuse_GET
  <2>2. \A i \in DOMAIN <<DENIED(p, m.src)>> : <<DENIED(p, m.src)>>[i].type # "DATA"
    BY OtherPackets
  <2> QED  BY <2>1, <2>2, DataDeliver
<1>5. CASE accept_GET(m)
  <2>1. PICK i \in node_find(Owned(p, m.hash)) : Deliver(m, send_DATA(p, m.src, have[p][i], NewCongestCtrl))
    BY <1>5, Zenon DEF accept_GET
  <2>2. have[p][i] \in DOMAIN chunk[p]
    BY <1>1, <2>1, HaveAt, NodeFind DEF Owned
  <2> QED  BY <1>3, <2>1, <2>2, NewCtrl
<1>6. ASSUME NEW i \in node_find(UploadsTo(p, m.src)), NEW k \in CongestCtrl, Continue(m, i, k)
      PROVE  DataFrom(BagToSet(net'), S)
  <2>1. uploads[p][i].c \in DOMAIN chunk[p]
    BY <1>1, <1>6, FoundUpload, UploadAt
  <2>2. Deliver(m, send_DATA(p, m.src, uploads[p][i].c, k))
    BY <1>6, Zenon DEF Continue
  <2> QED  BY <1>3, <1>6, <2>1, <2>2
<1>7. CASE new_ACK(m)
  <2>1. PICK i \in node_find(UploadsTo(p, m.src)) :
         \E k2 \in congestion_control(adjust_window(uploads[p][i].cctrl, m.ack)) : Continue(m, i, k2)
    BY <1>7, Zenon DEF new_ACK
  <2>2. PICK k2 \in congestion_control(adjust_window(uploads[p][i].cctrl, m.ack)) : Continue(m, i, k2)
    BY <2>1
  <2>3. uploads[p][i].cctrl \in CongestCtrl /\ m.ack \in 0..MAX_SEQ_NUM
    BY <1>1, <1>7, FoundUpload, UploadAt, PacketFields DEF new_ACK
  <2>4. k2 \in CongestCtrl
    BY <2>2, <2>3, MoveWindow, Growth, Zenon
  <2> QED  BY <1>6, <2>2, <2>4
<1>8. CASE loss_ACK(m)
  <2>1. PICK i \in node_find(UploadsTo(p, m.src)) :
         Continue(m, i, detected_first_loss([uploads[p][i].cctrl EXCEPT
                                               !.index = uploads[p][i].cctrl.begin]))
    BY <1>8, Zenon DEF loss_ACK
  <2>2. uploads[p][i].cctrl \in CongestCtrl
    BY <1>1, FoundUpload, UploadAt
  <2>3. [uploads[p][i].cctrl EXCEPT !.index = uploads[p][i].cctrl.begin] \in CongestCtrl
    BY <2>2 DEF CongestCtrl
  <2> QED  BY <1>6, <2>1, <2>3, Loss, Zenon
<1>9. CASE ignore_GET(m) \/ stray_ACK(m) \/ last_ACK(m) \/ old_ACK(m)
  BY <1>2, <1>9, Zenon DEF ignore_GET, stray_ACK, last_ACK, old_ACK
<1> QED  BY <1>4, <1>5, <1>7, <1>8, <1>9, Zenon DEF receive_GET, receive_ACK

\* Every step leaves only packets of known blocks in flight.
LEMMA DataStep ==
  ASSUME TypeOK, Sourced, [Next]_vars
  PROVE  DataFrom(BagToSet(net'), Known)
<1>1. DataFrom(BagToSet(net), Known)
  BY DEF Sourced
<1>2. ASSUME NEW m \in BagToSet(net), process_inbound_udp(m) PROVE DataFrom(BagToSet(net'), Known)
  <2>1. m \in Packets /\ Filled(chunk[m.dst], Known)
    BY PacketFields DEF TypeOK, Sourced
  <2>2. ASSUME NEW x, x.type # "DATA", Deliver(m, <<x>>) PROVE DataFrom(BagToSet(net'), Known)
    <3>1. \A i \in DOMAIN <<x>> : <<x>>[i].type = "DATA" => <<x>>[i].data \in Known
      BY <2>2
    <3> QED  BY <1>1, <2>2, <3>1, DataDeliver
  <2>3. ASSUME Deliver(m, Nothing) PROVE DataFrom(BagToSet(net'), Known)
    BY <1>1, <2>3, DataDeliver DEF Nothing
  <2>4. CASE receive_WHOHAS(m)
    BY <2>2, <2>4, OtherPackets, Zenon DEF receive_WHOHAS
  <2>5. CASE receive_GET(m) \/ receive_ACK(m)
    BY <1>1, <2>1, <2>5, ServerData
  <2>6. CASE receive_IHAVE(m)
    <3>1. PICK heap, f : Deliver(m, send_GETs(m.dst, heap, missing[m.dst], f))
      BY <2>6, Zenon DEF receive_IHAVE
    <3> QED  BY <1>1, <3>1, OtherPackets, DataDeliver
  <2>7. CASE receive_DENIED(m)
    BY <2>3, <2>7, Zenon DEF receive_DENIED, stray_DENIED, drop_DENIED
  <2>8. CASE receive_DATA(m)
    <3>1. CASE stray_DATA(m)
      BY <2>3, <3>1, Zenon DEF stray_DATA
    <3>2. CASE store_DATA(m)
      BY <2>2, <3>2, OtherPackets, Zenon DEF store_DATA
    <3>3. CASE complete_DATA(m)
      <4>1. PICK i : Completes(m, i)
        BY <2>1, <3>3, CompleteParts
      <4> QED  BY <1>1, <4>1, NextData, Zenon DEF Completes
    <3>4. CASE corrupt_DATA(m)
      <4>1. PICK i, heap : NextDownloads(m, i, heap, missing[m.dst])
        BY <3>4, Zenon DEF corrupt_DATA
      <4> QED  BY <1>1, <4>1, NextData, Zenon
    <3> QED  BY <2>8, <3>1, <3>2, <3>3, <3>4 DEF receive_DATA
  <2> QED  BY <1>2, <2>4, <2>5, <2>6, <2>7, <2>8 DEF process_inbound_udp
<1>3. ASSUME NEW m, Lose(m) PROVE DataFrom(BagToSet(net'), Known)
  BY <1>1, <1>3, DataDeliver DEF Lose, Nothing
<1>4. ASSUME NEW m \in BagToSet(net), Duplicate(m) PROVE DataFrom(BagToSet(net'), Known)
  <2>1. BagToSet(SetToBag({m})) = {m} /\ net' = net (+) SetToBag({m})
    BY <1>4, BagSingle DEF Duplicate
  <2>2. DataFrom(BagToSet(SetToBag({m})), Known)
    BY <1>1, <2>1 DEF DataFrom
  <2> QED  BY <1>1, <2>1, <2>2, DataPlus, Zenon
<1>5. ASSUME NEW p, NEW heap, NEW miss PROVE DataFrom(BagToSet(ToBag(send_WHOHAS(p, heap, miss))), Known)
  BY OtherPackets, DataFamily
<1>6. ASSUME NEW p \in Peers, process_get(p) PROVE DataFrom(BagToSet(net'), Known)
  <2>1. PICK heap, miss : net' = net (+) ToBag(send_WHOHAS(p, heap, miss))
    BY <1>6, Zenon DEF process_get
  <2> QED  BY <1>1, <1>5, <2>1, DataPlus, Zenon
<1>7. ASSUME NEW p \in Peers, handle_timeout(p) PROVE DataFrom(BagToSet(net'), Known)
  <2>1. CASE net' = net
    BY <1>1, <2>1
  <2>2. ASSUME NEW heap, NEW f, NEW C,
               net' = ((net (+) ToBag(Resent(p))) (+) ToBag(send_GETs(p, heap, missing[p], f))) (+) C,
               C = EmptyBag \/ C = ToBag(send_WHOHAS(p, heap, missing[p]))
        PROVE  DataFrom(BagToSet(net'), Known)
    <3>1. DataFrom(BagToSet(ToBag(Resent(p))), Known)
      BY OtherPackets, DataFamily
    <3>2. DataFrom(BagToSet(ToBag(send_GETs(p, heap, missing[p], f))), Known)
      BY OtherPackets, DataFamily
    <3>3. DataFrom(BagToSet(C), Known)
      <4>1. BagToSet(EmptyBag) = {}
        BY DEF EmptyBag, BagToSet, SetToBag
      <4> QED  BY <1>5, <2>2, <4>1 DEF DataFrom
    <3> QED  BY <1>1, <2>2, <3>1, <3>2, <3>3, DataPlus, Zenon
  <2>3. \/ net' = net
        \/ \E heap, f, C :
              /\ net' = ((net (+) ToBag(Resent(p))) (+) ToBag(send_GETs(p, heap, missing[p], f))) (+) C
              /\ C = EmptyBag \/ C = ToBag(send_WHOHAS(p, heap, missing[p]))
    BY <1>7, Zenon DEF handle_timeout, handle_client_timeout
  <2> QED  BY <2>1, <2>2, <2>3
<1>8. CASE UNCHANGED vars
  <2>1. net' = net
    BY <1>8 DEF vars
  <2> QED  BY <1>1, <2>1
<1> QED
  BY <1>2, <1>3, <1>4, <1>6, <1>7, <1>8, Zenon DEF Next, QuietTimeout, EarlyTimeout

------------------------------------------------------------------------------
(* The invariant, and the refinement. *)

\* A known block stays known, so every step keeps the invariant.
LEMMA SourcedStep == TypeOK /\ Sourced /\ [Next]_vars => Sourced'
<1> SUFFICES ASSUME TypeOK, Sourced, [Next]_vars PROVE Sourced'
  OBVIOUS
<1>1. Known \subseteq Known'
  BY KnownGrows
<1>2. ASSUME NEW p \in Peers PROVE Filled(chunk'[p], Known')
  <2>1. Filled(chunk'[p], Known)
    BY FilledStep
  <2> QED  BY <1>1, <2>1 DEF Filled
<1>3. DataFrom(BagToSet(net'), Known')
  BY <1>1, DataStep DEF DataFrom
<1>4. Sourced' = (/\ \A p \in Peers : Filled(chunk'[p], Known')
                  /\ DataFrom(BagToSet(net'), Known'))
  BY DEF Sourced, Filled, DataFrom
<1> QED  BY <1>2, <1>3, <1>4

\* At the start a peer owns the hashes of its has-chunk file.
LEMMA OwnedInit ==
  ASSUME Init, NEW p \in Peers
  PROVE  OwnedHashes(p) = {HasFile[p][l].hash : l \in DOMAIN HasFile[p]}
<1> DEFINE D == {<<0, l>> : l \in DOMAIN HasFile[p]}
           list == [l \in DOMAIN HasFile[p] |-> <<0, l>>]
<1>1. HasFile[p] \in Seq(Line) /\ have[p] = Reverse(list)
  BY PeerAssumption DEF Init, parse_chunkfile
<1>2. list \in [DOMAIN HasFile[p] -> D]
  OBVIOUS
<1>3. \A l \in DOMAIN HasFile[p] : list[l] = <<0, l>>
  OBVIOUS
<1> HIDE DEF list, D
<1>4. list \in Seq(D) /\ DOMAIN list = DOMAIN HasFile[p]
  BY <1>1, <1>2, FunctionSeq
<1>5. PICK g : Picks(g, have[p], list, DOMAIN HasFile[p])
  BY <1>1, <1>4, ReverseSelects DEF Selects
<1>6. ASSUME NEW l \in DOMAIN HasFile[p] PROVE chunk[p][<<0, l>>].hash = HasFile[p][l].hash
  <2> DEFINE c == create_chunk(HasFile[p][l].id, HasFile[p][l].hash)
  <2>1. chunk[p][<<0, l>>] = LoadedChunk(HasFile[p][l])
    BY DEF Init
  <2>2. LoadedChunk(HasFile[p][l]) =
          [c EXCEPT !.data = [s \in SeqNums |-> read_chunk_data_file_by_id(c.id)]]
    BY Zenon DEF LoadedChunk
  <2>3. c \in Chunk /\ c.hash = HasFile[p][l].hash
    BY <1>1, LineAt, CreateType DEF create_chunk
  <2> HIDE DEF c
  <2>4. \A d : [c EXCEPT !.data = d].hash = c.hash
    BY <2>3 DEF Chunk
  <2> QED  BY <2>1, <2>2, <2>3, <2>4
<1>7. ASSUME NEW i \in DOMAIN have[p]
      PROVE  g[i] \in DOMAIN HasFile[p] /\ chunk[p][have[p][i]].hash = HasFile[p][g[i]].hash
  <2>1. g[i] \in DOMAIN HasFile[p] /\ have[p][i] = list[g[i]]
    BY <1>5 DEF Picks
  <2> QED  BY <1>3, <1>6, <2>1
<1>8. ASSUME NEW l \in DOMAIN HasFile[p]
      PROVE  \E i \in DOMAIN have[p] : HasFile[p][l].hash = chunk[p][have[p][i]].hash
  <2>1. PICK i \in DOMAIN have[p] : g[i] = l
    BY <1>5 DEF Picks
  <2> QED  BY <1>7, <2>1
<1> QED  BY <1>7, <1>8 DEF OwnedHashes

\* When the has-chunk files describe the master file, only owned data is loaded.
LEMMA SourcedInit == FilesAgree /\ Init => Sourced
<1> SUFFICES ASSUME FilesAgree, Init PROVE Sourced
  OBVIOUS
<1>1. ASSUME NEW p \in Peers, NEW r \in DOMAIN chunk[p], NEW s \in SeqNums
      PROVE  chunk[p][r].data[s] \in Known
  <2>1. PICK l \in DOMAIN HasFile[p] : r = <<0, l>>
    BY <1>1 DEF Init
  <2> DEFINE c == create_chunk(HasFile[p][l].id, HasFile[p][l].hash)
             d == [x \in SeqNums |-> read_chunk_data_file_by_id(c.id)]
  <2>2. chunk[p][<<0, l>>] = LoadedChunk(HasFile[p][l])
    BY DEF Init
  <2>3. LoadedChunk(HasFile[p][l]) = [c EXCEPT !.data = d]
    BY Zenon DEF LoadedChunk
  <2>4. c \in Chunk /\ c.id = HasFile[p][l].id % ID_WIDTH
    BY LineAt, CreateType, PeerAssumption DEF create_chunk
  <2>5. d[s] = HasFile[p][l].hash
    BY <2>4 DEF FilesAgree
  <2> HIDE DEF c, d
  <2>6. [c EXCEPT !.data = d].data = d
    BY <2>4 DEF Chunk
  <2>7. chunk[p][r].data[s] = HasFile[p][l].hash
    BY <2>1, <2>2, <2>3, <2>5, <2>6
  <2>8. HasFile[p][l].hash \in OwnedHashes(p)
    BY OwnedInit
  <2> QED  BY <2>7, <2>8 DEF Known
<1>2. BagToSet(net) = {}
  BY DEF Init, EmptyBag, BagToSet, SetToBag
<1> QED  BY <1>1, <1>2 DEF Sourced, Filled, DataFrom

\* The initial have lists are the seed.
LEMMA ReplicationInit == Init => Copies!Init
  BY OwnedInit DEF Copies!Init

\* The chunk that becomes owned is owned by somebody.
LEMMA CompleteKnown ==
  ASSUME TypeOK, Sourced, NEW m \in BagToSet(net), m.type = "DATA",
         NEW i \in node_find(DownloadsFrom(m.dst, m.src)), Completes(m, i)
  PROVE  \E q \in Peers : chunk[m.dst][Target(m, i)].hash \in OwnedHashes(q)
<1> DEFINE p == m.dst
           h == chunk[p][Target(m, i)].hash
<1>1. m \in Packets /\ p \in Peers
  BY PacketFields DEF TypeOK
<1>2. chunk[p][Target(m, i)] \in Chunk
  BY <1>1, DownloadAt DEF Target
<1>3. h \in Hashes
  BY <1>2 DEF Chunk
<1>4. m.data \in Known /\ Filled(chunk[p], Known)
  BY <1>1 DEF Sourced, DataFrom
<1>5. 1 \in SeqNums
  BY CongestionAssumption DEF SeqNums
<1>6. Stored(m, i)[1] \in Known
  BY <1>1, <1>4, <1>5, StoredBlocks
<1>7. Stored(m, i)[1] = h
  BY <1>5 DEF Completes, validate_chunk
<1> HIDE DEF h
<1>8. h \in UNION {OwnedHashes(q) : q \in Peers}
  BY <1>3, <1>6, <1>7, PeerAssumption DEF Known
<1> QED  BY <1>8 DEF h

\* Every step of the swarm copies one chunk or leaves the owners alone.
LEMMA ReplicationStep ==
  TypeOK /\ Sourced /\ [Next]_vars => [Copies!Next]_[p \in Peers |-> OwnedHashes(p)]
<1> SUFFICES ASSUME TypeOK, Sourced, [Next]_vars
             PROVE  Copies!Next \/ \A p \in Peers : OwnedHashes(p)' = OwnedHashes(p)
  OBVIOUS
<1>1. CASE \A p \in Peers : have'[p] = have[p]
  BY <1>1, OwnedSame
<1>2. ASSUME NEW m \in BagToSet(net), complete_DATA(m)
      PROVE  Copies!Next \/ \A p \in Peers : OwnedHashes(p)' = OwnedHashes(p)
  <2> DEFINE p == m.dst
  <2>1. m \in Packets /\ p \in Peers
    BY PacketFields DEF TypeOK
  <2>2. m.type = "DATA" /\ process_inbound_udp(m)
    BY <1>2 DEF complete_DATA, process_inbound_udp, receive_DATA
  <2>3. PICK i \in node_find(DownloadsFrom(p, m.src)) : Completes(m, i)
    BY <1>2, <2>1, CompleteParts
  <2> DEFINE c == Target(m, i)
             h == chunk[p][c].hash
  <2>4. c \in DOMAIN chunk[p]
    BY <2>1, DownloadAt DEF Target
  <2>5. have' = have \/ have' = [have EXCEPT ![p] = node_insert(have[p], c)]
    BY <2>3, Zenon DEF Completes
  <2>6. have'[p] = have[p] \/ have'[p] = node_insert(have[p], c)
    BY <2>1, <2>5 DEF TypeOK
  <2>7. \A q \in Peers \ {p} : OwnedHashes(q)' = OwnedHashes(q)
    BY <2>2, InboundLocal, OwnedSame DEF Local
  <2>8. PICK q \in Peers : h \in OwnedHashes(q)
    BY <2>2, <2>3, CompleteKnown
  <2>9. OwnedHashes(p)' = OwnedHashes(p) \/ OwnedHashes(p)' = OwnedHashes(p) \cup {h}
    BY <2>1, <2>4, <2>6, OwnedSame, OwnedInsert
  <2> HIDE DEF p, h, c
  <2>10. CASE OwnedHashes(p)' = OwnedHashes(p)
    BY <2>7, <2>10
  <2>11. CASE OwnedHashes(p)' # OwnedHashes(p)
    <3>1. OwnedHashes(p)' = OwnedHashes(p) \cup {h} /\ h \notin OwnedHashes(p) /\ q # p
      BY <2>8, <2>9, <2>11
    <3> DEFINE owned == [x \in Peers |-> OwnedHashes(x)]
               next == [x \in Peers |-> OwnedHashes(x)']
    <3>2. next = [owned EXCEPT ![p] = owned[p] \cup {h}]
      BY <2>1, <2>7, <3>1
    <3>3. h \notin owned[p] /\ h \in owned[q]
      BY <2>1, <2>8, <3>1
    <3>4. Copies!Acquire(p, h)
      BY <2>1, <3>1, <3>2, <3>3 DEF Copies!Acquire
    <3> QED  BY <2>1, <2>8, <3>3, <3>4 DEF Copies!Next
  <2> QED  BY <2>10, <2>11
<1>3. (\A p \in Peers : have'[p] = have[p]) \/ \E m \in BagToSet(net) : complete_DATA(m)
  BY HaveMoves
<1> QED  BY <1>1, <1>2, <1>3

\* The swarm implements replication for every number of peers, chunks, packets
\* and faults, when the has-chunk files describe the master file.
THEOREM ImplementsReplication == FilesAgree /\ Spec => Replicates
  BY InitType, StepType, SourcedInit, SourcedStep, ReplicationInit, ReplicationStep, PTL
  DEF Spec, Replicates, Copies!Spec
==============================================================================
