----------------------------- MODULE SwarmAnswers -----------------------------
(***************************************************************************)
(* What a user's GET comes to, and what the server believes of it.         *)
(*                                                                         *)
(* OwnedOnce and AnswersComplete follow a GET from its file to the missing *)
(* list, the wanted list and the output file.  They need what the user     *)
(* does: one who asks again for a chunk that has not come can own it twice *)
(* (the run regets), one who does not wait for GOT can get an incomplete   *)
(* file (the run regets_output).                                           *)
(*                                                                         *)
(* WindowsBacked follows the DATA packets and the ACKs the other way.  It  *)
(* needs one chunk to be asked for: receive_DATA and receive_ACK take the  *)
(* first transfer to a peer, whatever chunk the packet is about (the run   *)
(* stale_ack).                                                             *)
(***************************************************************************)
EXTENDS SwarmReplication

------------------------------------------------------------------------------
(* The ids of chunks: only a user's GET changes them. *)

IdKept(new, old) == DOMAIN new = DOMAIN old /\ \A r \in DOMAIN old : new[r].id = old[r].id

\* Storing and emptying the data of a chunk.
LEMMA DataIds ==
  ASSUME NEW heap, HeapOK(heap), NEW c \in DOMAIN heap, NEW d
  PROVE  IdKept([heap EXCEPT ![c].data = d], heap)
<1> DEFINE new == [heap EXCEPT ![c].data = d]
           cell == [heap[c] EXCEPT !.data = d]
<1>1. heap[c] \in Chunk
  BY DEF HeapOK
<1>2. cell.id = heap[c].id
  BY <1>1 DEF Chunk
<1>3. new = [heap EXCEPT ![c] = cell]
  OBVIOUS
<1> HIDE DEF cell, new
<1>4. DOMAIN new = DOMAIN heap /\ \A r \in DOMAIN heap : new[r] = IF r = c THEN cell ELSE heap[r]
  BY <1>3 DEF HeapOK
<1>5. \A r \in DOMAIN heap : new[r].id = heap[r].id
  BY <1>2, <1>4
<1>6. IdKept(new, heap)
  BY <1>4, <1>5 DEF IdKept
<1> QED  BY <1>6 DEF new

\* Changing the owners of a chunk.
LEMMA PeerIds ==
  ASSUME NEW c \in Chunk, NEW v
  PROVE  [c EXCEPT !.peer = v].id = c.id
  BY DEF Chunk

\* receive_IHAVE changes the owners of chunks.
LEMMA IhaveIds ==
  ASSUME TypeOK, NEW p \in Peers, NEW q, NEW H
  PROVE  IdKept(HeapAfterIhave(p, q, H), chunk[p])
<1> DEFINE new(r) == IF r \in {x \in ToSet(missing[p]) : chunk[p][x].hash \in H}
                          /\ ~peer_exist_in_list(chunk[p][r].peer, q)
                       THEN [chunk[p][r] EXCEPT !.peer = node_insert(chunk[p][r].peer, q)]
                       ELSE chunk[p][r]
<1>1. HeapAfterIhave(p, q, H) = [r \in DOMAIN chunk[p] |-> new(r)]
  BY Zenon DEF HeapAfterIhave
<1>2. ASSUME NEW r \in DOMAIN chunk[p] PROVE new(r).id = chunk[p][r].id
  <2>1. chunk[p][r] \in Chunk
    BY Zenon DEF TypeOK, PeerOK, HeapOK
  <2>2. [chunk[p][r] EXCEPT !.peer = node_insert(chunk[p][r].peer, q)].id = chunk[p][r].id
    BY <2>1, PeerIds
  <2> QED  BY <2>2, Zenon
<1> HIDE DEF new
<1> QED  BY <1>1, <1>2 DEF IdKept

\* A timeout changes the owners of chunks.
LEMMA ForgetIds ==
  ASSUME TypeOK, NEW p \in Peers
  PROVE  IdKept(ForgetDeadPeers(p), chunk[p])
<1> DEFINE rest(r) == node_keep(chunk[p][r].peer,
                        {k \in DOMAIN chunk[p][r].peer : chunk[p][r].peer[k] \notin DeadPeers(p)})
           new(r) == IF r \in ToSet(missing[p]) THEN [chunk[p][r] EXCEPT !.peer = rest(r)]
                                                ELSE chunk[p][r]
<1>1. ForgetDeadPeers(p) = [r \in DOMAIN chunk[p] |-> new(r)]
  BY Zenon DEF ForgetDeadPeers
<1>2. ASSUME NEW r \in DOMAIN chunk[p] PROVE new(r).id = chunk[p][r].id
  <2>1. chunk[p][r] \in Chunk
    BY Zenon DEF TypeOK, PeerOK, HeapOK
  <2> HIDE DEF rest
  <2>2. [chunk[p][r] EXCEPT !.peer = rest(r)].id = chunk[p][r].id
    BY <2>1, PeerIds
  <2> QED  BY <2>2, Zenon
<1> HIDE DEF new
<1> QED  BY <1>1, <1>2 DEF IdKept

\* The heap after a datagram.
LEMMA InboundIds ==
  ASSUME TypeOK, NEW m \in Packets, process_inbound_udp(m)
  PROVE  IdKept(chunk'[m.dst], chunk[m.dst])
<1> DEFINE p == m.dst
<1>1. p \in Peers /\ HeapOK(chunk[p])
  BY PacketFields, Zenon DEF TypeOK, PeerOK
<1>2. ASSUME NEW x, chunk' = [chunk EXCEPT ![p] = x] PROVE chunk'[p] = x
  BY <1>1, <1>2 DEF TypeOK
<1>3. ASSUME NEW i \in node_find(DownloadsFrom(p, m.src)), NEW d,
             chunk' = [chunk EXCEPT ![p] = [chunk[p] EXCEPT ![downloads[p][i].c].data = d]]
      PROVE  IdKept(chunk'[p], chunk[p])
  <2>1. downloads[p][i].c \in DOMAIN chunk[p]
    BY <1>1, DownloadAt
  <2> QED  BY <1>1, <1>2, <1>3, <2>1, DataIds, ZenonT(30)
<1>4. CASE chunk' = chunk  BY <1>4, Zenon DEF IdKept
<1>5. CASE receive_IHAVE(m)
  <2>1. chunk' = [chunk EXCEPT ![p] = HeapAfterIhave(p, m.src, m.hashes)]
    BY <1>5, Zenon DEF receive_IHAVE, HeapAfterIhave
  <2>2. chunk'[p] = HeapAfterIhave(p, m.src, m.hashes)
    BY <1>2, <2>1, Zenon
  <2> QED  BY <1>1, <2>2, IhaveIds
<1>6. CASE receive_DATA(m)
  <2>1. CASE store_DATA(m)
    BY <1>3, <2>1, Zenon DEF store_DATA
  <2>2. CASE complete_DATA(m)
    BY <1>3, <2>2, Zenon DEF complete_DATA
  <2>3. CASE corrupt_DATA(m)
    BY <1>3, <2>3, Zenon DEF corrupt_DATA
  <2> QED  BY <1>4, <1>6, <2>1, <2>2, <2>3, Zenon DEF receive_DATA, stray_DATA, chunkVars
<1>7. chunk' = chunk \/ receive_IHAVE(m) \/ receive_DATA(m)
  BY Zenon DEF process_inbound_udp, receive_WHOHAS, receive_GET, refuse_GET, ignore_GET, accept_GET,
     receive_ACK, stray_ACK, last_ACK, new_ACK, loss_ACK, old_ACK, Continue,
     receive_DENIED, stray_DENIED, drop_DENIED, chunkVars
<1> QED  BY <1>4, <1>5, <1>6, <1>7

------------------------------------------------------------------------------
(* What a step does to the lists of a peer. *)

ListsStay(p) ==
    /\ have'[p] = have[p] /\ missing'[p] = missing[p] /\ wanted'[p] = wanted[p]
    /\ got'[p] = got[p] /\ request'[p] = request[p]

\* check_all_received changes the entries of p only.
LEMMA OthersUnasked ==
  ASSUME TypeOK, NEW p, NEW n, NEW heap, NEW miss, NEW want,
         check_all_received(p, n, heap, miss, want),
         got = [q \in Peers |-> got[q]], NEW q \in Peers \ {p}
  PROVE  got'[q] = got[q] /\ wanted'[q] = wanted[q]
<1>1. q \in DOMAIN got /\ q \in DOMAIN wanted /\ q # p
  BY DEF TypeOK
<1>2. Changes(got', got, p) /\ Changes(wanted', wanted, p)
  BY Zenon DEF check_all_received, Changes
<1> QED  BY <1>1, <1>2, OtherEntry

\* A step of Swarm is a GET of p's user, a chunk that comes to p, or leaves
\* p's lists and the ids and hashes of p's chunks as they are.
LEMMA PeerMoves ==
  ASSUME TypeOK, got = [q \in Peers |-> got[q]], [Next]_vars, NEW p \in Peers
  PROVE  \/ process_get(p)
         \/ \E m \in BagToSet(net) : complete_DATA(m) /\ m.dst = p
         \/ ListsStay(p) /\ IdKept(chunk'[p], chunk[p])
<1> DEFINE Stays == ListsStay(p) /\ IdKept(chunk'[p], chunk[p])
<1>1. ASSUME have' = have, missing' = missing, wanted' = wanted, UNCHANGED userVars
      PROVE  ListsStay(p)
  BY <1>1, Zenon DEF ListsStay, userVars
<1>2. ASSUME chunk'[p] = chunk[p] PROVE IdKept(chunk'[p], chunk[p])
  BY <1>2, Zenon DEF IdKept
<1>3. ASSUME NEW m \in BagToSet(net), process_inbound_udp(m)
      PROVE  Stays \/ (complete_DATA(m) /\ m.dst = p)
  <2>1. m \in Packets
    BY DEF TypeOK
  <2>2. IdKept(chunk'[p], chunk[p])
    <3>1. CASE m.dst = p  BY <1>3, <2>1, <3>1, InboundIds
    <3>2. CASE m.dst # p
      <4>1. chunk'[p] = chunk[p]
        BY <1>3, <2>1, <3>2, InboundLocal DEF Local
      <4> QED  BY <1>2, <4>1
    <3> QED  BY <3>1, <3>2
  <2>3. CASE complete_DATA(m) /\ m.dst # p
    <3>1. have'[p] = have[p] /\ missing'[p] = missing[p]
      BY <1>3, <2>1, <2>3, InboundLocal DEF Local
    <3>2. PICK i \in node_find(DownloadsFrom(m.dst, m.src)) : Completes(m, i)
      BY <2>1, <2>3, CompleteParts
    <3>3. got'[p] = got[p] /\ wanted'[p] = wanted[p]
      <4>1. check_all_received(m.dst, request[m.dst], FilledHeap(m, i), missing'[m.dst], wanted[m.dst])
        BY <3>2, Zenon DEF Completes
      <4> QED  BY <2>3, <4>1, OthersUnasked
    <3>4. request' = request
      BY <2>3 DEF complete_DATA
    <3> QED  BY <2>2, <3>1, <3>3, <3>4, Zenon DEF ListsStay
  <2>4. complete_DATA(m) \/ (have' = have /\ missing' = missing /\ wanted' = wanted /\ UNCHANGED userVars)
    BY <1>3, Zenon DEF process_inbound_udp, receive_WHOHAS, receive_GET, refuse_GET, ignore_GET,
       accept_GET, receive_ACK, stray_ACK, last_ACK, new_ACK, loss_ACK, old_ACK, Continue,
       receive_IHAVE, receive_DENIED, stray_DENIED, drop_DENIED,
       receive_DATA, stray_DATA, store_DATA, corrupt_DATA, chunkVars
  <2> QED  BY <1>1, <2>2, <2>3, <2>4
<1>4. ASSUME NEW q \in Peers, process_get(q), q # p PROVE Stays
  <2>1. chunk'[p] = chunk[p] /\ have'[p] = have[p] /\ missing'[p] = missing[p]
    BY <1>4, GetLocal DEF Local
  <2>2. PICK n, heap, miss, want : check_all_received(q, n, heap, miss, want)
    BY <1>4, Zenon DEF process_get
  <2>3. got'[p] = got[p] /\ wanted'[p] = wanted[p]
    BY <1>4, <2>2, OthersUnasked
  <2>4. request'[p] = request[p]
    <3>1. \E k : request' = [request EXCEPT ![q] = k]
      BY <1>4, Zenon DEF process_get
    <3> QED  BY <1>4, <3>1 DEF TypeOK
  <2> QED  BY <1>2, <2>1, <2>3, <2>4, Zenon DEF ListsStay
<1>5. ASSUME NEW q \in Peers, handle_timeout(q) PROVE Stays
  <2>1. have' = have /\ missing' = missing /\ wanted' = wanted /\ UNCHANGED userVars
    BY <1>5, Zenon DEF handle_timeout
  <2>2. chunk' = chunk \/ chunk' = [chunk EXCEPT ![q] = ForgetDeadPeers(q)]
    BY <1>5, Zenon DEF handle_timeout, handle_client_timeout
  <2>3. CASE chunk'[p] = chunk[p]  BY <1>1, <1>2, <2>1, <2>3
  <2>4. CASE q = p /\ chunk' = [chunk EXCEPT ![q] = ForgetDeadPeers(q)]
    <3>1. chunk'[p] = ForgetDeadPeers(p)
      BY <2>4 DEF TypeOK
    <3> QED  BY <1>1, <2>1, <3>1, ForgetIds
  <2>5. CASE q # p
    BY <1>5, <2>3, <2>5, TimeoutLocal DEF Local
  <2> QED  BY <2>2, <2>3, <2>4, <2>5
<1>6. ASSUME \/ \E m : Lose(m) \/ Duplicate(m)
             \/ UNCHANGED vars
      PROVE  Stays
  <2>1. /\ chunk' = chunk /\ have' = have /\ missing' = missing /\ wanted' = wanted
        /\ UNCHANGED userVars
    BY <1>6, Zenon DEF Lose, Duplicate, vars, chunkVars
  <2> QED  BY <1>1, <1>2, <2>1
<1> HIDE DEF Stays
<1>7. \/ process_get(p)
      \/ \E m \in BagToSet(net) : complete_DATA(m) /\ m.dst = p
      \/ Stays
  BY <1>3, <1>4, <1>5, <1>6, Zenon DEF Next, QuietTimeout, EarlyTimeout
<1> QED  BY <1>7 DEF Stays


------------------------------------------------------------------------------
(* Pointers are fresh: a GET makes chunks that no list points to yet. *)

FreshPointers == \A p \in Peers : \A r \in DOMAIN chunk[p] : r[1] <= request[p]

\* What a GET of p's user does to p's heap.
LEMMA GetHeap ==
  ASSUME TypeOK, NEW p \in Peers, process_get(p)
  PROVE  /\ request[p] \in Nat /\ request'[p] = request[p] + 1
         /\ NextFile(p) \in Seq(Line)
         /\ chunk'[p] = HeapAfterGet(p, request[p] + 1, NextFile(p))
         /\ DOMAIN chunk'[p] = PointersAfterGet(p, request[p] + 1, NextFile(p))
         /\ have'[p] = have[p]
<1>1. request[p] \in Nat
  BY DEF TypeOK
<1>2. NextFile(p) \in Seq(Line)
  BY GetMissing DEF NextFile
<1>3. chunk' = [chunk EXCEPT ![p] = HeapAfterGet(p, request[p] + 1, NextFile(p))]
  BY Zenon DEF process_get, NextFile
<1>4. request' = [request EXCEPT ![p] = request[p] + 1] /\ have' = have
  BY Zenon DEF process_get
<1>5. request'[p] = request[p] + 1
  BY <1>4 DEF TypeOK
<1>6. chunk'[p] = HeapAfterGet(p, request[p] + 1, NextFile(p))
  BY <1>3 DEF TypeOK
<1>7. request[p] + 1 \in Nat
  BY <1>1
<1>8. DOMAIN HeapAfterGet(p, request[p] + 1, NextFile(p)) = PointersAfterGet(p, request[p] + 1, NextFile(p))
  BY <1>2, <1>7, HeapAfterGetType
<1> QED  BY <1>1, <1>2, <1>4, <1>5, <1>6, <1>8

\* No GET has been read initially.
LEMMA FreshInit == Init => FreshPointers
<1> SUFFICES ASSUME Init, NEW p \in Peers, NEW r \in DOMAIN chunk[p] PROVE r[1] <= request[p]
  BY DEF FreshPointers
<1>1. r \in {<<0, l>> : l \in DOMAIN HasFile[p]}
  BY DEF Init
<1>2. r[1] = 0 /\ request[p] = 0
  BY <1>1 DEF Init
<1> QED  BY <1>2

\* Pointers are made for the GET that is read.
LEMMA FreshStep ==
  ASSUME TypeOK, FreshPointers, got = [q \in Peers |-> got[q]], [Next]_vars
  PROVE  FreshPointers'
<1> SUFFICES ASSUME NEW p \in Peers PROVE \A r \in DOMAIN chunk'[p] : r[1] <= request'[p]
  BY DEF FreshPointers
<1>1. \A r \in DOMAIN chunk[p] : r[1] <= request[p]
  BY DEF FreshPointers
<1>2. CASE process_get(p)
  <2> TAKE r \in DOMAIN chunk'[p]
  <2>1. r \in PointersAfterGet(p, request[p] + 1, NextFile(p))
    BY <1>2, GetHeap
  <2>2. request[p] \in Nat /\ request'[p] = request[p] + 1
    BY <1>2, GetHeap
  <2>3. CASE r \in DOMAIN chunk[p]
    <3>1. r \in Nat \X Nat
      BY <2>3, ListsAt DEF HeapOK, Pointers
    <3> QED  BY <1>1, <2>2, <2>3, <3>1
  <2>4. CASE r \in {<<request[p] + 1, l>> : l \in AbsentLines(p, NextFile(p))}
    BY <2>2, <2>4
  <2> QED  BY <2>1, <2>3, <2>4 DEF PointersAfterGet
<1>3. ASSUME NEW m \in BagToSet(net), complete_DATA(m), m.dst = p
      PROVE  \A r \in DOMAIN chunk'[p] : r[1] <= request'[p]
  <2>1. m \in Packets /\ process_inbound_udp(m) /\ request' = request
    BY <1>3, Zenon DEF TypeOK, process_inbound_udp, receive_DATA, complete_DATA
  <2>2. IdKept(chunk'[p], chunk[p])
    BY <1>3, <2>1, InboundIds
  <2> QED  BY <1>1, <2>1, <2>2 DEF IdKept
<1>4. CASE ListsStay(p) /\ IdKept(chunk'[p], chunk[p])
  BY <1>1, <1>4 DEF ListsStay, IdKept
<1> QED  BY <1>2, <1>3, <1>4, PeerMoves

\* Every line of a get-chunk file has a chunk of its hash in the heap.
LEMMA LineHash ==
  ASSUME TypeOK, FreshPointers, NEW p \in Peers, NEW lines \in Seq(Line), NEW l \in DOMAIN lines
  PROVE  HeapAfterGet(p, request[p] + 1, lines)[ChunkOfLine(p, request[p] + 1, lines, l)].hash
           = lines[l].hash
<1> DEFINE n == request[p] + 1
           heap == HeapAfterGet(p, n, lines)
           r == ChunkOfLine(p, n, lines, l)
<1>1. n \in Nat /\ n > request[p] /\ request[p] \in Nat
  BY DEF TypeOK
<1>2. CASE l \in AbsentLines(p, lines)
  <2> DEFINE LinesOf(x) == {k \in DOMAIN lines : ChunkOfLine(p, n, lines, k) = x}
             NewId(x) == lines[CHOOSE k \in LinesOf(x) : \A j \in LinesOf(x) : j <= k].id
             fresh(x) == create_chunk(lines[x[2]].id, lines[x[2]].hash)
             Base(x) == IF x \in DOMAIN chunk[p] THEN chunk[p][x] ELSE fresh(x)
             D == DOMAIN chunk[p] \cup {<<n, k>> : k \in AbsentLines(p, lines)}
             new(x) == IF LinesOf(x) = {} THEN Base(x) ELSE [Base(x) EXCEPT !.id = NewId(x)]
  <2>1. heap = [x \in D |-> new(x)]
    BY Zenon DEF HeapAfterGet
  <2>2. r = <<n, l>>
    BY <1>2, Zenon DEF ChunkOfLine
  <2>3. r \in D
    BY <1>2, <2>2
  <2>4. r \notin DOMAIN chunk[p]
    <3> HIDE DEF r, n
    <3>1. r[1] = n
      BY <2>2
    <3>2. \A x \in DOMAIN chunk[p] : x[1] <= request[p]
      BY DEF FreshPointers
    <3> QED  BY <1>1, <3>1, <3>2
  <2>5. Base(r) = fresh(r)
    BY <2>4
  <2>6. fresh(r) = create_chunk(lines[l].id, lines[l].hash)
    <3> HIDE DEF r, n
    <3>1. r[2] = l
      BY <2>2
    <3> QED  BY <3>1
  <2>7. heap[r] = new(r)
    <3> HIDE DEF D, new, heap, r
    <3> QED  BY <2>1, <2>3
  <2> HIDE DEF r, heap, LinesOf, NewId, Base
  <2>8. fresh(r).hash = lines[l].hash
    BY <2>6 DEF create_chunk
  <2>9. \A v : [create_chunk(lines[l].id, lines[l].hash) EXCEPT !.id = v].hash = lines[l].hash
    BY DEF create_chunk
  <2> HIDE DEF fresh
  <2>10. new(r).hash = lines[l].hash
    BY <2>5, <2>6, <2>8, <2>9, Zenon
  <2> QED  BY <2>7, <2>10 DEF heap, r
<1>3. CASE l \notin AbsentLines(p, lines)
  <2> DEFINE K == Owned(p, lines[l].hash)
             R == {have[p][i] : i \in node_find(K)}
  <2>1. r = CHOOSE x \in R : TRUE
    BY <1>3, Zenon DEF ChunkOfLine
  <2>2. K # {} /\ K \in SUBSET Nat
    <3>1. have[p] \in Seq(DOMAIN chunk[p])
      BY HaveAt
    <3>2. DOMAIN have[p] \subseteq Nat
      BY <3>1, LenProperties
    <3> QED  BY <1>3, <3>2 DEF AbsentLines, Owned
  <2>3. node_find(K) # {}
    <3> HIDE DEF K
    <3> QED  BY <2>2, NodeFound
  <2>4. R # {}
    <3> HIDE DEF K
    <3> QED  BY <2>3
  <2>5. r \in R
    <3> HIDE DEF R
    <3> QED  BY <2>1, <2>4
  <2>6. PICK i \in K : r = have[p][i]
    <3> HIDE DEF K, r
    <3> QED  BY <2>5, NodeFind
  <2>7. r \in DOMAIN chunk[p] /\ chunk[p][r].hash = lines[l].hash
    <3> HIDE DEF r
    <3> QED  BY <2>6, HaveAt DEF Owned
  <2>8. HashKept(heap, chunk[p])
    BY GetHashes
  <2> HIDE DEF r, heap
  <2>9. heap[r].hash = lines[l].hash
    BY <2>7, <2>8 DEF HashKept
  <2> QED  BY <2>9 DEF r, heap
<1> QED  BY <1>2, <1>3


\* Where the lines of a file name different chunks, every line also gives its
\* chunk its id.
LEMMA LineId ==
  ASSUME TypeOK, FreshPointers, NEW p \in Peers, NEW lines \in Seq(Line), NEW l \in DOMAIN lines,
         DistinctHashes(lines)
  PROVE  HeapAfterGet(p, request[p] + 1, lines)[ChunkOfLine(p, request[p] + 1, lines, l)].id
           = lines[l].id
<1> DEFINE n == request[p] + 1
           heap == HeapAfterGet(p, n, lines)
           r == ChunkOfLine(p, n, lines, l)
           LinesOf(x) == {k \in DOMAIN lines : ChunkOfLine(p, n, lines, k) = x}
           Latest(x) == CHOOSE k \in LinesOf(x) : \A j \in LinesOf(x) : j <= k
           Base(x) == IF x \in DOMAIN chunk[p] THEN chunk[p][x]
                                               ELSE create_chunk(lines[x[2]].id, lines[x[2]].hash)
           D == DOMAIN chunk[p] \cup {<<n, k>> : k \in AbsentLines(p, lines)}
           new(x) == IF LinesOf(x) = {} THEN Base(x) ELSE [Base(x) EXCEPT !.id = lines[Latest(x)].id]
<1>1. heap = [x \in D |-> new(x)]
  BY Zenon DEF HeapAfterGet
<1>2. r \in D
  BY ChunkOfLineType DEF PointersAfterGet
<1>3. heap[r] = new(r)
  <2> HIDE DEF D, new, heap, r
  <2> QED  BY <1>1, <1>2
<1>4. LinesOf(r) = {l}
  <2>1. ASSUME NEW k \in DOMAIN lines, ChunkOfLine(p, n, lines, k) = r PROVE k = l
    <3>1. heap[ChunkOfLine(p, n, lines, k)].hash = lines[k].hash /\ heap[r].hash = lines[l].hash
      BY LineHash
    <3> HIDE DEF heap, r
    <3>2. lines[k].hash = lines[l].hash
      BY <2>1, <3>1
    <3> QED  BY <3>2 DEF DistinctHashes
  <2> QED  BY <2>1
<1>5. Latest(r) = l
  <2>1. l \in Nat
    BY LenProperties
  <2> HIDE DEF LinesOf, r
  <2> QED  BY <1>4, <2>1
<1>6. \A v : [Base(r) EXCEPT !.id = v].id = v
  <2>1. CASE r \in DOMAIN chunk[p]
    <3>1. chunk[p][r] \in Chunk /\ Base(r) = chunk[p][r]
      BY <2>1, Zenon DEF TypeOK, PeerOK, HeapOK
    <3> HIDE DEF Base, r
    <3> QED  BY <3>1 DEF Chunk
  <2>2. CASE r \notin DOMAIN chunk[p]
    <3>1. Base(r) = create_chunk(lines[r[2]].id, lines[r[2]].hash)
      BY <2>2
    <3> HIDE DEF Base, r
    <3> QED  BY <3>1 DEF create_chunk
  <2> QED  BY <2>1, <2>2
<1> HIDE DEF LinesOf, Latest, Base, r, heap
<1>7. new(r).id = lines[l].id
  BY <1>4, <1>5, <1>6, Zenon
<1> QED  BY <1>3, <1>7 DEF r, heap

\* The missing list after a GET: a new chunk for each line that is not owned,
\* in front of the old list.
LEMMA GetLists ==
  ASSUME TypeOK, NEW p \in Peers, process_get(p)
  PROVE  \E front \in Seq(DOMAIN chunk'[p]) :
            /\ missing'[p] = front \o missing[p]
            /\ Selects(front, [l \in DOMAIN NextFile(p) |-> <<request[p] + 1, l>>],
                       AbsentLines(p, NextFile(p)))
<1> DEFINE n == request[p] + 1
           lines == NextFile(p)
           list == [l \in DOMAIN lines |-> <<n, l>>]
           K == AbsentLines(p, lines)
           kept == node_keep(list, K)
           S == {<<n, l>> : l \in DOMAIN lines}
           D == DOMAIN chunk'[p]
<1>1. lines \in Seq(Line) /\ D = PointersAfterGet(p, n, lines)
  BY GetHeap
<1>2. missing' = [missing EXCEPT ![p] = Reverse(kept) \o missing[p]]
  BY Zenon DEF process_get, NextFile
<1>3. missing'[p] = Reverse(kept) \o missing[p]
  <2> HIDE DEF kept
  <2> QED  BY <1>2 DEF TypeOK
<1>4. list \in [DOMAIN lines -> S] /\ K \in SUBSET DOMAIN lines
  BY DEF AbsentLines
<1>5. \A k \in K : list[k] \in D
  BY <1>1, <1>4 DEF PointersAfterGet
<1> HIDE DEF list, K, lines, S, D
<1>6. list \in Seq(S) /\ DOMAIN list = DOMAIN lines
  BY <1>1, <1>4, FunctionSeq
<1>7. kept \in Seq(D) /\ Selects(kept, list, K)
  BY <1>4, <1>5, <1>6, NodeKept, KeepSelects
<1> HIDE DEF kept
<1>8. Reverse(kept) \in Seq(D) /\ Selects(Reverse(kept), list, K)
  BY <1>7, ReverseList, ReverseSelects, SelectsTwice
<1> QED  BY <1>3, <1>8 DEF list, K, lines, D

------------------------------------------------------------------------------
(* Hashes are owned or missing, and not twice. *)

Apart(heap, list) ==
    \A i, j \in DOMAIN list : heap[list[i]].hash = heap[list[j]].hash => i = j

Disjoint(heap, a, b) ==
    \A i \in DOMAIN a : \A j \in DOMAIN b : heap[a[i]].hash # heap[b[j]].hash

\* A peer owns every hash once, and none that it misses.
OwnedHere(heap, hav, miss) == Apart(heap, hav) /\ Disjoint(heap, hav, miss)

MissingApart == \A p \in Peers : Apart(chunk[p], missing[p])

OwnedApart == \A p \in Peers : OwnedHere(chunk[p], have[p], missing[p])

\* Lists of pointers see the same hashes in a later heap.
LEMMA ApartKept ==
  ASSUME NEW new, NEW old, HashKept(new, old), NEW list, \A i \in DOMAIN list : list[i] \in DOMAIN old,
         Apart(old, list)
  PROVE  Apart(new, list)
  BY DEF Apart, HashKept

\* Nor do lists that share none.
LEMMA DisjointKept ==
  ASSUME NEW new, NEW old, HashKept(new, old), NEW a, NEW b,
         \A i \in DOMAIN a : a[i] \in DOMAIN old, \A i \in DOMAIN b : b[i] \in DOMAIN old,
         Disjoint(old, a, b)
  PROVE  Disjoint(new, a, b)
  BY DEF Disjoint, HashKept

\* Two lists that share no hash, one behind the other.
LEMMA ApartConcat ==
  ASSUME NEW heap, NEW S, NEW a \in Seq(S), NEW b \in Seq(S),
         Apart(heap, a), Apart(heap, b), Disjoint(heap, a, b)
  PROVE  Apart(heap, a \o b)
<1> DEFINE c == a \o b
<1> SUFFICES ASSUME NEW i \in DOMAIN c, NEW j \in DOMAIN c, heap[c[i]].hash = heap[c[j]].hash
             PROVE  i = j
  BY Zenon DEF Apart
<1> DEFINE InA(k) == k \in DOMAIN a /\ c[k] = a[k]
           InB(k) == k - Len(a) \in DOMAIN b /\ c[k] = b[k - Len(a)]
<1>1. (InA(i) \/ InB(i)) /\ (InA(j) \/ InB(j)) /\ i \in Nat /\ j \in Nat /\ Len(a) \in Nat
  <2>1. DOMAIN c = 1..(Len(a) + Len(b)) /\ Len(a) \in Nat /\ Len(b) \in Nat
    BY ConcatAt
  <2>2. (InA(i) \/ InB(i)) /\ (InA(j) \/ InB(j))
    BY ConcatAt, SMTT(30)
  <2> QED  BY <2>1, <2>2
<1> HIDE DEF c
<1>2. CASE InA(i) /\ InA(j)  BY <1>2 DEF Apart
<1>3. CASE InB(i) /\ InB(j)
  <2>1. i - Len(a) = j - Len(a)
    BY <1>3 DEF Apart
  <2> QED  BY <1>1, <2>1
<1>4. CASE InA(i) /\ InB(j)  BY <1>4 DEF Disjoint
<1>5. CASE InB(i) /\ InA(j)  BY <1>5 DEF Disjoint
<1> QED  BY <1>1, <1>2, <1>3, <1>4, <1>5

\* The entries of two lists, one behind the other.
LEMMA DisjointConcat ==
  ASSUME NEW heap, NEW S, NEW a \in Seq(S), NEW b \in Seq(S), NEW c,
         Disjoint(heap, c, a), Disjoint(heap, c, b)
  PROVE  Disjoint(heap, c, a \o b)
<1> DEFINE d == a \o b
<1> SUFFICES ASSUME NEW i \in DOMAIN c, NEW j \in DOMAIN d PROVE heap[c[i]].hash # heap[d[j]].hash
  BY Zenon DEF Disjoint
<1>1. \/ j \in DOMAIN a /\ d[j] = a[j]
      \/ j - Len(a) \in DOMAIN b /\ d[j] = b[j - Len(a)]
  BY ConcatAt
<1> HIDE DEF d
<1> QED  BY <1>1 DEF Disjoint

\* Some nodes of a list.
LEMMA ApartSelects ==
  ASSUME NEW heap, NEW new, NEW old, NEW K \in SUBSET DOMAIN old, Selects(new, old, K),
         \A i, j \in K : heap[old[i]].hash = heap[old[j]].hash => i = j
  PROVE  Apart(heap, new)
<1>1. PICK g : Picks(g, new, old, K)
  BY DEF Selects
<1> SUFFICES ASSUME NEW i \in DOMAIN new, NEW j \in DOMAIN new,
                    heap[new[i]].hash = heap[new[j]].hash
             PROVE  i = j
  BY DEF Apart
<1>2. g[i] \in K /\ g[j] \in K /\ new[i] = old[g[i]] /\ new[j] = old[g[j]]
  BY <1>1 DEF Picks
<1>3. g[i] = g[j]
  BY <1>2
<1> QED  BY <1>1, <1>3 DEF Picks

\* Some nodes of a list, and another list.
LEMMA DisjointSelects ==
  ASSUME NEW heap, NEW new, NEW old, NEW K \in SUBSET DOMAIN old, Selects(new, old, K), NEW list,
         \A i \in DOMAIN list : \A k \in K : heap[list[i]].hash # heap[old[k]].hash
  PROVE  Disjoint(heap, list, new)
<1>1. PICK g : Picks(g, new, old, K)
  BY DEF Selects
<1>2. \A j \in DOMAIN new : g[j] \in K /\ new[j] = old[g[j]]
  BY <1>1 DEF Picks
<1> QED  BY <1>2 DEF Disjoint


\* A GET that asks for nothing twice: what is new is neither owned nor missing.
LEMMA GetApart ==
  ASSUME TypeOK, FreshPointers, NEW p \in Peers, process_get(p), AsksAfresh,
         Apart(chunk[p], missing[p])
  PROVE  /\ Apart(chunk'[p], missing'[p])
         /\ OwnedHere(chunk[p], have[p], missing[p]) => OwnedHere(chunk'[p], have'[p], missing'[p])
<1> DEFINE n == request[p] + 1
           lines == NextFile(p)
           K == AbsentLines(p, lines)
           list == [l \in DOMAIN lines |-> <<n, l>>]
           heap == HeapAfterGet(p, n, lines)
<1>1. lines \in Seq(Line) /\ chunk'[p] = heap /\ have'[p] = have[p]
  BY GetHeap
<1>2. /\ DistinctHashes(lines)
      /\ \A j \in DOMAIN missing[p] : \A l \in DOMAIN lines :
            chunk[p][missing[p][j]].hash # lines[l].hash
  BY DEF AsksAfresh
<1>3. PICK front \in Seq(DOMAIN chunk'[p]) : missing'[p] = front \o missing[p] /\ Selects(front, list, K)
  BY GetLists
<1>4. K \in SUBSET DOMAIN lines /\ DOMAIN list = DOMAIN lines /\ K \in SUBSET DOMAIN list
  BY DEF AbsentLines
<1>5. \A l \in K : heap[list[l]].hash = lines[l].hash
  <2> TAKE l \in K
  <2>1. ChunkOfLine(p, n, lines, l) = <<n, l>>
    BY DEF ChunkOfLine
  <2>2. list[l] = ChunkOfLine(p, n, lines, l)
    BY <1>4, <2>1
  <2>3. heap[ChunkOfLine(p, n, lines, l)].hash = lines[l].hash
    BY <1>1, <1>4, LineHash
  <2> QED  BY <2>2, <2>3
<1>6. HashKept(heap, chunk[p])
  BY GetHashes
<1>7. \A i \in DOMAIN missing[p] : missing[p][i] \in DOMAIN chunk[p]
  BY ListsAt
<1>8. \A i \in DOMAIN have[p] : have[p][i] \in DOMAIN chunk[p]
  BY HaveAt
<1>9. \A i \in DOMAIN have[p] : \A l \in K : chunk[p][have[p][i]].hash # lines[l].hash
  BY DEF AbsentLines, Owned
<1>10. missing[p] \in Seq(DOMAIN chunk'[p])
  <2>1. missing[p] \in Seq(DOMAIN chunk[p])
    BY ListsAt
  <2>2. \A i \in DOMAIN missing[p] : missing[p][i] \in DOMAIN chunk'[p]
    BY <1>1, <1>6, <1>7 DEF HashKept
  <2> QED  BY <2>1, <2>2, Retype
<1> HIDE DEF heap, list, K, lines
<1>11. Apart(heap, front)
  <2>1. \A i, j \in K : heap[list[i]].hash = heap[list[j]].hash => i = j
    BY <1>2, <1>4, <1>5 DEF DistinctHashes
  <2> QED  BY <1>3, <1>4, <2>1, ApartSelects
<1>12. Apart(heap, missing[p])
  BY <1>6, <1>7, ApartKept
<1>13. Disjoint(heap, missing[p], front)
  <2>1. \A i \in DOMAIN missing[p] : \A l \in K : heap[missing[p][i]].hash # heap[list[l]].hash
    BY <1>2, <1>4, <1>5, <1>6, <1>7 DEF HashKept
  <2> QED  BY <1>3, <1>4, <2>1, DisjointSelects, Zenon
<1>14. Disjoint(heap, front, missing[p])
  BY <1>13 DEF Disjoint
<1>15. Disjoint(heap, have[p], front)
  <2>1. \A i \in DOMAIN have[p] : \A l \in K : heap[have[p][i]].hash # heap[list[l]].hash
    BY <1>5, <1>6, <1>8, <1>9 DEF HashKept
  <2> QED  BY <1>3, <1>4, <2>1, DisjointSelects, Zenon
<1>16. Apart(heap, missing'[p])
  BY <1>3, <1>10, <1>11, <1>12, <1>14, ApartConcat
<1>17. ASSUME OwnedHere(chunk[p], have[p], missing[p]) PROVE OwnedHere(heap, have[p], missing'[p])
  <2>1. Apart(heap, have[p]) /\ Disjoint(heap, have[p], missing[p])
    BY <1>6, <1>7, <1>8, <1>17, ApartKept, DisjointKept DEF OwnedHere
  <2>2. Disjoint(heap, have[p], missing'[p])
    BY <1>3, <1>10, <1>15, <2>1, DisjointConcat
  <2> QED  BY <2>1, <2>2 DEF OwnedHere
<1> QED  BY <1>1, <1>16, <1>17

\* A chunk that comes leaves the missing list and enters the have list.
LEMMA CompleteApart ==
  ASSUME TypeOK, NEW m \in Packets, complete_DATA(m),
         Apart(chunk[m.dst], missing[m.dst])
  PROVE  /\ Apart(chunk'[m.dst], missing'[m.dst])
         /\ OwnedHere(chunk[m.dst], have[m.dst], missing[m.dst])
              => OwnedHere(chunk'[m.dst], have'[m.dst], missing'[m.dst])
<1> DEFINE p == m.dst
           hav == have[p]
           miss == missing[p]
<1>1. p \in Peers
  BY PacketFields
<1>2. PICK i \in node_find(DownloadsFrom(p, m.src)) : Completes(m, i)
  BY CompleteParts
<1> DEFINE c == Target(m, i)
           heap == FilledHeap(m, i)
<1>3. c \in DOMAIN chunk[p] /\ HeapOK(chunk[p])
  BY <1>1, DownloadAt, ListsAt DEF Target
<1>4. chunk'[p] = heap
  BY <1>1, <1>2, Zenon DEF Completes, TypeOK
<1>5. HashKept(heap, chunk[p])
  BY <1>3, DataHashes DEF FilledHeap
<1>6. miss \in Seq(DOMAIN chunk[p]) /\ hav \in Seq(DOMAIN chunk[p])
  BY <1>1, ListsAt, HaveAt
<1>7. /\ \A k \in DOMAIN miss : miss[k] \in DOMAIN chunk[p]
      /\ \A k \in DOMAIN hav : hav[k] \in DOMAIN chunk[p]
  BY <1>1, ListsAt, HaveAt
<1>8. /\ Apart(heap, miss)
      /\ OwnedHere(chunk[p], hav, miss) => Apart(heap, hav) /\ Disjoint(heap, hav, miss)
  BY <1>5, <1>7, ApartKept, DisjointKept DEF OwnedHere
<1>9. CASE Same(m, i) = {}
  <2>1. missing' = missing /\ have' = have
    BY <1>2, <1>9 DEF Completes
  <2> QED  BY <1>4, <1>8, <2>1 DEF OwnedHere
<1>10. CASE Same(m, i) # {}
  <2>1. have' = [have EXCEPT ![p] = node_insert(hav, c)]
    BY <1>2, <1>10 DEF Completes
  <2>2. have'[p] = <<c>> \o hav
    BY <1>1, <2>1 DEF TypeOK, node_insert
  <2>3. PICK j \in Same(m, i) : missing'[p] = node_delete(miss, j)
    BY <1>2, <1>10, CompleteMissing
  <2>4. j \in DOMAIN miss /\ chunk[p][miss[j]].hash = chunk[p][c].hash
    BY <2>3 DEF Same
  <2>5. heap[miss[j]].hash = heap[c].hash
    BY <1>3, <1>5, <1>7, <2>4 DEF HashKept
  <2>6. Selects(missing'[p], miss, DOMAIN miss \ {j})
    BY <1>6, <2>3, <2>4, DeleteSelects
  <2> HIDE DEF heap, c, miss, hav
  <2>7. Apart(heap, missing'[p])
    <3>1. \A k, l \in DOMAIN miss \ {j} : heap[miss[k]].hash = heap[miss[l]].hash => k = l
      BY <1>8 DEF Apart
    <3> QED  BY <2>6, <3>1, ApartSelects
  <2>8. <<c>> \in Seq(DOMAIN chunk[p]) /\ DOMAIN <<c>> = {1} /\ <<c>>[1] = c
    <3>1. ASSUME NEW S, NEW x \in S PROVE <<x>> \in Seq(S) /\ DOMAIN <<x>> = {1} /\ <<x>>[1] = x
      OBVIOUS
    <3> QED  BY <1>3, <3>1
  <2>9. ASSUME OwnedHere(chunk[p], hav, miss) PROVE OwnedHere(heap, have'[p], missing'[p])
    <3>1. Apart(heap, hav) /\ Disjoint(heap, hav, miss)
      BY <1>8, <2>9
    <3>9. Apart(heap, <<c>>) /\ Disjoint(heap, <<c>>, hav)
      BY <2>4, <2>5, <2>8, <3>1 DEF Apart, Disjoint
    <3>10. Apart(heap, have'[p])
      BY <1>6, <2>2, <2>8, <3>1, <3>9, ApartConcat DEF hav
    <3>11. Disjoint(heap, hav, missing'[p])
      <4>9. DOMAIN miss \ {j} \in SUBSET DOMAIN miss
        OBVIOUS
      <4>1. \A k \in DOMAIN hav : \A l \in DOMAIN miss \ {j} : heap[hav[k]].hash # heap[miss[l]].hash
        BY <3>1 DEF Disjoint
      <4> QED  BY <2>6, <4>1, <4>9, DisjointSelects, Zenon
    <3>12. Disjoint(heap, <<c>>, missing'[p])
      <4>9. DOMAIN miss \ {j} \in SUBSET DOMAIN miss
        OBVIOUS
      <4>1. \A l \in DOMAIN miss \ {j} : heap[c].hash # heap[miss[l]].hash
        BY <1>8, <2>4, <2>5 DEF Apart
      <4>2. \A k \in DOMAIN <<c>> : \A l \in DOMAIN miss \ {j} : heap[<<c>>[k]].hash # heap[miss[l]].hash
        BY <2>8, <4>1
      <4> QED  BY <2>6, <4>2, <4>9, DisjointSelects, Zenon
    <3>13. Disjoint(heap, have'[p], missing'[p])
      <4>1. Disjoint(heap, missing'[p], hav) /\ Disjoint(heap, missing'[p], <<c>>)
        BY <3>11, <3>12 DEF Disjoint
      <4>2. Disjoint(heap, missing'[p], <<c>> \o hav)
        BY <1>6, <2>8, <4>1, DisjointConcat DEF hav
      <4> QED  BY <2>2, <4>2 DEF Disjoint
    <3> QED  BY <3>10, <3>13 DEF OwnedHere
  <2> QED  BY <1>4, <2>7, <2>9 DEF heap, hav, miss
<1> QED  BY <1>9, <1>10

\* Every step keeps a hash from being owned or missing twice.
LEMMA OwnedApartStep ==
  ASSUME TypeOK, AnnouncedOnce, FreshPointers, MissingApart, [Next]_vars, [AsksAfresh]_vars
  PROVE  MissingApart' /\ (OwnedApart => OwnedApart')
<1> DEFINE Step(p) ==
      /\ Apart(chunk'[p], missing'[p])
      /\ OwnedHere(chunk[p], have[p], missing[p]) => OwnedHere(chunk'[p], have'[p], missing'[p])
<1> SUFFICES ASSUME NEW p \in Peers PROVE Step(p)
  BY Zenon DEF OwnedApart, MissingApart
<1>1. Apart(chunk[p], missing[p])
  BY DEF MissingApart
<1>2. CASE ListsStay(p)
  <2>1. HashKept(chunk'[p], chunk[p])
    BY HashesStep
  <2>2. have'[p] = have[p] /\ missing'[p] = missing[p]
    BY <1>2 DEF ListsStay
  <2>3. /\ \A k \in DOMAIN missing[p] : missing[p][k] \in DOMAIN chunk[p]
        /\ \A k \in DOMAIN have[p] : have[p][k] \in DOMAIN chunk[p]
    BY ListsAt, HaveAt
  <2> QED  BY <1>1, <2>1, <2>2, <2>3, ApartKept, DisjointKept DEF OwnedHere
<1>3. CASE process_get(p)
  <2>1. CASE AsksAfresh  BY <1>1, <1>3, <2>1, GetApart
  <2>2. CASE UNCHANGED vars
    <3>1. ListsStay(p)
      BY <2>2, Zenon DEF vars, chunkVars, userVars, ListsStay
    <3> QED  BY <1>2, <3>1
  <2> QED  BY <2>1, <2>2
<1>4. ASSUME NEW m \in BagToSet(net), complete_DATA(m), m.dst = p
      PROVE  Step(p)
  <2>1. m \in Packets
    BY DEF TypeOK
  <2> QED  BY <1>1, <1>4, <2>1, CompleteApart
<1> HIDE DEF Step
<1> QED  BY <1>2, <1>3, <1>4, PeerMoves DEF AnnouncedOnce

\* Nothing is missing initially.
LEMMA MissingApartInit == Init => MissingApart
  BY DEF Init, MissingApart, Apart

\* The has-chunk file names a chunk once.
LEMMA OwnedApartInit == HasFilesDistinct /\ Init => OwnedApart
<1> SUFFICES ASSUME HasFilesDistinct, Init, NEW p \in Peers
             PROVE  OwnedHere(chunk[p], have[p], missing[p])
  BY DEF OwnedApart
<1> DEFINE lines == HasFile[p]
           list == [l \in DOMAIN lines |-> <<0, l>>]
           D == {<<0, l>> : l \in DOMAIN lines}
<1>1. missing[p] = << >> /\ have[p] = Reverse(list)
  BY DEF Init, parse_chunkfile
<1>2. DistinctHashes(lines) /\ lines \in Seq(Line)
  BY PeerAssumption DEF HasFilesDistinct
<1>3. \A l \in DOMAIN lines : chunk[p][list[l]].hash = lines[l].hash
  <2> TAKE l \in DOMAIN lines
  <2>1. chunk[p] = [r \in D |-> LoadedChunk(lines[r[2]])]
    BY DEF Init
  <2>2. list[l] = <<0, l>> /\ <<0, l>> \in D
    OBVIOUS
  <2>3. chunk[p][list[l]] = LoadedChunk(lines[l])
    BY <2>1, <2>2
  <2>4. LoadedChunk(lines[l]).hash = lines[l].hash
    BY DEF LoadedChunk, create_chunk
  <2> QED  BY <2>3, <2>4
<1>4. list \in [DOMAIN lines -> D]
  OBVIOUS
<1> HIDE DEF list, D, lines
<1>5. list \in Seq(D) /\ DOMAIN list = DOMAIN lines
  BY <1>2, <1>4, FunctionSeq
<1>6. Selects(Reverse(list), list, DOMAIN list)
  BY <1>5, ReverseSelects
<1>7. Apart(chunk[p], have[p])
  <2>1. \A i, j \in DOMAIN list : chunk[p][list[i]].hash = chunk[p][list[j]].hash => i = j
    BY <1>2, <1>3, <1>5 DEF DistinctHashes
  <2> QED  BY <1>1, <1>6, <2>1, ApartSelects
<1>8. DOMAIN missing[p] = {}
  BY <1>1
<1> QED  BY <1>7, <1>8 DEF OwnedHere, Disjoint

\* While no user asks for a chunk again before it has come, no peer owns a hash
\* twice, whatever the other peers and the network do: receive_WHOHAS's array
\* holds all the matches it collects.
THEOREM OwnedOnce == HasFilesDistinct /\ Spec /\ [][AsksAfresh]_vars => []HaveDistinct
<1> DEFINE Inv == /\ TypeOK /\ DownloadsMatchMissing /\ AnnouncedOnce
                  /\ FreshPointers /\ MissingApart /\ OwnedApart
<1>1. HasFilesDistinct /\ Init => Inv
  BY InitType, MatchInit, AnnouncedInit, FreshInit, MissingApartInit, OwnedApartInit
<1>2. Inv /\ [Next]_vars /\ [AsksAfresh]_vars => Inv'
  <2> SUFFICES ASSUME Inv, [Next]_vars, [AsksAfresh]_vars PROVE Inv'
    OBVIOUS
  <2>1. TypeOK' /\ DownloadsMatchMissing' /\ AnnouncedOnce'
    BY StepType, MatchStep, AnnouncedStep
  <2>2. FreshPointers' /\ MissingApart' /\ OwnedApart'
    BY FreshStep, OwnedApartStep DEF AnnouncedOnce
  <2> QED  BY <2>1, <2>2
<1>3. Inv => HaveDistinct
  BY DEF OwnedApart, OwnedHere, Apart, HaveDistinct
<1> QED  BY <1>1, <1>2, <1>3, PTL DEF Spec


------------------------------------------------------------------------------
(* What is downloaded is a chunk of the missing list itself. *)

Points(list, r) == \E j \in DOMAIN list : list[j] = r

\* Every transfer of new is of a chunk of down or of the list.
DrawnFrom(new, list, down) ==
    \A k \in DOMAIN new : Points(list, new[k].c) \/ \E i \in DOMAIN down : down[i].c = new[k].c

DownMissing == \A p \in Peers : \A k \in DOMAIN downloads[p] : Points(missing[p], downloads[p][k].c)

\* init_data_transfer opens transfers for missing chunks.
LEMMA StartDrawn ==
  ASSUME TypeOK, NEW p \in Peers, NEW D, NEW heap, NEW miss \in Seq(D), NEW down \in Seq(Download(D)),
         NEW avail, NEW f \in get_chunk_data(heap, miss, down, avail),
         StartDownloads(p, miss, down, avail, f)
  PROVE  DrawnFrom(downloads'[p], miss, down)
<1> DEFINE new == NewDownloads(miss, f)
           both == new \o down
<1>1. f \in [DOMAIN miss -> Peers \cup {NoPeer}]
  BY Decision
<1>2. new \in Seq(Download(D))
  BY <1>1, NewDownloadsType
<1>3. PICK from : OpenedFor(from, new, miss, f)
  BY <1>1, NewDownloadAt
<1>4. downloads'[p] = both
  BY DEF StartDownloads, TypeOK
<1> HIDE DEF new
<1>5. \A i \in DOMAIN both : \/ i \in DOMAIN new /\ both[i] = new[i]
                             \/ i - Len(new) \in DOMAIN down /\ both[i] = down[i - Len(new)]
  BY <1>2, ConcatAt
<1> HIDE DEF both
<1>6. \A i \in DOMAIN new : from[i] \in DOMAIN miss /\ new[i].c = miss[from[i]]
  BY <1>3 DEF OpenedFor
<1> QED  BY <1>4, <1>5, <1>6 DEF DrawnFrom, Points

\* Deleting transfers opens none.
LEMMA ThinnedDrawn ==
  ASSUME NEW new, NEW old, NEW S, Thinned(new, old, S)
  PROVE  \A k \in DOMAIN new : \E i \in DOMAIN old : old[i].c = new[k].c
<1>1. PICK g : ThinnedBy(g, new, old, S)
  BY DEF Thinned
<1> QED  BY <1>1 DEF ThinnedBy

\* Deleting transfers and then starting some.
LEMMA DrawnThinned ==
  ASSUME NEW new, NEW list, NEW mid, NEW old, NEW S, DrawnFrom(new, list, mid), Thinned(mid, old, S)
  PROVE  DrawnFrom(new, list, old)
  BY ThinnedDrawn DEF DrawnFrom

\* The downloads of a datagram's receiver, unless it completes a chunk.
LEMMA InboundDrawn ==
  ASSUME TypeOK, NEW m \in Packets, process_inbound_udp(m), ~complete_DATA(m)
  PROVE  missing' = missing /\ DrawnFrom(downloads'[m.dst], missing[m.dst], downloads[m.dst])
<1> DEFINE p == m.dst
           D == DOMAIN chunk[p]
<1>1. p \in Peers
  BY PacketFields
<1>2. missing[p] \in Seq(D) /\ downloads[p] \in Seq(Download(D))
  BY <1>1, ListsAt
<1>3. CASE receive_IHAVE(m)
  <2>1. missing' = missing
    BY <1>3, Zenon DEF receive_IHAVE
  <2>2. \E f \in get_chunk_data(HeapAfterIhave(p, m.src, m.hashes), missing[p], downloads[p], available[p]) :
            StartDownloads(p, missing[p], downloads[p], available[p], f)
    BY <1>3, Zenon DEF receive_IHAVE, HeapAfterIhave
  <2> QED  BY <1>1, <1>2, <2>1, <2>2, StartDrawn
<1>4. CASE drop_DENIED(m)
  <2>1. PICK i \in node_find(DownloadsFrom(p, m.src)) :
           downloads' = [downloads EXCEPT ![p] = node_delete(downloads[p], i)]
    BY <1>4, Zenon DEF drop_DENIED
  <2>2. downloads'[p] = node_delete(downloads[p], i) /\ missing' = missing
    BY <1>1, <1>4, <2>1 DEF drop_DENIED, TypeOK, chunkVars
  <2>3. Thinned(node_delete(downloads[p], i), downloads[p], {downloads[p][i].peer})
    BY <1>1, <1>2, DownloadAt, ThinnedDelete
  <2> QED  BY <2>2, <2>3, ThinnedDrawn DEF DrawnFrom
<1>5. CASE corrupt_DATA(m)
  <2> DEFINE down(i) == node_delete(downloads[p], i)
             avail == available[p] \cup {m.src}
  <2>0. PICK i \in node_find(DownloadsFrom(p, m.src)) : \E heap : NextDownloads(m, i, heap, missing[p])
    BY <1>5, Zenon DEF corrupt_DATA
  <2>1. PICK heap : NextDownloads(m, i, heap, missing[p])
    BY <2>0
  <2>2. PICK f \in get_chunk_data(heap, missing[p], down(i), avail) :
            StartDownloads(p, missing[p], down(i), avail, f)
    BY <2>1, Zenon DEF NextDownloads
  <2>3. i \in DOMAIN downloads[p]
    BY <1>1, <2>1, DownloadAt
  <2>4. down(i) \in Seq(Download(D)) /\ Thinned(down(i), downloads[p], {downloads[p][i].peer})
    BY <1>2, <2>3, NodeDelete, ThinnedDelete
  <2> HIDE DEF down, avail
  <2>5. DrawnFrom(downloads'[p], missing[p], down(i))
    BY <1>1, <1>2, <2>2, <2>4, StartDrawn
  <2>6. missing' = missing
    BY <1>5 DEF corrupt_DATA
  <2> QED  BY <2>4, <2>5, <2>6, DrawnThinned
<1>6. CASE missing' = missing /\ downloads' = downloads
  BY <1>6 DEF DrawnFrom
<1>7. \/ missing' = missing /\ downloads' = downloads
      \/ receive_IHAVE(m) \/ drop_DENIED(m) \/ corrupt_DATA(m)
  BY Zenon DEF process_inbound_udp, receive_WHOHAS, receive_GET, refuse_GET, ignore_GET, accept_GET,
     receive_ACK, stray_ACK, last_ACK, new_ACK, loss_ACK, old_ACK, Continue,
     receive_DENIED, stray_DENIED, receive_DATA, stray_DATA, store_DATA, chunkVars, transferVars
<1> QED  BY <1>3, <1>4, <1>5, <1>6, <1>7

\* The downloads of a peer whose select times out.
LEMMA TimeoutDrawn ==
  ASSUME TypeOK, NEW p \in Peers, handle_timeout(p)
  PROVE  missing' = missing /\ DrawnFrom(downloads'[p], missing[p], downloads[p])
<1>1. CASE missing[p] = << >>
  <2>1. downloads' = downloads /\ missing' = missing
    BY <1>1, Zenon DEF handle_timeout, handle_client_timeout
  <2> QED  BY <2>1 DEF DrawnFrom
<1>2. CASE missing[p] # << >>
  <2> DEFINE down == DownloadsAfterTimeout(p)
             avail == (available[p] \cup FreedByServer(p)) \cup DeadPeers(p)
  <2>1. PICK f \in get_chunk_data(ForgetDeadPeers(p), missing[p], down, avail) :
            StartDownloads(p, missing[p], down, avail, f)
    BY <1>2, Zenon DEF handle_timeout, handle_client_timeout
  <2>2. down \in Seq(Download(DOMAIN chunk[p])) /\ Thinned(down, downloads[p], DeadPeers(p))
    BY DownloadsAfterTimeoutType, ThinnedDownloads
  <2>3. missing[p] \in Seq(DOMAIN chunk[p])
    BY ListsAt
  <2> HIDE DEF down, avail
  <2>4. DrawnFrom(downloads'[p], missing[p], down)
    BY <2>1, <2>2, <2>3, StartDrawn
  <2>5. missing' = missing
    BY Zenon DEF handle_timeout
  <2> QED  BY <2>2, <2>4, <2>5, DrawnThinned
<1> QED  BY <1>1, <1>2

\* The chunk that completes is the missing one of its hash.
LEMMA CompleteTakes ==
  ASSUME TypeOK, DownloadsMatchMissing, MissingApart, DownMissing,
         NEW m \in Packets, NEW i \in node_find(DownloadsFrom(m.dst, m.src)), Completes(m, i)
  PROVE  \E j \in DOMAIN missing[m.dst] :
            /\ missing[m.dst][j] = Target(m, i)
            /\ missing'[m.dst] = node_delete(missing[m.dst], j)
            /\ have'[m.dst] = node_insert(have[m.dst], Target(m, i))
<1> DEFINE p == m.dst
           c == Target(m, i)
<1>1. p \in Peers /\ i \in DOMAIN downloads[p]
  BY PacketFields, DownloadAt
<1>2. PICK k \in DOMAIN missing[p] : missing[p][k] = c
  BY <1>1 DEF DownMissing, Points, Target
<1>3. k \in Same(m, i)
  BY <1>2 DEF Same
<1>4. PICK j \in Same(m, i) : missing'[p] = node_delete(missing[p], j)
  BY <1>3, CompleteMissing
<1>5. j = k
  <2>1. j \in DOMAIN missing[p] /\ chunk[p][missing[p][j]].hash = chunk[p][missing[p][k]].hash
    BY <1>2, <1>4 DEF Same
  <2> QED  BY <1>1, <2>1 DEF MissingApart, Apart
<1>6. have'[p] = node_insert(have[p], c)
  <2>1. have' = [have EXCEPT ![p] = node_insert(have[p], c)]
    BY <1>3 DEF Completes
  <2> QED  BY <1>1, <2>1 DEF TypeOK
<1> QED  BY <1>2, <1>4, <1>5, <1>6

\* The transfers left are of the chunks that are still missing.
LEMMA CompleteDrawn ==
  ASSUME TypeOK, DownloadsMatchMissing, MissingApart, DownMissing, NEW m \in Packets, complete_DATA(m)
  PROVE  \A k \in DOMAIN downloads'[m.dst] : Points(missing'[m.dst], downloads'[m.dst][k].c)
<1> DEFINE p == m.dst
           D == DOMAIN chunk[p]
           down == downloads[p]
           miss == missing[p]
           miss2 == missing'[p]
<1>1. p \in Peers
  BY PacketFields
<1>2. PICK i \in node_find(DownloadsFrom(p, m.src)) : Completes(m, i)
  BY CompleteParts
<1>3. PICK j \in DOMAIN miss : miss[j] = Target(m, i) /\ miss2 = node_delete(miss, j)
  BY <1>2, CompleteTakes
<1>4. i \in DOMAIN down /\ down \in Seq(Download(D)) /\ miss \in Seq(D)
  BY <1>1, DownloadAt, ListsAt
<1>5. miss2 \in Seq(D) /\ NextDownloads(m, i, FilledHeap(m, i), miss2)
  BY <1>2, CompleteMissing DEF Completes
<1> DEFINE rest == node_delete(down, i)
           avail == available[p] \cup {m.src}
<1>6. PICK f \in get_chunk_data(FilledHeap(m, i), miss2, rest, avail) : StartDownloads(p, miss2, rest, avail, f)
  BY <1>5, Zenon DEF NextDownloads
<1>7. rest \in Seq(Download(D)) /\ Selects(rest, down, DOMAIN down \ {i})
  BY <1>4, NodeDelete, DeleteSelects
<1>8. Selects(miss2, miss, DOMAIN miss \ {j})
  BY <1>3, <1>4, DeleteSelects
<1>9. \A k \in DOMAIN down : Points(miss, down[k].c)
  BY <1>1 DEF DownMissing
<1>10. \A k \in DOMAIN down \ {i} : down[k].c # miss[j]
  BY <1>1, <1>3, <1>4, SMTT(30) DEF DownloadsMatchMissing, Target
<1> HIDE DEF rest, avail, down, miss, miss2
<1>11. DrawnFrom(downloads'[p], miss2, rest)
  BY <1>1, <1>5, <1>6, <1>7, StartDrawn
<1>12. \A k \in DOMAIN down \ {i} : Points(miss2, down[k].c)
  <2> TAKE k \in DOMAIN down \ {i}
  <2>1. PICK l \in DOMAIN miss : miss[l] = down[k].c
    BY <1>9 DEF Points
  <2>2. l \in DOMAIN miss \ {j}
    BY <1>10, <2>1
  <2>3. PICK h : Picks(h, miss2, miss, DOMAIN miss \ {j})
    BY <1>8 DEF Selects
  <2>4. PICK x \in DOMAIN miss2 : h[x] = l
    BY <2>2, <2>3 DEF Picks
  <2>5. miss2[x] = miss[l]
    BY <2>3, <2>4, Zenon DEF Picks
  <2> QED  BY <2>1, <2>4, <2>5 DEF Points
<1>13. \A k \in DOMAIN rest : Points(miss2, rest[k].c)
  <2>1. PICK g : Picks(g, rest, down, DOMAIN down \ {i})
    BY <1>7 DEF Selects
  <2>2. \A k \in DOMAIN rest : g[k] \in DOMAIN down \ {i} /\ rest[k] = down[g[k]]
    BY <2>1 DEF Picks
  <2> QED  BY <1>12, <2>2
<1>14. \A k \in DOMAIN downloads'[p] : Points(miss2, downloads'[p][k].c)
  BY <1>11, <1>13 DEF DrawnFrom
<1> QED  BY <1>14 DEF miss2

\* Every step keeps the transfers on missing chunks.
LEMMA DownStep ==
  ASSUME TypeOK, DownloadsMatchMissing, MissingApart, DownMissing, [Next]_vars
  PROVE  DownMissing'
<1> SUFFICES ASSUME NEW p \in Peers
             PROVE  \A k \in DOMAIN downloads'[p] : Points(missing'[p], downloads'[p][k].c)
  BY Zenon DEF DownMissing
<1>1. \A k \in DOMAIN downloads[p] : Points(missing[p], downloads[p][k].c)
  BY DEF DownMissing
<1>2. ASSUME missing'[p] = missing[p], DrawnFrom(downloads'[p], missing[p], downloads[p])
      PROVE  \A k \in DOMAIN downloads'[p] : Points(missing'[p], downloads'[p][k].c)
  BY <1>1, <1>2 DEF DrawnFrom
<1>3. ASSUME missing'[p] = missing[p], downloads'[p] = downloads[p]
      PROVE  \A k \in DOMAIN downloads'[p] : Points(missing'[p], downloads'[p][k].c)
  BY <1>1, <1>3
<1>4. ASSUME NEW m \in BagToSet(net), process_inbound_udp(m)
      PROVE  \A k \in DOMAIN downloads'[p] : Points(missing'[p], downloads'[p][k].c)
  <2>1. m \in Packets
    BY DEF TypeOK
  <2>2. CASE p # m.dst
    BY <1>3, <1>4, <2>2, InboundLocal DEF Local
  <2>3. CASE p = m.dst /\ complete_DATA(m)
    BY <2>1, <2>3, CompleteDrawn
  <2>4. CASE p = m.dst /\ ~complete_DATA(m)
    BY <1>2, <1>4, <2>1, <2>4, InboundDrawn
  <2> QED  BY <2>2, <2>3, <2>4
<1>5. ASSUME NEW q \in Peers, process_get(q)
      PROVE  \A k \in DOMAIN downloads'[p] : Points(missing'[p], downloads'[p][k].c)
  <2>1. CASE p = q
    <3>1. downloads' = downloads
      BY <1>5, Zenon DEF process_get, transferVars
    <3>2. \A j \in DOMAIN missing[p] : \E l \in DOMAIN missing'[p] : missing'[p][l] = missing[p][j]
      BY <1>5, <2>1, GetMissing
    <3> QED  BY <1>1, <3>1, <3>2 DEF Points
  <2>2. CASE p # q
    BY <1>3, <1>5, <2>2, GetLocal DEF Local
  <2> QED  BY <2>1, <2>2
<1>6. ASSUME NEW q \in Peers, handle_timeout(q)
      PROVE  \A k \in DOMAIN downloads'[p] : Points(missing'[p], downloads'[p][k].c)
  <2>1. CASE p # q
    BY <1>3, <1>6, <2>1, TimeoutLocal DEF Local
  <2>2. CASE p = q
    BY <1>2, <1>6, <2>2, TimeoutDrawn
  <2> QED  BY <2>1, <2>2
<1>7. ASSUME \/ \E m : Lose(m) \/ Duplicate(m)
             \/ UNCHANGED vars
      PROVE  \A k \in DOMAIN downloads'[p] : Points(missing'[p], downloads'[p][k].c)
  <2>1. downloads' = downloads /\ missing' = missing
    BY <1>7, Zenon DEF Lose, Duplicate, vars, transferVars, chunkVars
  <2> QED  BY <1>3, <2>1
<1> QED  BY <1>4, <1>5, <1>6, <1>7, Zenon DEF Next, QuietTimeout, EarlyTimeout

\* There are no transfers initially.
LEMMA DownInit == Init => DownMissing
  BY DEF Init, DownMissing


------------------------------------------------------------------------------
(* The output file is what the get-chunk file describes. *)

\* The chunks of the wanted list are those of the lines, each with its line's
\* id and hash.
Describes(heap, want, lines) ==
    /\ DistinctIds(lines)
    /\ \A l \in DOMAIN lines : \E k \in DOMAIN want :
          heap[want[k]].id = lines[l].id /\ heap[want[k]].hash = lines[l].hash
    /\ \A k \in DOMAIN want : \E l \in DOMAIN lines :
          heap[want[k]].id = lines[l].id /\ heap[want[k]].hash = lines[l].hash

\* Every wanted chunk is owned or still missing.
Placed(hav, miss, want) == \A k \in DOMAIN want : Points(hav, want[k]) \/ Points(miss, want[k])

\* GotComplete, of one output file.
Answers(data, lines) ==
    \A l \in DOMAIN lines :
        lines[l].id \in DOMAIN data /\ \A s \in SeqNums : data[lines[l].id][s] = lines[l].hash

\* The wanted list is empty when nothing is missing, and otherwise the file of
\* the last GET.
WantedOK ==
    \A p \in Peers :
        IF missing[p] = << >>
          THEN wanted[p] = << >>
          ELSE /\ Describes(chunk[p], wanted[p], GetFiles[p][request[p]])
               /\ Placed(have[p], missing[p], wanted[p])

\* construct_data writes intact chunks to where the lines say.
LEMMA Written ==
  ASSUME NEW heap, NEW D, NEW want \in Seq(D), NEW lines, Describes(heap, want, lines),
         \A k \in DOMAIN want : Intact(heap[want[k]])
  PROVE  Answers(construct_data(heap, want), lines)
<1> DEFINE data == construct_data(heap, want)
           Ids == {heap[want[k]].id : k \in DOMAIN want}
           Latest(id) == CHOOSE k \in DOMAIN want :
                          /\ heap[want[k]].id = id
                          /\ \A j \in DOMAIN want : heap[want[j]].id = id => j <= k
<1> SUFFICES ASSUME NEW l \in DOMAIN lines
             PROVE  /\ lines[l].id \in DOMAIN data
                    /\ \A s \in SeqNums : data[lines[l].id][s] = lines[l].hash
  BY Zenon DEF Answers
<1>1. data = [id \in Ids |-> heap[want[Latest(id)]].data]
  BY Zenon DEF construct_data
<1> DEFINE id == lines[l].id
<1>2. id \in Ids
  BY DEF Describes
<1>3. data[id] = heap[want[Latest(id)]].data /\ DOMAIN data = Ids
  <2> HIDE DEF data, Ids, Latest
  <2> QED  BY <1>1, <1>2
<1>4. Latest(id) \in DOMAIN want /\ heap[want[Latest(id)]].id = id
  <2> DEFINE K == {k \in DOMAIN want : heap[want[k]].id = id}
  <2>1. Len(want) \in Nat /\ K \in SUBSET (1..Len(want)) /\ K # {}
    BY <1>2, LenProperties
  <2>2. PICK x \in K : \A y \in K : y <= x
    <3> HIDE DEF K
    <3> QED  BY <2>1, GreatestNat
  <2>3. x \in DOMAIN want /\ heap[want[x]].id = id /\ \A j \in DOMAIN want : heap[want[j]].id = id => j <= x
    BY <2>2
  <2> QED  BY <2>3
<1> HIDE DEF Latest, data
<1>5. PICK k \in DOMAIN want : k = Latest(id)
  BY <1>4
<1>6. PICK j \in DOMAIN lines : heap[want[k]].id = lines[j].id /\ heap[want[k]].hash = lines[j].hash
  BY DEF Describes
<1>7. j = l
  BY <1>4, <1>5, <1>6 DEF Describes, DistinctIds
<1>8. \A s \in SeqNums : heap[want[k]].data[s] = heap[want[k]].hash
  BY DEF Intact
<1> QED  BY <1>2, <1>3, <1>5, <1>6, <1>7, <1>8

\* check_all_received, where the wanted list is the file's: what is announced
\* is complete, and otherwise the list stays the file's.
LEMMA Settled ==
  ASSUME TypeOK, AnnouncedOnce, NEW p \in Peers, NEW want, NEW D, want \in Seq(D),
         check_all_received(p, request'[p], chunk'[p], missing'[p], want),
         Describes(chunk'[p], want, GetFiles[p][request'[p]]),
         Placed(have'[p], missing'[p], want), HaveValid',
         \A i \in DOMAIN got[p] : Answers(got[p][i].data, GetFiles[p][got[p][i].file])
  PROVE  /\ IF missing'[p] = << >>
              THEN wanted'[p] = << >>
              ELSE /\ Describes(chunk'[p], wanted'[p], GetFiles[p][request'[p]])
                   /\ Placed(have'[p], missing'[p], wanted'[p])
         /\ \A i \in DOMAIN got'[p] : Answers(got'[p][i].data, GetFiles[p][got'[p][i].file])
<1>1. p \in DOMAIN wanted /\ p \in DOMAIN got
  BY DEF TypeOK, AnnouncedOnce
<1>2. CASE missing'[p] = << >>
  <2> DEFINE rec == [file |-> request'[p], data |-> construct_data(chunk'[p], want)]
  <2>1. got' = [got EXCEPT ![p] = Append(got[p], rec)] /\ wanted' = [wanted EXCEPT ![p] = << >>]
    BY <1>2, Zenon DEF check_all_received
  <2>2. rec.file = request'[p] /\ rec.data = construct_data(chunk'[p], want)
    OBVIOUS
  <2>3. \A k \in DOMAIN want : Intact(chunk'[p][want[k]])
    <3> TAKE k \in DOMAIN want
    <3>1. ~Points(missing'[p], want[k])
      BY <1>2 DEF Points
    <3>2. PICK i \in DOMAIN have'[p] : have'[p][i] = want[k]
      BY <3>1 DEF Placed, Points
    <3>3. (\A q \in Peers : \A j \in DOMAIN have[q] : Intact(chunk[q][have[q][j]]))'
      BY Zenon DEF HaveValid
    <3>4. \A q \in Peers : \A j \in DOMAIN have'[q] :
             \A s \in SeqNums : chunk'[q][have'[q][j]].data[s] = chunk'[q][have'[q][j]].hash
      BY <3>3, Zenon DEF Intact
    <3> QED  BY <3>2, <3>4 DEF Intact
  <2>4. Answers(construct_data(chunk'[p], want), GetFiles[p][request'[p]])
    BY <2>3, Written
  <2> HIDE DEF rec
  <2>5. got'[p] = Append(got[p], rec) /\ wanted'[p] = << >>
    BY <1>1, <2>1
  <2>6. got[p] \in Seq({got[p][i] : i \in DOMAIN got[p]})
    BY DEF AnnouncedOnce, FilesOnce
  <2>7. \A i \in DOMAIN got'[p] : got'[p][i] = rec \/ (i \in DOMAIN got[p] /\ got'[p][i] = got[p][i])
    <3>1. ASSUME NEW S, NEW g \in Seq(S), NEW r, NEW i \in DOMAIN Append(g, r)
          PROVE  Append(g, r)[i] = r \/ (i \in DOMAIN g /\ Append(g, r)[i] = g[i])
      BY <3>1
    <3> QED  BY <2>5, <2>6, <3>1
  <2>8. \A i \in DOMAIN got'[p] : Answers(got'[p][i].data, GetFiles[p][got'[p][i].file])
    <3> TAKE i \in DOMAIN got'[p]
    <3>1. CASE got'[p][i] = rec
      BY <2>2, <2>4, <3>1
    <3>2. CASE i \in DOMAIN got[p] /\ got'[p][i] = got[p][i]
      BY <3>2
    <3> QED  BY <2>7, <3>1, <3>2
  <2> QED  BY <1>2, <2>5, <2>8
<1>3. CASE missing'[p] # << >>
  <2>1. got' = got /\ wanted' = [wanted EXCEPT ![p] = want]
    BY <1>3, Zenon DEF check_all_received
  <2>2. wanted'[p] = want
    BY <1>1, <2>1
  <2> QED  BY <1>3, <2>1, <2>2
<1> QED  BY <1>2, <1>3

\* A heap that keeps ids and hashes still holds the wanted chunks.
LEMMA DescribesKept ==
  ASSUME NEW new, NEW old, HashKept(new, old), IdKept(new, old), NEW want, NEW lines,
         \A k \in DOMAIN want : want[k] \in DOMAIN old, Describes(old, want, lines)
  PROVE  Describes(new, want, lines)
<1>1. \A k \in DOMAIN want : new[want[k]].id = old[want[k]].id /\ new[want[k]].hash = old[want[k]].hash
  BY DEF HashKept, IdKept
<1> QED  BY <1>1 DEF Describes

\* The wanted list points into the heap.
LEMMA WantedAt ==
  ASSUME TypeOK, NEW p \in Peers
  PROVE  wanted[p] \in Seq(DOMAIN chunk[p]) /\ \A k \in DOMAIN wanted[p] : wanted[p][k] \in DOMAIN chunk[p]
<1>1. wanted[p] \in Seq(DOMAIN chunk[p])
  BY Zenon DEF TypeOK, PeerOK
<1> QED  BY <1>1, LenProperties


\* A GET while nothing is missing: the wanted list becomes the file's, its
\* chunks are owned or new on the missing list.
LEMMA GetDescribes ==
  ASSUME TypeOK, FreshPointers, NEW p \in Peers, process_get(p), wanted[p] = << >>,
         DistinctHashes(NextFile(p)), DistinctIds(NextFile(p))
  PROVE  \E want \in Seq(DOMAIN chunk'[p]) :
            /\ check_all_received(p, request'[p], chunk'[p], missing'[p], want)
            /\ Describes(chunk'[p], want, GetFiles[p][request'[p]])
            /\ Placed(have'[p], missing'[p], want)
<1> DEFINE n == request[p] + 1
           lines == NextFile(p)
           heap == HeapAfterGet(p, n, lines)
           list == [l \in DOMAIN lines |-> ChunkOfLine(p, n, lines, l)]
           want == Reverse(list)
           D == PointersAfterGet(p, n, lines)
           miss == Reverse(node_keep([l \in DOMAIN lines |-> <<n, l>>], AbsentLines(p, lines)))
                     \o missing[p]
<1>1. lines \in Seq(Line) /\ request'[p] = n /\ chunk'[p] = heap /\ DOMAIN chunk'[p] = D /\ have'[p] = have[p]
  BY GetHeap
<1>2. GetFiles[p][n] = lines
  BY DEF NextFile
<1>3. list \in [DOMAIN lines -> D]
  BY ChunkOfLineType
<1>4. list \in Seq(D) /\ DOMAIN list = DOMAIN lines
  <2> HIDE DEF list, lines, D
  <2> QED  BY <1>1, <1>3, FunctionSeq
<1>5. want \in Seq(D) /\ Selects(want, list, DOMAIN list)
  <2> HIDE DEF list, lines, D
  <2> QED  BY <1>4, ReverseList, ReverseSelects
<1>6. check_all_received(p, n, heap, missing'[p], want)
  <2>1. missing' = [missing EXCEPT ![p] = miss] /\ check_all_received(p, n, heap, miss, want \o wanted[p])
    BY <1>2, Zenon DEF process_get, NextFile
  <2>2. missing'[p] = miss
    <3> HIDE DEF miss
    <3> QED  BY <2>1 DEF TypeOK
  <2>3. want \o wanted[p] = want
    <3> HIDE DEF want, D
    <3> QED  BY <1>5, ConcatEmptySeq
  <2> HIDE DEF want, miss, heap, n
  <2> QED  BY <2>1, <2>2, <2>3
<1>7. \A l \in DOMAIN lines : heap[list[l]].id = lines[l].id /\ heap[list[l]].hash = lines[l].hash
  <2> TAKE l \in DOMAIN lines
  <2>1. list[l] = ChunkOfLine(p, n, lines, l)
    OBVIOUS
  <2>2. heap[ChunkOfLine(p, n, lines, l)].id = lines[l].id
    BY <1>1, LineId
  <2>3. heap[ChunkOfLine(p, n, lines, l)].hash = lines[l].hash
    BY <1>1, LineHash
  <2> HIDE DEF list, heap
  <2> QED  BY <2>1, <2>2, <2>3
<1>8. \A l \in DOMAIN lines : Points(have[p], list[l]) \/ Points(missing'[p], list[l])
  <2> TAKE l \in DOMAIN lines
  <2>1. list[l] = ChunkOfLine(p, n, lines, l)
    OBVIOUS
  <2>2. CASE l \in AbsentLines(p, lines)
    <3> DEFINE new == [k \in DOMAIN lines |-> <<n, k>>]
               K == AbsentLines(p, lines)
    <3>1. PICK front \in Seq(DOMAIN chunk'[p]) : missing'[p] = front \o missing[p] /\ Selects(front, new, K)
      BY GetLists
    <3>2. list[l] = new[l]
      BY <2>1, <2>2 DEF ChunkOfLine
    <3> HIDE DEF new, K, list
    <3>3. PICK g : Picks(g, front, new, K)
      BY <3>1 DEF Selects
    <3>4. PICK i \in DOMAIN front : g[i] = l
      BY <2>2, <3>3 DEF Picks, K
    <3>5. front[i] = list[l]
      BY <3>2, <3>3, <3>4, Zenon DEF Picks
    <3>6. missing[p] \in Seq(DOMAIN chunk'[p])
      <4>1. missing[p] \in Seq(DOMAIN chunk[p]) /\ \A k \in DOMAIN missing[p] : missing[p][k] \in DOMAIN chunk[p]
        BY ListsAt
      <4>2. \A k \in DOMAIN missing[p] : missing[p][k] \in DOMAIN chunk'[p]
        BY <1>1, <4>1 DEF PointersAfterGet
      <4> QED  BY <4>1, <4>2, Retype
    <3>7. i \in DOMAIN missing'[p] /\ missing'[p][i] = front[i]
      BY <3>1, <3>6, ConcatAt
    <3> QED  BY <3>5, <3>7 DEF Points
  <2>3. CASE l \notin AbsentLines(p, lines)
    <3> DEFINE K == Owned(p, lines[l].hash)
               R == {have[p][i] : i \in node_find(K)}
    <3>1. list[l] = CHOOSE x \in R : TRUE
      BY <2>1, <2>3, Zenon DEF ChunkOfLine
    <3>2. K # {} /\ K \in SUBSET Nat
      <4>1. have[p] \in Seq(DOMAIN chunk[p])
        BY HaveAt
      <4>2. DOMAIN have[p] \subseteq Nat
        BY <4>1, LenProperties
      <4> QED  BY <2>3, <4>2 DEF AbsentLines, Owned
    <3>3. K \subseteq DOMAIN have[p]
      BY DEF Owned
    <3> HIDE DEF K, list
    <3>4. node_find(K) # {} /\ node_find(K) \subseteq K
      BY <3>2, NodeFound, NodeFind
    <3>5. R # {}
      BY <3>4
    <3>6. list[l] \in R
      <4> HIDE DEF R
      <4> QED  BY <3>1, <3>5
    <3> QED  BY <3>3, <3>4, <3>6 DEF Points
  <2> QED  BY <2>2, <2>3
<1> HIDE DEF lines, list, heap, want, D, miss
<1>9. PICK g : Picks(g, want, list, DOMAIN list)
  BY <1>5 DEF Selects
<1>10. \A k \in DOMAIN want : g[k] \in DOMAIN lines /\ want[k] = list[g[k]]
  BY <1>4, <1>9 DEF Picks
<1>11. \A l \in DOMAIN lines : \E k \in DOMAIN want : want[k] = list[l]
  BY <1>4, <1>9 DEF Picks
<1>12. Describes(heap, want, lines)
  <2>1. DistinctIds(lines)
    BY DEF lines
  <2>2. \A l \in DOMAIN lines : \E k \in DOMAIN want :
          heap[want[k]].id = lines[l].id /\ heap[want[k]].hash = lines[l].hash
    BY <1>7, <1>11
  <2>3. \A k \in DOMAIN want : \E l \in DOMAIN lines :
          heap[want[k]].id = lines[l].id /\ heap[want[k]].hash = lines[l].hash
    BY <1>7, <1>10
  <2> QED  BY <2>1, <2>2, <2>3 DEF Describes
<1>13. Placed(have[p], missing'[p], want)
  BY <1>8, <1>10 DEF Placed
<1>14. GetFiles[p][request'[p]] = lines
  BY <1>1, <1>2
<1> QED  BY <1>1, <1>5, <1>6, <1>12, <1>13, <1>14

\* A chunk that comes goes from missing to have, where the wanted list finds it.
LEMMA CompletePlaced ==
  ASSUME TypeOK, DownloadsMatchMissing, MissingApart, DownMissing,
         NEW m \in Packets, NEW i \in node_find(DownloadsFrom(m.dst, m.src)), Completes(m, i),
         NEW want, Placed(have[m.dst], missing[m.dst], want)
  PROVE  missing[m.dst] # << >> /\ Placed(have'[m.dst], missing'[m.dst], want)
<1> DEFINE p == m.dst
           c == Target(m, i)
           miss == missing[p]
           hav == have[p]
<1>1. PICK j \in DOMAIN miss : miss[j] = c /\ missing'[p] = node_delete(miss, j)
                                 /\ have'[p] = node_insert(hav, c)
  BY CompleteTakes
<1>2. p \in Peers /\ c \in DOMAIN chunk[p]
  BY PacketFields, DownloadAt DEF Target
<1>3. miss \in Seq(DOMAIN chunk[p]) /\ hav \in Seq(DOMAIN chunk[p])
  BY <1>2, ListsAt, HaveAt
<1>4. Selects(missing'[p], miss, DOMAIN miss \ {j})
  BY <1>1, <1>3, DeleteSelects
<1>5. PICK h : Picks(h, missing'[p], miss, DOMAIN miss \ {j})
  BY <1>4 DEF Selects
<1>6. miss # << >>
  BY <1>1
<1> HIDE DEF c, miss, hav
<1>7. have'[p] = <<c>> \o hav
  BY <1>1 DEF node_insert
<1>8. Points(have'[p], c) /\ \A r : Points(hav, r) => Points(have'[p], r)
  <2>1. ASSUME NEW S, NEW x \in S, NEW s \in Seq(S)
        PROVE  Points(<<x>> \o s, x) /\ \A r : Points(s, r) => Points(<<x>> \o s, r)
    <3>1. <<x>> \in Seq(S) /\ DOMAIN <<x>> = {1} /\ <<x>>[1] = x
      OBVIOUS
    <3>2. /\ \A k \in DOMAIN <<x>> : k \in DOMAIN (<<x>> \o s) /\ (<<x>> \o s)[k] = <<x>>[k]
          /\ \A k \in DOMAIN s : Len(<<x>>) + k \in DOMAIN (<<x>> \o s) /\ (<<x>> \o s)[Len(<<x>>) + k] = s[k]
      BY <2>1, <3>1, ConcatAt
    <3> QED  BY <3>1, <3>2 DEF Points
  <2> QED  BY <1>2, <1>3, <1>7, <2>1
<1>9. \A r : Points(miss, r) => r = c \/ Points(missing'[p], r)
  <2> SUFFICES ASSUME NEW r, Points(miss, r), r # c PROVE Points(missing'[p], r)
    OBVIOUS
  <2>1. PICK l \in DOMAIN miss : miss[l] = r
    BY DEF Points
  <2>2. l \in DOMAIN miss \ {j}
    BY <1>1, <2>1
  <2>3. PICK x \in DOMAIN missing'[p] : h[x] = l
    BY <1>5, <2>2 DEF Picks
  <2>4. missing'[p][x] = miss[l]
    BY <1>5, <2>3, Zenon DEF Picks
  <2> QED  BY <2>1, <2>3, <2>4 DEF Points
<1>10. \A k \in DOMAIN want : Points(hav, want[k]) \/ Points(miss, want[k])
  BY DEF Placed, hav, miss
<1> QED  BY <1>6, <1>8, <1>9, <1>10 DEF Placed, miss

\* Every step keeps the wanted list and the files that were written.
LEMMA AnswersStep ==
  ASSUME TypeOK, DownloadsMatchMissing, AnnouncedOnce, FreshPointers, MissingApart, DownMissing,
         WantedOK, GotComplete, HaveValid', [Next]_vars, [AsksInTurn]_vars
  PROVE  WantedOK' /\ GotComplete'
<1> DEFINE Held(p) == IF missing[p] = << >>
                        THEN wanted[p] = << >>
                        ELSE /\ Describes(chunk[p], wanted[p], GetFiles[p][request[p]])
                             /\ Placed(have[p], missing[p], wanted[p])
           Complete(p) == \A i \in DOMAIN got[p] : Answers(got[p][i].data, GetFiles[p][got[p][i].file])
           After(p) ==
             /\ IF missing'[p] = << >>
                  THEN wanted'[p] = << >>
                  ELSE /\ Describes(chunk'[p], wanted'[p], GetFiles[p][request'[p]])
                       /\ Placed(have'[p], missing'[p], wanted'[p])
             /\ \A i \in DOMAIN got'[p] : Answers(got'[p][i].data, GetFiles[p][got'[p][i].file])
<1>1. SUFFICES ASSUME NEW p \in Peers PROVE After(p)
  <2>1. (\A p \in Peers : After(p)) => WantedOK'
    BY Zenon DEF WantedOK
  <2>2. (\A p \in Peers : After(p)) => GotComplete'
    BY Zenon DEF GotComplete, Answers
  <2> QED  BY <1>1, <2>1, <2>2, Zenon
<1>2. Held(p) /\ Complete(p)
  BY Zenon DEF WantedOK, GotComplete, Answers
<1>3. HashKept(chunk'[p], chunk[p])
  BY HashesStep
<1>4. \A k \in DOMAIN wanted[p] : wanted[p][k] \in DOMAIN chunk[p]
  BY WantedAt
<1>5. CASE ListsStay(p) /\ IdKept(chunk'[p], chunk[p])
  <2>1. Describes(chunk[p], wanted[p], GetFiles[p][request[p]])
           => Describes(chunk'[p], wanted[p], GetFiles[p][request[p]])
    BY <1>3, <1>4, <1>5, DescribesKept
  <2> QED  BY <1>2, <1>5, <2>1, Zenon DEF ListsStay
<1>6. CASE process_get(p)
  <2>1. CASE UNCHANGED vars
    <3>1. ListsStay(p) /\ chunk'[p] = chunk[p]
      BY <2>1, Zenon DEF vars, chunkVars, userVars, ListsStay
    <3>2. IdKept(chunk'[p], chunk[p])
      BY <3>1, Zenon DEF IdKept
    <3> QED  BY <1>5, <3>1, <3>2
  <2>2. CASE AsksInTurn
    <3>1. missing[p] = << >> /\ DistinctHashes(NextFile(p)) /\ DistinctIds(NextFile(p))
      BY <1>6, <2>2 DEF AsksInTurn
    <3>2. wanted[p] = << >>
      BY <1>2, <3>1
    <3>3. PICK want \in Seq(DOMAIN chunk'[p]) :
            /\ check_all_received(p, request'[p], chunk'[p], missing'[p], want)
            /\ Describes(chunk'[p], want, GetFiles[p][request'[p]])
            /\ Placed(have'[p], missing'[p], want)
      BY <1>6, <3>1, <3>2, GetDescribes
    <3> QED  BY <1>2, <3>3, Settled
  <2> QED  BY <2>1, <2>2
<1>7. ASSUME NEW m \in BagToSet(net), complete_DATA(m), m.dst = p PROVE After(p)
  <2>1. m \in Packets /\ process_inbound_udp(m) /\ request' = request
    BY <1>7, Zenon DEF TypeOK, process_inbound_udp, receive_DATA, complete_DATA
  <2>2. PICK i \in node_find(DownloadsFrom(m.dst, m.src)) : Completes(m, i)
    BY <1>7, <2>1, CompleteParts
  <2>3. missing[p] # << >>
    <3>1. PICK j \in DOMAIN missing[p] : missing[p][j] = Target(m, i)
      BY <1>7, <2>1, <2>2, CompleteTakes
    <3> QED  BY <3>1
  <2>4. Describes(chunk[p], wanted[p], GetFiles[p][request[p]]) /\ Placed(have[p], missing[p], wanted[p])
    BY <1>2, <2>3
  <2>5. Placed(have'[p], missing'[p], wanted[p])
    BY <1>7, <2>1, <2>2, <2>4, CompletePlaced
  <2>6. IdKept(chunk'[p], chunk[p])
    BY <1>7, <2>1, InboundIds
  <2>7. Describes(chunk'[p], wanted[p], GetFiles[p][request'[p]])
    BY <1>3, <1>4, <2>1, <2>4, <2>6, DescribesKept
  <2>8. check_all_received(p, request'[p], chunk'[p], missing'[p], wanted[p])
    <3>1. chunk'[p] = FilledHeap(m, i)
      BY <1>7, <2>2 DEF Completes, TypeOK
    <3>2. check_all_received(p, request[p], FilledHeap(m, i), missing'[p], wanted[p])
      BY <1>7, <2>2, Zenon DEF Completes
    <3> QED  BY <2>1, <3>1, <3>2
  <2>9. wanted[p] \in Seq(DOMAIN chunk[p])
    BY WantedAt
  <2> QED  BY <1>2, <2>5, <2>7, <2>8, <2>9, Settled
<1> HIDE DEF After
<1> QED  BY <1>5, <1>6, <1>7, PeerMoves DEF AnnouncedOnce

\* Nothing is wanted and nothing written initially.
LEMMA AnswersInit == Init => WantedOK /\ GotComplete
  BY DEF Init, WantedOK, GotComplete

\* A user who waits for an answer asks afresh.
LEMMA InTurnAfresh == AsksInTurn => AsksAfresh
<1>1. \A p \in Peers : missing[p] = << >> => DOMAIN missing[p] = {}
  OBVIOUS
<1> QED  BY <1>1 DEF AsksInTurn, AsksAfresh

\* A user who waits for GOT before the next GET gets, with every GOT, the whole
\* file that was asked for: whatever was lost, duplicated, late or corrupt, and
\* whoever gave up on whom.
THEOREM AnswersComplete == FilesAgree /\ Spec /\ [][AsksInTurn]_vars => []GotComplete
<1> DEFINE Inv == /\ TypeOK /\ DownloadsMatchMissing /\ AnnouncedOnce /\ HaveValid
                  /\ FreshPointers /\ MissingApart /\ DownMissing /\ WantedOK /\ GotComplete
<1>1. FilesAgree /\ Init => Inv
  BY InitType, MatchInit, AnnouncedInit, HaveInit, FreshInit, MissingApartInit, DownInit, AnswersInit
<1>2. Inv /\ [Next]_vars /\ [AsksInTurn]_vars => Inv'
  <2> SUFFICES ASSUME Inv, [Next]_vars, [AsksInTurn]_vars PROVE Inv'
    OBVIOUS
  <2>1. [AsksAfresh]_vars
    BY InTurnAfresh
  <2>2. TypeOK' /\ DownloadsMatchMissing' /\ AnnouncedOnce' /\ HaveValid'
    BY StepType, MatchStep, AnnouncedStep, HaveStep
  <2>3. FreshPointers' /\ MissingApart' /\ DownMissing'
    BY <2>1, FreshStep, OwnedApartStep, DownStep DEF AnnouncedOnce
  <2>4. WantedOK' /\ GotComplete'
    BY <2>2, AnswersStep
  <2> QED  BY <2>2, <2>3, <2>4
<1>3. Inv => GotComplete
  OBVIOUS
<1> QED  BY <1>1, <1>2, <1>3, PTL DEF Spec

------------------------------------------------------------------------------
(* What the server believes of its receivers. *)

\* A chunk of the heap has the hash h and its first n packets.
Prefix(heap, h, n) ==
    \E r \in DOMAIN heap : heap[r].hash = h /\ \A s \in 1..n : heap[r].data[s] # Unset

\* No packet of another chunk is stored in it.
Clean(heap) == \A r \in DOMAIN heap : \A s \in SeqNums : heap[r].data[s] \in {heap[r].hash, Unset}

\* Packets are about the one chunk that is asked for, and ACKs tell the truth.
PacketBacked(x, heaps) ==
    /\ x.type = "GET" => Asked(x.src, x.hash) /\ Prefix(heaps[x.src], x.hash, 0)
    /\ x.type = "DATA" => Asked(x.dst, x.data)
    /\ x.type = "ACK" => \E h \in Hashes : Asked(x.src, h) /\ Prefix(heaps[x.src], h, x.ack)

UploadBacked(t, heap, heaps) ==
    /\ Asked(t.peer, heap[t.c].hash) /\ Intact(heap[t.c])
    /\ Prefix(heaps[t.peer], heap[t.c].hash, t.cctrl.begin)

MissingAsked == \A p \in Peers : \A i \in DOMAIN missing[p] : Asked(p, chunk[p][missing[p][i]].hash)

AllClean == \A p \in Peers : Clean(chunk[p])

NetBacked == \A x \in BagToSet(net) : PacketBacked(x, chunk)

UploadsBacked ==
    \A p \in Peers : \A i \in DOMAIN uploads[p] : UploadBacked(uploads[p][i], chunk[p], chunk)

------------------------------------------------------------------------------
(* Data that has arrived stays. *)

DataKept(new, old) ==
    \A r \in DOMAIN old : \A s \in SeqNums :
        old[r].data[s] # Unset => new[r].data[s] = old[r].data[s]

\* Only hashes are asked for.
LEMMA AskedHash ==
  ASSUME NEW p \in Peers, NEW h, Asked(p, h)
  PROVE  h \in Hashes
<1>1. PICK n \in DOMAIN GetFiles[p] : \E l \in DOMAIN GetFiles[p][n] : GetFiles[p][n][l].hash = h
  BY DEF Asked
<1>2. PICK l \in DOMAIN GetFiles[p][n] : GetFiles[p][n][l].hash = h
  BY <1>1
<1>3. GetFiles[p] \in Seq(Seq(Line))
  BY PeerAssumption
<1>4. GetFiles[p][n] \in Seq(Line)
  BY <1>1, <1>3
<1> QED  BY <1>2, <1>4, LineAt

\* A transfer is of the chunk that is asked for.
LEMMA DownloadAsked ==
  ASSUME TypeOK, DownloadsMatchMissing, MissingAsked, NEW p \in Peers, NEW i \in DOMAIN downloads[p]
  PROVE  Asked(p, chunk[p][downloads[p][i].c].hash)
<1>1. PICK j \in DOMAIN missing[p] : chunk[p][missing[p][j]].hash = chunk[p][downloads[p][i].c].hash
  BY Zenon DEF DownloadsMatchMissing
<1> QED  BY <1>1, Zenon DEF MissingAsked

\* A DATA packet belongs to the chunk it is stored in.
LEMMA StoredFits ==
  ASSUME AskForOne, TypeOK, DownloadsMatchMissing, MissingAsked, NetBacked,
         NEW m \in BagToSet(net), m.type = "DATA", NEW i \in node_find(DownloadsFrom(m.dst, m.src))
  PROVE  m.data = chunk[m.dst][downloads[m.dst][i].c].hash
<1> DEFINE h == chunk[m.dst][downloads[m.dst][i].c].hash
<1>1. m \in Packets /\ m.dst \in Peers
  BY PacketFields DEF TypeOK
<1>2. i \in DOMAIN downloads[m.dst]
  BY <1>1, DownloadAt
<1>3. Asked(m.dst, h)
  BY <1>1, <1>2, DownloadAsked
<1>4. Asked(m.dst, m.data)
  BY Zenon DEF NetBacked, PacketBacked
<1>5. h \in Hashes /\ m.data \in Hashes
  BY <1>1, <1>3, <1>4, AskedHash
<1> HIDE DEF h
<1>6. m.data = h
  BY <1>1, <1>3, <1>4, <1>5, Zenon DEF AskForOne
<1> QED  BY <1>6 DEF h

\* What store_DATA leaves of the chunk.
LEMMA StoredClean ==
  ASSUME AskForOne, TypeOK, DownloadsMatchMissing, MissingAsked, NetBacked, AllClean,
         NEW m \in BagToSet(net), m.type = "DATA", NEW i \in node_find(DownloadsFrom(m.dst, m.src))
  PROVE  \A s \in SeqNums :
            LET c == chunk[m.dst][downloads[m.dst][i].c]
            IN  /\ Stored(m, i)[s] \in {c.hash, Unset}
                /\ c.data[s] # Unset => Stored(m, i)[s] = c.data[s]
<1> DEFINE c == chunk[m.dst][downloads[m.dst][i].c]
<1>1. m \in Packets /\ m.dst \in Peers /\ m.seq \in SeqNums
  BY PacketFields DEF TypeOK
<1>2. downloads[m.dst][i].c \in DOMAIN chunk[m.dst] /\ c \in Chunk
  BY <1>1, DownloadAt
<1>3. m.data = c.hash
  BY StoredFits
<1>4. \A s \in SeqNums : c.data[s] \in {c.hash, Unset}
  BY <1>1, <1>2 DEF AllClean, Clean
<1>5. Stored(m, i) = data_store(c.data, m.seq, m.data)
  BY DEF Stored
<1>6. c.data \in [SeqNums -> Blocks]
  BY <1>2 DEF Chunk
<1> HIDE DEF c
<1>7. \A s \in SeqNums : Stored(m, i)[s] \in {c.hash, Unset}
                         /\ (c.data[s] # Unset => Stored(m, i)[s] = c.data[s])
  BY <1>1, <1>3, <1>4, <1>5, <1>6 DEF data_store
<1> QED  BY <1>7 DEF c

\* A complete chunk is valid, so none is ever emptied.
LEMMA NeverCorrupt ==
  ASSUME AskForOne, TypeOK, DownloadsMatchMissing, MissingAsked, NetBacked, AllClean,
         NEW m \in BagToSet(net)
  PROVE  ~corrupt_DATA(m)
<1> SUFFICES ASSUME corrupt_DATA(m) PROVE FALSE
  OBVIOUS
<1>1. m.type = "DATA"
  BY DEF corrupt_DATA
<1>2. PICK i \in node_find(DownloadsFrom(m.dst, m.src)) :
          /\ chunk_bits_all_received(Stored(m, i))
          /\ ~validate_chunk(Stored(m, i), chunk[m.dst][downloads[m.dst][i].c].hash)
  BY Zenon DEF corrupt_DATA
<1>3. \A s \in SeqNums : Stored(m, i)[s] \in {chunk[m.dst][downloads[m.dst][i].c].hash, Unset}
  BY <1>1, StoredClean
<1> QED  BY <1>2, <1>3 DEF chunk_bits_all_received, validate_chunk

\* Heaps whose data is the data of a clean one, or none.
LEMMA CleanSame ==
  ASSUME NEW new, NEW old, HashKept(new, old), Clean(old),
         \A r \in DOMAIN old : new[r].data = old[r].data,
         \A r \in DOMAIN new \ DOMAIN old : \A s \in SeqNums : new[r].data[s] = Unset
  PROVE  Clean(new) /\ DataKept(new, old)
  BY DEF Clean, DataKept, HashKept

\* A chunk that a packet is stored in.
LEMMA CleanStored ==
  ASSUME NEW heap, HeapOK(heap), Clean(heap), NEW c \in DOMAIN heap, NEW d,
         \A s \in SeqNums : /\ d[s] \in {heap[c].hash, Unset}
                            /\ heap[c].data[s] # Unset => d[s] = heap[c].data[s]
  PROVE  /\ Clean([heap EXCEPT ![c].data = d])
         /\ DataKept([heap EXCEPT ![c].data = d], heap)
<1> DEFINE new == [heap EXCEPT ![c].data = d]
<1>1. DOMAIN new = DOMAIN heap
  OBVIOUS
<1>2. \A r \in DOMAIN heap : /\ new[r].hash = heap[r].hash
                             /\ new[r].data = IF r = c THEN d ELSE heap[r].data
  BY Replaced
<1> HIDE DEF new
<1>3. Clean(new) /\ DataKept(new, heap)
  BY <1>1, <1>2 DEF Clean, DataKept
<1> QED  BY <1>3 DEF new

\* No step empties a position that is filled, or fills it with another chunk's
\* packet.
LEMMA HeapsGrow ==
  ASSUME AskForOne, TypeOK, DownloadsMatchMissing, MissingAsked, NetBacked, AllClean,
         [Next]_vars, NEW q \in Peers
  PROVE  Clean(chunk'[q]) /\ DataKept(chunk'[q], chunk[q])
<1> DEFINE Fine(x) == Clean(x) /\ DataKept(x, chunk[q])
<1>1. Clean(chunk[q]) /\ HeapOK(chunk[q])
  BY ListsAt DEF AllClean
<1>2. ASSUME chunk'[q] = chunk[q] PROVE Fine(chunk'[q])
  BY <1>1, <1>2 DEF DataKept
<1>3. ASSUME NEW m \in BagToSet(net), process_inbound_udp(m) PROVE Fine(chunk'[q])
  <2>1. m \in Packets
    BY DEF TypeOK
  <2>2. CASE q # m.dst
    BY <1>2, <1>3, <2>2, InboundLocal DEF Local
  <2>3. CASE q = m.dst
    <3>1. ASSUME NEW x, chunk' = [chunk EXCEPT ![q] = x], Fine(x) PROVE Fine(chunk'[q])
      <4>1. chunk'[q] = x
        BY <3>1 DEF TypeOK
      <4> HIDE DEF Fine
      <4> QED  BY <3>1, <4>1
    <3>2. CASE receive_IHAVE(m)
      <4> DEFINE x == HeapAfterIhave(q, m.src, m.hashes)
      <4>1. chunk' = [chunk EXCEPT ![q] = x]
        BY <2>3, <3>2, Zenon DEF receive_IHAVE, HeapAfterIhave
      <4>2. HashKept(x, chunk[q]) /\ DOMAIN x = DOMAIN chunk[q]
              /\ \A r \in DOMAIN chunk[q] : x[r].data = chunk[q][r].data
        BY IhaveHashes, IhaveData
      <4> HIDE DEF x
      <4>3. \A r \in DOMAIN x \ DOMAIN chunk[q] : \A s \in SeqNums : x[r].data[s] = Unset
        BY <4>2
      <4>4. Fine(x)
        BY <1>1, <4>2, <4>3, CleanSame
      <4> QED  BY <3>1, <4>1, <4>4
    <3>3. ASSUME m.type = "DATA", NEW i \in node_find(DownloadsFrom(q, m.src)),
                 chunk' = [chunk EXCEPT ![q] = [chunk[q] EXCEPT ![downloads[q][i].c].data = Stored(m, i)]]
          PROVE  Fine(chunk'[q])
      <4> DEFINE c == downloads[q][i].c
                 d == Stored(m, i)
      <4>1. c \in DOMAIN chunk[q]
        BY DownloadAt
      <4>2. \A s \in SeqNums : /\ d[s] \in {chunk[q][c].hash, Unset}
                               /\ chunk[q][c].data[s] # Unset => d[s] = chunk[q][c].data[s]
        BY <2>3, <3>3, StoredClean
      <4> HIDE DEF d, c
      <4>3. Fine([chunk[q] EXCEPT ![c].data = d])
        BY <1>1, <4>1, <4>2, CleanStored
      <4> HIDE DEF Fine
      <4> QED  BY <3>1, <3>3, <4>3 DEF c, d
    <3> HIDE DEF Fine
    <3>4. CASE store_DATA(m)
      BY <2>3, <3>3, <3>4, Zenon DEF store_DATA
    <3>5. CASE complete_DATA(m)
      BY <2>3, <3>3, <3>5, Zenon DEF complete_DATA
    <3>6. ~corrupt_DATA(m)
      BY NeverCorrupt
    <3>7. chunk' = chunk \/ receive_IHAVE(m) \/ store_DATA(m) \/ complete_DATA(m) \/ corrupt_DATA(m)
      BY <1>3, Zenon DEF process_inbound_udp, receive_WHOHAS, receive_GET, refuse_GET, ignore_GET,
         accept_GET, receive_ACK, stray_ACK, last_ACK, new_ACK, loss_ACK, old_ACK, Continue,
         receive_DENIED, stray_DENIED, drop_DENIED, receive_DATA, stray_DATA, chunkVars
    <3> QED  BY <1>2, <3>2, <3>4, <3>5, <3>6, <3>7
  <2> QED  BY <2>2, <2>3
<1>4. ASSUME NEW p \in Peers, process_get(p) PROVE Fine(chunk'[q])
  <2>1. CASE q # p
    BY <1>2, <1>4, <2>1, GetLocal DEF Local
  <2>2. CASE q = p
    <3> DEFINE n == request[p] + 1
               x == HeapAfterGet(p, n, GetFiles[p][n])
    <3>1. chunk' = [chunk EXCEPT ![p] = x]
      BY <1>4, Zenon DEF process_get
    <3>2. HashKept(x, chunk[p])
      BY GetHashes
    <3>3. /\ \A r \in DOMAIN chunk[p] : x[r].data = chunk[p][r].data
          /\ \A r \in DOMAIN x \ DOMAIN chunk[p] : \A s \in SeqNums : x[r].data[s] = Unset
      BY GetData
    <3> HIDE DEF x
    <3>4. Fine(x)
      BY <1>1, <2>2, <3>2, <3>3, CleanSame
    <3>5. chunk'[p] = x
      BY <3>1 DEF TypeOK
    <3> HIDE DEF Fine
    <3> QED  BY <2>2, <3>4, <3>5
  <2> QED  BY <2>1, <2>2
<1>5. ASSUME NEW p \in Peers, handle_timeout(p) PROVE Fine(chunk'[q])
  <2>1. chunk' = chunk \/ chunk' = [chunk EXCEPT ![p] = ForgetDeadPeers(p)]
    BY <1>5, Zenon DEF handle_timeout, handle_client_timeout
  <2>2. chunk'[q] = chunk[q] \/ (q = p /\ chunk'[q] = ForgetDeadPeers(q))
    BY <2>1 DEF TypeOK
  <2> DEFINE x == ForgetDeadPeers(q)
  <2>3. HashKept(x, chunk[q]) /\ DOMAIN x = DOMAIN chunk[q]
          /\ \A r \in DOMAIN chunk[q] : x[r].data = chunk[q][r].data
    BY ForgetHashes, ForgetData
  <2> HIDE DEF x
  <2>4. \A r \in DOMAIN x \ DOMAIN chunk[q] : \A s \in SeqNums : x[r].data[s] = Unset
    BY <2>3
  <2>5. Fine(x)
    BY <1>1, <2>3, <2>4, CleanSame
  <2> HIDE DEF Fine
  <2> QED  BY <1>2, <2>2, <2>5 DEF x
<1>6. ASSUME (\E m : Lose(m) \/ Duplicate(m)) \/ UNCHANGED vars PROVE Fine(chunk'[q])
  <2>1. chunk' = chunk
    BY <1>6, Zenon DEF Lose, Duplicate, vars, chunkVars
  <2> QED  BY <1>2, <2>1
<1>7. Fine(chunk'[q])
  <2> HIDE DEF Fine
  <2> QED  BY <1>3, <1>4, <1>5, <1>6, Zenon DEF Next, QuietTimeout, EarlyTimeout
<1> QED  BY <1>7

\* What is backed stays backed.
LEMMA PrefixKept ==
  ASSUME NEW new, NEW old, HashKept(new, old), DataKept(new, old),
         NEW h, NEW n \in 0..MAX_SEQ_NUM, Prefix(old, h, n)
  PROVE  Prefix(new, h, n)
<1>1. PICK r \in DOMAIN old : old[r].hash = h /\ \A s \in 1..n : old[r].data[s] # Unset
  BY DEF Prefix
<1>2. \A s \in 1..n : s \in SeqNums
  BY CongestionAssumption DEF SeqNums
<1>3. \A s \in 1..n : new[r].data[s] # Unset
  BY <1>1, <1>2 DEF DataKept
<1> QED  BY <1>1, <1>3 DEF Prefix, HashKept

\* An intact chunk stays intact.
LEMMA IntactKept ==
  ASSUME NEW new, NEW old, HashKept(new, old), DataKept(new, old),
         NEW r \in DOMAIN old, old[r].hash \in Hashes, Intact(old[r])
  PROVE  Intact(new[r])
  BY PeerAssumption DEF Intact, HashKept, DataKept

------------------------------------------------------------------------------
(* The missing chunks are asked for. *)

\* A list of nodes taken from another.
LEMMA SelectedAt ==
  ASSUME NEW new, NEW old, NEW K, Selects(new, old, K), NEW i \in DOMAIN new
  PROVE  \E k \in K : new[i] = old[k]
<1>1. PICK g : Picks(g, new, old, K)
  BY DEF Selects
<1> QED  BY <1>1 DEF Picks

\* The lines of a GET that are not owned join the missing chunks.
LEMMA GetAsked ==
  ASSUME TypeOK, FreshPointers, MissingAsked, NEW p \in Peers, process_get(p)
  PROVE  \A i \in DOMAIN missing'[p] : Asked(p, chunk'[p][missing'[p][i]].hash)
<1> DEFINE n == request[p] + 1
           lines == NextFile(p)
           K == AbsentLines(p, lines)
           list == [l \in DOMAIN lines |-> <<n, l>>]
           heap == HeapAfterGet(p, n, lines)
<1>1. lines \in Seq(Line) /\ chunk'[p] = heap
  BY GetHeap
<1>2. n \in DOMAIN GetFiles[p] /\ lines = GetFiles[p][n]
  BY GetMissing DEF NextFile
<1>3. PICK front \in Seq(DOMAIN chunk'[p]) : missing'[p] = front \o missing[p] /\ Selects(front, list, K)
  BY GetLists
<1>4. K \in SUBSET DOMAIN lines /\ DOMAIN list = DOMAIN lines
  BY DEF AbsentLines
<1>5. \A l \in K : heap[list[l]].hash = lines[l].hash
  <2> TAKE l \in K
  <2>1. ChunkOfLine(p, n, lines, l) = <<n, l>>
    BY DEF ChunkOfLine
  <2>2. list[l] = ChunkOfLine(p, n, lines, l)
    BY <1>4, <2>1
  <2>3. heap[ChunkOfLine(p, n, lines, l)].hash = lines[l].hash
    BY <1>1, <1>4, LineHash
  <2> QED  BY <2>2, <2>3
<1>6. \A l \in DOMAIN lines : Asked(p, lines[l].hash)
  BY <1>2, Zenon DEF Asked
<1>7. HashKept(heap, chunk[p])
  BY GetHashes
<1>8. missing[p] \in Seq(DOMAIN chunk[p]) /\ \A i \in DOMAIN missing[p] : missing[p][i] \in DOMAIN chunk[p]
  BY ListsAt
<1> HIDE DEF heap, list, K, lines, n
<1>9. ASSUME NEW i \in DOMAIN missing'[p] PROVE Asked(p, heap[missing'[p][i]].hash)
  <2>1. (\E j \in DOMAIN front : missing'[p][i] = front[j])
          \/ \E j \in DOMAIN missing[p] : missing'[p][i] = missing[p][j]
    BY <1>3, <1>8, <1>9
  <2>2. ASSUME NEW j \in DOMAIN front PROVE Asked(p, heap[front[j]].hash)
    <3>1. PICK l \in K : front[j] = list[l]
      BY <1>3, <2>2, SelectedAt
    <3> QED  BY <1>4, <1>5, <1>6, <3>1
  <2>3. ASSUME NEW j \in DOMAIN missing[p] PROVE Asked(p, heap[missing[p][j]].hash)
    BY <1>7, <1>8, <2>3 DEF HashKept, MissingAsked
  <2> QED  BY <2>1, <2>2, <2>3
<1> QED  BY <1>1, <1>9

\* Every step keeps the missing chunks among those asked for.
LEMMA MissingAskedStep ==
  ASSUME TypeOK, AnnouncedOnce, FreshPointers, MissingAsked, [Next]_vars
  PROVE  MissingAsked'
<1> SUFFICES ASSUME NEW p \in Peers
             PROVE  \A i \in DOMAIN missing'[p] : Asked(p, chunk'[p][missing'[p][i]].hash)
  BY Zenon DEF MissingAsked
<1>1. ASSUME \A i \in DOMAIN missing'[p] : \E j \in DOMAIN missing[p] : missing'[p][i] = missing[p][j]
      PROVE  \A i \in DOMAIN missing'[p] : Asked(p, chunk'[p][missing'[p][i]].hash)
  <2>1. HashKept(chunk'[p], chunk[p])
    BY HashesStep
  <2>2. \A i \in DOMAIN missing[p] : missing[p][i] \in DOMAIN chunk[p]
    BY ListsAt
  <2>3. \A j \in DOMAIN missing[p] : Asked(p, chunk'[p][missing[p][j]].hash)
    BY <2>1, <2>2 DEF HashKept, MissingAsked
  <2> QED  BY <1>1, <2>3
<1>2. CASE ListsStay(p)
  BY <1>1, <1>2 DEF ListsStay
<1>3. CASE process_get(p)
  BY <1>3, GetAsked
<1>4. ASSUME NEW m \in BagToSet(net), complete_DATA(m), m.dst = p
      PROVE  \A i \in DOMAIN missing'[p] : Asked(p, chunk'[p][missing'[p][i]].hash)
  <2>1. m \in Packets
    BY DEF TypeOK
  <2>2. PICK i \in node_find(DownloadsFrom(m.dst, m.src)) : Completes(m, i)
    BY <1>4, <2>1, CompleteParts
  <2>3. CASE missing'[p] = missing[p]
    BY <1>1, <2>3
  <2>4. ASSUME NEW j \in DOMAIN missing[p], missing'[p] = node_delete(missing[p], j)
        PROVE  \A k \in DOMAIN missing'[p] : \E l \in DOMAIN missing[p] : missing'[p][k] = missing[p][l]
    <3>1. missing[p] \in Seq(DOMAIN chunk[p])
      BY ListsAt
    <3>2. Selects(node_delete(missing[p], j), missing[p], DOMAIN missing[p] \ {j})
      BY <2>4, <3>1, DeleteSelects
    <3> QED  BY <2>4, <3>2, SelectedAt
  <2>5. missing'[p] = missing[p] \/ \E j \in Same(m, i) : missing'[p] = node_delete(missing[p], j)
    BY <1>4, <2>1, <2>2, CompleteMissing
  <2>6. Same(m, i) \subseteq DOMAIN missing[p]
    BY <1>4 DEF Same
  <2> QED  BY <1>1, <2>3, <2>4, <2>5, <2>6
<1> QED  BY <1>2, <1>3, <1>4, PeerMoves DEF AnnouncedOnce

------------------------------------------------------------------------------
(* Packets. *)

BackedIn(S, heaps) == \A x \in S : PacketBacked(x, heaps)

\* Packets as they are made.
LEMMA BackedPackets ==
  ASSUME NEW heaps, NEW p, NEW q
  PROVE  /\ \A x : PacketBacked(WHOHAS(p, q, x), heaps) /\ PacketBacked(IHAVE(p, q, x), heaps)
         /\ PacketBacked(DENIED(p, q), heaps)
         /\ \A h : Asked(p, h) /\ Prefix(heaps[p], h, 0) => PacketBacked(GET(p, q, h), heaps)
         /\ \A s, b : Asked(q, b) => PacketBacked(DATA(p, q, s, b), heaps)
         /\ \A a : \A h \in Hashes :
               Asked(p, h) /\ Prefix(heaps[p], h, a) => PacketBacked(ACK(p, q, a), heaps)
<1>1. \A x : PacketBacked(WHOHAS(p, q, x), heaps) /\ PacketBacked(IHAVE(p, q, x), heaps)
  BY DEF PacketBacked, WHOHAS, IHAVE
<1>2. PacketBacked(DENIED(p, q), heaps)
  BY DEF PacketBacked, DENIED
<1>3. ASSUME NEW h, Asked(p, h), Prefix(heaps[p], h, 0) PROVE PacketBacked(GET(p, q, h), heaps)
  <2>1. GET(p, q, h).type = "GET" /\ GET(p, q, h).src = p /\ GET(p, q, h).hash = h
    BY DEF GET
  <2> QED  BY <1>3, <2>1 DEF PacketBacked
<1>4. ASSUME NEW s, NEW b, Asked(q, b) PROVE PacketBacked(DATA(p, q, s, b), heaps)
  <2>1. DATA(p, q, s, b).type = "DATA" /\ DATA(p, q, s, b).dst = q /\ DATA(p, q, s, b).data = b
    BY DEF DATA
  <2> QED  BY <1>4, <2>1 DEF PacketBacked
<1>5. ASSUME NEW a, NEW h \in Hashes, Asked(p, h), Prefix(heaps[p], h, a)
      PROVE  PacketBacked(ACK(p, q, a), heaps)
  <2>1. ACK(p, q, a).type = "ACK" /\ ACK(p, q, a).src = p /\ ACK(p, q, a).ack = a
    BY DEF ACK
  <2>2. \E g \in Hashes : Asked(ACK(p, q, a).src, g)
                            /\ Prefix(heaps[ACK(p, q, a).src], g, ACK(p, q, a).ack)
    BY <1>5, <2>1
  <2> QED  BY <2>1, <2>2 DEF PacketBacked
<1> QED  BY <1>1, <1>2, <1>3, <1>4, <1>5

\* Sending more packets.
LEMMA BackedPlus ==
  ASSUME NEW B, NEW C, NEW heaps, BackedIn(BagToSet(B), heaps), BackedIn(BagToSet(C), heaps)
  PROVE  BackedIn(BagToSet(B (+) C), heaps)
<1>1. BagToSet(B (+) C) = BagToSet(B) \cup BagToSet(C)
  BY BagPlus, Zenon
<1> QED  BY <1>1 DEF BackedIn

\* A family of packets.
LEMMA BackedFamily ==
  ASSUME NEW out, NEW heaps, \A i \in DOMAIN out : PacketBacked(out[i], heaps)
  PROVE  BackedIn(BagToSet(ToBag(out)), heaps)
<1>1. BagToSet(ToBag(out)) = {out[i] : i \in DOMAIN out}
  BY BagOf, Zenon
<1> QED  BY <1>1 DEF BackedIn

\* What a handler sends.
LEMMA BackedDeliver ==
  ASSUME NEW m, NEW out, NEW heaps, Deliver(m, out), BackedIn(BagToSet(net), heaps),
         \A i \in DOMAIN out : PacketBacked(out[i], heaps)
  PROVE  BackedIn(BagToSet(net'), heaps)
<1>1. net' = (net (-) SetToBag({m})) (+) ToBag(out)
  BY DEF Deliver
<1>2. BackedIn(BagToSet(net (-) SetToBag({m})), heaps)
  BY BagMinus DEF BackedIn
<1>3. BackedIn(BagToSet(ToBag(out)), heaps)
  BY BackedFamily
<1> QED  BY <1>1, <1>2, <1>3, BackedPlus, Zenon

\* WHOHAS packets say nothing of data.
LEMMA WhohasBacked ==
  ASSUME NEW p, NEW heap, NEW miss, NEW heaps
  PROVE  BackedIn(BagToSet(ToBag(send_WHOHAS(p, heap, miss))), heaps)
<1>1. \A b \in DOMAIN send_WHOHAS(p, heap, miss) : PacketBacked(send_WHOHAS(p, heap, miss)[b], heaps)
  BY BackedPackets, Zenon DEF send_WHOHAS
<1> QED  BY <1>1, BackedFamily

\* GETs are sent for missing chunks.
LEMMA GetsBacked ==
  ASSUME NEW p, NEW heap, NEW miss, NEW heaps, heaps[p] = heap, NEW f \in [DOMAIN miss -> Peers \cup {NoPeer}],
         \A i \in DOMAIN miss : miss[i] \in DOMAIN heap /\ Asked(p, heap[miss[i]].hash)
  PROVE  /\ \A i \in DOMAIN send_GETs(p, heap, miss, f) :
               PacketBacked(send_GETs(p, heap, miss, f)[i], heaps)
         /\ BackedIn(BagToSet(ToBag(send_GETs(p, heap, miss, f))), heaps)
<1>1. DOMAIN send_GETs(p, heap, miss, f) = Chosen(f) /\ Chosen(f) \subseteq DOMAIN miss
  BY DEF send_GETs, Chosen
<1>2. ASSUME NEW i \in DOMAIN send_GETs(p, heap, miss, f)
      PROVE  PacketBacked(send_GETs(p, heap, miss, f)[i], heaps)
  <2> DEFINE h == heap[miss[i]].hash
  <2>1. send_GETs(p, heap, miss, f)[i] = GET(p, f[i], h)
    BY <1>2 DEF send_GETs
  <2>2. miss[i] \in DOMAIN heap /\ Asked(p, h)
    BY <1>1, <1>2
  <2>3. Prefix(heaps[p], h, 0)
    BY <2>2 DEF Prefix
  <2> HIDE DEF h
  <2> QED  BY <2>1, <2>2, <2>3, BackedPackets, Zenon
<1> QED  BY <1>2, BackedFamily

\* An ACK for what a chunk holds.
LEMMA AckBackedBy ==
  ASSUME NEW p, NEW q, NEW heaps, NEW r \in DOMAIN heaps[p], heaps[p][r].hash \in Hashes,
         heaps[p][r].data \in [SeqNums -> Blocks], Asked(p, heaps[p][r].hash)
  PROVE  PacketBacked(ACK(p, q, data_find_largest_consec_seq(heaps[p][r].data)), heaps)
<1> DEFINE n == data_find_largest_consec_seq(heaps[p][r].data)
<1>1. \A s \in 1..n : heaps[p][r].data[s] # Unset
  BY ConsecType
<1> HIDE DEF n
<1>2. Prefix(heaps[p], heaps[p][r].hash, n)
  BY <1>1 DEF Prefix
<1> QED  BY <1>2, BackedPackets, Zenon DEF n

\* DATA is sent for the chunk that its receiver asked for.
LEMMA DataBacked ==
  ASSUME NEW p, NEW q, NEW c \in DOMAIN chunk[p], NEW k \in CongestCtrl, NEW heaps,
         Intact(chunk[p][c]), Asked(q, chunk[p][c].hash)
  PROVE  \A s \in DOMAIN send_DATA(p, q, c, k) : PacketBacked(send_DATA(p, q, c, k)[s], heaps)
<1>1. DOMAIN send_DATA(p, q, c, k) \subseteq SeqNums
  BY Sending DEF send_DATA
<1>2. \A s \in DOMAIN send_DATA(p, q, c, k) :
         send_DATA(p, q, c, k)[s] = DATA(p, q, s, chunk[p][c].data[s])
  BY DEF send_DATA
<1>3. \A s \in SeqNums : chunk[p][c].data[s] = chunk[p][c].hash
  BY DEF Intact
<1> QED  BY <1>1, <1>2, <1>3, BackedPackets, Zenon

\* What is known of a packet stays known.
LEMMA PacketKept ==
  ASSUME NEW x \in Packets, NEW new, NEW old, PacketBacked(x, old),
         \A q \in Peers : HashKept(new[q], old[q]) /\ DataKept(new[q], old[q])
  PROVE  PacketBacked(x, new)
<1>1. x.src \in Peers /\ (x.type = "ACK" => x.ack \in 0..MAX_SEQ_NUM) /\ 0 \in 0..MAX_SEQ_NUM
  BY PacketFields, CongestionAssumption
<1>2. HashKept(new[x.src], old[x.src]) /\ DataKept(new[x.src], old[x.src])
  BY <1>1
<1>3. ASSUME x.type = "GET" PROVE Prefix(new[x.src], x.hash, 0)
  BY <1>1, <1>2, <1>3, PrefixKept DEF PacketBacked
<1>4. ASSUME x.type = "ACK" PROVE \E h \in Hashes : Asked(x.src, h) /\ Prefix(new[x.src], h, x.ack)
  <2>1. PICK h \in Hashes : Asked(x.src, h) /\ Prefix(old[x.src], h, x.ack)
    BY <1>4 DEF PacketBacked
  <2> QED  BY <1>1, <1>2, <1>4, <2>1, PrefixKept
<1> QED  BY <1>3, <1>4 DEF PacketBacked

\* A transfer that survives a timeout asks for what its chunk lacks.
LEMMA ResentBacked ==
  ASSUME TypeOK, DownloadsMatchMissing, MissingAsked, NEW p \in Peers
  PROVE  \A i \in DOMAIN Resent(p) : PacketBacked(Resent(p)[i], chunk)
<1>1. DOMAIN Resent(p) = SurvivingDownloads(p) /\ SurvivingDownloads(p) \subseteq DOMAIN downloads[p]
  BY DEF Resent, SurvivingDownloads
<1>2. SUFFICES ASSUME NEW i \in SurvivingDownloads(p) PROVE PacketBacked(Resent(p)[i], chunk)
  BY <1>1
<1> DEFINE t == downloads[p][i]
           c == chunk[p][t.c]
<1>3. Resent(p)[i] = IF \A s \in SeqNums : c.data[s] = Unset
                       THEN GET(p, t.peer, c.hash)
                       ELSE ACK(p, t.peer, data_find_largest_consec_seq(c.data))
  BY DEF Resent
<1>4. t.c \in DOMAIN chunk[p] /\ c \in Chunk
  BY <1>1, ListsAt DEF HeapOK
<1>5. c.hash \in Hashes /\ c.data \in [SeqNums -> Blocks] /\ Asked(p, c.hash)
  BY <1>1, <1>4, DownloadAsked DEF Chunk
<1>6. Prefix(chunk[p], c.hash, 0)
  BY <1>4 DEF Prefix
<1>7. PacketBacked(GET(p, t.peer, c.hash), chunk)
  BY <1>5, <1>6, BackedPackets, Zenon
<1>8. PacketBacked(ACK(p, t.peer, data_find_largest_consec_seq(c.data)), chunk)
  BY <1>4, <1>5, AckBackedBy
<1> HIDE DEF c, t
<1> QED  BY <1>3, <1>7, <1>8

\* What receive_GET and receive_ACK send.
LEMMA ServerBacked ==
  ASSUME TypeOK, HaveValid, NetBacked, UploadsBacked, NEW m \in BagToSet(net),
         receive_GET(m) \/ receive_ACK(m), NEW heaps, BackedIn(BagToSet(net), heaps)
  PROVE  BackedIn(BagToSet(net'), heaps)
<1> DEFINE p == m.dst
<1>1. m \in Packets /\ p \in Peers
  BY PacketFields DEF TypeOK
<1>2. ASSUME Deliver(m, Nothing) PROVE BackedIn(BagToSet(net'), heaps)
  BY <1>2, BackedDeliver DEF Nothing
<1>3. ASSUME NEW c \in DOMAIN chunk[p], NEW k \in CongestCtrl, Deliver(m, send_DATA(p, m.src, c, k)),
             Intact(chunk[p][c]), Asked(m.src, chunk[p][c].hash)
      PROVE  BackedIn(BagToSet(net'), heaps)
  <2>1. \A s \in DOMAIN send_DATA(p, m.src, c, k) : PacketBacked(send_DATA(p, m.src, c, k)[s], heaps)
    BY <1>3, DataBacked
  <2> QED  BY <1>3, <2>1, BackedDeliver
<1>4. CASE refuse_GET(m)
  <2>1. Deliver(m, <<DENIED(p, m.src)>>)
    BY <1>4, Zenon DEF refuse_GET
  <2>2. PacketBacked(DENIED(p, m.src), heaps)
    BY BackedPackets
  <2>3. \A i \in DOMAIN <<DENIED(p, m.src)>> : PacketBacked(<<DENIED(p, m.src)>>[i], heaps)
    BY <2>2
  <2> QED  BY <2>1, <2>3, BackedDeliver
<1>5. CASE accept_GET(m)
  <2>1. PICK i \in node_find(Owned(p, m.hash)) : Deliver(m, send_DATA(p, m.src, have[p][i], NewCongestCtrl))
    BY <1>5, Zenon DEF accept_GET
  <2>2. i \in DOMAIN have[p] /\ chunk[p][have[p][i]].hash = m.hash
    BY <2>1, NodeFind DEF Owned
  <2>3. have[p][i] \in DOMAIN chunk[p] /\ Intact(chunk[p][have[p][i]])
    BY <1>1, <2>2, HaveAt DEF HaveValid
  <2>4. Asked(m.src, m.hash)
    BY <1>5, Zenon DEF accept_GET, NetBacked, PacketBacked
  <2> QED  BY <1>3, <2>1, <2>2, <2>3, <2>4, NewCtrl
<1>6. ASSUME NEW i \in node_find(UploadsTo(p, m.src)), NEW k \in CongestCtrl, Continue(m, i, k)
      PROVE  BackedIn(BagToSet(net'), heaps)
  <2>1. uploads[p][i].c \in DOMAIN chunk[p] /\ i \in DOMAIN uploads[p]
    BY <1>1, <1>6, FoundUpload, UploadAt
  <2>2. Deliver(m, send_DATA(p, m.src, uploads[p][i].c, k))
    BY <1>6, Zenon DEF Continue
  <2>3. uploads[p][i].peer = m.src
    BY <1>6, NodeFind DEF UploadsTo
  <2>4. Asked(m.src, chunk[p][uploads[p][i].c].hash) /\ Intact(chunk[p][uploads[p][i].c])
    BY <1>1, <2>1, <2>3 DEF UploadsBacked, UploadBacked
  <2> QED  BY <1>3, <1>6, <2>1, <2>2, <2>4
<1>7. CASE new_ACK(m)
  <2>1. PICK i \in node_find(UploadsTo(p, m.src)) :
         \E k2 \in congestion_control(adjust_window(uploads[p][i].cctrl, m.ack)) : Continue(m, i, k2)
    BY <1>7, Zenon DEF new_ACK
  <2>2. PICK k2 \in congestion_control(adjust_window(uploads[p][i].cctrl, m.ack)) : Continue(m, i, k2)
    BY <2>1
  <2>3. uploads[p][i].cctrl \in CongestCtrl /\ m.ack \in 0..MAX_SEQ_NUM
    BY <1>1, <1>7, FoundUpload, UploadAt, PacketFields DEF new_ACK
  <2>4. k2 \in CongestCtrl
    BY <2>2, <2>3, MoveWindow, Growth, Zenon
  <2> QED  BY <1>6, <2>2, <2>4
<1>8. CASE loss_ACK(m)
  <2>1. PICK i \in node_find(UploadsTo(p, m.src)) :
         Continue(m, i, detected_first_loss([uploads[p][i].cctrl EXCEPT
                                               !.index = uploads[p][i].cctrl.begin]))
    BY <1>8, Zenon DEF loss_ACK
  <2>2. uploads[p][i].cctrl \in CongestCtrl
    BY <1>1, FoundUpload, UploadAt
  <2>3. [uploads[p][i].cctrl EXCEPT !.index = uploads[p][i].cctrl.begin] \in CongestCtrl
    BY <2>2 DEF CongestCtrl
  <2> QED  BY <1>6, <2>1, <2>3, Loss, Zenon
<1>9. CASE ignore_GET(m) \/ stray_ACK(m) \/ last_ACK(m) \/ old_ACK(m)
  BY <1>2, <1>9, Zenon DEF ignore_GET, stray_ACK, last_ACK, old_ACK
<1> QED  BY <1>4, <1>5, <1>7, <1>8, <1>9, Zenon DEF receive_GET, receive_ACK

\* The ACK that receive_DATA sends.
LEMMA AckForBacked ==
  ASSUME TypeOK, DownloadsMatchMissing, MissingAsked, NEW m \in Packets, m.type = "DATA",
         NEW i \in node_find(DownloadsFrom(m.dst, m.src)), NEW heaps,
         heaps[m.dst] = [chunk[m.dst] EXCEPT ![downloads[m.dst][i].c].data = Stored(m, i)]
  PROVE  PacketBacked(AckFor(m, i), heaps)
<1> DEFINE p == m.dst
           c == downloads[p][i].c
           d == Stored(m, i)
<1>1. p \in Peers
  BY PacketFields
<1>2. i \in DOMAIN downloads[p] /\ c \in DOMAIN chunk[p] /\ chunk[p][c].hash \in Hashes
  BY <1>1, DownloadAt DEF Chunk
<1>3. HeapOK(chunk[p])
  BY <1>1, ListsAt
<1>4. heaps[p] = [chunk[p] EXCEPT ![c].data = d]
  OBVIOUS
<1>5. Asked(p, chunk[p][c].hash)
  BY <1>1, <1>2, DownloadAsked
<1>6. d \in [SeqNums -> Blocks]
  BY StoredType
<1>7. AckFor(m, i) = ACK(p, m.src, data_find_largest_consec_seq(d))
  BY Zenon DEF AckFor
<1> HIDE DEF c, d, p
<1>8. DOMAIN heaps[p] = DOMAIN chunk[p]
  BY <1>4
<1>9. heaps[p][c].hash = chunk[p][c].hash /\ heaps[p][c].data = d
  <2>1. /\ [chunk[p] EXCEPT ![c].data = d][c].hash = chunk[p][c].hash
        /\ [chunk[p] EXCEPT ![c].data = d][c].data = d
    <3> DEFINE cell == [chunk[p][c] EXCEPT !.data = d]
    <3>1. chunk[p][c] \in Chunk
      BY <1>2, <1>3 DEF HeapOK
    <3>2. cell.hash = chunk[p][c].hash /\ cell.data = d
      BY <3>1 DEF Chunk
    <3> HIDE DEF cell
    <3>3. [chunk[p] EXCEPT ![c].data = d][c] = cell
      BY <1>2 DEF cell
    <3> QED  BY <3>2, <3>3
  <2> QED  BY <1>4, <2>1, Zenon
<1>10. PacketBacked(ACK(p, m.src, data_find_largest_consec_seq(heaps[p][c].data)), heaps)
  BY <1>2, <1>5, <1>6, <1>8, <1>9, AckBackedBy
<1> QED  BY <1>7, <1>9, <1>10

\* What is sent when a transfer ends and others start.
LEMMA NextBacked ==
  ASSUME NEW m, NEW i, NEW heap, NEW miss, NextDownloads(m, i, heap, miss), NEW heaps,
         heaps[m.dst] = heap, PacketBacked(AckFor(m, i), heaps), BackedIn(BagToSet(net), heaps),
         \A j \in DOMAIN miss : miss[j] \in DOMAIN heap /\ Asked(m.dst, heap[miss[j]].hash)
  PROVE  BackedIn(BagToSet(net'), heaps)
<1>1. PICK f \in get_chunk_data(heap, miss, node_delete(downloads[m.dst], i), available[m.dst] \cup {m.src}) :
         net' = ((net (-) SetToBag({m})) (+) SetToBag({AckFor(m, i)}))
                          (+) ToBag(send_GETs(m.dst, heap, miss, f))
  BY Zenon DEF NextDownloads
<1>2. f \in [DOMAIN miss -> Peers \cup {NoPeer}]
  BY <1>1, Decision
<1>3. BackedIn(BagToSet(net (-) SetToBag({m})), heaps)
  BY BagMinus DEF BackedIn
<1>4. BackedIn(BagToSet(SetToBag({AckFor(m, i)})), heaps)
  <2>1. BagToSet(SetToBag({AckFor(m, i)})) = {AckFor(m, i)}
    BY BagSingle
  <2> QED  BY <2>1 DEF BackedIn
<1>5. BackedIn(BagToSet(ToBag(send_GETs(m.dst, heap, miss, f))), heaps)
  BY <1>2, GetsBacked
<1> QED  BY <1>1, <1>3, <1>4, <1>5, BackedPlus, Zenon

\* Every step leaves only packets that are backed in flight.
LEMMA NetStep ==
  ASSUME AskForOne, TypeOK, TypeOK', HaveValid, DownloadsMatchMissing, MissingAsked, MissingAsked',
         AllClean, NetBacked, UploadsBacked, [Next]_vars
  PROVE  BackedIn(BagToSet(net'), chunk')
<1>1. \A q \in Peers : HashKept(chunk'[q], chunk[q]) /\ DataKept(chunk'[q], chunk[q])
  BY HashesStep, HeapsGrow
<1>2. ASSUME NEW x \in Packets, PacketBacked(x, chunk) PROVE PacketBacked(x, chunk')
  BY <1>1, <1>2, PacketKept
<1>3. BackedIn(BagToSet(net), chunk')
  <2>1. \A x \in BagToSet(net) : x \in Packets /\ PacketBacked(x, chunk)
    BY DEF TypeOK, NetBacked
  <2> QED  BY <1>2, <2>1 DEF BackedIn
<1>4. ASSUME NEW p \in Peers
      PROVE  \A j \in DOMAIN missing'[p] :
                missing'[p][j] \in DOMAIN chunk'[p] /\ Asked(p, chunk'[p][missing'[p][j]].hash)
  <2>1. missing'[p] \in Seq(DOMAIN chunk'[p])
    BY Zenon DEF TypeOK, PeerOK
  <2>2. \A j \in DOMAIN missing'[p] : Asked(p, chunk'[p][missing'[p][j]].hash)
    BY Zenon DEF MissingAsked
  <2> QED  BY <2>1, <2>2
<1>5. ASSUME NEW m \in BagToSet(net), process_inbound_udp(m) PROVE BackedIn(BagToSet(net'), chunk')
  <2> DEFINE p == m.dst
  <2>1. m \in Packets /\ p \in Peers
    BY PacketFields DEF TypeOK
  <2>2. ASSUME NEW x, PacketBacked(x, chunk'), Deliver(m, <<x>>) PROVE BackedIn(BagToSet(net'), chunk')
    <3>1. \A i \in DOMAIN <<x>> : PacketBacked(<<x>>[i], chunk')
      BY <2>2
    <3> QED  BY <1>3, <2>2, <3>1, BackedDeliver
  <2>3. ASSUME Deliver(m, Nothing) PROVE BackedIn(BagToSet(net'), chunk')
    BY <1>3, <2>3, BackedDeliver DEF Nothing
  <2>4. CASE receive_WHOHAS(m)
    BY <2>2, <2>4, BackedPackets, Zenon DEF receive_WHOHAS
  <2>5. CASE receive_GET(m) \/ receive_ACK(m)
    BY <1>3, <2>5, ServerBacked
  <2>6. CASE receive_IHAVE(m)
    <3>1. PICK heap : /\ chunk' = [chunk EXCEPT ![p] = heap]
                      /\ \E f \in get_chunk_data(heap, missing[p], downloads[p], available[p]) :
                            Deliver(m, send_GETs(p, heap, missing[p], f))
      BY <2>6, Zenon DEF receive_IHAVE
    <3>2. PICK f \in get_chunk_data(heap, missing[p], downloads[p], available[p]) :
             Deliver(m, send_GETs(p, heap, missing[p], f))
      BY <3>1
    <3>3. chunk'[p] = heap /\ missing' = missing
      <4>1. missing' = missing
        BY <2>6, Zenon DEF receive_IHAVE
      <4> QED  BY <2>1, <3>1, <4>1 DEF TypeOK
    <3>4. f \in [DOMAIN missing[p] -> Peers \cup {NoPeer}]
      BY <3>2, Decision
    <3>5. \A j \in DOMAIN missing[p] : missing[p][j] \in DOMAIN heap /\ Asked(p, heap[missing[p][j]].hash)
      BY <1>4, <2>1, <3>3
    <3>6. \A i \in DOMAIN send_GETs(p, heap, missing[p], f) :
             PacketBacked(send_GETs(p, heap, missing[p], f)[i], chunk')
      BY <3>3, <3>4, <3>5, GetsBacked
    <3> QED  BY <1>3, <3>2, <3>6, BackedDeliver
  <2>7. CASE receive_DENIED(m)
    BY <2>3, <2>7, Zenon DEF receive_DENIED, stray_DENIED, drop_DENIED
  <2>8. CASE receive_DATA(m)
    <3>1. ASSUME m.type = "DATA", NEW i \in node_find(DownloadsFrom(p, m.src)),
                 chunk' = [chunk EXCEPT ![p] = [chunk[p] EXCEPT ![downloads[p][i].c].data = Stored(m, i)]]
          PROVE  /\ PacketBacked(AckFor(m, i), chunk')
                 /\ chunk'[p] = [chunk[p] EXCEPT ![downloads[p][i].c].data = Stored(m, i)]
      <4> DEFINE heap == [chunk[p] EXCEPT ![downloads[p][i].c].data = Stored(m, i)]
      <4>1. chunk'[p] = heap
        <5> HIDE DEF heap
        <5> QED  BY <2>1, <3>1 DEF TypeOK, heap
      <4> QED  BY <2>1, <3>1, <4>1, AckForBacked
    <3>2. CASE stray_DATA(m)
      BY <2>3, <3>2, Zenon DEF stray_DATA
    <3>3. CASE store_DATA(m)
      <4>1. PICK i \in node_find(DownloadsFrom(p, m.src)) :
               /\ chunk' = [chunk EXCEPT ![p] = [chunk[p] EXCEPT ![downloads[p][i].c].data = Stored(m, i)]]
               /\ Deliver(m, <<AckFor(m, i)>>)
        BY <3>3, Zenon DEF store_DATA
      <4>2. m.type = "DATA"
        BY <3>3 DEF store_DATA
      <4> QED  BY <2>2, <3>1, <4>1, <4>2
    <3>4. CASE complete_DATA(m)
      <4>1. PICK i \in node_find(DownloadsFrom(p, m.src)) : Completes(m, i)
        BY <2>1, <3>4, CompleteParts
      <4>2. /\ chunk' = [chunk EXCEPT ![p] = FilledHeap(m, i)]
            /\ NextDownloads(m, i, FilledHeap(m, i), missing'[p])
        BY <4>1, Zenon DEF Completes
      <4>3. m.type = "DATA"
        BY <3>4 DEF complete_DATA
      <4>4. PacketBacked(AckFor(m, i), chunk') /\ chunk'[p] = FilledHeap(m, i)
        BY <3>1, <4>1, <4>2, <4>3, Zenon DEF FilledHeap, Target
      <4>5. \A j \in DOMAIN missing'[p] :
               missing'[p][j] \in DOMAIN FilledHeap(m, i) /\ Asked(p, FilledHeap(m, i)[missing'[p][j]].hash)
        BY <1>4, <2>1, <4>4, Zenon
      <4> QED  BY <1>3, <4>2, <4>4, <4>5, NextBacked
    <3>5. ~corrupt_DATA(m)
      BY NeverCorrupt
    <3> QED  BY <2>8, <3>2, <3>3, <3>4, <3>5 DEF receive_DATA
  <2> QED  BY <1>5, <2>4, <2>5, <2>6, <2>7, <2>8 DEF process_inbound_udp
<1>6. ASSUME NEW m, Lose(m) PROVE BackedIn(BagToSet(net'), chunk')
  BY <1>3, <1>6, BackedDeliver DEF Lose, Nothing
<1>7. ASSUME NEW m \in BagToSet(net), Duplicate(m) PROVE BackedIn(BagToSet(net'), chunk')
  <2>1. BagToSet(SetToBag({m})) = {m} /\ net' = net (+) SetToBag({m})
    BY <1>7, BagSingle DEF Duplicate
  <2>2. BackedIn(BagToSet(SetToBag({m})), chunk')
    BY <1>3, <2>1 DEF BackedIn
  <2> QED  BY <1>3, <2>1, <2>2, BackedPlus, Zenon
<1>8. ASSUME NEW p \in Peers, process_get(p) PROVE BackedIn(BagToSet(net'), chunk')
  <2>1. PICK heap, miss : net' = net (+) ToBag(send_WHOHAS(p, heap, miss))
    BY <1>8, Zenon DEF process_get
  <2> QED  BY <1>3, <2>1, WhohasBacked, BackedPlus, Zenon
<1>9. ASSUME NEW p \in Peers, handle_timeout(p) PROVE BackedIn(BagToSet(net'), chunk')
  <2>1. CASE net' = net
    BY <1>3, <2>1
  <2>2. ASSUME NEW heap, NEW down, NEW avail, NEW f \in get_chunk_data(heap, missing[p], down, avail), NEW C,
               chunk' = [chunk EXCEPT ![p] = heap], missing' = missing,
               net' = ((net (+) ToBag(Resent(p))) (+) ToBag(send_GETs(p, heap, missing[p], f))) (+) C,
               C = EmptyBag \/ C = ToBag(send_WHOHAS(p, heap, missing[p]))
        PROVE  BackedIn(BagToSet(net'), chunk')
    <3>1. \A i \in DOMAIN Resent(p) : Resent(p)[i] \in Packets /\ PacketBacked(Resent(p)[i], chunk)
      BY ResentPackets, ResentBacked
    <3>2. BackedIn(BagToSet(ToBag(Resent(p))), chunk')
      BY <1>2, <3>1, BackedFamily
    <3>3. chunk'[p] = heap
      BY <2>2 DEF TypeOK
    <3>4. f \in [DOMAIN missing[p] -> Peers \cup {NoPeer}]
      BY <2>2, Decision
    <3>5. \A j \in DOMAIN missing[p] : missing[p][j] \in DOMAIN heap /\ Asked(p, heap[missing[p][j]].hash)
      BY <1>4, <2>2, <3>3
    <3>6. BackedIn(BagToSet(ToBag(send_GETs(p, heap, missing[p], f))), chunk')
      BY <3>3, <3>4, <3>5, GetsBacked
    <3>7. BackedIn(BagToSet(C), chunk')
      <4>1. BagToSet(EmptyBag) = {}
        BY DEF EmptyBag, BagToSet, SetToBag
      <4>2. BackedIn(BagToSet(EmptyBag), chunk')
        BY <4>1 DEF BackedIn
      <4> QED  BY <2>2, <4>2, WhohasBacked
    <3> QED  BY <1>3, <2>2, <3>2, <3>6, <3>7, BackedPlus, Zenon
  <2>3. missing' = missing
    BY <1>9, Zenon DEF handle_timeout
  <2>4. \/ net' = net
        \/ \E heap, down, avail, C : \E f \in get_chunk_data(heap, missing[p], down, avail) :
              /\ chunk' = [chunk EXCEPT ![p] = heap]
              /\ net' = ((net (+) ToBag(Resent(p))) (+) ToBag(send_GETs(p, heap, missing[p], f))) (+) C
              /\ C = EmptyBag \/ C = ToBag(send_WHOHAS(p, heap, missing[p]))
    BY <1>9, Zenon DEF handle_timeout, handle_client_timeout
  <2> QED  BY <2>1, <2>2, <2>3, <2>4
<1>10. CASE UNCHANGED vars
  <2>1. net' = net
    BY <1>10 DEF vars
  <2> QED  BY <1>3, <2>1
<1> QED
  BY <1>5, <1>6, <1>7, <1>8, <1>9, <1>10, Zenon DEF Next, QuietTimeout, EarlyTimeout

------------------------------------------------------------------------------
(* Windows. *)

\* Only adjust_window moves the beginning of a window.
LEMMA BeginMoves ==
  ASSUME NEW k \in CongestCtrl
  PROVE  /\ AfterSend(k).begin = k.begin
         /\ detected_first_loss(k).begin = k.begin
         /\ \A k2 \in congestion_control(k) : k2.begin = k.begin
         /\ \A ack : adjust_window(k, ack).begin = ack
         /\ \A n : [k EXCEPT !.timeout_count = n].begin = k.begin
         /\ \A n : [k EXCEPT !.index = n].begin = k.begin
         /\ \A n, d : [k EXCEPT !.dup_count = d, !.timeout_count = n].begin = k.begin
<1>1. AfterSend(k).begin = k.begin
  BY DEF AfterSend, CongestCtrl
<1>2. detected_first_loss(k).begin = k.begin
  BY DEF detected_first_loss, CongestCtrl
<1>3. \A k2 \in congestion_control(k) : k2.begin = k.begin
  BY DEF congestion_control, slow_start, congestion_avoidance, CongestCtrl
<1>4. \A ack : adjust_window(k, ack).begin = ack
  BY DEF adjust_window, CongestCtrl
<1>5. \A n : [k EXCEPT !.timeout_count = n].begin = k.begin
  BY DEF CongestCtrl
<1>6. \A n : [k EXCEPT !.index = n].begin = k.begin
  BY DEF CongestCtrl
<1>7. \A n, d : [k EXCEPT !.dup_count = d, !.timeout_count = n].begin = k.begin
  BY DEF CongestCtrl
<1> QED  BY <1>1, <1>2, <1>3, <1>4, <1>5, <1>6, <1>7

\* Where the transfer t of p comes from: one that was there and whose window
\* begins where it did, one whose window an ACK of its peer moved, or one that
\* a GET opened.
SameUpload(t, u) == t.peer = u.peer /\ t.c = u.c

MovedBy(t, m) == m.type = "ACK" /\ m.src = t.peer /\ t.cctrl.begin = m.ack

OpenedBy(t, p, m) ==
    /\ m.type = "GET" /\ t.peer = m.src /\ t.cctrl.begin = 0
    /\ \E k \in DOMAIN have[p] : t.c = have[p][k] /\ chunk[p][t.c].hash = m.hash

ComesFrom(t, p) ==
    \/ \E j \in DOMAIN uploads[p] :
          /\ SameUpload(t, uploads[p][j])
          /\ \/ t.cctrl.begin = uploads[p][j].cctrl.begin
             \/ \E m \in BagToSet(net) : MovedBy(t, m)
    \/ \E m \in BagToSet(net) : OpenedBy(t, p, m)

\* A transfer that did not change.
LEMMA ComesSame ==
  ASSUME NEW t, NEW p, NEW j \in DOMAIN uploads[p], t = uploads[p][j]
  PROVE  ComesFrom(t, p)
  BY DEF ComesFrom, SameUpload

\* A transfer with another control block.
LEMMA ComesCtrl ==
  ASSUME TypeOK, NEW p \in Peers, NEW i \in DOMAIN uploads[p], NEW k,
         \/ k.begin = uploads[p][i].cctrl.begin
         \/ \E m \in BagToSet(net) : m.type = "ACK" /\ m.src = uploads[p][i].peer /\ k.begin = m.ack,
         NEW x \in DOMAIN [uploads[p] EXCEPT ![i].cctrl = k]
  PROVE  ComesFrom([uploads[p] EXCEPT ![i].cctrl = k][x], p)
<1> DEFINE up == uploads[p]
           new == [up EXCEPT ![i].cctrl = k]
           u == [up[i] EXCEPT !.cctrl = k]
<1>1. up[i] \in Upload(DOMAIN chunk[p])
  BY UploadAt
<1>2. x \in DOMAIN up /\ new[x] = IF x = i THEN u ELSE up[x]
  <2>1. x \in DOMAIN new /\ DOMAIN new = DOMAIN up
    OBVIOUS
  <2>2. \A j \in DOMAIN up : new[j] = IF j = i THEN [up[j] EXCEPT !.cctrl = k] ELSE up[j]
    <3> HIDE DEF up
    <3> QED  OBVIOUS
  <2> HIDE DEF new, up
  <2> QED  BY <2>1, <2>2
<1>3. u.peer = up[i].peer /\ u.c = up[i].c /\ u.cctrl = k
  <2> HIDE DEF up
  <2> QED  BY <1>1 DEF Upload
<1> HIDE DEF new, u
<1>4. CASE x # i
  BY <1>2, <1>4, ComesSame
<1>5. ComesFrom(u, p)
  BY <1>3 DEF ComesFrom, SameUpload, MovedBy
<1>6. ComesFrom(new[x], p)
  BY <1>2, <1>4, <1>5
<1> QED  BY <1>6 DEF new

\* A datagram.
LEMMA InboundComes ==
  ASSUME TypeOK, NEW m \in BagToSet(net), process_inbound_udp(m), NEW x \in DOMAIN uploads'[m.dst]
  PROVE  ComesFrom(uploads'[m.dst][x], m.dst)
<1> DEFINE p == m.dst
<1>0. m \in Packets
  BY DEF TypeOK
<1>1. p \in Peers /\ uploads[p] \in Seq(Upload(DOMAIN chunk[p]))
  BY <1>0, PacketFields, Zenon DEF TypeOK, PeerOK
<1>2. ASSUME NEW up, uploads' = [uploads EXCEPT ![p] = up] PROVE uploads'[p] = up
  BY <1>1, <1>2 DEF TypeOK
<1>3. CASE uploads' = uploads
  BY <1>3, ComesSame
<1>4. ASSUME NEW i \in node_find(UploadsTo(p, m.src)), NEW k,
             uploads' = [uploads EXCEPT ![p] = [uploads[p] EXCEPT ![i].cctrl = k]],
             k.begin = uploads[p][i].cctrl.begin \/ (m.type = "ACK" /\ k.begin = m.ack)
      PROVE  ComesFrom(uploads'[p][x], p)
  <2>1. i \in DOMAIN uploads[p] /\ uploads[p][i].peer = m.src
    BY NodeFind DEF UploadsTo
  <2>2. uploads'[p] = [uploads[p] EXCEPT ![i].cctrl = k]
    BY <1>2, <1>4, Zenon
  <2>3. \/ k.begin = uploads[p][i].cctrl.begin
        \/ \E a \in BagToSet(net) : a.type = "ACK" /\ a.src = uploads[p][i].peer /\ k.begin = a.ack
    BY <1>4, <2>1
  <2>4. x \in DOMAIN [uploads[p] EXCEPT ![i].cctrl = k]
    BY <2>2
  <2>5. ComesFrom([uploads[p] EXCEPT ![i].cctrl = k][x], p)
    BY <1>1, <2>1, <2>3, <2>4, ComesCtrl
  <2> QED  BY <2>2, <2>5
<1>5. CASE accept_GET(m)
  <2>1. PICK i \in node_find(Owned(p, m.hash)) :
           uploads' = [uploads EXCEPT ![p] = node_insert(uploads[p],
              [peer |-> m.src, c |-> have[p][i], cctrl |-> AfterSend(NewCongestCtrl)])]
    BY <1>5, Zenon DEF accept_GET
  <2> DEFINE t == [peer |-> m.src, c |-> have[p][i], cctrl |-> AfterSend(NewCongestCtrl)]
  <2>2. uploads'[p] = node_insert(uploads[p], t)
    BY <1>2, <2>1, Zenon
  <2>3. i \in DOMAIN have[p] /\ chunk[p][have[p][i]].hash = m.hash
    BY NodeFind DEF Owned
  <2>4. AfterSend(NewCongestCtrl).begin = 0
    BY NewCtrl, BeginMoves DEF NewCongestCtrl
  <2>5. t.c = have[p][i] /\ t.peer = m.src /\ t.cctrl.begin = 0
    BY <2>4
  <2>6. m.type = "GET"
    BY <1>5 DEF accept_GET
  <2> HIDE DEF t
  <2>7. ComesFrom(t, p)
    BY <2>3, <2>5, <2>6 DEF ComesFrom, OpenedBy
  <2>8. \/ uploads'[p][x] = t
        \/ \E j \in DOMAIN uploads[p] : uploads'[p][x] = uploads[p][j]
    BY <1>1, <2>2 DEF node_insert
  <2> QED  BY <2>7, <2>8, ComesSame
<1>6. CASE last_ACK(m)
  <2>1. PICK i \in node_find(UploadsTo(p, m.src)) :
           uploads' = [uploads EXCEPT ![p] = node_delete(uploads[p], i)]
    BY <1>6, Zenon DEF last_ACK
  <2>2. i \in DOMAIN uploads[p]
    BY NodeFind DEF UploadsTo
  <2>3. uploads'[p] = node_delete(uploads[p], i)
    BY <1>2, <2>1, Zenon
  <2>4. Selects(node_delete(uploads[p], i), uploads[p], DOMAIN uploads[p] \ {i})
    BY <1>1, <2>2, DeleteSelects
  <2>5. \E j \in DOMAIN uploads[p] : uploads'[p][x] = uploads[p][j]
    BY <2>3, <2>4, SelectedAt
  <2> QED  BY <2>5, ComesSame
<1>7. ASSUME NEW i \in node_find(UploadsTo(p, m.src)) PROVE uploads[p][i].cctrl \in CongestCtrl
  BY <1>1, <1>7, FoundUpload, UploadAt
<1>8. ASSUME NEW i \in node_find(UploadsTo(p, m.src)), NEW k \in CongestCtrl, Continue(m, i, k),
             k.begin = uploads[p][i].cctrl.begin \/ (m.type = "ACK" /\ k.begin = m.ack)
      PROVE  ComesFrom(uploads'[p][x], p)
  <2> DEFINE j == [AfterSend(k) EXCEPT !.timeout_count = 0]
  <2>1. uploads' = [uploads EXCEPT ![p] = [uploads[p] EXCEPT ![i].cctrl = j]]
    BY <1>8, Zenon DEF Continue
  <2>2. AfterSend(k) \in CongestCtrl
    BY Sending
  <2>3. j.begin = k.begin
    BY <2>2, BeginMoves
  <2> HIDE DEF j
  <2> QED  BY <1>4, <1>8, <2>1, <2>3
<1>9. CASE new_ACK(m)
  <2>1. PICK i \in node_find(UploadsTo(p, m.src)) :
         \E k2 \in congestion_control(adjust_window(uploads[p][i].cctrl, m.ack)) : Continue(m, i, k2)
    BY <1>9, Zenon DEF new_ACK
  <2>2. PICK k2 \in congestion_control(adjust_window(uploads[p][i].cctrl, m.ack)) : Continue(m, i, k2)
    BY <2>1
  <2>3. uploads[p][i].cctrl \in CongestCtrl /\ m.ack \in 0..MAX_SEQ_NUM /\ m.type = "ACK"
    BY <1>0, <1>7, <1>9, PacketFields DEF new_ACK
  <2>4. adjust_window(uploads[p][i].cctrl, m.ack) \in CongestCtrl
    BY <2>3, MoveWindow
  <2>5. k2 \in CongestCtrl /\ k2.begin = m.ack
    BY <2>2, <2>3, <2>4, Growth, BeginMoves
  <2> QED  BY <1>8, <2>2, <2>3, <2>5
<1>10. CASE loss_ACK(m)
  <2>1. PICK i \in node_find(UploadsTo(p, m.src)) :
         Continue(m, i, detected_first_loss([uploads[p][i].cctrl EXCEPT
                                               !.index = uploads[p][i].cctrl.begin]))
    BY <1>10, Zenon DEF loss_ACK
  <2> DEFINE k == uploads[p][i].cctrl
             j == [k EXCEPT !.index = k.begin]
  <2>2. k \in CongestCtrl
    BY <1>7
  <2>3. j \in CongestCtrl /\ j.begin = k.begin
    BY <2>2 DEF CongestCtrl
  <2> HIDE DEF j
  <2>4. detected_first_loss(j) \in CongestCtrl /\ detected_first_loss(j).begin = k.begin
    BY <2>3, Loss, BeginMoves
  <2>5. Continue(m, i, detected_first_loss(j))
    BY <2>1, Zenon DEF j
  <2> QED  BY <1>8, <2>4, <2>5
<1>11. CASE old_ACK(m)
  <2>1. PICK i \in node_find(UploadsTo(p, m.src)) :
         \E d : uploads' = [uploads EXCEPT ![p] = [uploads[p] EXCEPT ![i].cctrl =
                    [uploads[p][i].cctrl EXCEPT !.dup_count = d, !.timeout_count = 0]]]
    BY <1>11, Zenon DEF old_ACK
  <2>2. PICK d : uploads' = [uploads EXCEPT ![p] = [uploads[p] EXCEPT ![i].cctrl =
                    [uploads[p][i].cctrl EXCEPT !.dup_count = d, !.timeout_count = 0]]]
    BY <2>1
  <2>3. [uploads[p][i].cctrl EXCEPT !.dup_count = d, !.timeout_count = 0].begin = uploads[p][i].cctrl.begin
    BY <1>7, BeginMoves
  <2> QED  BY <1>4, <2>2, <2>3
<1>12. \/ uploads' = uploads \/ accept_GET(m) \/ last_ACK(m)
       \/ new_ACK(m) \/ loss_ACK(m) \/ old_ACK(m)
  BY Zenon DEF process_inbound_udp, receive_WHOHAS, receive_GET, refuse_GET, ignore_GET,
     receive_ACK, stray_ACK, receive_IHAVE, receive_DENIED, stray_DENIED, drop_DENIED,
     receive_DATA, stray_DATA, store_DATA, complete_DATA, corrupt_DATA, transferVars
<1> QED  BY <1>3, <1>5, <1>6, <1>9, <1>10, <1>11, <1>12

\* A timeout moves no window.
LEMMA TimeoutComes ==
  ASSUME TypeOK, NEW p \in Peers, NEW x \in DOMAIN UploadsAfterTimeout(p)
  PROVE  ComesFrom(UploadsAfterTimeout(p)[x], p)
<1> DEFINE up == uploads[p]
           t(i) == [up[i] EXCEPT !.cctrl = TimedOut(up[i].cctrl)]
           mid == [i \in DOMAIN up |-> t(i)]
           K == SurvivingUploads(p)
<1>1. UploadsAfterTimeout(p) = node_keep(mid, K)
  BY Zenon DEF UploadsAfterTimeout
<1>2. up \in Seq(Upload(DOMAIN chunk[p]))
  BY Zenon DEF TypeOK, PeerOK
<1>3. K \in SUBSET DOMAIN up
  BY DEF SurvivingUploads
<1>4. ASSUME NEW i \in DOMAIN up
      PROVE  SameUpload(t(i), up[i]) /\ t(i).cctrl.begin = up[i].cctrl.begin
  <2> DEFINE k == up[i].cctrl
             j == [k EXCEPT !.timeout_count = k.timeout_count + 1]
  <2>1. up[i] \in Upload(DOMAIN chunk[p]) /\ k \in CongestCtrl
    BY UploadAt
  <2>2. j \in CongestCtrl /\ j.begin = k.begin
    BY <2>1, CountTimeout, BeginMoves
  <2>3. TimedOut(k) = detected_first_loss(j)
    BY DEF TimedOut
  <2> HIDE DEF j
  <2>4. TimedOut(k).begin = k.begin
    BY <2>2, <2>3, BeginMoves
  <2>5. t(i).peer = up[i].peer /\ t(i).c = up[i].c /\ t(i).cctrl = TimedOut(k)
    <3> HIDE DEF up
    <3> QED  BY <2>1 DEF Upload
  <2> HIDE DEF t
  <2> QED  BY <2>4, <2>5 DEF SameUpload
<1> HIDE DEF t, K, up
<1>5. DOMAIN mid = DOMAIN up /\ \A i \in DOMAIN up : mid[i] = t(i)
  OBVIOUS
<1>6. mid \in [DOMAIN up -> {t(i) : i \in DOMAIN up}]
  OBVIOUS
<1> HIDE DEF mid
<1>7. mid \in Seq({t(i) : i \in DOMAIN up})
  BY <1>2, <1>6, FunctionSeq, Zenon
<1>8. Selects(node_keep(mid, K), mid, K)
  BY <1>3, <1>5, <1>7, KeepSelects, Zenon
<1>9. PICK i \in K : UploadsAfterTimeout(p)[x] = mid[i]
  BY <1>1, <1>8, SelectedAt
<1>10. i \in DOMAIN uploads[p] /\ UploadsAfterTimeout(p)[x] = t(i)
  BY <1>3, <1>5, <1>9 DEF up
<1>11. SameUpload(t(i), uploads[p][i]) /\ t(i).cctrl.begin = uploads[p][i].cctrl.begin
  BY <1>4, <1>10 DEF up
<1> QED  BY <1>10, <1>11 DEF ComesFrom

\* Every transfer comes from one of these.
LEMMA UploadComes ==
  ASSUME TypeOK, [Next]_vars, NEW q \in Peers, NEW x \in DOMAIN uploads'[q]
  PROVE  ComesFrom(uploads'[q][x], q)
<1>1. ASSUME uploads'[q] = uploads[q] PROVE ComesFrom(uploads'[q][x], q)
  BY <1>1, ComesSame
<1>2. ASSUME NEW m \in BagToSet(net), process_inbound_udp(m) PROVE ComesFrom(uploads'[q][x], q)
  <2>1. m \in Packets
    BY DEF TypeOK
  <2>2. CASE q = m.dst
    BY <1>2, <2>2, InboundComes
  <2>3. CASE q # m.dst
    BY <1>1, <1>2, <2>1, <2>3, InboundLocal DEF Local
  <2> QED  BY <2>2, <2>3
<1>3. ASSUME NEW p \in Peers, handle_timeout(p) PROVE ComesFrom(uploads'[q][x], q)
  <2>1. CASE q = p
    <3>1. uploads'[p] = UploadsAfterTimeout(p)
      BY <1>3 DEF handle_timeout, TypeOK
    <3> QED  BY <2>1, <3>1, TimeoutComes
  <2>2. CASE q # p
    BY <1>1, <1>3, <2>2, TimeoutLocal DEF Local
  <2> QED  BY <2>1, <2>2
<1>4. ASSUME \/ \E m : Lose(m) \/ Duplicate(m)
             \/ \E p \in Peers : process_get(p)
             \/ UNCHANGED vars
      PROVE  ComesFrom(uploads'[q][x], q)
  <2>1. uploads' = uploads
    BY <1>4, Zenon DEF Lose, Duplicate, process_get, vars, transferVars
  <2> QED  BY <1>1, <2>1
<1> QED  BY <1>2, <1>3, <1>4, Zenon DEF Next, QuietTimeout, EarlyTimeout

\* A window only moves to what the receiver holds, since an ACK of the peer can
\* only be about the one chunk it asks for.
LEMMA UploadsBackedStep ==
  ASSUME AskForOne, TypeOK, HaveValid, DownloadsMatchMissing, MissingAsked, AllClean,
         NetBacked, UploadsBacked, [Next]_vars
  PROVE  UploadsBacked'
<1> SUFFICES ASSUME NEW p \in Peers, NEW x \in DOMAIN uploads'[p]
             PROVE  UploadBacked(uploads'[p][x], chunk'[p], chunk')
  BY Zenon DEF UploadsBacked
<1> DEFINE t == uploads'[p][x]
<1>1. ComesFrom(t, p)
  BY UploadComes
<1>2. \A q \in Peers : HashKept(chunk'[q], chunk[q]) /\ DataKept(chunk'[q], chunk[q])
  BY HashesStep, HeapsGrow
<1>3. \A r \in DOMAIN chunk[p] : chunk[p][r].hash \in Hashes
  BY ListsAt DEF HeapOK, Chunk
<1> HIDE DEF t
<1>4. ASSUME NEW h \in Hashes, NEW n \in 0..MAX_SEQ_NUM, t.peer \in Peers, t.c \in DOMAIN chunk[p],
             chunk[p][t.c].hash = h, Intact(chunk[p][t.c]), Asked(t.peer, h),
             Prefix(chunk[t.peer], h, n), t.cctrl.begin = n
      PROVE  UploadBacked(t, chunk'[p], chunk')
  <2>1. chunk'[p][t.c].hash = h
    BY <1>2, <1>4 DEF HashKept
  <2>2. Intact(chunk'[p][t.c])
    BY <1>2, <1>4, IntactKept
  <2>3. Prefix(chunk'[t.peer], h, n)
    BY <1>2, <1>4, PrefixKept
  <2> QED  BY <1>4, <2>1, <2>2, <2>3 DEF UploadBacked
<1>5. ASSUME NEW j \in DOMAIN uploads[p], SameUpload(t, uploads[p][j])
      PROVE  /\ t.peer \in Peers /\ t.c \in DOMAIN chunk[p] /\ Intact(chunk[p][t.c])
             /\ Asked(t.peer, chunk[p][t.c].hash)
             /\ Prefix(chunk[t.peer], chunk[p][t.c].hash, uploads[p][j].cctrl.begin)
             /\ uploads[p][j].cctrl.begin \in 0..MAX_SEQ_NUM
  <2>1. UploadBacked(uploads[p][j], chunk[p], chunk)
    BY DEF UploadsBacked
  <2>2. /\ uploads[p][j].peer \in Peers /\ uploads[p][j].c \in DOMAIN chunk[p]
        /\ uploads[p][j].cctrl.begin \in 0..MAX_SEQ_NUM
    BY UploadAt DEF CongestCtrl
  <2> QED  BY <1>5, <2>1, <2>2 DEF SameUpload, UploadBacked
<1>6. ASSUME NEW j \in DOMAIN uploads[p], SameUpload(t, uploads[p][j]),
             t.cctrl.begin = uploads[p][j].cctrl.begin
      PROVE  UploadBacked(t, chunk'[p], chunk')
  BY <1>3, <1>4, <1>5, <1>6
<1>7. ASSUME NEW j \in DOMAIN uploads[p], SameUpload(t, uploads[p][j]),
             NEW m \in BagToSet(net), MovedBy(t, m)
      PROVE  UploadBacked(t, chunk'[p], chunk')
  <2>1. m \in Packets /\ m.type = "ACK" /\ m.src = t.peer /\ t.cctrl.begin = m.ack
    BY <1>7 DEF TypeOK, MovedBy
  <2>2. m.ack \in 0..MAX_SEQ_NUM
    BY <2>1, PacketFields
  <2>3. PICK g \in Hashes : Asked(m.src, g) /\ Prefix(chunk[m.src], g, m.ack)
    BY <2>1, Zenon DEF NetBacked, PacketBacked
  <2>4. t.c \in DOMAIN chunk[p] /\ Asked(t.peer, chunk[p][t.c].hash) /\ t.peer \in Peers /\ Intact(chunk[p][t.c])
    BY <1>5, <1>7
  <2>5. g = chunk[p][t.c].hash
    BY <1>3, <2>1, <2>3, <2>4 DEF AskForOne
  <2> QED  BY <1>4, <2>1, <2>2, <2>3, <2>4, <2>5
<1>8. ASSUME NEW m \in BagToSet(net), OpenedBy(t, p, m) PROVE UploadBacked(t, chunk'[p], chunk')
  <2>1. PICK k \in DOMAIN have[p] : t.c = have[p][k] /\ chunk[p][t.c].hash = m.hash
    BY <1>8 DEF OpenedBy
  <2>2. m \in Packets /\ m.type = "GET" /\ t.peer = m.src /\ t.cctrl.begin = 0
    BY <1>8 DEF OpenedBy, TypeOK
  <2>3. t.c \in DOMAIN chunk[p] /\ Intact(chunk[p][t.c])
    BY <2>1, HaveAt DEF HaveValid
  <2>4. Asked(t.peer, m.hash) /\ Prefix(chunk[t.peer], m.hash, 0) /\ t.peer \in Peers /\ m.hash \in Hashes
    BY <2>2, PacketFields DEF NetBacked, PacketBacked
  <2>5. 0 \in 0..MAX_SEQ_NUM
    BY CongestionAssumption
  <2> QED  BY <1>4, <2>1, <2>2, <2>3, <2>4, <2>5
<1>9. UploadBacked(t, chunk'[p], chunk')
  BY <1>1, <1>6, <1>7, <1>8, Zenon DEF ComesFrom
<1> QED  BY <1>9 DEF t

\* What backs the claim of AckBacked.
Backed == AskForOne /\ MissingAsked /\ AllClean /\ NetBacked /\ UploadsBacked

\* Nothing is sent initially, and what is loaded is intact.
LEMMA BackedInit == FilesAgree /\ AskForOne /\ Init => Backed
<1> SUFFICES ASSUME FilesAgree, AskForOne, Init PROVE Backed
  OBVIOUS
<1>1. ASSUME NEW p \in Peers, NEW r \in DOMAIN chunk[p], NEW s \in SeqNums
      PROVE  chunk[p][r].data[s] = chunk[p][r].hash
  <2>1. PICK l \in DOMAIN HasFile[p] : r = <<0, l>>
    BY <1>1 DEF Init
  <2> DEFINE c == create_chunk(HasFile[p][l].id, HasFile[p][l].hash)
             d == [x \in SeqNums |-> read_chunk_data_file_by_id(c.id)]
  <2>2. chunk[p][<<0, l>>] = LoadedChunk(HasFile[p][l])
    BY DEF Init
  <2>3. LoadedChunk(HasFile[p][l]) = [c EXCEPT !.data = d]
    BY Zenon DEF LoadedChunk
  <2>4. c \in Chunk /\ c.id = HasFile[p][l].id % ID_WIDTH /\ c.hash = HasFile[p][l].hash
    BY LineAt, CreateType, PeerAssumption DEF create_chunk
  <2>5. d[s] = HasFile[p][l].hash
    BY <2>4 DEF FilesAgree
  <2> HIDE DEF c, d
  <2>6. [c EXCEPT !.data = d].data = d /\ [c EXCEPT !.data = d].hash = c.hash
    BY <2>4 DEF Chunk
  <2> QED  BY <2>1, <2>2, <2>3, <2>4, <2>5, <2>6
<1>2. BagToSet(net) = {}
  BY DEF Init, EmptyBag, BagToSet, SetToBag
<1>3. AllClean
  BY <1>1 DEF AllClean, Clean
<1>4. MissingAsked /\ UploadsBacked
  BY DEF Init, MissingAsked, UploadsBacked
<1>5. NetBacked
  BY <1>2 DEF NetBacked
<1> QED  BY <1>3, <1>4, <1>5 DEF Backed

\* Every step keeps the windows backed.
LEMMA BackedStep ==
  ASSUME TypeOK, HaveValid, DownloadsMatchMissing, AnnouncedOnce, FreshPointers, Backed, [Next]_vars
  PROVE  Backed'
<1>1. AskForOne /\ MissingAsked /\ AllClean /\ NetBacked /\ UploadsBacked
  BY DEF Backed
<1>2. TypeOK'
  BY StepType
<1>3. MissingAsked'
  BY <1>1, MissingAskedStep
<1>4. AllClean'
  <2>1. \A q \in Peers : Clean(chunk'[q])
    BY <1>1, HeapsGrow
  <2> QED  BY <2>1, Zenon DEF AllClean, Clean
<1>5. NetBacked'
  <2>1. BackedIn(BagToSet(net'), chunk')
    BY <1>1, <1>2, <1>3, NetStep
  <2>2. \A x \in BagToSet(net') : PacketBacked(x, chunk')
    BY <2>1 DEF BackedIn
  <2> QED  BY <2>2, Zenon DEF NetBacked
<1>6. UploadsBacked'
  BY <1>1, UploadsBackedStep
<1>7. AskForOne'
  BY <1>1 DEF AskForOne, Asked
<1> QED  BY <1>3, <1>4, <1>5, <1>6, <1>7 DEF Backed

\* Where each user asks for one chunk only, a window never begins past what the
\* receiver holds, whatever is lost, duplicated or late: the server's belief is
\* the receiver's state.  With two chunks the ACK of one would move the window
\* of the other, since receive_ACK takes the first transfer to the sender.
THEOREM WindowsBacked == FilesAgree /\ AskForOne /\ Spec => []AckBacked
<1> DEFINE Inv == /\ TypeOK /\ DownloadsMatchMissing /\ AnnouncedOnce /\ HaveValid
                  /\ FreshPointers /\ Backed
<1>1. FilesAgree /\ AskForOne /\ Init => Inv
  BY InitType, MatchInit, AnnouncedInit, HaveInit, FreshInit, BackedInit
<1>2. Inv /\ [Next]_vars => Inv'
  <2> SUFFICES ASSUME Inv, [Next]_vars PROVE Inv'
    OBVIOUS
  <2>1. TypeOK' /\ DownloadsMatchMissing' /\ AnnouncedOnce' /\ HaveValid'
    BY StepType, MatchStep, AnnouncedStep, HaveStep
  <2>2. FreshPointers'
    BY FreshStep DEF AnnouncedOnce
  <2>3. Backed'
    BY BackedStep
  <2> QED  BY <2>1, <2>2, <2>3
<1>3. Inv => AckBacked
  <2> SUFFICES ASSUME Inv, NEW p \in Peers, NEW i \in DOMAIN uploads[p]
               PROVE  Prefix(chunk[uploads[p][i].peer], chunk[p][uploads[p][i].c].hash,
                             uploads[p][i].cctrl.begin)
    BY DEF AckBacked, Prefix
  <2> QED  BY DEF Backed, UploadsBacked, UploadBacked
<1> QED  BY <1>1, <1>2, <1>3, PTL DEF Spec
==============================================================================
