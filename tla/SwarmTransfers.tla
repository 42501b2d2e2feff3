---------------------------- MODULE SwarmTransfers ----------------------------
(***************************************************************************)
(* Proofs about the transfers of a peer: a hash is uploaded once and       *)
(* downloaded once at a time, no peer stays unavailable without a          *)
(* transfer, and the names of a user's GET are freed once.  Every step     *)
(* changes what one peer keeps; each lemma says what becomes of one list   *)
(* or of the heap, and the theorems only put these together.               *)
(***************************************************************************)
EXTENDS SwarmProofs

------------------------------------------------------------------------------
(* Chunks: nothing is removed from the heap, and no hash changes. *)

HashKept(new, old) == \A r \in DOMAIN old : r \in DOMAIN new /\ new[r].hash = old[r].hash

\* Storing and emptying the data of a chunk.
LEMMA DataHashes ==
  ASSUME NEW heap, HeapOK(heap), NEW c \in DOMAIN heap, NEW d
  PROVE  HashKept([heap EXCEPT ![c].data = d], heap)
<1> DEFINE new == [heap EXCEPT ![c].data = d]
<1>1. DOMAIN new = DOMAIN heap
  BY DEF HeapOK
<1>2. \A r \in DOMAIN heap : new[r].hash = heap[r].hash
  BY Replaced
<1> HIDE DEF new
<1>3. HashKept(new, heap)
  BY <1>1, <1>2, Zenon DEF HashKept
<1> QED  BY <1>3 DEF new

\* Changing the owners or the id of a chunk.
LEMMA FieldHashes ==
  ASSUME NEW c \in Chunk, NEW v
  PROVE  [c EXCEPT !.peer = v].hash = c.hash /\ [c EXCEPT !.id = v].hash = c.hash
  BY DEF Chunk

\* The heap after receive_IHAVE, q being the sender and H the hashes it claims.
HeapAfterIhave(p, q, H) ==
    [r \in DOMAIN chunk[p] |->
        IF r \in {x \in ToSet(missing[p]) : chunk[p][x].hash \in H}
             /\ ~peer_exist_in_list(chunk[p][r].peer, q)
          THEN [chunk[p][r] EXCEPT !.peer = node_insert(@, q)]
          ELSE chunk[p][r]]

\* receive_IHAVE changes the owners of chunks.
LEMMA IhaveHashes ==
  ASSUME TypeOK, NEW p \in Peers, NEW q, NEW H
  PROVE  /\ HashKept(HeapAfterIhave(p, q, H), chunk[p])
         /\ DOMAIN HeapAfterIhave(p, q, H) = DOMAIN chunk[p]
<1> DEFINE new(r) == IF r \in {x \in ToSet(missing[p]) : chunk[p][x].hash \in H}
                          /\ ~peer_exist_in_list(chunk[p][r].peer, q)
                       THEN [chunk[p][r] EXCEPT !.peer = node_insert(chunk[p][r].peer, q)]
                       ELSE chunk[p][r]
<1>1. HeapAfterIhave(p, q, H) = [r \in DOMAIN chunk[p] |-> new(r)]
  BY Zenon DEF HeapAfterIhave
<1>2. ASSUME NEW r \in DOMAIN chunk[p] PROVE new(r).hash = chunk[p][r].hash
  <2>1. chunk[p][r] \in Chunk
    BY Zenon DEF TypeOK, PeerOK, HeapOK
  <2>2. [chunk[p][r] EXCEPT !.peer = node_insert(chunk[p][r].peer, q)].hash = chunk[p][r].hash
    BY <2>1, FieldHashes
  <2> QED  BY <2>2, Zenon
<1> HIDE DEF new
<1> QED  BY <1>1, <1>2 DEF HashKept

\* process_get adds chunks and changes ids.
LEMMA GetHashes ==
  ASSUME TypeOK, NEW p \in Peers, NEW n, NEW lines
  PROVE  HashKept(HeapAfterGet(p, n, lines), chunk[p])
<1> DEFINE LinesOf(x) == {l \in DOMAIN lines : ChunkOfLine(p, n, lines, l) = x}
           NewId(x) == lines[CHOOSE l \in LinesOf(x) : \A k \in LinesOf(x) : k <= l].id
           Base(x) == IF x \in DOMAIN chunk[p] THEN chunk[p][x]
                                               ELSE create_chunk(lines[x[2]].id, lines[x[2]].hash)
           D == DOMAIN chunk[p] \cup {<<n, l>> : l \in AbsentLines(p, lines)}
           new(x) == IF LinesOf(x) = {} THEN Base(x) ELSE [Base(x) EXCEPT !.id = NewId(x)]
<1>1. HeapAfterGet(p, n, lines) = [x \in D |-> new(x)]
  BY Zenon DEF HeapAfterGet
<1>2. ASSUME NEW r \in DOMAIN chunk[p] PROVE r \in D /\ new(r).hash = chunk[p][r].hash
  <2>1. chunk[p][r] \in Chunk
    BY Zenon DEF TypeOK, PeerOK, HeapOK
  <2>2. Base(r) = chunk[p][r] /\ r \in D
    OBVIOUS
  <2> HIDE DEF LinesOf, NewId, Base, D
  <2>3. [Base(r) EXCEPT !.id = NewId(r)].hash = chunk[p][r].hash
    BY <2>1, <2>2, FieldHashes
  <2> QED  BY <2>2, <2>3, Zenon
<1> HIDE DEF D, new
<1> QED  BY <1>1, <1>2 DEF HashKept

\* A timeout changes the owners of chunks.
LEMMA ForgetHashes ==
  ASSUME TypeOK, NEW p \in Peers
  PROVE  HashKept(ForgetDeadPeers(p), chunk[p]) /\ DOMAIN ForgetDeadPeers(p) = DOMAIN chunk[p]
<1> DEFINE rest(r) == node_keep(chunk[p][r].peer,
                        {k \in DOMAIN chunk[p][r].peer : chunk[p][r].peer[k] \notin DeadPeers(p)})
           new(r) == IF r \in ToSet(missing[p]) THEN [chunk[p][r] EXCEPT !.peer = rest(r)]
                                                ELSE chunk[p][r]
<1>1. ForgetDeadPeers(p) = [r \in DOMAIN chunk[p] |-> new(r)]
  BY Zenon DEF ForgetDeadPeers
<1>2. ASSUME NEW r \in DOMAIN chunk[p] PROVE new(r).hash = chunk[p][r].hash
  <2>1. chunk[p][r] \in Chunk
    BY Zenon DEF TypeOK, PeerOK, HeapOK
  <2> HIDE DEF rest
  <2>2. [chunk[p][r] EXCEPT !.peer = rest(r)].hash = chunk[p][r].hash
    BY <2>1, FieldHashes
  <2> QED  BY <2>2, Zenon
<1> HIDE DEF new
<1> QED  BY <1>1, <1>2 DEF HashKept

------------------------------------------------------------------------------
(* Lists of transfers that only lose transfers. *)

\* The transfers of new are transfers of old, each at most once; the peers of
\* those that are gone are in freed.
ThinnedBy(g, new, old, freed) ==
    /\ g \in [DOMAIN new -> DOMAIN old]
    /\ \A i, j \in DOMAIN new : g[i] = g[j] => i = j
    /\ \A i \in DOMAIN new : new[i].peer = old[g[i]].peer /\ new[i].c = old[g[i]].c
    /\ \A k \in DOMAIN old : old[k].peer \in freed \/ \E i \in DOMAIN new : g[i] = k

Thinned(new, old, freed) == \E g : ThinnedBy(g, new, old, freed)

\* Nothing happens to the list, or only to what a transfer keeps besides its
\* peer and its chunk.
LEMMA ThinnedSelf ==
  ASSUME NEW new, NEW old, DOMAIN new = DOMAIN old,
         \A i \in DOMAIN old : new[i].peer = old[i].peer /\ new[i].c = old[i].c
  PROVE  Thinned(new, old, {})
<1> DEFINE g == [i \in DOMAIN old |-> i]
<1>1. \A i \in DOMAIN old : g[i] = i
  OBVIOUS
<1>2. g \in [DOMAIN new -> DOMAIN old]
  OBVIOUS
<1> HIDE DEF g
<1>3. ThinnedBy(g, new, old, {})
  BY <1>1, <1>2, Zenon DEF ThinnedBy
<1> QED  BY <1>3, Zenon DEF Thinned

\* Some transfers are deleted.
LEMMA ThinnedSelect ==
  ASSUME NEW new, NEW mid, NEW old, NEW K \in SUBSET DOMAIN old, NEW freed,
         Selects(new, mid, K), DOMAIN mid = DOMAIN old,
         \A i \in DOMAIN old : mid[i].peer = old[i].peer /\ mid[i].c = old[i].c,
         \A i \in DOMAIN old \ K : old[i].peer \in freed
  PROVE  Thinned(new, old, freed)
<1>1. PICK g : Picks(g, new, mid, K)
  BY DEF Selects
<1>2. g \in [DOMAIN new -> DOMAIN old] /\ \A i \in DOMAIN new : g[i] \in DOMAIN old
  BY <1>1 DEF Picks
<1>3. \A i \in DOMAIN new : new[i].peer = old[g[i]].peer /\ new[i].c = old[g[i]].c
  BY <1>1, <1>2, Zenon DEF Picks
<1>4. \A k \in DOMAIN old : old[k].peer \in freed \/ \E i \in DOMAIN new : g[i] = k
  BY <1>1, Zenon DEF Picks
<1>5. ThinnedBy(g, new, old, freed)
  BY <1>1, <1>2, <1>3, <1>4, Zenon DEF ThinnedBy, Picks
<1> QED  BY <1>5, Zenon DEF Thinned

\* delete_transfer, for one transfer.
LEMMA ThinnedDelete ==
  ASSUME NEW S, NEW list \in Seq(S), NEW i \in DOMAIN list
  PROVE  Thinned(node_delete(list, i), list, {list[i].peer})
<1>1. Selects(node_delete(list, i), list, DOMAIN list \ {i})
  BY DeleteSelects
<1>2. \A k \in DOMAIN list \ (DOMAIN list \ {i}) : list[k].peer \in {list[i].peer}
  OBVIOUS
<1>3. DOMAIN list \ {i} \in SUBSET DOMAIN list
  OBVIOUS
<1> QED  BY <1>1, <1>2, <1>3, ThinnedSelect, Zenon

\* Every peer of a list that was thinned is freed or still has its transfer.
LEMMA ThinnedPeers ==
  ASSUME NEW new, NEW old, NEW freed, Thinned(new, old, freed), NEW k \in DOMAIN old
  PROVE  old[k].peer \in freed \/ \E i \in DOMAIN new : new[i].peer = old[k].peer
<1>1. PICK g : ThinnedBy(g, new, old, freed)
  BY DEF Thinned
<1>2. CASE old[k].peer \notin freed
  <2>1. PICK i \in DOMAIN new : g[i] = k
    BY <1>1, <1>2, Zenon DEF ThinnedBy
  <2>2. new[i].peer = old[g[i]].peer
    BY <1>1, <2>1, Zenon DEF ThinnedBy
  <2> QED  BY <2>1, <2>2
<1> QED  BY <1>2

\* What is freed may be taken for more.
LEMMA ThinnedMore ==
  ASSUME NEW new, NEW old, NEW A, NEW B, A \subseteq B, Thinned(new, old, A)
  PROVE  Thinned(new, old, B)
<1>1. PICK g : ThinnedBy(g, new, old, A)
  BY DEF Thinned
<1>2. ThinnedBy(g, new, old, B)
  BY <1>1 DEF ThinnedBy
<1> QED  BY <1>2 DEF Thinned

\* receive_ACK replaces the control block of a transfer.
LEMMA ThinnedCtrl ==
  ASSUME TypeOK, NEW p \in Peers, NEW i \in DOMAIN uploads[p], NEW k
  PROVE  Thinned([uploads[p] EXCEPT ![i].cctrl = k], uploads[p], {})
<1> DEFINE up == uploads[p]
           new == [up EXCEPT ![i].cctrl = k]
<1>1. ASSUME NEW j \in DOMAIN up PROVE new[j].peer = up[j].peer /\ new[j].c = up[j].c
  <2>1. up[j] \in Upload(DOMAIN chunk[p])
    BY UploadAt
  <2>2. new[j] = IF j = i THEN [up[j] EXCEPT !.cctrl = k] ELSE up[j]
    <3> HIDE DEF up
    <3> QED  OBVIOUS
  <2> HIDE DEF new, up
  <2>3. [up[j] EXCEPT !.cctrl = k].peer = up[j].peer /\ [up[j] EXCEPT !.cctrl = k].c = up[j].c
    BY <2>1 DEF Upload
  <2> QED  BY <2>2, <2>3
<1>2. DOMAIN new = DOMAIN up
  OBVIOUS
<1> HIDE DEF new
<1>3. Thinned(new, up, {})
  BY <1>1, <1>2, ThinnedSelf, Zenon
<1> QED  BY <1>3 DEF new

\* handle_server_timeout deletes the transfers that die and frees their peers.
LEMMA ThinnedUploads ==
  ASSUME TypeOK, NEW p \in Peers
  PROVE  Thinned(UploadsAfterTimeout(p), uploads[p], FreedByServer(p))
<1> DEFINE up == uploads[p]
           t(i) == [up[i] EXCEPT !.cctrl = TimedOut(up[i].cctrl)]
           mid == [i \in DOMAIN up |-> t(i)]
           K == SurvivingUploads(p)
<1>1. UploadsAfterTimeout(p) = node_keep(mid, K)
  BY Zenon DEF UploadsAfterTimeout
<1>2. up \in Seq(Upload(DOMAIN chunk[p]))
  BY Zenon DEF TypeOK, PeerOK
<1>3. K \in SUBSET DOMAIN up
  BY DEF SurvivingUploads
<1>4. ASSUME NEW i \in DOMAIN up PROVE t(i).peer = up[i].peer /\ t(i).c = up[i].c
  <2>1. up[i] \in Upload(DOMAIN chunk[p])
    BY UploadAt
  <2> HIDE DEF up
  <2> QED  BY <2>1 DEF Upload
<1>5. \A i \in DOMAIN up \ K : up[i].peer \in FreedByServer(p)
  BY Zenon DEF FreedByServer
<1> HIDE DEF t, K, up
<1>6. DOMAIN mid = DOMAIN up /\ \A i \in DOMAIN up : mid[i].peer = up[i].peer /\ mid[i].c = up[i].c
  BY <1>4
<1>7. mid \in [DOMAIN up -> {t(i) : i \in DOMAIN up}]
  OBVIOUS
<1> HIDE DEF mid
<1>8. mid \in Seq({t(i) : i \in DOMAIN up})
  BY <1>2, <1>7, FunctionSeq, Zenon
<1>9. Selects(node_keep(mid, K), mid, K)
  BY <1>3, <1>6, <1>8, KeepSelects, Zenon
<1>10. Thinned(node_keep(mid, K), up, FreedByServer(p))
  BY <1>3, <1>5, <1>6, <1>9, ThinnedSelect, Zenon
<1> QED  BY <1>1, <1>10 DEF up

\* handle_client_timeout deletes the transfers that die.
LEMMA ThinnedDownloads ==
  ASSUME TypeOK, NEW p \in Peers
  PROVE  Thinned(DownloadsAfterTimeout(p), downloads[p], DeadPeers(p))
<1> DEFINE down == downloads[p]
           t(i) == [down[i] EXCEPT !.timeout_count = down[i].timeout_count + 1]
           mid == [i \in DOMAIN down |-> t(i)]
           K == SurvivingDownloads(p)
<1>1. DownloadsAfterTimeout(p) = node_keep(mid, K)
  BY Zenon DEF DownloadsAfterTimeout
<1>2. down \in Seq(Download(DOMAIN chunk[p]))
  BY Zenon DEF TypeOK, PeerOK
<1>3. K \in SUBSET DOMAIN down
  BY DEF SurvivingDownloads
<1>4. ASSUME NEW i \in DOMAIN down PROVE t(i).peer = down[i].peer /\ t(i).c = down[i].c
  <2> HIDE DEF down
  <2>1. down[i] \in Download(DOMAIN chunk[p])
    BY <1>2, LenProperties
  <2> QED  BY <2>1 DEF Download
<1>5. \A i \in DOMAIN down \ K : down[i].peer \in DeadPeers(p)
  BY Zenon DEF DeadPeers
<1> HIDE DEF t, K, down
<1>6. DOMAIN mid = DOMAIN down /\ \A i \in DOMAIN down : mid[i].peer = down[i].peer /\ mid[i].c = down[i].c
  BY <1>4
<1>7. mid \in [DOMAIN down -> {t(i) : i \in DOMAIN down}]
  OBVIOUS
<1> HIDE DEF mid
<1>8. mid \in Seq({t(i) : i \in DOMAIN down})
  BY <1>2, <1>7, FunctionSeq, Zenon
<1>9. Selects(node_keep(mid, K), mid, K)
  BY <1>3, <1>6, <1>8, KeepSelects, Zenon
<1>10. Thinned(node_keep(mid, K), down, DeadPeers(p))
  BY <1>3, <1>5, <1>6, <1>9, ThinnedSelect, Zenon
<1> QED  BY <1>1, <1>10 DEF down

------------------------------------------------------------------------------
(* Every step is the step of one peer: the others keep what they have. *)

Changes(new, old, p) == new = old \/ \E x : new = [old EXCEPT ![p] = x]

Local(p) ==
    \A q \in Peers \ {p} :
        /\ chunk'[q] = chunk[q] /\ have'[q] = have[q] /\ missing'[q] = missing[q]
        /\ available'[q] = available[q] /\ uploads'[q] = uploads[q] /\ downloads'[q] = downloads[q]

\* The entries of the others.
LEMMA OtherEntry ==
  ASSUME NEW old, NEW new, NEW p, Changes(new, old, p), NEW q \in DOMAIN old, q # p
  PROVE  new[q] = old[q]
<1>1. CASE new = old  BY <1>1
<1>2. ASSUME NEW x, new = [old EXCEPT ![p] = x] PROVE new[q] = old[q]
  BY <1>2
<1> QED  BY <1>1, <1>2, Zenon DEF Changes

\* A step that changes one entry of every variable is local.
LEMMA LocalStep ==
  ASSUME TypeOK, NEW p,
         Changes(chunk', chunk, p), Changes(have', have, p), Changes(missing', missing, p),
         Changes(available', available, p), Changes(uploads', uploads, p),
         Changes(downloads', downloads, p)
  PROVE  Local(p)
<1> SUFFICES ASSUME NEW q \in Peers \ {p}
             PROVE  /\ chunk'[q] = chunk[q] /\ have'[q] = have[q] /\ missing'[q] = missing[q]
                    /\ available'[q] = available[q] /\ uploads'[q] = uploads[q]
                    /\ downloads'[q] = downloads[q]
  BY Zenon DEF Local
<1>1. /\ q \in DOMAIN chunk /\ q \in DOMAIN have /\ q \in DOMAIN missing
      /\ q \in DOMAIN available /\ q \in DOMAIN uploads /\ q \in DOMAIN downloads /\ q # p
  BY DEF TypeOK
<1>2. chunk'[q] = chunk[q]          BY <1>1, OtherEntry
<1>3. have'[q] = have[q]            BY <1>1, OtherEntry
<1>4. missing'[q] = missing[q]      BY <1>1, OtherEntry
<1>5. available'[q] = available[q]  BY <1>1, OtherEntry
<1>6. uploads'[q] = uploads[q]      BY <1>1, OtherEntry
<1>7. downloads'[q] = downloads[q]  BY <1>1, OtherEntry
<1> QED  BY <1>2, <1>3, <1>4, <1>5, <1>6, <1>7

\* The receiver of a datagram is the one who changes.
LEMMA InboundLocal ==
  ASSUME TypeOK, NEW m, process_inbound_udp(m)
  PROVE  Local(m.dst)
<1>1. CASE receive_WHOHAS(m)
  BY <1>1, LocalStep, Zenon DEF receive_WHOHAS, chunkVars, transferVars, Changes
<1>2. CASE receive_GET(m)
  <2>1. chunk' = chunk /\ have' = have /\ missing' = missing /\ downloads' = downloads
    BY <1>2, Zenon
    DEF receive_GET, refuse_GET, ignore_GET, accept_GET, chunkVars, transferVars
  <2>2. Changes(available', available, m.dst)
    BY <1>2, Zenon
    DEF receive_GET, refuse_GET, ignore_GET, accept_GET, transferVars, Changes
  <2>3. Changes(uploads', uploads, m.dst)
    BY <1>2, Zenon
    DEF receive_GET, refuse_GET, ignore_GET, accept_GET, transferVars, Changes
  <2> QED  BY <2>1, <2>2, <2>3, LocalStep, Zenon DEF Changes
<1>3. CASE receive_ACK(m)
  <2>1. chunk' = chunk /\ have' = have /\ missing' = missing /\ downloads' = downloads
    BY <1>3, Zenon
    DEF receive_ACK, stray_ACK, last_ACK, new_ACK, loss_ACK, old_ACK, Continue, chunkVars, transferVars
  <2>2. Changes(available', available, m.dst)
    BY <1>3, Zenon
    DEF receive_ACK, stray_ACK, last_ACK, new_ACK, loss_ACK, old_ACK, Continue, transferVars, Changes
  <2>3. Changes(uploads', uploads, m.dst)
    BY <1>3, Zenon
    DEF receive_ACK, stray_ACK, last_ACK, new_ACK, loss_ACK, old_ACK, Continue, transferVars, Changes
  <2> QED  BY <2>1, <2>2, <2>3, LocalStep, Zenon DEF Changes
<1>4. CASE receive_IHAVE(m)
  <2>1. Changes(chunk', chunk, m.dst) /\ have' = have /\ missing' = missing /\ uploads' = uploads
    BY <1>4, Zenon DEF receive_IHAVE, Changes
  <2>2. Changes(available', available, m.dst) /\ Changes(downloads', downloads, m.dst)
    BY <1>4, Zenon DEF receive_IHAVE, StartDownloads, Changes
  <2> QED  BY <2>1, <2>2, LocalStep, Zenon DEF Changes
<1>5. CASE receive_DENIED(m)
  <2>1. chunk' = chunk /\ have' = have /\ missing' = missing /\ uploads' = uploads
    BY <1>5, Zenon DEF receive_DENIED, stray_DENIED, drop_DENIED, chunkVars, transferVars
  <2>2. Changes(available', available, m.dst) /\ Changes(downloads', downloads, m.dst)
    BY <1>5, Zenon DEF receive_DENIED, stray_DENIED, drop_DENIED, transferVars, Changes
  <2> QED  BY <2>1, <2>2, LocalStep, Zenon DEF Changes
<1>6. CASE receive_DATA(m)
  <2>1. Changes(chunk', chunk, m.dst) /\ uploads' = uploads
    BY <1>6, Zenon
    DEF receive_DATA, stray_DATA, store_DATA, complete_DATA, corrupt_DATA, chunkVars, transferVars, Changes
  <2>2. Changes(have', have, m.dst) /\ Changes(missing', missing, m.dst)
    BY <1>6, Zenon
    DEF receive_DATA, stray_DATA, store_DATA, complete_DATA, corrupt_DATA, chunkVars, Changes
  <2>3. Changes(available', available, m.dst) /\ Changes(downloads', downloads, m.dst)
    BY <1>6, Zenon
    DEF receive_DATA, stray_DATA, store_DATA, complete_DATA, corrupt_DATA, NextDownloads,
        StartDownloads, transferVars, Changes
  <2> QED  BY <2>1, <2>2, <2>3, LocalStep, Zenon DEF Changes
<1> QED  BY <1>1, <1>2, <1>3, <1>4, <1>5, <1>6, Zenon DEF process_inbound_udp

\* A user's GET changes what the peer of that user keeps.
LEMMA GetLocal ==
  ASSUME TypeOK, NEW p, process_get(p)
  PROVE  Local(p)
<1>1. Changes(chunk', chunk, p) /\ have' = have /\ Changes(missing', missing, p)
  BY Zenon DEF process_get, Changes
<1>2. available' = available /\ uploads' = uploads /\ downloads' = downloads
  BY Zenon DEF process_get, transferVars
<1> QED  BY <1>1, <1>2, LocalStep, Zenon DEF Changes

\* A timeout changes what the peer that times out keeps.
LEMMA TimeoutLocal ==
  ASSUME TypeOK, NEW p, handle_timeout(p)
  PROVE  Local(p)
<1>1. Changes(chunk', chunk, p) /\ have' = have /\ missing' = missing
  BY Zenon DEF handle_timeout, handle_client_timeout, Changes
<1>2. Changes(available', available, p) /\ Changes(uploads', uploads, p)
  BY Zenon DEF handle_timeout, handle_client_timeout, StartDownloads, Changes
<1>3. Changes(downloads', downloads, p)
  BY Zenon DEF handle_timeout, handle_client_timeout, StartDownloads, Changes
<1> QED  BY <1>1, <1>2, <1>3, LocalStep, Zenon DEF Changes

------------------------------------------------------------------------------
(* The transfers that get_chunk_data opens. *)

Opened(miss, f) == [i \in DOMAIN miss |-> [peer |-> f[i], c |-> miss[i], timeout_count |-> 0]]

\* There is one transfer for every position of the missing list that was given
\* a peer.
LEMMA NewDownloadsAre ==
  ASSUME NEW D, NEW miss \in Seq(D), NEW f \in [DOMAIN miss -> Peers \cup {NoPeer}]
  PROVE  Selects(NewDownloads(miss, f), Opened(miss, f), Chosen(f))
<1> DEFINE list == Opened(miss, f)
           T == {list[i] : i \in DOMAIN list}
           K == Chosen(f)
           kept == node_keep(list, K)
<1>1. NewDownloads(miss, f) = Reverse(kept)
  BY Zenon DEF NewDownloads, Opened
<1>2. list \in [DOMAIN miss -> T] /\ DOMAIN list = DOMAIN miss
  BY DEF Opened
<1>3. K \in SUBSET DOMAIN list
  BY <1>2 DEF Chosen
<1> HIDE DEF list, K, T
<1>4. list \in Seq(T)
  BY <1>2, FunctionSeq
<1>5. Selects(kept, list, K) /\ kept \in Seq(T)
  BY <1>3, <1>4, KeepSelects, NodeKeep
<1> HIDE DEF kept
<1>6. Selects(Reverse(kept), kept, DOMAIN kept)
  BY <1>5, ReverseSelects
<1>7. Selects(Reverse(kept), list, K)
  BY <1>5, <1>6, SelectsTwice
<1> QED  BY <1>1, <1>7 DEF list, K

\* from says for which place of the missing list each transfer was opened.
OpenedFor(from, new, miss, f) ==
    /\ from \in [DOMAIN new -> DOMAIN miss]
    /\ \A k \in DOMAIN new :
          f[from[k]] # NoPeer /\ new[k].peer = f[from[k]] /\ new[k].c = miss[from[k]]
    /\ \A k, l \in DOMAIN new : from[k] = from[l] => k = l
    /\ \A i \in DOMAIN miss : f[i] # NoPeer => \E k \in DOMAIN new : from[k] = i

\* The same, position by position.
LEMMA NewDownloadAt ==
  ASSUME NEW D, NEW miss \in Seq(D), NEW f \in [DOMAIN miss -> Peers \cup {NoPeer}]
  PROVE  \E from : OpenedFor(from, NewDownloads(miss, f), miss, f)
<1> DEFINE new == NewDownloads(miss, f)
<1>1. PICK g : Picks(g, new, Opened(miss, f), Chosen(f))
  BY NewDownloadsAre DEF Selects
<1> HIDE DEF new
<1>2. \A i \in DOMAIN miss : Opened(miss, f)[i].peer = f[i] /\ Opened(miss, f)[i].c = miss[i]
  BY DEF Opened
<1>3. \A i : i \in Chosen(f) <=> i \in DOMAIN miss /\ f[i] # NoPeer
  BY DEF Chosen
<1>4. g \in [DOMAIN new -> DOMAIN miss] /\ \A k \in DOMAIN new : g[k] \in Chosen(f)
  BY <1>1, <1>3 DEF Picks
<1>5. \A k \in DOMAIN new :
         f[g[k]] # NoPeer /\ new[k].peer = f[g[k]] /\ new[k].c = miss[g[k]]
  BY <1>1, <1>2, <1>3, <1>4, Zenon DEF Picks
<1>6. /\ \A k, l \in DOMAIN new : g[k] = g[l] => k = l
      /\ \A i \in DOMAIN miss : f[i] # NoPeer => \E k \in DOMAIN new : g[k] = i
  BY <1>1, <1>3, Zenon DEF Picks
<1>7. OpenedFor(g, new, miss, f)
  BY <1>4, <1>5, <1>6, Zenon DEF OpenedFor
<1> QED  BY <1>7 DEF new

PeersOf(list) == {list[i].peer : i \in DOMAIN list}

\* Peers that are available to p or that p downloads from.
Reachable(p) == available[p] \cup PeersOf(downloads[p])

\* init_data_transfer takes no peer away without a transfer.
LEMMA StartReaches ==
  ASSUME TypeOK, NEW p \in Peers, NEW D, NEW miss \in Seq(D), NEW down \in Seq(Download(D)),
         NEW avail \in SUBSET Peers, NEW f \in [DOMAIN miss -> Peers \cup {NoPeer}],
         StartDownloads(p, miss, down, avail, f)
  PROVE  avail \cup PeersOf(down) \subseteq Reachable(p)'
<1> DEFINE new == NewDownloads(miss, f)
           both == new \o down
<1>1. downloads'[p] = both /\ available'[p] = avail \ {f[i] : i \in DOMAIN f}
  BY DEF TypeOK, StartDownloads
<1>2. new \in Seq(Download(D))
  BY NewDownloadsType
<1>3. PICK from : OpenedFor(from, new, miss, f)
  BY NewDownloadAt
<1> HIDE DEF new
<1>4. /\ \A k \in DOMAIN new : k \in DOMAIN both /\ both[k] = new[k]
      /\ \A k \in DOMAIN down : Len(new) + k \in DOMAIN both /\ both[Len(new) + k] = down[k]
  BY <1>2, ConcatAt
<1> HIDE DEF both
<1>5. ASSUME NEW q \in PeersOf(down) PROVE q \in PeersOf(both)
  <2>1. PICK k \in DOMAIN down : q = down[k].peer
    BY DEF PeersOf
  <2> QED  BY <1>4, <2>1, Zenon DEF PeersOf
<1>6. ASSUME NEW i \in DOMAIN f, f[i] \in Peers PROVE f[i] \in PeersOf(both)
  <2>1. f[i] # NoPeer /\ i \in DOMAIN miss
    BY <1>6, PeerAssumption
  <2>2. PICK k \in DOMAIN new : from[k] = i
    BY <1>3, <2>1 DEF OpenedFor
  <2>3. k \in DOMAIN both /\ both[k].peer = f[i]
    BY <1>3, <1>4, <2>2 DEF OpenedFor
  <2> QED  BY <2>3 DEF PeersOf
<1>7. Reachable(p)' = available'[p] \cup PeersOf(downloads'[p])
  BY DEF Reachable, PeersOf
<1>8. ASSUME NEW q \in avail PROVE q \in available'[p] \cup PeersOf(both)
  BY <1>1, <1>6, <1>8
<1> QED  BY <1>1, <1>5, <1>7, <1>8

------------------------------------------------------------------------------
(* The heap in every step. *)

\* A step of p that gives it a heap with the old hashes.
LEMMA HashesFrame ==
  ASSUME NEW p \in Peers, Local(p), HashKept(chunk'[p], chunk[p])
  PROVE  \A q \in Peers : HashKept(chunk'[q], chunk[q])
<1> SUFFICES ASSUME NEW q \in Peers PROVE HashKept(chunk'[q], chunk[q])
  OBVIOUS
<1>1. CASE q = p  BY <1>1
<1>2. CASE q # p  BY <1>2, Zenon DEF Local, HashKept
<1> QED  BY <1>1, <1>2

\* The heap after a datagram.
LEMMA InboundHashes ==
  ASSUME TypeOK, NEW m \in Packets, process_inbound_udp(m)
  PROVE  HashKept(chunk'[m.dst], chunk[m.dst])
<1> DEFINE p == m.dst
<1>1. p \in Peers /\ HeapOK(chunk[p])
  BY PacketFields, Zenon DEF TypeOK, PeerOK
<1>2. ASSUME NEW x, chunk' = [chunk EXCEPT ![p] = x] PROVE chunk'[p] = x
  BY <1>1, <1>2 DEF TypeOK
<1>3. ASSUME NEW i \in node_find(DownloadsFrom(p, m.src)), NEW d,
             chunk' = [chunk EXCEPT ![p] = [chunk[p] EXCEPT ![downloads[p][i].c].data = d]]
      PROVE  HashKept(chunk'[p], chunk[p])
  <2>1. downloads[p][i].c \in DOMAIN chunk[p]
    BY <1>1, DownloadAt
  <2> QED  BY <1>1, <1>2, <1>3, <2>1, DataHashes, ZenonT(30)
<1>4. CASE chunk' = chunk  BY <1>4, Zenon DEF HashKept
<1>5. CASE receive_IHAVE(m)
  <2>1. chunk' = [chunk EXCEPT ![p] = HeapAfterIhave(p, m.src, m.hashes)]
    BY <1>5, Zenon DEF receive_IHAVE, HeapAfterIhave
  <2>2. chunk'[p] = HeapAfterIhave(p, m.src, m.hashes)
    BY <1>2, <2>1, Zenon
  <2> QED  BY <1>1, <2>2, IhaveHashes
<1>6. CASE receive_DATA(m)
  <2>1. CASE store_DATA(m)
    BY <1>3, <2>1, Zenon DEF store_DATA
  <2>2. CASE complete_DATA(m)
    BY <1>3, <2>2, Zenon DEF complete_DATA
  <2>3. CASE corrupt_DATA(m)
    BY <1>3, <2>3, Zenon DEF corrupt_DATA
  <2> QED  BY <1>4, <1>6, <2>1, <2>2, <2>3, Zenon DEF receive_DATA, stray_DATA, chunkVars
<1>7. chunk' = chunk \/ receive_IHAVE(m) \/ receive_DATA(m)
  BY Zenon DEF process_inbound_udp, receive_WHOHAS, receive_GET, refuse_GET, ignore_GET, accept_GET,
     receive_ACK, stray_ACK, last_ACK, new_ACK, loss_ACK, old_ACK, Continue,
     receive_DENIED, stray_DENIED, drop_DENIED, chunkVars
<1> QED  BY <1>4, <1>5, <1>6, <1>7

\* No step of any peer changes the hash of a chunk or removes one.
LEMMA HashesStep ==
  ASSUME TypeOK, [Next]_vars
  PROVE  \A q \in Peers : HashKept(chunk'[q], chunk[q])
<1>1. CASE chunk' = chunk  BY <1>1, Zenon DEF HashKept
<1>2. ASSUME NEW m \in BagToSet(net), process_inbound_udp(m)
      PROVE  \A q \in Peers : HashKept(chunk'[q], chunk[q])
  <2>1. m \in Packets /\ m.dst \in Peers
    BY PacketFields DEF TypeOK
  <2> QED  BY <1>2, <2>1, InboundLocal, InboundHashes, HashesFrame, Zenon
<1>3. ASSUME NEW p \in Peers, process_get(p)
      PROVE  \A q \in Peers : HashKept(chunk'[q], chunk[q])
  <2> DEFINE n == request[p] + 1
             heap == HeapAfterGet(p, n, GetFiles[p][n])
  <2>1. chunk' = [chunk EXCEPT ![p] = heap]
    BY <1>3, Zenon DEF process_get
  <2>2. HashKept(heap, chunk[p])
    BY GetHashes
  <2> HIDE DEF heap
  <2>3. chunk'[p] = heap
    BY <2>1 DEF TypeOK
  <2> QED  BY <1>3, <2>2, <2>3, GetLocal, HashesFrame, Zenon
<1>4. ASSUME NEW p \in Peers, handle_timeout(p)
      PROVE  \A q \in Peers : HashKept(chunk'[q], chunk[q])
  <2>1. chunk' = chunk \/ chunk' = [chunk EXCEPT ![p] = ForgetDeadPeers(p)]
    BY <1>4, Zenon DEF handle_timeout, handle_client_timeout
  <2>2. CASE chunk' = [chunk EXCEPT ![p] = ForgetDeadPeers(p)]
    <3>1. chunk'[p] = ForgetDeadPeers(p)
      BY <2>2 DEF TypeOK
    <3> QED  BY <1>4, <3>1, ForgetHashes, TimeoutLocal, HashesFrame, Zenon
  <2> QED  BY <1>1, <2>1, <2>2
<1>5. ASSUME NEW m, Lose(m) \/ Duplicate(m) PROVE chunk' = chunk
  BY <1>5, Zenon DEF Lose, Duplicate, chunkVars
<1>6. CASE UNCHANGED vars
  BY <1>1, <1>6, Zenon DEF vars, chunkVars
<1> QED
  BY <1>1, <1>2, <1>3, <1>4, <1>5, <1>6, Zenon DEF Next, QuietTimeout, EarlyTimeout

------------------------------------------------------------------------------
(* OneUploadPerHash *)

UploadsApart(heap, up) ==
    \A i, j \in DOMAIN up : heap[up[i].c].hash = heap[up[j].c].hash => i = j

\* What a step may do to p's uploads: delete some of them, or add one of a
\* chunk that none of them is of.
UploadsMove(p) ==
    \/ Thinned(uploads'[p], uploads[p], Reachable(p)')
    \/ \E t : /\ uploads'[p] = node_insert(uploads[p], t)
              /\ t.c \in DOMAIN chunk[p]
              /\ UploadsOf(p, chunk[p][t.c].hash) = {}

\* Deleting uploads leaves them apart.
LEMMA ApartThinned ==
  ASSUME NEW heap, NEW old, HashKept(heap, old), NEW up, NEW new, NEW S,
         \A i \in DOMAIN up : up[i].c \in DOMAIN old,
         UploadsApart(old, up), Thinned(new, up, S)
  PROVE  UploadsApart(heap, new)
<1>1. PICK g : ThinnedBy(g, new, up, S)
  BY DEF Thinned
<1> SUFFICES ASSUME NEW i \in DOMAIN new, NEW j \in DOMAIN new,
                    heap[new[i].c].hash = heap[new[j].c].hash
             PROVE  i = j
  BY DEF UploadsApart
<1>2. g[i] \in DOMAIN up /\ g[j] \in DOMAIN up /\ new[i].c = up[g[i]].c /\ new[j].c = up[g[j]].c
  BY <1>1 DEF ThinnedBy
<1>3. old[up[g[i]].c].hash = old[up[g[j]].c].hash
  BY <1>2 DEF HashKept
<1>4. g[i] = g[j]
  BY <1>2, <1>3 DEF UploadsApart
<1> QED  BY <1>1, <1>4 DEF ThinnedBy

\* So does a new one of another hash.
LEMMA ApartInsert ==
  ASSUME NEW heap, NEW old, HashKept(heap, old), NEW S, NEW up \in Seq(S), NEW t \in S,
         \A i \in DOMAIN up : up[i].c \in DOMAIN old,
         UploadsApart(old, up), t.c \in DOMAIN old,
         \A i \in DOMAIN up : old[up[i].c].hash # old[t.c].hash
  PROVE  UploadsApart(heap, node_insert(up, t))
<1> DEFINE new == node_insert(up, t)
<1>1. /\ DOMAIN new = 1..(Len(up) + 1) /\ DOMAIN up = 1..Len(up) /\ Len(up) \in Nat
      /\ new[1] = t /\ \A i \in 2..(Len(up) + 1) : new[i] = up[i - 1]
  BY LenProperties, ConcatProperties DEF node_insert
<1> HIDE DEF new
<1>2. ASSUME NEW i \in DOMAIN new
      PROVE  \/ i = 1 /\ new[i] = t
             \/ i - 1 \in DOMAIN up /\ new[i] = up[i - 1]
  BY <1>1
<1>3. ASSUME NEW i \in DOMAIN new, NEW j \in DOMAIN new,
             heap[new[i].c].hash = heap[new[j].c].hash
      PROVE  i = j
  <2>1. new[i].c \in DOMAIN old /\ new[j].c \in DOMAIN old
    BY <1>2
  <2>2. old[new[i].c].hash = old[new[j].c].hash
    BY <1>3, <2>1 DEF HashKept
  <2>3. CASE i = 1 /\ new[i] = t
    <3>1. ~(j - 1 \in DOMAIN up /\ new[j] = up[j - 1])
      BY <2>2, <2>3
    <3> QED  BY <1>2, <2>3, <3>1
  <2>4. CASE i - 1 \in DOMAIN up /\ new[i] = up[i - 1]
    <3>1. CASE j = 1 /\ new[j] = t
      BY <2>2, <2>4, <3>1
    <3>2. CASE j - 1 \in DOMAIN up /\ new[j] = up[j - 1]
      <4>1. i - 1 = j - 1
        BY <2>2, <2>4, <3>2 DEF UploadsApart
      <4> QED  BY <1>1, <4>1
    <3> QED  BY <1>2, <3>1, <3>2
  <2> QED  BY <1>2, <2>3, <2>4
<1> QED  BY <1>3, Zenon DEF UploadsApart, new

\* What a datagram does to the uploads of its receiver.
LEMMA InboundUploads ==
  ASSUME TypeOK, NEW m \in Packets, process_inbound_udp(m)
  PROVE  UploadsMove(m.dst)
<1> DEFINE p == m.dst
<1>1. p \in Peers /\ uploads[p] \in Seq(Upload(DOMAIN chunk[p]))
  BY PacketFields, Zenon DEF TypeOK, PeerOK
<1>2. ASSUME NEW x, uploads' = [uploads EXCEPT ![p] = x] PROVE uploads'[p] = x
  BY <1>1, <1>2 DEF TypeOK
<1>3. ASSUME NEW S, Thinned(uploads'[p], uploads[p], S), S \subseteq Reachable(p)'
      PROVE  UploadsMove(p)
  BY <1>3, ThinnedMore DEF UploadsMove
<1>4. CASE uploads' = uploads
  <2>1. Thinned(uploads'[p], uploads[p], {})
    BY <1>4, ThinnedSelf, Zenon
  <2> QED  BY <1>3, <2>1
<1>5. ASSUME NEW i \in node_find(UploadsTo(p, m.src)), NEW k,
             uploads' = [uploads EXCEPT ![p] = [uploads[p] EXCEPT ![i].cctrl = k]]
      PROVE  UploadsMove(p)
  <2>1. i \in DOMAIN uploads[p]
    BY FoundUpload
  <2>2. Thinned([uploads[p] EXCEPT ![i].cctrl = k], uploads[p], {})
    BY <1>1, <2>1, ThinnedCtrl
  <2>3. uploads'[p] = [uploads[p] EXCEPT ![i].cctrl = k]
    BY <1>2, <1>5, Zenon
  <2>4. Thinned(uploads'[p], uploads[p], {})
    BY <2>2, <2>3, Zenon
  <2> QED  BY <1>3, <2>4
<1>6. CASE accept_GET(m)
  <2>1. PICK i \in node_find(Owned(p, m.hash)) :
           uploads' = [uploads EXCEPT ![p] = node_insert(uploads[p],
              [peer |-> m.src, c |-> have[p][i], cctrl |-> AfterSend(NewCongestCtrl)])]
    BY <1>6, Zenon DEF accept_GET
  <2> DEFINE t == [peer |-> m.src, c |-> have[p][i], cctrl |-> AfterSend(NewCongestCtrl)]
  <2>2. uploads'[p] = node_insert(uploads[p], t)
    BY <1>2, <2>1, Zenon
  <2>3. i \in DOMAIN have[p] /\ chunk[p][have[p][i]].hash = m.hash
    BY NodeFind DEF Owned
  <2>4. have[p] \in Seq(DOMAIN chunk[p])
    BY <1>1, Zenon DEF TypeOK, PeerOK
  <2>5. have[p][i] \in DOMAIN chunk[p]
    BY <2>3, <2>4, LenProperties
  <2>6. t.c = have[p][i]
    OBVIOUS
  <2>7. UploadsOf(p, m.hash) = {}
    BY <1>6, Zenon DEF accept_GET
  <2> HIDE DEF t
  <2> QED  BY <2>2, <2>3, <2>5, <2>6, <2>7 DEF UploadsMove
<1>7. CASE last_ACK(m)
  <2>1. PICK i \in node_find(UploadsTo(p, m.src)) :
           uploads' = [uploads EXCEPT ![p] = node_delete(uploads[p], i)]
    BY <1>7, Zenon DEF last_ACK
  <2>2. i \in DOMAIN uploads[p] /\ uploads[p][i].peer = m.src
    BY NodeFind DEF UploadsTo
  <2>3. uploads'[p] = node_delete(uploads[p], i)
    BY <1>2, <2>1, Zenon
  <2>4. Thinned(uploads'[p], uploads[p], {m.src})
    BY <1>1, <2>2, <2>3, ThinnedDelete
  <2>5. available'[p] = available[p] \cup {m.src}
    BY <1>1, <1>7 DEF last_ACK, TypeOK
  <2>6. {m.src} \subseteq Reachable(p)'
    BY <2>5 DEF Reachable
  <2> QED  BY <1>3, <2>4, <2>6
<1>8. CASE new_ACK(m) \/ loss_ACK(m) \/ old_ACK(m)
  BY <1>5, <1>8, Zenon DEF new_ACK, loss_ACK, old_ACK, Continue
<1>9. \/ uploads' = uploads \/ accept_GET(m) \/ last_ACK(m)
      \/ new_ACK(m) \/ loss_ACK(m) \/ old_ACK(m)
  BY Zenon DEF process_inbound_udp, receive_WHOHAS, receive_GET, refuse_GET, ignore_GET,
     receive_ACK, stray_ACK, receive_IHAVE, receive_DENIED, stray_DENIED, drop_DENIED,
     receive_DATA, stray_DATA, store_DATA, complete_DATA, corrupt_DATA, transferVars
<1> QED  BY <1>4, <1>6, <1>7, <1>8, <1>9

\* The peers that a timeout of p frees can be reached afterwards, and so can
\* the ones that could be before.
LEMMA TimeoutReaches ==
  ASSUME TypeOK, NEW p \in Peers, handle_timeout(p)
  PROVE  Reachable(p) \cup FreedByServer(p) \subseteq Reachable(p)'
<1> DEFINE avail == available[p] \cup FreedByServer(p)
           avail2 == avail \cup DeadPeers(p)
           down == DownloadsAfterTimeout(p)
<1>1. avail2 \in SUBSET Peers
  <2>1. available[p] \subseteq Peers /\ downloads[p] \in Seq(Download(DOMAIN chunk[p]))
    BY Zenon DEF TypeOK, PeerOK
  <2>2. FreedByServer(p) \subseteq Peers
    BY UploadAt DEF FreedByServer
  <2>3. \A i \in DOMAIN downloads[p] : downloads[p][i] \in Download(DOMAIN chunk[p])
    BY <2>1, LenProperties
  <2>4. DeadPeers(p) \subseteq Peers
    BY <2>3 DEF DeadPeers, Download
  <2> QED  BY <2>1, <2>2, <2>4
<1>2. CASE missing[p] = << >>
  <2>1. available' = [available EXCEPT ![p] = avail] /\ downloads' = downloads
    BY <1>2, Zenon DEF handle_timeout, handle_client_timeout
  <2>2. available'[p] = avail
    BY <2>1 DEF TypeOK
  <2> QED  BY <2>1, <2>2 DEF Reachable
<1>3. CASE missing[p] # << >>
  <2>1. PICK f \in get_chunk_data(ForgetDeadPeers(p), missing[p], down, avail2) :
           StartDownloads(p, missing[p], down, avail2, f)
    BY <1>3, Zenon DEF handle_timeout, handle_client_timeout
  <2>2. f \in [DOMAIN missing[p] -> Peers \cup {NoPeer}]
    BY Decision
  <2>3. missing[p] \in Seq(DOMAIN chunk[p])
    BY Zenon DEF TypeOK, PeerOK
  <2>4. down \in Seq(Download(DOMAIN chunk[p]))
    BY DownloadsAfterTimeoutType
  <2>5. avail2 \cup PeersOf(down) \subseteq Reachable(p)'
    <3> HIDE DEF down, avail2
    <3> QED  BY <1>1, <2>1, <2>2, <2>3, <2>4, StartReaches, Zenon
  <2>6. PeersOf(downloads[p]) \subseteq DeadPeers(p) \cup PeersOf(down)
    BY ThinnedDownloads, ThinnedPeers DEF PeersOf
  <2>7. Reachable(p) = available[p] \cup PeersOf(downloads[p])
    BY DEF Reachable
  <2> HIDE DEF down
  <2> QED  BY <2>5, <2>6, <2>7
<1> QED  BY <1>2, <1>3

\* What any step does to the uploads of any peer.
LEMMA UploadsMoves ==
  ASSUME TypeOK, [Next]_vars, NEW q \in Peers
  PROVE  UploadsMove(q)
<1>1. ASSUME uploads'[q] = uploads[q] PROVE UploadsMove(q)
  <2>1. Thinned(uploads'[q], uploads[q], {})
    BY <1>1, ThinnedSelf, Zenon
  <2>2. Thinned(uploads'[q], uploads[q], Reachable(q)')
    BY <2>1, ThinnedMore
  <2> QED  BY <2>2 DEF UploadsMove
<1>2. ASSUME NEW m \in BagToSet(net), process_inbound_udp(m) PROVE UploadsMove(q)
  <2>1. m \in Packets
    BY DEF TypeOK
  <2>2. CASE q = m.dst
    BY <1>2, <2>1, <2>2, InboundUploads
  <2>3. CASE q # m.dst
    BY <1>1, <1>2, <2>3, InboundLocal DEF Local
  <2> QED  BY <2>2, <2>3
<1>3. ASSUME NEW p \in Peers, handle_timeout(p) PROVE UploadsMove(q)
  <2>1. CASE q = p
    <3>1. uploads'[p] = UploadsAfterTimeout(p)
      BY <1>3 DEF handle_timeout, TypeOK
    <3>2. Thinned(UploadsAfterTimeout(p), uploads[p], FreedByServer(p))
      BY ThinnedUploads
    <3>3. FreedByServer(p) \subseteq Reachable(p)'
      BY <1>3, TimeoutReaches
    <3>4. Thinned(uploads'[p], uploads[p], Reachable(p)')
      BY <3>1, <3>2, <3>3, ThinnedMore
    <3> QED  BY <2>1, <3>4 DEF UploadsMove
  <2>2. CASE q # p
    BY <1>1, <1>3, <2>2, TimeoutLocal DEF Local
  <2> QED  BY <2>1, <2>2
<1>4. ASSUME \/ \E m : Lose(m) \/ Duplicate(m)
             \/ \E p \in Peers : process_get(p)
             \/ UNCHANGED vars
      PROVE  UploadsMove(q)
  <2>1. uploads' = uploads
    BY <1>4, Zenon DEF Lose, Duplicate, process_get, vars, transferVars
  <2> QED  BY <1>1, <2>1
<1> QED  BY <1>2, <1>3, <1>4, Zenon DEF Next, QuietTimeout, EarlyTimeout

\* Every step keeps the uploads of each peer apart.
LEMMA ApartStep == TypeOK /\ OneUploadPerHash /\ [Next]_vars => OneUploadPerHash'
<1> SUFFICES ASSUME TypeOK, OneUploadPerHash, [Next]_vars, NEW p \in Peers
             PROVE  UploadsApart(chunk'[p], uploads'[p])
  BY Zenon DEF OneUploadPerHash, UploadsApart
<1> DEFINE T == Upload(DOMAIN chunk[p])
<1>1. UploadsApart(chunk[p], uploads[p])
  BY Zenon DEF OneUploadPerHash, UploadsApart
<1>2. HashKept(chunk'[p], chunk[p])
  BY HashesStep
<1>3. uploads[p] \in Seq(T) /\ \A i \in DOMAIN uploads[p] : uploads[p][i].c \in DOMAIN chunk[p]
  BY UploadAt, Zenon DEF TypeOK, PeerOK
<1>4. UploadsMove(p)
  BY UploadsMoves
<1>5. CASE Thinned(uploads'[p], uploads[p], Reachable(p)')
  BY <1>1, <1>2, <1>3, <1>5, ApartThinned
<1>6. ASSUME NEW t, uploads'[p] = node_insert(uploads[p], t), t.c \in DOMAIN chunk[p],
             UploadsOf(p, chunk[p][t.c].hash) = {}
      PROVE  UploadsApart(chunk'[p], uploads'[p])
  <2>1. \A i \in DOMAIN uploads[p] : chunk[p][uploads[p][i].c].hash # chunk[p][t.c].hash
    BY <1>6 DEF UploadsOf
  <2> DEFINE S == T \cup {t}
  <2>2. uploads[p] \in Seq(S) /\ t \in S
    <3>1. \A i \in DOMAIN uploads[p] : uploads[p][i] \in S
      BY <1>3, LenProperties
    <3>2. t \in S
      OBVIOUS
    <3> HIDE DEF S, T
    <3> QED  BY <1>3, <3>1, <3>2, Retype
  <2> HIDE DEF S
  <2>3. UploadsApart(chunk'[p], node_insert(uploads[p], t))
    BY <1>1, <1>2, <1>3, <1>6, <2>1, <2>2, ApartInsert
  <2> QED  BY <1>6, <2>3
<1> QED  BY <1>4, <1>5, <1>6 DEF UploadsMove

\* There are no uploads at the start.
LEMMA ApartInit == Init => OneUploadPerHash
  BY DEF Init, OneUploadPerHash

\* receive_GET's search among all transfers is enough for every number of
\* clients, losses and repeated GETs: a chunk is sent to one peer at a time.
THEOREM OneUploadEach == Spec => []OneUploadPerHash
  BY InitType, StepType, ApartInit, ApartStep, PTL DEF Spec

------------------------------------------------------------------------------
(* NoAvailabilityLeak *)

\* What a step may do to the peers p can reach: nothing but give them a
\* transfer.
ReachMove(p) == Reachable(p) \subseteq Reachable(p)' \cup PeersOf(uploads'[p])

\* The end of a download, and the downloads that start after it.
LEMMA NextReaches ==
  ASSUME TypeOK, NEW m \in Packets, m.type = "DATA",
         NEW i \in node_find(DownloadsFrom(m.dst, m.src)),
         NEW heap, NEW miss \in Seq(DOMAIN chunk[m.dst]), NextDownloads(m, i, heap, miss)
  PROVE  Reachable(m.dst) \subseteq Reachable(m.dst)'
<1> DEFINE p == m.dst
           down == node_delete(downloads[p], i)
           avail == available[p] \cup {m.src}
           T == Download(DOMAIN chunk[p])
<1>1. p \in Peers /\ m.src \in Peers
  BY PacketFields
<1>2. i \in DOMAIN downloads[p] /\ downloads[p] \in Seq(T)
  BY <1>1, DownloadAt
<1>3. downloads[p][i].peer = m.src
  BY NodeFind DEF DownloadsFrom
<1>4. PICK f \in get_chunk_data(heap, miss, down, avail) : StartDownloads(p, miss, down, avail, f)
  BY Zenon DEF NextDownloads
<1>5. f \in [DOMAIN miss -> Peers \cup {NoPeer}]
  BY Decision
<1>6. down \in Seq(T) /\ avail \in SUBSET Peers
  BY <1>1, <1>2, NodeDelete DEF TypeOK, PeerOK
<1>7. avail \cup PeersOf(down) \subseteq Reachable(p)'
  <2> HIDE DEF p, down, avail
  <2> QED  BY <1>1, <1>4, <1>5, <1>6, StartReaches, ZenonT(30) DEF p
<1>8. Thinned(down, downloads[p], {m.src})
  BY <1>2, <1>3, ThinnedDelete
<1>9. PeersOf(downloads[p]) \subseteq {m.src} \cup PeersOf(down)
  <2> HIDE DEF down, p
  <2> QED  BY <1>8, ThinnedPeers DEF PeersOf
<1>10. Reachable(p) = available[p] \cup PeersOf(downloads[p])
  BY DEF Reachable
<1> HIDE DEF down
<1> QED  BY <1>7, <1>9, <1>10

\* The chunk of the i-th transfer of m's receiver, and the missing chunks of
\* the same hash.
Target(m, i) == downloads[m.dst][i].c

Same(m, i) ==
    {j \in DOMAIN missing[m.dst] :
        chunk[m.dst][missing[m.dst][j]].hash = chunk[m.dst][Target(m, i)].hash}

FilledHeap(m, i) == [chunk[m.dst] EXCEPT ![Target(m, i)].data = Stored(m, i)]

\* complete_DATA with the i-th transfer.
Completes(m, i) ==
    /\ validate_chunk(Stored(m, i), chunk[m.dst][Target(m, i)].hash)
    /\ chunk' = [chunk EXCEPT ![m.dst] = FilledHeap(m, i)]
    /\ IF Same(m, i) = {}
         THEN missing' = missing /\ have' = have
         ELSE /\ have' = [have EXCEPT ![m.dst] = node_insert(have[m.dst], Target(m, i))]
              /\ \E j \in node_find(Same(m, i)) :
                    missing' = [missing EXCEPT ![m.dst] = node_delete(missing[m.dst], j)]
    /\ check_all_received(m.dst, request[m.dst], FilledHeap(m, i), missing'[m.dst], wanted[m.dst])
    /\ NextDownloads(m, i, FilledHeap(m, i), missing'[m.dst])

\* The parts of complete_DATA: filling the chunk does not change which missing
\* chunks have its hash.
LEMMA CompleteParts ==
  ASSUME TypeOK, NEW m \in Packets, complete_DATA(m)
  PROVE  \E i \in node_find(DownloadsFrom(m.dst, m.src)) : Completes(m, i)
<1> DEFINE p == m.dst
           same(i) == {j \in DOMAIN missing[p] :
                         FilledHeap(m, i)[missing[p][j]].hash = FilledHeap(m, i)[Target(m, i)].hash}
<1>1. PICK i \in node_find(DownloadsFrom(p, m.src)) :
    /\ validate_chunk(Stored(m, i), chunk[p][Target(m, i)].hash)
    /\ chunk' = [chunk EXCEPT ![p] = FilledHeap(m, i)]
    /\ IF same(i) = {}
         THEN UNCHANGED <<missing, have>>
         ELSE /\ have' = [have EXCEPT ![p] = node_insert(have[p], Target(m, i))]
              /\ \E j \in node_find(same(i)) :
                    missing' = [missing EXCEPT ![p] = node_delete(missing[p], j)]
    /\ check_all_received(p, request[p], FilledHeap(m, i), missing'[p], wanted[p])
    /\ NextDownloads(m, i, FilledHeap(m, i), missing'[p])
  BY Zenon DEF complete_DATA, FilledHeap, Target
<1>2. p \in Peers
  BY PacketFields
<1>3. Target(m, i) \in DOMAIN chunk[p] /\ HeapOK(chunk[p]) /\ missing[p] \in Seq(DOMAIN chunk[p])
  BY <1>1, <1>2, DownloadAt DEF Target, TypeOK, PeerOK
<1>4. \A j \in DOMAIN missing[p] : missing[p][j] \in DOMAIN chunk[p]
  BY <1>3, LenProperties
<1>5. HashKept(FilledHeap(m, i), chunk[p])
  BY <1>3, DataHashes DEF FilledHeap
<1>6. same(i) = Same(m, i)
  BY <1>3, <1>4, <1>5 DEF Same, HashKept
<1> HIDE DEF same
<1> QED  BY <1>1, <1>6, Zenon DEF Completes

\* The missing list after complete_DATA.
LEMMA CompleteMissing ==
  ASSUME TypeOK, NEW m \in Packets, NEW i, Completes(m, i)
  PROVE  /\ missing'[m.dst] \in Seq(DOMAIN chunk[m.dst])
         /\ \/ Same(m, i) = {} /\ missing'[m.dst] = missing[m.dst]
            \/ \E j \in Same(m, i) : missing'[m.dst] = node_delete(missing[m.dst], j)
<1> DEFINE p == m.dst
<1>1. p \in Peers /\ missing[p] \in Seq(DOMAIN chunk[p])
  BY PacketFields, Zenon DEF TypeOK, PeerOK
<1>2. CASE Same(m, i) = {}
  BY <1>1, <1>2 DEF Completes
<1>3. CASE Same(m, i) # {}
  <2>1. PICK j \in node_find(Same(m, i)) :
            missing' = [missing EXCEPT ![p] = node_delete(missing[p], j)]
    BY <1>3, Zenon DEF Completes
  <2>2. j \in Same(m, i) /\ j \in DOMAIN missing[p]
    BY NodeFind DEF Same
  <2>3. missing'[p] = node_delete(missing[p], j)
    BY <1>1, <2>1 DEF TypeOK
  <2>4. node_delete(missing[p], j) \in Seq(DOMAIN chunk[p])
    BY <1>1, <2>2, NodeDelete
  <2> QED  BY <2>2, <2>3, <2>4
<1> QED  BY <1>2, <1>3

\* What a datagram does to the peers its receiver can reach.
LEMMA InboundReaches ==
  ASSUME TypeOK, NEW m \in Packets, process_inbound_udp(m)
  PROVE  ReachMove(m.dst)
<1> DEFINE p == m.dst
           D == DOMAIN chunk[p]
<1>1. p \in Peers /\ m.src \in Peers
  BY PacketFields
<1>2. missing[p] \in Seq(D) /\ downloads[p] \in Seq(Download(D)) /\ available[p] \in SUBSET Peers
  BY <1>1, Zenon DEF TypeOK, PeerOK
<1>3. ASSUME Reachable(p) \subseteq Reachable(p)' PROVE ReachMove(p)
  BY <1>3 DEF ReachMove
<1>4. ASSUME NEW A, A \subseteq available'[p], available[p] \subseteq A, downloads' = downloads
      PROVE  ReachMove(p)
  BY <1>4 DEF ReachMove, Reachable
<1>5. ASSUME available' = available, downloads' = downloads PROVE ReachMove(p)
  BY <1>4, <1>5
<1>6. CASE accept_GET(m)
  <2>1. available'[p] = available[p] \ {m.src} /\ downloads' = downloads
    BY <1>1, <1>6 DEF accept_GET, TypeOK
  <2>2. PICK c : uploads' = [uploads EXCEPT ![p] = node_insert(uploads[p],
              [peer |-> m.src, c |-> c, cctrl |-> AfterSend(NewCongestCtrl)])]
    BY <1>6, Zenon DEF accept_GET
  <2> DEFINE t == [peer |-> m.src, c |-> c, cctrl |-> AfterSend(NewCongestCtrl)]
  <2>3. uploads'[p] = node_insert(uploads[p], t)
    BY <1>1, <2>2 DEF TypeOK
  <2>4. t.peer = m.src
    OBVIOUS
  <2> HIDE DEF t
  <2>5. uploads[p] \in Seq(Upload(D))
    BY <1>1, Zenon DEF TypeOK, PeerOK
  <2>6. 1 \in DOMAIN uploads'[p] /\ uploads'[p][1] = t
    <3> DEFINE S == Upload(D) \cup {t}
    <3>1. \A i \in DOMAIN uploads[p] : uploads[p][i] \in S
      BY <2>5, LenProperties
    <3>2. t \in S
      OBVIOUS
    <3> HIDE DEF S
    <3>3. uploads[p] \in Seq(S)
      BY <2>5, <3>1, Retype
    <3> QED  BY <2>3, <3>2, <3>3, LenProperties, ConcatProperties DEF node_insert
  <2>7. m.src \in PeersOf(uploads'[p])
    BY <2>4, <2>6 DEF PeersOf
  <2> QED  BY <2>1, <2>7 DEF ReachMove, Reachable
<1>7. CASE last_ACK(m)
  <2>1. available'[p] = available[p] \cup {m.src} /\ downloads' = downloads
    BY <1>1, <1>7 DEF last_ACK, TypeOK
  <2> QED  BY <1>4, <2>1
<1>8. CASE receive_IHAVE(m)
  <2>1. PICK heap : \E f \in get_chunk_data(heap, missing[p], downloads[p], available[p]) :
            StartDownloads(p, missing[p], downloads[p], available[p], f)
    BY <1>8, Zenon DEF receive_IHAVE
  <2>2. PICK f \in get_chunk_data(heap, missing[p], downloads[p], available[p]) :
            StartDownloads(p, missing[p], downloads[p], available[p], f)
    BY <2>1
  <2>3. f \in [DOMAIN missing[p] -> Peers \cup {NoPeer}]
    BY Decision
  <2>4. available[p] \cup PeersOf(downloads[p]) \subseteq Reachable(p)'
    <3> HIDE DEF p, D
    <3> QED  BY <1>1, <1>2, <2>2, <2>3, StartReaches, Zenon
  <2> QED  BY <2>4 DEF ReachMove, Reachable
<1>9. CASE drop_DENIED(m)
  <2>1. PICK i \in node_find(DownloadsFrom(p, m.src)) :
           downloads' = [downloads EXCEPT ![p] = node_delete(downloads[p], i)]
    BY <1>9, Zenon DEF drop_DENIED
  <2>2. i \in DOMAIN downloads[p] /\ downloads[p][i].peer = m.src
    BY NodeFind DEF DownloadsFrom
  <2>3. available'[p] = available[p] \cup {m.src} /\ downloads'[p] = node_delete(downloads[p], i)
    BY <1>1, <1>9, <2>1 DEF drop_DENIED, TypeOK
  <2>4. Thinned(downloads'[p], downloads[p], {m.src})
    BY <1>2, <2>2, <2>3, ThinnedDelete
  <2>5. PeersOf(downloads[p]) \subseteq {m.src} \cup PeersOf(downloads'[p])
    <3> HIDE DEF p
    <3> QED  BY <2>4, ThinnedPeers DEF PeersOf
  <2> QED  BY <2>3, <2>5 DEF ReachMove, Reachable
<1>10. CASE complete_DATA(m)
  <2>1. PICK i \in node_find(DownloadsFrom(p, m.src)) : Completes(m, i)
    BY <1>10, CompleteParts
  <2>2. NextDownloads(m, i, FilledHeap(m, i), missing'[p]) /\ missing'[p] \in Seq(D)
    BY <2>1, CompleteMissing DEF Completes
  <2>3. m.type = "DATA"
    BY <1>10 DEF complete_DATA
  <2> QED  BY <1>3, <2>1, <2>2, <2>3, NextReaches, Zenon
<1>11. CASE corrupt_DATA(m)
  <2>1. PICK i \in node_find(DownloadsFrom(p, m.src)) : \E heap : NextDownloads(m, i, heap, missing[p])
    BY <1>11, Zenon DEF corrupt_DATA
  <2>2. m.type = "DATA"
    BY <1>11 DEF corrupt_DATA
  <2> QED  BY <1>2, <1>3, <2>1, <2>2, NextReaches, Zenon
<1>12. \/ available' = available /\ downloads' = downloads
       \/ accept_GET(m) \/ last_ACK(m) \/ receive_IHAVE(m) \/ drop_DENIED(m)
       \/ complete_DATA(m) \/ corrupt_DATA(m)
  BY Zenon DEF process_inbound_udp, receive_WHOHAS, receive_GET, refuse_GET, ignore_GET,
     receive_ACK, stray_ACK, new_ACK, loss_ACK, old_ACK, Continue, receive_DENIED, stray_DENIED,
     receive_DATA, stray_DATA, store_DATA, transferVars
<1> QED  BY <1>5, <1>6, <1>7, <1>8, <1>9, <1>10, <1>11, <1>12

\* Whom a peer can reach in any step.
LEMMA ReachMoves ==
  ASSUME TypeOK, [Next]_vars, NEW q \in Peers
  PROVE  ReachMove(q)
<1>1. ASSUME available'[q] = available[q], downloads'[q] = downloads[q] PROVE ReachMove(q)
  BY <1>1 DEF ReachMove, Reachable
<1>2. ASSUME NEW m \in BagToSet(net), process_inbound_udp(m) PROVE ReachMove(q)
  <2>1. m \in Packets
    BY DEF TypeOK
  <2>2. CASE q = m.dst
    BY <1>2, <2>1, <2>2, InboundReaches
  <2>3. CASE q # m.dst
    BY <1>1, <1>2, <2>3, InboundLocal DEF Local
  <2> QED  BY <2>2, <2>3
<1>3. ASSUME NEW p \in Peers, handle_timeout(p) PROVE ReachMove(q)
  <2>1. CASE q = p
    BY <1>3, <2>1, TimeoutReaches DEF ReachMove
  <2>2. CASE q # p
    BY <1>1, <1>3, <2>2, TimeoutLocal DEF Local
  <2> QED  BY <2>1, <2>2
<1>4. ASSUME \/ \E m : Lose(m) \/ Duplicate(m)
             \/ \E p \in Peers : process_get(p)
             \/ UNCHANGED vars
      PROVE  ReachMove(q)
  <2>1. available' = available /\ downloads' = downloads
    BY <1>4, Zenon DEF Lose, Duplicate, process_get, vars, transferVars
  <2> QED  BY <1>1, <2>1
<1> QED  BY <1>2, <1>3, <1>4, Zenon DEF Next, QuietTimeout, EarlyTimeout

\* The property, with the sets of peers.
LEMMA LeakSets ==
  NoAvailabilityLeak <=> \A p \in Peers : Peers \subseteq Reachable(p) \cup PeersOf(uploads[p])
<1>1. ASSUME NEW p \in Peers, NEW q \in Peers
      PROVE  /\ q \in PeersOf(uploads[p]) <=> \E i \in DOMAIN uploads[p] : uploads[p][i].peer = q
             /\ q \in PeersOf(downloads[p]) <=> \E i \in DOMAIN downloads[p] : downloads[p][i].peer = q
  BY DEF PeersOf
<1> QED  BY <1>1 DEF NoAvailabilityLeak, Reachable

\* Every step keeps each peer reachable or engaged.
LEMMA LeakStep == TypeOK /\ NoAvailabilityLeak /\ [Next]_vars => NoAvailabilityLeak'
<1> SUFFICES ASSUME TypeOK, NoAvailabilityLeak, [Next]_vars, NEW p \in Peers, NEW q \in Peers
             PROVE  q \in Reachable(p)' \cup PeersOf(uploads'[p])
  <2>1. (\A p \in Peers : Peers \subseteq Reachable(p) \cup PeersOf(uploads[p]))' => NoAvailabilityLeak'
    BY LeakSets, PTL
  <2> QED  BY <2>1 DEF PeersOf
<1>1. q \in Reachable(p) \cup PeersOf(uploads[p])
  BY LeakSets
<1>2. CASE q \in Reachable(p)
  BY <1>2, ReachMoves DEF ReachMove
<1>3. CASE q \in PeersOf(uploads[p])
  <2>1. PICK k \in DOMAIN uploads[p] : q = uploads[p][k].peer
    BY <1>3 DEF PeersOf
  <2>2. CASE Thinned(uploads'[p], uploads[p], Reachable(p)')
    BY <2>1, <2>2, ThinnedPeers DEF PeersOf
  <2>3. ASSUME NEW t, uploads'[p] = node_insert(uploads[p], t)
        PROVE  q \in PeersOf(uploads'[p])
    <3> DEFINE S == Upload(DOMAIN chunk[p]) \cup {t}
    <3>1. uploads[p] \in Seq(Upload(DOMAIN chunk[p]))
      BY Zenon DEF TypeOK, PeerOK
    <3>2. \A i \in DOMAIN uploads[p] : uploads[p][i] \in S
      BY <3>1, LenProperties
    <3>3. t \in S
      OBVIOUS
    <3> HIDE DEF S
    <3>4. uploads[p] \in Seq(S)
      BY <3>1, <3>2, Retype
    <3>5. k + 1 \in DOMAIN uploads'[p] /\ uploads'[p][k + 1] = uploads[p][k]
      BY <2>3, <3>3, <3>4, LenProperties, ConcatProperties DEF node_insert
    <3> QED  BY <2>1, <3>5 DEF PeersOf
  <2> QED  BY <2>2, <2>3, UploadsMoves DEF UploadsMove
<1> QED  BY <1>1, <1>2, <1>3

\* Every peer is available at the start.
LEMMA LeakInit == Init => NoAvailabilityLeak
  BY DEF Init, bt_parse_peer_list, NoAvailabilityLeak

\* No peer is lost for good, for any number of peers, transfers and timeouts:
\* every way to take a peer opens a transfer, and every way to end a transfer
\* frees its peer.
THEOREM NoPeerLost == Spec => []NoAvailabilityLeak
  BY InitType, StepType, LeakInit, LeakStep, PTL DEF Spec

------------------------------------------------------------------------------
(* DownloadsMatchMissing *)

Match(heap, miss, down) ==
    \A i \in DOMAIN down :
        /\ \E j \in DOMAIN miss : heap[miss[j]].hash = heap[down[i].c].hash
        /\ \A k \in DOMAIN down : heap[down[k].c].hash = heap[down[i].c].hash => k = i

\* Fewer downloads, more missing chunks, other data.
LEMMA MatchThinned ==
  ASSUME NEW old, NEW heap, HashKept(heap, old), NEW miss, NEW more, NEW down, NEW new, NEW S,
         Match(old, miss, down), Thinned(new, down, S),
         \A i \in DOMAIN down : down[i].c \in DOMAIN old,
         \A j \in DOMAIN miss : miss[j] \in DOMAIN old,
         \A j \in DOMAIN miss : \E l \in DOMAIN more : more[l] = miss[j]
  PROVE  Match(heap, more, new)
<1>1. PICK g : ThinnedBy(g, new, down, S)
  BY DEF Thinned
<1>2. ASSUME NEW i \in DOMAIN new
      PROVE  g[i] \in DOMAIN down /\ new[i].c = down[g[i]].c /\ down[g[i]].c \in DOMAIN old
  BY <1>1 DEF ThinnedBy
<1>3. \A r \in DOMAIN old : heap[r].hash = old[r].hash
  BY DEF HashKept
<1> SUFFICES ASSUME NEW i \in DOMAIN new
             PROVE  /\ \E l \in DOMAIN more : heap[more[l]].hash = heap[new[i].c].hash
                    /\ \A k \in DOMAIN new : heap[new[k].c].hash = heap[new[i].c].hash => k = i
  BY Zenon DEF Match
<1>4. PICK j \in DOMAIN miss : old[miss[j]].hash = old[down[g[i]].c].hash
  BY <1>2 DEF Match
<1>5. PICK l \in DOMAIN more : more[l] = miss[j]
  BY <1>4
<1>6. heap[more[l]].hash = heap[new[i].c].hash
  BY <1>2, <1>3, <1>4, <1>5
<1>7. ASSUME NEW k \in DOMAIN new, heap[new[k].c].hash = heap[new[i].c].hash PROVE k = i
  <2>1. old[down[g[k]].c].hash = old[down[g[i]].c].hash
    BY <1>2, <1>3, <1>7
  <2>2. g[k] = g[i]
    BY <1>2, <2>1 DEF Match
  <2> QED  BY <1>1, <2>2 DEF ThinnedBy
<1> QED  BY <1>5, <1>6, <1>7

\* get_chunk_data opens no transfer of a hash in flight.
LEMMA NotInFlight ==
  ASSUME NEW heap, NEW miss, NEW down, NEW avail, NEW f \in get_chunk_data(heap, miss, down, avail),
         NEW i \in DOMAIN miss, f[i] # NoPeer
  PROVE  ~InFlight(heap, miss, down, f, i)
  BY DEF get_chunk_data

\* The transfers of init_data_transfer are of missing hashes, each once.
LEMMA MatchStart ==
  ASSUME NEW D, NEW heap, NEW miss \in Seq(D), NEW down \in Seq(Download(D)), NEW avail,
         NEW f \in get_chunk_data(heap, miss, down, avail), Match(heap, miss, down)
  PROVE  Match(heap, miss, NewDownloads(miss, f) \o down)
<1> DEFINE new == NewDownloads(miss, f)
           both == new \o down
           H(i) == heap[both[i].c].hash
<1>1. f \in [DOMAIN miss -> Peers \cup {NoPeer}]
  BY Decision
<1>2. new \in Seq(Download(D))
  BY <1>1, NewDownloadsType
<1>3. PICK from : OpenedFor(from, new, miss, f)
  BY <1>1, NewDownloadAt
<1> HIDE DEF new
<1>4. /\ \A i \in DOMAIN both : \/ i \in DOMAIN new /\ both[i] = new[i]
                                \/ i - Len(new) \in DOMAIN down /\ both[i] = down[i - Len(new)]
      /\ DOMAIN both = 1..(Len(new) + Len(down)) /\ Len(new) \in Nat /\ Len(down) \in Nat
      /\ DOMAIN miss \subseteq Nat
  BY <1>2, ConcatAt, LenProperties
<1> HIDE DEF both
<1>5. ASSUME NEW i \in DOMAIN new, both[i] = new[i]
      PROVE  /\ from[i] \in DOMAIN miss /\ f[from[i]] # NoPeer
             /\ H(i) = heap[miss[from[i]]].hash
             /\ ~InFlight(heap, miss, down, f, from[i])
  <2>1. from[i] \in DOMAIN miss /\ f[from[i]] # NoPeer /\ new[i].c = miss[from[i]]
    BY <1>3 DEF OpenedFor
  <2> QED  BY <1>5, <2>1, NotInFlight
<1>6. ASSUME NEW i \in DOMAIN both PROVE \E j \in DOMAIN miss : heap[miss[j]].hash = H(i)
  <2>1. CASE i \in DOMAIN new /\ both[i] = new[i]
    BY <1>5, <2>1
  <2>2. CASE i - Len(new) \in DOMAIN down /\ both[i] = down[i - Len(new)]
    BY <2>2 DEF Match
  <2> QED  BY <1>4, <2>1, <2>2
<1>7. ASSUME NEW i \in DOMAIN new, both[i] = new[i], NEW k \in DOMAIN down,
             heap[down[k].c].hash = H(i)
      PROVE  FALSE
  BY <1>5, <1>7 DEF InFlight
<1>8. ASSUME NEW i \in DOMAIN new, both[i] = new[i], NEW k \in DOMAIN new, both[k] = new[k],
             H(k) = H(i)
      PROVE  k = i
  <2>1. from[k] \in Nat /\ from[i] \in Nat
    BY <1>4, <1>5, <1>8
  <2>2. ~(from[k] < from[i])
    <3> SUFFICES ASSUME from[k] < from[i] PROVE FALSE
      OBVIOUS
    <3>1. from[k] \in 1..(from[i] - 1)
      BY <1>4, <1>5, <1>8, <2>1, LenProperties
    <3> QED  BY <1>5, <1>8, <3>1 DEF InFlight
  <2>3. ~(from[i] < from[k])
    <3> SUFFICES ASSUME from[i] < from[k] PROVE FALSE
      OBVIOUS
    <3>1. from[i] \in 1..(from[k] - 1)
      BY <1>4, <1>5, <1>8, <2>1, LenProperties
    <3> QED  BY <1>5, <1>8, <3>1 DEF InFlight
  <2>4. from[k] = from[i]
    BY <2>1, <2>2, <2>3
  <2> QED  BY <1>3, <2>4 DEF OpenedFor
<1>9. ASSUME NEW i \in DOMAIN both, NEW k \in DOMAIN both, H(k) = H(i) PROVE k = i
  <2>1. CASE i \in DOMAIN new /\ both[i] = new[i]
    <3>1. CASE k \in DOMAIN new /\ both[k] = new[k]
      BY <1>8, <1>9, <2>1, <3>1
    <3>2. CASE k - Len(new) \in DOMAIN down /\ both[k] = down[k - Len(new)]
      BY <1>7, <1>9, <2>1, <3>2
    <3> QED  BY <1>4, <3>1, <3>2
  <2>2. CASE i - Len(new) \in DOMAIN down /\ both[i] = down[i - Len(new)]
    <3>1. CASE k \in DOMAIN new /\ both[k] = new[k]
      BY <1>7, <1>9, <2>2, <3>1
    <3>2. CASE k - Len(new) \in DOMAIN down /\ both[k] = down[k - Len(new)]
      <4>1. k - Len(new) = i - Len(new)
        BY <1>9, <2>2, <3>2 DEF Match
      <4> QED  BY <1>4, <4>1
    <3> QED  BY <1>4, <3>1, <3>2
  <2> QED  BY <1>4, <2>1, <2>2
<1> QED  BY <1>6, <1>9, Zenon DEF Match, both, new

\* The downloads of p are of chunks in its heap.
LEMMA ListsAt ==
  ASSUME TypeOK, NEW p \in Peers
  PROVE  /\ missing[p] \in Seq(DOMAIN chunk[p])
         /\ downloads[p] \in Seq(Download(DOMAIN chunk[p]))
         /\ HeapOK(chunk[p])
         /\ \A i \in DOMAIN downloads[p] : downloads[p][i].c \in DOMAIN chunk[p]
         /\ \A j \in DOMAIN missing[p] : missing[p][j] \in DOMAIN chunk[p]
<1>1. /\ missing[p] \in Seq(DOMAIN chunk[p])
      /\ downloads[p] \in Seq(Download(DOMAIN chunk[p]))
      /\ HeapOK(chunk[p])
  BY Zenon DEF TypeOK, PeerOK
<1>2. \A i \in DOMAIN downloads[p] : downloads[p][i] \in Download(DOMAIN chunk[p])
  BY <1>1, LenProperties
<1>3. \A i \in DOMAIN downloads[p] : downloads[p][i].c \in DOMAIN chunk[p]
  BY <1>2 DEF Download
<1>4. \A j \in DOMAIN missing[p] : missing[p][j] \in DOMAIN chunk[p]
  BY <1>1, LenProperties
<1> QED  BY <1>1, <1>3, <1>4

\* The end of a download, and the downloads that start after it.
LEMMA NextMatch ==
  ASSUME TypeOK, NEW m \in Packets, NEW i \in node_find(DownloadsFrom(m.dst, m.src)),
         NEW heap, NEW miss \in Seq(DOMAIN chunk[m.dst]), NextDownloads(m, i, heap, miss),
         Match(heap, miss, node_delete(downloads[m.dst], i))
  PROVE  Match(heap, miss, downloads'[m.dst])
<1> DEFINE p == m.dst
           down == node_delete(downloads[p], i)
           avail == available[p] \cup {m.src}
<1>1. p \in Peers
  BY PacketFields
<1>2. i \in DOMAIN downloads[p] /\ downloads[p] \in Seq(Download(DOMAIN chunk[p]))
  BY <1>1, DownloadAt
<1>3. down \in Seq(Download(DOMAIN chunk[p]))
  BY <1>2, NodeDelete
<1>4. PICK f \in get_chunk_data(heap, miss, down, avail) : StartDownloads(p, miss, down, avail, f)
  BY Zenon DEF NextDownloads
<1>5. downloads'[p] = NewDownloads(miss, f) \o down
  BY <1>1, <1>4 DEF StartDownloads, TypeOK
<1>6. Match(heap, miss, down)
  OBVIOUS
<1> HIDE DEF down, avail
<1>7. Match(heap, miss, NewDownloads(miss, f) \o down)
  BY <1>3, <1>6, MatchStart
<1> QED  BY <1>5, <1>7

\* A valid chunk takes its hash off both lists, and off neither anything else.
LEMMA CompleteMatch ==
  ASSUME TypeOK, NEW m \in Packets, NEW i \in node_find(DownloadsFrom(m.dst, m.src)),
         Completes(m, i), Match(chunk[m.dst], missing[m.dst], downloads[m.dst])
  PROVE  Match(FilledHeap(m, i), missing'[m.dst], node_delete(downloads[m.dst], i))
<1> DEFINE p == m.dst
           old == chunk[p]
           heap == FilledHeap(m, i)
           down == downloads[p]
           rest == node_delete(down, i)
           miss == missing[p]
<1>1. p \in Peers /\ i \in DOMAIN down
  BY PacketFields, NodeFind DEF DownloadsFrom
<1>2. /\ miss \in Seq(DOMAIN old) /\ down \in Seq(Download(DOMAIN old)) /\ HeapOK(old)
      /\ \A k \in DOMAIN down : down[k].c \in DOMAIN old
      /\ \A j \in DOMAIN miss : miss[j] \in DOMAIN old
  BY <1>1, ListsAt
<1>3. HashKept(heap, old)
  BY <1>1, <1>2, DataHashes DEF FilledHeap, Target
<1>4. PICK g : Picks(g, rest, down, DOMAIN down \ {i})
  BY <1>1, <1>2, DeleteSelects DEF Selects
<1>5. \/ Same(m, i) = {} /\ missing'[p] = miss
      \/ \E j \in Same(m, i) : missing'[p] = node_delete(miss, j)
  BY CompleteMissing
<1>6. \A j : j \in Same(m, i) <=> j \in DOMAIN miss /\ old[miss[j]].hash = old[down[i].c].hash
  BY DEF Same, Target
<1>7. Match(old, miss, down)
  OBVIOUS
<1> HIDE DEF p, old, heap, down, rest, miss
<1>8. ASSUME NEW k \in DOMAIN rest
      PROVE  /\ g[k] \in DOMAIN down /\ rest[k] = down[g[k]]
             /\ old[down[g[k]].c].hash # old[down[i].c].hash
  <2>1. g[k] \in DOMAIN down /\ g[k] # i /\ rest[k] = down[g[k]]
    BY <1>4 DEF Picks
  <2> QED  BY <1>1, <1>7, <2>1 DEF Match
<1>9. ASSUME NEW k \in DOMAIN rest
      PROVE  \E l \in DOMAIN missing'[p] : heap[missing'[p][l]].hash = heap[rest[k].c].hash
  <2>1. PICK j \in DOMAIN miss : old[miss[j]].hash = old[down[g[k]].c].hash
    BY <1>7, <1>8, <1>9 DEF Match
  <2>2. \E l \in DOMAIN missing'[p] : missing'[p][l] = miss[j]
    <3>1. CASE missing'[p] = miss
      BY <3>1
    <3>2. ASSUME NEW x \in Same(m, i), missing'[p] = node_delete(miss, x)
          PROVE  \E l \in DOMAIN missing'[p] : missing'[p][l] = miss[j]
      <4>1. x \in DOMAIN miss /\ j # x
        BY <1>6, <1>8, <1>9, <2>1
      <4>2. PICK h : Picks(h, node_delete(miss, x), miss, DOMAIN miss \ {x})
        BY <1>2, <4>1, DeleteSelects DEF Selects
      <4>3. PICK l \in DOMAIN node_delete(miss, x) : h[l] = j
        BY <4>1, <4>2 DEF Picks
      <4>4. node_delete(miss, x)[l] = miss[j]
        BY <4>2, <4>3, Zenon DEF Picks
      <4> QED  BY <3>2, <4>3, <4>4
    <3> QED  BY <1>5, <3>1, <3>2
  <2>3. PICK l \in DOMAIN missing'[p] : missing'[p][l] = miss[j]
    BY <2>2
  <2>4. heap[missing'[p][l]].hash = heap[rest[k].c].hash
    BY <1>2, <1>3, <1>8, <2>1, <2>3 DEF HashKept
  <2> QED  BY <2>3, <2>4
<1>10. ASSUME NEW k \in DOMAIN rest, NEW l \in DOMAIN rest,
              heap[rest[l].c].hash = heap[rest[k].c].hash
       PROVE  l = k
  <2>1. old[down[g[l]].c].hash = old[down[g[k]].c].hash
    BY <1>2, <1>3, <1>8, <1>10 DEF HashKept
  <2>2. g[l] = g[k]
    BY <1>7, <1>8, <2>1 DEF Match
  <2> QED  BY <1>4, <2>2 DEF Picks
<1>11. Match(heap, missing'[p], rest)
  BY <1>9, <1>10, Zenon DEF Match
<1> QED  BY <1>11 DEF heap, rest, down, p

\* What a datagram does to the downloads of its receiver.
LEMMA InboundMatch ==
  ASSUME TypeOK, NEW m \in Packets, process_inbound_udp(m),
         Match(chunk[m.dst], missing[m.dst], downloads[m.dst])
  PROVE  Match(chunk'[m.dst], missing'[m.dst], downloads'[m.dst])
<1> DEFINE p == m.dst
           D == DOMAIN chunk[p]
<1>1. p \in Peers /\ m.src \in Peers
  BY PacketFields
<1>2. /\ missing[p] \in Seq(D) /\ downloads[p] \in Seq(Download(D)) /\ HeapOK(chunk[p])
      /\ \A i \in DOMAIN downloads[p] : downloads[p][i].c \in DOMAIN chunk[p]
      /\ \A j \in DOMAIN missing[p] : missing[p][j] \in DOMAIN chunk[p]
  BY <1>1, ListsAt
<1>3. ASSUME NEW heap, HashKept(heap, chunk[p]), NEW down, NEW S, Thinned(down, downloads[p], S)
      PROVE  Match(heap, missing[p], down)
  BY <1>2, <1>3, MatchThinned
<1>4. Thinned(downloads[p], downloads[p], {})
  BY ThinnedSelf, Zenon
<1>5. HashKept(chunk'[p], chunk[p])
  BY InboundHashes
<1>6. CASE receive_IHAVE(m)
  <2>1. chunk' = [chunk EXCEPT ![p] = HeapAfterIhave(p, m.src, m.hashes)] /\ missing' = missing
    BY <1>6, Zenon DEF receive_IHAVE, HeapAfterIhave
  <2>2. \E f \in get_chunk_data(HeapAfterIhave(p, m.src, m.hashes), missing[p], downloads[p], available[p]) :
            StartDownloads(p, missing[p], downloads[p], available[p], f)
    BY <1>6, Zenon DEF receive_IHAVE, HeapAfterIhave
  <2>3. chunk'[p] = HeapAfterIhave(p, m.src, m.hashes)
    BY <1>1, <2>1 DEF TypeOK
  <2>4. PICK f \in get_chunk_data(chunk'[p], missing[p], downloads[p], available[p]) :
            StartDownloads(p, missing[p], downloads[p], available[p], f)
    BY <2>2, <2>3
  <2>5. downloads'[p] = NewDownloads(missing[p], f) \o downloads[p]
    BY <1>1, <2>4 DEF StartDownloads, TypeOK
  <2>6. Match(chunk'[p], missing[p], downloads[p])
    BY <1>3, <1>4, <1>5
  <2>7. Match(chunk'[p], missing[p], NewDownloads(missing[p], f) \o downloads[p])
    BY <1>2, <2>4, <2>6, MatchStart
  <2> QED  BY <2>1, <2>5, <2>7
<1>7. ASSUME NEW i \in node_find(DownloadsFrom(p, m.src))
      PROVE  Match(chunk'[p], missing[p], node_delete(downloads[p], i))
  <2>1. i \in DOMAIN downloads[p]
    BY <1>7, NodeFind DEF DownloadsFrom
  <2>2. Thinned(node_delete(downloads[p], i), downloads[p], {downloads[p][i].peer})
    BY <1>2, <2>1, ThinnedDelete
  <2> QED  BY <1>3, <1>5, <2>2
<1>8. CASE drop_DENIED(m)
  <2>1. PICK i \in node_find(DownloadsFrom(p, m.src)) :
           downloads' = [downloads EXCEPT ![p] = node_delete(downloads[p], i)]
    BY <1>8, Zenon DEF drop_DENIED
  <2>2. downloads'[p] = node_delete(downloads[p], i) /\ missing' = missing
    BY <1>1, <1>8, <2>1 DEF drop_DENIED, TypeOK, chunkVars
  <2> QED  BY <1>7, <2>2
<1>9. CASE complete_DATA(m)
  <2>1. PICK i \in node_find(DownloadsFrom(p, m.src)) : Completes(m, i)
    BY <1>9, CompleteParts
  <2>2. NextDownloads(m, i, FilledHeap(m, i), missing'[p]) /\ missing'[p] \in Seq(D)
    BY <2>1, CompleteMissing DEF Completes
  <2>3. Match(FilledHeap(m, i), missing'[p], node_delete(downloads[p], i))
    BY <2>1, CompleteMatch
  <2>4. Match(FilledHeap(m, i), missing'[p], downloads'[p])
    BY <2>2, <2>3, NextMatch
  <2>5. chunk'[p] = FilledHeap(m, i)
    BY <1>1, <2>1 DEF Completes, TypeOK
  <2> QED  BY <2>4, <2>5
<1>10. CASE corrupt_DATA(m)
  <2> DEFINE heap(i) == [chunk[p] EXCEPT ![downloads[p][i].c].data = [s \in SeqNums |-> Unset]]
  <2>1. PICK i \in node_find(DownloadsFrom(p, m.src)) :
            chunk' = [chunk EXCEPT ![p] = heap(i)] /\ NextDownloads(m, i, heap(i), missing[p])
    BY <1>10, Zenon DEF corrupt_DATA
  <2> HIDE DEF heap
  <2>2. chunk'[p] = heap(i)
    BY <1>1, <2>1 DEF TypeOK
  <2>3. Match(heap(i), missing[p], node_delete(downloads[p], i))
    BY <1>7, <2>1, <2>2
  <2>4. Match(heap(i), missing[p], downloads'[p])
    BY <1>2, <2>1, <2>3, NextMatch
  <2>5. missing' = missing
    BY <1>10 DEF corrupt_DATA
  <2> QED  BY <2>2, <2>4, <2>5
<1>11. CASE missing' = missing /\ downloads' = downloads
  BY <1>3, <1>4, <1>5, <1>11
<1>12. \/ missing' = missing /\ downloads' = downloads
       \/ receive_IHAVE(m) \/ drop_DENIED(m) \/ complete_DATA(m) \/ corrupt_DATA(m)
  BY Zenon DEF process_inbound_udp, receive_WHOHAS, receive_GET, refuse_GET, ignore_GET, accept_GET,
     receive_ACK, stray_ACK, last_ACK, new_ACK, loss_ACK, old_ACK, Continue,
     receive_DENIED, stray_DENIED, receive_DATA, stray_DATA, store_DATA, chunkVars, transferVars
<1> QED  BY <1>6, <1>8, <1>9, <1>10, <1>11, <1>12

\* The missing list after a user's GET ends in the old one.
LEMMA GetMissing ==
  ASSUME TypeOK, NEW p \in Peers, process_get(p)
  PROVE  /\ request[p] + 1 \in DOMAIN GetFiles[p] /\ GetFiles[p][request[p] + 1] \in Seq(Line)
         /\ \A j \in DOMAIN missing[p] : \E l \in DOMAIN missing'[p] : missing'[p][l] = missing[p][j]
<1> DEFINE n == request[p] + 1
           lines == GetFiles[p][n]
           list == [l \in DOMAIN lines |-> <<n, l>>]
           K == AbsentLines(p, lines)
           front == Reverse(node_keep(list, K))
           both == front \o missing[p]
           S == {<<n, l>> : l \in DOMAIN lines} \cup DOMAIN chunk[p]
<1>1. request[p] \in Nat /\ n <= Len(GetFiles[p]) /\ GetFiles[p] \in Seq(Seq(Line))
  BY PeerAssumption DEF process_get, TypeOK
<1>2. n \in DOMAIN GetFiles[p] /\ lines \in Seq(Line)
  <2> HIDE DEF lines
  <2>1. n \in DOMAIN GetFiles[p]
    BY <1>1, LenProperties
  <2>2. GetFiles[p][n] \in Seq(Line)
    BY <1>1, <2>1, LenProperties
  <2> QED  BY <2>1, <2>2 DEF lines
<1>3. missing' = [missing EXCEPT ![p] = both]
  BY Zenon DEF process_get
<1>4. missing'[p] = both
  <2> HIDE DEF both
  <2> QED  BY <1>3 DEF TypeOK
<1>5. list \in [DOMAIN lines -> S] /\ K \in SUBSET DOMAIN lines
  BY DEF AbsentLines
<1>6. missing[p] \in Seq(DOMAIN chunk[p]) /\ DOMAIN chunk[p] \subseteq S
  BY ListsAt
<1> HIDE DEF list, K, lines, S
<1>7. list \in Seq(S) /\ DOMAIN list = DOMAIN lines
  BY <1>2, <1>5, FunctionSeq
<1>8. node_keep(list, K) \in Seq(S)
  BY <1>5, <1>7, NodeKeep
<1>9. front \in Seq(S)
  BY <1>8, ReverseList
<1>10. missing[p] \in Seq(S)
  <2>1. \A j \in DOMAIN missing[p] : missing[p][j] \in S
    BY <1>6, LenProperties
  <2> QED  BY <1>6, <2>1, Retype
<1> HIDE DEF front
<1>11. \A j \in DOMAIN missing[p] : Len(front) + j \in DOMAIN both /\ both[Len(front) + j] = missing[p][j]
  BY <1>9, <1>10, ConcatAt
<1> HIDE DEF both
<1>12. \A j \in DOMAIN missing[p] : \E l \in DOMAIN both : both[l] = missing[p][j]
  BY <1>11
<1> QED  BY <1>2, <1>4, <1>12 DEF lines

\* Every step keeps the downloads of each peer to missing hashes, each once.
LEMMA MatchStep == TypeOK /\ DownloadsMatchMissing /\ [Next]_vars => DownloadsMatchMissing'
<1> SUFFICES ASSUME TypeOK, DownloadsMatchMissing, [Next]_vars, NEW p \in Peers
             PROVE  Match(chunk'[p], missing'[p], downloads'[p])
  BY Zenon DEF DownloadsMatchMissing, Match
<1>1. Match(chunk[p], missing[p], downloads[p])
  BY Zenon DEF DownloadsMatchMissing, Match
<1>2. HashKept(chunk'[p], chunk[p])
  BY HashesStep
<1>3. /\ \A i \in DOMAIN downloads[p] : downloads[p][i].c \in DOMAIN chunk[p]
      /\ \A j \in DOMAIN missing[p] : missing[p][j] \in DOMAIN chunk[p]
      /\ missing[p] \in Seq(DOMAIN chunk[p])
  BY ListsAt
<1>4. Thinned(downloads[p], downloads[p], {})
  BY ThinnedSelf, Zenon
<1>5. ASSUME downloads'[p] = downloads[p],
             \A j \in DOMAIN missing[p] : \E l \in DOMAIN missing'[p] : missing'[p][l] = missing[p][j]
      PROVE  Match(chunk'[p], missing'[p], downloads'[p])
  BY <1>1, <1>2, <1>3, <1>4, <1>5, MatchThinned
<1>6. ASSUME downloads'[p] = downloads[p], missing'[p] = missing[p]
      PROVE  Match(chunk'[p], missing'[p], downloads'[p])
  BY <1>5, <1>6
<1>7. ASSUME NEW m \in BagToSet(net), process_inbound_udp(m)
      PROVE  Match(chunk'[p], missing'[p], downloads'[p])
  <2>1. m \in Packets
    BY DEF TypeOK
  <2>2. CASE p = m.dst
    BY <1>1, <1>7, <2>1, <2>2, InboundMatch
  <2>3. CASE p # m.dst
    BY <1>6, <1>7, <2>3, InboundLocal DEF Local
  <2> QED  BY <2>2, <2>3
<1>8. ASSUME NEW q \in Peers, process_get(q)
      PROVE  Match(chunk'[p], missing'[p], downloads'[p])
  <2>1. CASE p = q
    <3>1. downloads' = downloads
      BY <1>8, Zenon DEF process_get, transferVars
    <3> QED  BY <1>5, <1>8, <2>1, <3>1, GetMissing
  <2>2. CASE p # q
    BY <1>6, <1>8, <2>2, GetLocal DEF Local
  <2> QED  BY <2>1, <2>2
<1>9. ASSUME NEW q \in Peers, handle_timeout(q)
      PROVE  Match(chunk'[p], missing'[p], downloads'[p])
  <2>1. CASE p # q
    BY <1>6, <1>9, <2>1, TimeoutLocal DEF Local
  <2>2. CASE p = q /\ missing[p] = << >>
    <3>1. downloads' = downloads /\ missing' = missing
      BY <1>9, <2>2, Zenon DEF handle_timeout, handle_client_timeout
    <3> QED  BY <1>6, <3>1
  <2>3. CASE p = q /\ missing[p] # << >>
    <3> DEFINE down == DownloadsAfterTimeout(p)
               avail == (available[p] \cup FreedByServer(p)) \cup DeadPeers(p)
    <3>1. /\ chunk' = [chunk EXCEPT ![p] = ForgetDeadPeers(p)] /\ missing' = missing
          /\ \E f \in get_chunk_data(ForgetDeadPeers(p), missing[p], down, avail) :
                StartDownloads(p, missing[p], down, avail, f)
      BY <1>9, <2>3, Zenon DEF handle_timeout, handle_client_timeout
    <3>2. chunk'[p] = ForgetDeadPeers(p)
      BY <3>1 DEF TypeOK
    <3>3. PICK f \in get_chunk_data(chunk'[p], missing[p], down, avail) :
                StartDownloads(p, missing[p], down, avail, f)
      BY <3>1, <3>2
    <3>4. down \in Seq(Download(DOMAIN chunk[p])) /\ Thinned(down, downloads[p], DeadPeers(p))
      BY DownloadsAfterTimeoutType, ThinnedDownloads
    <3> HIDE DEF down, avail
    <3>5. downloads'[p] = NewDownloads(missing[p], f) \o down
      BY <3>3 DEF StartDownloads, TypeOK
    <3>6. Match(chunk'[p], missing[p], down)
      BY <1>1, <1>2, <1>3, <3>4, MatchThinned
    <3>7. Match(chunk'[p], missing[p], NewDownloads(missing[p], f) \o down)
      BY <1>3, <3>3, <3>4, <3>6, MatchStart
    <3> QED  BY <3>1, <3>5, <3>7
  <2> QED  BY <2>1, <2>2, <2>3
<1>10. ASSUME \/ \E m : Lose(m) \/ Duplicate(m)
              \/ UNCHANGED vars
       PROVE  Match(chunk'[p], missing'[p], downloads'[p])
  <2>1. downloads' = downloads /\ missing' = missing
    BY <1>10, Zenon DEF Lose, Duplicate, vars, transferVars, chunkVars
  <2> QED  BY <1>6, <2>1
<1> QED  BY <1>7, <1>8, <1>9, <1>10, Zenon DEF Next, QuietTimeout, EarlyTimeout

\* There are no downloads at the start.
LEMMA MatchInit == Init => DownloadsMatchMissing
  BY DEF Init, DownloadsMatchMissing

\* get_chunk_data's check against the transfers in flight is enough, for every
\* number of peers and chunks and whatever is lost, late or denied: no hash is
\* downloaded twice at a time, and none that is no longer missing.
THEOREM DownloadsMatch == Spec => []DownloadsMatchMissing
  BY InitType, StepType, MatchInit, MatchStep, PTL DEF Spec

------------------------------------------------------------------------------
(* NamesFreedOnce *)

\* The files a peer announced, g, after n GETs: each was asked for, no two are
\* the same, and while chunks are missing the last GET is not among them.
FilesOnce(g, n, miss) ==
    /\ g \in Seq({g[i] : i \in DOMAIN g})
    /\ \A i \in DOMAIN g : g[i].file \in Nat /\ g[i].file <= n /\ (miss # << >> => g[i].file < n)
    /\ \A i, j \in DOMAIN g : g[i].file = g[j].file => i = j

AnnouncedOnce ==
    /\ got = [p \in Peers |-> got[p]]
    /\ \A p \in Peers : FilesOnce(got[p], request[p], missing[p])

\* Announcing the file of the last GET, when it is not announced yet.
LEMMA Announce ==
  ASSUME NEW n \in Nat, NEW g, NEW rec, rec.file = n,
         g \in Seq({g[i] : i \in DOMAIN g}),
         \A i \in DOMAIN g : g[i].file \in Nat /\ g[i].file < n,
         \A i, j \in DOMAIN g : g[i].file = g[j].file => i = j
  PROVE  FilesOnce(Append(g, rec), n, << >>)
<1> DEFINE R == {g[i] : i \in DOMAIN g}
           S == R \cup {rec}
           new == Append(g, rec)
<1>1. \A i \in DOMAIN g : g[i] \in S
  OBVIOUS
<1>2. g \in Seq(R) /\ rec \in S
  OBVIOUS
<1> HIDE DEF R, S
<1>3. g \in Seq(S)
  BY <1>1, <1>2, Retype
<1>4. /\ new \in Seq(S) /\ DOMAIN g = 1..Len(g) /\ Len(g) \in Nat /\ DOMAIN new = 1..(Len(g) + 1)
      /\ \A i \in 1..Len(g) : new[i] = g[i]
      /\ new[Len(g) + 1] = rec
  BY <1>2, <1>3, LenProperties, AppendProperties
<1> HIDE DEF new
<1>5. new \in Seq({new[i] : i \in DOMAIN new})
  <2>1. \A i \in DOMAIN new : new[i] \in {new[j] : j \in DOMAIN new}
    OBVIOUS
  <2> QED  BY <1>4, <2>1, Retype, Zenon
<1>6. \A i \in DOMAIN new : \/ i \in DOMAIN g /\ new[i] = g[i]
                            \/ i = Len(g) + 1 /\ new[i] = rec
  BY <1>4
<1>7. \A i \in DOMAIN new : new[i].file \in Nat /\ new[i].file <= n
  BY <1>6
<1>8. ASSUME NEW i \in DOMAIN new, NEW j \in DOMAIN new, new[i].file = new[j].file PROVE i = j
  <2>1. CASE i \in DOMAIN g /\ new[i] = g[i]
    <3>1. CASE j \in DOMAIN g /\ new[j] = g[j]  BY <1>8, <2>1, <3>1
    <3>2. CASE j = Len(g) + 1 /\ new[j] = rec   BY <1>8, <2>1, <3>2
    <3> QED  BY <1>6, <3>1, <3>2
  <2>2. CASE i = Len(g) + 1 /\ new[i] = rec
    <3>1. CASE j \in DOMAIN g /\ new[j] = g[j]  BY <1>8, <2>2, <3>1
    <3>2. CASE j = Len(g) + 1 /\ new[j] = rec   BY <2>2, <3>2
    <3> QED  BY <1>6, <3>1, <3>2
  <2> QED  BY <1>6, <2>1, <2>2
<1>9. FilesOnce(new, n, << >>)
  BY <1>5, <1>7, <1>8 DEF FilesOnce
<1> QED  BY <1>9 DEF new

\* check_all_received, when the n-th GET is not announced yet.
LEMMA AnnounceStep ==
  ASSUME AnnouncedOnce, NEW p \in Peers, NEW n \in Nat, NEW heap, NEW miss, NEW want,
         check_all_received(p, n, heap, miss, want),
         missing' = [missing EXCEPT ![p] = miss] \/ missing' = missing,
         missing'[p] = miss, p \in DOMAIN missing, Peers \subseteq DOMAIN missing,
         \A q \in Peers \ {p} : request'[q] = request[q],
         request'[p] = n,
         \A i \in DOMAIN got[p] : got[p][i].file < n
  PROVE  AnnouncedOnce'
<1>1. /\ got[p] \in Seq({got[p][i] : i \in DOMAIN got[p]})
      /\ \A i \in DOMAIN got[p] : got[p][i].file \in Nat
      /\ \A i, j \in DOMAIN got[p] : got[p][i].file = got[p][j].file => i = j
  BY Zenon DEF AnnouncedOnce, FilesOnce
<1>2. ASSUME NEW q \in Peers \ {p}, got'[q] = got[q] PROVE FilesOnce(got'[q], request'[q], missing'[q])
  <2>1. missing'[q] = missing[q] /\ request'[q] = request[q]
    OBVIOUS
  <2>2. FilesOnce(got[q], request[q], missing[q])
    BY Zenon DEF AnnouncedOnce
  <2> QED  BY <1>2, <2>1, <2>2, Zenon
<1>3. CASE miss = << >>
  <2> DEFINE rec == [file |-> n, data |-> construct_data(heap, want)]
  <2>1. got' = [got EXCEPT ![p] = Append(got[p], rec)]
    BY <1>3, Zenon DEF check_all_received
  <2>2. rec.file = n
    OBVIOUS
  <2> HIDE DEF rec
  <2>3. FilesOnce(Append(got[p], rec), n, << >>)
    BY <1>1, <2>2, Announce
  <2> DEFINE new == Append(got[p], rec)
  <2> HIDE DEF new
  <2>4. got' = [q \in Peers |-> got'[q]] /\ got'[p] = new /\ \A q \in Peers \ {p} : got'[q] = got[q]
    BY <2>1 DEF AnnouncedOnce, new
  <2>5. FilesOnce(got'[p], request'[p], missing'[p])
    BY <1>3, <2>3, <2>4 DEF new
  <2> QED  BY <1>2, <2>4, <2>5 DEF AnnouncedOnce
<1>4. CASE miss # << >>
  <2>1. got' = got
    BY <1>4, Zenon DEF check_all_received
  <2>2. FilesOnce(got'[p], request'[p], missing'[p])
    <3>1. \A i \in DOMAIN got[p] : got[p][i].file \in Nat /\ got[p][i].file <= n
      BY <1>1
    <3> QED  BY <1>1, <2>1, <3>1 DEF FilesOnce
  <2>3. \A q \in Peers \ {p} : FilesOnce(got'[q], request'[q], missing'[q])
    BY <1>2, <2>1
  <2>4. got' = [q \in Peers |-> got'[q]]
    BY <2>1 DEF AnnouncedOnce
  <2> QED  BY <2>2, <2>3, <2>4 DEF AnnouncedOnce
<1> QED  BY <1>3, <1>4

\* The n-th GET is read: none of the files announced before is the n-th.
LEMMA GetAnnounced ==
  ASSUME TypeOK, AnnouncedOnce, NEW p \in Peers, process_get(p)
  PROVE  AnnouncedOnce'
<1> DEFINE n == request[p] + 1
<1>1. PICK heap, miss, want :
        /\ missing' = [missing EXCEPT ![p] = miss]
        /\ check_all_received(p, n, heap, miss, want)
  BY Zenon DEF process_get
<1>2. request' = [request EXCEPT ![p] = n] /\ request \in [Peers -> Nat]
  BY Zenon DEF process_get, TypeOK
<1>3. n \in Nat /\ request'[p] = n /\ \A q \in Peers \ {p} : request'[q] = request[q]
  BY <1>2
<1>4. missing'[p] = miss /\ Peers \subseteq DOMAIN missing
  BY <1>1 DEF TypeOK
<1>5. \A i \in DOMAIN got[p] : got[p][i].file < n
  <2>1. \A i \in DOMAIN got[p] : got[p][i].file \in Nat /\ got[p][i].file <= request[p]
    BY Zenon DEF AnnouncedOnce, FilesOnce
  <2> QED  BY <1>2, <2>1
<1> HIDE DEF n
<1> QED  BY <1>1, <1>3, <1>4, <1>5, AnnounceStep

\* A chunk completes only while its hash is missing, so the last GET is not
\* announced yet.
LEMMA CompleteAnnounced ==
  ASSUME TypeOK, DownloadsMatchMissing, AnnouncedOnce, NEW m \in Packets, complete_DATA(m)
  PROVE  AnnouncedOnce'
<1> DEFINE p == m.dst
<1>1. PICK i \in node_find(DownloadsFrom(p, m.src)) : Completes(m, i)
  BY CompleteParts
<1>2. p \in Peers /\ i \in DOMAIN downloads[p]
  BY PacketFields, NodeFind DEF DownloadsFrom
<1>3. PICK j \in DOMAIN missing[p] : chunk[p][missing[p][j]].hash = chunk[p][downloads[p][i].c].hash
  BY <1>2, Zenon DEF DownloadsMatchMissing
<1>4. missing[p] # << >>
  BY <1>3
<1>5. \A k \in DOMAIN got[p] : got[p][k].file < request[p]
  BY <1>2, <1>4, Zenon DEF AnnouncedOnce, FilesOnce
<1>6. missing' = [missing EXCEPT ![p] = missing'[p]] \/ missing' = missing
  <2>1. missing' = missing \/ \E x : missing' = [missing EXCEPT ![p] = x]
    BY <1>1, Zenon DEF Completes
  <2>2. ASSUME NEW x, missing' = [missing EXCEPT ![p] = x]
        PROVE  missing' = [missing EXCEPT ![p] = missing'[p]]
    BY <1>2, <2>2 DEF TypeOK
  <2> QED  BY <2>1, <2>2
<1>7. check_all_received(p, request[p], FilledHeap(m, i), missing'[p], wanted[p])
  BY <1>1, Zenon DEF Completes
<1>8. request' = request /\ request[p] \in Nat /\ Peers \subseteq DOMAIN missing
  BY <1>2 DEF complete_DATA, TypeOK
<1> HIDE DEF p
<1> QED  BY <1>2, <1>5, <1>6, <1>7, <1>8, AnnounceStep

\* Every step announces a file at most once.
LEMMA AnnouncedStep ==
  TypeOK /\ DownloadsMatchMissing /\ AnnouncedOnce /\ [Next]_vars => AnnouncedOnce'
<1> SUFFICES ASSUME TypeOK, DownloadsMatchMissing, AnnouncedOnce, [Next]_vars PROVE AnnouncedOnce'
  OBVIOUS
<1>1. ASSUME missing' = missing, UNCHANGED userVars PROVE AnnouncedOnce'
  BY <1>1, ZenonT(30) DEF userVars, AnnouncedOnce, FilesOnce
<1>2. ASSUME NEW m \in BagToSet(net), process_inbound_udp(m) PROVE AnnouncedOnce'
  <2>1. m \in Packets
    BY DEF TypeOK
  <2>2. CASE complete_DATA(m)
    BY <2>1, <2>2, CompleteAnnounced
  <2>3. complete_DATA(m) \/ (missing' = missing /\ UNCHANGED userVars)
    BY <1>2, Zenon DEF process_inbound_udp, receive_WHOHAS, receive_GET, refuse_GET, ignore_GET,
       accept_GET, receive_ACK, stray_ACK, last_ACK, new_ACK, loss_ACK, old_ACK, Continue,
       receive_IHAVE, receive_DENIED, stray_DENIED, drop_DENIED,
       receive_DATA, stray_DATA, store_DATA, corrupt_DATA, chunkVars
  <2> QED  BY <1>1, <2>2, <2>3
<1>3. ASSUME NEW p \in Peers, process_get(p) PROVE AnnouncedOnce'
  BY <1>3, GetAnnounced
<1>4. ASSUME \/ \E m : Lose(m) \/ Duplicate(m)
             \/ \E p \in Peers : handle_timeout(p)
             \/ UNCHANGED vars
      PROVE  AnnouncedOnce'
  <2>1. missing' = missing /\ UNCHANGED userVars
    BY <1>4, Zenon DEF Lose, Duplicate, handle_timeout, vars, chunkVars
  <2> QED  BY <1>1, <2>1
<1> QED  BY <1>2, <1>3, <1>4, Zenon DEF Next, QuietTimeout, EarlyTimeout

\* Nothing is announced at the start.
LEMMA AnnouncedInit == Init => AnnouncedOnce
<1> SUFFICES ASSUME Init PROVE AnnouncedOnce
  OBVIOUS
<1>1. got = [p \in Peers |-> << >>]
  BY DEF Init
<1>2. \A S : << >> \in Seq(S)
  BY EmptySeq
<1>3. ASSUME NEW p \in Peers PROVE FilesOnce(got[p], request[p], missing[p])
  <2>1. got[p] = << >>
    BY <1>1
  <2>2. DOMAIN << >> = {}
    OBVIOUS
  <2> QED  BY <1>2, <2>1, <2>2, Zenon DEF FilesOnce
<1>4. got = [p \in Peers |-> got[p]]
  BY <1>1
<1> QED  BY <1>3, <1>4 DEF AnnouncedOnce

\* The names of a GET are freed once, however late chunks arrive: when the last
\* missing chunk has come no transfer is left whose chunk could complete.
THEOREM FreedOnce == Spec => []NamesFreedOnce
<1>1. AnnouncedOnce => NamesFreedOnce
  BY Zenon DEF AnnouncedOnce, FilesOnce, NamesFreedOnce
<1> QED
  BY <1>1, InitType, StepType, MatchInit, MatchStep, AnnouncedInit, AnnouncedStep, PTL DEF Spec
==============================================================================
