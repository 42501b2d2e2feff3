----------------------------- MODULE SwarmProofs -----------------------------
(***************************************************************************)
(* Type correctness of the swarm, its uploads and the integrity of its     *)
(* chunks, for every number of peers, chunks and faults.  Every step is    *)
(* the step of one peer; the lemmas take the handlers one by one, and      *)
(* Frame puts the peer's new state back among the others.                  *)
(***************************************************************************)
EXTENDS Swarm, ListsProofs

------------------------------------------------------------------------------
(* Control blocks: what receive_ACK and handle_server_timeout do to a      *)
(* transfer keeps its type and keeps the window sane.                      *)

\* create_transfer fills in a sane window.
LEMMA NewCtrl == NewCongestCtrl \in CongestCtrl /\ WindowOK(NewCongestCtrl)
  BY CongestionAssumption DEF NewCongestCtrl, CongestCtrl, WindowOK

\* The loop of send_DATA only moves index forward, inside the chunk.
LEMMA Sending ==
  ASSUME NEW k \in CongestCtrl
  PROVE  /\ AfterSend(k) \in CongestCtrl
         /\ SentByWindow(k) \subseteq SeqNums
         /\ k.begin <= k.index /\ k.begin < MAX_SEQ_NUM
              /\ (k.congest_state = "SS" => k.wind_size < 2 * k.ssthresh)
              => WindowOK(AfterSend(k))
<1>1. WindowEnd(k) \in 0..MAX_SEQ_NUM
  BY CongestionAssumption DEF WindowEnd, CongestCtrl
<1>2. SentByWindow(k) \subseteq SeqNums
  BY <1>1, CongestionAssumption DEF SentByWindow, SeqNums, CongestCtrl
<1> DEFINE j == [k EXCEPT !.dup_count = 0]
           last == IF WindowEnd(k) > k.index THEN WindowEnd(k) ELSE k.index
<1>3. j \in CongestCtrl /\ j.dup_count = 0 /\ j.begin = k.begin /\ j.index = k.index
        /\ j.congest_state = k.congest_state /\ j.wind_size = k.wind_size
        /\ j.ssthresh = k.ssthresh
  BY DEF CongestCtrl
<1>4. last \in 0..MAX_SEQ_NUM /\ k.index <= last
  BY <1>1, CongestionAssumption DEF CongestCtrl
<1>5. AfterSend(k) = [j EXCEPT !.index = last]
  BY DEF AfterSend
<1> HIDE DEF j, last
<1>6. AfterSend(k) \in CongestCtrl
  BY <1>3, <1>4, <1>5 DEF CongestCtrl
<1>7. ASSUME k.begin <= k.index, k.begin < MAX_SEQ_NUM,
             k.congest_state = "SS" => k.wind_size < 2 * k.ssthresh
      PROVE  WindowOK([j EXCEPT !.index = last])
  <2>1. k.begin <= last
    BY <1>4, <1>7, CongestionAssumption DEF CongestCtrl
  <2> QED  BY <2>1, <1>3, <1>7, CongestionAssumption DEF CongestCtrl, WindowOK
<1> QED  BY <1>2, <1>5, <1>6, <1>7

\* A loss leaves a window of at least one packet.
LEMMA Loss ==
  ASSUME NEW k \in CongestCtrl
  PROVE  /\ detected_first_loss(k) \in CongestCtrl
         /\ WindowOK(k) => WindowOK(detected_first_loss(k))
<1> DEFINE half == k.wind_size \div 2
           thresh == IF half < 2 THEN 2 ELSE half
           j == [k EXCEPT !.ssthresh = thresh]
           slow == [[j EXCEPT !.congest_state = "SS"] EXCEPT !.wind_size = 1]
           avoid == [j EXCEPT !.congest_state = "CA"]
<1>1. half \in Nat
  BY DEF CongestCtrl
<1> HIDE DEF half
<1>2. thresh \in Nat /\ 2 <= thresh
  BY <1>1
<1> HIDE DEF thresh
<1>3. j \in CongestCtrl /\ j.ssthresh = thresh /\ (WindowOK(k) =>
        j.begin <= j.index /\ j.begin < MAX_SEQ_NUM /\ j.dup_count < MAX_DUP_ACKS)
  BY <1>2 DEF CongestCtrl, WindowOK
<1>4. detected_first_loss(k) = IF k.congest_state = "SS" THEN avoid ELSE slow
  BY Zenon DEF detected_first_loss, half, thresh
<1> HIDE DEF j
<1>5. avoid \in CongestCtrl /\ (WindowOK(k) => WindowOK(avoid))
  BY <1>3 DEF CongestCtrl, WindowOK
<1>6. slow \in CongestCtrl /\ (WindowOK(k) => WindowOK(slow))
  <2> DEFINE i == [j EXCEPT !.congest_state = "SS"]
  <2>1. i \in CongestCtrl /\ i.ssthresh = thresh /\ (WindowOK(k) =>
          i.begin <= i.index /\ i.begin < MAX_SEQ_NUM /\ i.dup_count < MAX_DUP_ACKS)
    BY <1>3 DEF CongestCtrl
  <2> HIDE DEF i
  <2>2. [i EXCEPT !.wind_size = 1] \in CongestCtrl
    BY <2>1 DEF CongestCtrl
  <2>3. WindowOK(k) => WindowOK([i EXCEPT !.wind_size = 1])
    BY <1>2, <2>1 DEF CongestCtrl, WindowOK
  <2> QED  BY <2>2, <2>3 DEF i
<1> QED  BY <1>4, <1>5, <1>6

\* An ACK ahead of the window moves it.
LEMMA MoveWindow ==
  ASSUME NEW k \in CongestCtrl, NEW ack \in 0..MAX_SEQ_NUM
  PROVE  /\ adjust_window(k, ack) \in CongestCtrl
         /\ WindowOK(k) /\ ack # MAX_SEQ_NUM => WindowOK(adjust_window(k, ack))
<1> DEFINE j == [k EXCEPT !.begin = ack]
           last == IF ack > k.index THEN ack ELSE k.index
<1>1. j \in CongestCtrl /\ j.begin = ack /\ (WindowOK(k) =>
        j.dup_count < MAX_DUP_ACKS /\ (j.congest_state = "SS" => j.wind_size < 2 * j.ssthresh))
  BY DEF CongestCtrl, WindowOK
<1>2. last \in 0..MAX_SEQ_NUM /\ ack <= last
  BY CongestionAssumption DEF CongestCtrl
<1>3. adjust_window(k, ack) = [j EXCEPT !.index = last]
  BY DEF adjust_window
<1> HIDE DEF j, last
<1> QED  BY <1>1, <1>2, <1>3, CongestionAssumption DEF CongestCtrl, WindowOK

\* Growing the window in either state.
LEMMA Growth ==
  ASSUME NEW k \in CongestCtrl, NEW k2 \in congestion_control(k)
  PROVE  /\ k2 \in CongestCtrl
         /\ WindowOK(k) => WindowOK(k2)
<1>1. CASE k.congest_state = "SS"
  <2>1. k2 = slow_start(k)
    BY <1>1 DEF congestion_control
  <2> QED  BY <2>1, CongestionAssumption DEF slow_start, CongestCtrl, WindowOK
<1>2. CASE k.congest_state # "SS"
  <2>1. PICK r \in 0..MAX_RTTS : k2 = [k EXCEPT !.wind_size = @ + r]
    BY <1>2 DEF congestion_control, congestion_avoidance
  <2> QED  BY <1>2, <2>1, CongestionAssumption DEF CongestCtrl, WindowOK
<1> QED  BY <1>1, <1>2

\* One more timeout.
LEMMA CountTimeout ==
  ASSUME NEW k \in CongestCtrl
  PROVE  /\ [k EXCEPT !.timeout_count = @ + 1] \in CongestCtrl
         /\ WindowOK(k) => WindowOK([k EXCEPT !.timeout_count = @ + 1])
  BY DEF CongestCtrl, WindowOK

\* A sign of life.
LEMMA Alive ==
  ASSUME NEW k \in CongestCtrl
  PROVE  /\ [k EXCEPT !.timeout_count = 0] \in CongestCtrl
         /\ WindowOK(k) => WindowOK([k EXCEPT !.timeout_count = 0])
  BY DEF CongestCtrl, WindowOK

\* One more duplicate.
LEMMA CountDuplicate ==
  ASSUME NEW k \in CongestCtrl
  PROVE  /\ [k EXCEPT !.dup_count = @ + 1] \in CongestCtrl
         /\ WindowOK(k) /\ k.dup_count + 1 < MAX_DUP_ACKS
              => WindowOK([k EXCEPT !.dup_count = @ + 1])
  BY DEF CongestCtrl, WindowOK

------------------------------------------------------------------------------
(* The network. *)

\* Taking a datagram off the network adds none.
LEMMA BagMinus == \A B, C : BagToSet(B (-) C) \subseteq BagToSet(B)
  BY Zenon DEF BagToSet, (-)

\* What is in flight after sending.
LEMMA BagPlus == \A B, C : BagToSet(B (+) C) = BagToSet(B) \cup BagToSet(C)
  BY Zenon DEF BagToSet, (+)

\* The packets of a family of packets.
LEMMA BagOf == \A f : BagToSet(ToBag(f)) = {f[i] : i \in DOMAIN f}
  BY Zenon DEF BagToSet, ToBag, Range

\* Packets sent together with others.
LEMMA SentOK ==
  ASSUME NEW out, \A i \in DOMAIN out : out[i] \in Packets
  PROVE  BagToSet(ToBag(out)) \subseteq Packets
<1>1. BagToSet(ToBag(out)) = {out[i] : i \in DOMAIN out}
  BY BagOf, Zenon
<1>2. {out[i] : i \in DOMAIN out} \subseteq Packets
  OBVIOUS
<1> QED  BY <1>1, <1>2, Zenon

\* Packets added to well-formed packets.
LEMMA PlusOK ==
  ASSUME NEW B, NEW C, BagToSet(B) \subseteq Packets, BagToSet(C) \subseteq Packets
  PROVE  BagToSet(B (+) C) \subseteq Packets
<1>1. BagToSet(B (+) C) = BagToSet(B) \cup BagToSet(C)
  BY BagPlus, Zenon
<1> QED  BY <1>1, Zenon

\* A handler that sends only well-formed packets leaves the network well-formed.
LEMMA Delivered ==
  ASSUME NEW m, NEW out, BagToSet(net) \subseteq Packets, Deliver(m, out),
         \A i \in DOMAIN out : out[i] \in Packets
  PROVE  BagToSet(net') \subseteq Packets
<1>1. net' = (net (-) SetToBag({m})) (+) ToBag(out)
  BY DEF Deliver
<1>2. BagToSet(net (-) SetToBag({m})) \subseteq Packets
  BY BagMinus, Zenon
<1>3. BagToSet(ToBag(out)) \subseteq Packets
  BY SentOK, Zenon
<1> QED  BY <1>1, <1>2, <1>3, PlusOK, Zenon

\* Nothing to send, and one packet to send.
LEMMA Silent == \A i \in DOMAIN Nothing : Nothing[i] \in Packets
  BY DEF Nothing

\* A handler that sends one packet.
LEMMA Single == \A m \in Packets : \A i \in DOMAIN <<m>> : <<m>>[i] \in Packets
  OBVIOUS

------------------------------------------------------------------------------
(* Every step is the step of one peer p. *)

\* The peers that take no step keep their state, and its shape.
LEMMA Frame ==
  ASSUME TypeOK, NEW p \in Peers,
         chunk' = [chunk EXCEPT ![p] = chunk'[p]],
         have' = [have EXCEPT ![p] = have'[p]],
         missing' = [missing EXCEPT ![p] = missing'[p]],
         wanted' = [wanted EXCEPT ![p] = wanted'[p]],
         available' = [available EXCEPT ![p] = available'[p]],
         uploads' = [uploads EXCEPT ![p] = uploads'[p]],
         downloads' = [downloads EXCEPT ![p] = downloads'[p]],
         request' \in [Peers -> Nat],
         PeerOK(chunk'[p], have'[p], missing'[p], wanted'[p], available'[p], uploads'[p], downloads'[p]),
         BagToSet(net') \subseteq Packets,
         faults' \in 0..MAX_FAULTS
  PROVE  TypeOK'
<1>1. ASSUME NEW x, NEW y, NEW v, x = [q \in Peers |-> x[q]], y = [x EXCEPT ![p] = v]
      PROVE  y = [q \in Peers |-> y[q]] /\ \A q \in Peers \ {p} : y[q] = x[q]
  BY <1>1
<1>2. /\ chunk' = [q \in Peers |-> chunk'[q]] /\ \A q \in Peers \ {p} : chunk'[q] = chunk[q]
  BY <1>1, Zenon DEF TypeOK
<1>3. /\ have' = [q \in Peers |-> have'[q]] /\ \A q \in Peers \ {p} : have'[q] = have[q]
  BY <1>1, Zenon DEF TypeOK
<1>4. /\ missing' = [q \in Peers |-> missing'[q]] /\ \A q \in Peers \ {p} : missing'[q] = missing[q]
  BY <1>1, Zenon DEF TypeOK
<1>5. /\ wanted' = [q \in Peers |-> wanted'[q]] /\ \A q \in Peers \ {p} : wanted'[q] = wanted[q]
  BY <1>1, Zenon DEF TypeOK
<1>6. /\ available' = [q \in Peers |-> available'[q]]
      /\ \A q \in Peers \ {p} : available'[q] = available[q]
  BY <1>1, Zenon DEF TypeOK
<1>7. /\ uploads' = [q \in Peers |-> uploads'[q]] /\ \A q \in Peers \ {p} : uploads'[q] = uploads[q]
  BY <1>1, Zenon DEF TypeOK
<1>8. /\ downloads' = [q \in Peers |-> downloads'[q]]
      /\ \A q \in Peers \ {p} : downloads'[q] = downloads[q]
  BY <1>1, Zenon DEF TypeOK
<1>9. ASSUME NEW q \in Peers
      PROVE  PeerOK(chunk'[q], have'[q], missing'[q], wanted'[q], available'[q], uploads'[q], downloads'[q])
  <2>1. CASE q = p  BY <2>1, Zenon
  <2>2. CASE q # p
    <3>1. q \in Peers \ {p}
      BY <2>2
    <3>2. PeerOK(chunk[q], have[q], missing[q], wanted[q], available[q], uploads[q], downloads[q])
      BY Zenon DEF TypeOK
    <3> QED  BY <3>1, <3>2, <1>2, <1>3, <1>4, <1>5, <1>6, <1>7, <1>8, Zenon
  <2> QED  BY <2>1, <2>2
<1> QED  BY <1>2, <1>3, <1>4, <1>5, <1>6, <1>7, <1>8, <1>9, Zenon DEF TypeOK

\* A handler that only answers.
LEMMA Idle ==
  ASSUME TypeOK, UNCHANGED <<chunkVars, transferVars, request>>,
         BagToSet(net') \subseteq Packets, faults' \in 0..MAX_FAULTS
  PROVE  TypeOK'
<1> USE DEF chunkVars, transferVars
<1>1. \A p \in Peers : PeerOK(chunk[p], have[p], missing[p], wanted[p], available[p],
                               uploads[p], downloads[p])'
  BY Zenon DEF TypeOK
<1> QED  BY <1>1, Zenon DEF TypeOK

\* What a handler reads from a packet.
LEMMA PacketFields ==
  ASSUME NEW m \in Packets
  PROVE  /\ m.src \in Peers /\ m.dst \in Peers
         /\ m.type = "GET" => m.hash \in Hashes
         /\ m.type = "DATA" => m.seq \in SeqNums /\ m.data \in Blocks
         /\ m.type = "ACK" => m.ack \in 0..MAX_SEQ_NUM
  BY DEF Packets

\* The packets the handlers send.
LEMMA PacketTypes ==
  ASSUME NEW p \in Peers, NEW q \in Peers
  PROVE  /\ \A S \in SUBSET Hashes : WHOHAS(p, q, S) \in Packets /\ IHAVE(p, q, S) \in Packets
         /\ \A h \in Hashes : GET(p, q, h) \in Packets
         /\ \A s \in SeqNums, b \in Blocks : DATA(p, q, s, b) \in Packets
         /\ \A a \in 0..MAX_SEQ_NUM : ACK(p, q, a) \in Packets
         /\ DENIED(p, q) \in Packets
  BY DEF WHOHAS, IHAVE, GET, DATA, ACK, DENIED, Packets

------------------------------------------------------------------------------
(* The server. *)

\* receive_WHOHAS answers with a well-formed IHAVE.
LEMMA WhohasType ==
  ASSUME TypeOK, NEW m \in Packets, receive_WHOHAS(m)
  PROVE  TypeOK'
<1> DEFINE S == {h \in m.hashes : Owned(m.dst, h) # {}}
<1>1. S \in SUBSET Hashes
  BY DEF Packets, receive_WHOHAS
<1>2. IHAVE(m.dst, m.src, S) \in Packets
  BY <1>1, PacketFields, PacketTypes, Zenon
<1>3. BagToSet(net') \subseteq Packets
  BY <1>2, Single, Delivered, Zenon DEF receive_WHOHAS, TypeOK
<1> QED  BY <1>3, Idle, Zenon DEF receive_WHOHAS, userVars, TypeOK

\* A handler that changes uploads and answers.
LEMMA UploadStep ==
  ASSUME TypeOK, NEW p \in Peers, NEW up, NEW av,
         UNCHANGED <<chunkVars, downloads, request>>,
         uploads' = [uploads EXCEPT ![p] = up],
         up \in Seq(Upload(DOMAIN chunk[p])),
         available' = [available EXCEPT ![p] = av],
         av \subseteq Peers,
         BagToSet(net') \subseteq Packets, faults' \in 0..MAX_FAULTS
  PROVE  TypeOK'
<1> USE DEF chunkVars
<1>1. uploads'[p] = up /\ available'[p] = av
  BY DEF TypeOK
<1>2. PeerOK(chunk[p], have[p], missing[p], wanted[p], available[p], uploads[p], downloads[p])
  BY Zenon DEF TypeOK
<1>3. PeerOK(chunk'[p], have'[p], missing'[p], wanted'[p], available'[p], uploads'[p], downloads'[p])
  BY <1>1, <1>2, Zenon DEF PeerOK
<1>4. /\ chunk' = [chunk EXCEPT ![p] = chunk'[p]]
      /\ have' = [have EXCEPT ![p] = have'[p]]
      /\ missing' = [missing EXCEPT ![p] = missing'[p]]
      /\ wanted' = [wanted EXCEPT ![p] = wanted'[p]]
      /\ downloads' = [downloads EXCEPT ![p] = downloads'[p]]
  BY DEF TypeOK
<1>5. /\ available' = [available EXCEPT ![p] = available'[p]]
      /\ uploads' = [uploads EXCEPT ![p] = uploads'[p]]
  BY <1>1
<1>6. request' \in [Peers -> Nat]
  BY Zenon DEF TypeOK
<1> QED  BY <1>3, <1>4, <1>5, <1>6, Frame, Zenon

\* receive_GET, when it sends DENIED.
LEMMA RefuseType ==
  ASSUME TypeOK, NEW m \in Packets, refuse_GET(m)
  PROVE  TypeOK'
<1>1. DENIED(m.dst, m.src) \in Packets
  BY PacketFields, PacketTypes, Zenon
<1>2. BagToSet(net') \subseteq Packets
  BY <1>1, Single, Delivered, Zenon DEF refuse_GET, TypeOK
<1> QED  BY <1>2, Idle, Zenon DEF refuse_GET, userVars, TypeOK

\* The handlers that do nothing with a packet.
LEMMA DropType ==
  ASSUME TypeOK, NEW m \in Packets,
         ignore_GET(m) \/ stray_ACK(m) \/ stray_DENIED(m) \/ stray_DATA(m)
  PROVE  TypeOK'
<1>1. Deliver(m, Nothing) /\ UNCHANGED <<chunkVars, transferVars, userVars, faults>>
  BY Zenon DEF ignore_GET, stray_ACK, stray_DENIED, stray_DATA
<1>2. BagToSet(net') \subseteq Packets
  BY <1>1, Silent, Delivered, Zenon DEF TypeOK
<1> QED  BY <1>1, <1>2, Idle, Zenon DEF userVars, TypeOK

\* Where an upload points, and its control block.
LEMMA UploadAt ==
  ASSUME TypeOK, NEW p \in Peers, NEW i \in DOMAIN uploads[p]
  PROVE  /\ uploads[p] \in Seq(Upload(DOMAIN chunk[p]))
         /\ uploads[p][i] \in Upload(DOMAIN chunk[p])
         /\ uploads[p][i].peer \in Peers
         /\ uploads[p][i].c \in DOMAIN chunk[p]
         /\ uploads[p][i].cctrl \in CongestCtrl
<1>1. uploads[p] \in Seq(Upload(DOMAIN chunk[p]))
  BY Zenon DEF TypeOK, PeerOK
<1>2. uploads[p][i] \in Upload(DOMAIN chunk[p])
  BY <1>1, LenProperties
<1> QED  BY <1>1, <1>2 DEF Upload

\* The DATA packets cut from a chunk.
LEMMA DataPackets ==
  ASSUME TypeOK, NEW p \in Peers, NEW q \in Peers, NEW c \in DOMAIN chunk[p],
         NEW k \in CongestCtrl
  PROVE  \A s \in DOMAIN send_DATA(p, q, c, k) : send_DATA(p, q, c, k)[s] \in Packets
<1>1. chunk[p][c] \in Chunk
  BY Zenon DEF TypeOK, PeerOK, HeapOK
<1>2. \A s \in SeqNums : chunk[p][c].data[s] \in Blocks
  BY <1>1 DEF Chunk
<1>3. DOMAIN send_DATA(p, q, c, k) \subseteq SeqNums
  BY Sending DEF send_DATA
<1>4. \A s \in DOMAIN send_DATA(p, q, c, k) :
         send_DATA(p, q, c, k)[s] = DATA(p, q, s, chunk[p][c].data[s])
  BY DEF send_DATA
<1> QED  BY <1>2, <1>3, <1>4, PacketTypes, Zenon

\* receive_GET, when it opens a transfer: the new upload points at an owned chunk.
LEMMA AcceptType ==
  ASSUME TypeOK, NEW m \in Packets, accept_GET(m)
  PROVE  TypeOK'
<1> DEFINE p == m.dst
           q == m.src
           t(c) == [peer |-> q, c |-> c, cctrl |-> AfterSend(NewCongestCtrl)]
<1>1. PICK i \in node_find(Owned(p, m.hash)) :
         /\ uploads' = [uploads EXCEPT ![p] = node_insert(uploads[p], t(have[p][i]))]
         /\ Deliver(m, send_DATA(p, q, have[p][i], NewCongestCtrl))
  BY DEF accept_GET
<1>2. available' = [available EXCEPT ![p] = available[p] \ {q}]
  BY DEF accept_GET
<1>3. UNCHANGED <<chunkVars, downloads, userVars, faults>>
  BY Zenon DEF accept_GET
<1>4. p \in Peers /\ q \in Peers
  BY PacketFields
<1> HIDE DEF p, q
<1>5. have[p][i] \in DOMAIN chunk[p]
  <2>1. i \in DOMAIN have[p]
    BY <1>1, NodeFind DEF Owned
  <2>2. have[p] \in Seq(DOMAIN chunk[p])
    BY <1>4, Zenon DEF TypeOK, PeerOK
  <2> QED  BY <2>1, <2>2, LenProperties
<1>6. AfterSend(NewCongestCtrl) \in CongestCtrl
  BY NewCtrl, Sending
<1>7. t(have[p][i]) \in Upload(DOMAIN chunk[p])
  BY <1>4, <1>5, <1>6 DEF Upload
<1>8. uploads[p] \in Seq(Upload(DOMAIN chunk[p])) /\ available[p] \subseteq Peers
  BY <1>4, Zenon DEF TypeOK, PeerOK
<1> HIDE DEF t
<1>9. node_insert(uploads[p], t(have[p][i])) \in Seq(Upload(DOMAIN chunk[p]))
  BY <1>7, <1>8, NodeInsert, Zenon
<1>10. BagToSet(net') \subseteq Packets
  BY <1>1, <1>4, <1>5, NewCtrl, DataPackets, Delivered, Zenon DEF TypeOK
<1>11. available[p] \ {q} \subseteq Peers
  BY <1>8
<1>12. request' = request /\ faults' \in 0..MAX_FAULTS
  BY <1>3 DEF userVars, TypeOK
<1> QED  BY <1>1, <1>2, <1>3, <1>4, <1>9, <1>10, <1>11, <1>12, UploadStep, Zenon

\* The first transfer to a peer is one of the transfers.
LEMMA FoundUpload ==
  ASSUME NEW p, NEW q, NEW i \in node_find(UploadsTo(p, q))
  PROVE  i \in DOMAIN uploads[p]
  BY NodeFind DEF UploadsTo

\* receive_ACK, when it ends a transfer.
LEMMA LastAckType ==
  ASSUME TypeOK, NEW m \in Packets, last_ACK(m)
  PROVE  TypeOK'
<1>1. PICK i \in node_find(UploadsTo(m.dst, m.src)) :
         uploads' = [uploads EXCEPT ![m.dst] = node_delete(uploads[m.dst], i)]
  BY DEF last_ACK
<1>2. m.dst \in Peers /\ m.src \in Peers
  BY PacketFields
<1>3. node_delete(uploads[m.dst], i) \in Seq(Upload(DOMAIN chunk[m.dst]))
  BY <1>1, <1>2, FoundUpload, UploadAt, NodeDelete, Zenon
<1>4. available' = [available EXCEPT ![m.dst] = available[m.dst] \cup {m.src}]
  BY DEF last_ACK
<1>5. available[m.dst] \cup {m.src} \subseteq Peers
  <2>1. available[m.dst] \subseteq Peers
    BY <1>2, Zenon DEF TypeOK, PeerOK
  <2> QED  BY <1>2, <2>1
<1>6. BagToSet(net') \subseteq Packets
  BY Silent, Delivered, Zenon DEF last_ACK, TypeOK
<1>7. UNCHANGED <<chunkVars, downloads, request, faults>>
  BY Zenon DEF last_ACK, userVars
<1>8. faults' \in 0..MAX_FAULTS
  BY <1>7 DEF TypeOK
<1> QED  BY <1>1, <1>2, <1>3, <1>4, <1>5, <1>6, <1>7, <1>8, UploadStep, Zenon

\* Replacing the control block of an upload.
LEMMA ReplaceCtrl ==
  ASSUME TypeOK, NEW p \in Peers, NEW i \in DOMAIN uploads[p], NEW k \in CongestCtrl
  PROVE  [uploads[p] EXCEPT ![i].cctrl = k] \in Seq(Upload(DOMAIN chunk[p]))
<1> DEFINE D == Upload(DOMAIN chunk[p])
           t == [uploads[p][i] EXCEPT !.cctrl = k]
<1>1. uploads[p] \in Seq(D) /\ uploads[p][i] \in D
  BY UploadAt
<1>2. t \in D
  BY <1>1 DEF Upload
<1> HIDE DEF t, D
<1>3. [uploads[p] EXCEPT ![i] = t] \in Seq(D)
  BY <1>1, <1>2, ExceptSeq
<1> QED  BY <1>3 DEF t, D

\* receive_ACK, when it sends what a new control block allows.
LEMMA ContinueType ==
  ASSUME TypeOK, NEW m \in Packets, NEW k \in CongestCtrl,
         NEW i \in DOMAIN uploads[m.dst], Continue(m, i, k)
  PROVE  TypeOK'
<1> DEFINE k2 == [AfterSend(k) EXCEPT !.timeout_count = 0]
           up == [uploads[m.dst] EXCEPT ![i].cctrl = k2]
<1>1. m.dst \in Peers /\ m.src \in Peers
  BY PacketFields
<1>2. k2 \in CongestCtrl
  BY Sending, Alive
<1>3. uploads' = [uploads EXCEPT ![m.dst] = up]
  BY DEF Continue
<1> HIDE DEF k2
<1>4. up \in Seq(Upload(DOMAIN chunk[m.dst]))
  BY <1>1, <1>2, ReplaceCtrl
<1>5. Deliver(m, send_DATA(m.dst, m.src, uploads[m.dst][i].c, k))
  BY DEF Continue
<1>6. BagToSet(net') \subseteq Packets
  BY <1>1, <1>5, UploadAt, DataPackets, Delivered, Zenon DEF TypeOK
<1>7. UNCHANGED <<chunkVars, available, downloads, request, faults>>
  BY Zenon DEF Continue, userVars
<1>8. available' = [available EXCEPT ![m.dst] = available[m.dst]]
  BY <1>7 DEF TypeOK
<1>9. available[m.dst] \subseteq Peers /\ faults' \in 0..MAX_FAULTS
  BY <1>1, <1>7, Zenon DEF TypeOK, PeerOK
<1> HIDE DEF up
<1> QED  BY <1>1, <1>3, <1>4, <1>6, <1>7, <1>8, <1>9, UploadStep, Zenon

\* receive_ACK of a new ACK.
LEMMA NewAckType ==
  ASSUME TypeOK, NEW m \in Packets, new_ACK(m)
  PROVE  TypeOK'
<1>1. m.dst \in Peers /\ m.ack \in 0..MAX_SEQ_NUM
  BY PacketFields DEF new_ACK
<1>2. PICK i \in node_find(UploadsTo(m.dst, m.src)) :
         \E k2 \in congestion_control(adjust_window(uploads[m.dst][i].cctrl, m.ack)) : Continue(m, i, k2)
  BY Zenon DEF new_ACK
<1>3. PICK k2 \in congestion_control(adjust_window(uploads[m.dst][i].cctrl, m.ack)) : Continue(m, i, k2)
  BY <1>2
<1>4. i \in DOMAIN uploads[m.dst]
  BY FoundUpload, Zenon
<1>5. k2 \in CongestCtrl
  BY <1>1, <1>3, <1>4, UploadAt, MoveWindow, Growth, Zenon
<1> QED  BY <1>3, <1>4, <1>5, ContinueType, Zenon

\* receive_ACK of the duplicate that counts as a loss.
LEMMA LossAckType ==
  ASSUME TypeOK, NEW m \in Packets, loss_ACK(m)
  PROVE  TypeOK'
<1>1. m.dst \in Peers
  BY PacketFields
<1>2. PICK i \in node_find(UploadsTo(m.dst, m.src)) :
         Continue(m, i, detected_first_loss([uploads[m.dst][i].cctrl EXCEPT
                                               !.index = uploads[m.dst][i].cctrl.begin]))
  BY Zenon DEF loss_ACK
<1>3. i \in DOMAIN uploads[m.dst]
  BY FoundUpload, Zenon
<1>4. uploads[m.dst][i].cctrl \in CongestCtrl
  BY <1>1, <1>3, UploadAt
<1>5. [uploads[m.dst][i].cctrl EXCEPT !.index = uploads[m.dst][i].cctrl.begin] \in CongestCtrl
  BY <1>4 DEF CongestCtrl
<1> QED  BY <1>2, <1>3, <1>5, Loss, ContinueType, Zenon

\* receive_ACK of any other duplicate.
LEMMA OldAckType ==
  ASSUME TypeOK, NEW m \in Packets, old_ACK(m)
  PROVE  TypeOK'
<1>1. m.dst \in Peers
  BY PacketFields
<1>2. PICK i \in node_find(UploadsTo(m.dst, m.src)) :
         uploads' = [uploads EXCEPT ![m.dst][i].cctrl =
                        [uploads[m.dst][i].cctrl EXCEPT
                           !.dup_count = IF m.ack = uploads[m.dst][i].cctrl.begin THEN @ + 1 ELSE @,
                           !.timeout_count = 0]]
  BY Zenon DEF old_ACK
<1>3. i \in DOMAIN uploads[m.dst]
  BY FoundUpload, Zenon
<1> DEFINE k == uploads[m.dst][i].cctrl
           j == [k EXCEPT !.dup_count = IF m.ack = k.begin THEN k.dup_count + 1 ELSE k.dup_count]
           k2 == [j EXCEPT !.timeout_count = 0]
           up == [uploads[m.dst] EXCEPT ![i].cctrl = k2]
<1>4. k2 \in CongestCtrl
  <2>1. k \in CongestCtrl
    BY <1>1, <1>3, UploadAt
  <2> HIDE DEF k
  <2>2. j \in CongestCtrl
    BY <2>1 DEF CongestCtrl
  <2> HIDE DEF j
  <2> QED  BY <2>2, Alive
<1>5. uploads' = [uploads EXCEPT ![m.dst] = up]
  BY <1>2, Zenon
<1> HIDE DEF k2
<1>6. up \in Seq(Upload(DOMAIN chunk[m.dst]))
  BY <1>1, <1>3, <1>4, ReplaceCtrl
<1>7. BagToSet(net') \subseteq Packets
  BY Silent, Delivered, Zenon DEF old_ACK, TypeOK
<1>8. UNCHANGED <<chunkVars, available, downloads, request, faults>>
  BY Zenon DEF old_ACK, userVars
<1>9. available' = [available EXCEPT ![m.dst] = available[m.dst]]
  BY <1>8 DEF TypeOK
<1>10. available[m.dst] \subseteq Peers /\ faults' \in 0..MAX_FAULTS
  BY <1>1, <1>8, Zenon DEF TypeOK, PeerOK
<1> HIDE DEF up
<1> QED  BY <1>1, <1>5, <1>6, <1>7, <1>8, <1>9, <1>10, UploadStep, Zenon

------------------------------------------------------------------------------
(* The client. *)

\* What get_chunk_data can decide.
LEMMA Decision ==
  ASSUME NEW heap, NEW miss, NEW down, NEW avail, NEW f \in get_chunk_data(heap, miss, down, avail)
  PROVE  f \in [DOMAIN miss -> Peers \cup {NoPeer}]
  BY DEF get_chunk_data

\* The transfers that get_chunk_data opens point at missing chunks.
LEMMA NewDownloadsType ==
  ASSUME NEW D, NEW miss \in Seq(D), NEW f \in [DOMAIN miss -> Peers \cup {NoPeer}]
  PROVE  NewDownloads(miss, f) \in Seq(Download(D))
<1> DEFINE t(i) == [peer |-> f[i], c |-> miss[i], timeout_count |-> 0]
           list == [i \in DOMAIN miss |-> t(i)]
           T == [peer : Peers \cup {NoPeer}, c : D, timeout_count : Nat]
<1>1. \A i \in DOMAIN miss : miss[i] \in D
  BY LenProperties
<1>2. \A i \in DOMAIN miss : t(i) \in T
  BY <1>1
<1>3. list \in Seq(T)
  <2>1. list \in [DOMAIN miss -> T]
    BY <1>2
  <2> HIDE DEF list, T
  <2> QED  BY <2>1, FunctionSeq
<1>4. Chosen(f) \in SUBSET (DOMAIN miss)
  BY DEF Chosen
<1>5. \A i \in Chosen(f) : list[i] \in Download(D)
  BY <1>1, <1>4 DEF Download, Chosen
<1>6. node_keep(list, Chosen(f)) \in Seq(Download(D))
  <2>1. Chosen(f) \in SUBSET (DOMAIN list)
    BY <1>4
  <2> HIDE DEF list, T
  <2> QED  BY <2>1, <1>3, <1>5, NodeKept, Zenon
<1> QED  BY <1>6, ReverseList, Zenon DEF NewDownloads

\* The GETs that get_chunk_data sends.
LEMMA GetPackets ==
  ASSUME NEW p \in Peers, NEW heap, HeapOK(heap), NEW miss \in Seq(DOMAIN heap),
         NEW f \in [DOMAIN miss -> Peers \cup {NoPeer}]
  PROVE  \A i \in DOMAIN send_GETs(p, heap, miss, f) : send_GETs(p, heap, miss, f)[i] \in Packets
<1>1. SUFFICES ASSUME NEW i \in Chosen(f)
               PROVE  GET(p, f[i], heap[miss[i]].hash) \in Packets
  BY Zenon DEF send_GETs
<1>2. i \in DOMAIN miss /\ f[i] \in Peers
  BY DEF Chosen
<1>3. miss[i] \in DOMAIN heap
  BY <1>2, LenProperties
<1>4. heap[miss[i]] \in Chunk
  BY <1>3, Zenon DEF HeapOK
<1>5. heap[miss[i]].hash \in Hashes
  BY <1>4 DEF Chunk
<1> QED  BY <1>2, <1>5, PacketTypes, Zenon

\* What init_data_transfer leaves, for a heap with the pointers D.
LEMMA StartType ==
  ASSUME TypeOK, NEW p \in Peers, NEW D, NEW miss \in Seq(D), NEW down \in Seq(Download(D)),
         NEW avail \in SUBSET Peers, NEW f \in [DOMAIN miss -> Peers \cup {NoPeer}],
         StartDownloads(p, miss, down, avail, f)
  PROVE  /\ downloads'[p] \in Seq(Download(D))
         /\ available'[p] \subseteq Peers
         /\ downloads' = [downloads EXCEPT ![p] = downloads'[p]]
         /\ available' = [available EXCEPT ![p] = available'[p]]
<1>1. NewDownloads(miss, f) \in Seq(Download(D))
  BY NewDownloadsType
<1>2. NewDownloads(miss, f) \o down \in Seq(Download(D))
  BY <1>1, ConcatProperties, Zenon
<1>3. downloads' = [downloads EXCEPT ![p] = NewDownloads(miss, f) \o down]
  BY Zenon DEF StartDownloads
<1>4. available' = [available EXCEPT ![p] = avail \ {f[i] : i \in DOMAIN f}]
  BY Zenon DEF StartDownloads
<1>5. downloads'[p] = NewDownloads(miss, f) \o down
  BY <1>3 DEF TypeOK
<1>6. available'[p] = avail \ {f[i] : i \in DOMAIN f}
  BY <1>4 DEF TypeOK
<1> QED  BY <1>2, <1>3, <1>4, <1>5, <1>6

\* receive_IHAVE: chunks gain an owner and transfers start.
LEMMA IhaveType ==
  ASSUME TypeOK, NEW m \in Packets, receive_IHAVE(m)
  PROVE  TypeOK'
<1> DEFINE p == m.dst
           q == m.src
           claimed == {r \in ToSet(missing[p]) : chunk[p][r].hash \in m.hashes}
           c(r) == IF r \in claimed /\ ~peer_exist_in_list(chunk[p][r].peer, q)
                     THEN [chunk[p][r] EXCEPT !.peer = node_insert(chunk[p][r].peer, q)]
                     ELSE chunk[p][r]
           heap == [r \in DOMAIN chunk[p] |-> c(r)]
<1>1. PICK f \in get_chunk_data(heap, missing[p], downloads[p], available[p]) :
              /\ StartDownloads(p, missing[p], downloads[p], available[p], f)
              /\ Deliver(m, send_GETs(p, heap, missing[p], f))
  BY DEF receive_IHAVE
<1>2. chunk' = [chunk EXCEPT ![p] = heap]
  BY Zenon DEF receive_IHAVE
<1>3. UNCHANGED <<have, missing, wanted, uploads, userVars, faults>>
  BY Zenon DEF receive_IHAVE
<1>4. p \in Peers /\ q \in Peers
  BY PacketFields
<1> HIDE DEF p, q
<1>5. PeerOK(chunk[p], have[p], missing[p], wanted[p], available[p], uploads[p], downloads[p])
  BY <1>4, Zenon DEF TypeOK
<1>6. ASSUME NEW r \in DOMAIN chunk[p] PROVE c(r) \in Chunk
  <2>1. chunk[p][r] \in Chunk
    BY <1>5, Zenon DEF PeerOK, HeapOK
  <2>2. chunk[p][r].peer \in Seq(Peers)
    BY <2>1 DEF Chunk
  <2>3. node_insert(chunk[p][r].peer, q) \in Seq(Peers)
    BY <1>4, <2>2, NodeInsert, Zenon
  <2>4. [chunk[p][r] EXCEPT !.peer = node_insert(chunk[p][r].peer, q)] \in Chunk
    BY <2>1, <2>3 DEF Chunk
  <2> QED  BY <2>1, <2>4
<1> HIDE DEF c
<1>7. HeapOK(heap) /\ DOMAIN heap = DOMAIN chunk[p]
  <2>1. DOMAIN chunk[p] \subseteq Pointers
    BY <1>5, Zenon DEF PeerOK, HeapOK
  <2> QED  BY <1>6, <2>1 DEF HeapOK
<1> HIDE DEF heap
<1>8. f \in [DOMAIN missing[p] -> Peers \cup {NoPeer}]
  BY <1>1, Decision, Zenon
<1>9. /\ downloads'[p] \in Seq(Download(DOMAIN heap))
      /\ available'[p] \subseteq Peers
      /\ downloads' = [downloads EXCEPT ![p] = downloads'[p]]
      /\ available' = [available EXCEPT ![p] = available'[p]]
  <2>1. /\ missing[p] \in Seq(DOMAIN heap)
        /\ downloads[p] \in Seq(Download(DOMAIN heap))
        /\ available[p] \in SUBSET Peers
    BY <1>5, <1>7 DEF PeerOK
  <2> QED  BY <1>1, <1>4, <1>8, <2>1, StartType, Zenon
<1>10. BagToSet(net') \subseteq Packets
  <2>1. missing[p] \in Seq(DOMAIN heap)
    BY <1>5, <1>7 DEF PeerOK
  <2> QED  BY <1>1, <1>4, <1>7, <1>8, <2>1, GetPackets, Delivered, Zenon DEF TypeOK
<1>11. chunk'[p] = heap
  BY <1>2, <1>4 DEF TypeOK
<1>12. PeerOK(chunk'[p], have'[p], missing'[p], wanted'[p], available'[p], uploads'[p], downloads'[p])
  BY <1>3, <1>5, <1>7, <1>9, <1>11 DEF PeerOK
<1>13. /\ chunk' = [chunk EXCEPT ![p] = chunk'[p]]
       /\ have' = [have EXCEPT ![p] = have'[p]]
       /\ missing' = [missing EXCEPT ![p] = missing'[p]]
       /\ wanted' = [wanted EXCEPT ![p] = wanted'[p]]
       /\ uploads' = [uploads EXCEPT ![p] = uploads'[p]]
  BY <1>2, <1>3, <1>11 DEF TypeOK
<1>14. request' \in [Peers -> Nat] /\ faults' \in 0..MAX_FAULTS
  BY <1>3 DEF userVars, TypeOK
<1> QED  BY <1>4, <1>9, <1>10, <1>12, <1>13, <1>14, Frame, Zenon

\* Where a download points.
LEMMA DownloadAt ==
  ASSUME TypeOK, NEW p \in Peers, NEW q, NEW i \in node_find(DownloadsFrom(p, q))
  PROVE  /\ i \in DOMAIN downloads[p]
         /\ downloads[p] \in Seq(Download(DOMAIN chunk[p]))
         /\ downloads[p][i].c \in DOMAIN chunk[p]
         /\ chunk[p][downloads[p][i].c] \in Chunk
<1>1. i \in DOMAIN downloads[p]
  BY NodeFind DEF DownloadsFrom
<1>2. PeerOK(chunk[p], have[p], missing[p], wanted[p], available[p], uploads[p], downloads[p])
  BY Zenon DEF TypeOK
<1>3. downloads[p] \in Seq(Download(DOMAIN chunk[p]))
  BY <1>2, Zenon DEF PeerOK
<1>4. downloads[p][i] \in Download(DOMAIN chunk[p])
  BY <1>1, <1>3, LenProperties
<1>5. downloads[p][i].c \in DOMAIN chunk[p]
  BY <1>4 DEF Download
<1>6. chunk[p][downloads[p][i].c] \in Chunk
  BY <1>2, <1>5, Zenon DEF PeerOK, HeapOK
<1> QED  BY <1>1, <1>3, <1>5, <1>6

\* receive_DENIED, when it ends a transfer.
LEMMA DropDeniedType ==
  ASSUME TypeOK, NEW m \in Packets, drop_DENIED(m)
  PROVE  TypeOK'
<1> DEFINE p == m.dst
<1>1. PICK i \in node_find(DownloadsFrom(p, m.src)) :
         downloads' = [downloads EXCEPT ![p] = node_delete(downloads[p], i)]
  BY DEF drop_DENIED
<1>2. available' = [available EXCEPT ![p] = available[p] \cup {m.src}]
  BY DEF drop_DENIED
<1>3. UNCHANGED <<chunkVars, uploads, request, faults>>
  BY Zenon DEF drop_DENIED, userVars
<1>4. BagToSet(net') \subseteq Packets
  BY Silent, Delivered, Zenon DEF drop_DENIED, TypeOK
<1>5. p \in Peers /\ m.src \in Peers
  BY PacketFields
<1> HIDE DEF p
<1>6. PeerOK(chunk[p], have[p], missing[p], wanted[p], available[p], uploads[p], downloads[p])
  BY <1>5, Zenon DEF TypeOK
<1>7. node_delete(downloads[p], i) \in Seq(Download(DOMAIN chunk[p]))
  BY <1>1, <1>5, DownloadAt, NodeDelete, Zenon
<1>8. downloads'[p] = node_delete(downloads[p], i) /\ available'[p] = available[p] \cup {m.src}
  BY <1>1, <1>2, <1>5 DEF TypeOK
<1>9. available'[p] \subseteq Peers
  BY <1>5, <1>6, <1>8 DEF PeerOK
<1>10. PeerOK(chunk'[p], have'[p], missing'[p], wanted'[p], available'[p], uploads'[p], downloads'[p])
  BY <1>3, <1>6, <1>7, <1>8, <1>9, Zenon DEF PeerOK, chunkVars
<1>11. /\ chunk' = [chunk EXCEPT ![p] = chunk'[p]]
       /\ have' = [have EXCEPT ![p] = have'[p]]
       /\ missing' = [missing EXCEPT ![p] = missing'[p]]
       /\ wanted' = [wanted EXCEPT ![p] = wanted'[p]]
       /\ uploads' = [uploads EXCEPT ![p] = uploads'[p]]
  BY <1>3 DEF TypeOK, chunkVars
<1>12. /\ downloads' = [downloads EXCEPT ![p] = downloads'[p]]
       /\ available' = [available EXCEPT ![p] = available'[p]]
  BY <1>1, <1>2, <1>8
<1>13. request' \in [Peers -> Nat] /\ faults' \in 0..MAX_FAULTS
  BY <1>3 DEF TypeOK
<1> QED  BY <1>4, <1>5, <1>10, <1>11, <1>12, <1>13, Frame, Zenon

\* The data of a chunk after a packet is stored.
LEMMA StoreType ==
  ASSUME NEW data \in [SeqNums -> Blocks], NEW s \in SeqNums, NEW b \in Blocks
  PROVE  data_store(data, s, b) \in [SeqNums -> Blocks]
  BY DEF data_store

\* Some number is the last one received without a gap.
LEMMA ConsecType ==
  ASSUME NEW data \in [SeqNums -> Blocks]
  PROVE  /\ data_find_largest_consec_seq(data) \in 0..MAX_SEQ_NUM
         /\ \A s \in 1..data_find_largest_consec_seq(data) : data[s] # Unset
<1> DEFINE P(n) == /\ \A s \in 1..n : data[s] # Unset
                   /\ n < MAX_SEQ_NUM => data[n + 1] = Unset
           U == {s \in SeqNums : data[s] = Unset}
<1>1. \E n \in 0..MAX_SEQ_NUM : P(n)
  <2>1. CASE U = {}
    <3>1. P(MAX_SEQ_NUM)
      BY <2>1, CongestionAssumption DEF SeqNums
    <3> QED  BY <3>1, CongestionAssumption
  <2>2. CASE U # {}
    <3>1. U \in SUBSET Nat
      BY DEF SeqNums
    <3>2. PICK x \in U : \A y \in U : x <= y
      BY <2>2, <3>1, LeastNat, Zenon
    <3>3. x \in 1..MAX_SEQ_NUM /\ data[x] = Unset
      BY DEF SeqNums
    <3>4. ASSUME NEW s \in 1..(x - 1) PROVE data[s] # Unset
      BY <3>2, <3>3, CongestionAssumption DEF SeqNums
    <3>5. P(x - 1) /\ x - 1 \in 0..MAX_SEQ_NUM
      BY <3>3, <3>4, CongestionAssumption
    <3> QED  BY <3>5
  <2> QED  BY <2>1, <2>2
<1>2. data_find_largest_consec_seq(data) = CHOOSE n \in 0..MAX_SEQ_NUM : P(n)
  BY DEF data_find_largest_consec_seq
<1>3. data_find_largest_consec_seq(data) \in 0..MAX_SEQ_NUM /\ P(data_find_largest_consec_seq(data))
  <2> HIDE DEF P
  <2> QED  BY <1>1, <1>2, Zenon
<1> HIDE DEF data_find_largest_consec_seq
<1> QED  BY <1>3

\* A DATA packet that has a transfer: what is stored, and the ACK for it.
LEMMA StoredType ==
  ASSUME TypeOK, NEW m \in Packets, m.type = "DATA",
         NEW i \in node_find(DownloadsFrom(m.dst, m.src))
  PROVE  /\ Stored(m, i) \in [SeqNums -> Blocks]
         /\ AckFor(m, i) \in Packets
<1>1. m.dst \in Peers /\ m.src \in Peers /\ m.seq \in SeqNums /\ m.data \in Blocks
  BY PacketFields
<1>2. chunk[m.dst][downloads[m.dst][i].c].data \in [SeqNums -> Blocks]
  BY <1>1, DownloadAt DEF Chunk
<1>3. Stored(m, i) \in [SeqNums -> Blocks]
  BY <1>1, <1>2, StoreType, Zenon DEF Stored
<1>4. AckFor(m, i) \in Packets
  BY <1>1, <1>3, ConsecType, PacketTypes, Zenon DEF AckFor
<1> QED  BY <1>3, <1>4

\* A heap in which the data of one chunk is replaced.
LEMMA NewData ==
  ASSUME NEW heap, HeapOK(heap), NEW c \in DOMAIN heap, NEW d \in [SeqNums -> Blocks]
  PROVE  /\ HeapOK([heap EXCEPT ![c].data = d])
         /\ DOMAIN [heap EXCEPT ![c].data = d] = DOMAIN heap
<1> DEFINE new == [heap[c] EXCEPT !.data = d]
<1>1. heap[c] \in Chunk
  BY Zenon DEF HeapOK
<1>2. new \in Chunk
  BY <1>1 DEF Chunk
<1> HIDE DEF new
<1>3. HeapOK([heap EXCEPT ![c] = new]) /\ DOMAIN [heap EXCEPT ![c] = new] = DOMAIN heap
  BY <1>2 DEF HeapOK
<1> QED  BY <1>3, Zenon DEF new

\* receive_DATA, while the chunk is not complete.
LEMMA StoreDataType ==
  ASSUME TypeOK, NEW m \in Packets, store_DATA(m)
  PROVE  TypeOK'
<1> DEFINE p == m.dst
<1>1. PICK i \in node_find(DownloadsFrom(p, m.src)) :
          /\ chunk' = [chunk EXCEPT ![p][downloads[p][i].c].data = Stored(m, i)]
          /\ Deliver(m, <<AckFor(m, i)>>)
  BY Zenon DEF store_DATA
<1>2. UNCHANGED <<have, missing, wanted, transferVars, userVars, faults>> /\ m.type = "DATA"
  BY Zenon DEF store_DATA
<1>3. p \in Peers
  BY PacketFields
<1>4. Stored(m, i) \in [SeqNums -> Blocks] /\ AckFor(m, i) \in Packets
  BY <1>1, <1>2, StoredType
<1> DEFINE heap == [chunk[p] EXCEPT ![downloads[p][i].c].data = Stored(m, i)]
<1>5. chunk' = [chunk EXCEPT ![p] = heap]
  BY <1>1, Zenon
<1> HIDE DEF p
<1>6. PeerOK(chunk[p], have[p], missing[p], wanted[p], available[p], uploads[p], downloads[p])
  BY <1>3, Zenon DEF TypeOK
<1>7. HeapOK(heap) /\ DOMAIN heap = DOMAIN chunk[p]
  BY <1>1, <1>3, <1>4, <1>6, DownloadAt, NewData, Zenon DEF PeerOK
<1> HIDE DEF heap
<1>8. chunk'[p] = heap
  BY <1>3, <1>5 DEF TypeOK
<1>9. PeerOK(chunk'[p], have'[p], missing'[p], wanted'[p], available'[p], uploads'[p], downloads'[p])
  BY <1>2, <1>6, <1>7, <1>8, Zenon DEF PeerOK, transferVars
<1>10. BagToSet(net') \subseteq Packets
  BY <1>1, <1>4, Single, Delivered, Zenon DEF TypeOK
<1>11. /\ have' = [have EXCEPT ![p] = have'[p]]
       /\ missing' = [missing EXCEPT ![p] = missing'[p]]
       /\ wanted' = [wanted EXCEPT ![p] = wanted'[p]]
       /\ uploads' = [uploads EXCEPT ![p] = uploads'[p]]
       /\ downloads' = [downloads EXCEPT ![p] = downloads'[p]]
       /\ available' = [available EXCEPT ![p] = available'[p]]
  BY <1>2 DEF TypeOK, transferVars
<1>12. chunk' = [chunk EXCEPT ![p] = chunk'[p]]
  BY <1>5, <1>8
<1>13. request' \in [Peers -> Nat] /\ faults' \in 0..MAX_FAULTS
  BY <1>2 DEF TypeOK, userVars
<1> QED  BY <1>3, <1>9, <1>10, <1>11, <1>12, <1>13, Frame, Zenon

\* A bag of one packet.
LEMMA BagSingle == \A x : BagToSet(SetToBag({x})) = {x}
  BY Zenon DEF BagToSet, SetToBag

\* The end of a transfer, and the transfers that start after it.
LEMMA NextType ==
  ASSUME TypeOK, NEW m \in Packets, m.type = "DATA",
         NEW i \in node_find(DownloadsFrom(m.dst, m.src)),
         NEW heap, HeapOK(heap), DOMAIN heap = DOMAIN chunk[m.dst],
         NEW miss \in Seq(DOMAIN heap), NextDownloads(m, i, heap, miss)
  PROVE  /\ downloads'[m.dst] \in Seq(Download(DOMAIN heap))
         /\ available'[m.dst] \subseteq Peers
         /\ downloads' = [downloads EXCEPT ![m.dst] = downloads'[m.dst]]
         /\ available' = [available EXCEPT ![m.dst] = available'[m.dst]]
         /\ BagToSet(net') \subseteq Packets
<1> DEFINE p == m.dst
           down == node_delete(downloads[p], i)
           avail == available[p] \cup {m.src}
<1>1. PICK f \in get_chunk_data(heap, miss, down, avail) :
            /\ StartDownloads(p, miss, down, avail, f)
            /\ net' = ((net (-) SetToBag({m})) (+) SetToBag({AckFor(m, i)}))
                          (+) ToBag(send_GETs(p, heap, miss, f))
  BY Zenon DEF NextDownloads
<1>2. p \in Peers /\ m.src \in Peers
  BY PacketFields
<1>3. f \in [DOMAIN miss -> Peers \cup {NoPeer}]
  BY <1>1, Decision, Zenon
<1>4. down \in Seq(Download(DOMAIN heap))
  BY <1>2, DownloadAt, NodeDelete, Zenon
<1>5. avail \in SUBSET Peers
  <2>1. available[p] \subseteq Peers
    BY <1>2, Zenon DEF TypeOK, PeerOK
  <2> QED  BY <1>2, <2>1
<1>6. BagToSet(net') \subseteq Packets
  <2>1. BagToSet(net (-) SetToBag({m})) \subseteq Packets
    BY BagMinus, Zenon DEF TypeOK
  <2>2. BagToSet(SetToBag({AckFor(m, i)})) \subseteq Packets
    <3>1. AckFor(m, i) \in Packets
      BY StoredType, Zenon
    <3>2. BagToSet(SetToBag({AckFor(m, i)})) = {AckFor(m, i)}
      BY BagSingle, Zenon
    <3> QED  BY <3>1, <3>2
  <2>3. BagToSet(ToBag(send_GETs(p, heap, miss, f))) \subseteq Packets
    BY <1>2, <1>3, GetPackets, SentOK, Zenon
  <2> QED  BY <1>1, <2>1, <2>2, <2>3, PlusOK, Zenon
<1> HIDE DEF down, avail
<1>7. /\ downloads'[p] \in Seq(Download(DOMAIN heap))
      /\ available'[p] \subseteq Peers
      /\ downloads' = [downloads EXCEPT ![p] = downloads'[p]]
      /\ available' = [available EXCEPT ![p] = available'[p]]
  BY <1>1, <1>2, <1>3, <1>4, <1>5, StartType, Zenon
<1> QED  BY <1>6, <1>7, Zenon

\* receive_DATA, when the chunk is complete and wrong.
LEMMA CorruptDataType ==
  ASSUME TypeOK, NEW m \in Packets, corrupt_DATA(m)
  PROVE  TypeOK'
<1> DEFINE p == m.dst
           heap(i) == [chunk[p] EXCEPT ![downloads[p][i].c].data = [s \in SeqNums |-> Unset]]
<1>1. PICK i \in node_find(DownloadsFrom(p, m.src)) :
          /\ chunk' = [chunk EXCEPT ![p] = heap(i)]
          /\ NextDownloads(m, i, heap(i), missing[p])
  BY Zenon DEF corrupt_DATA
<1>2. UNCHANGED <<have, missing, wanted, uploads, userVars, faults>> /\ m.type = "DATA"
  BY Zenon DEF corrupt_DATA
<1>3. p \in Peers
  BY PacketFields
<1>4. PeerOK(chunk[p], have[p], missing[p], wanted[p], available[p], uploads[p], downloads[p])
  BY <1>3, Zenon DEF TypeOK
<1>5. HeapOK(heap(i)) /\ DOMAIN heap(i) = DOMAIN chunk[p]
  <2>1. [s \in SeqNums |-> Unset] \in [SeqNums -> Blocks]
    BY DEF Blocks
  <2> QED  BY <1>1, <1>3, <1>4, <2>1, DownloadAt, NewData, Zenon DEF PeerOK
<1>6. chunk'[p] = heap(i)
  BY <1>1, <1>3 DEF TypeOK
<1>7. missing[p] \in Seq(DOMAIN heap(i))
  BY <1>4, <1>5, Zenon DEF PeerOK
<1> HIDE DEF heap
<1>8. /\ downloads'[p] \in Seq(Download(DOMAIN heap(i)))
      /\ available'[p] \subseteq Peers
      /\ downloads' = [downloads EXCEPT ![p] = downloads'[p]]
      /\ available' = [available EXCEPT ![p] = available'[p]]
      /\ BagToSet(net') \subseteq Packets
  BY <1>1, <1>2, <1>5, <1>7, NextType, Zenon
<1>9. PeerOK(chunk'[p], have'[p], missing'[p], wanted'[p], available'[p], uploads'[p], downloads'[p])
  BY <1>2, <1>4, <1>5, <1>6, <1>8, Zenon DEF PeerOK
<1>10. /\ have' = [have EXCEPT ![p] = have'[p]]
       /\ missing' = [missing EXCEPT ![p] = missing'[p]]
       /\ wanted' = [wanted EXCEPT ![p] = wanted'[p]]
       /\ uploads' = [uploads EXCEPT ![p] = uploads'[p]]
       /\ chunk' = [chunk EXCEPT ![p] = chunk'[p]]
  BY <1>1, <1>2, <1>6 DEF TypeOK
<1>11. request' \in [Peers -> Nat] /\ faults' \in 0..MAX_FAULTS
  BY <1>2 DEF TypeOK, userVars
<1> QED  BY <1>3, <1>8, <1>9, <1>10, <1>11, Frame, Zenon

\* receive_DATA, when the chunk is complete and valid.
LEMMA CompleteDataType ==
  ASSUME TypeOK, NEW m \in Packets, complete_DATA(m)
  PROVE  TypeOK'
<1> DEFINE p == m.dst
           c(i) == downloads[p][i].c
           heap(i) == [chunk[p] EXCEPT ![c(i)].data = Stored(m, i)]
           same(i) == {j \in DOMAIN missing[p] : heap(i)[missing[p][j]].hash = heap(i)[c(i)].hash}
<1>1. PICK i \in node_find(DownloadsFrom(p, m.src)) :
              /\ chunk' = [chunk EXCEPT ![p] = heap(i)]
              /\ IF same(i) = {}
                   THEN UNCHANGED <<missing, have>>
                   ELSE /\ have' = [have EXCEPT ![p] = node_insert(have[p], c(i))]
                        /\ \E j \in node_find(same(i)) :
                              missing' = [missing EXCEPT ![p] = node_delete(missing[p], j)]
              /\ check_all_received(p, request[p], heap(i), missing'[p], wanted[p])
              /\ NextDownloads(m, i, heap(i), missing'[p])
  BY Zenon DEF complete_DATA
<1>2. UNCHANGED <<uploads, request, faults>> /\ m.type = "DATA"
  BY Zenon DEF complete_DATA
<1>3. p \in Peers
  BY PacketFields
<1>4. PeerOK(chunk[p], have[p], missing[p], wanted[p], available[p], uploads[p], downloads[p])
  BY <1>3, Zenon DEF TypeOK
<1>5. c(i) \in DOMAIN chunk[p]
  BY <1>1, <1>3, DownloadAt
<1>6. HeapOK(heap(i)) /\ DOMAIN heap(i) = DOMAIN chunk[p]
  BY <1>1, <1>2, <1>3, <1>4, <1>5, StoredType, NewData, Zenon DEF PeerOK
<1>7. chunk'[p] = heap(i)
  BY <1>1, <1>3 DEF TypeOK
<1> HIDE DEF heap, c
<1>8. /\ missing'[p] \in Seq(DOMAIN heap(i)) /\ missing' = [missing EXCEPT ![p] = missing'[p]]
      /\ have'[p] \in Seq(DOMAIN heap(i)) /\ have' = [have EXCEPT ![p] = have'[p]]
  <2>1. missing[p] \in Seq(DOMAIN heap(i)) /\ have[p] \in Seq(DOMAIN heap(i))
    BY <1>4, <1>6, Zenon DEF PeerOK
  <2>2. CASE same(i) = {}
    <3>1. missing' = missing /\ have' = have
      BY <1>1, <2>2
    <3> QED  BY <2>1, <3>1 DEF TypeOK
  <2>3. CASE same(i) # {}
    <3>1. have' = [have EXCEPT ![p] = node_insert(have[p], c(i))]
      BY <1>1, <2>3
    <3>2. PICK j \in node_find(same(i)) : missing' = [missing EXCEPT ![p] = node_delete(missing[p], j)]
      BY <1>1, <2>3
    <3>3. j \in DOMAIN missing[p]
      BY <3>2, NodeFind
    <3>4. node_insert(have[p], c(i)) \in Seq(DOMAIN heap(i))
      BY <2>1, <1>5, <1>6, NodeInsert, Zenon
    <3>5. node_delete(missing[p], j) \in Seq(DOMAIN heap(i))
      BY <2>1, <3>3, NodeDelete, Zenon
    <3>6. have'[p] = node_insert(have[p], c(i)) /\ missing'[p] = node_delete(missing[p], j)
      BY <1>3, <3>1, <3>2 DEF TypeOK
    <3> QED  BY <3>1, <3>2, <3>4, <3>5, <3>6, Zenon
  <2> QED  BY <2>2, <2>3
<1>9. wanted'[p] \in Seq(DOMAIN heap(i)) /\ wanted' = [wanted EXCEPT ![p] = wanted'[p]]
  <2>1. wanted' = [wanted EXCEPT ![p] = << >>] \/ wanted' = [wanted EXCEPT ![p] = wanted[p]]
    BY <1>1, Zenon DEF check_all_received
  <2>2. wanted'[p] = << >> \/ wanted'[p] = wanted[p]
    BY <1>3, <2>1 DEF TypeOK
  <2>3. wanted[p] \in Seq(DOMAIN heap(i))
    BY <1>4, <1>6, Zenon DEF PeerOK
  <2>4. wanted'[p] \in Seq(DOMAIN heap(i))
    BY <2>2, <2>3, EmptySeq
  <2>5. wanted' = [wanted EXCEPT ![p] = wanted'[p]]
    BY <1>3, <2>1 DEF TypeOK
  <2> QED  BY <2>4, <2>5
<1>10. /\ downloads'[p] \in Seq(Download(DOMAIN heap(i)))
       /\ available'[p] \subseteq Peers
       /\ downloads' = [downloads EXCEPT ![p] = downloads'[p]]
       /\ available' = [available EXCEPT ![p] = available'[p]]
       /\ BagToSet(net') \subseteq Packets
  BY <1>1, <1>2, <1>6, <1>8, NextType, Zenon
<1>11. PeerOK(chunk'[p], have'[p], missing'[p], wanted'[p], available'[p], uploads'[p], downloads'[p])
  BY <1>2, <1>4, <1>6, <1>7, <1>8, <1>9, <1>10, Zenon DEF PeerOK
<1>12. /\ uploads' = [uploads EXCEPT ![p] = uploads'[p]]
       /\ chunk' = [chunk EXCEPT ![p] = chunk'[p]]
  BY <1>1, <1>2, <1>7 DEF TypeOK
<1>13. request' \in [Peers -> Nat] /\ faults' \in 0..MAX_FAULTS
  BY <1>2 DEF TypeOK
<1> QED  BY <1>3, <1>8, <1>9, <1>10, <1>11, <1>12, <1>13, Frame, Zenon

------------------------------------------------------------------------------
(* The user's GET. *)

\* A line of a chunk file.
LEMMA LineAt ==
  ASSUME NEW lines \in Seq(Line), NEW l \in DOMAIN lines
  PROVE  lines[l].id \in Nat /\ lines[l].hash \in Hashes
<1>1. lines[l] \in Line
  BY LenProperties
<1> QED  BY <1>1 DEF Line

\* create_chunk makes a chunk, whatever the width of its id.
LEMMA CreateType ==
  ASSUME NEW id \in Nat, NEW hash \in Hashes
  PROVE  create_chunk(id, hash) \in Chunk
<1>1. id % ID_WIDTH \in Nat
  BY PeerAssumption
<1>2. [s \in SeqNums |-> Unset] \in [SeqNums -> Blocks]
  BY DEF Blocks
<1>3. << >> \in Seq(Peers)
  BY EmptySeq
<1> QED  BY <1>1, <1>2, <1>3 DEF create_chunk, Chunk

\* The pointers of p's heap after the lines of the n-th file are read.
PointersAfterGet(p, n, lines) == DOMAIN chunk[p] \cup {<<n, l>> : l \in AbsentLines(p, lines)}

\* A line stands for an owned chunk or for one that is created for it.
LEMMA ChunkOfLineType ==
  ASSUME TypeOK, NEW p \in Peers, NEW n, NEW lines, NEW l \in DOMAIN lines
  PROVE  ChunkOfLine(p, n, lines, l) \in PointersAfterGet(p, n, lines)
<1>1. CASE l \in AbsentLines(p, lines)
  BY <1>1, Zenon DEF ChunkOfLine, PointersAfterGet
<1>2. CASE l \notin AbsentLines(p, lines)
  <2> DEFINE K == Owned(p, lines[l].hash)
             R == {have[p][i] : i \in node_find(K)}
  <2>1. ChunkOfLine(p, n, lines, l) = CHOOSE r \in R : TRUE
    BY <1>2, Zenon DEF ChunkOfLine
  <2>2. have[p] \in Seq(DOMAIN chunk[p])
    BY Zenon DEF TypeOK, PeerOK
  <2>3. K # {} /\ K \subseteq DOMAIN have[p]
    BY <1>2 DEF AbsentLines, Owned
  <2>4. DOMAIN have[p] \subseteq Nat /\ \A i \in DOMAIN have[p] : have[p][i] \in DOMAIN chunk[p]
    BY <2>2, LenProperties
  <2> HIDE DEF K
  <2>5. node_find(K) # {} /\ node_find(K) \subseteq DOMAIN have[p]
    BY <2>3, <2>4, NodeFound, NodeFind
  <2>6. R # {} /\ R \subseteq DOMAIN chunk[p]
    BY <2>4, <2>5
  <2> HIDE DEF R
  <2>7. ChunkOfLine(p, n, lines, l) \in R
    BY <2>1, <2>6, Zenon
  <2> QED  BY <2>6, <2>7, Zenon DEF PointersAfterGet
<1> QED  BY <1>1, <1>2

\* create_wanted_missing_list adds chunks for the absent lines and sets ids.
LEMMA HeapAfterGetType ==
  ASSUME TypeOK, NEW p \in Peers, NEW n \in Nat, NEW lines \in Seq(Line)
  PROVE  /\ HeapOK(HeapAfterGet(p, n, lines))
         /\ DOMAIN HeapAfterGet(p, n, lines) = PointersAfterGet(p, n, lines)
<1> DEFINE D == PointersAfterGet(p, n, lines)
           LinesOf(r) == {l \in DOMAIN lines : ChunkOfLine(p, n, lines, l) = r}
           FinalLine(r) == CHOOSE l \in LinesOf(r) : \A k \in LinesOf(r) : k <= l
           Base(r) == IF r \in DOMAIN chunk[p] THEN chunk[p][r]
                                               ELSE create_chunk(lines[r[2]].id, lines[r[2]].hash)
           new(r) == IF LinesOf(r) = {} THEN Base(r) ELSE [Base(r) EXCEPT !.id = lines[FinalLine(r)].id]
<1>1. HeapAfterGet(p, n, lines) = [r \in D |-> new(r)]
  BY Zenon DEF HeapAfterGet, PointersAfterGet
<1>2. HeapOK(chunk[p])
  BY Zenon DEF TypeOK, PeerOK
<1>3. Len(lines) \in Nat /\ DOMAIN lines = 1..Len(lines)
  BY LenProperties
<1>4. AbsentLines(p, lines) \subseteq DOMAIN lines
  BY DEF AbsentLines
<1>5. D \subseteq Pointers
  BY <1>2, <1>3, <1>4 DEF HeapOK, PointersAfterGet, Pointers
<1>6. ASSUME NEW r \in D PROVE Base(r) \in Chunk
  <2>1. CASE r \in DOMAIN chunk[p]
    BY <1>2, <2>1, Zenon DEF HeapOK
  <2>2. CASE r \notin DOMAIN chunk[p]
    <3>1. PICK l \in AbsentLines(p, lines) : r = <<n, l>>
      BY <2>2 DEF PointersAfterGet
    <3>2. r[2] \in DOMAIN lines
      BY <1>4, <3>1
    <3> QED  BY <2>2, <3>2, LineAt, CreateType, Zenon
  <2> QED  BY <2>1, <2>2
<1>7. ASSUME NEW r \in D, LinesOf(r) # {} PROVE lines[FinalLine(r)].id \in Nat
  <2>1. LinesOf(r) \in SUBSET (1..Len(lines))
    BY <1>3
  <2> HIDE DEF LinesOf
  <2>2. \E l \in LinesOf(r) : \A k \in LinesOf(r) : k <= l
    BY <1>3, <1>7, <2>1, GreatestNat
  <2>3. FinalLine(r) \in LinesOf(r)
    BY <2>2, Zenon
  <2> QED  BY <1>3, <2>1, <2>3, LineAt
<1> HIDE DEF LinesOf, FinalLine, Base, D
<1>8. ASSUME NEW r \in D PROVE new(r) \in Chunk
  <2>1. CASE LinesOf(r) = {}  BY <1>6, <2>1
  <2>2. CASE LinesOf(r) # {}
    <3>1. Base(r) \in Chunk /\ lines[FinalLine(r)].id \in Nat
      BY <1>6, <1>7, <2>2
    <3>2. [Base(r) EXCEPT !.id = lines[FinalLine(r)].id] \in Chunk
      BY <3>1 DEF Chunk
    <3> QED  BY <2>2, <3>2
  <2> QED  BY <2>1, <2>2
<1> HIDE DEF new
<1>9. HeapOK([r \in D |-> new(r)]) /\ DOMAIN [r \in D |-> new(r)] = D
  BY <1>5, <1>8 DEF HeapOK
<1> QED  BY <1>1, <1>9 DEF D

\* The packets of send_WHOHAS.
LEMMA WhohasPackets ==
  ASSUME NEW p \in Peers, NEW heap, HeapOK(heap), NEW miss \in Seq(DOMAIN heap)
  PROVE  \A b \in DOMAIN send_WHOHAS(p, heap, miss) : send_WHOHAS(p, heap, miss)[b] \in Packets
<1> DEFINE Packet(k) == {i \in DOMAIN miss : (i - 1) \div MAX_HASH_IN_PACKET = k}
           Batches == {(i - 1) \div MAX_HASH_IN_PACKET : i \in DOMAIN miss}
           S(k) == {heap[miss[i]].hash : i \in Packet(k)}
<1>1. send_WHOHAS(p, heap, miss) = [b \in Batches \X Others(p) |-> WHOHAS(p, b[2], S(b[1]))]
  BY DEF send_WHOHAS
<1>2. ASSUME NEW k PROVE S(k) \in SUBSET Hashes
  <2>1. ASSUME NEW i \in DOMAIN miss PROVE heap[miss[i]].hash \in Hashes
    <3>1. miss[i] \in DOMAIN heap
      BY LenProperties
    <3>2. heap[miss[i]] \in Chunk
      BY <3>1, Zenon DEF HeapOK
    <3> QED  BY <3>2 DEF Chunk
  <2>2. Packet(k) \subseteq DOMAIN miss
    OBVIOUS
  <2> HIDE DEF Packet
  <2> QED  BY <2>1, <2>2
<1> HIDE DEF S, Batches
<1>3. ASSUME NEW b \in Batches \X Others(p) PROVE WHOHAS(p, b[2], S(b[1])) \in Packets
  <2>1. b[2] \in Peers
    BY DEF Others
  <2> QED  BY <1>2, <2>1, PacketTypes, Zenon
<1> QED  BY <1>1, <1>3, Zenon

\* process_get as a whole.
LEMMA GetType ==
  ASSUME TypeOK, NEW p \in Peers, process_get(p)
  PROVE  TypeOK'
<1> DEFINE n == request[p] + 1
           lines == GetFiles[p][n]
           heap == HeapAfterGet(p, n, lines)
           D == PointersAfterGet(p, n, lines)
           new == node_keep([l \in DOMAIN lines |-> <<n, l>>], AbsentLines(p, lines))
           miss == Reverse(new) \o missing[p]
           found == [l \in DOMAIN lines |-> ChunkOfLine(p, n, lines, l)]
           want == Reverse(found) \o wanted[p]
<1>1. /\ n <= Len(GetFiles[p])
      /\ request' = [request EXCEPT ![p] = n]
      /\ chunk' = [chunk EXCEPT ![p] = heap]
      /\ missing' = [missing EXCEPT ![p] = miss]
      /\ check_all_received(p, n, heap, miss, want)
      /\ net' = net (+) ToBag(send_WHOHAS(p, heap, miss))
      /\ UNCHANGED <<have, transferVars, faults>>
  BY Zenon DEF process_get
<1>2. n \in Nat /\ n \in 1..Len(GetFiles[p]) /\ lines \in Seq(Line)
  <2>1. request[p] \in Nat
    BY DEF TypeOK
  <2>2. GetFiles[p] \in Seq(Seq(Line))
    BY PeerAssumption
  <2>3. Len(GetFiles[p]) \in Nat
    BY <2>2, LenProperties
  <2>4. n <= Len(GetFiles[p])
    BY <1>1, Zenon
  <2>5. n \in 1..Len(GetFiles[p])
    BY <2>1, <2>3, <2>4
  <2> QED  BY <2>2, <2>5, ElementOfSeq
<1> HIDE DEF n, lines
<1>3. HeapOK(heap) /\ DOMAIN heap = D /\ DOMAIN chunk[p] \subseteq D
  BY <1>2, HeapAfterGetType, Zenon DEF PointersAfterGet
<1>4. PeerOK(chunk[p], have[p], missing[p], wanted[p], available[p], uploads[p], downloads[p])
  BY Zenon DEF TypeOK
<1>5. /\ have[p] \in Seq(D) /\ missing[p] \in Seq(D) /\ wanted[p] \in Seq(D)
      /\ uploads[p] \in Seq(Upload(D)) /\ downloads[p] \in Seq(Download(D))
  <2>1. /\ have[p] \in Seq(DOMAIN chunk[p]) /\ missing[p] \in Seq(DOMAIN chunk[p])
        /\ wanted[p] \in Seq(DOMAIN chunk[p])
        /\ uploads[p] \in Seq(Upload(DOMAIN chunk[p]))
        /\ downloads[p] \in Seq(Download(DOMAIN chunk[p]))
    BY <1>4, Zenon DEF PeerOK
  <2>2. Upload(DOMAIN chunk[p]) \subseteq Upload(D) /\ Download(DOMAIN chunk[p]) \subseteq Download(D)
    BY <1>3 DEF Upload, Download
  <2>3. ASSUME NEW S, NEW T, S \subseteq T, NEW list \in Seq(S) PROVE list \in Seq(T)
    <3>1. \A i \in DOMAIN list : list[i] \in T
      BY <2>3, LenProperties
    <3> QED  BY <3>1, Retype
  <2> HIDE DEF D
  <2>4. have[p] \in Seq(D) /\ missing[p] \in Seq(D) /\ wanted[p] \in Seq(D)
    BY <1>3, <2>1, <2>3, Zenon
  <2> QED  BY <2>1, <2>2, <2>3, <2>4, Zenon
<1>6. miss \in Seq(D)
  <2> DEFINE list == [l \in DOMAIN lines |-> <<n, l>>]
  <2>1. list \in [DOMAIN lines -> {<<n, l>> : l \in DOMAIN lines}]
    OBVIOUS
  <2>2. \A l \in AbsentLines(p, lines) : l \in DOMAIN lines /\ list[l] \in D
    BY DEF AbsentLines, PointersAfterGet
  <2>3. AbsentLines(p, lines) \in SUBSET (DOMAIN list)
    BY <2>2
  <2> HIDE DEF list
  <2>4. list \in Seq({<<n, l>> : l \in DOMAIN lines})
    BY <1>2, <2>1, FunctionSeq
  <2>5. node_keep(list, AbsentLines(p, lines)) \in Seq(D)
    BY <2>2, <2>3, <2>4, NodeKept
  <2>6. new \in Seq(D)
    BY <2>5 DEF list
  <2> HIDE DEF new, D
  <2> QED  BY <1>5, <2>6, ReverseList, ConcatProperties, Zenon
<1>7. want \in Seq(D)
  <2>1. found \in [DOMAIN lines -> D]
    BY ChunkOfLineType, Zenon
  <2> HIDE DEF found, D
  <2>2. found \in Seq(D)
    BY <1>2, <2>1, FunctionSeq
  <2> QED  BY <1>5, <2>2, ReverseList, ConcatProperties, Zenon
<1> HIDE DEF miss, want, heap, D
<1>8. chunk'[p] = heap /\ missing'[p] = miss
  BY <1>1 DEF TypeOK
<1>9. wanted'[p] \in Seq(D) /\ wanted' = [wanted EXCEPT ![p] = wanted'[p]]
  <2>1. wanted' = [wanted EXCEPT ![p] = << >>] \/ wanted' = [wanted EXCEPT ![p] = want]
    BY <1>1, Zenon DEF check_all_received
  <2>2. wanted'[p] = << >> \/ wanted'[p] = want
    BY <2>1 DEF TypeOK
  <2>3. wanted'[p] \in Seq(D)
    BY <1>7, <2>2, EmptySeq
  <2>4. wanted' = [wanted EXCEPT ![p] = wanted'[p]]
    BY <2>1 DEF TypeOK
  <2> QED  BY <2>3, <2>4
<1>10. PeerOK(chunk'[p], have'[p], missing'[p], wanted'[p], available'[p], uploads'[p], downloads'[p])
  BY <1>1, <1>3, <1>4, <1>5, <1>6, <1>8, <1>9, Zenon DEF PeerOK, transferVars
<1>11. BagToSet(net') \subseteq Packets
  BY <1>1, <1>3, <1>6, WhohasPackets, SentOK, PlusOK, Zenon DEF TypeOK
<1>12. /\ have' = [have EXCEPT ![p] = have'[p]]
       /\ uploads' = [uploads EXCEPT ![p] = uploads'[p]]
       /\ downloads' = [downloads EXCEPT ![p] = downloads'[p]]
       /\ available' = [available EXCEPT ![p] = available'[p]]
  BY <1>1 DEF TypeOK, transferVars
<1>13. chunk' = [chunk EXCEPT ![p] = chunk'[p]] /\ missing' = [missing EXCEPT ![p] = missing'[p]]
  BY <1>1, <1>8
<1>14. request' \in [Peers -> Nat] /\ faults' \in 0..MAX_FAULTS
  BY <1>1, <1>2 DEF TypeOK
<1> QED  BY <1>9, <1>10, <1>11, <1>12, <1>13, <1>14, Frame, Zenon

------------------------------------------------------------------------------
(* Timeouts. *)

\* handle_server_timeout leaves a list of uploads.
LEMMA UploadsAfterTimeoutType ==
  ASSUME TypeOK, NEW p \in Peers
  PROVE  UploadsAfterTimeout(p) \in Seq(Upload(DOMAIN chunk[p]))
<1> DEFINE k(i) == TimedOut(uploads[p][i].cctrl)
           list == [i \in DOMAIN uploads[p] |-> [uploads[p][i] EXCEPT !.cctrl = k(i)]]
           T == Upload(DOMAIN chunk[p])
<1>1. UploadsAfterTimeout(p) = node_keep(list, SurvivingUploads(p))
  BY Zenon DEF UploadsAfterTimeout
<1>2. ASSUME NEW i \in DOMAIN uploads[p] PROVE [uploads[p][i] EXCEPT !.cctrl = k(i)] \in T
  <2>1. uploads[p][i] \in Upload(DOMAIN chunk[p]) /\ uploads[p][i].cctrl \in CongestCtrl
    BY UploadAt
  <2>2. k(i) \in CongestCtrl
    BY <2>1, CountTimeout, Loss DEF TimedOut
  <2> HIDE DEF k
  <2> QED  BY <2>1, <2>2 DEF Upload
<1>3. uploads[p] \in Seq(T)
  BY Zenon DEF TypeOK, PeerOK
<1>4. list \in [DOMAIN uploads[p] -> T]
  <2> HIDE DEF k, T
  <2> QED  BY <1>2
<1>5. SurvivingUploads(p) \in SUBSET (DOMAIN uploads[p])
  BY DEF SurvivingUploads
<1> HIDE DEF list, T
<1>6. list \in Seq(T) /\ DOMAIN list = DOMAIN uploads[p]
  BY <1>3, <1>4, FunctionSeq
<1>7. node_keep(list, SurvivingUploads(p)) \in Seq(T)
  BY <1>5, <1>6, NodeKeep, Zenon
<1> QED  BY <1>1, <1>7 DEF T

\* handle_client_timeout leaves a list of downloads.
LEMMA DownloadsAfterTimeoutType ==
  ASSUME TypeOK, NEW p \in Peers
  PROVE  DownloadsAfterTimeout(p) \in Seq(Download(DOMAIN chunk[p]))
<1> DEFINE list == [i \in DOMAIN downloads[p] |-> [downloads[p][i] EXCEPT !.timeout_count = @ + 1]]
           T == Download(DOMAIN chunk[p])
<1>1. DownloadsAfterTimeout(p) = node_keep(list, SurvivingDownloads(p))
  BY Zenon DEF DownloadsAfterTimeout
<1>2. downloads[p] \in Seq(T)
  BY Zenon DEF TypeOK, PeerOK
<1>3. ASSUME NEW i \in DOMAIN downloads[p]
      PROVE  [downloads[p][i] EXCEPT !.timeout_count = @ + 1] \in T
  <2>1. downloads[p][i] \in Download(DOMAIN chunk[p])
    BY <1>2, LenProperties
  <2> QED  BY <2>1 DEF Download
<1>4. list \in [DOMAIN downloads[p] -> T]
  <2> HIDE DEF T
  <2> QED  BY <1>3
<1>5. SurvivingDownloads(p) \in SUBSET (DOMAIN downloads[p])
  BY DEF SurvivingDownloads
<1> HIDE DEF list, T
<1>6. list \in Seq(T) /\ DOMAIN list = DOMAIN downloads[p]
  BY <1>2, <1>4, FunctionSeq
<1>7. node_keep(list, SurvivingDownloads(p)) \in Seq(T)
  BY <1>5, <1>6, NodeKeep, Zenon
<1> QED  BY <1>1, <1>7 DEF T

\* handle_transfer_dead changes only the owners of chunks.
LEMMA ForgetType ==
  ASSUME TypeOK, NEW p \in Peers
  PROVE  HeapOK(ForgetDeadPeers(p)) /\ DOMAIN ForgetDeadPeers(p) = DOMAIN chunk[p]
<1> DEFINE rest(r) == node_keep(chunk[p][r].peer,
                        {k \in DOMAIN chunk[p][r].peer : chunk[p][r].peer[k] \notin DeadPeers(p)})
           new(r) == IF r \in ToSet(missing[p]) THEN [chunk[p][r] EXCEPT !.peer = rest(r)]
                                                ELSE chunk[p][r]
<1>1. ForgetDeadPeers(p) = [r \in DOMAIN chunk[p] |-> new(r)]
  BY Zenon DEF ForgetDeadPeers
<1>2. HeapOK(chunk[p])
  BY Zenon DEF TypeOK, PeerOK
<1>3. ASSUME NEW r \in DOMAIN chunk[p] PROVE new(r) \in Chunk
  <2>1. chunk[p][r] \in Chunk
    BY <1>2, Zenon DEF HeapOK
  <2>2. chunk[p][r].peer \in Seq(Peers)
    BY <2>1 DEF Chunk
  <2>3. rest(r) \in Seq(Peers)
    <3>1. {k \in DOMAIN chunk[p][r].peer : chunk[p][r].peer[k] \notin DeadPeers(p)}
             \in SUBSET (DOMAIN chunk[p][r].peer)
      OBVIOUS
    <3> QED  BY <2>2, <3>1, NodeKeep, Zenon
  <2> HIDE DEF rest
  <2>4. [chunk[p][r] EXCEPT !.peer = rest(r)] \in Chunk
    BY <2>1, <2>3 DEF Chunk
  <2> QED  BY <2>1, <2>4
<1> HIDE DEF new
<1>4. DOMAIN chunk[p] \subseteq Pointers
  BY <1>2, Zenon DEF HeapOK
<1>5. HeapOK([r \in DOMAIN chunk[p] |-> new(r)]) /\ DOMAIN [r \in DOMAIN chunk[p] |-> new(r)] = DOMAIN chunk[p]
  BY <1>3, <1>4 DEF HeapOK
<1> QED  BY <1>1, <1>5

\* What surviving downloads send again.
LEMMA ResentPackets ==
  ASSUME TypeOK, NEW p \in Peers
  PROVE  \A i \in DOMAIN Resent(p) : Resent(p)[i] \in Packets
<1>1. DOMAIN Resent(p) = SurvivingDownloads(p)
  BY DEF Resent
<1>2. SUFFICES ASSUME NEW i \in SurvivingDownloads(p) PROVE Resent(p)[i] \in Packets
  BY <1>1
<1> DEFINE t == downloads[p][i]
           c == chunk[p][t.c]
<1>3. Resent(p)[i] = IF \A s \in SeqNums : c.data[s] = Unset
                       THEN GET(p, t.peer, c.hash)
                       ELSE ACK(p, t.peer, data_find_largest_consec_seq(c.data))
  BY DEF Resent
<1>4. PeerOK(chunk[p], have[p], missing[p], wanted[p], available[p], uploads[p], downloads[p])
  BY Zenon DEF TypeOK
<1>5. t \in Download(DOMAIN chunk[p])
  BY <1>4, LenProperties DEF PeerOK, SurvivingDownloads
<1>6. t.peer \in Peers /\ t.c \in DOMAIN chunk[p]
  BY <1>5 DEF Download
<1>7. c \in Chunk
  BY <1>4, <1>6, Zenon DEF PeerOK, HeapOK
<1> HIDE DEF t, c
<1>8. c.hash \in Hashes /\ c.data \in [SeqNums -> Blocks]
  BY <1>7 DEF Chunk
<1>9. GET(p, t.peer, c.hash) \in Packets
  BY <1>6, <1>8, PacketTypes, Zenon
<1>10. ACK(p, t.peer, data_find_largest_consec_seq(c.data)) \in Packets
  BY <1>6, <1>8, ConsecType, PacketTypes, Zenon
<1> QED  BY <1>3, <1>9, <1>10

\* Both halves of handle_timeout.
LEMMA TimeoutType ==
  ASSUME TypeOK, NEW p \in Peers, handle_timeout(p), faults' \in 0..MAX_FAULTS
  PROVE  TypeOK'
<1> DEFINE av == available[p] \cup FreedByServer(p)
<1>1. uploads' = [uploads EXCEPT ![p] = UploadsAfterTimeout(p)]
  BY Zenon DEF handle_timeout
<1>2. handle_client_timeout(p, av)
  BY Zenon DEF handle_timeout
<1>3. UNCHANGED <<have, missing, wanted, userVars>>
  BY Zenon DEF handle_timeout
<1>4. PeerOK(chunk[p], have[p], missing[p], wanted[p], available[p], uploads[p], downloads[p])
  BY Zenon DEF TypeOK
<1>5. av \in SUBSET Peers
  <2>1. FreedByServer(p) \subseteq Peers
    BY UploadAt DEF FreedByServer
  <2> QED  BY <1>4, <2>1 DEF PeerOK
<1>6. uploads'[p] = UploadsAfterTimeout(p) /\ uploads'[p] \in Seq(Upload(DOMAIN chunk[p]))
  <2>1. uploads'[p] = UploadsAfterTimeout(p)
    BY <1>1 DEF TypeOK
  <2> QED  BY <2>1, UploadsAfterTimeoutType
<1>7. /\ have' = [have EXCEPT ![p] = have'[p]]
      /\ missing' = [missing EXCEPT ![p] = missing'[p]]
      /\ wanted' = [wanted EXCEPT ![p] = wanted'[p]]
      /\ uploads' = [uploads EXCEPT ![p] = uploads'[p]]
  BY <1>1, <1>3, <1>6 DEF TypeOK
<1>8. request' \in [Peers -> Nat]
  BY <1>3 DEF TypeOK, userVars
<1> HIDE DEF av
<1>9. CASE missing[p] = << >>
  <2>1. available' = [available EXCEPT ![p] = av] /\ UNCHANGED <<chunk, downloads, net>>
    BY <1>2, <1>9, Zenon DEF handle_client_timeout
  <2>2. available'[p] = av
    BY <2>1 DEF TypeOK
  <2>3. PeerOK(chunk'[p], have'[p], missing'[p], wanted'[p], available'[p], uploads'[p], downloads'[p])
    BY <1>3, <1>4, <1>5, <1>6, <2>1, <2>2 DEF PeerOK
  <2>4. /\ chunk' = [chunk EXCEPT ![p] = chunk'[p]]
        /\ downloads' = [downloads EXCEPT ![p] = downloads'[p]]
        /\ available' = [available EXCEPT ![p] = available'[p]]
    BY <2>1, <2>2 DEF TypeOK
  <2>5. BagToSet(net') \subseteq Packets
    BY <2>1, Zenon DEF TypeOK
  <2> QED  BY <1>7, <1>8, <2>3, <2>4, <2>5, Frame, Zenon
<1>10. CASE missing[p] # << >>
  <2> DEFINE heap == ForgetDeadPeers(p)
             down == DownloadsAfterTimeout(p)
             avail == av \cup DeadPeers(p)
             who == IF UnclaimedChunks(downloads'[p], missing[p])
                      THEN ToBag(send_WHOHAS(p, heap, missing[p])) ELSE EmptyBag
  <2>1. chunk' = [chunk EXCEPT ![p] = heap]
    BY <1>2, <1>10, Zenon DEF handle_client_timeout
  <2>2. PICK f \in get_chunk_data(heap, missing[p], down, avail) :
           /\ StartDownloads(p, missing[p], down, avail, f)
           /\ net' = ((net (+) ToBag(Resent(p))) (+) ToBag(send_GETs(p, heap, missing[p], f))) (+) who
    BY <1>2, <1>10, Zenon DEF handle_client_timeout
  <2>3. HeapOK(heap) /\ DOMAIN heap = DOMAIN chunk[p]
    BY ForgetType
  <2>4. missing[p] \in Seq(DOMAIN heap) /\ down \in Seq(Download(DOMAIN heap))
    BY <1>4, <2>3, DownloadsAfterTimeoutType DEF PeerOK
  <2>5. avail \in SUBSET Peers
    <3>1. ASSUME NEW i \in DOMAIN downloads[p] PROVE downloads[p][i].peer \in Peers
      <4>1. downloads[p][i] \in Download(DOMAIN chunk[p])
        BY <1>4, LenProperties DEF PeerOK
      <4> QED  BY <4>1 DEF Download
    <3>2. DeadPeers(p) \subseteq Peers
      BY <3>1 DEF DeadPeers
    <3> QED  BY <1>5, <3>2
  <2>6. f \in [DOMAIN missing[p] -> Peers \cup {NoPeer}]
    BY <2>2, Decision, Zenon
  <2> HIDE DEF heap, down, avail
  <2>7. /\ downloads'[p] \in Seq(Download(DOMAIN heap))
        /\ available'[p] \subseteq Peers
        /\ downloads' = [downloads EXCEPT ![p] = downloads'[p]]
        /\ available' = [available EXCEPT ![p] = available'[p]]
    BY <2>2, <2>4, <2>5, <2>6, StartType, Zenon
  <2>8. BagToSet(net') \subseteq Packets
    <3>1. BagToSet(ToBag(Resent(p))) \subseteq Packets
      BY ResentPackets, SentOK, Zenon
    <3>2. BagToSet(ToBag(send_GETs(p, heap, missing[p], f))) \subseteq Packets
      BY <2>3, <2>4, <2>6, GetPackets, SentOK, Zenon
    <3>3. BagToSet(ToBag(send_WHOHAS(p, heap, missing[p]))) \subseteq Packets
      BY <2>3, <2>4, WhohasPackets, SentOK, Zenon
    <3>4. BagToSet(EmptyBag) \subseteq Packets
      BY DEF BagToSet, EmptyBag, SetToBag
    <3>5. BagToSet(who) \subseteq Packets
      BY <3>3, <3>4, Zenon
    <3> HIDE DEF who
    <3>6. BagToSet(net) \subseteq Packets
      BY Zenon DEF TypeOK
    <3> QED  BY <2>2, <3>1, <3>2, <3>5, <3>6, PlusOK, Zenon
  <2>9. chunk'[p] = heap
    BY <2>1 DEF TypeOK
  <2>10. chunk' = [chunk EXCEPT ![p] = chunk'[p]]
    BY <2>1, <2>9
  <2>11. PeerOK(chunk'[p], have'[p], missing'[p], wanted'[p], available'[p], uploads'[p], downloads'[p])
    BY <1>3, <1>4, <1>6, <2>3, <2>7, <2>9, Zenon DEF PeerOK
  <2> QED  BY <1>7, <1>8, <2>7, <2>8, <2>10, <2>11, Frame, Zenon
<1> QED  BY <1>9, <1>10

------------------------------------------------------------------------------
(* Type correctness. *)

\* load_own_chunk_data fills a chunk.
LEMMA LoadedType ==
  ASSUME NEW p \in Peers, NEW l \in DOMAIN HasFile[p]
  PROVE  LoadedChunk(HasFile[p][l]) \in Chunk
<1> DEFINE c == create_chunk(HasFile[p][l].id, HasFile[p][l].hash)
           d == [s \in SeqNums |-> read_chunk_data_file_by_id(c.id)]
<1>1. HasFile[p] \in Seq(Line)
  BY PeerAssumption
<1>2. c \in Chunk
  BY <1>1, LineAt, CreateType, Zenon
<1>3. read_chunk_data_file_by_id(c.id) \in Blocks
  BY PeerAssumption DEF read_chunk_data_file_by_id, Blocks
<1>4. d \in [SeqNums -> Blocks]
  <2> HIDE DEF c
  <2> QED  BY <1>3
<1>5. LoadedChunk(HasFile[p][l]) = [c EXCEPT !.data = d]
  BY Zenon DEF LoadedChunk
<1> HIDE DEF c, d
<1> QED  BY <1>2, <1>4, <1>5 DEF Chunk

\* peer_setup establishes the shape of the state.
LEMMA InitType == Init => TypeOK
<1> SUFFICES ASSUME Init PROVE TypeOK
  OBVIOUS
<1> USE DEF Init
<1>1. ASSUME NEW p \in Peers
      PROVE  PeerOK(chunk[p], have[p], missing[p], wanted[p], available[p], uploads[p], downloads[p])
  <2> DEFINE D == {<<0, l>> : l \in DOMAIN HasFile[p]}
             heap == [r \in D |-> LoadedChunk(HasFile[p][r[2]])]
  <2>1. chunk[p] = heap
    BY DEF Init
  <2>2. HasFile[p] \in Seq(Line)
    BY PeerAssumption
  <2>3. HeapOK(heap) /\ DOMAIN heap = D
    <3>1. \A r \in D : LoadedChunk(HasFile[p][r[2]]) \in Chunk
      BY LoadedType
    <3>2. D \subseteq Pointers
      BY <2>2, LenProperties DEF Pointers
    <3> HIDE DEF D
    <3> QED  BY <3>1, <3>2 DEF HeapOK
  <2>4. have[p] \in Seq(D)
    <3> DEFINE list == [l \in DOMAIN HasFile[p] |-> <<0, l>>]
    <3>1. have[p] = Reverse(list)
      BY DEF Init, parse_chunkfile
    <3>2. list \in [DOMAIN HasFile[p] -> D]
      OBVIOUS
    <3> HIDE DEF list, D
    <3> QED  BY <2>2, <3>1, <3>2, FunctionSeq, ReverseList
  <2> HIDE DEF heap, D
  <2>5. available[p] \subseteq Peers
    BY DEF bt_parse_peer_list
  <2>6. missing[p] = << >> /\ wanted[p] = << >> /\ uploads[p] = << >> /\ downloads[p] = << >>
    OBVIOUS
  <2> QED  BY <2>1, <2>3, <2>4, <2>5, <2>6, EmptySeq DEF PeerOK
<1>2. BagToSet(net) \subseteq Packets
  BY DEF BagToSet, EmptyBag, SetToBag
<1>3. faults \in 0..MAX_FAULTS
  BY PeerAssumption
<1>4. /\ chunk = [p \in Peers |-> chunk[p]] /\ have = [p \in Peers |-> have[p]]
      /\ missing = [p \in Peers |-> missing[p]] /\ wanted = [p \in Peers |-> wanted[p]]
      /\ available = [p \in Peers |-> available[p]] /\ uploads = [p \in Peers |-> uploads[p]]
      /\ downloads = [p \in Peers |-> downloads[p]] /\ request \in [Peers -> Nat]
  BY DEF bt_parse_peer_list
<1> QED  BY <1>1, <1>2, <1>3, <1>4, Zenon DEF TypeOK

\* Every step keeps the shape of the state.
LEMMA StepType == TypeOK /\ [Next]_vars => TypeOK'
<1> SUFFICES ASSUME TypeOK, [Next]_vars PROVE TypeOK'
  OBVIOUS
<1>1. BagToSet(net) \subseteq Packets /\ faults \in 0..MAX_FAULTS
  BY Zenon DEF TypeOK
<1>2. ASSUME NEW m \in BagToSet(net), process_inbound_udp(m) PROVE TypeOK'
  <2>1. m \in Packets
    BY <1>1
  <2>2. CASE receive_WHOHAS(m)  BY <2>1, <2>2, WhohasType
  <2>3. CASE receive_GET(m)
    BY <2>1, <2>3, RefuseType, DropType, AcceptType, Zenon DEF receive_GET
  <2>4. CASE receive_ACK(m)
    BY <2>1, <2>4, DropType, LastAckType, NewAckType, LossAckType, OldAckType, Zenon DEF receive_ACK
  <2>5. CASE receive_IHAVE(m)  BY <2>1, <2>5, IhaveType
  <2>6. CASE receive_DENIED(m)
    BY <2>1, <2>6, DropType, DropDeniedType, Zenon DEF receive_DENIED
  <2>7. CASE receive_DATA(m)
    BY <2>1, <2>7, DropType, StoreDataType, CompleteDataType, CorruptDataType, Zenon DEF receive_DATA
  <2> QED  BY <1>2, <2>2, <2>3, <2>4, <2>5, <2>6, <2>7, Zenon DEF process_inbound_udp
<1>3. ASSUME faults < MAX_FAULTS, faults' = faults + 1 PROVE faults' \in 0..MAX_FAULTS
  BY <1>1, <1>3, PeerAssumption
<1>4. ASSUME NEW m \in BagToSet(net), Lose(m) PROVE TypeOK'
  <2>1. BagToSet(net') \subseteq Packets
    BY <1>1, <1>4, Silent, Delivered, Zenon DEF Lose
  <2> QED  BY <1>3, <1>4, <2>1, Idle, Zenon DEF Lose, userVars
<1>5. ASSUME NEW m \in BagToSet(net), Duplicate(m) PROVE TypeOK'
  <2>1. m \in Packets
    BY <1>1
  <2>2. BagToSet(SetToBag({m})) = {m}
    BY BagSingle, Zenon
  <2>3. BagToSet(SetToBag({m})) \subseteq Packets
    BY <2>1, <2>2
  <2>4. BagToSet(net') \subseteq Packets
    BY <1>1, <1>5, <2>3, PlusOK, Zenon DEF Duplicate
  <2> QED  BY <1>3, <1>5, <2>4, Idle, Zenon DEF Duplicate, userVars
<1>6. ASSUME NEW p \in Peers, process_get(p) PROVE TypeOK'
  BY <1>6, GetType
<1>7. ASSUME NEW p \in Peers, QuietTimeout(p) PROVE TypeOK'
  <2>1. handle_timeout(p) /\ faults' \in 0..MAX_FAULTS
    BY <1>1, <1>7, Zenon DEF QuietTimeout
  <2> QED  BY <2>1, TimeoutType
<1>8. ASSUME NEW p \in Peers, EarlyTimeout(p) PROVE TypeOK'
  <2>1. handle_timeout(p) /\ faults' \in 0..MAX_FAULTS
    BY <1>3, <1>8, Zenon DEF EarlyTimeout
  <2> QED  BY <2>1, TimeoutType
<1>9. CASE UNCHANGED vars
  <2>1. UNCHANGED <<chunkVars, transferVars, request, net, faults>>
    BY <1>9, Zenon DEF vars, userVars
  <2>2. BagToSet(net') \subseteq Packets
    BY <1>1, <2>1, Zenon
  <2>3. faults' \in 0..MAX_FAULTS
    BY <1>1, <2>1, Zenon
  <2> QED  BY <2>1, <2>2, <2>3, Idle, Zenon
<1> QED  BY <1>2, <1>4, <1>5, <1>6, <1>7, <1>8, <1>9, Zenon DEF Next

\* The state keeps its shape, for every set of peers and files and for every
\* loss, duplication and delay: no handler follows a pointer outside its heap,
\* and no packet is sent that a handler cannot read.
THEOREM TypeCorrect == Spec => []TypeOK
  BY InitType, StepType, PTL DEF Spec

------------------------------------------------------------------------------
(* Uploads: the connections are bounded and their windows sane. *)

SaneUpload == {t \in Upload(Pointers) : WindowOK(t.cctrl)}

UploadsOK ==
    \A p \in Peers : uploads[p] \in Seq(SaneUpload) /\ Len(uploads[p]) <= MAX_CONN

\* A transfer with a sane window is a sane upload.
LEMMA SaneIntro ==
  ASSUME TypeOK, NEW p \in Peers, NEW t \in Upload(DOMAIN chunk[p]), WindowOK(t.cctrl)
  PROVE  t \in SaneUpload
<1>1. DOMAIN chunk[p] \subseteq Pointers
  BY Zenon DEF TypeOK, PeerOK, HeapOK
<1> QED  BY <1>1 DEF SaneUpload, Upload

\* The other peers' uploads stay as they are.
LEMMA UploadsFrame ==
  ASSUME TypeOK, UploadsOK, NEW p \in Peers, NEW up \in Seq(SaneUpload),
         uploads' = [uploads EXCEPT ![p] = up], Len(up) <= MAX_CONN
  PROVE  UploadsOK'
<1>1. \A q \in Peers : uploads'[q] = IF q = p THEN up ELSE uploads[q]
  BY DEF TypeOK
<1> QED  BY <1>1 DEF UploadsOK

\* A sane upload among p's transfers.
LEMMA SaneAt ==
  ASSUME TypeOK, UploadsOK, NEW p \in Peers, NEW i \in DOMAIN uploads[p]
  PROVE  /\ uploads[p] \in Seq(SaneUpload) /\ Len(uploads[p]) <= MAX_CONN
         /\ uploads[p][i] \in SaneUpload
         /\ uploads[p][i].cctrl \in CongestCtrl
         /\ WindowOK(uploads[p][i].cctrl)
<1>1. uploads[p] \in Seq(SaneUpload) /\ Len(uploads[p]) <= MAX_CONN
  BY DEF UploadsOK
<1>2. uploads[p][i] \in SaneUpload
  BY <1>1, LenProperties
<1>3. WindowOK(uploads[p][i].cctrl)
  BY <1>2 DEF SaneUpload
<1>4. uploads[p][i].cctrl \in CongestCtrl
  BY UploadAt
<1> QED  BY <1>1, <1>2, <1>3, <1>4

\* Replacing a control block by one with a sane window.
LEMMA SaneReplace ==
  ASSUME TypeOK, UploadsOK, NEW p \in Peers, NEW i \in DOMAIN uploads[p],
         NEW k \in CongestCtrl, WindowOK(k),
         uploads' = [uploads EXCEPT ![p] = [uploads[p] EXCEPT ![i].cctrl = k]]
  PROVE  UploadsOK'
<1> DEFINE t == [uploads[p][i] EXCEPT !.cctrl = k]
           up == [uploads[p] EXCEPT ![i] = t]
<1>1. uploads[p][i] \in SaneUpload /\ uploads[p] \in Seq(SaneUpload) /\ Len(uploads[p]) <= MAX_CONN
  BY SaneAt
<1>2. t \in SaneUpload
  BY <1>1 DEF SaneUpload, Upload
<1>3. uploads' = [uploads EXCEPT ![p] = up]
  BY Zenon
<1> HIDE DEF t
<1>4. up \in Seq(SaneUpload) /\ Len(up) = Len(uploads[p])
  <2>1. i \in 1..Len(uploads[p])
    BY <1>1, LenProperties
  <2> QED  BY <1>1, <1>2, <2>1, ExceptSeq
<1> HIDE DEF up
<1> QED  BY <1>1, <1>3, <1>4, UploadsFrame

\* receive_GET opens a transfer only below the limit.
LEMMA AcceptUploads ==
  ASSUME TypeOK, UploadsOK, NEW m \in Packets, accept_GET(m)
  PROVE  UploadsOK'
<1> DEFINE p == m.dst
           t(c) == [peer |-> m.src, c |-> c, cctrl |-> AfterSend(NewCongestCtrl)]
<1>1. PICK i \in node_find(Owned(p, m.hash)) :
         uploads' = [uploads EXCEPT ![p] = node_insert(uploads[p], t(have[p][i]))]
  BY DEF accept_GET
<1>2. p \in Peers /\ m.src \in Peers
  BY PacketFields
<1>3. ~(Len(uploads[p]) >= MAX_CONN)
  BY DEF accept_GET, ReachedMaxConn
<1> HIDE DEF p
<1>4. have[p][i] \in DOMAIN chunk[p]
  <2>1. i \in DOMAIN have[p]
    BY <1>1, NodeFind DEF Owned
  <2>2. have[p] \in Seq(DOMAIN chunk[p])
    BY <1>2, Zenon DEF TypeOK, PeerOK
  <2> QED  BY <2>1, <2>2, LenProperties
<1>5. AfterSend(NewCongestCtrl) \in CongestCtrl /\ WindowOK(AfterSend(NewCongestCtrl))
  BY NewCtrl, Sending DEF WindowOK
<1>6. t(have[p][i]) \in SaneUpload
  <2>1. t(have[p][i]) \in Upload(DOMAIN chunk[p]) /\ WindowOK(t(have[p][i]).cctrl)
    BY <1>2, <1>4, <1>5 DEF Upload
  <2> HIDE DEF t
  <2> QED  BY <1>2, <2>1, SaneIntro
<1> HIDE DEF t
<1>7. uploads[p] \in Seq(SaneUpload) /\ Len(uploads[p]) \in Nat
  BY <1>2, LenProperties DEF UploadsOK
<1>8. /\ node_insert(uploads[p], t(have[p][i])) \in Seq(SaneUpload)
      /\ Len(node_insert(uploads[p], t(have[p][i]))) = Len(uploads[p]) + 1
  BY <1>6, <1>7, NodeInsert, Zenon
<1>9. Len(node_insert(uploads[p], t(have[p][i]))) <= MAX_CONN
  BY <1>3, <1>7, <1>8, PeerAssumption
<1> QED  BY <1>1, <1>2, <1>8, <1>9, UploadsFrame, Zenon

\* The last ACK ends a transfer and starts none.
LEMMA LastAckUploads ==
  ASSUME TypeOK, UploadsOK, NEW m \in Packets, last_ACK(m)
  PROVE  UploadsOK'
<1>1. PICK i \in node_find(UploadsTo(m.dst, m.src)) :
         uploads' = [uploads EXCEPT ![m.dst] = node_delete(uploads[m.dst], i)]
  BY DEF last_ACK
<1>2. m.dst \in Peers
  BY PacketFields
<1>3. i \in DOMAIN uploads[m.dst]
  BY FoundUpload, Zenon
<1>4. uploads[m.dst] \in Seq(SaneUpload) /\ Len(uploads[m.dst]) <= MAX_CONN
  BY <1>2, Zenon DEF UploadsOK
<1>5. /\ node_delete(uploads[m.dst], i) \in Seq(SaneUpload)
      /\ Len(node_delete(uploads[m.dst], i)) <= Len(uploads[m.dst])
  BY <1>3, <1>4, NodeDelete, Zenon
<1>6. Len(node_delete(uploads[m.dst], i)) <= MAX_CONN
  BY <1>4, <1>5, LenProperties, PeerAssumption
<1> QED  BY <1>1, <1>2, <1>5, <1>6, UploadsFrame, Zenon

\* Sending from a control block whose window is where it should be.
LEMMA ContinueUploads ==
  ASSUME TypeOK, UploadsOK, NEW m \in Packets, NEW k \in CongestCtrl,
         k.begin <= k.index, k.begin < MAX_SEQ_NUM,
         k.congest_state = "SS" => k.wind_size < 2 * k.ssthresh,
         NEW i \in DOMAIN uploads[m.dst], Continue(m, i, k)
  PROVE  UploadsOK'
<1> DEFINE k2 == [AfterSend(k) EXCEPT !.timeout_count = 0]
<1>1. m.dst \in Peers
  BY PacketFields
<1>2. k2 \in CongestCtrl /\ WindowOK(k2)
  BY Sending, Alive
<1>3. uploads' = [uploads EXCEPT ![m.dst] = [uploads[m.dst] EXCEPT ![i].cctrl = k2]]
  BY DEF Continue
<1> HIDE DEF k2
<1> QED  BY <1>1, <1>2, <1>3, SaneReplace, Zenon

\* A new ACK moves the window and lets it grow.
LEMMA NewAckUploads ==
  ASSUME TypeOK, UploadsOK, NEW m \in Packets, new_ACK(m)
  PROVE  UploadsOK'
<1>1. m.dst \in Peers /\ m.ack \in 0..MAX_SEQ_NUM /\ m.ack # MAX_SEQ_NUM
  BY PacketFields DEF new_ACK
<1>2. PICK i \in node_find(UploadsTo(m.dst, m.src)) :
         \E k2 \in congestion_control(adjust_window(uploads[m.dst][i].cctrl, m.ack)) : Continue(m, i, k2)
  BY Zenon DEF new_ACK
<1>3. PICK k2 \in congestion_control(adjust_window(uploads[m.dst][i].cctrl, m.ack)) : Continue(m, i, k2)
  BY <1>2
<1>4. i \in DOMAIN uploads[m.dst]
  BY FoundUpload, Zenon
<1>5. uploads[m.dst][i].cctrl \in CongestCtrl /\ WindowOK(uploads[m.dst][i].cctrl)
  BY <1>1, <1>4, SaneAt
<1>6. k2 \in CongestCtrl /\ WindowOK(k2)
  <2> DEFINE moved == adjust_window(uploads[m.dst][i].cctrl, m.ack)
  <2>1. moved \in CongestCtrl /\ WindowOK(moved)
    BY <1>1, <1>5, MoveWindow, Zenon
  <2> HIDE DEF moved
  <2>2. k2 \in congestion_control(moved)
    BY <1>3 DEF moved
  <2> QED  BY <2>1, <2>2, Growth, Zenon
<1>7. k2.begin <= k2.index /\ k2.begin < MAX_SEQ_NUM
        /\ (k2.congest_state = "SS" => k2.wind_size < 2 * k2.ssthresh)
  BY <1>6, Zenon DEF WindowOK
<1> QED  BY <1>3, <1>4, <1>6, <1>7, ContinueUploads, Zenon

\* A loss goes back to the beginning of the window.
LEMMA LossAckUploads ==
  ASSUME TypeOK, UploadsOK, NEW m \in Packets, loss_ACK(m)
  PROVE  UploadsOK'
<1>1. m.dst \in Peers
  BY PacketFields
<1>2. PICK i \in node_find(UploadsTo(m.dst, m.src)) :
         Continue(m, i, detected_first_loss([uploads[m.dst][i].cctrl EXCEPT
                                               !.index = uploads[m.dst][i].cctrl.begin]))
  BY Zenon DEF loss_ACK
<1>3. i \in DOMAIN uploads[m.dst]
  BY FoundUpload, Zenon
<1> DEFINE k == uploads[m.dst][i].cctrl
           back == [k EXCEPT !.index = k.begin]
           k2 == detected_first_loss(back)
<1>4. k \in CongestCtrl /\ WindowOK(k)
  BY <1>1, <1>3, SaneAt
<1> HIDE DEF k
<1>5. back \in CongestCtrl /\ WindowOK(back)
  BY <1>4 DEF CongestCtrl, WindowOK
<1> HIDE DEF back
<1>6. k2 \in CongestCtrl /\ WindowOK(k2)
  BY <1>5, Loss
<1> HIDE DEF k2
<1>7. k2.begin <= k2.index /\ k2.begin < MAX_SEQ_NUM
        /\ (k2.congest_state = "SS" => k2.wind_size < 2 * k2.ssthresh)
  BY <1>6, Zenon DEF WindowOK
<1>8. Continue(m, i, k2)
  BY <1>2 DEF k2, back, k
<1> QED  BY <1>3, <1>6, <1>7, <1>8, ContinueUploads, Zenon

\* Another duplicate stays below the count of a loss.
LEMMA OldAckUploads ==
  ASSUME TypeOK, UploadsOK, NEW m \in Packets, old_ACK(m)
  PROVE  UploadsOK'
<1>1. m.dst \in Peers /\ m.ack \in 0..MAX_SEQ_NUM
  BY PacketFields DEF old_ACK
<1>2. PICK i \in node_find(UploadsTo(m.dst, m.src)) :
         /\ \/ m.ack < uploads[m.dst][i].cctrl.begin
            \/ /\ m.ack = uploads[m.dst][i].cctrl.begin
               /\ uploads[m.dst][i].cctrl.dup_count + 1 < MAX_DUP_ACKS
         /\ uploads' = [uploads EXCEPT ![m.dst][i].cctrl =
                        [uploads[m.dst][i].cctrl EXCEPT
                           !.dup_count = IF m.ack = uploads[m.dst][i].cctrl.begin THEN @ + 1 ELSE @,
                           !.timeout_count = 0]]
  BY Zenon DEF old_ACK
<1>3. i \in DOMAIN uploads[m.dst]
  BY FoundUpload, Zenon
<1> DEFINE k == uploads[m.dst][i].cctrl
           n == IF m.ack = k.begin THEN k.dup_count + 1 ELSE k.dup_count
           j == [k EXCEPT !.dup_count = n]
           k2 == [j EXCEPT !.timeout_count = 0]
<1>4. k2 \in CongestCtrl /\ WindowOK(k2)
  <2>1. k \in CongestCtrl /\ WindowOK(k)
    BY <1>1, <1>3, SaneAt
  <2>2. m.ack < k.begin \/ (m.ack = k.begin /\ k.dup_count + 1 < MAX_DUP_ACKS)
    BY <1>2
  <2> HIDE DEF k
  <2>3. n \in Nat /\ n < MAX_DUP_ACKS
    BY <1>1, <2>1, <2>2, CongestionAssumption DEF CongestCtrl, WindowOK
  <2> HIDE DEF n
  <2>4. j \in CongestCtrl /\ WindowOK(j)
    BY <2>1, <2>3 DEF CongestCtrl, WindowOK
  <2> HIDE DEF j
  <2> QED  BY <2>4, Alive
<1>5. uploads' = [uploads EXCEPT ![m.dst] = [uploads[m.dst] EXCEPT ![i].cctrl = k2]]
  BY <1>2, Zenon
<1> HIDE DEF k2
<1> QED  BY <1>1, <1>3, <1>4, <1>5, SaneReplace, Zenon

\* A timeout of the server side: every surviving window takes a loss.
LEMMA TimeoutUploads ==
  ASSUME TypeOK, UploadsOK, NEW p \in Peers, handle_timeout(p)
  PROVE  UploadsOK'
<1> DEFINE list == [i \in DOMAIN uploads[p] |->
                       [uploads[p][i] EXCEPT !.cctrl = TimedOut(uploads[p][i].cctrl)]]
<1>1. uploads' = [uploads EXCEPT ![p] = UploadsAfterTimeout(p)]
  BY Zenon DEF handle_timeout
<1>2. UploadsAfterTimeout(p) = node_keep(list, SurvivingUploads(p))
  BY Zenon DEF UploadsAfterTimeout
<1>3. uploads[p] \in Seq(SaneUpload) /\ Len(uploads[p]) <= MAX_CONN /\ Len(uploads[p]) \in Nat
  BY LenProperties DEF UploadsOK
<1>4. ASSUME NEW i \in DOMAIN uploads[p]
      PROVE  [uploads[p][i] EXCEPT !.cctrl = TimedOut(uploads[p][i].cctrl)] \in SaneUpload
  <2> DEFINE k == TimedOut(uploads[p][i].cctrl)
  <2>1. /\ uploads[p][i] \in SaneUpload /\ uploads[p][i].cctrl \in CongestCtrl
        /\ WindowOK(uploads[p][i].cctrl)
    BY SaneAt
  <2>2. k \in CongestCtrl /\ WindowOK(k)
    BY <2>1, CountTimeout, Loss DEF TimedOut
  <2> HIDE DEF k
  <2>3. [uploads[p][i] EXCEPT !.cctrl = k] \in SaneUpload
    BY <2>1, <2>2 DEF SaneUpload, Upload
  <2> QED  BY <2>3 DEF k
<1>5. list \in [DOMAIN uploads[p] -> SaneUpload]
  BY <1>4, Zenon
<1>6. SurvivingUploads(p) \in SUBSET (DOMAIN uploads[p])
  BY DEF SurvivingUploads
<1> HIDE DEF list
<1>7. list \in Seq(SaneUpload) /\ DOMAIN list = DOMAIN uploads[p] /\ Len(list) = Len(uploads[p])
  BY <1>3, <1>5, FunctionSeq
<1> DEFINE kept == node_keep(list, SurvivingUploads(p))
<1>8. kept \in Seq(SaneUpload) /\ Len(kept) <= Len(list)
  BY <1>6, <1>7, NodeKeep, Zenon
<1> HIDE DEF kept
<1>9. Len(kept) <= MAX_CONN
  BY <1>3, <1>7, <1>8, LenProperties, PeerAssumption
<1>10. uploads' = [uploads EXCEPT ![p] = kept]
  BY <1>1, <1>2 DEF kept
<1> QED  BY <1>8, <1>9, <1>10, UploadsFrame, Zenon

\* Every step keeps the uploads bounded and sane.
LEMMA UploadsStep == TypeOK /\ UploadsOK /\ [Next]_vars => UploadsOK'
<1> SUFFICES ASSUME TypeOK, UploadsOK, [Next]_vars PROVE UploadsOK'
  OBVIOUS
<1>1. ASSUME uploads' = uploads PROVE UploadsOK'
  BY <1>1, Zenon DEF UploadsOK
<1>2. ASSUME NEW m \in BagToSet(net), process_inbound_udp(m) PROVE UploadsOK'
  <2>1. m \in Packets
    BY DEF TypeOK
  <2>2. CASE receive_WHOHAS(m)
    BY <1>1, <2>2, Zenon DEF receive_WHOHAS, transferVars
  <2>3. CASE receive_GET(m)
    BY <1>1, <2>1, <2>3, AcceptUploads, Zenon
    DEF receive_GET, refuse_GET, ignore_GET, transferVars
  <2>4. CASE receive_ACK(m)
    BY <1>1, <2>1, <2>4, LastAckUploads, NewAckUploads, LossAckUploads, OldAckUploads, Zenon
    DEF receive_ACK, stray_ACK, transferVars
  <2>5. CASE receive_IHAVE(m)
    BY <1>1, <2>5, Zenon DEF receive_IHAVE
  <2>6. CASE receive_DENIED(m)
    BY <1>1, <2>6, Zenon DEF receive_DENIED, stray_DENIED, drop_DENIED, transferVars
  <2>7. CASE receive_DATA(m)
    BY <1>1, <2>7, Zenon
    DEF receive_DATA, stray_DATA, store_DATA, complete_DATA, corrupt_DATA, transferVars
  <2> QED  BY <1>2, <2>2, <2>3, <2>4, <2>5, <2>6, <2>7, Zenon DEF process_inbound_udp
<1>3. ASSUME NEW m, Lose(m) \/ Duplicate(m) PROVE UploadsOK'
  BY <1>1, <1>3, Zenon DEF Lose, Duplicate, transferVars
<1>4. ASSUME NEW p \in Peers, process_get(p) PROVE UploadsOK'
  BY <1>1, <1>4, Zenon DEF process_get, transferVars
<1>5. ASSUME NEW p \in Peers, QuietTimeout(p) \/ EarlyTimeout(p) PROVE UploadsOK'
  BY <1>5, TimeoutUploads, Zenon DEF QuietTimeout, EarlyTimeout
<1>6. CASE UNCHANGED vars
  BY <1>1, <1>6, Zenon DEF vars, transferVars
<1> QED  BY <1>2, <1>3, <1>4, <1>5, <1>6, Zenon DEF Next

\* There are no uploads at the start.
LEMMA UploadsInit == Init => UploadsOK
<1> SUFFICES ASSUME Init PROVE UploadsOK
  OBVIOUS
<1>1. \A p \in Peers : uploads[p] = << >>
  BY DEF Init
<1>2. << >> \in Seq(SaneUpload) /\ Len(<< >>) = 0
  BY EmptySeq
<1>3. 0 <= MAX_CONN
  BY PeerAssumption
<1> QED  BY <1>1, <1>2, <1>3, Zenon DEF UploadsOK

\* The server never has more than -m transfers, whatever GETs arrive when.
THEOREM ConnectionsBounded == Spec => []UploadLimit
<1>1. UploadsOK => UploadLimit
  BY Zenon DEF UploadsOK, UploadLimit
<1> QED  BY <1>1, InitType, StepType, UploadsInit, UploadsStep, PTL DEF Spec

\* Whatever ACKs arrive, of whichever chunk and in whatever order, a window
\* never begins after what was sent, and slow start stays below its bound.
THEOREM WindowsSane == Spec => []WindowSane
<1>1. TypeOK /\ UploadsOK => WindowSane
  BY SaneAt DEF WindowSane
<1> QED  BY <1>1, InitType, StepType, UploadsInit, UploadsStep, PTL DEF Spec

------------------------------------------------------------------------------
(* Integrity: an intact chunk stays intact, and only intact chunks come to *)
(* be owned.                                                               *)

\* The chunk r of p's heap does not lose what it has.
StaysIntact(heap, p) == \A r \in DOMAIN chunk[p] : Intact(chunk[p][r]) => Intact(heap[r])

\* A heap in which intact chunks stay intact, under an unchanged have list.
LEMMA SameHave ==
  ASSUME TypeOK, HaveValid, NEW p \in Peers, NEW heap,
         chunk' = [chunk EXCEPT ![p] = heap], StaysIntact(heap, p), have' = have
  PROVE  HaveValid'
<1>1. SUFFICES ASSUME NEW q \in Peers, NEW i \in DOMAIN have[q]
               PROVE  Intact(chunk'[q][have[q][i]])
  BY DEF HaveValid, Intact
<1>2. Intact(chunk[q][have[q][i]])
  BY Zenon DEF HaveValid
<1>3. have[q][i] \in DOMAIN chunk[q]
  <2>1. have[q] \in Seq(DOMAIN chunk[q])
    BY Zenon DEF TypeOK, PeerOK
  <2> QED  BY <2>1, LenProperties
<1>4. chunk'[q] = IF q = p THEN heap ELSE chunk[q]
  BY DEF TypeOK
<1>5. CASE q = p  BY <1>2, <1>3, <1>4, <1>5, Zenon DEF StaysIntact
<1>6. CASE q # p  BY <1>2, <1>4, <1>6, Zenon
<1> QED  BY <1>5, <1>6

\* Nothing happens to chunks and have lists.
LEMMA UntouchedHave ==
  ASSUME HaveValid, chunk' = chunk, have' = have
  PROVE  HaveValid'
  BY Zenon DEF HaveValid, Intact

\* Storing a packet in an intact chunk changes nothing: every bit is set.
LEMMA IntactStored ==
  ASSUME NEW c \in Chunk, Intact(c), NEW s \in SeqNums, NEW b
  PROVE  data_store(c.data, s, b) = c.data
<1>1. c.hash \in Hashes
  BY DEF Chunk
<1>2. c.data[s] = c.hash
  BY DEF Intact
<1> QED  BY <1>1, <1>2, PeerAssumption DEF data_store

\* Replacing the data of the chunk r of a heap.
LEMMA Replaced ==
  ASSUME NEW heap, HeapOK(heap), NEW c \in DOMAIN heap, NEW d, NEW r \in DOMAIN heap
  PROVE  /\ [heap EXCEPT ![c].data = d][r].hash = heap[r].hash
         /\ [heap EXCEPT ![c].data = d][r].data = IF r = c THEN d ELSE heap[r].data
<1> DEFINE new == [heap[c] EXCEPT !.data = d]
<1>1. heap[c] \in Chunk
  BY Zenon DEF HeapOK
<1>2. new.data = d /\ new.hash = heap[c].hash
  BY <1>1 DEF Chunk
<1> HIDE DEF new
<1>3. [heap EXCEPT ![c] = new][r] = IF r = c THEN new ELSE heap[r]
  BY DEF HeapOK
<1>4. /\ [heap EXCEPT ![c] = new][r].hash = heap[r].hash
      /\ [heap EXCEPT ![c] = new][r].data = IF r = c THEN d ELSE heap[r].data
  BY <1>2, <1>3
<1> QED  BY <1>4, Zenon DEF new

\* Storing a packet in the chunk of a transfer.
LEMMA StoredIntact ==
  ASSUME TypeOK, NEW m \in Packets, m.type = "DATA",
         NEW i \in node_find(DownloadsFrom(m.dst, m.src))
  PROVE  StaysIntact([chunk[m.dst] EXCEPT ![downloads[m.dst][i].c].data = Stored(m, i)], m.dst)
<1> DEFINE p == m.dst
           c == downloads[p][i].c
           heap == [chunk[p] EXCEPT ![c].data = Stored(m, i)]
<1>1. p \in Peers /\ m.seq \in SeqNums
  BY PacketFields
<1>2. c \in DOMAIN chunk[p] /\ chunk[p][c] \in Chunk
  BY <1>1, DownloadAt
<1>3. HeapOK(chunk[p])
  BY <1>1, Zenon DEF TypeOK, PeerOK
<1>4. Stored(m, i) = data_store(chunk[p][c].data, m.seq, m.data)
  BY DEF Stored
<1> HIDE DEF p, c
<1>5. ASSUME NEW r \in DOMAIN chunk[p], Intact(chunk[p][r]) PROVE Intact(heap[r])
  <2>1. heap[r].hash = chunk[p][r].hash /\ heap[r].data = IF r = c THEN Stored(m, i) ELSE chunk[p][r].data
    BY <1>2, <1>3, Replaced
  <2>2. r = c => Stored(m, i) = chunk[p][r].data
    BY <1>1, <1>2, <1>4, <1>5, IntactStored
  <2>3. heap[r].data = chunk[p][r].data
    BY <2>1, <2>2
  <2> HIDE DEF heap
  <2> QED  BY <1>5, <2>1, <2>3 DEF Intact
<1> QED  BY <1>5, Zenon DEF StaysIntact, p, c

\* A chunk that fails validate_chunk was not intact before the packet.
LEMMA CorruptIntact ==
  ASSUME TypeOK, NEW m \in Packets, m.type = "DATA",
         NEW i \in node_find(DownloadsFrom(m.dst, m.src)),
         ~validate_chunk(Stored(m, i), chunk[m.dst][downloads[m.dst][i].c].hash), NEW d
  PROVE  StaysIntact([chunk[m.dst] EXCEPT ![downloads[m.dst][i].c].data = d], m.dst)
<1> DEFINE p == m.dst
           c == downloads[p][i].c
           heap == [chunk[p] EXCEPT ![c].data = d]
<1>1. p \in Peers /\ m.seq \in SeqNums
  BY PacketFields
<1>2. c \in DOMAIN chunk[p] /\ chunk[p][c] \in Chunk
  BY <1>1, DownloadAt
<1>3. HeapOK(chunk[p])
  BY <1>1, Zenon DEF TypeOK, PeerOK
<1>4. Stored(m, i) = data_store(chunk[p][c].data, m.seq, m.data)
  BY DEF Stored
<1>5. ~validate_chunk(Stored(m, i), chunk[p][c].hash)
  OBVIOUS
<1> HIDE DEF p, c
<1>6. ~Intact(chunk[p][c])
  <2> SUFFICES ASSUME Intact(chunk[p][c]) PROVE FALSE
    OBVIOUS
  <2>1. Stored(m, i) = chunk[p][c].data
    BY <1>1, <1>2, <1>4, IntactStored
  <2> QED  BY <1>5, <2>1, Zenon DEF Intact, validate_chunk
<1>7. ASSUME NEW r \in DOMAIN chunk[p], Intact(chunk[p][r]) PROVE Intact(heap[r])
  <2>1. r # c
    BY <1>6, <1>7
  <2>2. heap[r].hash = chunk[p][r].hash /\ heap[r].data = chunk[p][r].data
    BY <1>2, <1>3, <2>1, Replaced
  <2> HIDE DEF heap
  <2> QED  BY <1>7, <2>2 DEF Intact
<1> QED  BY <1>7, Zenon DEF StaysIntact, p, c

\* receive_DATA, while the chunk is not complete, leaves owned chunks intact.
LEMMA StoreHave ==
  ASSUME TypeOK, HaveValid, NEW m \in Packets, store_DATA(m)
  PROVE  HaveValid'
<1> DEFINE heap(i) == [chunk[m.dst] EXCEPT ![downloads[m.dst][i].c].data = Stored(m, i)]
<1>1. PICK i \in node_find(DownloadsFrom(m.dst, m.src)) :
          chunk' = [chunk EXCEPT ![m.dst] = heap(i)]
  BY Zenon DEF store_DATA
<1>2. have' = have /\ m.type = "DATA" /\ m.dst \in Peers
  BY PacketFields DEF store_DATA
<1>3. StaysIntact(heap(i), m.dst)
  BY <1>1, <1>2, StoredIntact
<1> HIDE DEF heap
<1> QED  BY <1>1, <1>2, <1>3, SameHave, Zenon

\* Emptying a corrupt chunk empties no owned one.
LEMMA CorruptHave ==
  ASSUME TypeOK, HaveValid, NEW m \in Packets, corrupt_DATA(m)
  PROVE  HaveValid'
<1> DEFINE heap(i) == [chunk[m.dst] EXCEPT ![downloads[m.dst][i].c].data = [s \in SeqNums |-> Unset]]
<1>1. PICK i \in node_find(DownloadsFrom(m.dst, m.src)) :
          /\ chunk' = [chunk EXCEPT ![m.dst] = heap(i)]
          /\ ~validate_chunk(Stored(m, i), chunk[m.dst][downloads[m.dst][i].c].hash)
  BY Zenon DEF corrupt_DATA
<1>2. have' = have /\ m.type = "DATA" /\ m.dst \in Peers
  BY PacketFields DEF corrupt_DATA
<1>3. StaysIntact(heap(i), m.dst)
  BY <1>1, <1>2, CorruptIntact, Zenon
<1> HIDE DEF heap
<1> QED  BY <1>1, <1>2, <1>3, SameHave, Zenon

\* The chunk that comes to be owned has passed validate_chunk.
LEMMA CompleteHave ==
  ASSUME TypeOK, HaveValid, NEW m \in Packets, complete_DATA(m)
  PROVE  HaveValid'
<1> DEFINE p == m.dst
           c(i) == downloads[p][i].c
           heap(i) == [chunk[p] EXCEPT ![c(i)].data = Stored(m, i)]
<1>1. PICK i \in node_find(DownloadsFrom(p, m.src)) :
              /\ validate_chunk(Stored(m, i), chunk[p][c(i)].hash)
              /\ chunk' = [chunk EXCEPT ![p] = heap(i)]
              /\ have' = have \/ have' = [have EXCEPT ![p] = node_insert(have[p], c(i))]
  BY Zenon DEF complete_DATA
<1>2. m.type = "DATA" /\ p \in Peers
  BY PacketFields DEF complete_DATA
<1>3. c(i) \in DOMAIN chunk[p] /\ HeapOK(chunk[p])
  BY <1>1, <1>2, DownloadAt DEF TypeOK, PeerOK
<1>4. StaysIntact(heap(i), p)
  BY <1>1, <1>2, StoredIntact
<1>5. Intact(heap(i)[c(i)])
  <2>1. ASSUME NEW r \in DOMAIN chunk[p], r = c(i)
        PROVE  heap(i)[r].hash = chunk[p][r].hash /\ heap(i)[r].data = Stored(m, i)
    <3> HIDE DEF c, p
    <3>1. /\ heap(i)[r].hash = chunk[p][r].hash
          /\ heap(i)[r].data = IF r = c(i) THEN Stored(m, i) ELSE chunk[p][r].data
      BY <1>3, Replaced
    <3> QED  BY <2>1, <3>1
  <2> HIDE DEF heap, c
  <2> QED  BY <1>1, <1>3, <2>1 DEF Intact, validate_chunk
<1> HIDE DEF heap, c
<1>6. CASE have' = have
  BY <1>1, <1>2, <1>4, <1>6, SameHave, Zenon
<1>7. CASE have' = [have EXCEPT ![p] = node_insert(have[p], c(i))]
  <2>1. chunk'[p] = heap(i) /\ have'[p] = node_insert(have[p], c(i))
    BY <1>1, <1>2, <1>7 DEF TypeOK
  <2>2. \A q \in Peers \ {p} : chunk'[q] = chunk[q] /\ have'[q] = have[q]
    BY <1>1, <1>7 DEF TypeOK
  <2>3. have[p] \in Seq(DOMAIN chunk[p])
    BY <1>2, Zenon DEF TypeOK, PeerOK
  <2>4. ASSUME NEW j \in DOMAIN have'[p] PROVE Intact(chunk'[p][have'[p][j]])
    <3>1. have'[p][j] = c(i) \/ \E k \in DOMAIN have[p] : have'[p][j] = have[p][k]
      <4> DEFINE new == node_insert(have[p], c(i))
      <4>1. \A x \in DOMAIN new : new[x] = c(i) \/ \E k \in DOMAIN have[p] : new[x] = have[p][k]
        <5> HIDE DEF p
        <5> QED  BY <1>3, <2>3, LenProperties, ConcatProperties DEF node_insert
      <4>2. have'[p] = new
        BY <2>1
      <4> HIDE DEF new
      <4> QED  BY <4>1, <4>2, Zenon
    <3>2. CASE have'[p][j] = c(i)  BY <1>5, <2>1, <3>2
    <3>3. CASE \E k \in DOMAIN have[p] : have'[p][j] = have[p][k]
      <4>1. PICK k \in DOMAIN have[p] : have'[p][j] = have[p][k]
        BY <3>3
      <4>2. have[p][k] \in DOMAIN chunk[p]
        BY <2>3, <4>1, LenProperties
      <4>3. Intact(chunk[p][have[p][k]])
        BY <1>2, <4>1, Zenon DEF HaveValid
      <4> QED  BY <1>4, <2>1, <4>1, <4>2, <4>3, Zenon DEF StaysIntact
    <3> QED  BY <3>1, <3>2, <3>3
  <2>5. ASSUME NEW q \in Peers, NEW j \in DOMAIN have'[q] PROVE Intact(chunk'[q][have'[q][j]])
    <3>1. CASE q = p  BY <2>4, <2>5, <3>1, Zenon
    <3>2. CASE q # p
      <4>1. chunk'[q] = chunk[q] /\ have'[q] = have[q]
        BY <2>2, <3>2
      <4> QED  BY <2>5, <4>1, Zenon DEF HaveValid
    <3> QED  BY <3>1, <3>2
  <2> QED  BY <2>5, Zenon DEF HaveValid, Intact
<1> QED  BY <1>1, <1>6, <1>7, Zenon

\* Changes of a chunk that leave its data and its hash alone.
LEMMA OtherFields ==
  ASSUME NEW c \in Chunk, Intact(c), NEW v
  PROVE  Intact([c EXCEPT !.peer = v]) /\ Intact([c EXCEPT !.id = v])
  BY DEF Chunk, Intact

\* receive_IHAVE changes only the owners of chunks.
LEMMA IhaveHave ==
  ASSUME TypeOK, HaveValid, NEW m \in Packets, receive_IHAVE(m)
  PROVE  HaveValid'
<1> DEFINE p == m.dst
           q == m.src
           claimed == {r \in ToSet(missing[p]) : chunk[p][r].hash \in m.hashes}
           c(r) == IF r \in claimed /\ ~peer_exist_in_list(chunk[p][r].peer, q)
                     THEN [chunk[p][r] EXCEPT !.peer = node_insert(chunk[p][r].peer, q)]
                     ELSE chunk[p][r]
           heap == [r \in DOMAIN chunk[p] |-> c(r)]
<1>1. chunk' = [chunk EXCEPT ![p] = heap]
  BY Zenon DEF receive_IHAVE
<1>2. have' = have
  BY Zenon DEF receive_IHAVE
<1>3. p \in Peers
  BY PacketFields
<1> HIDE DEF p, q
<1>4. ASSUME NEW r \in DOMAIN chunk[p], Intact(chunk[p][r]) PROVE Intact(c(r))
  <2>1. chunk[p][r] \in Chunk
    BY <1>3, Zenon DEF TypeOK, PeerOK, HeapOK
  <2>2. Intact([chunk[p][r] EXCEPT !.peer = node_insert(chunk[p][r].peer, q)])
    BY <1>4, <2>1, OtherFields, Zenon
  <2> QED  BY <1>4, <2>2, Zenon
<1> HIDE DEF c
<1>5. StaysIntact(heap, p)
  BY <1>4 DEF StaysIntact
<1> HIDE DEF heap
<1> QED  BY <1>1, <1>2, <1>3, <1>5, SameHave, Zenon

\* process_get changes only the ids of chunks that exist.
LEMMA GetHave ==
  ASSUME TypeOK, HaveValid, NEW p \in Peers, process_get(p)
  PROVE  HaveValid'
<1> DEFINE n == request[p] + 1
           lines == GetFiles[p][n]
           heap == HeapAfterGet(p, n, lines)
<1>1. chunk' = [chunk EXCEPT ![p] = heap] /\ have' = have
  BY Zenon DEF process_get
<1> HIDE DEF n, lines
<1>2. ASSUME NEW r \in DOMAIN chunk[p], Intact(chunk[p][r]) PROVE Intact(heap[r])
  <2> DEFINE LinesOf(x) == {l \in DOMAIN lines : ChunkOfLine(p, n, lines, l) = x}
             NewId(x) == lines[CHOOSE l \in LinesOf(x) : \A k \in LinesOf(x) : k <= l].id
             Base(x) == IF x \in DOMAIN chunk[p] THEN chunk[p][x]
                                                 ELSE create_chunk(lines[x[2]].id, lines[x[2]].hash)
             D == DOMAIN chunk[p] \cup {<<n, l>> : l \in AbsentLines(p, lines)}
             new(x) == IF LinesOf(x) = {} THEN Base(x) ELSE [Base(x) EXCEPT !.id = NewId(x)]
  <2>1. heap = [x \in D |-> new(x)]
    BY Zenon DEF HeapAfterGet
  <2>2. Base(r) = chunk[p][r] /\ r \in D
    OBVIOUS
  <2>3. chunk[p][r] \in Chunk
    BY Zenon DEF TypeOK, PeerOK, HeapOK
  <2> HIDE DEF LinesOf, NewId, Base, D
  <2>4. Intact([Base(r) EXCEPT !.id = NewId(r)])
    BY <1>2, <2>2, <2>3, OtherFields, Zenon
  <2>5. Intact(new(r))
    BY <1>2, <2>2, <2>4, Zenon
  <2> HIDE DEF new, heap
  <2>6. heap[r] = new(r)
    BY <2>1, <2>2
  <2> QED  BY <2>5, <2>6
<1>3. StaysIntact(heap, p)
  <2> HIDE DEF heap
  <2> QED  BY <1>2, Zenon DEF StaysIntact
<1> HIDE DEF heap
<1> QED  BY <1>1, <1>3, SameHave, Zenon

\* A timeout changes only the owners of chunks.
LEMMA TimeoutHave ==
  ASSUME TypeOK, HaveValid, NEW p \in Peers, handle_timeout(p)
  PROVE  HaveValid'
<1>1. have' = have /\ (chunk' = chunk \/ chunk' = [chunk EXCEPT ![p] = ForgetDeadPeers(p)])
  BY Zenon DEF handle_timeout, handle_client_timeout
<1>2. StaysIntact(ForgetDeadPeers(p), p)
  <2> DEFINE rest(r) == node_keep(chunk[p][r].peer,
                          {k \in DOMAIN chunk[p][r].peer : chunk[p][r].peer[k] \notin DeadPeers(p)})
             new(r) == IF r \in ToSet(missing[p]) THEN [chunk[p][r] EXCEPT !.peer = rest(r)]
                                                  ELSE chunk[p][r]
  <2>1. ForgetDeadPeers(p) = [r \in DOMAIN chunk[p] |-> new(r)]
    BY Zenon DEF ForgetDeadPeers
  <2>2. ASSUME NEW r \in DOMAIN chunk[p], Intact(chunk[p][r]) PROVE Intact(new(r))
    <3>1. chunk[p][r] \in Chunk
      BY Zenon DEF TypeOK, PeerOK, HeapOK
    <3> HIDE DEF rest
    <3>2. Intact([chunk[p][r] EXCEPT !.peer = rest(r)])
      BY <2>2, <3>1, OtherFields, Zenon
    <3> QED  BY <2>2, <3>2, Zenon
  <2> HIDE DEF new
  <2> QED  BY <2>1, <2>2 DEF StaysIntact
<1> QED  BY <1>1, <1>2, SameHave, UntouchedHave, Zenon

\* Every step keeps the owned chunks intact.
LEMMA HaveStep == TypeOK /\ HaveValid /\ [Next]_vars => HaveValid'
<1> SUFFICES ASSUME TypeOK, HaveValid, [Next]_vars PROVE HaveValid'
  OBVIOUS
<1>1. ASSUME UNCHANGED chunkVars PROVE HaveValid'
  BY <1>1, UntouchedHave, Zenon DEF chunkVars
<1>2. ASSUME NEW m \in BagToSet(net), process_inbound_udp(m) PROVE HaveValid'
  <2>1. m \in Packets
    BY DEF TypeOK
  <2>2. CASE receive_WHOHAS(m)
    BY <1>1, <2>2, Zenon DEF receive_WHOHAS
  <2>3. CASE receive_GET(m)
    BY <1>1, <2>3, Zenon DEF receive_GET, refuse_GET, ignore_GET, accept_GET
  <2>4. CASE receive_ACK(m)
    <3>1. UNCHANGED chunkVars
      BY <2>4, Zenon
      DEF receive_ACK, stray_ACK, last_ACK, new_ACK, loss_ACK, old_ACK, Continue
    <3> QED  BY <1>1, <3>1, Zenon
  <2>5. CASE receive_IHAVE(m)  BY <2>1, <2>5, IhaveHave
  <2>6. CASE receive_DENIED(m)
    BY <1>1, <2>6, Zenon DEF receive_DENIED, stray_DENIED, drop_DENIED
  <2>7. CASE receive_DATA(m)
    BY <1>1, <2>1, <2>7, StoreHave, CompleteHave, CorruptHave, Zenon DEF receive_DATA, stray_DATA
  <2> QED  BY <1>2, <2>2, <2>3, <2>4, <2>5, <2>6, <2>7, Zenon DEF process_inbound_udp
<1>3. ASSUME NEW m, Lose(m) \/ Duplicate(m) PROVE HaveValid'
  BY <1>1, <1>3, Zenon DEF Lose, Duplicate
<1>4. ASSUME NEW p \in Peers, process_get(p) PROVE HaveValid'
  BY <1>4, GetHave
<1>5. ASSUME NEW p \in Peers, QuietTimeout(p) \/ EarlyTimeout(p) PROVE HaveValid'
  BY <1>5, TimeoutHave, Zenon DEF QuietTimeout, EarlyTimeout
<1>6. CASE UNCHANGED vars
  BY <1>1, <1>6, Zenon DEF vars
<1> QED  BY <1>2, <1>3, <1>4, <1>5, <1>6, Zenon DEF Next

\* The chunks loaded from the master file are intact.
LEMMA HaveInit == FilesAgree /\ Init => HaveValid
<1> SUFFICES ASSUME FilesAgree, Init, NEW p \in Peers, NEW i \in DOMAIN have[p]
             PROVE  Intact(chunk[p][have[p][i]])
  BY Zenon DEF HaveValid
<1>1. HasFile[p] \in Seq(Line) /\ Len(HasFile[p]) \in Nat /\ DOMAIN HasFile[p] = 1..Len(HasFile[p])
  BY PeerAssumption, LenProperties
<1> DEFINE list == [l \in DOMAIN HasFile[p] |-> <<0, l>>]
<1>2. have[p] = Reverse(list)
  BY DEF Init, parse_chunkfile
<1>3. list \in Seq({<<0, l>> : l \in DOMAIN HasFile[p]})
  <2>1. list \in [DOMAIN HasFile[p] -> {<<0, l>> : l \in DOMAIN HasFile[p]}]
    OBVIOUS
  <2> HIDE DEF list
  <2> QED  BY <1>1, <2>1, FunctionSeq
<1> HIDE DEF list
<1>4. have[p] \in Seq({<<0, l>> : l \in DOMAIN HasFile[p]})
  BY <1>2, <1>3, ReverseList
<1>5. have[p][i] \in {<<0, l>> : l \in DOMAIN HasFile[p]}
  <2> DEFINE R == {<<0, l>> : l \in DOMAIN HasFile[p]}
  <2>1. have[p] \in Seq(R)
    BY <1>4
  <2> HIDE DEF R
  <2>2. have[p][i] \in R
    BY <2>1, LenProperties
  <2> QED  BY <2>2 DEF R
<1>6. PICK l \in DOMAIN HasFile[p] : have[p][i] = <<0, l>>
  BY <1>5
<1>7. chunk[p][<<0, l>>] = LoadedChunk(HasFile[p][l])
  BY DEF Init
<1> DEFINE c == create_chunk(HasFile[p][l].id, HasFile[p][l].hash)
           d == [s \in SeqNums |-> read_chunk_data_file_by_id(c.id)]
<1>8. c \in Chunk
  BY <1>1, LineAt, CreateType, Zenon
<1>9. c.hash = HasFile[p][l].hash /\ c.id = HasFile[p][l].id % ID_WIDTH
  BY DEF create_chunk
<1>10. read_chunk_data_file_by_id(c.id) = c.hash
  BY <1>9 DEF FilesAgree
<1>11. LoadedChunk(HasFile[p][l]) = [c EXCEPT !.data = d]
  BY Zenon DEF LoadedChunk
<1> HIDE DEF c
<1>12. \A s \in SeqNums : d[s] = c.hash
  BY <1>10
<1> HIDE DEF d
<1>13. Intact([c EXCEPT !.data = d])
  BY <1>8, <1>12 DEF Chunk, Intact
<1> QED  BY <1>6, <1>7, <1>11, <1>13

\* Integrity for every number of peers, chunks, packets and faults: when the
\* has-chunk files describe the master file, no loss, duplication, delay or
\* packet of another chunk makes a peer own a chunk with the wrong data.
THEOREM Integrity == FilesAgree /\ Spec => []HaveValid
  BY InitType, StepType, HaveInit, HaveStep, PTL DEF Spec
==============================================================================
