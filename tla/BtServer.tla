------------------------------- MODULE BtServer -------------------------------
(***************************************************************************)
(* bt_server.c: the uploading side of a peer.  It answers WHOHAS, opens a  *)
(* transfer for a GET, and pushes DATA packets through a sliding window    *)
(* that ACKs move.  One action per way through a handler.                  *)
(***************************************************************************)
EXTENDS PeerState

\* Positions of p's uploads to peer q.
UploadsTo(p, q) == {i \in DOMAIN uploads[p] : uploads[p][i].peer = q}

\* Mutant: a chunk in flight is not noticed.
UploadsOf_None(p, h) == {}

\* Positions of p's uploads of the chunk h.
UploadsOf(p, h) == {i \in DOMAIN uploads[p] : chunk[p][uploads[p][i].c].hash = h}

\* Positions of the chunk h in p's have list.
Owned(p, h) == {i \in DOMAIN have[p] : chunk[p][have[p][i]].hash = h}

\* Mutant: one connection too many.
ReachedMaxConn_OffByOne(p) == Len(uploads[p]) > MAX_CONN

ReachedMaxConn(p) == Len(uploads[p]) >= MAX_CONN

\* The DATA packets a transfer to q of the chunk at c, with control block k, sends.
send_DATA(p, q, c, k) == [s \in SentByWindow(k) |-> DATA(p, q, s, chunk[p][c].data[s])]

receive_WHOHAS(m) ==
    /\ m.type = "WHOHAS"
    /\ Deliver(m, <<IHAVE(m.dst, m.src, {h \in m.hashes : Owned(m.dst, h) # {}})>>)
    /\ UNCHANGED <<chunkVars, transferVars, userVars, faults>>

------------------------------------------------------------------------------
(* receive_GET *)

\* The chunk is not owned, or the connections are used up.
refuse_GET(m) ==
    /\ m.type = "GET"
    /\ \/ Owned(m.dst, m.hash) = {}
       \/ ReachedMaxConn(m.dst)
    /\ Deliver(m, <<DENIED(m.dst, m.src)>>)
    /\ UNCHANGED <<chunkVars, transferVars, userVars, faults>>

\* The chunk is already in flight, to whomever: there is no answer.
ignore_GET(m) ==
    /\ m.type = "GET"
    /\ Owned(m.dst, m.hash) # {}
    /\ ~ReachedMaxConn(m.dst)
    /\ UploadsOf(m.dst, m.hash) # {}
    /\ Deliver(m, Nothing)
    /\ UNCHANGED <<chunkVars, transferVars, userVars, faults>>

accept_GET(m) ==
    LET p == m.dst
        q == m.src
    IN  /\ m.type = "GET"
        /\ ~ReachedMaxConn(p)
        /\ UploadsOf(p, m.hash) = {}
        /\ \E i \in node_find(Owned(p, m.hash)) :
              LET c == have[p][i] IN
              /\ uploads' = [uploads EXCEPT ![p] = node_insert(@,
                                [peer |-> q, c |-> c, cctrl |-> AfterSend(NewCongestCtrl)])]
              /\ Deliver(m, send_DATA(p, q, c, NewCongestCtrl))
        /\ available' = [available EXCEPT ![p] = @ \ {q}]
        /\ UNCHANGED <<chunkVars, downloads, userVars, faults>>

receive_GET(m) == refuse_GET(m) \/ ignore_GET(m) \/ accept_GET(m)

------------------------------------------------------------------------------
(* receive_ACK: the transfer is the first one to the sender, whatever      *)
(* chunk the ACK was meant for.                                            *)

\* No transfer to the sender.
stray_ACK(m) ==
    /\ m.type = "ACK"
    /\ UploadsTo(m.dst, m.src) = {}
    /\ Deliver(m, Nothing)
    /\ UNCHANGED <<chunkVars, transferVars, userVars, faults>>

\* Every packet of the chunk is acknowledged.
last_ACK(m) ==
    /\ m.type = "ACK"
    /\ m.ack = MAX_SEQ_NUM
    /\ \E i \in node_find(UploadsTo(m.dst, m.src)) :
          uploads' = [uploads EXCEPT ![m.dst] = node_delete(@, i)]
    /\ available' = [available EXCEPT ![m.dst] = @ \cup {m.src}]
    /\ Deliver(m, Nothing)
    /\ UNCHANGED <<chunkVars, downloads, userVars, faults>>

\* Continue the i-th upload with control block k: send what the window allows.
Continue(m, i, k) ==
    LET t == uploads[m.dst][i] IN
    /\ uploads' = [uploads EXCEPT ![m.dst][i].cctrl = [AfterSend(k) EXCEPT !.timeout_count = 0]]
    /\ Deliver(m, send_DATA(m.dst, m.src, t.c, k))
    /\ UNCHANGED <<chunkVars, available, downloads, userVars, faults>>

\* An ACK that moves the window.
new_ACK(m) ==
    /\ m.type = "ACK"
    /\ m.ack # MAX_SEQ_NUM
    /\ \E i \in node_find(UploadsTo(m.dst, m.src)) :
          LET k == uploads[m.dst][i].cctrl IN
          /\ m.ack > k.begin
          /\ \E k2 \in congestion_control(adjust_window(k, m.ack)) : Continue(m, i, k2)

\* The duplicate that counts as a loss: go back to the window's beginning.
loss_ACK(m) ==
    /\ m.type = "ACK"
    /\ m.ack # MAX_SEQ_NUM
    /\ \E i \in node_find(UploadsTo(m.dst, m.src)) :
          LET k == uploads[m.dst][i].cctrl IN
          /\ m.ack = k.begin
          /\ k.dup_count + 1 >= MAX_DUP_ACKS
          /\ Continue(m, i, detected_first_loss([k EXCEPT !.index = k.begin]))

\* A duplicate before that, or an ACK from before the window, only shows that
\* the peer is alive.
old_ACK(m) ==
    /\ m.type = "ACK"
    /\ m.ack # MAX_SEQ_NUM
    /\ \E i \in node_find(UploadsTo(m.dst, m.src)) :
          LET k == uploads[m.dst][i].cctrl IN
          /\ \/ m.ack < k.begin
             \/ m.ack = k.begin /\ k.dup_count + 1 < MAX_DUP_ACKS
          /\ uploads' = [uploads EXCEPT ![m.dst][i].cctrl =
                           [k EXCEPT !.dup_count = IF m.ack = k.begin THEN @ + 1 ELSE @,
                                     !.timeout_count = 0]]
    /\ Deliver(m, Nothing)
    /\ UNCHANGED <<chunkVars, available, downloads, userVars, faults>>

receive_ACK(m) == stray_ACK(m) \/ last_ACK(m) \/ new_ACK(m) \/ loss_ACK(m) \/ old_ACK(m)

------------------------------------------------------------------------------
(* handle_server_timeout, as what it leaves of p's uploads.  Every         *)
(* transfer has timed out when it runs: select has been silent for longer  *)
(* than TIMEOUT_THRESHOLD, and a timestamp is only set by an event that    *)
(* ends that silence.                                                      *)

\* The transfers that the next timeout does not kill.
SurvivingUploads(p) ==
    {i \in DOMAIN uploads[p] : uploads[p][i].cctrl.timeout_count + 1 < MAX_TO_COUNTS}

\* A timeout counts as a loss.
TimedOut(k) == detected_first_loss([k EXCEPT !.timeout_count = @ + 1])

UploadsAfterTimeout(p) ==
    node_keep([i \in DOMAIN uploads[p] |-> [uploads[p][i] EXCEPT !.cctrl = TimedOut(@)]],
              SurvivingUploads(p))

\* Mutant: a dead transfer is unlinked without delete_transfer.
FreedByServer_None(p) == {}

\* Peers made available again by the transfers that die.
FreedByServer(p) ==
    {uploads[p][i].peer : i \in DOMAIN uploads[p] \ SurvivingUploads(p)}
==============================================================================
