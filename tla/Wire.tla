--------------------------------- MODULE Wire ---------------------------------
(***************************************************************************)
(* What is between two peers when SPIFFY_ROUTER is set: spiffy.c puts the  *)
(* sender's id and both addresses in front of each datagram and sends it   *)
(* to hupsim.pl, which passes it from router to router along shortest      *)
(* paths, through queues that drop what does not fit, and hands it to the  *)
(* destination, where spiffy.c takes its header off again.                 *)
(*                                                                         *)
(* A peer's id stands for its address.  The rates and latencies that       *)
(* decide how long a packet stays in a queue are left out: the head of a   *)
(* queue may move on at any time.  routingTable[r][d] is the router whose  *)
(* queue packets for d are put in at r.                                    *)
(***************************************************************************)
EXTENDS Packets, FiniteSets

CONSTANTS
    Peers,      \* ids of the peers
    Routers,    \* ids in topo.map
    Nodes,      \* ids in nodes.map
    QueueSizes, \* queue sizes topo.map may give
    Outgoing,   \* what peers send: the packets and how they are put on the wire
    Garbage,    \* what memory behind a datagram may hold
    MAX_SENDS   \* bound: datagrams sent

ASSUME WireAssumption ==
    /\ Routers \subseteq Nat /\ IsFiniteSet(Routers)
    /\ Nodes \subseteq Routers
    /\ QueueSizes \subseteq Nat \ {0}
    /\ MAX_SENDS \in Nat

VARIABLES
    links,          \* the edges of topo.map
    max,            \* packets that fit in a queue
    routingTable,   \* what createTable computed
    queue,          \* queue[r][n]: packets at router r for its neighbour n
    sent,           \* number of datagrams sent
    received        \* per pair of peers, what the second got from the first

vars == <<links, max, routingTable, queue, sent, received>>

Pairs == {c \in Peers \X Peers : c[1] # c[2]}

------------------------------------------------------------------------------
(* createTable: Dijkstra with unit weights over the vertexes, from self.   *)

INFINITY == Cardinality(Routers) + 1

Neighbours(edges, r) == {n \in Routers : {r, n} \in edges}

\* The vertex that is visited next: of the nearest that are not done, the first.
NextVertex(g) ==
    LET open == {v \in Routers : v \notin g.done}
    IN  CHOOSE v \in open : \A w \in open :
            g.distance[v] < g.distance[w] \/ (g.distance[v] = g.distance[w] /\ v <= w)

Visit(edges, g) ==
    LET next == NextVertex(g)
        near == {v \in Neighbours(edges, next) : g.distance[v] > g.distance[next] + 1}
    IN  [done |-> g.done \cup {next},
         distance |-> [v \in Routers |-> IF v \in near THEN g.distance[next] + 1
                                                       ELSE g.distance[v]],
         predecessor |-> [v \in Routers |-> IF v \in near THEN next ELSE g.predecessor[v]]]

\* The vertexes after n visits.
Visited(edges, self) ==
    LET after[n \in 0..Cardinality(Routers)] ==
          IF n = 0
            THEN [done |-> {},
                  distance |-> [v \in Routers |-> IF v = self THEN 0 ELSE INFINITY],
                  predecessor |-> [v \in Routers |-> v]]
            ELSE Visit(edges, after[n - 1])
    IN  after[Cardinality(Routers)]

\* Mutant: the last router before each vertex.
createTable_Last(edges, self) ==
    LET g == Visited(edges, self)
    IN  [v \in Routers \ {self} |-> IF g.predecessor[v] = self THEN v ELSE g.predecessor[v]]

\* The first router on the way back from each vertex to self.
createTable(edges, self) ==
    LET g == Visited(edges, self)
        startRoute[v \in Routers] ==
            IF g.predecessor[v] = self THEN v ELSE startRoute[g.predecessor[v]]
    IN  [v \in Routers \ {self} |-> startRoute[v]]

------------------------------------------------------------------------------
(* The topologies topo.map may describe.  Every router can be reached: for  *)
(* one that cannot, the walk along the predecessors does not end.           *)

Links == {e \in SUBSET Routers : Cardinality(e) = 2}

Connected(edges) ==
    \A S \in SUBSET Routers :
        S # {} /\ S # Routers => \E e \in edges : e \cap S # {} /\ ~ e \subseteq S

\* Every link has the same queue size here, in topo.map each its own.
Init ==
    /\ links \in {edges \in SUBSET Links : Connected(edges)}
    /\ max \in QueueSizes
    /\ routingTable = [r \in Routers |-> createTable(links, r)]
    /\ queue = [r \in Routers |-> [n \in Neighbours(links, r) |-> << >>]]
    /\ sent = 0
    /\ received = [c \in Pairs |-> << >>]

------------------------------------------------------------------------------
(* spiffy.c.  A packet in the simulator is the spiffy_header and the       *)
(* datagram; message and number are what was sent and when, for the        *)
(* properties.                                                             *)

\* How a peer may put a packet on the wire.  This program's peers send what
\* serialize_packet returns; others may put an extension ID in front, which
\* header_len and packet_len count, or use another version.
Datagram(m) ==
    LET ext == Len(m.extension)
        p   == [m.packet EXCEPT !.header_len = @ + ext, !.packet_len = @ + ext]
        d   == [serialize_packet(m.packet) EXCEPT ![2] = m.version, ![4] = p.header_len,
                                                  ![5] = p.packet_len]
    IN  m.extension \o d

\* A packet as one of the senders fills it in.
WellFormed(p) ==
    \/ p.type \in {WHOHAS, IHAVE, GET} /\ p = HashPacket(p.type, p.seq_num, p.hash_list)
       /\ p.hash_list \in Seq(Range(p.hash_list))
    \/ p = DataPacket(p.seq_num, p.data) /\ p.data \in Seq(Range(p.data))
    \/ p = AckPacket(p.ack_num)
    \/ p = DeniedPacket(p.hash_num) /\ p.hash_num \in Nat

\* Peers send well-formed packets that fit in the receive buffer, behind at most
\* one extension ID.
ASSUME OutgoingAssumption ==
    \A m \in Outgoing :
        /\ WellFormed(m.packet)
        /\ m.extension = << >> \/ m.extension = <<m.extension[1]>>
        /\ Len(m.extension) + m.packet.packet_len <= BUFLEN

spiffy_sendto(s, d, m) ==
    [ID |-> s, lSrcAddr |-> s, lDestAddr |-> d, datagram |-> Datagram(m),
     message |-> m, number |-> sent + 1]

\* The receive buffer: the datagram, and behind it whatever was in the memory.
spiffy_recvfrom(pkt, g) ==
    [i \in 1..BUFLEN |-> IF i <= Len(pkt.datagram) THEN pkt.datagram[i] ELSE g]

\* process_inbound_udp up to the switch: the peer the datagram is from, and
\* the packet in it.
process_inbound_udp(pkt, g) ==
    [from |-> pkt.lSrcAddr, packet |-> deserialize_packet(spiffy_recvfrom(pkt, g)),
     message |-> pkt.message, number |-> pkt.number]

------------------------------------------------------------------------------
(* hupsim.pl                                                               *)

\* Mutant: the packet is put at the wrong end.
enQ_Front(q, pkt) == IF Len(q) >= max THEN q ELSE <<pkt>> \o q

\* Mutant: one packet too many.
enQ_OneMore(q, pkt) == IF Len(q) > max THEN q ELSE Append(q, pkt)

\* A full queue drops the packet.
enQ(q, pkt) == IF Len(q) >= max THEN q ELSE Append(q, pkt)

\* NSRouter::recv, at router r, with the queues qs it finds.
recv(r, pkt, qs) ==
    LET dest == pkt.lDestAddr
    IN  \/ /\ dest \notin Nodes
           /\ queue' = qs
           /\ UNCHANGED received
        \/ /\ dest \in Nodes /\ dest = r
           /\ queue' = qs
           /\ \E g \in Garbage :
                received' = [received EXCEPT ![<<pkt.lSrcAddr, dest>>] =
                                Append(@, process_inbound_udp(pkt, g))]
        \/ /\ dest \in Nodes /\ dest # r
           /\ queue' = [qs EXCEPT ![r][routingTable[r][dest]] = enQ(@, pkt)]
           /\ UNCHANGED received

\* A peer sends, and the main loop inserts the packet at the router of the
\* sender's id, if there is one.
send_packet_to_peer(s, d, m) ==
    /\ sent < MAX_SENDS
    /\ sent' = sent + 1
    /\ LET pkt == spiffy_sendto(s, d, m)
       IN  IF pkt.ID \in Routers THEN recv(pkt.ID, pkt, queue)
                                 ELSE UNCHANGED <<queue, received>>
    /\ UNCHANGED <<links, max, routingTable>>

\* Mutant: the main loop sleeps until the next datagram arrives.
run_NeedsInput(r, n) ==
    /\ sent < MAX_SENDS
    /\ queue[r][n] # << >>
    /\ recv(n, Head(queue[r][n]), [queue EXCEPT ![r][n] = Tail(@)])
    /\ UNCHANGED <<links, max, routingTable, sent>>

\* NSRouter::run takes the head of a queue and the next router receives it.
run(r, n) ==
    /\ queue[r][n] # << >>
    /\ recv(n, Head(queue[r][n]), [queue EXCEPT ![r][n] = Tail(@)])
    /\ UNCHANGED <<links, max, routingTable, sent>>

Next ==
    \/ \E c \in Pairs, m \in Outgoing : send_packet_to_peer(c[1], c[2], m)
    \/ \E r \in Routers : \E n \in DOMAIN queue[r] : run(r, n)

\* The main loop sleeps no longer than until the first packet is due, and then
\* runs every router.
Fairness ==
    \A r, n \in Routers : WF_vars(n \in DOMAIN queue[r] /\ run(r, n))

Spec == Init /\ [][Next]_vars /\ Fairness

------------------------------------------------------------------------------

\* Types; no queue is longer than max.
TypeOK ==
    /\ links \subseteq Links /\ max \in QueueSizes
    /\ \A r \in Routers : /\ routingTable[r] \in [Routers \ {r} -> Routers]
                          /\ DOMAIN queue[r] = Neighbours(links, r)
                          /\ \A n \in DOMAIN queue[r] : Len(queue[r][n]) <= max
    /\ sent \in 0..MAX_SENDS
    /\ DOMAIN received = Pairs

\* Messages deserialize_packet can read: of this version, with an extension ID
\* or without, unless the ID looks like the magic number.
Understood(m) == m.version = VER_NUM /\ m.extension # <<MAGIC_NUM>>

\* What a peer reads is what was sent and whom it was sent by, through the
\* headers of both layers and whatever is behind the datagram in the buffer; what
\* it does not understand it drops.
ReadsBack ==
    \A c \in Pairs : \A i \in DOMAIN received[c] :
        LET got == received[c][i]
        IN  /\ got.from = c[1]
            /\ IF Understood(got.message)
                 THEN got.packet # Null /\ Used(got.packet) = Used(got.message.packet)
                 ELSE got.packet = Null

\* serialize_payload's comment: a DENIED packet carries the hash number 0.
DeniedEmpty ==
    \A c \in Pairs : \A i \in DOMAIN received[c] :
        LET p == received[c][i].packet
        IN  p # Null => (p.type = DENIED => p.hash_num = 0)

\* The routers a packet from s to d passes.
Hops(s, d) ==
    LET hop[n \in 0..Cardinality(Routers)] ==
          IF n = 0 THEN s ELSE IF hop[n - 1] = d THEN d ELSE routingTable[hop[n - 1]][d]
    IN  hop

\* A path from s to d of n edges.
Joined(s, d, n) ==
    \E f \in [0..n -> Routers] :
        f[0] = s /\ f[n] = d /\ \A i \in 1..n : {f[i - 1], f[i]} \in links

\* The routing tables of all routers agree on a shortest path for each pair:
\* there are no loops and no detours.  (Nothing changes the tables, so this is
\* looked at before the first packet.)
RoutesShortest ==
    sent = 0 => \A s, d \in Routers : s # d =>
        \E n \in 1..(Cardinality(Routers) - 1) :
            /\ Hops(s, d)[n] = d
            /\ \A i \in 1..n : {Hops(s, d)[i - 1], Hops(s, d)[i]} \in links
            /\ \A k \in 0..(n - 1) : ~Joined(s, d, k)

\* Every packet leaves the simulator: it is delivered or dropped, and never
\* goes round between routers.
Drains == <>[](\A r \in Routers : \A n \in DOMAIN queue[r] : queue[r][n] = << >>)

\* The packets in some queue.
InFlight == UNION {UNION {Range(queue[r][n]) : n \in DOMAIN queue[r]} : r \in Routers}

\* The numbers K in increasing order.
Ascending(K) == [i \in 1..Cardinality(K) |-> CHOOSE k \in K : Cardinality({j \in K : j <= k}) = i]

\* What is under way from c[1] to c[2], for all pairs, oldest first.
UnderWay ==
    LET pkts == InFlight
    IN  [c \in Pairs |->
            Ascending({p.number : p \in {q \in pkts : q.lSrcAddr = c[1] /\ q.lDestAddr = c[2]}})]

Numbers(pkts) == [i \in DOMAIN pkts |-> pkts[i].number]

Fifo == INSTANCE LossyFifo WITH
            Messages  <- 1..MAX_SENDS,
            chan      <- UnderWay,
            delivered <- [c \in Pairs |-> Numbers(received[c])]

\* For each pair of peers the simulator is a lossy channel that neither
\* duplicates nor reorders.  The channel holds what is in the queues in the order
\* it was sent, so the packet that is delivered has to be the one sent first: none
\* overtakes another on its way through the queues of several routers.
InOrder == Fifo!Spec
==============================================================================
