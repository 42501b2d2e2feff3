------------------------------ MODULE PeerState ------------------------------
(***************************************************************************)
(* The state of a swarm of peers: what each peer process keeps in its      *)
(* globals (peer.h, bt_client.c, bt_server.c), the datagrams in flight,    *)
(* and the pieces the client and the server side share.                    *)
(*                                                                         *)
(* A chunk is referred to by a pointer <<n, l>>: it was created for line l *)
(* of the has-chunk file (n = 0) or of the n-th get-chunk file.  chunk[p]  *)
(* is the heap of peer p, have, missing and wanted are lists of pointers   *)
(* into it.                                                                *)
(*                                                                         *)
(* The data of a chunk is abstracted to one value per DATA packet: h is    *)
(* the data of the chunk that hashes to h, Zero the zeros read past the    *)
(* end of the master file, and Unset a position whose bit is not set.      *)
(***************************************************************************)
EXTENDS Congestion, Lists, FiniteSets, Bags

CONSTANTS
    Peers,          \* the peers of the peer list file
    NoPeer,         \* the NULL peer
    Hashes,         \* chunk hashes
    Zero, Unset,    \* see above
    HasFile,        \* HasFile[p]: lines [id, hash] of p's has-chunk file
    GetFiles,       \* GetFiles[p]: the get-chunk files p's user asks for, in order
    Master,         \* Master[id]: hash of the id-th chunk of the master data file
    ID_WIDTH,       \* values of create_chunk's 8 bit id (256)
    MAX_CONN,       \* the -m option
    MAX_HASH_IN_PACKET, \* hashes in a WHOHAS packet (74)
    MAX_FAULTS      \* bound: datagrams lost, duplicated or late

Line   == [id : Nat, hash : Hashes]
Blocks == Hashes \cup {Zero, Unset}

ASSUME PeerAssumption ==
    /\ IsFiniteSet(Peers) /\ NoPeer \notin Peers
    /\ Zero \notin Hashes /\ Unset \notin Hashes /\ Zero # Unset
    /\ HasFile \in [Peers -> Seq(Line)]
    /\ GetFiles \in [Peers -> Seq(Seq(Line))]
    /\ Master \in [DOMAIN Master -> Hashes]
    /\ ID_WIDTH \in Nat \ {0}
    /\ MAX_CONN \in Nat
    /\ MAX_HASH_IN_PACKET \in Nat \ {0}
    /\ MAX_FAULTS \in Nat

VARIABLES
    chunk,      \* chunk[p]: pointer -> chunk
    have,       \* have[p], missing[p], wanted[p]: lists of pointers
    missing,
    wanted,
    available,  \* available[p]: the peers whose available flag is set at p
    uploads,    \* uploads[p]: the transfers list of bt_server.c
    downloads,  \* downloads[p]: the transfers list of bt_client.c
    request,    \* request[p]: number of user GETs read so far
    got,        \* got[p]: the files written and announced with GOT
    net,        \* bag of datagrams in flight
    faults      \* faults so far

chunkVars    == <<chunk, have, missing, wanted>>
transferVars == <<available, uploads, downloads>>
userVars     == <<request, got>>
vars         == <<chunkVars, transferVars, userVars, net, faults>>

Pointers == Nat \X Nat

Chunk == [id : Nat, hash : Hashes, data : [SeqNums -> Blocks], peer : Seq(Peers)]

\* Transfer of transfer.h, with its chunk in the heap D; the client side uses
\* only the timeout count of the control block.
Upload(D)   == [peer : Peers, c : D, cctrl : CongestCtrl]
Download(D) == [peer : Peers, c : D, timeout_count : Nat]

create_chunk(id, hash) ==
    [id |-> id % ID_WIDTH, hash |-> hash, data |-> [s \in SeqNums |-> Unset], peer |-> << >>]

------------------------------------------------------------------------------
(* Datagrams: the fields of a Packet that its receiver reads, with the     *)
(* sender's and the receiver's address.                                    *)

WHOHAS(p, q, hashes) == [type |-> "WHOHAS", src |-> p, dst |-> q, hashes |-> hashes]
IHAVE(p, q, hashes)  == [type |-> "IHAVE", src |-> p, dst |-> q, hashes |-> hashes]
GET(p, q, hash)      == [type |-> "GET", src |-> p, dst |-> q, hash |-> hash]
DATA(p, q, seq, b)   == [type |-> "DATA", src |-> p, dst |-> q, seq |-> seq, data |-> b]
ACK(p, q, ack)       == [type |-> "ACK", src |-> p, dst |-> q, ack |-> ack]
DENIED(p, q)         == [type |-> "DENIED", src |-> p, dst |-> q]

Packets ==
    [type : {"WHOHAS", "IHAVE"}, src : Peers, dst : Peers, hashes : SUBSET Hashes]
      \cup [type : {"GET"}, src : Peers, dst : Peers, hash : Hashes]
      \cup [type : {"DATA"}, src : Peers, dst : Peers, seq : SeqNums, data : Blocks]
      \cup [type : {"ACK"}, src : Peers, dst : Peers, ack : 0..MAX_SEQ_NUM]
      \cup [type : {"DENIED"}, src : Peers, dst : Peers]

\* send_packet_to_all goes to everyone but the sender.
Others(p) == Peers \ {p}

Nothing == << >>

\* The network hands m to its receiver, whose handler sends the family of
\* packets out, indexed by what the handler loops over.
Deliver(m, out) == net' = (net (-) SetToBag({m})) (+) ToBag(out)

==============================================================================
