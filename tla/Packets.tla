------------------------------- MODULE Packets -------------------------------
(***************************************************************************)
(* packet.c: how a Packet becomes a datagram and is read back from the     *)
(* receive buffer.  A datagram is a sequence of cells, one for each field  *)
(* of the header, one for the number of hashes with its padding, one for   *)
(* each hash and one for each piece of data; lengths count cells.          *)
(***************************************************************************)
EXTENDS Naturals, Sequences, SequencesExt

CONSTANTS
    MAGIC_NUM, VER_NUM, \* 15441 and 1 in packet.h
    BUFLEN              \* length of the receive buffer (1500 bytes in peer.c)

ASSUME PacketsAssumption ==
    /\ MAGIC_NUM \in Nat /\ VER_NUM \in Nat /\ MAGIC_NUM # VER_NUM
    /\ BUFLEN \in Nat

WHOHAS == 0
IHAVE  == 1
GET    == 2
DATA   == 3
ACK    == 4
DENIED == 5

STANDARD_HEADER_LEN == 7
HEADER_PAD_LEN == 1

\* The NULL of deserialize_packet: no packet.
Null == << >>

HashTypes == {WHOHAS, IHAVE, GET, DENIED}

------------------------------------------------------------------------------
(* The packets as the senders fill them in.  hash_num is only meaningful    *)
(* for the HashTypes, of which send_DENIED leaves all but the type and the  *)
(* lengths unset: rest is what its memory happens to hold.                  *)

HashPacket(type, seq, hashes) ==
    [type |-> type, header_len |-> STANDARD_HEADER_LEN,
     packet_len |-> STANDARD_HEADER_LEN + HEADER_PAD_LEN + Len(hashes),
     seq_num |-> seq, ack_num |-> 0, hash_num |-> Len(hashes), hash_list |-> hashes,
     data |-> << >>]

DataPacket(seq, data) ==
    [type |-> DATA, header_len |-> STANDARD_HEADER_LEN,
     packet_len |-> STANDARD_HEADER_LEN + Len(data),
     seq_num |-> seq, ack_num |-> 0, hash_num |-> 0, hash_list |-> << >>, data |-> data]

AckPacket(ack) ==
    [type |-> ACK, header_len |-> STANDARD_HEADER_LEN, packet_len |-> STANDARD_HEADER_LEN,
     seq_num |-> 0, ack_num |-> ack, hash_num |-> 0, hash_list |-> << >>, data |-> << >>]

DeniedPacket(rest) ==
    [type |-> DENIED, header_len |-> STANDARD_HEADER_LEN, packet_len |-> STANDARD_HEADER_LEN,
     seq_num |-> rest, ack_num |-> rest, hash_num |-> rest,
     hash_list |-> [i \in 1..rest |-> rest], data |-> << >>]

------------------------------------------------------------------------------

serialize_payload(p) ==
    IF p.type \in HashTypes THEN <<p.hash_num>> \o p.hash_list
                            ELSE IF p.type = ACK THEN << >> ELSE p.data

\* The bytes that are sent: packet_len of them.
serialize_packet(p) ==
    SubSeq(<<MAGIC_NUM, VER_NUM, p.type, p.header_len, p.packet_len, p.seq_num, p.ack_num>>
               \o serialize_payload(p),
           1, p.packet_len)

\* The header starts at the magic number, behind an extension ID if there is one.
HeaderAt(buf) == IF buf[1] = MAGIC_NUM THEN 1 ELSE 2

deserialize_payload(h, payload) ==
    IF h.type \in HashTypes
      THEN [hash_num |-> payload[1], hash_list |-> SubSeq(payload, 2, payload[1] + 1),
            data |-> << >>]
      ELSE [hash_num |-> 0, hash_list |-> << >>,
            data |-> IF h.type = ACK THEN << >>
                                     ELSE SubSeq(payload, 1, h.packet_len - h.header_len)]

\* Mutant: the payload is looked for behind a header without extension.
Payload_NoExtension(h, buf) == SubSeq(buf, STANDARD_HEADER_LEN + 1, BUFLEN)

\* The payload begins header_len behind the beginning of the buffer.
Payload(h, buf) == SubSeq(buf, h.header_len + 1, BUFLEN)

deserialize_packet(buf) ==
    LET at == HeaderAt(buf)
        h  == [type |-> buf[at + 2], header_len |-> buf[at + 3], packet_len |-> buf[at + 4],
               seq_num |-> buf[at + 5], ack_num |-> buf[at + 6]]
        p  == deserialize_payload(h, Payload(h, buf))
    IN  IF buf[at] # MAGIC_NUM \/ buf[at + 1] # VER_NUM
          THEN Null
          ELSE [type |-> h.type, header_len |-> h.header_len, packet_len |-> h.packet_len,
                seq_num |-> h.seq_num, ack_num |-> h.ack_num,
                hash_num |-> p.hash_num, hash_list |-> p.hash_list, data |-> p.data]

\* What the receive_ functions look at.
Used(p) ==
    [type |-> p.type,
     hashes |-> IF p.type \in {WHOHAS, IHAVE, GET} THEN p.hash_list ELSE << >>,
     seq |-> IF p.type = DATA THEN <<p.seq_num, p.data>> ELSE << >>,
     ack |-> IF p.type = ACK THEN <<p.ack_num>> ELSE << >>]
==============================================================================
