----------------------------- MODULE Replication -----------------------------
(***************************************************************************)
(* What the swarm promises, without packets, windows or lists: chunks are  *)
(* copied from peer to peer.  A peer owns the chunks it started with, it   *)
(* gains one chunk at a time, only one that some other peer owns, and it   *)
(* never loses one.                                                        *)
(***************************************************************************)
CONSTANTS
    Peers,
    Seed        \* Seed[p]: the chunks p owns at the start

VARIABLE owned  \* owned[p]: the chunks p owns

Init == owned = Seed

Acquire(p, h) ==
    /\ h \notin owned[p]
    /\ \E q \in Peers \ {p} : h \in owned[q]
    /\ owned' = [owned EXCEPT ![p] = @ \cup {h}]

Next == \E p \in Peers : \E h \in UNION {owned[q] : q \in Peers} : Acquire(p, h)

Spec == Init /\ [][Next]_owned
==============================================================================
