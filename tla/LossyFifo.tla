------------------------------ MODULE LossyFifo ------------------------------
(***************************************************************************)
(* What the network simulator promises its users, for each ordered pair of *)
(* peers: packets may be lost, and those that are not arrive once each and *)
(* in the order they were sent.                                            *)
(***************************************************************************)
EXTENDS Naturals, Sequences, SequencesExt

CONSTANTS Pairs, Messages

VARIABLES
    chan,       \* per pair, the messages under way, oldest first
    delivered   \* per pair, the messages that arrived

Init ==
    /\ chan = [c \in Pairs |-> << >>]
    /\ delivered = [c \in Pairs |-> << >>]

Send(c, m) ==
    /\ chan' = [chan EXCEPT ![c] = Append(@, m)]
    /\ UNCHANGED delivered

Lose(c) ==
    /\ \E i \in DOMAIN chan[c] : chan' = [chan EXCEPT ![c] = RemoveAt(@, i)]
    /\ UNCHANGED delivered

Deliver(c) ==
    /\ chan[c] # << >>
    /\ chan' = [chan EXCEPT ![c] = Tail(@)]
    /\ delivered' = [delivered EXCEPT ![c] = Append(@, Head(chan[c]))]

Next ==
    \E c \in Pairs : \/ \E m \in Messages : Send(c, m)
                     \/ Lose(c)
                     \/ Deliver(c)

Spec == Init /\ [][Next]_<<chan, delivered>>
==============================================================================
