-------------------------------- MODULE Lists --------------------------------
(***************************************************************************)
(* linkedlist.c: the singly linked lists every other component is built    *)
(* on.  A list is the sequence of its nodes' data, head first.  A node is  *)
(* named by its position, so a search answers with the set of the position *)
(* it stops at: empty when node_find returns NULL.                         *)
(***************************************************************************)
EXTENDS Naturals, Sequences, SequencesExt

\* Mutant: the old head is not linked behind the new node.
node_insert_Unlinked(list, data) == <<data>>

\* New nodes go to the head of the list.
node_insert(list, data) == <<data>> \o list

\* The first of the matching positions K, which is where the scan stops.
node_find(K) == {i \in K : \A j \in K : i <= j}

\* Unlink the node at position i.
node_delete(list, i) == RemoveAt(list, i)

\* A loop that deletes every node outside the positions K as it goes: what is
\* left are the nodes at K, in their old order.
node_keep(list, K) ==
    LET order == CHOOSE f \in UNION {[1..n -> K] : n \in 0..Len(list)} :
                    /\ \A i, j \in DOMAIN f : i < j => f[i] < f[j]
                    /\ \A k \in K : \E i \in DOMAIN f : f[i] = k
    IN  [i \in DOMAIN order |-> list[order[i]]]
==============================================================================
