----------------------------- MODULE ListsProofs -----------------------------
(***************************************************************************)
(* What the list operations preserve: a search stops at a matching node,   *)
(* and inserting, deleting and filtering make no new elements.             *)
(***************************************************************************)
EXTENDS Lists, TLAPS, SequenceTheorems, WellFoundedInduction

\* A search of linkedlist.c answers with a matching position.
LEMMA NodeFind == \A K : node_find(K) \subseteq K
  BY DEF node_find

\* f lists the positions K in increasing order.
Enumerates(f, K) ==
    /\ \A i, j \in DOMAIN f : i < j => f[i] < f[j]
    /\ \A k \in K : \E i \in DOMAIN f : f[i] = k

\* A set of natural numbers that is not empty has a least element.
LEMMA LeastNat ==
  ASSUME NEW T \in SUBSET Nat, T # {}
  PROVE  \E x \in T : \A y \in T : x <= y
<1>1. PICK x \in T : \A y \in T : ~(<<y, x>> \in OpToRel(<, Nat))
  BY NatLessThanWellFounded, WFMin, Zenon
<1>2. \A y \in T : <<y, x>> \in OpToRel(<, Nat) <=> y < x
  BY DEF OpToRel
<1>3. \A y \in T : ~(y < x)
  BY <1>1, <1>2, Zenon
<1> QED  BY <1>3

\* A search that can find a node finds one.
LEMMA NodeFound ==
  ASSUME NEW K \in SUBSET Nat, K # {}
  PROVE  node_find(K) # {}
<1>1. PICK x \in K : \A y \in K : x <= y
  BY LeastNat
<1> QED  BY <1>1 DEF node_find

\* A bounded set of numbers that is not empty has a greatest element.
LEMMA GreatestNat ==
  ASSUME NEW n \in Nat, NEW K \in SUBSET (1..n), K # {}
  PROVE  \E x \in K : \A y \in K : y <= x
<1> DEFINE T == {i \in 0..n : n - i \in K}
<1>1. T \in SUBSET Nat
  OBVIOUS
<1>2. ASSUME NEW y \in K PROVE n - y \in T
  <2>1. n - y \in 0..n /\ n - (n - y) = y
    OBVIOUS
  <2> QED  BY <2>1
<1>3. \A i \in T : i \in 0..n /\ n - i \in K
  OBVIOUS
<1> HIDE DEF T
<1>4. PICK i \in T : \A j \in T : i <= j
  BY <1>1, <1>2, LeastNat
<1>5. ASSUME NEW y \in K PROVE y <= n - i
  <2>1. i <= n - y
    BY <1>2, <1>4
  <2> QED  BY <1>3, <2>1
<1> QED  BY <1>3, <1>5

\* The positions to keep can be listed in increasing order: the loop that
\* deletes the others meets them in that order.
LEMMA OrderExists ==
  ASSUME NEW n \in Nat, NEW K \in SUBSET (1..n)
  PROVE  \E m \in 0..n : \E f \in [1..m -> K] : Enumerates(f, K)
<1> DEFINE Good(a, J) == \E m \in 0..a : \E f \in [1..m -> J] : Enumerates(f, J)
           Bad == {a \in Nat : \E J \in SUBSET (1..a) : ~Good(a, J)}
<1>1. SUFFICES ASSUME Bad # {} PROVE FALSE
  OBVIOUS
<1> HIDE DEF Good
<1>2. PICK a \in Nat : a \in Bad /\ \A b \in Bad : a <= b
  <2> Bad \in SUBSET Nat
    OBVIOUS
  <2> HIDE DEF Bad
  <2> QED  BY <1>1, LeastNat
<1>3. PICK J \in SUBSET (1..a) : ~Good(a, J)
  BY <1>2
<1>4. a # 0
  <2> SUFFICES ASSUME a = 0 PROVE FALSE
    OBVIOUS
  <2> DEFINE e == [i \in 1..0 |-> i]
  <2>1. J = {} /\ e \in [1..0 -> J] /\ 0 \in 0..a
    OBVIOUS
  <2>2. Enumerates(e, J)
    BY <2>1 DEF Enumerates
  <2> QED  BY <1>3, <2>1, <2>2 DEF Good
<1> DEFINE I == J \ {a}
<1>5. Good(a - 1, I)
  <2>1. a - 1 \in Nat /\ I \in SUBSET (1..(a - 1)) /\ ~(a <= a - 1)
    BY <1>4
  <2>2. a - 1 \notin Bad
    <3> HIDE DEF Bad
    <3> QED  BY <1>2, <2>1
  <2> QED  BY <2>1, <2>2
<1>6. PICK m \in 0..(a - 1) : \E f \in [1..m -> I] : Enumerates(f, I)
  BY <1>5 DEF Good
<1>7. PICK f \in [1..m -> I] : Enumerates(f, I)
  BY <1>6
<1> HIDE DEF Bad
<1>8. CASE a \notin J
  <2>1. I = J /\ m \in 0..a
    BY <1>4, <1>8
  <2> QED  BY <1>3, <1>7, <2>1 DEF Good
<1>9. CASE a \in J
  <2> DEFINE g == [i \in 1..(m + 1) |-> IF i <= m THEN f[i] ELSE a]
  <2>1. m + 1 \in 0..a /\ m \in Nat
    BY <1>4
  <2>2. \A i \in 1..m : f[i] \in I /\ f[i] \in Nat /\ f[i] < a
    <3>1. \A x \in I : x \in Nat /\ x < a
      OBVIOUS
    <3> QED  BY <3>1
  <2>3. \A i \in 1..m : g[i] = f[i]
    BY <2>1
  <2>4. g[m + 1] = a
    BY <2>1
  <2>5. g \in [1..(m + 1) -> J]
    BY <1>9, <2>1, <2>2
  <2> HIDE DEF g, I
  <2>6. \A i, j \in 1..m : i < j => f[i] < f[j]
    BY <1>7 DEF Enumerates
  <2>7. ASSUME NEW i \in 1..(m + 1), NEW j \in 1..(m + 1), i < j
        PROVE  g[i] < g[j]
    <3>1. i \in 1..m
      BY <2>1, <2>7
    <3>2. CASE j \in 1..m  BY <2>3, <2>6, <2>7, <3>1, <3>2
    <3>3. CASE j = m + 1   BY <2>2, <2>3, <2>4, <3>1, <3>3
    <3> QED  BY <2>1, <3>2, <3>3
  <2>8. ASSUME NEW k \in J PROVE \E i \in 1..(m + 1) : g[i] = k
    <3>1. CASE k = a  BY <3>1, <2>1, <2>4
    <3>2. CASE k # a
      <4>1. k \in I  BY <3>2 DEF I
      <4>2. PICK i \in 1..m : f[i] = k  BY <1>7, <4>1 DEF Enumerates
      <4> QED  BY <4>2, <2>1, <2>3
    <3> QED  BY <3>1, <3>2
  <2>9. Enumerates(g, J)
    BY <2>5, <2>7, <2>8 DEF Enumerates
  <2> QED  BY <1>3, <2>1, <2>5, <2>9 DEF Good
<1> QED  BY <1>8, <1>9

\* Deleting in a loop leaves a list of the nodes that were kept.
LEMMA NodeKeep ==
  ASSUME NEW S, NEW list \in Seq(S), NEW K \in SUBSET (DOMAIN list)
  PROVE  /\ node_keep(list, K) \in Seq(S)
         /\ \A i \in DOMAIN node_keep(list, K) : \E k \in K : node_keep(list, K)[i] = list[k]
         /\ Len(node_keep(list, K)) <= Len(list)
<1> DEFINE Orders == UNION {[1..n -> K] : n \in 0..Len(list)}
           order == CHOOSE f \in Orders : Enumerates(f, K)
<1>1. \E f \in Orders : Enumerates(f, K)
  <2>1. Len(list) \in Nat /\ DOMAIN list = 1..Len(list)
    BY LenProperties
  <2>2. PICK m \in 0..Len(list) : \E f \in [1..m -> K] : Enumerates(f, K)
    BY <2>1, OrderExists
  <2> QED  BY <2>2
<1>2. order \in Orders
  BY <1>1
<1>3. PICK m \in 0..Len(list) : order \in [1..m -> K]
  BY <1>2
<1>4. node_keep(list, K) = [i \in DOMAIN order |-> list[order[i]]]
  BY DEF node_keep, Enumerates
<1>5. \A i \in 1..m : order[i] \in K /\ list[order[i]] \in S
  BY <1>3, LenProperties
<1>6. m \in Nat /\ DOMAIN order = 1..m
  BY <1>3, LenProperties
<1> HIDE DEF order
<1>7. node_keep(list, K) \in [1..m -> S]
  BY <1>4, <1>5, <1>6
<1>8. node_keep(list, K) \in Seq(S)
  BY <1>6, <1>7, SeqDef
<1>9. Len(node_keep(list, K)) = m
  BY <1>6, <1>7, <1>8, LenProperties
<1> QED  BY <1>3, <1>4, <1>5, <1>6, <1>8, <1>9, LenProperties

\* Unlinking a node leaves a list of the others.
LEMMA NodeDelete ==
  ASSUME NEW S, NEW list \in Seq(S), NEW i \in DOMAIN list
  PROVE  node_delete(list, i) \in Seq(S) /\ Len(node_delete(list, i)) <= Len(list)
<1>1. Len(list) \in Nat /\ i \in 1..Len(list) /\ \A j \in 1..Len(list) : list[j] \in S
  BY LenProperties
<1>2. SubSeq(list, 1, i - 1) \in Seq(S)
  BY <1>1, SubSeqProperties
<1>3. SubSeq(list, i + 1, Len(list)) \in Seq(S)
  BY <1>1, SubSeqProperties
<1>4. node_delete(list, i) \in Seq(S)
  BY <1>2, <1>3, ConcatProperties DEF node_delete, RemoveAt
<1>5. /\ Len(SubSeq(list, 1, i - 1)) = i - 1
      /\ Len(SubSeq(list, i + 1, Len(list))) = Len(list) - i
  BY <1>1, SubSeqProperties
<1>6. Len(node_delete(list, i)) = (i - 1) + (Len(list) - i)
  BY <1>2, <1>3, <1>5, ConcatProperties DEF node_delete, RemoveAt
<1> QED  BY <1>1, <1>4, <1>6

\* Inserting at the head keeps the old nodes behind the new one.
LEMMA NodeInsert ==
  ASSUME NEW S, NEW list \in Seq(S), NEW d \in S
  PROVE  /\ node_insert(list, d) \in Seq(S)
         /\ \A i \in DOMAIN node_insert(list, d) :
               node_insert(list, d)[i] = d \/ \E j \in DOMAIN list : node_insert(list, d)[i] = list[j]
         /\ Len(node_insert(list, d)) = Len(list) + 1
  BY LenProperties, ConcatProperties DEF node_insert

\* Reversing a list.
LEMMA ReverseList ==
  ASSUME NEW S, NEW list \in Seq(S)
  PROVE  Reverse(list) \in Seq(S)
<1>1. Len(list) \in Nat /\ \A j \in 1..Len(list) : list[j] \in S
  BY LenProperties
<1>2. Reverse(list) \in [1..Len(list) -> S]
  BY <1>1 DEF Reverse
<1> QED  BY <1>1, <1>2, SeqDef

\* A list is a list of whatever set its elements are in.
LEMMA Retype ==
  ASSUME NEW S, NEW T, NEW list \in Seq(S), \A i \in DOMAIN list : list[i] \in T
  PROVE  list \in Seq(T)
<1>1. Len(list) \in Nat /\ list \in [1..Len(list) -> S] /\ DOMAIN list = 1..Len(list)
  BY LenProperties
<1>2. list \in [1..Len(list) -> T]
  BY <1>1
<1> QED  BY <1>1, <1>2, SeqDef

\* Changing the nodes of a list in place.
LEMMA FunctionSeq ==
  ASSUME NEW S, NEW list \in Seq(S), NEW T, NEW new \in [DOMAIN list -> T]
  PROVE  new \in Seq(T) /\ Len(new) = Len(list) /\ DOMAIN new = DOMAIN list
<1>1. Len(list) \in Nat /\ DOMAIN list = 1..Len(list)
  BY LenProperties
<1>2. new \in [1..Len(list) -> T]
  BY <1>1
<1>3. new \in Seq(T)
  BY <1>1, <1>2, SeqDef
<1> QED  BY <1>1, <1>2, <1>3, LenProperties

\* Deleting in a loop leaves only what is outside the deleted positions.
LEMMA NodeKept ==
  ASSUME NEW S, NEW list \in Seq(S), NEW K \in SUBSET (DOMAIN list),
         NEW T, \A k \in K : list[k] \in T
  PROVE  node_keep(list, K) \in Seq(T)
<1> DEFINE kept == node_keep(list, K)
<1>1. kept \in Seq(S) /\ \A i \in DOMAIN kept : \E k \in K : kept[i] = list[k]
  BY NodeKeep
<1> HIDE DEF kept
<1>2. \A i \in DOMAIN kept : kept[i] \in T
  BY <1>1
<1>3. kept \in Seq(T)
  BY <1>1, <1>2, Retype
<1> QED  BY <1>3 DEF kept

------------------------------------------------------------------------------
(* Lists made of nodes of another list, each taken once. *)

\* g says where in old each node of new comes from: the nodes at K, each once.
Picks(g, new, old, K) ==
    /\ g \in [DOMAIN new -> K]
    /\ \A i \in DOMAIN new : new[i] = old[g[i]]
    /\ \A i, j \in DOMAIN new : g[i] = g[j] => i = j
    /\ \A k \in K : \E i \in DOMAIN new : g[i] = k

Selects(new, old, K) == \E g : Picks(g, new, old, K)

\* Deleting in a loop keeps each of the other nodes once.
LEMMA KeepSelects ==
  ASSUME NEW S, NEW list \in Seq(S), NEW K \in SUBSET (DOMAIN list)
  PROVE  Selects(node_keep(list, K), list, K)
<1> DEFINE Orders == UNION {[1..n -> K] : n \in 0..Len(list)}
           order == CHOOSE f \in Orders : Enumerates(f, K)
<1>1. \E f \in Orders : Enumerates(f, K)
  <2>1. Len(list) \in Nat /\ DOMAIN list = 1..Len(list)
    BY LenProperties
  <2>2. PICK m \in 0..Len(list) : \E f \in [1..m -> K] : Enumerates(f, K)
    BY <2>1, OrderExists
  <2> QED  BY <2>2
<1>2. order \in Orders /\ Enumerates(order, K)
  BY <1>1
<1>3. PICK m \in 0..Len(list) : order \in [1..m -> K]
  BY <1>2
<1>4. node_keep(list, K) = [i \in DOMAIN order |-> list[order[i]]]
  BY DEF node_keep, Enumerates
<1>5. m \in Nat /\ DOMAIN order = 1..m /\ K \subseteq Nat
  BY <1>3, LenProperties
<1> HIDE DEF order
<1>6. \A i, j \in 1..m : order[i] = order[j] => i = j
  <2> SUFFICES ASSUME NEW i \in 1..m, NEW j \in 1..m, order[i] = order[j], i # j
               PROVE  FALSE
    OBVIOUS
  <2>1. order[i] \in Nat /\ order[j] \in Nat
    BY <1>3, <1>5
  <2>2. CASE i < j  BY <1>2, <1>5, <2>1, <2>2, SMTT(30) DEF Enumerates
  <2>3. CASE j < i  BY <1>2, <1>5, <2>1, <2>3, SMTT(30) DEF Enumerates
  <2> QED  BY <1>5, <2>2, <2>3
<1>7. Picks(order, node_keep(list, K), list, K)
  BY <1>2, <1>3, <1>4, <1>5, <1>6 DEF Picks, Enumerates
<1> QED  BY <1>7 DEF Selects

\* Unlinking a node keeps each of the others once.
LEMMA DeleteSelects ==
  ASSUME NEW S, NEW list \in Seq(S), NEW i \in DOMAIN list
  PROVE  Selects(node_delete(list, i), list, DOMAIN list \ {i})
<1> DEFINE n == Len(list)
           a == SubSeq(list, 1, i - 1)
           b == SubSeq(list, i + 1, n)
           new == node_delete(list, i)
           g == [j \in 1..(n - 1) |-> IF j < i THEN j ELSE j + 1]
<1>1. n \in Nat /\ i \in 1..n /\ DOMAIN list = 1..n
  BY LenProperties
<1>2. a \in Seq(S) /\ Len(a) = i - 1 /\ \A j \in 1..(i - 1) : a[j] = list[j]
  BY <1>1, SubSeqProperties
<1>3. b \in Seq(S) /\ Len(b) = n - i /\ \A j \in 1..(n - i) : b[j] = list[i + j]
  BY <1>1, SubSeqProperties, SMTT(30)
<1>4. new = a \o b
  BY DEF node_delete, RemoveAt
<1> HIDE DEF n, a, b, new
<1>5. /\ new \in Seq(S) /\ Len(new) = n - 1 /\ DOMAIN new = 1..(n - 1)
      /\ \A j \in 1..(n - 1) : new[j] = IF j <= i - 1 THEN a[j] ELSE b[j - (i - 1)]
  <2>1. /\ new \in Seq(S) /\ Len(new) = Len(a) + Len(b)
        /\ \A j \in 1..(Len(a) + Len(b)) :
              new[j] = IF j <= Len(a) THEN a[j] ELSE b[j - Len(a)]
    BY <1>2, <1>3, <1>4, ConcatProperties
  <2>2. Len(a) + Len(b) = n - 1
    BY <1>1, <1>2, <1>3
  <2> QED  BY <1>2, <2>1, <2>2, LenProperties
<1>6. \A j \in 1..(n - 1) : new[j] = list[g[j]]
  <2> SUFFICES ASSUME NEW j \in 1..(n - 1) PROVE new[j] = list[g[j]]
    OBVIOUS
  <2>1. CASE j < i
    <3>1. j \in 1..(i - 1) /\ g[j] = j /\ j <= i - 1
      BY <1>1, <2>1
    <3> QED  BY <1>2, <1>5, <3>1
  <2>2. CASE ~(j < i)
    <3>1. j - (i - 1) \in 1..(n - i) /\ g[j] = j + 1 /\ ~(j <= i - 1) /\ i + (j - (i - 1)) = j + 1
      BY <1>1, <2>2
    <3> QED  BY <1>3, <1>5, <3>1
  <2> QED  BY <2>1, <2>2
<1>7. g \in [1..(n - 1) -> DOMAIN list \ {i}]
  BY <1>1
<1>8. \A j, k \in 1..(n - 1) : g[j] = g[k] => j = k
  BY <1>1
<1>9. ASSUME NEW k \in DOMAIN list \ {i} PROVE \E j \in 1..(n - 1) : g[j] = k
  <2>1. CASE k < i
    <3>1. k \in 1..(n - 1) /\ g[k] = k  BY <1>1, <2>1
    <3> QED  BY <3>1
  <2>2. CASE ~(k < i)
    <3>1. k - 1 \in 1..(n - 1) /\ g[k - 1] = k  BY <1>1, <2>2
    <3> QED  BY <3>1
  <2> QED  BY <2>1, <2>2
<1> HIDE DEF g
<1>10. Picks(g, new, list, DOMAIN list \ {i})
  BY <1>5, <1>6, <1>7, <1>8, <1>9 DEF Picks
<1> QED  BY <1>10 DEF Selects, new

\* Reversing keeps each node once.
LEMMA ReverseSelects ==
  ASSUME NEW S, NEW list \in Seq(S)
  PROVE  Selects(Reverse(list), list, DOMAIN list) /\ DOMAIN Reverse(list) = DOMAIN list
<1> DEFINE n == Len(list)
           g == [j \in 1..n |-> n - j + 1]
<1>1. n \in Nat /\ DOMAIN list = 1..n
  BY LenProperties
<1>2. DOMAIN Reverse(list) = 1..n /\ \A j \in 1..n : Reverse(list)[j] = list[g[j]]
  BY <1>1 DEF Reverse
<1>3. g \in [1..n -> 1..n] /\ \A j, k \in 1..n : g[j] = g[k] => j = k
  BY <1>1
<1>4. ASSUME NEW k \in 1..n PROVE \E j \in 1..n : g[j] = k
  <2>1. n - k + 1 \in 1..n /\ g[n - k + 1] = k
    BY <1>1
  <2> QED  BY <2>1
<1> HIDE DEF g, n
<1>5. Picks(g, Reverse(list), list, DOMAIN list)
  BY <1>1, <1>2, <1>3, <1>4 DEF Picks
<1> QED  BY <1>1, <1>2, <1>5 DEF Selects

\* Picking from what was picked.
LEMMA SelectsTwice ==
  ASSUME NEW a, NEW b, NEW c, NEW K,
         Selects(a, b, DOMAIN b), Selects(b, c, K)
  PROVE  Selects(a, c, K)
<1>1. PICK f : Picks(f, a, b, DOMAIN b)
  BY DEF Selects
<1>2. PICK g : Picks(g, b, c, K)
  BY DEF Selects
<1> DEFINE h == [i \in DOMAIN a |-> g[f[i]]]
<1>3. \A i \in DOMAIN a : f[i] \in DOMAIN b /\ h[i] = g[f[i]] /\ h[i] \in K
  BY <1>1, <1>2 DEF Picks
<1>4. h \in [DOMAIN a -> K]
  BY <1>3
<1>5. \A i \in DOMAIN a : a[i] = c[h[i]]
  BY <1>1, <1>2, <1>3 DEF Picks
<1>6. \A i, j \in DOMAIN a : h[i] = h[j] => i = j
  BY <1>1, <1>2, <1>3 DEF Picks
<1>7. \A k \in K : \E i \in DOMAIN a : h[i] = k
  <2> SUFFICES ASSUME NEW k \in K PROVE \E i \in DOMAIN a : h[i] = k
    OBVIOUS
  <2>1. PICK j \in DOMAIN b : g[j] = k
    BY <1>2 DEF Picks
  <2>2. PICK i \in DOMAIN a : f[i] = j
    BY <1>1, <2>1 DEF Picks
  <2> QED  BY <2>1, <2>2, <1>3
<1> HIDE DEF h
<1>8. Picks(h, a, c, K)
  BY <1>4, <1>5, <1>6, <1>7, Zenon DEF Picks
<1> QED  BY <1>8 DEF Selects

\* The positions of a list put in front of another.
LEMMA ConcatAt ==
  ASSUME NEW S, NEW a \in Seq(S), NEW b \in Seq(S)
  PROVE  /\ a \o b \in Seq(S)
         /\ DOMAIN (a \o b) = 1..(Len(a) + Len(b))
         /\ DOMAIN a = 1..Len(a) /\ DOMAIN b = 1..Len(b) /\ Len(a) \in Nat /\ Len(b) \in Nat
         /\ \A i \in DOMAIN (a \o b) :
               \/ i \in DOMAIN a /\ (a \o b)[i] = a[i]
               \/ i - Len(a) \in DOMAIN b /\ (a \o b)[i] = b[i - Len(a)]
         /\ \A i \in DOMAIN a : i \in DOMAIN (a \o b) /\ (a \o b)[i] = a[i]
         /\ \A i \in DOMAIN b : Len(a) + i \in DOMAIN (a \o b) /\ (a \o b)[Len(a) + i] = b[i]
<1>1. /\ Len(a) \in Nat /\ Len(b) \in Nat /\ DOMAIN a = 1..Len(a) /\ DOMAIN b = 1..Len(b)
      /\ a \o b \in Seq(S) /\ Len(a \o b) = Len(a) + Len(b)
      /\ DOMAIN (a \o b) = 1..(Len(a) + Len(b))
      /\ \A i \in 1..(Len(a) + Len(b)) :
            (a \o b)[i] = IF i <= Len(a) THEN a[i] ELSE b[i - Len(a)]
  BY LenProperties, ConcatProperties
<1> DEFINE ab == a \o b
<1> HIDE DEF ab
<1>2. ASSUME NEW i \in DOMAIN ab
      PROVE  \/ i \in DOMAIN a /\ ab[i] = a[i]
             \/ i - Len(a) \in DOMAIN b /\ ab[i] = b[i - Len(a)]
  BY <1>1 DEF ab
<1>3. ASSUME NEW i \in DOMAIN a PROVE i \in DOMAIN ab /\ ab[i] = a[i]
  BY <1>1 DEF ab
<1>4. ASSUME NEW i \in DOMAIN b PROVE Len(a) + i \in DOMAIN ab /\ ab[Len(a) + i] = b[i]
  BY <1>1 DEF ab
<1> QED  BY <1>1, <1>2, <1>3, <1>4, Zenon DEF ab
==============================================================================
