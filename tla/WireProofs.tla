------------------------------ MODULE WireProofs ------------------------------
(***************************************************************************)
(* What the router library and the packets promise, for every connected    *)
(* topology, every set of packets and every capacity of the queues.        *)
(*                                                                         *)
(* Dijkstra's algorithm is taken one iteration at a time: what is final is *)
(* the true distance, what is not is the distance over one final vertex.   *)
(* From the tables it leaves, every hop is one nearer to the destination,  *)
(* so the packets of one pair follow one path: of two of them the one that *)
(* is nearer, or in front in the same queue, was sent earlier.  That is    *)
(* the invariant Ordered, and the refinement of LossyFifo follows from it. *)
(***************************************************************************)
EXTENDS Wire, ListsProofs, FiniteSetTheorems

------------------------------------------------------------------------------
(* Paths. *)

\* Joined, for any set of edges.
Path(edges, s, d, n) ==
    \E f \in [0..n -> Routers] :
        f[0] = s /\ f[n] = d /\ \A i \in 1..n : {f[i - 1], f[i]} \in edges

\* A router reaches itself.
LEMMA PathZero ==
  ASSUME NEW edges, NEW s \in Routers
  PROVE  Path(edges, s, s, 0)
<1> DEFINE f == [i \in 0..0 |-> s]
<1>1. f \in [0..0 -> Routers] /\ f[0] = s
  OBVIOUS
<1>2. 1..0 = {}
  OBVIOUS
<1> HIDE DEF f
<1> QED  BY <1>1, <1>2 DEF Path

\* The ends of a path.
LEMMA PathEnds ==
  ASSUME NEW edges, NEW s, NEW d, NEW n \in Nat, Path(edges, s, d, n)
  PROVE  s \in Routers /\ d \in Routers /\ (n = 0 => s = d)
<1>1. PICK f \in [0..n -> Routers] : f[0] = s /\ f[n] = d
  BY DEF Path
<1> QED  BY <1>1

\* One edge more, at either end.
LEMMA PathAppend ==
  ASSUME NEW edges, NEW s, NEW u, NEW v \in Routers, NEW n \in Nat, Path(edges, s, u, n), {u, v} \in edges
  PROVE  Path(edges, s, v, n + 1)
<1>1. PICK f \in [0..n -> Routers] : f[0] = s /\ f[n] = u /\ \A i \in 1..n : {f[i - 1], f[i]} \in edges
  BY DEF Path
<1> DEFINE g == [i \in 0..(n + 1) |-> IF i = n + 1 THEN v ELSE f[i]]
<1>2. g \in [0..(n + 1) -> Routers] /\ g[0] = s /\ g[n + 1] = v
  BY <1>1
<1>3. ASSUME NEW i \in 1..(n + 1) PROVE {g[i - 1], g[i]} \in edges
  <2>1. CASE i = n + 1
    <3>1. g[i - 1] = f[n] /\ g[i] = v
      BY <2>1
    <3> QED  BY <1>1, <3>1
  <2>2. CASE i # n + 1
    <3>1. g[i - 1] = f[i - 1] /\ g[i] = f[i] /\ i \in 1..n
      BY <2>2
    <3> QED  BY <1>1, <3>1
  <2> QED  BY <2>1, <2>2
<1> HIDE DEF g
<1> QED  BY <1>2, <1>3 DEF Path

\* A link in front of a path.
LEMMA PathCons ==
  ASSUME NEW edges, NEW s \in Routers, NEW u, NEW d, NEW n \in Nat, Path(edges, u, d, n), {s, u} \in edges
  PROVE  Path(edges, s, d, n + 1)
<1>1. PICK f \in [0..n -> Routers] : f[0] = u /\ f[n] = d /\ \A i \in 1..n : {f[i - 1], f[i]} \in edges
  BY DEF Path
<1> DEFINE g == [i \in 0..(n + 1) |-> IF i = 0 THEN s ELSE f[i - 1]]
<1>2. g \in [0..(n + 1) -> Routers] /\ g[0] = s /\ g[n + 1] = d
  BY <1>1
<1>3. ASSUME NEW i \in 1..(n + 1) PROVE {g[i - 1], g[i]} \in edges
  <2>1. CASE i = 1
    <3>1. g[i - 1] = s /\ g[i] = f[0]
      BY <2>1
    <3> QED  BY <1>1, <3>1
  <2>2. CASE i # 1
    <3>1. g[i - 1] = f[(i - 1) - 1] /\ g[i] = f[i - 1] /\ i - 1 \in 1..n
      BY <2>2
    <3> QED  BY <1>1, <3>1
  <2> QED  BY <2>1, <2>2
<1> HIDE DEF g
<1> QED  BY <1>2, <1>3 DEF Path

\* A path ends with a link.
LEMMA PathLast ==
  ASSUME NEW edges, NEW s, NEW v, NEW n \in Nat, Path(edges, s, v, n + 1)
  PROVE  \E u \in Routers : Path(edges, s, u, n) /\ {u, v} \in edges
<1>1. PICK f \in [0..(n + 1) -> Routers] :
        f[0] = s /\ f[n + 1] = v /\ \A i \in 1..(n + 1) : {f[i - 1], f[i]} \in edges
  BY DEF Path
<1> DEFINE g == [i \in 0..n |-> f[i]]
<1>2. g \in [0..n -> Routers] /\ g[0] = s /\ g[n] = f[n] /\ f[n] \in Routers
  BY <1>1
<1>3. ASSUME NEW i \in 1..n PROVE {g[i - 1], g[i]} \in edges
  <2>1. g[i - 1] = f[i - 1] /\ g[i] = f[i] /\ i \in 1..(n + 1)
    OBVIOUS
  <2> QED  BY <1>1, <2>1
<1>4. {f[n], v} \in edges
  <2>1. n + 1 \in 1..(n + 1) /\ (n + 1) - 1 = n
    OBVIOUS
  <2> QED  BY <1>1, <2>1
<1> HIDE DEF g
<1>5. Path(edges, s, f[n], n)
  BY <1>2, <1>3 DEF Path
<1> QED  BY <1>2, <1>4, <1>5


------------------------------------------------------------------------------
(* createTable: the vertexes visited so far are the nearest ones, and their *)
(* distances and predecessors are final.                                    *)

Settled(edges, self, done, dist, pred) ==
    /\ done \subseteq Routers
    /\ dist \in [Routers -> 0..INFINITY] /\ pred \in [Routers -> Routers]
    /\ dist[self] = 0 /\ pred[self] = self
    /\ \A v \in Routers : v # self /\ dist[v] < INFINITY =>
          pred[v] \in done /\ {pred[v], v} \in edges /\ dist[v] = dist[pred[v]] + 1
    /\ \A v \in done : \A w \in Routers \ done : dist[v] <= dist[w]
    /\ \A v \in done : \A w \in Routers : {v, w} \in edges => dist[w] <= dist[v] + 1

VertexesOK(edges, self, g) == Settled(edges, self, g.done, g.distance, g.predecessor)

\* INFINITY is one more than the number of routers.
LEMMA InfinityType == INFINITY \in Nat /\ Cardinality(Routers) \in Nat /\ INFINITY = Cardinality(Routers) + 1
<1>1. Cardinality(Routers) \in Nat
  BY WireAssumption, FS_CardinalityType
<1> QED  BY <1>1 DEF INFINITY

\* There is a nearest vertex, and among the nearest a first one.
LEMMA NextVertexIs ==
  ASSUME NEW g, g.distance \in [Routers -> Nat], ~(Routers \subseteq g.done)
  PROVE  /\ NextVertex(g) \in Routers \ g.done
         /\ \A w \in Routers \ g.done : g.distance[NextVertex(g)] <= g.distance[w]
<1> DEFINE open == {v \in Routers : v \notin g.done}
           dist == g.distance
           Values == {dist[v] : v \in open}
           First(v) == \A w \in open : dist[v] < dist[w] \/ (dist[v] = dist[w] /\ v <= w)
<1>1. open # {} /\ open \subseteq Nat /\ open = Routers \ g.done
  BY WireAssumption
<1>2. dist \in [Routers -> Nat]
  OBVIOUS
<1>3. NextVertex(g) = CHOOSE v \in open : First(v)
  BY Zenon DEF NextVertex
<1>4. open \subseteq Routers
  OBVIOUS
<1> HIDE DEF open, dist
<1>5. Values # {} /\ Values \in SUBSET Nat
  BY <1>1, <1>2, <1>4
<1>6. PICK m \in Values : \A x \in Values : m <= x
  <2> HIDE DEF Values
  <2> QED  BY <1>5, LeastNat
<1> DEFINE Least == {v \in open : dist[v] = m}
<1>7. Least # {} /\ Least \in SUBSET Nat
  BY <1>1, <1>6
<1>8. PICK v \in Least : \A w \in Least : v <= w
  <2> HIDE DEF Least
  <2> QED  BY <1>7, LeastNat
<1>9. First(v)
  <2> TAKE w \in open
  <2>1. m <= dist[w] /\ dist[v] = m /\ m \in Nat /\ dist[w] \in Nat
    BY <1>2, <1>4, <1>5, <1>6, <1>8
  <2>2. CASE dist[w] = m  BY <1>8, <2>1, <2>2
  <2>3. CASE dist[w] # m  BY <2>1, <2>3
  <2> QED  BY <2>2, <2>3
<1>10. NextVertex(g) \in open /\ First(NextVertex(g))
  <2> HIDE DEF First
  <2> QED  BY <1>3, <1>8, <1>9
<1>11. \A w \in open : dist[NextVertex(g)] <= dist[w]
  <2> TAKE w \in open
  <2>1. dist[NextVertex(g)] \in Nat /\ dist[w] \in Nat
    BY <1>2, <1>4, <1>10
  <2> QED  BY <1>10, <2>1
<1> QED  BY <1>1, <1>10, <1>11 DEF dist

\* Visiting one more vertex.
LEMMA VisitStep ==
  ASSUME NEW edges, NEW self \in Routers, NEW g, VertexesOK(edges, self, g),
         ~(Routers \subseteq g.done)
  PROVE  /\ VertexesOK(edges, self, Visit(edges, g))
         /\ \E next \in Routers \ g.done : Visit(edges, g).done = g.done \cup {next}
<1> DEFINE next == NextVertex(g)
           near == {v \in Neighbours(edges, next) : g.distance[v] > g.distance[next] + 1}
           done2 == g.done \cup {next}
           dist == g.distance
           pred == g.predecessor
           dist2 == [v \in Routers |-> IF v \in near THEN g.distance[next] + 1 ELSE g.distance[v]]
           pred2 == [v \in Routers |-> IF v \in near THEN next ELSE g.predecessor[v]]
<1>1. Visit(edges, g) = [done |-> done2, distance |-> dist2, predecessor |-> pred2]
  BY Zenon DEF Visit
<1>2. Visit(edges, g).done = done2 /\ Visit(edges, g).distance = dist2 /\ Visit(edges, g).predecessor = pred2
  <2> HIDE DEF done2, dist2, pred2
  <2> QED  BY <1>1
<1>3. INFINITY \in Nat
  BY InfinityType
<1>4. Settled(edges, self, g.done, dist, pred)
  BY DEF VertexesOK
<1>5. dist \in [Routers -> 0..INFINITY] /\ pred \in [Routers -> Routers] /\ g.done \subseteq Routers
  BY <1>4 DEF Settled
<1>6. next \in Routers \ g.done /\ \A w \in Routers \ g.done : dist[next] <= dist[w]
  <2>1. dist \in [Routers -> Nat]
    BY <1>3, <1>5
  <2> QED  BY <2>1, NextVertexIs
<1> HIDE DEF next
<1>7. \A v : v \in near <=> v \in Routers /\ {next, v} \in edges /\ dist[v] > dist[next] + 1
  BY DEF Neighbours
<1> HIDE DEF near, dist, pred
<1>8. /\ \A v \in near : dist2[v] = dist[next] + 1 /\ pred2[v] = next
      /\ \A v \in Routers \ near : dist2[v] = dist[v] /\ pred2[v] = pred[v]
  BY <1>7 DEF dist, pred
<1>9. \A v \in Routers : dist[v] \in Nat /\ dist[v] <= INFINITY
  BY <1>3, <1>5
<1>10. \A v \in g.done : v \notin near
  <2> SUFFICES ASSUME NEW v \in g.done PROVE ~(dist[v] > dist[next] + 1)
    BY <1>7
  <2>1. dist[v] <= dist[next]
    BY <1>4, <1>6 DEF Settled
  <2> QED  BY <1>3, <1>5, <1>6, <1>9, <2>1
<1>11. next \notin near
  <2>1. dist[next] \in Nat
    BY <1>6, <1>9
  <2>2. ~(dist[next] > dist[next] + 1)
    BY <2>1
  <2> QED  BY <1>7, <2>2
<1>12. self \notin near
  <2>1. dist[next] \in Nat /\ dist[self] = 0
    BY <1>4, <1>6, <1>9 DEF Settled
  <2>2. ~(dist[self] > dist[next] + 1)
    BY <2>1
  <2> QED  BY <1>7, <2>2
<1>13. ASSUME NEW v \in near PROVE dist[next] + 1 < INFINITY /\ dist[next] + 1 < dist[v]
  <2>1. v \in Routers /\ dist[v] > dist[next] + 1
    BY <1>7
  <2>2. dist[next] \in Nat /\ dist[v] \in Nat /\ dist[v] <= INFINITY
    BY <1>6, <1>9, <2>1
  <2> QED  BY <1>3, <2>1, <2>2
<1>14. dist2 \in [Routers -> 0..INFINITY] /\ pred2 \in [Routers -> Routers]
  <2>1. \A v \in Routers : dist2[v] \in 0..INFINITY
    <3> TAKE v \in Routers
    <3>1. dist[next] \in Nat
      BY <1>6, <1>9
    <3>2. CASE v \in near
      <4>1. dist2[v] = dist[next] + 1 /\ dist[next] + 1 < INFINITY
        BY <1>8, <1>13, <3>2
      <4> QED  BY <1>3, <3>1, <4>1
    <3>3. CASE v \notin near
      <4>1. dist2[v] = dist[v]
        BY <1>8, <3>3
      <4> QED  BY <1>3, <1>9, <4>1
    <3> QED  BY <3>2, <3>3
  <2>2. \A v \in Routers : pred2[v] \in Routers
    BY <1>5, <1>6, <1>8
  <2>3. dist2 = [v \in Routers |-> dist2[v]] /\ pred2 = [v \in Routers |-> pred2[v]]
    OBVIOUS
  <2> HIDE DEF dist2, pred2
  <2> QED  BY <2>1, <2>2, <2>3
<1> HIDE DEF dist2, pred2
<1>15. dist2[self] = 0 /\ pred2[self] = self
  BY <1>4, <1>8, <1>12 DEF Settled
<1>16. ASSUME NEW v \in Routers, v # self, dist2[v] < INFINITY
       PROVE  pred2[v] \in done2 /\ {pred2[v], v} \in edges /\ dist2[v] = dist2[pred2[v]] + 1
  <2>1. CASE v \in near
    <3>1. pred2[v] = next /\ dist2[v] = dist[next] + 1 /\ dist2[next] = dist[next]
      BY <1>6, <1>8, <1>11, <2>1
    <3> QED  BY <1>7, <2>1, <3>1
  <2>2. CASE v \notin near
    <3>1. pred2[v] = pred[v] /\ dist2[v] = dist[v]
      BY <1>8, <2>2
    <3>2. pred[v] \in g.done /\ {pred[v], v} \in edges /\ dist[v] = dist[pred[v]] + 1
      BY <1>4, <1>16, <3>1 DEF Settled
    <3>3. dist2[pred[v]] = dist[pred[v]]
      BY <1>5, <1>8, <1>10, <3>2
    <3> QED  BY <3>1, <3>2, <3>3
  <2> QED  BY <2>1, <2>2
<1>17. ASSUME NEW v \in done2, NEW w \in Routers \ done2 PROVE dist2[v] <= dist2[w]
  <2>1. dist2[v] = dist[v] /\ v \in Routers
    BY <1>5, <1>6, <1>8, <1>10, <1>11
  <2>2. dist[v] <= dist[w] /\ dist[v] <= dist[next]
    <3>1. CASE v = next  BY <1>3, <1>6, <1>9, <3>1
    <3>2. CASE v \in g.done  BY <1>4, <1>6, <3>2 DEF Settled
    <3> QED  BY <3>1, <3>2
  <2>3. dist2[w] = dist[w] \/ dist2[w] = dist[next] + 1
    BY <1>8
  <2> QED  BY <1>3, <1>6, <1>9, <2>1, <2>2, <2>3
<1>18. ASSUME NEW v \in done2, NEW w \in Routers, {v, w} \in edges PROVE dist2[w] <= dist2[v] + 1
  <2>1. dist2[v] = dist[v] /\ v \in Routers
    BY <1>5, <1>6, <1>8, <1>10, <1>11
  <2>2. dist2[w] <= dist[w]
    <3>1. CASE w \in near
      <4>1. dist2[w] = dist[next] + 1 /\ dist[next] + 1 < dist[w] /\ dist[next] \in Nat /\ dist[w] \in Nat
        BY <1>6, <1>8, <1>9, <1>13, <3>1
      <4> QED  BY <4>1
    <3>2. CASE w \notin near
      <4>1. dist2[w] = dist[w] /\ dist[w] \in Nat
        BY <1>8, <1>9, <3>2
      <4> QED  BY <4>1
    <3> QED  BY <3>1, <3>2
  <2>3. CASE v \in g.done
    <3>1. dist[w] <= dist[v] + 1
      BY <1>4, <1>18, <2>3 DEF Settled
    <3> QED  BY <1>3, <1>9, <1>14, <2>1, <2>2, <3>1
  <2>4. CASE v = next
    <3>1. CASE w \in near  BY <1>3, <1>8, <1>9, <2>1, <2>4, <3>1
    <3>2. CASE w \notin near
      <4>1. ~(dist[w] > dist[next] + 1)
        BY <1>7, <1>18, <2>4, <3>2
      <4> QED  BY <1>3, <1>6, <1>8, <1>9, <2>1, <2>4, <3>2, <4>1
    <3> QED  BY <3>1, <3>2
  <2> QED  BY <2>3, <2>4
<1>19. done2 \subseteq Routers
  BY <1>5, <1>6
<1> HIDE DEF done2
<1>20. Settled(edges, self, done2, dist2, pred2)
  BY <1>14, <1>15, <1>16, <1>17, <1>18, <1>19 DEF Settled
<1> QED  BY <1>2, <1>6, <1>20 DEF VertexesOK, done2


\* All vertexes are visited, and then every distance and predecessor is final.
LEMMA VisitedIs ==
  ASSUME NEW edges, NEW self \in Routers
  PROVE  /\ VertexesOK(edges, self, Visited(edges, self))
         /\ Visited(edges, self).done = Routers
<1> DEFINE N == Cardinality(Routers)
           start == [done |-> {},
                     distance |-> [v \in Routers |-> IF v = self THEN 0 ELSE INFINITY],
                     predecessor |-> [v \in Routers |-> v]]
           Def(f) == [n \in 0..N |-> IF n = 0 THEN start ELSE Visit(edges, f[n - 1])]
           after == CHOOSE f : f = Def(f)
<1>1. Visited(edges, self) = after[N]
  BY Zenon DEF Visited
<1>2. N \in Nat /\ INFINITY \in Nat /\ IsFiniteSet(Routers) /\ INFINITY = N + 1
  BY InfinityType, WireAssumption
<1>3. VertexesOK(edges, self, start) /\ start.done = {}
  <2>1. start.done = {} /\ start.distance = [v \in Routers |-> IF v = self THEN 0 ELSE INFINITY]
                        /\ start.predecessor = [v \in Routers |-> v]
    OBVIOUS
  <2> HIDE DEF start
  <2> QED  BY <1>2, <2>1 DEF VertexesOK, Settled
<1> HIDE DEF N, start
\* The recursion has a solution: a least length for which it had none would
\* be one more than a length for which it has.
<1>4. \E f : f = Def(f)
  <2> DEFINE Solves(f, k) == f = [n \in 0..k |-> IF n = 0 THEN start ELSE Visit(edges, f[n - 1])]
             Bad == {k \in Nat : ~\E f : Solves(f, k)}
  <2>1. Bad = {}
    <3> SUFFICES ASSUME Bad # {} PROVE FALSE
      OBVIOUS
    <3>1. PICK k \in Bad : \A j \in Bad : k <= j
      BY LeastNat
    <3>2. k \in Nat /\ ~\E f : Solves(f, k)
      BY <3>1
    <3>3. CASE k = 0
      <4> DEFINE f == [n \in 0..0 |-> start]
      <4>1. Solves(f, 0)
        OBVIOUS
      <4> QED  BY <3>2, <3>3, <4>1
    <3>4. CASE k # 0
      <4>1. k - 1 \in Nat /\ k - 1 \notin Bad
        <5>1. k - 1 \in Nat /\ ~(k <= k - 1)
          BY <3>2, <3>4
        <5> HIDE DEF Bad
        <5> QED  BY <3>1, <5>1
      <4>2. PICK f : Solves(f, k - 1)
        BY <4>1
      <4> DEFINE g == [n \in 0..k |-> IF n = k THEN Visit(edges, f[k - 1]) ELSE f[n]]
      <4>3. ASSUME NEW n \in 0..k PROVE g[n] = IF n = 0 THEN start ELSE Visit(edges, g[n - 1])
        <5>1. CASE n = k
          <6>1. g[n] = Visit(edges, f[k - 1]) /\ g[n - 1] = f[k - 1] /\ n # 0
            BY <3>2, <3>4, <5>1
          <6> QED  BY <5>1, <6>1
        <5>2. CASE n # k
          <6>1. n \in 0..(k - 1) /\ g[n] = f[n]
            BY <3>2, <4>1, <5>2
          <6>2. f[n] = IF n = 0 THEN start ELSE Visit(edges, f[n - 1])
            BY <4>2, <6>1
          <6>3. n # 0 => g[n - 1] = f[n - 1]
            BY <3>2, <6>1
          <6> QED  BY <6>1, <6>2, <6>3
        <5> QED  BY <5>1, <5>2
      <4>4. g = [n \in 0..k |-> g[n]]
        OBVIOUS
      <4> HIDE DEF g
      <4>5. [n \in 0..k |-> g[n]] = [n \in 0..k |-> IF n = 0 THEN start ELSE Visit(edges, g[n - 1])]
        BY <4>3
      <4>6. Solves(g, k)
        BY <4>4, <4>5
      <4> QED  BY <3>2, <4>6
    <3> QED  BY <3>3, <3>4
  <2>2. \E f : Solves(f, N)
    BY <1>2, <2>1
  <2> QED  BY <2>2
<1>5. after = Def(after)
  BY <1>4
<1> HIDE DEF after
<1>6. after[0] = start /\ \A n \in 1..N : after[n] = Visit(edges, after[n - 1])
  <2>1. \A n \in 0..N : after[n] = IF n = 0 THEN start ELSE Visit(edges, after[n - 1])
    BY <1>5
  <2>2. 0 \in 0..N /\ \A n \in 1..N : n \in 0..N /\ n # 0
    BY <1>2
  <2> QED  BY <2>1, <2>2
\* One more vertex is done after each visit.
<1> DEFINE OK(n) == VertexesOK(edges, self, after[n]) /\ Cardinality(after[n].done) = n
           Failed == {n \in Nat : n <= N /\ ~OK(n)}
<1>7. Failed = {}
  <2> SUFFICES ASSUME Failed # {} PROVE FALSE
    OBVIOUS
  <2>1. PICK n \in Failed : \A j \in Failed : n <= j
    BY LeastNat
  <2>2. n \in Nat /\ n <= N /\ ~OK(n)
    BY <2>1
  <2>3. CASE n = 0
    <3>1. OK(0)
      BY <1>3, <1>6, FS_EmptySet
    <3> QED  BY <2>2, <2>3, <3>1
  <2>4. CASE n # 0
    <3>1. n - 1 \in Nat /\ n - 1 <= N /\ n - 1 \notin Failed /\ n \in 1..N
      BY <1>2, <2>1, <2>2, <2>4
    <3>2. OK(n - 1)
      BY <3>1
    <3> DEFINE g == after[n - 1]
    <3>3. VertexesOK(edges, self, g) /\ Cardinality(g.done) = n - 1 /\ g.done \subseteq Routers
      BY <3>2 DEF VertexesOK, Settled
    <3>4. after[n] = Visit(edges, g)
      BY <1>6, <3>1
    <3> HIDE DEF g
    <3>5. IsFiniteSet(g.done)
      BY <1>2, <3>3, FS_Subset
    <3>6. ~(Routers \subseteq g.done)
      <4>1. Routers # g.done
        BY <1>2, <2>2, <3>3 DEF N
      <4> QED  BY <3>3, <4>1
    <3>7. PICK next \in Routers \ g.done : after[n].done = g.done \cup {next}
      BY <3>3, <3>4, <3>6, VisitStep
    <3>8. Cardinality(g.done \cup {next}) = Cardinality(g.done) + 1
      BY <3>5, <3>7, FS_AddElement
    <3>9. VertexesOK(edges, self, after[n])
      BY <3>3, <3>4, <3>6, VisitStep
    <3>10. OK(n)
      BY <2>2, <3>3, <3>7, <3>8, <3>9
    <3> QED  BY <2>2, <3>10
  <2> QED  BY <2>3, <2>4
<1>8. VertexesOK(edges, self, after[N]) /\ Cardinality(after[N].done) = N
  BY <1>2, <1>7
<1>9. after[N].done = Routers
  <2>1. after[N].done \subseteq Routers
    BY <1>8 DEF VertexesOK, Settled
  <2> QED  BY <1>2, <1>8, <2>1, FS_Subset DEF N
<1> QED  BY <1>1, <1>8, <1>9


\* What createTable computed for the vertexes.
Dist(edges, self) == Visited(edges, self).distance
Pred(edges, self) == Visited(edges, self).predecessor

Final(edges, self, dist, pred) ==
    /\ dist \in [Routers -> Nat] /\ pred \in [Routers -> Routers]
    /\ dist[self] = 0 /\ pred[self] = self
    /\ \A v, w \in Routers : {v, w} \in edges => dist[w] <= dist[v] + 1
    /\ \A v \in Routers : v # self /\ dist[v] < INFINITY =>
          {pred[v], v} \in edges /\ dist[v] = dist[pred[v]] + 1

\* At the end of the algorithm every vertex is final.
LEMMA FinalVertexes ==
  ASSUME NEW edges, NEW self \in Routers
  PROVE  Final(edges, self, Dist(edges, self), Pred(edges, self))
<1> DEFINE dist == Dist(edges, self)
           pred == Pred(edges, self)
<1>1. Settled(edges, self, Routers, dist, pred)
  BY VisitedIs DEF VertexesOK, Dist, Pred
<1>2. INFINITY \in Nat
  BY InfinityType
<1> HIDE DEF dist, pred
<1>3. dist \in [Routers -> Nat] /\ pred \in [Routers -> Routers] /\ dist[self] = 0 /\ pred[self] = self
  BY <1>1, <1>2 DEF Settled
<1>4. Final(edges, self, dist, pred)
  BY <1>1, <1>3, Zenon DEF Settled, Final
<1> QED  BY <1>4 DEF dist, pred

\* No path is shorter than the distance.
LEMMA DistLeast ==
  ASSUME NEW edges, NEW self \in Routers, NEW v \in Routers, NEW k \in Nat, Path(edges, self, v, k)
  PROVE  Dist(edges, self)[v] <= k
<1> DEFINE dist == Dist(edges, self)
           Bad == {n \in Nat : \E w \in Routers : Path(edges, self, w, n) /\ ~(dist[w] <= n)}
<1>1. dist \in [Routers -> Nat] /\ dist[self] = 0
      /\ \A x, w \in Routers : {x, w} \in edges => dist[w] <= dist[x] + 1
  BY FinalVertexes, Zenon DEF Final
<1> HIDE DEF dist
<1>2. Bad = {}
  <2> SUFFICES ASSUME Bad # {} PROVE FALSE
    OBVIOUS
  <2>1. PICK n \in Bad : \A j \in Bad : n <= j
    BY LeastNat
  <2>2. n \in Nat
    BY <2>1
  <2>3. PICK w \in Routers : Path(edges, self, w, n) /\ ~(dist[w] <= n)
    BY <2>1
  <2>4. CASE n = 0
    BY <1>1, <2>2, <2>3, <2>4, PathEnds
  <2>5. CASE n # 0
    <3>1. n - 1 \in Nat /\ (n - 1) + 1 = n /\ ~(n <= n - 1)
      BY <2>2, <2>5
    <3>2. n - 1 \notin Bad
      <4> HIDE DEF Bad
      <4> QED  BY <2>1, <3>1
    <3>3. PICK u \in Routers : Path(edges, self, u, n - 1) /\ {u, w} \in edges
      BY <2>3, <3>1, PathLast
    <3>4. dist[u] <= n - 1
      BY <3>1, <3>2, <3>3
    <3>5. dist[w] <= dist[u] + 1 /\ dist[u] \in Nat /\ dist[w] \in Nat
      BY <1>1, <3>3
    <3> QED  BY <2>2, <2>3, <3>4, <3>5
  <2> QED  BY <2>4, <2>5
<1>3. k \notin Bad
  BY <1>2
<1> QED  BY <1>3 DEF dist

\* The distance is the length of a path.
LEMMA DistPath ==
  ASSUME NEW edges, NEW self \in Routers, NEW v \in Routers, Dist(edges, self)[v] < INFINITY
  PROVE  Path(edges, self, v, Dist(edges, self)[v])
<1> DEFINE dist == Dist(edges, self)
           pred == Pred(edges, self)
           Bad == {n \in Nat : n < INFINITY /\ \E w \in Routers : dist[w] = n /\ ~Path(edges, self, w, n)}
<1>0. Final(edges, self, dist, pred)
  BY FinalVertexes
<1> HIDE DEF dist, pred
<1>1. /\ dist \in [Routers -> Nat] /\ dist[self] = 0 /\ pred \in [Routers -> Routers]
      /\ \A w \in Routers : w # self /\ dist[w] < INFINITY =>
            {pred[w], w} \in edges /\ dist[w] = dist[pred[w]] + 1
  BY <1>0, Zenon DEF Final
<1>2. INFINITY \in Nat
  BY InfinityType
<1>3. Bad = {}
  <2> SUFFICES ASSUME Bad # {} PROVE FALSE
    OBVIOUS
  <2>1. PICK n \in Bad : \A j \in Bad : n <= j
    BY LeastNat
  <2>2. n \in Nat /\ n < INFINITY
    BY <2>1
  <2>3. PICK w \in Routers : dist[w] = n /\ ~Path(edges, self, w, n)
    BY <2>1
  <2>4. CASE w = self
    BY <1>1, <2>3, <2>4, PathZero
  <2>5. CASE w # self
    <3>1. pred[w] \in Routers /\ {pred[w], w} \in edges /\ n = dist[pred[w]] + 1 /\ dist[pred[w]] \in Nat
      BY <1>1, <2>2, <2>3, <2>5
    <3>2. n - 1 = dist[pred[w]] /\ n - 1 \in Nat /\ (n - 1) + 1 = n /\ ~(n <= n - 1) /\ n - 1 < INFINITY
      BY <1>2, <2>2, <3>1
    <3>3. n - 1 \notin Bad
      <4> HIDE DEF Bad
      <4> QED  BY <2>1, <3>2
    <3>4. Path(edges, self, pred[w], n - 1)
      BY <3>1, <3>2, <3>3
    <3>5. Path(edges, self, w, (n - 1) + 1)
      BY <3>1, <3>2, <3>4, PathAppend
    <3> QED  BY <2>3, <3>2, <3>5
  <2> QED  BY <2>4, <2>5
<1>4. dist[v] \in Nat /\ dist[v] \notin Bad
  BY <1>1, <1>3
<1> QED  BY <1>4 DEF dist

\* A vertex at distance k has others at every smaller distance, so k is less
\* than the number of routers.
LEMMA DistBound ==
  ASSUME NEW edges, NEW self \in Routers, NEW v \in Routers, Dist(edges, self)[v] < INFINITY
  PROVE  Dist(edges, self)[v] < Cardinality(Routers)
<1> DEFINE dist == Dist(edges, self)
           pred == Pred(edges, self)
           k == dist[v]
           Bad == {i \in Nat : i <= k /\ ~\E u \in Routers : dist[u] = k - i}
<1>0. Final(edges, self, dist, pred)
  BY FinalVertexes
<1> HIDE DEF dist, pred
<1>1. /\ dist \in [Routers -> Nat] /\ dist[self] = 0 /\ pred \in [Routers -> Routers]
      /\ \A w \in Routers : w # self /\ dist[w] < INFINITY =>
            {pred[w], w} \in edges /\ dist[w] = dist[pred[w]] + 1
  BY <1>0, Zenon DEF Final
<1>2. INFINITY \in Nat /\ k \in Nat /\ k < INFINITY
  BY <1>1, InfinityType DEF dist
<1>3. Bad = {}
  <2> SUFFICES ASSUME Bad # {} PROVE FALSE
    OBVIOUS
  <2>1. PICK i \in Bad : \A j \in Bad : i <= j
    BY LeastNat
  <2>2. i \in Nat /\ i <= k /\ ~\E u \in Routers : dist[u] = k - i
    BY <2>1
  <2>3. i # 0
    BY <1>2, <2>2
  <2>4. i - 1 \in Nat /\ i - 1 <= k /\ ~(i <= i - 1)
    BY <1>2, <2>2, <2>3
  <2>5. i - 1 \notin Bad
    <3> HIDE DEF Bad
    <3> QED  BY <2>1, <2>4
  <2>6. PICK u \in Routers : dist[u] = k - (i - 1)
    BY <2>4, <2>5
  <2>7. dist[u] # 0 /\ dist[u] < INFINITY
    BY <1>2, <2>2, <2>3, <2>6
  <2>8. pred[u] \in Routers /\ dist[u] = dist[pred[u]] + 1 /\ dist[pred[u]] \in Nat
    BY <1>1, <2>7
  <2>9. dist[pred[u]] = k - i
    BY <1>2, <2>2, <2>6, <2>8
  <2> QED  BY <2>2, <2>8, <2>9
<1>4. \A j \in 0..k : \E u \in Routers : dist[u] = j
  <2> TAKE j \in 0..k
  <2>1. k - j \in Nat /\ k - j <= k /\ k - (k - j) = j
    BY <1>2
  <2>2. k - j \notin Bad
    BY <1>3
  <2> QED  BY <2>1, <2>2
<1> DEFINE f == [j \in 0..k |-> CHOOSE u \in Routers : dist[u] = j]
<1>5. \A j \in 0..k : f[j] \in Routers /\ dist[f[j]] = j
  BY <1>4
<1>6. f = [j \in 0..k |-> f[j]]
  OBVIOUS
<1> HIDE DEF f, k
<1>7. f \in Injection(0..k, Routers)
  <2>1. f \in [0..k -> Routers]
    BY <1>5, <1>6
  <2>2. \A i, j \in 0..k : f[i] = f[j] => i = j
    BY <1>5
  <2> QED  BY <2>1, <2>2 DEF Injection, IsInjective
<1>8. Cardinality(0..k) <= Cardinality(Routers)
  BY <1>7, WireAssumption, FS_Injection
<1>9. Cardinality(0..k) = k + 1
  <2>1. 0 <= k
    BY <1>2
  <2> QED  BY <1>2, <2>1, FS_Interval
<1> QED  BY <1>2, <1>8, <1>9, InfinityType DEF k, dist

\* In a connected topology every vertex is reached.
LEMMA DistFinite ==
  ASSUME NEW edges \in SUBSET Links, Connected(edges), NEW self \in Routers, NEW v \in Routers
  PROVE  Dist(edges, self)[v] < INFINITY
<1> DEFINE dist == Dist(edges, self)
           S == {w \in Routers : dist[w] < INFINITY}
<1>1. /\ dist \in [Routers -> Nat] /\ dist[self] = 0
      /\ \A x, w \in Routers : {x, w} \in edges => dist[w] <= dist[x] + 1
  BY FinalVertexes, Zenon DEF Final
<1>2. INFINITY \in Nat /\ Cardinality(Routers) \in Nat /\ INFINITY = Cardinality(Routers) + 1
  BY InfinityType
<1>3. self \in S
  BY <1>1, <1>2
<1>4. \A w \in S : dist[w] < Cardinality(Routers)
  BY DistBound
<1> HIDE DEF dist
<1>5. S = Routers
  <2> SUFFICES ASSUME S # Routers PROVE FALSE
    OBVIOUS
  <2>1. PICK e \in edges : e \cap S # {} /\ ~(e \subseteq S)
    BY <1>3 DEF Connected
  <2>2. e \in SUBSET Routers /\ Cardinality(e) = 2 /\ IsFiniteSet(e)
    BY <2>1, WireAssumption, FS_Subset DEF Links
  <2>3. PICK x \in S, w \in Routers \ S : x \in e /\ w \in e
    BY <2>1, <2>2
  <2>4. {x, w} = e
    <3>1. x # w
      BY <2>3
    <3>2. IsFiniteSet({x}) /\ Cardinality({x}) = 1
      BY FS_Singleton
    <3>3. Cardinality({x} \cup {w}) = 2
      <4>1. w \notin {x}
        BY <3>1
      <4>2. Cardinality({x} \cup {w}) = Cardinality({x}) + 1
        BY <3>2, <4>1, FS_AddElement, Zenon
      <4> QED  BY <3>2, <4>2
    <3>4. {x} \cup {w} = {x, w}
      OBVIOUS
    <3>5. Cardinality({x, w}) = 2 /\ {x, w} \in SUBSET e
      BY <2>3, <3>3, <3>4
    <3> QED  BY <2>2, <3>5, FS_Subset
  <2>5. dist[w] <= dist[x] + 1 /\ dist[x] \in Nat /\ dist[w] \in Nat /\ x \in Routers
    BY <1>1, <2>1, <2>3, <2>4
  <2>6. dist[x] < Cardinality(Routers)
    BY <1>4
  <2>7. dist[w] < INFINITY
    BY <1>2, <2>5, <2>6
  <2> QED  BY <2>3, <2>7
<1> QED  BY <1>5 DEF dist


\* The first router of each route is a neighbour, from which the rest of a
\* shortest path goes on.
LEMMA TableIs ==
  ASSUME NEW edges \in SUBSET Links, Connected(edges), NEW self \in Routers
  PROVE  /\ createTable(edges, self) \in [Routers \ {self} -> Routers]
         /\ \A v \in Routers \ {self} :
               /\ {self, createTable(edges, self)[v]} \in edges
               /\ Dist(edges, self)[v] \in Nat \ {0}
               /\ Path(edges, createTable(edges, self)[v], v, Dist(edges, self)[v] - 1)
<1> DEFINE dist == Dist(edges, self)
           pred == Pred(edges, self)
           Def(f) == [v \in Routers |-> IF pred[v] = self THEN v ELSE f[pred[v]]]
           startRoute == CHOOSE f : f = Def(f)
<1>1. createTable(edges, self) = [v \in Routers \ {self} |-> startRoute[v]]
  BY Zenon DEF createTable, Pred
<1>2. Final(edges, self, dist, pred) /\ \A v \in Routers : dist[v] < INFINITY
  BY FinalVertexes, DistFinite
<1> HIDE DEF dist, pred
<1>3. INFINITY \in Nat /\ pred \in [Routers -> Routers] /\ dist \in [Routers -> Nat]
      /\ dist[self] = 0 /\ pred[self] = self
  BY <1>2, InfinityType DEF Final
<1>4. \A v \in Routers : v # self => {pred[v], v} \in edges /\ dist[v] = dist[pred[v]] + 1
  BY <1>2, Zenon DEF Final
\* The walk along the predecessors ends: distances decrease.
<1>5. \E f : f = Def(f)
  <2> DEFINE Solves(f, k) == /\ f \in [Routers -> Routers]
                             /\ \A v \in Routers : dist[v] <= k =>
                                   f[v] = IF pred[v] = self THEN v ELSE f[pred[v]]
             Bad == {k \in Nat : ~\E f : Solves(f, k)}
  <2>1. Bad = {}
    <3> SUFFICES ASSUME Bad # {} PROVE FALSE
      OBVIOUS
    <3>1. PICK k \in Bad : \A j \in Bad : k <= j
      BY LeastNat
    <3>2. k \in Nat /\ ~\E f : Solves(f, k)
      BY <3>1
    <3>3. CASE k = 0
      <4> DEFINE f == [v \in Routers |-> v]
      <4>1. ASSUME NEW v \in Routers, dist[v] <= 0 PROVE v = self
        <5> SUFFICES ASSUME v # self PROVE FALSE
          OBVIOUS
        <5>1. dist[v] = dist[pred[v]] + 1 /\ pred[v] \in Routers /\ dist[pred[v]] \in Nat
          BY <1>3, <1>4
        <5> QED  BY <4>1, <5>1
      <4>2. Solves(f, 0)
        BY <1>3, <4>1
      <4> QED  BY <3>2, <3>3, <4>2
    <3>4. CASE k # 0
      <4>1. k - 1 \in Nat /\ ~(k <= k - 1)
        BY <3>2, <3>4
      <4>2. k - 1 \notin Bad
        <5> HIDE DEF Bad
        <5> QED  BY <3>1, <4>1
      <4>3. PICK f : Solves(f, k - 1)
        BY <4>1, <4>2
      <4> DEFINE g == [v \in Routers |-> IF dist[v] = k
                                           THEN IF pred[v] = self THEN v ELSE f[pred[v]]
                                           ELSE f[v]]
      <4>4. \A v \in Routers : g[v] = IF dist[v] = k
                                           THEN IF pred[v] = self THEN v ELSE f[pred[v]]
                                           ELSE f[v]
        OBVIOUS
      <4>5. g \in [Routers -> Routers]
        BY <1>3, <4>3
      <4> HIDE DEF g
      <4>6. ASSUME NEW v \in Routers, dist[v] <= k
            PROVE  g[v] = IF pred[v] = self THEN v ELSE g[pred[v]]
        <5>1. CASE v = self
          <6>1. g[v] = IF dist[v] = k THEN v ELSE f[v]
            BY <1>3, <4>4, <5>1
          <6>2. f[v] = v
            BY <1>3, <4>1, <4>3, <5>1
          <6> QED  BY <1>3, <5>1, <6>1, <6>2
        <5>2. CASE v # self
          <6>1. pred[v] \in Routers /\ dist[v] = dist[pred[v]] + 1 /\ dist[pred[v]] \in Nat
            BY <1>3, <1>4, <5>2
          <6>2. g[pred[v]] = f[pred[v]]
            <7>1. dist[pred[v]] # k
              BY <3>2, <4>6, <6>1
            <7> QED  BY <4>4, <6>1, <7>1
          <6>3. CASE dist[v] = k
            BY <4>4, <6>2, <6>3
          <6>4. CASE dist[v] # k
            <7>1. dist[v] <= k - 1
              BY <3>2, <4>6, <6>1, <6>4
            <7>2. f[v] = IF pred[v] = self THEN v ELSE f[pred[v]]
              BY <4>3, <7>1
            <7> QED  BY <4>4, <6>2, <6>4, <7>2
          <6> QED  BY <6>3, <6>4
        <5> QED  BY <5>1, <5>2
      <4>7. Solves(g, k)
        BY <4>5, <4>6
      <4> QED  BY <3>2, <4>7
    <3> QED  BY <3>3, <3>4
  <2>2. INFINITY \notin Bad
    BY <2>1
  <2>3. PICK f : Solves(f, INFINITY)
    BY <1>3, <2>2
  <2>4. \A v \in Routers : dist[v] <= INFINITY
    BY <1>2, <1>3
  <2>5. \A v \in Routers : f[v] = IF pred[v] = self THEN v ELSE f[pred[v]]
    BY <2>3, <2>4
  <2>6. f = [v \in Routers |-> f[v]]
    BY <2>3
  <2>7. f = Def(f)
    BY <2>5, <2>6
  <2> QED  BY <2>7
<1>6. startRoute = Def(startRoute)
  BY <1>5
<1> HIDE DEF startRoute
<1>7. \A v \in Routers : startRoute[v] = IF pred[v] = self THEN v ELSE startRoute[pred[v]]
  BY <1>6
<1> DEFINE OK(v) == /\ startRoute[v] \in Routers /\ {self, startRoute[v]} \in edges
                    /\ Path(edges, startRoute[v], v, dist[v] - 1)
           Failed == {n \in Nat : \E v \in Routers \ {self} : dist[v] = n /\ ~OK(v)}
<1>8. Failed = {}
  <2> SUFFICES ASSUME Failed # {} PROVE FALSE
    OBVIOUS
  <2>1. PICK n \in Failed : \A j \in Failed : n <= j
    BY LeastNat
  <2>2. n \in Nat
    BY <2>1
  <2>3. PICK v \in Routers \ {self} : dist[v] = n /\ ~OK(v)
    BY <2>1
  <2> DEFINE u == pred[v]
  <2>4. u \in Routers /\ {u, v} \in edges /\ dist[v] = dist[u] + 1 /\ dist[u] \in Nat
    BY <1>3, <1>4, <2>3
  <2>5. CASE u = self
    <3>1. startRoute[v] = v /\ dist[v] - 1 = 0
      BY <1>3, <1>7, <2>3, <2>4, <2>5
    <3>2. Path(edges, v, v, 0)
      BY <2>3, PathZero
    <3> QED  BY <2>3, <2>4, <2>5, <3>1, <3>2
  <2>6. CASE u # self
    <3>1. startRoute[v] = startRoute[u]
      BY <1>7, <2>3, <2>6
    <3>2. ~(n <= dist[u]) /\ dist[u] - 1 \in Nat /\ (dist[u] - 1) + 1 = dist[v] - 1
      <4>1. dist[u] = dist[pred[u]] + 1 /\ pred[u] \in Routers /\ dist[pred[u]] \in Nat
        BY <1>3, <1>4, <2>4, <2>6
      <4> QED  BY <2>3, <2>4, <4>1
    <3>3. dist[u] \notin Failed
      <4> HIDE DEF Failed
      <4> QED  BY <2>1, <3>2
    <3> HIDE DEF u
    <3>4. OK(u)
      BY <2>4, <2>6, <3>3
    <3>5. Path(edges, startRoute[u], v, (dist[u] - 1) + 1)
      BY <2>3, <2>4, <3>2, <3>4, PathAppend
    <3> QED  BY <2>3, <3>1, <3>2, <3>4, <3>5
  <2> QED  BY <2>5, <2>6
<1>9. ASSUME NEW v \in Routers \ {self} PROVE OK(v) /\ dist[v] \in Nat \ {0}
  <2>1. dist[v] \in Nat /\ pred[v] \in Routers /\ dist[v] = dist[pred[v]] + 1 /\ dist[pred[v]] \in Nat
    BY <1>3, <1>4
  <2>2. dist[v] \in Nat \ {0}
    BY <2>1
  <2>3. dist[v] \notin Failed
    BY <1>8
  <2> HIDE DEF OK
  <2>4. OK(v)
    BY <2>1, <2>3
  <2> QED  BY <2>2, <2>4
<1>10. \A v \in Routers \ {self} : createTable(edges, self)[v] = startRoute[v]
  BY <1>1
<1>11. createTable(edges, self) \in [Routers \ {self} -> Routers]
  BY <1>1, <1>9
<1> QED  BY <1>9, <1>10, <1>11 DEF dist


\* Routers that stand one behind the other on a route agree on the rest of it.
LEMMA NextHop ==
  ASSUME NEW edges \in SUBSET Links, Connected(edges), NEW r \in Routers, NEW d \in Routers, r # d
  PROVE  /\ createTable(edges, r)[d] \in Routers /\ {r, createTable(edges, r)[d]} \in edges
         /\ Dist(edges, r)[d] \in Nat
         /\ Dist(edges, createTable(edges, r)[d])[d] \in Nat
         /\ Dist(edges, r)[d] = Dist(edges, createTable(edges, r)[d])[d] + 1
<1> DEFINE u == createTable(edges, r)[d]
           k == Dist(edges, r)[d]
           j == Dist(edges, u)[d]
<1>1. u \in Routers /\ {r, u} \in edges /\ k \in Nat \ {0} /\ Path(edges, u, d, k - 1)
  <2>1. d \in Routers \ {r}
    OBVIOUS
  <2> QED  BY <2>1, TableIs, ZenonT(30)
<1> HIDE DEF u
<1>2. j \in Nat
  BY <1>1, FinalVertexes DEF Final
<1>3. j <= k - 1
  <2>1. k - 1 \in Nat
    BY <1>1
  <2> HIDE DEF k
  <2> QED  BY <1>1, <2>1, DistLeast
<1>4. Path(edges, u, d, j)
  BY <1>1, DistFinite, DistPath
<1> HIDE DEF j
<1>5. Path(edges, r, d, j + 1)
  BY <1>1, <1>2, <1>4, PathCons
<1>6. k <= j + 1
  BY <1>2, <1>5, DistLeast
<1> HIDE DEF k
<1>7. k = j + 1 /\ k \in Nat
  BY <1>1, <1>2, <1>3, <1>6
<1> QED  BY <1>1, <1>2, <1>7 DEF u, j, k

\* Only a router itself is at distance zero.
LEMMA DistSelf ==
  ASSUME NEW edges, NEW r \in Routers, NEW d \in Routers,
         Dist(edges, r)[d] < INFINITY
  PROVE  Dist(edges, r)[d] = 0 <=> r = d
<1>1. Dist(edges, r)[d] \in Nat /\ Dist(edges, r)[r] = 0
  BY FinalVertexes DEF Final
<1>2. Path(edges, r, d, Dist(edges, r)[d])
  BY DistPath
<1> QED  BY <1>1, <1>2, PathEnds

\* The tables are those of the topology.
Routed ==
    /\ links \in SUBSET Links /\ Connected(links)
    /\ routingTable = [r \in Routers |-> createTable(links, r)]

\* The table of one router.
LEMMA RoutedAt ==
  ASSUME Routed, NEW r \in Routers
  PROVE  routingTable[r] = createTable(links, r) /\ routingTable[r] \in [Routers \ {r} -> Routers]
  BY TableIs DEF Routed

\* Following the tables from s reaches d.
LEMMA HopsAre ==
  ASSUME Routed, NEW s \in Routers, NEW d \in Routers
  PROVE  /\ Hops(s, d)[0] = s
         /\ \A n \in 1..Cardinality(Routers) :
               Hops(s, d)[n] = IF Hops(s, d)[n - 1] = d THEN d ELSE routingTable[Hops(s, d)[n - 1]][d]
<1> DEFINE N == Cardinality(Routers)
           Step(x) == IF x = d THEN d ELSE routingTable[x][d]
           Def(f) == [n \in 0..N |-> IF n = 0 THEN s ELSE IF f[n - 1] = d THEN d
                                                          ELSE routingTable[f[n - 1]][d]]
           hop == CHOOSE f : f = Def(f)
<1>1. Hops(s, d) = hop
  BY Zenon DEF Hops
<1>2. N \in Nat
  BY InfinityType
<1> HIDE DEF N
<1>3. \E f : f = Def(f)
  <2> DEFINE Solves(f, k) == f = [n \in 0..k |-> IF n = 0 THEN s ELSE Step(f[n - 1])]
             Bad == {k \in Nat : ~\E f : Solves(f, k)}
  <2> HIDE DEF Step
  <2>1. Bad = {}
    <3> SUFFICES ASSUME Bad # {} PROVE FALSE
      OBVIOUS
    <3>1. PICK k \in Bad : \A j \in Bad : k <= j
      BY LeastNat
    <3>2. k \in Nat /\ ~\E f : Solves(f, k)
      BY <3>1
    <3>3. CASE k = 0
      <4> DEFINE f == [n \in 0..0 |-> s]
      <4>1. Solves(f, 0)
        OBVIOUS
      <4> QED  BY <3>2, <3>3, <4>1
    <3>4. CASE k # 0
      <4>1. k - 1 \in Nat /\ k - 1 \notin Bad
        <5>1. k - 1 \in Nat /\ ~(k <= k - 1)
          BY <3>2, <3>4
        <5> HIDE DEF Bad
        <5> QED  BY <3>1, <5>1
      <4>2. PICK f : Solves(f, k - 1)
        BY <4>1
      <4> DEFINE g == [n \in 0..k |-> IF n = k THEN Step(f[k - 1]) ELSE f[n]]
      <4>3. ASSUME NEW n \in 0..k PROVE g[n] = IF n = 0 THEN s ELSE Step(g[n - 1])
        <5>1. CASE n = k
          <6>1. g[n] = Step(f[k - 1]) /\ g[n - 1] = f[k - 1] /\ n # 0
            BY <3>2, <3>4, <5>1
          <6> QED  BY <5>1, <6>1
        <5>2. CASE n # k
          <6>1. n \in 0..(k - 1) /\ g[n] = f[n]
            BY <3>2, <4>1, <5>2
          <6>2. f[n] = IF n = 0 THEN s ELSE Step(f[n - 1])
            BY <4>2, <6>1
          <6>3. n # 0 => g[n - 1] = f[n - 1]
            BY <3>2, <6>1
          <6> QED  BY <6>1, <6>2, <6>3
        <5> QED  BY <5>1, <5>2
      <4>4. g = [n \in 0..k |-> g[n]]
        OBVIOUS
      <4> HIDE DEF g
      <4>5. [n \in 0..k |-> g[n]] = [n \in 0..k |-> IF n = 0 THEN s ELSE Step(g[n - 1])]
        BY <4>3
      <4>6. Solves(g, k)
        BY <4>4, <4>5
      <4> QED  BY <3>2, <4>6
    <3> QED  BY <3>3, <3>4
  <2>2. \E f : Solves(f, N)
    BY <1>2, <2>1
  <2> QED  BY <2>2 DEF Step
<1>4. hop = Def(hop)
  BY <1>3
<1> HIDE DEF hop
<1>5. \A n \in 0..N : hop[n] = IF n = 0 THEN s ELSE IF hop[n - 1] = d THEN d ELSE routingTable[hop[n - 1]][d]
  BY <1>4
<1>6. 0 \in 0..N /\ \A n \in 1..N : n \in 0..N /\ n # 0
  BY <1>2
<1>7. hop[0] = s /\ \A n \in 1..N : hop[n] = IF hop[n - 1] = d THEN d ELSE routingTable[hop[n - 1]][d]
  BY <1>5, <1>6
<1> QED  BY <1>1, <1>7 DEF N

\* After i hops the packet is i routers nearer.
LEMMA HopsNearer ==
  ASSUME Routed, NEW s \in Routers, NEW d \in Routers, NEW i \in Nat, i <= Dist(links, s)[d]
  PROVE  /\ Hops(s, d)[i] \in Routers
         /\ Dist(links, Hops(s, d)[i])[d] = Dist(links, s)[d] - i
         /\ i # 0 => {Hops(s, d)[i - 1], Hops(s, d)[i]} \in links
                      /\ Hops(s, d)[i] = routingTable[Hops(s, d)[i - 1]][d]
<1> DEFINE hop == Hops(s, d)
           n == Dist(links, s)[d]
           OK(j) == /\ hop[j] \in Routers
                    /\ Dist(links, hop[j])[d] = n - j
                    /\ j # 0 => {hop[j - 1], hop[j]} \in links /\ hop[j] = routingTable[hop[j - 1]][d]
           Bad == {j \in Nat : j <= n /\ ~OK(j)}
<1>1. links \in SUBSET Links /\ Connected(links)
  BY DEF Routed
<1>2. n \in Nat /\ n < Cardinality(Routers) /\ Cardinality(Routers) \in Nat
  BY <1>1, FinalVertexes, DistFinite, DistBound, InfinityType DEF Final
<1>3. hop[0] = s /\ \A j \in 1..Cardinality(Routers) :
                        hop[j] = IF hop[j - 1] = d THEN d ELSE routingTable[hop[j - 1]][d]
  BY HopsAre
<1> HIDE DEF hop
<1>4. Bad = {}
  <2> SUFFICES ASSUME Bad # {} PROVE FALSE
    OBVIOUS
  <2>1. PICK j \in Bad : \A k \in Bad : j <= k
    BY LeastNat
  <2>2. j \in Nat /\ j <= n /\ ~OK(j)
    BY <2>1
  <2>3. CASE j = 0
    <3>1. OK(0)
      BY <1>2, <1>3
    <3> QED  BY <2>2, <2>3, <3>1
  <2>4. CASE j # 0
    <3>1. j - 1 \in Nat /\ ~(j <= j - 1) /\ j - 1 <= n /\ n - (j - 1) # 0 /\ j \in 1..Cardinality(Routers)
      <4> HIDE DEF n
      <4> QED  BY <1>2, <2>2, <2>4
    <3>2. j - 1 \notin Bad
      <4> HIDE DEF Bad
      <4> QED  BY <2>1, <3>1
    <3>3. OK(j - 1)
      <4> HIDE DEF OK, n
      <4> QED  BY <3>1, <3>2
    <3> DEFINE x == hop[j - 1]
    <3>4. x \in Routers /\ Dist(links, x)[d] = n - (j - 1)
      BY <3>3
    <3> HIDE DEF x
    <3>5. x # d
      <4>1. Dist(links, d)[d] = 0
        BY FinalVertexes DEF Final
      <4> QED  BY <3>1, <3>4, <4>1
    <3>6. hop[j] = routingTable[x][d]
      BY <1>3, <3>1, <3>5 DEF x
    <3>7. hop[j] = createTable(links, x)[d]
      BY <3>4, <3>6, RoutedAt
    <3>8. /\ hop[j] \in Routers /\ {x, hop[j]} \in links
          /\ Dist(links, hop[j])[d] \in Nat /\ Dist(links, x)[d] = Dist(links, hop[j])[d] + 1
      <4> DEFINE t == createTable(links, x)[d]
      <4>1. t \in Routers /\ {x, t} \in links /\ Dist(links, t)[d] \in Nat
            /\ Dist(links, x)[d] = Dist(links, t)[d] + 1
        <5>1. x \in Routers /\ x # d
          BY <3>4, <3>5
        <5> QED  BY <1>1, <5>1, NextHop
      <4> HIDE DEF t
      <4>2. hop[j] = t
        BY <3>7 DEF t
      <4> QED  BY <4>1, <4>2
    <3>9. Dist(links, hop[j])[d] = n - j
      <4> HIDE DEF n
      <4> QED  BY <1>2, <2>2, <3>4, <3>8
    <3> QED  BY <2>2, <3>6, <3>8, <3>9 DEF x
  <2> QED  BY <2>3, <2>4
<1>5. i \notin Bad
  BY <1>4
<1>6. OK(i)
  <2> HIDE DEF OK
  <2> QED  BY <1>5
<1> QED  BY <1>6 DEF hop

\* Such a table leads along shortest paths.
LEMMA RoutedShortest == Routed => RoutesShortest
<1> SUFFICES ASSUME Routed, NEW s \in Routers, NEW d \in Routers, s # d
             PROVE  \E n \in 1..(Cardinality(Routers) - 1) :
                       /\ Hops(s, d)[n] = d
                       /\ \A i \in 1..n : {Hops(s, d)[i - 1], Hops(s, d)[i]} \in links
                       /\ \A k \in 0..(n - 1) : ~Joined(s, d, k)
  BY Zenon DEF RoutesShortest
<1> DEFINE n == Dist(links, s)[d]
           hop == Hops(s, d)
<1>1. links \in SUBSET Links /\ Connected(links)
  BY DEF Routed
<1>2. n \in Nat /\ n < Cardinality(Routers) /\ Cardinality(Routers) \in Nat /\ n # 0
  BY <1>1, FinalVertexes, DistFinite, DistBound, DistSelf, InfinityType DEF Final
<1>3. hop[n] = d
  <2>1. hop[n] \in Routers /\ Dist(links, hop[n])[d] = n - n
    <3>1. n \in Nat /\ n <= Dist(links, s)[d]
      BY <1>2
    <3> QED  BY <3>1, HopsNearer
  <2>2. n - n = 0
    BY <1>2
  <2> HIDE DEF hop, n
  <2> QED  BY <1>1, <2>1, <2>2, DistSelf, DistFinite
<1>4. \A i \in 1..n : {hop[i - 1], hop[i]} \in links
  <2> TAKE i \in 1..n
  <2>1. i \in Nat /\ i <= n /\ i # 0
    BY <1>2
  <2> QED  BY <2>1, HopsNearer
<1>5. \A k \in 0..(n - 1) : ~Joined(s, d, k)
  <2> SUFFICES ASSUME NEW k \in 0..(n - 1), Joined(s, d, k) PROVE FALSE
    OBVIOUS
  <2>1. k \in Nat /\ ~(n <= k)
    BY <1>2
  <2>2. Path(links, s, d, k)
    BY DEF Joined, Path
  <2> QED  BY <2>1, <2>2, DistLeast
<1>6. n \in 1..(Cardinality(Routers) - 1)
  <2> HIDE DEF n
  <2> QED  BY <1>2
<1> QED  BY <1>3, <1>4, <1>5, <1>6


------------------------------------------------------------------------------
(* Ascending: how the numbers under way become a channel. *)

\* As many numbers are at most f[i] as f lists up to there.
LEMMA CountBelow ==
  ASSUME NEW K \in SUBSET Nat, NEW m \in Nat, NEW f \in [1..m -> K], Enumerates(f, K), NEW i \in 1..m
  PROVE  Cardinality({j \in K : j <= f[i]}) = i
<1> DEFINE B == {j \in K : j <= f[i]}
           g == [l \in 1..i |-> f[l]]
<1>1. \A l \in 1..i : l \in 1..m /\ f[l] \in K /\ f[l] \in Nat /\ f[l] <= f[i]
  <2> TAKE l \in 1..i
  <2>1. l \in 1..m
    OBVIOUS
  <2>2. f[l] \in K /\ f[i] \in K /\ f[l] \in Nat /\ f[i] \in Nat
    BY <2>1
  <2>3. l < i => f[l] < f[i]
    BY <2>1 DEF Enumerates
  <2>4. l = i \/ l < i
    OBVIOUS
  <2> QED  BY <2>1, <2>2, <2>3, <2>4
<1>2. g \in [1..i -> B]
  BY <1>1
<1>3. \A a, b \in 1..i : g[a] = g[b] => a = b
  <2> SUFFICES ASSUME NEW a \in 1..i, NEW b \in 1..i, g[a] = g[b] PROVE a = b
    OBVIOUS
  <2>1. f[a] = f[b] /\ a \in 1..m /\ b \in 1..m /\ f[a] \in Nat /\ f[b] \in Nat
    BY <1>1
  <2>2. ~(a < b) /\ ~(b < a)
    BY <2>1 DEF Enumerates
  <2> QED  BY <2>1, <2>2
<1>4. \A k \in B : \E l \in 1..i : g[l] = k
  <2> TAKE k \in B
  <2>1. PICK l \in 1..m : f[l] = k
    BY DEF Enumerates
  <2>2. ~(i < l)
    <3>1. f[i] \in Nat /\ f[l] \in Nat /\ f[l] <= f[i]
      BY <2>1
    <3> QED  BY <2>1, <3>1 DEF Enumerates
  <2>3. l \in 1..i
    BY <2>1, <2>2
  <2> QED  BY <2>1, <2>3
<1> HIDE DEF g, B
<1>5. ExistsBijection(1..i, B)
  BY <1>2, <1>3, <1>4 DEF ExistsBijection, Bijection, Injection, Surjection, IsInjective
<1>6. IsFiniteSet(1..i) /\ Cardinality(1..i) = i
  BY FS_Interval
<1>7. Cardinality(B) = i
  BY <1>5, <1>6, FS_Bijection
<1> QED  BY <1>7 DEF B

\* A list of the numbers in increasing order is the one that Ascending gives.
LEMMA AscendingOf ==
  ASSUME NEW K \in SUBSET Nat, NEW m \in Nat, NEW f \in [1..m -> K], Enumerates(f, K)
  PROVE  Ascending(K) = f
<1>1. Cardinality(K) = m
  <2>1. \A a, b \in 1..m : f[a] = f[b] => a = b
    <3> SUFFICES ASSUME NEW a \in 1..m, NEW b \in 1..m, f[a] = f[b] PROVE a = b
      OBVIOUS
    <3>1. f[a] \in Nat /\ f[b] \in Nat
      OBVIOUS
    <3>2. ~(a < b) /\ ~(b < a)
      BY <3>1 DEF Enumerates
    <3> QED  BY <3>2
  <2>2. \A k \in K : \E i \in 1..m : f[i] = k
    BY DEF Enumerates
  <2>3. ExistsBijection(1..m, K)
    BY <2>1, <2>2 DEF ExistsBijection, Bijection, Injection, Surjection, IsInjective
  <2>4. IsFiniteSet(1..m) /\ Cardinality(1..m) = m
    BY FS_Interval
  <2> QED  BY <2>3, <2>4, FS_Bijection
<1> DEFINE Count(k) == Cardinality({j \in K : j <= k})
<1>2. \A i \in 1..m : Count(f[i]) = i
  BY CountBelow
<1>3. Ascending(K) = [i \in 1..m |-> CHOOSE k \in K : Count(k) = i]
  BY <1>1 DEF Ascending
<1> HIDE DEF Count
<1>4. \A i \in 1..m : (CHOOSE k \in K : Count(k) = i) = f[i]
  <2> TAKE i \in 1..m
  <2>1. f[i] \in K /\ Count(f[i]) = i
    BY <1>2
  <2>2. \A k \in K : Count(k) = i => k = f[i]
    <3> TAKE k \in K
    <3>1. PICK l \in 1..m : f[l] = k
      BY DEF Enumerates
    <3> QED  BY <1>2, <3>1
  <2> QED  BY <2>1, <2>2
<1> QED  BY <1>3, <1>4

\* Ascending lists a finite set of numbers in order, each once.
LEMMA AscendingIs ==
  ASSUME NEW n \in Nat, NEW K \in SUBSET (1..n)
  PROVE  \E m \in Nat : Ascending(K) \in [1..m -> K] /\ Enumerates(Ascending(K), K)
<1>1. PICK m \in 0..n : \E f \in [1..m -> K] : Enumerates(f, K)
  BY OrderExists
<1>2. PICK f \in [1..m -> K] : Enumerates(f, K)
  BY <1>1
<1>3. m \in Nat /\ K \in SUBSET Nat
  OBVIOUS
<1> QED  BY <1>2, <1>3, AscendingOf

\* The list of no numbers.
LEMMA AscendingEmpty == Ascending({}) = << >>
<1>1. << >> \in [1..0 -> {}] /\ Enumerates(<< >>, {})
  BY DEF Enumerates
<1> QED  BY <1>1, AscendingOf

\* A number larger than all others goes to the end.
LEMMA AscendingAppend ==
  ASSUME NEW n \in Nat, NEW K \in SUBSET (1..n), NEW k \in Nat, \A j \in K : j < k
  PROVE  Ascending(K \cup {k}) = Append(Ascending(K), k)
<1>1. PICK m \in Nat : Ascending(K) \in [1..m -> K] /\ Enumerates(Ascending(K), K)
  BY AscendingIs
<1> DEFINE f == Ascending(K)
           g == [i \in 1..(m + 1) |-> IF i = m + 1 THEN k ELSE f[i]]
<1> HIDE DEF f
<1>2. f \in [1..m -> K] /\ Enumerates(f, K)
  BY <1>1 DEF f
<1>3. g \in [1..(m + 1) -> K \cup {k}]
  BY <1>2
<1>4. \A i, j \in 1..(m + 1) : i < j => g[i] < g[j]
  <2> SUFFICES ASSUME NEW i \in 1..(m + 1), NEW j \in 1..(m + 1), i < j PROVE g[i] < g[j]
    OBVIOUS
  <2>1. i \in 1..m /\ i # m + 1 /\ f[i] \in K
    BY <1>2
  <2>2. CASE j = m + 1
    BY <2>1, <2>2
  <2>3. CASE j # m + 1
    BY <1>2, <2>1, <2>3 DEF Enumerates
  <2> QED  BY <2>2, <2>3
<1>5. \A a \in K \cup {k} : \E i \in 1..(m + 1) : g[i] = a
  <2> TAKE a \in K \cup {k}
  <2>1. CASE a = k
    BY <2>1
  <2>2. CASE a \in K
    <3>1. PICK i \in 1..m : f[i] = a
      BY <1>2, <2>2 DEF Enumerates
    <3>2. i \in 1..(m + 1) /\ i # m + 1
      BY <3>1
    <3> QED  BY <3>1, <3>2
  <2> QED  BY <2>1, <2>2
<1>6. g = Append(f, k)
  <2>1. Len(f) = m /\ f \in Seq(K) /\ DOMAIN f = 1..m
    BY <1>2
  <2>2. f \in Seq(K \cup {k}) /\ k \in K \cup {k}
    BY <2>1
  <2> DEFINE h == Append(f, k)
  <2>3. /\ h \in Seq(K \cup {k}) /\ Len(h) = m + 1
        /\ \A i \in 1..m : h[i] = f[i]
        /\ h[m + 1] = k
    BY <2>1, <2>2, AppendProperties
  <2> HIDE DEF h
  <2>4. h = [i \in 1..(m + 1) |-> h[i]]
    BY <2>3
  <2>5. ASSUME NEW i \in 1..(m + 1) PROVE h[i] = g[i]
    <3>1. CASE i = m + 1
      BY <2>3, <3>1
    <3>2. CASE i # m + 1
      <4>1. i \in 1..m
        BY <3>2
      <4> QED  BY <2>3, <3>2, <4>1
    <3> QED  BY <3>1, <3>2
  <2>6. g = [i \in 1..(m + 1) |-> g[i]]
    OBVIOUS
  <2>7. g = h
    <3> HIDE DEF g
    <3> QED  BY <2>4, <2>5, <2>6
  <2> QED  BY <2>7 DEF h
<1>7. DOMAIN g = 1..(m + 1)
  OBVIOUS
<1> HIDE DEF g
<1>8. Enumerates(g, K \cup {k})
  BY <1>4, <1>5, <1>7 DEF Enumerates
<1>9. K \cup {k} \in SUBSET Nat /\ m + 1 \in Nat
  OBVIOUS
<1>10. Ascending(K \cup {k}) = g
  BY <1>3, <1>8, <1>9, AscendingOf
<1> QED  BY <1>6, <1>10 DEF f

\* Taking a number out leaves the others as they are.
LEMMA AscendingRemove ==
  ASSUME NEW n \in Nat, NEW K \in SUBSET (1..n), NEW k \in K
  PROVE  \E i \in DOMAIN Ascending(K) :
            /\ Ascending(K)[i] = k
            /\ Ascending(K \ {k}) = RemoveAt(Ascending(K), i)
            /\ (\A j \in K : k <= j) => i = 1
<1>1. PICK m \in Nat : Ascending(K) \in [1..m -> K] /\ Enumerates(Ascending(K), K)
  BY AscendingIs
<1> DEFINE f == Ascending(K)
<1> HIDE DEF f
<1>2. f \in [1..m -> K] /\ Enumerates(f, K) /\ DOMAIN f = 1..m
  BY <1>1 DEF f
<1>3. PICK i \in 1..m : f[i] = k
  BY <1>2 DEF Enumerates
<1> DEFINE g == [j \in 1..(m - 1) |-> IF j < i THEN f[j] ELSE f[j + 1]]
<1>4. \A j, l \in 1..m : f[j] \in Nat /\ (j < l => f[j] < f[l])
  <2>1. \A j \in 1..m : f[j] \in Nat
    <3>1. K \in SUBSET Nat
      OBVIOUS
    <3> QED  BY <1>2, <3>1
  <2>2. \A j, l \in 1..m : j < l => f[j] < f[l]
    BY <1>2 DEF Enumerates
  <2> QED  BY <2>1, <2>2
<1>5. \A j, l \in 1..m : f[j] = f[l] => j = l
  <2> TAKE j, l \in 1..m
  <2>1. f[j] \in Nat /\ f[l] \in Nat /\ (j < l => f[j] < f[l]) /\ (l < j => f[l] < f[j])
    BY <1>4
  <2> QED  BY <2>1
<1>6. \A j \in 1..(m - 1) : /\ j \in 1..m /\ j + 1 \in 1..m
                            /\ j < i => g[j] = f[j] /\ j # i
                            /\ ~(j < i) => g[j] = f[j + 1] /\ j + 1 # i
  BY <1>3
<1>7. g \in [1..(m - 1) -> K \ {k}]
  <2>1. DOMAIN g = 1..(m - 1) /\ g = [j \in 1..(m - 1) |-> g[j]]
    OBVIOUS
  <2> HIDE DEF g
  <2>2. ASSUME NEW j \in 1..(m - 1) PROVE g[j] \in K \ {k}
    <3>1. CASE j < i
      <4>1. g[j] = f[j] /\ j \in 1..m /\ j # i
        BY <1>6, <3>1
      <4> QED  BY <1>2, <1>3, <1>5, <4>1
    <3>2. CASE ~(j < i)
      <4>1. g[j] = f[j + 1] /\ j + 1 \in 1..m /\ j + 1 # i
        BY <1>6, <3>2
      <4> QED  BY <1>2, <1>3, <1>5, <4>1
    <3> QED  BY <3>1, <3>2
  <2> QED  BY <2>1, <2>2
<1>8. \A j, l \in 1..(m - 1) : j < l => g[j] < g[l]
  <2> SUFFICES ASSUME NEW j \in 1..(m - 1), NEW l \in 1..(m - 1), j < l PROVE g[j] < g[l]
    OBVIOUS
  <2>1. j \in 1..m /\ j + 1 \in 1..m /\ l \in 1..m /\ l + 1 \in 1..m
    BY <1>6
  <2>2. f[j] < f[l] /\ f[j] < f[l + 1] /\ f[j + 1] < f[l + 1]
    BY <1>4, <2>1
  <2>3. i \in Nat /\ j \in Nat /\ l \in Nat
    BY <1>3
  <2> QED  BY <2>2, <2>3
<1>9. \A a \in K \ {k} : \E j \in 1..(m - 1) : g[j] = a
  <2> TAKE a \in K \ {k}
  <2>1. PICK l \in 1..m : f[l] = a
    BY <1>2 DEF Enumerates
  <2>2. l # i
    BY <1>3, <2>1
  <2>3. CASE l < i
    <3>1. l \in 1..(m - 1)
      BY <2>3, <1>3
    <3> QED  BY <2>1, <2>3, <3>1
  <2>4. CASE i < l
    <3>1. l - 1 \in 1..(m - 1) /\ ~(l - 1 < i) /\ (l - 1) + 1 = l
      BY <2>4, <1>3
    <3> QED  BY <2>1, <3>1
  <2> QED  BY <1>3, <2>1, <2>2, <2>3, <2>4
<1>10. g = RemoveAt(f, i)
  <2>1. Len(f) = m /\ f \in Seq(K)
    BY <1>2
  <2>2. /\ SubSeq(f, 1, i - 1) = [j \in 1..(i - 1) |-> f[j]]
        /\ SubSeq(f, i + 1, m) = [j \in 1..(m - i) |-> f[i + j]]
    BY <1>3, <2>1
  <2> DEFINE a == [j \in 1..(i - 1) |-> f[j]]
             b == [j \in 1..(m - i) |-> f[i + j]]
  <2>3. a \in Seq(K) /\ b \in Seq(K) /\ Len(a) = i - 1 /\ Len(b) = m - i
    <3>1. a \in [1..(i - 1) -> K] /\ i - 1 \in Nat
      BY <1>2, <1>3
    <3>2. b \in [1..(m - i) -> K] /\ m - i \in Nat
      BY <1>2, <1>3
    <3> HIDE DEF a, b
    <3> QED  BY <3>1, <3>2
  <2>4. a \o b = [j \in 1..((i - 1) + (m - i)) |-> IF j <= i - 1 THEN a[j] ELSE b[j - (i - 1)]]
    <3> HIDE DEF a, b
    <3>1. /\ a \o b \in Seq(K) /\ Len(a \o b) = (i - 1) + (m - i)
          /\ \A j \in 1..((i - 1) + (m - i)) : (a \o b)[j] = IF j <= i - 1 THEN a[j] ELSE b[j - (i - 1)]
      <4>1. /\ a \o b \in Seq(K) /\ Len(a \o b) = Len(a) + Len(b)
            /\ \A j \in 1..(Len(a) + Len(b)) : (a \o b)[j] = IF j <= Len(a) THEN a[j] ELSE b[j - Len(a)]
        <5>1. a \in Seq(K) /\ b \in Seq(K)
          BY <2>3
        <5> QED  BY <5>1, ConcatProperties, Zenon
      <4>2. Len(a) = i - 1 /\ Len(b) = m - i
        BY <2>3
      <4> QED  BY <4>1, <4>2, Zenon
    <3> DEFINE h == a \o b
    <3>2. h \in Seq(K) /\ Len(h) = (i - 1) + (m - i)
      BY <3>1
    <3> HIDE DEF h
    <3>3. h = [j \in 1..((i - 1) + (m - i)) |-> h[j]]
      BY <3>2
    <3> QED  BY <3>1, <3>3 DEF h
  <2>5. (i - 1) + (m - i) = m - 1
    BY <1>3
  <2>6. \A j \in 1..(m - 1) : (IF j <= i - 1 THEN a[j] ELSE b[j - (i - 1)]) = g[j]
    <3> TAKE j \in 1..(m - 1)
    <3>1. CASE j <= i - 1
      <4>1. j \in 1..(i - 1) /\ j < i
        BY <1>3, <3>1
      <4> QED  BY <3>1, <4>1
    <3>2. CASE ~(j <= i - 1)
      <4>1. j - (i - 1) \in 1..(m - i) /\ i + (j - (i - 1)) = j + 1 /\ ~(j < i)
        BY <1>3, <3>2
      <4> QED  BY <3>2, <4>1
    <3> QED  BY <3>1, <3>2
  <2>7. g = a \o b
    <3>1. a \o b = [j \in 1..(m - 1) |-> IF j <= i - 1 THEN a[j] ELSE b[j - (i - 1)]]
      BY <2>4, <2>5
    <3>2. g = [j \in 1..(m - 1) |-> g[j]]
      OBVIOUS
    <3> HIDE DEF a, b, g
    <3> QED  BY <2>6, <3>1, <3>2
  <2> QED  BY <2>1, <2>2, <2>7 DEF RemoveAt
<1>11. DOMAIN g = 1..(m - 1)
  OBVIOUS
<1> HIDE DEF g
<1>12. Enumerates(g, K \ {k})
  BY <1>8, <1>9, <1>11 DEF Enumerates
<1>13. K \ {k} \in SUBSET Nat /\ m - 1 \in Nat
  BY <1>3
<1>14. Ascending(K \ {k}) = g
  BY <1>7, <1>12, <1>13, AscendingOf
<1>15. (\A j \in K : k <= j) => i = 1
  <2> SUFFICES ASSUME \A j \in K : k <= j, i # 1 PROVE FALSE
    OBVIOUS
  <2>1. 1 \in 1..m /\ 1 < i
    BY <1>3
  <2>2. f[1] < f[i] /\ f[1] \in K /\ f[1] \in Nat /\ f[i] \in Nat
    BY <1>2, <1>3, <1>4, <2>1
  <2>3. f[i] <= f[1]
    BY <1>3, <2>2
  <2> QED  BY <2>2, <2>3
<1> QED  BY <1>2, <1>3, <1>10, <1>14, <1>15 DEF f

\* Taking the least number out takes the head off.
LEMMA AscendingTail ==
  ASSUME NEW n \in Nat, NEW K \in SUBSET (1..n), NEW k \in K, \A j \in K : k <= j
  PROVE  /\ Ascending(K) # << >> /\ Head(Ascending(K)) = k
         /\ Ascending(K \ {k}) = Tail(Ascending(K))
<1>1. PICK m \in Nat : Ascending(K) \in [1..m -> K] /\ Enumerates(Ascending(K), K)
  BY AscendingIs
<1>2. PICK i \in DOMAIN Ascending(K) : /\ Ascending(K)[i] = k
                                       /\ Ascending(K \ {k}) = RemoveAt(Ascending(K), i)
                                       /\ i = 1
  BY AscendingRemove
<1> DEFINE f == Ascending(K)
<1> HIDE DEF f
<1>3. f \in Seq(K) /\ Len(f) = m /\ 1 \in 1..m /\ f[1] = k
  BY <1>1, <1>2 DEF f
<1>4. RemoveAt(f, 1) = Tail(f)
  <2>1. SubSeq(f, 1, 1 - 1) = << >>
    BY <1>3
  <2>2. SubSeq(f, 1 + 1, Len(f)) = Tail(f)
    BY <1>3
  <2>3. Tail(f) \in Seq(K)
    BY <1>3
  <2> QED  BY <2>1, <2>2, <2>3 DEF RemoveAt
<1>5. f # << >> /\ Head(f) = k
  BY <1>3
<1>6. Ascending(K \ {k}) = Tail(f)
  BY <1>2, <1>4 DEF f
<1> QED  BY <1>5, <1>6 DEF f


------------------------------------------------------------------------------
(* The route of a pair of peers. *)

\* Hops, for any routing tables.
HopsOf(table, s, d) ==
    LET hop[n \in 0..Cardinality(Routers)] ==
          IF n = 0 THEN s ELSE IF hop[n - 1] = d THEN d ELSE table[hop[n - 1]][d]
    IN  hop

\* Router r is on the way from s to d.
OnRoute(edges, table, s, d, r) ==
    \E i \in Nat : i <= Dist(edges, s)[d] /\ r = HopsOf(table, s, d)[i]

\* The i-th router on a route is i hops nearer to its end.
LEMMA RouteNumber ==
  ASSUME Routed, NEW s \in Routers, NEW d \in Routers, NEW i \in Nat, i <= Dist(links, s)[d]
  PROVE  /\ HopsOf(routingTable, s, d)[i] \in Routers
         /\ Dist(links, HopsOf(routingTable, s, d)[i])[d] = Dist(links, s)[d] - i
         /\ i # 0 => /\ {HopsOf(routingTable, s, d)[i - 1], HopsOf(routingTable, s, d)[i]} \in links
                     /\ HopsOf(routingTable, s, d)[i] = routingTable[HopsOf(routingTable, s, d)[i - 1]][d]
<1>1. HopsOf(routingTable, s, d) = Hops(s, d)
  BY Zenon DEF HopsOf, Hops
<1>2. /\ Hops(s, d)[i] \in Routers
      /\ Dist(links, Hops(s, d)[i])[d] = Dist(links, s)[d] - i
      /\ i # 0 => {Hops(s, d)[i - 1], Hops(s, d)[i]} \in links
                   /\ Hops(s, d)[i] = routingTable[Hops(s, d)[i - 1]][d]
  BY HopsNearer
<1> QED  BY <1>1, <1>2, Zenon

\* Every destination is at a finite distance, and only a router itself at zero.
LEMMA RankType ==
  ASSUME Routed, NEW r \in Routers, NEW d \in Routers
  PROVE  Dist(links, r)[d] \in Nat /\ (Dist(links, r)[d] = 0 <=> r = d)
<1>1. links \in SUBSET Links /\ Connected(links)
  BY DEF Routed
<1> QED  BY <1>1, FinalVertexes, DistFinite, DistSelf DEF Final

\* A route starts at its router.
LEMMA RouteStart ==
  ASSUME Routed, NEW s \in Routers, NEW d \in Routers
  PROVE  OnRoute(links, routingTable, s, d, s)
<1>1. 0 \in Nat /\ 0 <= Dist(links, s)[d]
  BY RankType
<1>2. HopsOf(routingTable, s, d)[0] = s
  <2>1. HopsOf(routingTable, s, d) = Hops(s, d)
    BY Zenon DEF HopsOf, Hops
  <2> QED  BY <2>1, HopsAre
<1> QED  BY <1>1, <1>2 DEF OnRoute

\* A router on a route is no farther from its end than its start.
LEMMA RouteRank ==
  ASSUME Routed, NEW s \in Routers, NEW d \in Routers, NEW r, OnRoute(links, routingTable, s, d, r)
  PROVE  /\ r \in Routers /\ Dist(links, r)[d] \in Nat /\ Dist(links, s)[d] \in Nat
         /\ Dist(links, r)[d] <= Dist(links, s)[d]
<1>1. PICK i \in Nat : i <= Dist(links, s)[d] /\ r = HopsOf(routingTable, s, d)[i]
  BY DEF OnRoute
<1>2. r \in Routers /\ Dist(links, r)[d] = Dist(links, s)[d] - i
  BY <1>1, RouteNumber
<1> QED  BY <1>1, <1>2, RankType

\* No two routers of a route are at the same distance from its end.
LEMMA RouteApart ==
  ASSUME Routed, NEW s \in Routers, NEW d \in Routers,
         NEW r, OnRoute(links, routingTable, s, d, r),
         NEW t, OnRoute(links, routingTable, s, d, t),
         Dist(links, r)[d] = Dist(links, t)[d]
  PROVE  r = t
<1>1. PICK i \in Nat : i <= Dist(links, s)[d] /\ r = HopsOf(routingTable, s, d)[i]
  BY DEF OnRoute
<1>2. PICK j \in Nat : j <= Dist(links, s)[d] /\ t = HopsOf(routingTable, s, d)[j]
  BY DEF OnRoute
<1>3. Dist(links, r)[d] = Dist(links, s)[d] - i
  BY <1>1, RouteNumber
<1>4. Dist(links, t)[d] = Dist(links, s)[d] - j
  BY <1>2, RouteNumber
<1>5. i = j
  <2> DEFINE a == Dist(links, s)[d]
  <2>1. a \in Nat /\ a - i = a - j
    BY <1>3, <1>4, RankType
  <2> HIDE DEF a
  <2> QED  BY <1>1, <1>2, <2>1
<1> QED  BY <1>1, <1>2, <1>5

\* The next router is on the route too, and one hop nearer.
LEMMA RouteOn ==
  ASSUME Routed, NEW s \in Routers, NEW d \in Routers,
         NEW r, OnRoute(links, routingTable, s, d, r), r # d
  PROVE  /\ OnRoute(links, routingTable, s, d, routingTable[r][d])
         /\ routingTable[r][d] \in Neighbours(links, r)
         /\ routingTable[r][d] \in Routers
         /\ Dist(links, r)[d] = Dist(links, routingTable[r][d])[d] + 1
<1>1. PICK i \in Nat : i <= Dist(links, s)[d] /\ r = HopsOf(routingTable, s, d)[i]
  BY DEF OnRoute
<1>2. r \in Routers /\ Dist(links, r)[d] = Dist(links, s)[d] - i /\ Dist(links, s)[d] \in Nat
  <2>1. HopsOf(routingTable, s, d)[i] \in Routers
        /\ Dist(links, HopsOf(routingTable, s, d)[i])[d] = Dist(links, s)[d] - i
    BY <1>1, RouteNumber
  <2>2. Dist(links, s)[d] \in Nat
    BY RankType
  <2> QED  BY <1>1, <2>1, <2>2, Zenon
<1>3. Dist(links, r)[d] # 0
  BY <1>2, RankType
<1>4. i + 1 \in Nat /\ i + 1 <= Dist(links, s)[d] /\ i + 1 # 0 /\ (i + 1) - 1 = i
  BY <1>1, <1>2, <1>3
<1> DEFINE t == HopsOf(routingTable, s, d)[i + 1]
<1>5. /\ t \in Routers /\ Dist(links, t)[d] = Dist(links, s)[d] - (i + 1)
      /\ {HopsOf(routingTable, s, d)[(i + 1) - 1], t} \in links
      /\ t = routingTable[HopsOf(routingTable, s, d)[(i + 1) - 1]][d]
  BY <1>4, RouteNumber
<1>6. {r, t} \in links /\ t = routingTable[r][d]
  BY <1>1, <1>4, <1>5
<1>7. OnRoute(links, routingTable, s, d, t)
  BY <1>4 DEF OnRoute
<1> HIDE DEF t
<1>8. t \in Neighbours(links, r)
  BY <1>5, <1>6 DEF Neighbours
<1>9. Dist(links, r)[d] = Dist(links, t)[d] + 1
  BY <1>1, <1>2, <1>5
<1> QED  BY <1>5, <1>6, <1>7, <1>8, <1>9


------------------------------------------------------------------------------
(* The queues. *)

\* The packets spiffy_sendto makes.
Packet ==
    {[ID |-> t[1][1], lSrcAddr |-> t[1][1], lDestAddr |-> t[1][2], datagram |-> Datagram(t[2]),
      message |-> t[2], number |-> t[3]] : t \in Pairs \X Outgoing \X Nat}

\* The fields of a packet in flight.
LEMMA PacketFields ==
  ASSUME NEW p \in Packet
  PROVE  /\ <<p.lSrcAddr, p.lDestAddr>> \in Pairs /\ p.message \in Outgoing
         /\ p.datagram = Datagram(p.message) /\ p.number \in Nat
<1>1. PICK t \in Pairs \X Outgoing \X Nat :
          p = [ID |-> t[1][1], lSrcAddr |-> t[1][1], lDestAddr |-> t[1][2],
               datagram |-> Datagram(t[2]), message |-> t[2], number |-> t[3]]
  BY DEF Packet
<1>2. t[1] = <<t[1][1], t[1][2]>> /\ t[1] \in Pairs
  BY DEF Pairs
<1> QED  BY <1>1, <1>2

\* What the queues q may be.
Shape(q) ==
    /\ q = [r \in Routers |-> q[r]]
    /\ \A r \in Routers : q[r] \in [Neighbours(links, r) -> Seq(Packet)]

\* A packet p in the queue of router r for its neighbour n is on its way from one
\* router to another, one of the first k that were sent.
Stands(p, r, n, k) ==
    /\ p.lSrcAddr \in Routers /\ p.lDestAddr \in Nodes /\ r # p.lDestAddr
    /\ n = routingTable[r][p.lDestAddr]
    /\ OnRoute(links, routingTable, p.lSrcAddr, p.lDestAddr, r)
    /\ p.number \in 1..k

Held(q, k) ==
    \A r \in Routers : \A n \in Neighbours(links, r) :
        /\ Len(q[r][n]) <= max
        /\ \A i \in 1..Len(q[r][n]) : Stands(q[r][n][i], r, n, k)

SamePair(p, o) == p.lSrcAddr = o.lSrcAddr /\ p.lDestAddr = o.lDestAddr

\* A packet that is nearer to its destination, or in front in the same queue, was
\* sent earlier than the others of its pair.
Ordered(q) ==
    \A r, s \in Routers : \A n \in Neighbours(links, r), t \in Neighbours(links, s) :
        \A i \in 1..Len(q[r][n]), j \in 1..Len(q[s][t]) :
            /\ SamePair(q[r][n][i], q[s][t][j])
            /\ \/ Dist(links, r)[q[r][n][i].lDestAddr] < Dist(links, s)[q[r][n][i].lDestAddr]
               \/ r = s /\ n = t /\ i < j
            => q[r][n][i].number < q[s][t][j].number

QueuesOK(q, k) == Shape(q) /\ Held(q, k) /\ Ordered(q)

\* The queues at a link.
LEMMA ShapeAt ==
  ASSUME NEW q, Shape(q), NEW r \in Routers, NEW n \in Neighbours(links, r)
  PROVE  /\ q[r][n] \in Seq(Packet) /\ Len(q[r][n]) \in Nat /\ DOMAIN q[r][n] = 1..Len(q[r][n])
         /\ \A i \in 1..Len(q[r][n]) : q[r][n][i] \in Packet /\ q[r][n][i].number \in Nat
<1>1. q[r][n] \in Seq(Packet)
  BY DEF Shape
<1>2. \A i \in 1..Len(q[r][n]) : q[r][n][i] \in Packet
  BY <1>1
<1>3. \A i \in 1..Len(q[r][n]) : q[r][n][i].number \in Nat
  BY <1>2, PacketFields
<1> QED  BY <1>1, <1>2, <1>3

\* Taking the head of the queue from r to n.
Pop(q, r, n) == [q EXCEPT ![r][n] = Tail(@)]

\* The queues after a packet leaves one.
LEMMA PopAt ==
  ASSUME NEW q, Shape(q), NEW r \in Routers, NEW n \in Neighbours(links, r), q[r][n] # << >>
  PROVE  /\ Shape(Pop(q, r, n))
         /\ Pop(q, r, n)[r][n] = Tail(q[r][n])
         /\ \A s \in Routers : \A t \in Neighbours(links, s) :
               s # r \/ t # n => Pop(q, r, n)[s][t] = q[s][t]
<1> DEFINE w == Pop(q, r, n)
<1>1. q = [s \in Routers |-> q[s]] /\ \A s \in Routers : q[s] \in [Neighbours(links, s) -> Seq(Packet)]
  BY DEF Shape
<1>2. w = [s \in Routers |-> IF s = r THEN [q[r] EXCEPT ![n] = Tail(q[r][n])] ELSE q[s]]
  BY <1>1 DEF Pop
<1>3. q[r] \in [Neighbours(links, r) -> Seq(Packet)] /\ Tail(q[r][n]) \in Seq(Packet)
  BY <1>1
<1> HIDE DEF w
<1>4. /\ w = [s \in Routers |-> w[s]] /\ w[r] = [q[r] EXCEPT ![n] = Tail(q[r][n])]
      /\ \A s \in Routers : s # r => w[s] = q[s]
  BY <1>2
<1>5. w[r] \in [Neighbours(links, r) -> Seq(Packet)] /\ w[r][n] = Tail(q[r][n])
      /\ \A t \in Neighbours(links, r) : t # n => w[r][t] = q[r][t]
  BY <1>3, <1>4
<1>6. \A s \in Routers : w[s] \in [Neighbours(links, s) -> Seq(Packet)]
  BY <1>1, <1>4, <1>5
<1>7. \A s \in Routers : \A t \in Neighbours(links, s) : s # r \/ t # n => w[s][t] = q[s][t]
  BY <1>4, <1>5
<1>8. Shape(w)
  BY <1>4, <1>6 DEF Shape
<1> QED  BY <1>5, <1>7, <1>8 DEF w

\* Where a packet was before the head was taken.
Before(r, n, s, t, i) == IF s = r /\ t = n THEN i + 1 ELSE i

\* Where the packets of the queues come from after one has left.
LEMMA PopFrom ==
  ASSUME NEW q, Shape(q), NEW r \in Routers, NEW n \in Neighbours(links, r), q[r][n] # << >>,
         NEW s \in Routers, NEW t \in Neighbours(links, s)
  PROVE  /\ Len(Pop(q, r, n)[s][t]) \in Nat /\ Len(Pop(q, r, n)[s][t]) <= Len(q[s][t])
         /\ \A i \in 1..Len(Pop(q, r, n)[s][t]) :
               /\ Before(r, n, s, t, i) \in 1..Len(q[s][t])
               /\ Pop(q, r, n)[s][t][i] = q[s][t][Before(r, n, s, t, i)]
         /\ \A j \in 1..Len(q[s][t]) :
               \/ s = r /\ t = n /\ j = 1
               \/ \E i \in 1..Len(Pop(q, r, n)[s][t]) : j = Before(r, n, s, t, i)
<1> DEFINE w == Pop(q, r, n)
<1>1. q[s][t] \in Seq(Packet) /\ Len(q[s][t]) \in Nat
  BY ShapeAt
<1>2. w[r][n] = Tail(q[r][n]) /\ (s # r \/ t # n => w[s][t] = q[s][t])
  BY PopAt
<1> HIDE DEF w
<1> DEFINE old == q[s][t]
           new == w[s][t]
<1>3. CASE s = r /\ t = n
  <2>1. old # << >> /\ new = Tail(old) /\ old \in Seq(Packet)
    BY <1>1, <1>2, <1>3
  <2> HIDE DEF old, new
  <2>2. Len(new) = Len(old) - 1 /\ Len(old) \in Nat \ {0} /\ \A i \in 1..Len(new) : new[i] = old[i + 1]
    BY <2>1
  <2>3. \A i \in 1..Len(new) : i + 1 \in 1..Len(old)
    BY <2>2
  <2>4. \A j \in 1..Len(old) : j = 1 \/ \E i \in 1..Len(new) : j = i + 1
    <3> TAKE j \in 1..Len(old)
    <3>1. j # 1 => j - 1 \in 1..Len(new) /\ j = (j - 1) + 1
      BY <2>2
    <3> QED  BY <3>1
  <2>5. Len(new) \in Nat /\ Len(new) <= Len(old)
    BY <2>2
  <2>6. \A i : Before(r, n, s, t, i) = i + 1
    BY <1>3 DEF Before
  <2>7. \A i \in 1..Len(new) : Before(r, n, s, t, i) \in 1..Len(old) /\ new[i] = old[Before(r, n, s, t, i)]
    BY <2>2, <2>3, <2>6
  <2>8. \A j \in 1..Len(old) : \/ s = r /\ t = n /\ j = 1
                               \/ \E i \in 1..Len(new) : j = Before(r, n, s, t, i)
    BY <1>3, <2>4, <2>6
  <2> QED  BY <2>5, <2>7, <2>8, Zenon DEF old, new, w
<1>4. CASE ~(s = r /\ t = n)
  <2>1. new = old /\ Len(old) \in Nat
    BY <1>1, <1>2, <1>4
  <2>2. \A i : Before(r, n, s, t, i) = i
    BY <1>4 DEF Before
  <2> HIDE DEF old, new
  <2>3. Len(new) \in Nat /\ Len(new) <= Len(old)
    BY <2>1
  <2>4. \A i \in 1..Len(new) : Before(r, n, s, t, i) \in 1..Len(old) /\ new[i] = old[Before(r, n, s, t, i)]
    BY <2>1, <2>2
  <2>5. \A j \in 1..Len(old) : \E i \in 1..Len(new) : j = Before(r, n, s, t, i)
    BY <2>1, <2>2
  <2> QED  BY <2>3, <2>4, <2>5, Zenon DEF w, old, new
<1> QED  BY <1>3, <1>4

\* Taking the first packet of a queue keeps the order.
LEMMA PopOK ==
  ASSUME NEW q, NEW k, QueuesOK(q, k), max \in Nat,
         NEW r \in Routers, NEW n \in Neighbours(links, r), q[r][n] # << >>
  PROVE  QueuesOK(Pop(q, r, n), k)
<1> DEFINE w == Pop(q, r, n)
<1>1. Shape(q) /\ Held(q, k) /\ Ordered(q)
  BY DEF QueuesOK
<1>2. Shape(w)
  BY <1>1, PopAt
<1>3. \A s \in Routers : \A t \in Neighbours(links, s) :
        /\ Len(w[s][t]) \in Nat /\ Len(w[s][t]) <= Len(q[s][t]) /\ Len(q[s][t]) \in Nat
        /\ \A i \in 1..Len(w[s][t]) : /\ Before(r, n, s, t, i) \in 1..Len(q[s][t])
                                      /\ w[s][t][i] = q[s][t][Before(r, n, s, t, i)]
  BY <1>1, PopFrom, ShapeAt
<1> HIDE DEF w
<1>4. Held(w, k)
  <2> SUFFICES ASSUME NEW s \in Routers, NEW t \in Neighbours(links, s)
               PROVE  Len(w[s][t]) <= max /\ \A i \in 1..Len(w[s][t]) : Stands(w[s][t][i], s, t, k)
    BY DEF Held
  <2>1. Len(q[s][t]) <= max /\ \A i \in 1..Len(q[s][t]) : Stands(q[s][t][i], s, t, k)
    BY <1>1 DEF Held
  <2>2. Len(w[s][t]) <= max
    BY <1>3, <2>1
  <2>3. ASSUME NEW i \in 1..Len(w[s][t]) PROVE Stands(w[s][t][i], s, t, k)
    <3>1. Before(r, n, s, t, i) \in 1..Len(q[s][t]) /\ w[s][t][i] = q[s][t][Before(r, n, s, t, i)]
      BY <1>3
    <3> QED  BY <2>1, <3>1
  <2> QED  BY <2>2, <2>3
<1>5. Ordered(w)
  <2> SUFFICES ASSUME NEW a \in Routers, NEW b \in Routers, NEW c \in Neighbours(links, a), NEW d \in Neighbours(links, b),
                      NEW i \in 1..Len(w[a][c]), NEW j \in 1..Len(w[b][d]),
                      SamePair(w[a][c][i], w[b][d][j]),
                      \/ Dist(links, a)[w[a][c][i].lDestAddr] < Dist(links, b)[w[a][c][i].lDestAddr]
                      \/ a = b /\ c = d /\ i < j
               PROVE  w[a][c][i].number < w[b][d][j].number
    BY DEF Ordered
  <2> DEFINE x == Before(r, n, a, c, i)
             y == Before(r, n, b, d, j)
  <2>1. x \in 1..Len(q[a][c]) /\ w[a][c][i] = q[a][c][x]
    BY <1>3
  <2>2. y \in 1..Len(q[b][d]) /\ w[b][d][j] = q[b][d][y]
    BY <1>3
  <2>3. a = b /\ c = d /\ i < j => x < y
    <3>1. i \in Nat /\ j \in Nat
      BY <1>3
    <3> QED  BY <3>1 DEF Before
  <2> HIDE DEF x, y
  <2>4. SamePair(q[a][c][x], q[b][d][y])
    BY <2>1, <2>2
  <2>5. \/ Dist(links, a)[q[a][c][x].lDestAddr] < Dist(links, b)[q[a][c][x].lDestAddr]
        \/ a = b /\ c = d /\ x < y
    BY <2>1, <2>3
  <2>6. q[a][c][x].number < q[b][d][y].number
    BY <1>1, <2>1, <2>2, <2>4, <2>5 DEF Ordered
  <2> QED  BY <2>1, <2>2, <2>6
<1>6. QueuesOK(w, k)
  BY <1>2, <1>4, <1>5 DEF QueuesOK
<1> QED  BY <1>6 DEF w


\* Putting p at the end of the queue from x to t.
Push(q, p, x, t) == [q EXCEPT ![x][t] = Append(@, p)]

\* The queues after a packet enters one.
LEMMA PushAt ==
  ASSUME NEW q, Shape(q), NEW p \in Packet, NEW x \in Routers, NEW t \in Neighbours(links, x)
  PROVE  /\ Shape(Push(q, p, x, t))
         /\ Push(q, p, x, t)[x][t] = Append(q[x][t], p)
         /\ \A r \in Routers : \A n \in Neighbours(links, r) :
               r # x \/ n # t => Push(q, p, x, t)[r][n] = q[r][n]
<1> DEFINE w == Push(q, p, x, t)
<1>1. q = [s \in Routers |-> q[s]] /\ \A s \in Routers : q[s] \in [Neighbours(links, s) -> Seq(Packet)]
  BY DEF Shape
<1>2. w = [s \in Routers |-> IF s = x THEN [q[x] EXCEPT ![t] = Append(q[x][t], p)] ELSE q[s]]
  BY <1>1 DEF Push
<1>3. q[x] \in [Neighbours(links, x) -> Seq(Packet)] /\ Append(q[x][t], p) \in Seq(Packet)
  BY <1>1
<1> HIDE DEF w
<1>4. /\ w = [s \in Routers |-> w[s]] /\ w[x] = [q[x] EXCEPT ![t] = Append(q[x][t], p)]
      /\ \A s \in Routers : s # x => w[s] = q[s]
  BY <1>2
<1>5. w[x] \in [Neighbours(links, x) -> Seq(Packet)] /\ w[x][t] = Append(q[x][t], p)
      /\ \A n \in Neighbours(links, x) : n # t => w[x][n] = q[x][n]
  BY <1>3, <1>4
<1>6. \A s \in Routers : w[s] \in [Neighbours(links, s) -> Seq(Packet)]
  BY <1>1, <1>4, <1>5
<1>7. \A r \in Routers : \A n \in Neighbours(links, r) : r # x \/ n # t => w[r][n] = q[r][n]
  BY <1>4, <1>5
<1>8. Shape(w)
  BY <1>4, <1>6 DEF Shape
<1> QED  BY <1>5, <1>7, <1>8 DEF w

\* A packet that is in the queues now was there before, or is the new one.
LEMMA PushFrom ==
  ASSUME NEW q, Shape(q), NEW p \in Packet, NEW x \in Routers, NEW t \in Neighbours(links, x),
         NEW r \in Routers, NEW n \in Neighbours(links, r)
  PROVE  /\ Len(q[r][n]) \in Nat
         /\ Len(Push(q, p, x, t)[r][n]) = IF r = x /\ n = t THEN Len(q[r][n]) + 1 ELSE Len(q[r][n])
         /\ \A i \in 1..Len(q[r][n]) :
               i \in 1..Len(Push(q, p, x, t)[r][n]) /\ Push(q, p, x, t)[r][n][i] = q[r][n][i]
         /\ \A i \in 1..Len(Push(q, p, x, t)[r][n]) :
               \/ i \in 1..Len(q[r][n])
               \/ r = x /\ n = t /\ i = Len(q[r][n]) + 1 /\ Push(q, p, x, t)[r][n][i] = p
         /\ r = x /\ n = t => Push(q, p, x, t)[r][n][Len(q[r][n]) + 1] = p
<1> DEFINE w == Push(q, p, x, t)
           old == q[r][n]
           new == w[r][n]
<1>1. old \in Seq(Packet) /\ Len(old) \in Nat
  BY ShapeAt
<1>2. w[x][t] = Append(q[x][t], p) /\ (r # x \/ n # t => w[r][n] = q[r][n])
  BY PushAt
<1>3. CASE r = x /\ n = t
  <2>1. new = Append(old, p)
    BY <1>2, <1>3
  <2> HIDE DEF old, new
  <2>2. Len(new) = Len(old) + 1 /\ new[Len(old) + 1] = p /\ \A i \in 1..Len(old) : new[i] = old[i]
    BY <1>1, <2>1, AppendProperties
  <2>3. \A i \in 1..Len(old) : i \in 1..Len(new)
    BY <1>1, <2>2
  <2>4. \A i \in 1..Len(new) : i \in 1..Len(old) \/ i = Len(old) + 1
    BY <1>1, <2>2
  <2> QED  BY <1>1, <1>3, <2>2, <2>3, <2>4, Zenon DEF old, new, w
<1>4. CASE ~(r = x /\ n = t)
  <2>1. new = old
    BY <1>2, <1>4
  <2> QED  BY <1>1, <1>4, <2>1, Zenon
<1> QED  BY <1>3, <1>4

\* p can be put in a queue of router x: the packets of its pair that are there or
\* nearer to the destination are older, those that are further away are younger.
Fits(q, p, x) ==
    \A r \in Routers : \A n \in Neighbours(links, r) : \A i \in 1..Len(q[r][n]) :
        SamePair(p, q[r][n][i]) =>
            \/ Dist(links, r)[p.lDestAddr] <= Dist(links, x)[p.lDestAddr] /\ q[r][n][i].number < p.number
            \/ Dist(links, r)[p.lDestAddr] > Dist(links, x)[p.lDestAddr] /\ p.number < q[r][n][i].number

\* Appending a packet where its route goes on keeps the order.
LEMMA PushOK ==
  ASSUME NEW q, NEW k, QueuesOK(q, k), max \in Nat, Routed,
         NEW p \in Packet, NEW x \in Routers, NEW t \in Neighbours(links, x),
         Len(q[x][t]) < max, Stands(p, x, t, k), Fits(q, p, x)
  PROVE  QueuesOK(Push(q, p, x, t), k)
<1> DEFINE w == Push(q, p, x, t)
<1>1. Shape(q) /\ Held(q, k) /\ Ordered(q)
  BY DEF QueuesOK
<1>2. Shape(w)
  BY <1>1, PushAt
<1>3. \A r \in Routers : \A n \in Neighbours(links, r) :
         /\ Len(q[r][n]) \in Nat
         /\ Len(w[r][n]) = IF r = x /\ n = t THEN Len(q[r][n]) + 1 ELSE Len(q[r][n])
         /\ \A i \in 1..Len(q[r][n]) : i \in 1..Len(w[r][n]) /\ w[r][n][i] = q[r][n][i]
         /\ \A i \in 1..Len(w[r][n]) :
               \/ i \in 1..Len(q[r][n])
               \/ r = x /\ n = t /\ i = Len(q[r][n]) + 1 /\ w[r][n][i] = p
  <2> TAKE r \in Routers
  <2> TAKE n \in Neighbours(links, r)
  <2> QED  BY <1>1, PushFrom
<1> HIDE DEF w
<1>4. Held(w, k)
  <2> SUFFICES ASSUME NEW s \in Routers, NEW n \in Neighbours(links, s)
               PROVE  Len(w[s][n]) <= max /\ \A i \in 1..Len(w[s][n]) : Stands(w[s][n][i], s, n, k)
    BY DEF Held
  <2>1. Len(q[s][n]) <= max /\ \A i \in 1..Len(q[s][n]) : Stands(q[s][n][i], s, n, k)
    BY <1>1 DEF Held
  <2>2. Len(w[s][n]) <= max
    BY <1>3, <2>1
  <2>3. ASSUME NEW i \in 1..Len(w[s][n]) PROVE Stands(w[s][n][i], s, n, k)
    <3>1. \/ i \in 1..Len(q[s][n]) /\ w[s][n][i] = q[s][n][i]
          \/ s = x /\ n = t /\ w[s][n][i] = p
      BY <1>3
    <3> QED  BY <2>1, <3>1
  <2> QED  BY <2>2, <2>3
<1>5. Ordered(w)
  <2> SUFFICES ASSUME NEW a \in Routers, NEW b \in Routers, NEW c \in Neighbours(links, a), NEW d \in Neighbours(links, b),
                      NEW i \in 1..Len(w[a][c]), NEW j \in 1..Len(w[b][d]),
                      SamePair(w[a][c][i], w[b][d][j]),
                      \/ Dist(links, a)[w[a][c][i].lDestAddr] < Dist(links, b)[w[a][c][i].lDestAddr]
                      \/ a = b /\ c = d /\ i < j
               PROVE  w[a][c][i].number < w[b][d][j].number
    BY DEF Ordered
  <2>1. \/ i \in 1..Len(q[a][c]) /\ w[a][c][i] = q[a][c][i]
        \/ a = x /\ c = t /\ i = Len(q[a][c]) + 1 /\ w[a][c][i] = p
    BY <1>3
  <2>2. \/ j \in 1..Len(q[b][d]) /\ w[b][d][j] = q[b][d][j]
        \/ b = x /\ d = t /\ j = Len(q[b][d]) + 1 /\ w[b][d][j] = p
    BY <1>3
  <2>3. CASE i \in 1..Len(q[a][c]) /\ w[a][c][i] = q[a][c][i] /\ j \in 1..Len(q[b][d]) /\ w[b][d][j] = q[b][d][j]
    <3>1. SamePair(q[a][c][i], q[b][d][j])
      BY <2>3
    <3>2. \/ Dist(links, a)[q[a][c][i].lDestAddr] < Dist(links, b)[q[a][c][i].lDestAddr]
          \/ a = b /\ c = d /\ i < j
      BY <2>3
    <3>3. q[a][c][i].number < q[b][d][j].number
      BY <1>1, <2>3, <3>1, <3>2 DEF Ordered
    <3> QED  BY <2>3, <3>3
  <2> DEFINE e == p.lDestAddr
  <2>4. p.lDestAddr \in Routers
    BY WireAssumption DEF Stands
  <2>5. \A r \in Routers : Dist(links, r)[e] \in Nat
    BY <2>4, RankType
  <2>6. CASE i \in 1..Len(q[a][c]) /\ w[a][c][i] = q[a][c][i] /\ b = x /\ d = t /\ j = Len(q[b][d]) + 1 /\ w[b][d][j] = p
    <3>1. SamePair(p, q[a][c][i]) /\ w[a][c][i].lDestAddr = e
      BY <2>6 DEF SamePair
    <3>2. Dist(links, a)[e] < Dist(links, x)[e] \/ a = x
      BY <2>6, <3>1
    <3>3. ~(Dist(links, a)[e] > Dist(links, x)[e])
      BY <2>5, <3>2
    <3>4. q[a][c][i].number < p.number
      BY <2>6, <3>1, <3>3 DEF Fits
    <3> QED  BY <2>6, <3>4
  <2>7. CASE a = x /\ c = t /\ i = Len(q[a][c]) + 1 /\ w[a][c][i] = p /\ j \in 1..Len(q[b][d]) /\ w[b][d][j] = q[b][d][j]
    <3>1. SamePair(p, q[b][d][j]) /\ w[a][c][i].lDestAddr = e
      BY <2>7
    <3>2. ~(a = b /\ c = d /\ i < j)
      BY <1>3, <2>7
    <3>3. Dist(links, x)[e] < Dist(links, b)[e]
      BY <2>7, <3>1, <3>2
    <3>4. ~(Dist(links, b)[e] <= Dist(links, x)[e])
      BY <2>5, <3>3
    <3>5. p.number < q[b][d][j].number
      BY <2>7, <3>1, <3>4 DEF Fits
    <3> QED  BY <2>7, <3>5
  <2>8. CASE a = x /\ c = t /\ i = Len(q[a][c]) + 1 /\ w[a][c][i] = p /\ b = x /\ d = t /\ j = Len(q[b][d]) + 1
    <3>1. ~(Dist(links, a)[e] < Dist(links, b)[e]) /\ i = j /\ i \in Nat
      BY <1>3, <2>5, <2>8
    <3> QED  BY <2>8, <3>1
  <2> QED  BY <2>1, <2>2, <2>3, <2>6, <2>7, <2>8
<1>6. QueuesOK(w, k)
  BY <1>2, <1>4, <1>5 DEF QueuesOK
<1> QED  BY <1>6 DEF w

\* Where the packets of the same pair are, seen from the head of a queue.
LEMMA HeadApart ==
  ASSUME NEW q, NEW k, QueuesOK(q, k), Routed,
         NEW r \in Routers, NEW n \in Neighbours(links, r), q[r][n] # << >>,
         NEW s \in Routers, NEW t \in Neighbours(links, s), NEW j \in 1..Len(q[s][t]),
         SamePair(q[r][n][1], q[s][t][j]), ~(s = r /\ t = n /\ j = 1)
  PROVE  LET d == q[r][n][1].lDestAddr
         IN  \/ Dist(links, s)[d] < Dist(links, r)[d] /\ q[s][t][j].number < q[r][n][1].number
             \/ Dist(links, r)[d] <= Dist(links, s)[d] /\ q[r][n][1].number < q[s][t][j].number
<1> DEFINE p == q[r][n][1]
           o == q[s][t][j]
           d == p.lDestAddr
           c == p.lSrcAddr
<1>1. Shape(q) /\ Held(q, k) /\ Ordered(q)
  BY DEF QueuesOK
<1>2. 1 \in 1..Len(q[r][n]) /\ Len(q[s][t]) \in Nat
  BY <1>1, ShapeAt
<1>3. Stands(p, r, n, k) /\ Stands(o, s, t, k)
  BY <1>1, <1>2 DEF Held
<1>4. o.lSrcAddr = c /\ o.lDestAddr = d
  BY DEF SamePair
<1>5. /\ c \in Routers /\ d \in Routers /\ n = routingTable[r][d] /\ t = routingTable[s][d]
      /\ OnRoute(links, routingTable, c, d, r) /\ OnRoute(links, routingTable, c, d, s)
  <2> HIDE DEF p, o
  <2> QED  BY <1>3, <1>4, WireAssumption DEF Stands
<1>6. Dist(links, s)[d] \in Nat /\ Dist(links, r)[d] \in Nat
  BY <1>5, RankType
<1>7. CASE Dist(links, s)[d] < Dist(links, r)[d]
  <2>1. SamePair(o, p) /\ o.lDestAddr = d
    BY <1>4 DEF SamePair
  <2>2. o.number < p.number
    BY <1>1, <1>2, <1>7, <2>1 DEF Ordered
  <2> QED  BY <1>7, <2>2
<1>8. CASE Dist(links, r)[d] < Dist(links, s)[d]
  <2>1. p.number < o.number
    BY <1>1, <1>2, <1>8 DEF Ordered
  <2> QED  BY <1>6, <1>8, <2>1
<1>9. CASE Dist(links, r)[d] = Dist(links, s)[d]
  <2>1. r = s
    <3> HIDE DEF d, c
    <3> QED  BY <1>5, <1>9, RouteApart
  <2>2. n = t /\ j # 1 /\ 1 < j
    <3>1. n = t
      <4> HIDE DEF d
      <4> QED  BY <1>5, <2>1
    <3>2. j # 1
      BY <2>1, <3>1
    <3>3. j \in 1..Len(q[s][t]) /\ Len(q[s][t]) \in Nat
      BY <1>2
    <3> QED  BY <3>1, <3>2, <3>3
  <2>3. p.number < o.number
    BY <1>1, <1>2, <2>1, <2>2 DEF Ordered
  <2> QED  BY <1>6, <1>9, <2>3
<1>10. \/ Dist(links, s)[d] < Dist(links, r)[d] \/ Dist(links, r)[d] < Dist(links, s)[d]
       \/ Dist(links, r)[d] = Dist(links, s)[d]
  BY <1>6
<1> QED  BY <1>7, <1>8, <1>9, <1>10


------------------------------------------------------------------------------
(* What is under way. *)

\* The numbers of the packets of c in the queues q.
Under(q, c) ==
    {k \in Nat : \E r \in Routers : \E n \in Neighbours(links, r) : \E i \in 1..Len(q[r][n]) :
        /\ q[r][n][i].lSrcAddr = c[1] /\ q[r][n][i].lDestAddr = c[2] /\ q[r][n][i].number = k}

\* Numbers under way have been given out.
LEMMA UnderBound ==
  ASSUME NEW q, NEW k \in Nat, QueuesOK(q, k), NEW c
  PROVE  Under(q, c) \in SUBSET (1..k)
<1> SUFFICES ASSUME NEW m \in Under(q, c) PROVE m \in 1..k
  OBVIOUS
<1>1. PICK r \in Routers : \E n \in Neighbours(links, r) : \E i \in 1..Len(q[r][n]) : q[r][n][i].number = m
  BY DEF Under
<1>2. PICK n \in Neighbours(links, r) : \E i \in 1..Len(q[r][n]) : q[r][n][i].number = m
  BY <1>1
<1>3. PICK i \in 1..Len(q[r][n]) : q[r][n][i].number = m
  BY <1>2
<1>4. Stands(q[r][n][i], r, n, k)
  BY DEF QueuesOK, Held
<1> QED  BY <1>3, <1>4 DEF Stands

\* What is under way after a packet enters a queue.
LEMMA UnderPush ==
  ASSUME NEW q, Shape(q), NEW p \in Packet, NEW x \in Routers, NEW t \in Neighbours(links, x), NEW c \in Pairs
  PROVE  Under(Push(q, p, x, t), c) = IF c = <<p.lSrcAddr, p.lDestAddr>> THEN Under(q, c) \cup {p.number}
                                                                         ELSE Under(q, c)
<1> DEFINE w == Push(q, p, x, t)
<1>1. \A r \in Routers : \A n \in Neighbours(links, r) :
         /\ Len(q[r][n]) \in Nat
         /\ \A i \in 1..Len(q[r][n]) : i \in 1..Len(w[r][n]) /\ w[r][n][i] = q[r][n][i]
         /\ \A i \in 1..Len(w[r][n]) : i \in 1..Len(q[r][n]) \/ w[r][n][i] = p
  <2> TAKE r \in Routers
  <2> TAKE n \in Neighbours(links, r)
  <2> QED  BY PushFrom, SMTT(30)
<1>2. Len(q[x][t]) \in Nat /\ Len(w[x][t]) = Len(q[x][t]) + 1 /\ w[x][t][Len(q[x][t]) + 1] = p
  BY PushFrom
<1> HIDE DEF w
<1>3. Len(q[x][t]) + 1 \in 1..Len(w[x][t])
  BY <1>2
<1>4. p.number \in Nat
  BY PacketFields
<1>5. c = <<c[1], c[2]>>
  BY DEF Pairs
<1>6. c = <<p.lSrcAddr, p.lDestAddr>> <=> p.lSrcAddr = c[1] /\ p.lDestAddr = c[2]
  BY <1>5
<1>7. ASSUME NEW k \in Under(q, c) PROVE k \in Under(w, c)
  <2>1. PICK r \in Routers : \E n \in Neighbours(links, r) : \E i \in 1..Len(q[r][n]) :
           q[r][n][i].lSrcAddr = c[1] /\ q[r][n][i].lDestAddr = c[2] /\ q[r][n][i].number = k
    BY DEF Under
  <2>2. PICK n \in Neighbours(links, r) : \E i \in 1..Len(q[r][n]) :
           q[r][n][i].lSrcAddr = c[1] /\ q[r][n][i].lDestAddr = c[2] /\ q[r][n][i].number = k
    BY <2>1
  <2>3. PICK i \in 1..Len(q[r][n]) :
           q[r][n][i].lSrcAddr = c[1] /\ q[r][n][i].lDestAddr = c[2] /\ q[r][n][i].number = k
    BY <2>2
  <2>4. i \in 1..Len(w[r][n]) /\ w[r][n][i] = q[r][n][i] /\ k \in Nat
    BY <1>1 DEF Under
  <2> QED  BY <2>3, <2>4 DEF Under
<1>8. ASSUME NEW k \in Under(w, c) PROVE k \in Under(q, c) \/ (k = p.number /\ p.lSrcAddr = c[1] /\ p.lDestAddr = c[2])
  <2>1. PICK r \in Routers : \E n \in Neighbours(links, r) : \E i \in 1..Len(w[r][n]) :
           w[r][n][i].lSrcAddr = c[1] /\ w[r][n][i].lDestAddr = c[2] /\ w[r][n][i].number = k
    BY DEF Under
  <2>2. PICK n \in Neighbours(links, r) : \E i \in 1..Len(w[r][n]) :
           w[r][n][i].lSrcAddr = c[1] /\ w[r][n][i].lDestAddr = c[2] /\ w[r][n][i].number = k
    BY <2>1
  <2>3. PICK i \in 1..Len(w[r][n]) :
           w[r][n][i].lSrcAddr = c[1] /\ w[r][n][i].lDestAddr = c[2] /\ w[r][n][i].number = k
    BY <2>2
  <2>4. k \in Nat
    BY DEF Under
  <2>5. CASE i \in 1..Len(q[r][n])
    <3>1. w[r][n][i] = q[r][n][i]
      BY <1>1, <2>5
    <3> QED  BY <2>3, <2>4, <2>5, <3>1 DEF Under
  <2>6. CASE i \notin 1..Len(q[r][n])
    <3>1. w[r][n][i] = p
      BY <1>1, <2>6
    <3> QED  BY <2>3, <3>1
  <2> QED  BY <2>5, <2>6
<1>9. p.lSrcAddr = c[1] /\ p.lDestAddr = c[2] => p.number \in Under(w, c)
  BY <1>2, <1>3, <1>4 DEF Under
<1>10. Under(w, c) = IF c = <<p.lSrcAddr, p.lDestAddr>> THEN Under(q, c) \cup {p.number} ELSE Under(q, c)
  BY <1>6, <1>7, <1>8, <1>9
<1> QED  BY <1>10 DEF w

\* What is under way after a packet leaves a queue.
LEMMA UnderPop ==
  ASSUME NEW q, NEW k, QueuesOK(q, k), Routed,
         NEW r \in Routers, NEW n \in Neighbours(links, r), q[r][n] # << >>, NEW c \in Pairs
  PROVE  LET p == q[r][n][1]
         IN  /\ Under(Pop(q, r, n), c) = IF c = <<p.lSrcAddr, p.lDestAddr>> THEN Under(q, c) \ {p.number}
                                                                            ELSE Under(q, c)
             /\ c = <<p.lSrcAddr, p.lDestAddr>> => p.number \in Under(q, c)
<1> DEFINE w == Pop(q, r, n)
           p == q[r][n][1]
           Old(s, t, i) == Before(r, n, s, t, i)
<1>1. Shape(q)
  BY DEF QueuesOK
<1>2. \A s \in Routers : \A t \in Neighbours(links, s) :
         /\ Len(q[s][t]) \in Nat
         /\ \A i \in 1..Len(w[s][t]) : Old(s, t, i) \in 1..Len(q[s][t]) /\ w[s][t][i] = q[s][t][Old(s, t, i)]
         /\ \A j \in 1..Len(q[s][t]) :
               (s = r /\ t = n /\ j = 1) \/ \E i \in 1..Len(w[s][t]) : j = Old(s, t, i)
  <2> TAKE s \in Routers
  <2> TAKE t \in Neighbours(links, s)
  <2> QED  BY <1>1, PopFrom, ShapeAt
<1>3. \A s \in Routers : \A t \in Neighbours(links, s) : \A i \in 1..Len(w[s][t]) : ~(s = r /\ t = n /\ Old(s, t, i) = 1)
  <2> SUFFICES ASSUME NEW i \in 1..Len(w[r][n]) PROVE Old(r, n, i) # 1
    OBVIOUS
  <2>1. Len(w[r][n]) \in Nat
    BY <1>1, PopFrom
  <2> QED  BY <2>1 DEF Before
<1> HIDE DEF w, Old
<1>4. 1 \in 1..Len(q[r][n]) /\ p \in Packet /\ p.number \in Nat
  BY <1>1, ShapeAt
<1>5. c = <<c[1], c[2]>>
  BY DEF Pairs
<1>6. c = <<p.lSrcAddr, p.lDestAddr>> <=> p.lSrcAddr = c[1] /\ p.lDestAddr = c[2]
  BY <1>5
<1>7. ASSUME NEW s \in Routers, NEW t \in Neighbours(links, s), NEW j \in 1..Len(q[s][t]),
             SamePair(p, q[s][t][j]), ~(s = r /\ t = n /\ j = 1)
      PROVE  q[s][t][j].number # p.number
  <2>1. q[s][t][j].number < p.number \/ p.number < q[s][t][j].number
    BY <1>7, HeadApart
  <2>2. q[s][t][j].number \in Nat
    BY <1>1, ShapeAt
  <2> QED  BY <1>4, <2>1, <2>2
<1>8. ASSUME NEW m \in Under(w, c)
      PROVE  m \in Under(q, c) /\ (p.lSrcAddr = c[1] /\ p.lDestAddr = c[2] => m # p.number)
  <2>1. PICK s \in Routers : \E t \in Neighbours(links, s) : \E i \in 1..Len(w[s][t]) :
           w[s][t][i].lSrcAddr = c[1] /\ w[s][t][i].lDestAddr = c[2] /\ w[s][t][i].number = m
    BY DEF Under
  <2>2. PICK t \in Neighbours(links, s) : \E i \in 1..Len(w[s][t]) :
           w[s][t][i].lSrcAddr = c[1] /\ w[s][t][i].lDestAddr = c[2] /\ w[s][t][i].number = m
    BY <2>1
  <2>3. PICK i \in 1..Len(w[s][t]) :
           w[s][t][i].lSrcAddr = c[1] /\ w[s][t][i].lDestAddr = c[2] /\ w[s][t][i].number = m
    BY <2>2
  <2>4. m \in Nat
    BY DEF Under
  <2> DEFINE j == Old(s, t, i)
  <2>5. j \in 1..Len(q[s][t]) /\ w[s][t][i] = q[s][t][j] /\ ~(s = r /\ t = n /\ j = 1)
    BY <1>2, <1>3
  <2> HIDE DEF j
  <2>6. m \in Under(q, c)
    BY <2>3, <2>4, <2>5 DEF Under
  <2>7. p.lSrcAddr = c[1] /\ p.lDestAddr = c[2] => SamePair(p, q[s][t][j])
    BY <2>3, <2>5 DEF SamePair
  <2> QED  BY <1>7, <2>3, <2>5, <2>6, <2>7
<1>9. ASSUME NEW m \in Under(q, c), ~(p.lSrcAddr = c[1] /\ p.lDestAddr = c[2] /\ m = p.number)
      PROVE  m \in Under(w, c)
  <2>1. PICK s \in Routers : \E t \in Neighbours(links, s) : \E j \in 1..Len(q[s][t]) :
           q[s][t][j].lSrcAddr = c[1] /\ q[s][t][j].lDestAddr = c[2] /\ q[s][t][j].number = m
    BY DEF Under
  <2>2. PICK t \in Neighbours(links, s) : \E j \in 1..Len(q[s][t]) :
           q[s][t][j].lSrcAddr = c[1] /\ q[s][t][j].lDestAddr = c[2] /\ q[s][t][j].number = m
    BY <2>1
  <2>3. PICK j \in 1..Len(q[s][t]) :
           q[s][t][j].lSrcAddr = c[1] /\ q[s][t][j].lDestAddr = c[2] /\ q[s][t][j].number = m
    BY <2>2
  <2>4. m \in Nat
    BY DEF Under
  <2>5. ~(s = r /\ t = n /\ j = 1)
    BY <1>9, <2>3
  <2>6. PICK i \in 1..Len(w[s][t]) : j = Old(s, t, i)
    BY <1>2, <2>5
  <2>7. w[s][t][i] = q[s][t][j]
    BY <1>2, <2>6
  <2> QED  BY <2>3, <2>4, <2>6, <2>7, SMTT(30) DEF Under
<1>10. p.lSrcAddr = c[1] /\ p.lDestAddr = c[2] => p.number \in Under(q, c)
  BY <1>4 DEF Under
<1>11. Under(w, c) = IF c = <<p.lSrcAddr, p.lDestAddr>> THEN Under(q, c) \ {p.number} ELSE Under(q, c)
  <2> HIDE DEF p
  <2> QED  BY <1>6, <1>8, <1>9, <1>10
<1> QED  BY <1>6, <1>10, <1>11 DEF w


------------------------------------------------------------------------------
(* The steps. *)

\* What a peer may have got from the other of the pair c.
Got(c) ==
    {process_inbound_udp(t[1], t[2]) :
        t \in {p \in Packet : p.lSrcAddr = c[1] /\ p.lDestAddr = c[2]} \X Garbage}

WireInv ==
    /\ Routed /\ max \in QueueSizes /\ sent \in 0..MAX_SENDS
    /\ QueuesOK(queue, sent)
    /\ received \in [Pairs -> Seq(UNION {Got(c) : c \in Pairs})]
    /\ \A c \in Pairs : received[c] \in Seq(Got(c))

\* Either nothing is sent, lost or delivered, or it happens to one packet with
\* number k of the pair c.
Unseen ==
    received' = received /\ \A c \in Pairs : Under(queue', c) = Under(queue, c)

Others(c) == \A o \in Pairs : o # c => Under(queue', o) = Under(queue, o)

Sends(c, k) ==
    /\ received' = received /\ Others(c) /\ k \in 1..MAX_SENDS
    /\ Under(queue', c) = Under(queue, c) \cup {k}
    /\ \A j \in Under(queue, c) : j < k

Loses(c, k) ==
    /\ received' = received /\ Others(c) /\ k \in Under(queue, c)
    /\ Under(queue', c) = Under(queue, c) \ {k}

Delivers(c, k) ==
    /\ Others(c) /\ k \in Under(queue, c)
    /\ Under(queue', c) = Under(queue, c) \ {k}
    /\ \A j \in Under(queue, c) : k <= j
    /\ \E a \in Got(c) : a.number = k /\ received' = [received EXCEPT ![c] = Append(@, a)]

Moved ==
    /\ links' = links /\ max' = max /\ routingTable' = routingTable
    /\ sent' \in 0..MAX_SENDS /\ QueuesOK(queue', sent')
    /\ \/ Unseen
       \/ \E c \in Pairs, k \in Nat : Sends(c, k) \/ Loses(c, k) \/ Delivers(c, k)

\* enQ appends, or drops the packet when the queue is full.
LEMMA EnQueue ==
  ASSUME NEW q, Shape(q), max \in Nat, NEW p \in Packet, NEW x \in Routers, NEW t \in Neighbours(links, x)
  PROVE  LET w == [q EXCEPT ![x][t] = enQ(@, p)]
         IN  \/ w = q
             \/ w = Push(q, p, x, t) /\ Len(q[x][t]) < max
<1>1. q = [s \in Routers |-> q[s]] /\ q[x] \in [Neighbours(links, x) -> Seq(Packet)]
  BY DEF Shape
<1>2. Len(q[x][t]) \in Nat
  BY <1>1
<1>3. CASE Len(q[x][t]) >= max
  <2>1. enQ(q[x][t], p) = q[x][t]
    BY <1>3 DEF enQ
  <2>2. [q EXCEPT ![x][t] = enQ(@, p)] = [q EXCEPT ![x] = [q[x] EXCEPT ![t] = q[x][t]]]
    BY <2>1
  <2>3. [q[x] EXCEPT ![t] = q[x][t]] = q[x]
    BY <1>1
  <2>4. [q EXCEPT ![x] = q[x]] = q
    BY <1>1
  <2> QED  BY <2>2, <2>3, <2>4
<1>4. CASE ~(Len(q[x][t]) >= max)
  <2>1. enQ(q[x][t], p) = Append(q[x][t], p)
    BY <1>4 DEF enQ
  <2>2. [q EXCEPT ![x][t] = enQ(@, p)] = [q EXCEPT ![x][t] = Append(@, p)]
    BY <2>1
  <2>3. Len(q[x][t]) < max
    BY <1>2, <1>4
  <2> QED  BY <2>2, <2>3 DEF Push
<1> QED  BY <1>3, <1>4

\* The capacity of the queues is a number.
LEMMA MaxType == max \in QueueSizes => max \in Nat
BY WireAssumption

\* The order of the packets does not depend on how many were sent.
LEMMA HeldMore ==
  ASSUME NEW q, NEW k \in Nat, QueuesOK(q, k)
  PROVE  QueuesOK(q, k + 1)
<1>1. \A p, r, n : Stands(p, r, n, k) => Stands(p, r, n, k + 1)
  BY DEF Stands
<1> QED  BY <1>1 DEF QueuesOK, Held

\* send enters one packet at its source.
LEMMA SendMoves ==
  ASSUME WireInv, NEW c \in Pairs, NEW m \in Outgoing, send_packet_to_peer(c[1], c[2], m)
  PROVE  Moved
<1> DEFINE s == c[1]
           d == c[2]
           p == spiffy_sendto(s, d, m)
<1>1. /\ sent \in Nat /\ sent + 1 \in 1..MAX_SENDS /\ sent' = sent + 1
      /\ links' = links /\ max' = max /\ routingTable' = routingTable
  BY WireAssumption DEF send_packet_to_peer, WireInv
<1>2. s # d /\ c = <<s, d>>
  BY DEF Pairs
<1>3. /\ p.ID = s /\ p.lSrcAddr = s /\ p.lDestAddr = d /\ p.number = sent + 1 /\ p \in Packet
  <2>1. p = [ID |-> s, lSrcAddr |-> s, lDestAddr |-> d, datagram |-> Datagram(m), message |-> m, number |-> sent + 1]
    BY DEF spiffy_sendto
  <2> DEFINE t == <<c, m, sent + 1>>
  <2>2. t \in Pairs \X Outgoing \X Nat /\ t[1] = c /\ t[2] = m /\ t[3] = sent + 1
    BY <1>1
  <2> HIDE DEF t
  <2>3. p \in Packet
    BY <2>1, <2>2 DEF Packet
  <2> QED  BY <2>1, <2>3
<1>4. IF p.ID \in Routers THEN recv(p.ID, p, queue) ELSE UNCHANGED <<queue, received>>
  BY DEF send_packet_to_peer
<1> HIDE DEF p, s, d
<1>5. QueuesOK(queue, sent) /\ QueuesOK(queue, sent') /\ Routed /\ max \in Nat
  BY <1>1, HeldMore, MaxType DEF WireInv
<1>6. CASE queue' = queue /\ received' = received
  BY <1>1, <1>5, <1>6 DEF Moved, Unseen
<1>7. CASE ~(queue' = queue /\ received' = received)
  <2>1. s \in Routers /\ recv(s, p, queue)
    BY <1>3, <1>4, <1>7
  <2> DEFINE t == routingTable[s][d]
  <2>2. d \in Nodes /\ queue' = [queue EXCEPT ![s][t] = enQ(@, p)] /\ received' = received
    BY <1>2, <1>3, <1>7, <2>1 DEF recv
  <2>3. d \in Routers
    BY <2>2, WireAssumption
  <2>4. OnRoute(links, routingTable, s, d, s)
    BY <1>5, <2>1, <2>3, RouteStart
  <2>5. t \in Neighbours(links, s)
    BY <1>2, <1>5, <2>1, <2>3, <2>4, RouteOn
  <2> HIDE DEF t
  <2>6. Shape(queue)
    BY <1>5 DEF QueuesOK
  <2>7. queue' = Push(queue, p, s, t) /\ Len(queue[s][t]) < max
    BY <1>3, <1>5, <1>7, <2>1, <2>2, <2>5, <2>6, EnQueue
  <2>8. Stands(p, s, t, sent')
    BY <1>1, <1>2, <1>3, <2>1, <2>2, <2>4 DEF Stands, t
  <2>9. Fits(queue, p, s)
    <3> SUFFICES ASSUME NEW r \in Routers, NEW n \in Neighbours(links, r), NEW i \in 1..Len(queue[r][n]),
                        SamePair(p, queue[r][n][i])
                 PROVE  Dist(links, r)[d] <= Dist(links, s)[d] /\ queue[r][n][i].number < p.number
      BY <1>3 DEF Fits
    <3>1. Stands(queue[r][n][i], r, n, sent)
      BY <1>5 DEF QueuesOK, Held
    <3>2. OnRoute(links, routingTable, s, d, r) /\ queue[r][n][i].number \in 1..sent
      BY <1>3, <3>1 DEF Stands, SamePair
    <3>3. Dist(links, r)[d] <= Dist(links, s)[d]
      BY <1>5, <2>1, <2>3, <3>2, RouteRank
    <3> QED  BY <1>1, <1>3, <3>2, <3>3
  <2>10. QueuesOK(queue', sent')
    BY <1>3, <1>5, <2>1, <2>5, <2>7, <2>8, <2>9, PushOK
  <2>11. \A o \in Pairs : Under(queue', o) = IF o = c THEN Under(queue, o) \cup {sent + 1} ELSE Under(queue, o)
    BY <1>2, <1>3, <2>1, <2>5, <2>6, <2>7, UnderPush
  <2>12. \A j \in Under(queue, c) : j < sent + 1
    <3>1. Under(queue, c) \in SUBSET (1..sent)
      BY <1>1, <1>5, UnderBound
    <3> QED  BY <1>1, <3>1
  <2>13. Sends(c, sent + 1)
    BY <1>1, <2>2, <2>11, <2>12 DEF Sends, Others
  <2>14. sent + 1 \in Nat /\ sent' \in 0..MAX_SENDS
    BY <1>1, WireAssumption
  <2> QED  BY <1>1, <2>10, <2>13, <2>14 DEF Moved
<1> QED  BY <1>6, <1>7

\* run takes one packet on by one hop.
LEMMA RunMoves ==
  ASSUME WireInv, NEW r \in Routers, NEW n \in DOMAIN queue[r], run(r, n)
  PROVE  Moved
<1> DEFINE q == Pop(queue, r, n)
           p == queue[r][n][1]
           s == p.lSrcAddr
           d == p.lDestAddr
           c == <<s, d>>
<1>1. QueuesOK(queue, sent) /\ Shape(queue) /\ Held(queue, sent) /\ Routed /\ max \in Nat
  BY MaxType DEF WireInv, QueuesOK
<1>2. n \in Neighbours(links, r) /\ n \in Routers /\ queue[r][n] \in Seq(Packet)
  BY <1>1 DEF Shape, Neighbours
<1>3. /\ queue[r][n] # << >> /\ recv(n, p, q)
      /\ links' = links /\ max' = max /\ routingTable' = routingTable /\ sent' = sent
  <2>1. queue[r][n] # << >> /\ recv(n, Head(queue[r][n]), q)
        /\ links' = links /\ max' = max /\ routingTable' = routingTable /\ sent' = sent
    BY DEF run, Pop
  <2>2. Head(queue[r][n]) = p
    BY <1>2, <2>1
  <2> QED  BY <2>1, <2>2
<1>4. 1 \in 1..Len(queue[r][n]) /\ p \in Packet /\ c \in Pairs /\ p.number \in Nat
  BY <1>1, <1>2, <1>3, ShapeAt, PacketFields
<1>5. Stands(p, r, n, sent)
  BY <1>1, <1>2, <1>4 DEF Held
<1>6. \A o \in Pairs : /\ Under(q, o) = IF o = c THEN Under(queue, o) \ {p.number} ELSE Under(queue, o)
                       /\ o = c => p.number \in Under(queue, o)
  BY <1>1, <1>2, <1>3, UnderPop
<1>7. QueuesOK(q, sent) /\ Shape(q)
  BY <1>1, <1>2, <1>3, PopOK DEF QueuesOK
<1>8. ASSUME NEW a \in Routers, NEW b \in Neighbours(links, a), NEW j \in 1..Len(queue[a][b]),
             SamePair(p, queue[a][b][j]), ~(a = r /\ b = n /\ j = 1)
      PROVE  \/ Dist(links, a)[d] < Dist(links, r)[d] /\ queue[a][b][j].number < p.number
             \/ Dist(links, r)[d] <= Dist(links, a)[d] /\ p.number < queue[a][b][j].number
  BY <1>1, <1>2, <1>3, <1>8, HeadApart
<1>9. sent' \in 0..MAX_SENDS /\ QueuesOK(q, sent')
  BY <1>3, <1>7 DEF WireInv
<1>10. \A a \in Routers : \A b \in Neighbours(links, a) : \A i \in 1..Len(q[a][b]) :
          /\ Before(r, n, a, b, i) \in 1..Len(queue[a][b])
          /\ q[a][b][i] = queue[a][b][Before(r, n, a, b, i)]
          /\ ~(a = r /\ b = n /\ Before(r, n, a, b, i) = 1)
  <2> SUFFICES ASSUME NEW a \in Routers, NEW b \in Neighbours(links, a), NEW i \in 1..Len(q[a][b])
               PROVE  /\ Before(r, n, a, b, i) \in 1..Len(queue[a][b])
                      /\ q[a][b][i] = queue[a][b][Before(r, n, a, b, i)]
                      /\ ~(a = r /\ b = n /\ Before(r, n, a, b, i) = 1)
    OBVIOUS
  <2>1. /\ Before(r, n, a, b, i) \in 1..Len(queue[a][b]) /\ Len(q[a][b]) \in Nat
        /\ q[a][b][i] = queue[a][b][Before(r, n, a, b, i)]
    BY <1>1, <1>2, <1>3, PopFrom
  <2>2. a = r /\ b = n => Before(r, n, a, b, i) # 1
    BY <2>1 DEF Before
  <2> QED  BY <2>1, <2>2
<1>11. /\ s \in Routers /\ d \in Nodes /\ d \in Routers /\ r # d /\ n = routingTable[r][d]
       /\ OnRoute(links, routingTable, s, d, r) /\ p.number \in 1..sent
  BY <1>5, WireAssumption DEF Stands
<1>12. \A o \in Pairs : o # c => Under(q, o) = Under(queue, o)
  BY <1>6
<1>13. p.number \in Under(queue, c) /\ Under(q, c) = Under(queue, c) \ {p.number}
  BY <1>4, <1>6
<1>14. p.lSrcAddr = s /\ p.lDestAddr = d
  OBVIOUS
<1> HIDE DEF p, q, s, d
<1>15. OnRoute(links, routingTable, s, d, n) /\ Dist(links, r)[d] = Dist(links, n)[d] + 1
  BY <1>1, <1>11, RouteOn
<1>16. Dist(links, n)[d] \in Nat /\ (Dist(links, n)[d] = 0 <=> n = d)
  BY <1>1, <1>2, <1>11, RankType
<1>17. CASE queue' = q /\ received' = received
  <2>1. Loses(c, p.number)
    BY <1>12, <1>13, <1>17 DEF Loses, Others
  <2> QED  BY <1>3, <1>4, <1>9, <1>17, <2>1 DEF Moved
<1>18. CASE d = n /\ queue' = q /\ \E g \in Garbage :
              received' = [received EXCEPT ![<<s, d>>] = Append(@, process_inbound_udp(p, g))]
  <2>1. PICK g \in Garbage : received' = [received EXCEPT ![c] = Append(@, process_inbound_udp(p, g))]
    BY <1>18
  <2>2. process_inbound_udp(p, g) \in Got(c) /\ process_inbound_udp(p, g).number = p.number
    <3>1. p \in {o \in Packet : o.lSrcAddr = c[1] /\ o.lDestAddr = c[2]}
      BY <1>4, <1>14
    <3> DEFINE T == {o \in Packet : o.lSrcAddr = c[1] /\ o.lDestAddr = c[2]} \X Garbage
    <3>2. <<p, g>> \in T /\ <<p, g>>[1] = p /\ <<p, g>>[2] = g
      BY <3>1
    <3> HIDE DEF T
    <3>3. process_inbound_udp(p, g) \in {process_inbound_udp(t[1], t[2]) : t \in T}
      BY <3>2
    <3>4. process_inbound_udp(p, g).number = p.number
      BY DEF process_inbound_udp
    <3> QED  BY <3>3, <3>4 DEF Got, T
  <2>3. \A k \in Under(queue, c) : p.number <= k
    <3> SUFFICES ASSUME NEW k \in Under(queue, c), ~(p.number <= k) PROVE FALSE
      OBVIOUS
    <3>1. PICK a \in Routers : \E b \in Neighbours(links, a) : \E j \in 1..Len(queue[a][b]) :
             queue[a][b][j].lSrcAddr = s /\ queue[a][b][j].lDestAddr = d /\ queue[a][b][j].number = k
      BY DEF Under
    <3>2. PICK b \in Neighbours(links, a) : \E j \in 1..Len(queue[a][b]) :
             queue[a][b][j].lSrcAddr = s /\ queue[a][b][j].lDestAddr = d /\ queue[a][b][j].number = k
      BY <3>1
    <3>3. PICK j \in 1..Len(queue[a][b]) :
             queue[a][b][j].lSrcAddr = s /\ queue[a][b][j].lDestAddr = d /\ queue[a][b][j].number = k
      BY <3>2
    <3>4. k \in Nat
      BY DEF Under
    <3>5. ~(a = r /\ b = n /\ j = 1)
      BY <1>4, <3>3, <3>4 DEF p
    <3>6. SamePair(p, queue[a][b][j])
      BY <1>14, <3>3 DEF SamePair
    <3>7. Dist(links, a)[d] < Dist(links, r)[d]
      BY <1>4, <1>8, <3>3, <3>4, <3>5, <3>6
    <3>8. Dist(links, a)[d] \in Nat /\ (Dist(links, a)[d] = 0 <=> a = d)
      BY <1>1, <1>11, RankType
    <3>9. a = d
      BY <1>15, <1>16, <1>18, <3>7, <3>8
    <3>10. Stands(queue[a][b][j], a, b, sent)
      BY <1>1 DEF Held
    <3> QED  BY <3>3, <3>9, <3>10 DEF Stands
  <2>4. Delivers(c, p.number)
    BY <1>12, <1>13, <1>18, <2>1, <2>2, <2>3 DEF Delivers, Others
  <2> QED  BY <1>3, <1>4, <1>9, <1>18, <2>4 DEF Moved
<1> DEFINE t == routingTable[n][d]
<1>19. CASE d # n /\ queue' = [q EXCEPT ![n][t] = enQ(@, p)] /\ received' = received /\ queue' # q
  <2>1. t \in Neighbours(links, n)
    BY <1>1, <1>11, <1>15, <1>19, RouteOn
  <2> HIDE DEF t
  <2>2. queue' = Push(q, p, n, t) /\ Len(q[n][t]) < max
    BY <1>1, <1>2, <1>4, <1>7, <1>19, <2>1, EnQueue
  <2>3. Stands(p, n, t, sent)
    BY <1>11, <1>14, <1>15, <1>19 DEF Stands, t
  <2>4. Fits(q, p, n)
    <3> SUFFICES ASSUME NEW a \in Routers, NEW b \in Neighbours(links, a), NEW i \in 1..Len(q[a][b]),
                        SamePair(p, q[a][b][i])
                 PROVE  \/ Dist(links, a)[d] <= Dist(links, n)[d] /\ q[a][b][i].number < p.number
                        \/ Dist(links, a)[d] > Dist(links, n)[d] /\ p.number < q[a][b][i].number
      BY <1>14 DEF Fits
    <3> DEFINE j == Before(r, n, a, b, i)
    <3>1. j \in 1..Len(queue[a][b]) /\ q[a][b][i] = queue[a][b][j] /\ ~(a = r /\ b = n /\ j = 1)
      BY <1>10
    <3> HIDE DEF j
    <3>2. \/ Dist(links, a)[d] < Dist(links, r)[d] /\ q[a][b][i].number < p.number
          \/ Dist(links, r)[d] <= Dist(links, a)[d] /\ p.number < q[a][b][i].number
      BY <1>8, <3>1
    <3>3. Dist(links, a)[d] \in Nat
      BY <1>1, <1>11, RankType
    <3> QED  BY <1>15, <1>16, <3>2, <3>3
  <2>5. QueuesOK(queue', sent')
    BY <1>1, <1>2, <1>3, <1>4, <1>7, <2>1, <2>2, <2>3, <2>4, PushOK
  <2>6. \A o \in Pairs : Under(queue', o) = IF o = c THEN Under(q, o) \cup {p.number} ELSE Under(q, o)
    BY <1>2, <1>4, <1>7, <1>14, <2>1, <2>2, UnderPush
  <2>7. \A o \in Pairs : Under(queue', o) = Under(queue, o)
    BY <1>12, <1>13, <2>6
  <2> QED  BY <1>3, <1>9, <1>19, <2>5, <2>7 DEF Moved, Unseen
<1>20. \/ queue' = q /\ received' = received
       \/ d = n /\ queue' = q /\ \E g \in Garbage :
              received' = [received EXCEPT ![<<s, d>>] = Append(@, process_inbound_udp(p, g))]
       \/ d # n /\ queue' = [q EXCEPT ![n][t] = enQ(@, p)] /\ received' = received
  BY <1>3, <1>14 DEF recv
<1> QED  BY <1>17, <1>18, <1>19, <1>20


------------------------------------------------------------------------------
(* The invariant. *)

\* The invariant holds initially.
LEMMA WireInit == Init => WireInv
<1> SUFFICES ASSUME Init PROVE WireInv
  OBVIOUS
<1>1. Routed /\ max \in QueueSizes /\ sent \in 0..MAX_SENDS /\ sent = 0
  BY WireAssumption DEF Init, Routed
<1>2. queue = [r \in Routers |-> [n \in Neighbours(links, r) |-> << >>]]
  BY DEF Init
<1>3. \A r \in Routers : queue[r] \in [Neighbours(links, r) -> Seq(Packet)] /\ \A n \in Neighbours(links, r) : queue[r][n] = << >>
  BY <1>2
<1>4. Shape(queue)
  BY <1>2, <1>3 DEF Shape
<1>5. \A r \in Routers : \A n \in Neighbours(links, r) : Len(queue[r][n]) = 0 /\ 1..Len(queue[r][n]) = {}
  BY <1>3
<1>6. Held(queue, 0)
  BY <1>1, <1>5, MaxType DEF Held
<1>7. Ordered(queue)
  BY <1>5 DEF Ordered
<1>8. received = [c \in Pairs |-> << >>]
  BY DEF Init
<1>9. received \in [Pairs -> Seq(UNION {Got(c) : c \in Pairs})] /\ \A c \in Pairs : received[c] \in Seq(Got(c))
  BY <1>8
<1> QED  BY <1>1, <1>4, <1>6, <1>7, <1>9 DEF WireInv, QueuesOK

\* What holds of the queues in terms of a topology that does not change.
LEMMA QueuesNext ==
  ASSUME links' = links, max' = max, routingTable' = routingTable, QueuesOK(queue', sent')
  PROVE  QueuesOK(queue, sent)'
<1>1. Shape(queue)'
  BY DEF QueuesOK, Shape
<1>2. ASSUME NEW p, NEW r, NEW n, Stands(p, r, n, sent') PROVE Stands(p, r, n, sent)'
  BY <1>2 DEF Stands
<1>3. Held(queue, sent)'
  <2>1. Held(queue', sent')
    BY DEF QueuesOK
  <2> SUFFICES ASSUME NEW r \in Routers, NEW n \in Neighbours(links, r)
               PROVE  /\ Len(queue'[r][n]) <= max'
                      /\ \A i \in 1..Len(queue'[r][n]) : Stands(queue[r][n][i], r, n, sent)'
    BY DEF Held
  <2>2. Len(queue'[r][n]) <= max /\ \A i \in 1..Len(queue'[r][n]) : Stands(queue'[r][n][i], r, n, sent')
    BY <2>1 DEF Held
  <2>3. ASSUME NEW i \in 1..Len(queue'[r][n]) PROVE Stands(queue[r][n][i], r, n, sent)'
    BY <2>2 DEF Stands
  <2> QED  BY <2>2, <2>3
<1>4. Ordered(queue)'
  BY DEF QueuesOK, Ordered
<1> QED  BY <1>1, <1>3, <1>4 DEF QueuesOK

\* Every step moves at most one packet.
LEMMA WireMoves == WireInv /\ [Next]_vars => Moved
<1> SUFFICES ASSUME WireInv, [Next]_vars PROVE Moved
  OBVIOUS
<1>1. CASE Next
  <2>1. CASE \E c \in Pairs, m \in Outgoing : send_packet_to_peer(c[1], c[2], m)
    BY <2>1, SendMoves
  <2>2. CASE \E r \in Routers : \E n \in DOMAIN queue[r] : run(r, n)
    BY <2>2, RunMoves
  <2> QED  BY <1>1, <2>1, <2>2 DEF Next
<1>2. CASE UNCHANGED vars
  BY <1>2 DEF vars, Moved, Unseen, WireInv
<1> QED  BY <1>1, <1>2

\* Every step keeps the invariant.
LEMMA WireStep == WireInv /\ [Next]_vars => WireInv'
<1> SUFFICES ASSUME WireInv, [Next]_vars PROVE WireInv'
  OBVIOUS
<1>1. Moved
  BY WireMoves
<1>2. links' = links /\ max' = max /\ routingTable' = routingTable /\ sent' \in 0..MAX_SENDS
  BY <1>1 DEF Moved
<1>3. Routed'
  BY <1>2 DEF WireInv, Routed
<1>4. QueuesOK(queue, sent)'
  BY <1>1, <1>2, QueuesNext DEF Moved
<1> DEFINE All == Seq(UNION {Got(c) : c \in Pairs})
<1>5. received' \in [Pairs -> All] /\ \A c \in Pairs : received'[c] \in Seq(Got(c))
  <2>1. received \in [Pairs -> All] /\ \A c \in Pairs : received[c] \in Seq(Got(c))
    BY DEF WireInv
  <2>2. CASE received' = received
    BY <2>1, <2>2
  <2>3. ASSUME NEW c \in Pairs, NEW k \in Nat, Delivers(c, k)
        PROVE  received' \in [Pairs -> All] /\ \A o \in Pairs : received'[o] \in Seq(Got(o))
    <3>1. PICK a \in Got(c) : received' = [received EXCEPT ![c] = Append(@, a)]
      BY <2>3 DEF Delivers
    <3>2. Append(received[c], a) \in Seq(Got(c))
      BY <2>1
    <3>3. Append(received[c], a) \in All
      <4>1. received[c] \in All /\ a \in UNION {Got(o) : o \in Pairs}
        BY <2>1
      <4> DEFINE U == UNION {Got(o) : o \in Pairs}
      <4> HIDE DEF U
      <4> QED  BY <4>1 DEF U
    <3> HIDE DEF All
    <3>4. received' \in [Pairs -> All]
      BY <2>1, <3>1, <3>3
    <3>5. \A o \in Pairs : received'[o] = IF o = c THEN Append(received[c], a) ELSE received[o]
      BY <2>1, <3>1
    <3> QED  BY <2>1, <3>2, <3>4, <3>5
  <2>4. received' = received \/ \E c \in Pairs, k \in Nat : Delivers(c, k)
    BY <1>1 DEF Moved, Unseen, Sends, Loses
  <2> QED  BY <2>2, <2>3, <2>4
<1>6. max' \in QueueSizes
  BY <1>2 DEF WireInv
<1>7. \A c : Got(c)' = Got(c)
  BY DEF Got, Packet, process_inbound_udp, spiffy_recvfrom
<1> QED  BY <1>2, <1>3, <1>4, <1>5, <1>6, <1>7 DEF WireInv

\* The invariant holds always.
LEMMA WireInvariant == Spec => []WireInv
<1>1. Init => WireInv
  BY WireInit
<1>2. WireInv /\ [Next]_vars => WireInv'
  BY WireStep
<1> QED  BY <1>1, <1>2, PTL DEF Spec

\* The tables createTable computes with Dijkstra's algorithm lead each packet
\* along a shortest path, whatever connected topology topo.map describes.
THEOREM RoutesAreShortest == Spec => []RoutesShortest
<1>1. WireInv => RoutesShortest
  BY RoutedShortest DEF WireInv
<1> QED  BY <1>1, WireInvariant, PTL

\* The queues of hupsim.pl never hold more than max packets, and the tables and
\* queues are defined wherever recv and run look.
THEOREM WireTypeCorrect == Spec => []TypeOK
<1>1. WireInv => TypeOK
  <2> SUFFICES ASSUME WireInv PROVE TypeOK
    OBVIOUS
  <2>1. links \subseteq Links /\ max \in QueueSizes /\ sent \in 0..MAX_SENDS /\ DOMAIN received = Pairs
    BY DEF WireInv, Routed
  <2>2. ASSUME NEW r \in Routers
        PROVE  /\ routingTable[r] \in [Routers \ {r} -> Routers]
               /\ DOMAIN queue[r] = Neighbours(links, r)
               /\ \A n \in DOMAIN queue[r] : Len(queue[r][n]) <= max
    <3>1. routingTable[r] \in [Routers \ {r} -> Routers]
      BY RoutedAt DEF WireInv
    <3>2. DOMAIN queue[r] = Neighbours(links, r)
      BY DEF WireInv, QueuesOK, Shape
    <3>3. \A n \in Neighbours(links, r) : Len(queue[r][n]) <= max
      BY DEF WireInv, QueuesOK, Held
    <3> QED  BY <3>1, <3>2, <3>3
  <2> QED  BY <2>1, <2>2 DEF TypeOK
<1> QED  BY <1>1, WireInvariant, PTL


------------------------------------------------------------------------------
(* The simulator implements LossyFifo. *)

\* The channel of LossyFifo is made of the numbers in the queues.
Channels == [c \in Pairs |-> Ascending(Under(queue, c))]

\* The packets under way, as LossyFifo sees them.
LEMMA UnderWayIs == WireInv => UnderWay = Channels
<1> SUFFICES ASSUME WireInv PROVE UnderWay = Channels
  OBVIOUS
<1>1. Shape(queue)
  BY DEF WireInv, QueuesOK
<1> DEFINE Of(c) == {p.number : p \in {o \in InFlight : o.lSrcAddr = c[1] /\ o.lDestAddr = c[2]}}
<1>2. ASSUME NEW p PROVE p \in InFlight <=> \E r \in Routers : \E n \in Neighbours(links, r) :
                                               \E i \in 1..Len(queue[r][n]) : p = queue[r][n][i]
  <2>1. \A r \in Routers : DOMAIN queue[r] = Neighbours(links, r)
    BY <1>1 DEF Shape
  <2>2. \A r \in Routers : \A n \in Neighbours(links, r) : DOMAIN queue[r][n] = 1..Len(queue[r][n])
    BY <1>1, ShapeAt
  <2>3. \A r \in Routers : \A n \in Neighbours(links, r) :
           p \in Range(queue[r][n]) <=> \E i \in 1..Len(queue[r][n]) : p = queue[r][n][i]
    BY <2>2 DEF Range
  <2>4. p \in InFlight <=> \E r \in Routers : \E n \in DOMAIN queue[r] : p \in Range(queue[r][n])
    BY DEF InFlight
  <2> QED  BY <2>1, <2>3, <2>4
<1>3. ASSUME NEW c \in Pairs PROVE Of(c) = Under(queue, c)
  <2>1. ASSUME NEW k \in Of(c) PROVE k \in Under(queue, c)
    <3>1. PICK p \in InFlight : p.lSrcAddr = c[1] /\ p.lDestAddr = c[2] /\ k = p.number
      BY <2>1
    <3>2. PICK r \in Routers : \E n \in Neighbours(links, r) : \E i \in 1..Len(queue[r][n]) : p = queue[r][n][i]
      BY <1>2
    <3>3. PICK n \in Neighbours(links, r) : \E i \in 1..Len(queue[r][n]) : p = queue[r][n][i]
      BY <3>2
    <3>4. PICK i \in 1..Len(queue[r][n]) : p = queue[r][n][i]
      BY <3>3
    <3>5. k \in Nat
      BY <1>1, <3>1, <3>4, ShapeAt
    <3> QED  BY <3>1, <3>4, <3>5 DEF Under
  <2>2. ASSUME NEW k \in Under(queue, c) PROVE k \in Of(c)
    <3>1. PICK r \in Routers : \E n \in Neighbours(links, r) : \E i \in 1..Len(queue[r][n]) :
             queue[r][n][i].lSrcAddr = c[1] /\ queue[r][n][i].lDestAddr = c[2] /\ queue[r][n][i].number = k
      BY DEF Under
    <3>2. PICK n \in Neighbours(links, r) : \E i \in 1..Len(queue[r][n]) :
             queue[r][n][i].lSrcAddr = c[1] /\ queue[r][n][i].lDestAddr = c[2] /\ queue[r][n][i].number = k
      BY <3>1
    <3>3. PICK i \in 1..Len(queue[r][n]) :
             queue[r][n][i].lSrcAddr = c[1] /\ queue[r][n][i].lDestAddr = c[2] /\ queue[r][n][i].number = k
      BY <3>2
    <3>4. queue[r][n][i] \in InFlight
      BY <1>2
    <3> QED  BY <3>3, <3>4
  <2> QED  BY <2>1, <2>2
<1>4. UnderWay = [c \in Pairs |-> Ascending(Of(c))]
  BY DEF UnderWay
<1> HIDE DEF Of
<1> QED  BY <1>3, <1>4 DEF Channels

\* The mapped state starts empty.
LEMMA FifoInit == Init => Fifo!Init
<1> SUFFICES ASSUME Init PROVE Fifo!Init
  OBVIOUS
<1>1. queue = [r \in Routers |-> [n \in Neighbours(links, r) |-> << >>]] /\ received = [c \in Pairs |-> << >>]
  BY DEF Init
<1>2. UnderWay = Channels
  BY WireInit, UnderWayIs
<1>3. ASSUME NEW c \in Pairs PROVE Under(queue, c) = {}
  <2>1. \A r \in Routers : \A n \in Neighbours(links, r) : 1..Len(queue[r][n]) = {}
    <3>1. \A r \in Routers : \A n \in Neighbours(links, r) : queue[r][n] = << >>
      BY <1>1
    <3> QED  BY <3>1
  <2> QED  BY <2>1 DEF Under
<1>4. UnderWay = [c \in Pairs |-> << >>]
  BY <1>2, <1>3, AscendingEmpty DEF Channels
<1>5. \A c \in Pairs : Numbers(received[c]) = << >>
  BY <1>1 DEF Numbers
<1> QED  BY <1>4, <1>5 DEF Fifo!Init

\* Each step of the simulator is a step of the channel or leaves it as it is.
LEMMA FifoStep ==
  ASSUME WireInv, [Next]_vars
  PROVE  [Fifo!Next]_<<UnderWay, [c \in Pairs |-> Numbers(received[c])]>>
<1> DEFINE chan == UnderWay
           got == [c \in Pairs |-> Numbers(received[c])]
<1>1. Moved /\ WireInv'
  BY WireMoves, WireStep
<1>2. chan = [c \in Pairs |-> Ascending(Under(queue, c))]
  BY UnderWayIs DEF Channels
<1>3. chan' = [c \in Pairs |-> Ascending(Under(queue', c))]
  <2>1. (WireInv => UnderWay = Channels)'
    BY UnderWayIs, PTL
  <2>2. UnderWay' = Channels'
    BY <1>1, <2>1
  <2>3. \A c : Under(queue, c)' = Under(queue', c)
    <3>1. links' = links
      BY <1>1 DEF Moved
    <3> QED  BY <3>1 DEF Under
  <2> QED  BY <2>2, <2>3 DEF Channels
<1>4. \A c \in Pairs : Under(queue, c) \in SUBSET (1..MAX_SENDS)
  <2>1. sent \in Nat /\ sent <= MAX_SENDS /\ QueuesOK(queue, sent)
    BY WireAssumption DEF WireInv
  <2>2. \A c \in Pairs : Under(queue, c) \in SUBSET (1..sent)
    BY <2>1, UnderBound
  <2>3. 1..sent \subseteq 1..MAX_SENDS
    BY <2>1, WireAssumption
  <2> QED  BY <2>2, <2>3
<1>5. MAX_SENDS \in Nat
  BY WireAssumption
<1> HIDE DEF chan
<1>6. received' = received => got' = got
  OBVIOUS
<1>7. CASE Unseen
  <2>1. chan' = chan
    BY <1>2, <1>3, <1>7 DEF Unseen
  <2>2. got' = got
    BY <1>6, <1>7 DEF Unseen
  <2> QED  BY <2>1, <2>2 DEF chan
<1>8. ASSUME NEW c \in Pairs, NEW k \in Nat, Sends(c, k) PROVE Fifo!Next
  <2>1. Ascending(Under(queue', c)) = Append(Ascending(Under(queue, c)), k)
    BY <1>4, <1>5, <1>8, AscendingAppend DEF Sends
  <2>2. chan' = [chan EXCEPT ![c] = Append(@, k)]
    BY <1>2, <1>3, <1>8, <2>1 DEF Sends, Others
  <2>3. got' = got /\ k \in 1..MAX_SENDS
    BY <1>6, <1>8 DEF Sends
  <2>4. Fifo!Send(c, k)
    BY <2>2, <2>3 DEF Fifo!Send, chan
  <2> QED  BY <2>3, <2>4 DEF Fifo!Next
<1>9. ASSUME NEW c \in Pairs, NEW k \in Nat, Loses(c, k) PROVE Fifo!Next
  <2>1. PICK i \in DOMAIN Ascending(Under(queue, c)) :
            Ascending(Under(queue, c) \ {k}) = RemoveAt(Ascending(Under(queue, c)), i)
    BY <1>4, <1>5, <1>9, AscendingRemove DEF Loses
  <2>2. i \in DOMAIN chan[c]
    BY <1>2
  <2>3. chan' = [chan EXCEPT ![c] = RemoveAt(@, i)]
    BY <1>2, <1>3, <1>9, <2>1 DEF Loses, Others
  <2>4. got' = got
    BY <1>6, <1>9 DEF Loses
  <2>5. Fifo!Lose(c)
    BY <2>2, <2>3, <2>4 DEF Fifo!Lose, Fifo!RemoveAt, RemoveAt, chan
  <2> QED  BY <2>5 DEF Fifo!Next
<1>10. ASSUME NEW c \in Pairs, NEW k \in Nat, Delivers(c, k) PROVE Fifo!Next
  <2> DEFINE K == Under(queue, c)
  <2>1. Ascending(K) # << >> /\ Head(Ascending(K)) = k /\ Ascending(K \ {k}) = Tail(Ascending(K))
    BY <1>4, <1>5, <1>10, AscendingTail DEF Delivers
  <2>2. chan[c] = Ascending(K)
    BY <1>2
  <2>3. chan' = [chan EXCEPT ![c] = Tail(@)]
    BY <1>2, <1>3, <1>10, <2>1 DEF Delivers, Others
  <2>4. chan[c] # << >> /\ Head(chan[c]) = k
    BY <2>1, <2>2
  <2>5. PICK a \in Got(c) : a.number = k /\ received' = [received EXCEPT ![c] = Append(@, a)]
    BY <1>10 DEF Delivers
  <2>6. received[c] \in Seq(Got(c)) /\ DOMAIN received = Pairs
    BY DEF WireInv
  <2>7. Numbers(Append(received[c], a)) = Append(Numbers(received[c]), k)
    <3> DEFINE s == received[c]
    <3>1. s \in Seq(Got(c)) /\ Len(s) \in Nat /\ DOMAIN s = 1..Len(s)
      BY <2>6
    <3> HIDE DEF s
    <3>2. /\ DOMAIN Append(s, a) = 1..(Len(s) + 1) /\ Append(s, a)[Len(s) + 1] = a
          /\ \A i \in 1..Len(s) : Append(s, a)[i] = s[i]
      BY <3>1
    <3> DEFINE U == {e.number : e \in Got(c)}
               f == Numbers(s)
    <3>3. f \in [1..Len(s) -> U] /\ \A i \in 1..Len(s) : f[i] = s[i].number
      BY <3>1 DEF Numbers
    <3>4. f \in Seq(U) /\ Len(f) = Len(s) /\ k \in U
      BY <2>5, <3>1, <3>3
    <3> HIDE DEF f
    <3>5. /\ Append(f, k) \in Seq(U) /\ Len(Append(f, k)) = Len(s) + 1 /\ Append(f, k)[Len(s) + 1] = k
          /\ \A i \in 1..Len(s) : Append(f, k)[i] = f[i]
      <4> HIDE DEF U
      <4> QED  BY <3>4, AppendProperties
    <3> DEFINE g == Append(f, k)
               h == Numbers(Append(s, a))
    <3>6. h = [i \in 1..(Len(s) + 1) |-> Append(s, a)[i].number]
      BY <3>2 DEF Numbers
    <3>7. ASSUME NEW i \in 1..(Len(s) + 1) PROVE Append(s, a)[i].number = g[i]
      <4>1. CASE i = Len(s) + 1
        BY <2>5, <3>2, <3>5, <4>1
      <4>2. CASE i # Len(s) + 1
        <5>1. i \in 1..Len(s)
          BY <3>1, <4>2
        <5> QED  BY <3>2, <3>3, <3>5, <5>1
      <4> QED  BY <4>1, <4>2
    <3>8. g \in Seq(U) /\ Len(g) = Len(s) + 1
      BY <3>5
    <3> HIDE DEF g, h, U
    <3>9. g = [i \in 1..(Len(s) + 1) |-> g[i]]
      BY <3>8
    <3>10. g = h
      BY <3>6, <3>7, <3>9
    <3> QED  BY <3>10 DEF g, h, f, s
  <2>8. got' = [got EXCEPT ![c] = Append(@, k)]
    <3>1. \A o \in Pairs : received'[o] = IF o = c THEN Append(received[c], a) ELSE received[o]
      BY <2>5, <2>6
    <3> QED  BY <2>7, <3>1
  <2>9. Fifo!Deliver(c)
    BY <2>3, <2>4, <2>8 DEF Fifo!Deliver, chan
  <2> QED  BY <2>9 DEF Fifo!Next
<1> QED  BY <1>1, <1>7, <1>8, <1>9, <1>10 DEF Moved

\* For every pair of peers, every topology, every queue size and any number of
\* packets, spiffy.c and hupsim.pl together are a channel that loses packets but
\* neither duplicates nor reorders them.
THEOREM ChannelsInOrder == Spec => InOrder
<1>1. Init => Fifo!Init
  BY FifoInit
<1>2. WireInv /\ [Next]_vars => [Fifo!Next]_<<UnderWay, [c \in Pairs |-> Numbers(received[c])]>>
  BY FifoStep
<1> QED  BY <1>1, <1>2, WireInvariant, PTL DEF Spec, InOrder, Fifo!Spec


------------------------------------------------------------------------------
(* The packet on the wire and back. *)

\* The payload that is sent of a packet, and how long it is.
Carried(p) == p.packet_len - STANDARD_HEADER_LEN

\* The lengths of a packet that is well formed.
LEMMA PayloadOf ==
  ASSUME NEW p, WellFormed(p)
  PROVE  /\ p.header_len = STANDARD_HEADER_LEN /\ Carried(p) \in Nat
         /\ p.packet_len = STANDARD_HEADER_LEN + Carried(p)
         /\ \E S : serialize_payload(p) \in Seq(S)
         /\ Carried(p) <= Len(serialize_payload(p))
<1> USE DEF STANDARD_HEADER_LEN, HEADER_PAD_LEN, WHOHAS, IHAVE, GET, DATA, ACK, DENIED
<1>1. CASE /\ p.type \in {WHOHAS, IHAVE, GET} /\ p = HashPacket(p.type, p.seq_num, p.hash_list)
           /\ p.hash_list \in Seq(Range(p.hash_list))
  <2> DEFINE hs == p.hash_list
             S == Range(hs) \cup {Len(hs)}
  <2>1. hs \in Seq(Range(hs)) /\ Len(hs) \in Nat
    BY <1>1
  <2>2. p.header_len = 7 /\ p.packet_len = 7 + 1 + Len(hs) /\ p.hash_num = Len(hs)
    BY <1>1 DEF HashPacket
  <2>3. p.type \in HashTypes
    BY <1>1 DEF HashTypes
  <2>4. serialize_payload(p) = <<Len(hs)>> \o hs
    BY <2>2, <2>3 DEF serialize_payload
  <2>5. <<Len(hs)>> \in Seq(S) /\ hs \in Seq(S) /\ Len(<<Len(hs)>>) = 1
    BY <2>1
  <2> HIDE DEF hs, S
  <2>6. <<Len(hs)>> \o hs \in Seq(S) /\ Len(<<Len(hs)>> \o hs) = 1 + Len(hs)
    BY <2>5, ConcatProperties
  <2>7. Carried(p) = 1 + Len(hs)
    BY <2>1, <2>2 DEF Carried
  <2> QED  BY <2>1, <2>2, <2>4, <2>6, <2>7
<1>2. CASE p = DataPacket(p.seq_num, p.data) /\ p.data \in Seq(Range(p.data))
  <2>1. p.type = 3 /\ p.header_len = 7 /\ p.packet_len = 7 + Len(p.data)
    BY <1>2 DEF DataPacket
  <2>2. serialize_payload(p) = p.data
    BY <2>1 DEF serialize_payload, HashTypes
  <2>3. Len(p.data) \in Nat
    BY <1>2
  <2> QED  BY <1>2, <2>1, <2>2, <2>3 DEF Carried
<1>3. CASE p = AckPacket(p.ack_num)
  <2>1. p.type = 4 /\ p.header_len = 7 /\ p.packet_len = 7
    BY <1>3 DEF AckPacket
  <2>2. serialize_payload(p) = << >>
    BY <2>1 DEF serialize_payload, HashTypes
  <2>3. << >> \in Seq({}) /\ Len(<< >>) = 0
    OBVIOUS
  <2> QED  BY <2>1, <2>2, <2>3 DEF Carried
<1>4. CASE p = DeniedPacket(p.hash_num) /\ p.hash_num \in Nat
  <2> DEFINE n == p.hash_num
  <2>1. p.type = 5 /\ p.header_len = 7 /\ p.packet_len = 7 /\ p.hash_list = [i \in 1..n |-> n]
    BY <1>4 DEF DeniedPacket
  <2>2. serialize_payload(p) = <<n>> \o p.hash_list
    BY <2>1 DEF serialize_payload, HashTypes
  <2>3. <<n>> \in Seq(Nat) /\ p.hash_list \in Seq(Nat)
    BY <1>4, <2>1
  <2>4. <<n>> \o p.hash_list \in Seq(Nat)
    BY <2>3, ConcatProperties
  <2> HIDE DEF n
  <2>5. Len(serialize_payload(p)) \in Nat
    BY <2>2, <2>4
  <2> QED  BY <2>1, <2>2, <2>4, <2>5 DEF Carried
<1> QED  BY <1>1, <1>2, <1>3, <1>4 DEF WellFormed

\* A function on 1..n is a sequence.
LEMMA FunctionIsSeq ==
  ASSUME NEW S, NEW n \in Nat, NEW f \in [1..n -> S]
  PROVE  f \in Seq(S) /\ Len(f) = n
OBVIOUS

\* The header and the payload, one behind the other.
LEMMA Serialized ==
  ASSUME NEW p, WellFormed(p)
  PROVE  LET d == serialize_packet(p)
         IN  /\ DOMAIN d = 1..p.packet_len /\ Len(d) = p.packet_len
             /\ \E S : d \in Seq(S)
             /\ d[1] = MAGIC_NUM /\ d[3] = p.type /\ d[6] = p.seq_num /\ d[7] = p.ack_num
             /\ \A i \in 1..Carried(p) : d[7 + i] = serialize_payload(p)[i]
<1> DEFINE h == <<MAGIC_NUM, VER_NUM, p.type, p.header_len, p.packet_len, p.seq_num, p.ack_num>>
           y == serialize_payload(p)
           n == Carried(p)
           a == h \o y
           d == serialize_packet(p)
<1>1. n \in Nat /\ p.packet_len = 7 + n /\ n <= Len(y)
  BY PayloadOf DEF STANDARD_HEADER_LEN
<1>2. PICK T : y \in Seq(T)
  BY PayloadOf
<1> DEFINE S == T \cup {h[i] : i \in 1..7}
<1>3. h \in Seq(S) /\ Len(h) = 7
  <2>1. h \in [1..7 -> {h[i] : i \in 1..7}] /\ Len(h) = 7
    OBVIOUS
  <2> HIDE DEF h
  <2>2. h \in [1..7 -> S]
    BY <2>1
  <2> HIDE DEF S
  <2> QED  BY <2>2, FunctionIsSeq
<1>4. y \in Seq(S) /\ Len(y) \in Nat
  BY <1>2
<1>5. /\ h[1] = MAGIC_NUM /\ h[3] = p.type /\ h[6] = p.seq_num /\ h[7] = p.ack_num
  OBVIOUS
<1> HIDE DEF h, y, n, S
<1>6. a \in Seq(S) /\ Len(a) = 7 + Len(y) /\ \A i \in 1..(7 + Len(y)) : a[i] = IF i <= 7 THEN h[i] ELSE y[i - 7]
  <2>1. /\ a \in Seq(S) /\ Len(a) = Len(h) + Len(y)
        /\ \A i \in 1..(Len(h) + Len(y)) : a[i] = IF i <= Len(h) THEN h[i] ELSE y[i - Len(h)]
    BY <1>3, <1>4, ConcatProperties, Zenon
  <2> QED  BY <1>3, <2>1, Zenon
<1>7. d = SubSeq(a, 1, 7 + n)
  BY <1>1 DEF serialize_packet, h, y
<1> HIDE DEF a, d
<1>8. \A i \in 1..(7 + n) : a[i] \in S /\ i \in 1..(7 + Len(y))
  BY <1>1, <1>4, <1>6
<1>9. /\ d \in Seq(S) /\ Len(d) = 7 + n
      /\ \A i \in 1..(7 + n) : d[i] = a[i]
  <2>1. 1 \in Int /\ 7 + n \in Int
    BY <1>1
  <2>2. /\ SubSeq(a, 1, 7 + n) \in Seq(S)
        /\ Len(SubSeq(a, 1, 7 + n)) = IF 1 <= 7 + n THEN (7 + n) - 1 + 1 ELSE 0
        /\ \A i \in 1..((7 + n) - 1 + 1) : SubSeq(a, 1, 7 + n)[i] = a[1 + i - 1]
    BY <1>8, <2>1, SubSeqProperties
  <2> QED  BY <1>1, <1>7, <2>2
<1>10. /\ d[1] = h[1] /\ d[3] = h[3] /\ d[6] = h[6] /\ d[7] = h[7]
  BY <1>1, <1>4, <1>6, <1>9
<1>11. \A i \in 1..n : d[7 + i] = y[i]
  <2> TAKE i \in 1..n
  <2>1. 7 + i \in 1..(7 + n) /\ 7 + i \in 1..(7 + Len(y)) /\ ~(7 + i <= 7) /\ (7 + i) - 7 = i
    BY <1>1, <1>4
  <2> QED  BY <1>6, <1>9, <2>1
<1>12. DOMAIN d = 1..(7 + n)
  BY <1>9
<1> QED  BY <1>1, <1>5, <1>9, <1>10, <1>11, <1>12 DEF d, n, y

\* Counting the extension ID in the lengths.
LEMMA Lengthened ==
  ASSUME NEW p, WellFormed(p), NEW n
  PROVE  LET q == [p EXCEPT !.header_len = @ + n, !.packet_len = @ + n]
         IN  q.header_len = p.header_len + n /\ q.packet_len = p.packet_len + n
<1>1. CASE p = HashPacket(p.type, p.seq_num, p.hash_list)
  BY <1>1 DEF HashPacket
<1>2. CASE p = DataPacket(p.seq_num, p.data)
  BY <1>2 DEF DataPacket
<1>3. CASE p = AckPacket(p.ack_num)
  BY <1>3 DEF AckPacket
<1>4. CASE p = DeniedPacket(p.hash_num)
  BY <1>4 DEF DeniedPacket
<1> QED  BY <1>1, <1>2, <1>3, <1>4 DEF WellFormed

\* What a message looks like in the receive buffer, of which L cells are the
\* extension ID.
LEMMA Received ==
  ASSUME NEW m \in Outgoing, NEW pkt, pkt.datagram = Datagram(m), NEW g
  PROVE  LET B == spiffy_recvfrom(pkt, g)
             L == Len(m.extension)
         IN  /\ L \in {0, 1} /\ L + 7 + Carried(m.packet) <= BUFLEN
             /\ Carried(m.packet) \in Nat
             /\ B = [i \in 1..BUFLEN |-> B[i]]
             /\ L = 1 => B[1] = m.extension[1] /\ m.extension = <<B[1]>>
             /\ L = 0 => m.extension = << >>
             /\ B[L + 1] = MAGIC_NUM /\ B[L + 2] = m.version /\ B[L + 3] = m.packet.type
             /\ B[L + 4] = 7 + L /\ B[L + 5] = 7 + Carried(m.packet) + L
             /\ B[L + 6] = m.packet.seq_num /\ B[L + 7] = m.packet.ack_num
             /\ \A i \in 1..Carried(m.packet) : B[L + 7 + i] = serialize_payload(m.packet)[i]
<1> DEFINE p == m.packet
           x == m.extension
           L == Len(x)
           n == Carried(p)
           s == serialize_packet(p)
           d == [s EXCEPT ![2] = m.version, ![4] = p.header_len + L, ![5] = p.packet_len + L]
           D == Datagram(m)
           B == spiffy_recvfrom(pkt, g)
<1>1. WellFormed(p) /\ (x = << >> \/ x = <<x[1]>>) /\ L + p.packet_len <= BUFLEN
  BY OutgoingAssumption
<1>2. p.header_len = 7 /\ n \in Nat /\ p.packet_len = 7 + n
  BY <1>1, PayloadOf DEF STANDARD_HEADER_LEN
<1>3. L \in {0, 1} /\ (L = 1 => x = <<x[1]>>) /\ (L = 0 => x = << >>)
  <2>1. CASE x = << >>
    BY <2>1
  <2>2. CASE x = <<x[1]>>
    <3> DEFINE e == x[1]
    <3>1. Len(<<e>>) = 1
      OBVIOUS
    <3>2. x = <<e>>
      BY <2>2
    <3> HIDE DEF e, x
    <3>3. L = 1
      BY <3>1, <3>2
    <3> QED  BY <3>2, <3>3 DEF e
  <2> QED  BY <1>1, <2>1, <2>2
<1>4. D = x \o d
  <2> DEFINE q == [p EXCEPT !.header_len = @ + L, !.packet_len = @ + L]
  <2>1. D = x \o [s EXCEPT ![2] = m.version, ![4] = q.header_len, ![5] = q.packet_len]
    BY DEF Datagram
  <2>2. q.header_len = p.header_len + L /\ q.packet_len = p.packet_len + L
    BY <1>1, Lengthened
  <2> QED  BY <2>1, <2>2
<1>5. /\ DOMAIN s = 1..(7 + n) /\ Len(s) = 7 + n
      /\ s[1] = MAGIC_NUM /\ s[3] = p.type /\ s[6] = p.seq_num /\ s[7] = p.ack_num
      /\ \A i \in 1..n : s[7 + i] = serialize_payload(p)[i]
  BY <1>1, <1>2, Serialized
<1>6. PICK T : s \in Seq(T)
  BY <1>1, Serialized
<1> DEFINE S == T \cup {m.version, p.header_len + L, p.packet_len + L} \cup {x[1]}
<1> HIDE DEF s, p
<1>7. /\ d \in Seq(S) /\ Len(d) = 7 + n
      /\ d[1] = MAGIC_NUM /\ d[2] = m.version /\ d[3] = p.type
      /\ d[4] = 7 + L /\ d[5] = 7 + n + L
      /\ d[6] = s[6] /\ d[7] = s[7]
      /\ \A i \in 1..n : d[7 + i] = s[7 + i]
  <2> HIDE DEF n, L
  <2>1. s \in [1..(7 + n) -> T]
    BY <1>5, <1>6
  <2>2. d \in [1..(7 + n) -> S]
    BY <2>1
  <2>3. /\ d[1] = s[1] /\ d[2] = m.version /\ d[3] = s[3]
        /\ d[4] = p.header_len + L /\ d[5] = p.packet_len + L
        /\ d[6] = s[6] /\ d[7] = s[7]
        /\ \A i \in 1..n : d[7 + i] = s[7 + i]
    BY <1>2, <2>1
  <2> HIDE DEF d, S
  <2>4. d \in Seq(S) /\ Len(d) = 7 + n
    BY <1>2, <2>2
  <2> QED  BY <1>2, <1>5, <2>3, <2>4
<1>8. x \in Seq(S) /\ L \in Nat
  <2>1. CASE x = << >>
    BY <2>1
  <2>2. CASE x = <<x[1]>>
    <3>1. <<x[1]>> \in Seq(S)
      OBVIOUS
    <3> QED  BY <1>3, <2>2, <3>1
  <2> QED  BY <1>1, <2>1, <2>2
<1> HIDE DEF d, S, D, x
<1>9. Len(D) = L + (7 + n) /\ \A i \in 1..(L + (7 + n)) : D[i] = IF i <= L THEN x[i] ELSE d[i - L]
  <2>1. /\ Len(x \o d) = Len(x) + Len(d)
        /\ \A i \in 1..(Len(x) + Len(d)) : (x \o d)[i] = IF i <= Len(x) THEN x[i] ELSE d[i - Len(x)]
    <3>1. x \in Seq(S) /\ d \in Seq(S)
      BY <1>7, <1>8
    <3> QED  BY <3>1, ConcatProperties, Zenon
  <2>2. Len(d) = 7 + n /\ Len(x) = L
    BY <1>7
  <2> QED  BY <1>4, <2>1, <2>2, Zenon
<1>10. B = [i \in 1..BUFLEN |-> IF i <= Len(D) THEN D[i] ELSE g]
  BY DEF spiffy_recvfrom, D
<1> HIDE DEF B, L, n
<1>11. BUFLEN \in Nat /\ L + (7 + n) <= BUFLEN
  BY <1>1, <1>2, PacketsAssumption
<1>12. \A i \in 1..(L + (7 + n)) : B[i] = IF i <= L THEN x[i] ELSE d[i - L]
  BY <1>2, <1>8, <1>9, <1>10, <1>11
<1>13. \A i \in 1..(7 + n) : B[L + i] = d[i]
  <2> TAKE i \in 1..(7 + n)
  <2>1. L + i \in 1..(L + (7 + n)) /\ ~(L + i <= L) /\ (L + i) - L = i
    BY <1>2, <1>8
  <2> QED  BY <1>12, <2>1
<1>14. /\ B[L + 1] = d[1] /\ B[L + 2] = d[2] /\ B[L + 3] = d[3] /\ B[L + 4] = d[4]
       /\ B[L + 5] = d[5] /\ B[L + 6] = d[6] /\ B[L + 7] = d[7]
  BY <1>2, <1>13
<1>15. \A i \in 1..n : B[L + 7 + i] = d[7 + i]
  <2> TAKE i \in 1..n
  <2>1. 7 + i \in 1..(7 + n) /\ L + (7 + i) = L + 7 + i
    BY <1>2, <1>8
  <2> QED  BY <1>13, <2>1
<1>16. L = 1 => B[1] = x[1]
  BY <1>2, <1>12
<1>17. B = [i \in 1..BUFLEN |-> B[i]]
  BY <1>10
<1>18. L = 1 => x = <<B[1]>>
  BY <1>3, <1>16
<1>19. L + 7 + n <= BUFLEN
  BY <1>2, <1>8, <1>11
<1> QED  BY <1>2, <1>3, <1>5, <1>7, <1>14, <1>15, <1>16, <1>17, <1>18, <1>19, ZenonT(30) DEF B, L, n, x, p


\* A piece of the buffer that agrees with a list is the list.
LEMMA SubSeqIs ==
  ASSUME NEW S, NEW s \in Seq(S), NEW b, NEW k \in Nat,
         \A i \in 1..Len(s) : b[i + k] = s[i]
  PROVE  SubSeq(b, k + 1, Len(s) + k) = s
<1> DEFINE w == SubSeq(b, k + 1, Len(s) + k)
<1>1. Len(s) \in Nat /\ s = [i \in 1..Len(s) |-> s[i]] /\ \A i \in 1..Len(s) : s[i] \in S
  OBVIOUS
<1>2. \A i \in (k + 1)..(Len(s) + k) : b[i] \in S
  <2> TAKE i \in (k + 1)..(Len(s) + k)
  <2>1. i - k \in 1..Len(s) /\ (i - k) + k = i
    BY <1>1
  <2> QED  BY <1>1, <2>1
<1>3. k + 1 \in Int /\ Len(s) + k \in Int
  BY <1>1
<1>4. /\ w \in Seq(S) /\ Len(w) = IF k + 1 <= Len(s) + k THEN (Len(s) + k) - (k + 1) + 1 ELSE 0
      /\ \A i \in 1..((Len(s) + k) - (k + 1) + 1) : w[i] = b[(k + 1) + i - 1]
  BY <1>2, <1>3, SubSeqProperties
<1> HIDE DEF w
<1>5. (Len(s) + k) - (k + 1) + 1 = Len(s) /\ Len(w) = Len(s)
  BY <1>1, <1>4
<1>6. ASSUME NEW i \in 1..Len(s) PROVE w[i] = s[i]
  <2>1. w[i] = b[(k + 1) + i - 1]
    BY <1>4, <1>5
  <2>2. (k + 1) + i - 1 = i + k
    BY <1>1
  <2> QED  BY <2>1, <2>2
<1>7. w = [i \in 1..Len(s) |-> w[i]]
  BY <1>4, <1>5
<1>8. w = s
  BY <1>1, <1>6, <1>7
<1> QED  BY <1>8 DEF w

\* A count in front of hashes.
LEMMA HashPayload ==
  ASSUME NEW S, NEW s \in Seq(S)
  PROVE  (<<Len(s)>> \o s)[1] = Len(s) /\ \A i \in 1..Len(s) : (<<Len(s)>> \o s)[i + 1] = s[i]
<1> DEFINE a == <<Len(s)>>
           T == S \cup {Len(s)}
<1>1. a \in Seq(T) /\ Len(a) = 1 /\ a[1] = Len(s) /\ s \in Seq(T) /\ Len(s) \in Nat
  OBVIOUS
<1> HIDE DEF a, T
<1>2. \A i \in 1..(1 + Len(s)) : (a \o s)[i] = IF i <= 1 THEN a[i] ELSE s[i - 1]
  <2>1. \A i \in 1..(Len(a) + Len(s)) : (a \o s)[i] = IF i <= Len(a) THEN a[i] ELSE s[i - Len(a)]
    BY <1>1, ConcatProperties, Zenon
  <2> QED  BY <1>1, <2>1, Zenon
<1>3. (a \o s)[1] = Len(s)
  BY <1>1, <1>2
<1>4. ASSUME NEW i \in 1..Len(s) PROVE (a \o s)[i + 1] = s[i]
  <2>1. i + 1 \in 1..(1 + Len(s)) /\ ~(i + 1 <= 1) /\ (i + 1) - 1 = i
    BY <1>1
  <2> QED  BY <1>2, <2>1
<1> QED  BY <1>3, <1>4 DEF a

\* A packet of hashes reads back.
LEMMA HashCarried ==
  ASSUME NEW p, p.type \in {WHOHAS, IHAVE, GET}, p = HashPacket(p.type, p.seq_num, p.hash_list),
         p.hash_list \in Seq(Range(p.hash_list))
  PROVE  /\ Carried(p) = 1 + Len(p.hash_list) /\ Len(p.hash_list) \in Nat
         /\ serialize_payload(p) = <<Len(p.hash_list)>> \o p.hash_list
         /\ p.type \in HashTypes /\ p.type # DATA
<1>1. p.packet_len = 7 + 1 + Len(p.hash_list) /\ p.hash_num = Len(p.hash_list)
  BY DEF HashPacket, STANDARD_HEADER_LEN, HEADER_PAD_LEN
<1>2. p.type \in HashTypes /\ p.type # DATA
  BY DEF HashTypes, WHOHAS, IHAVE, GET, DATA
<1>3. Len(p.hash_list) \in Nat
  OBVIOUS
<1>4. serialize_payload(p) = <<Len(p.hash_list)>> \o p.hash_list
  BY <1>1, <1>2 DEF serialize_payload
<1> QED  BY <1>1, <1>2, <1>3, <1>4 DEF Carried, STANDARD_HEADER_LEN

\* A DATA packet reads back.
LEMMA DataCarried ==
  ASSUME NEW p, p = DataPacket(p.seq_num, p.data), p.data \in Seq(Range(p.data))
  PROVE  /\ Carried(p) = Len(p.data) /\ Len(p.data) \in Nat
         /\ serialize_payload(p) = p.data /\ p.type = DATA
<1>1. p.type = DATA /\ p.packet_len = 7 + Len(p.data)
  BY DEF DataPacket, STANDARD_HEADER_LEN
<1>2. Len(p.data) \in Nat
  OBVIOUS
<1>3. serialize_payload(p) = p.data
  BY <1>1 DEF serialize_payload, HashTypes, WHOHAS, IHAVE, GET, DATA, DENIED, ACK
<1> QED  BY <1>1, <1>2, <1>3 DEF Carried, STANDARD_HEADER_LEN


\* What deserialize_packet makes of a message it understands.
LEMMA Deserialized ==
  ASSUME NEW m \in Outgoing, NEW pkt, pkt.datagram = Datagram(m), NEW g
  PROVE  LET got == deserialize_packet(spiffy_recvfrom(pkt, g))
         IN  IF Understood(m) THEN got # Null /\ Used(got) = Used(m.packet) ELSE got = Null
<1> DEFINE B == spiffy_recvfrom(pkt, g)
           p == m.packet
           L == Len(m.extension)
           n == Carried(p)
           y == serialize_payload(p)
           at == HeaderAt(B)
           got == deserialize_packet(B)
<1>1. /\ L \in {0, 1} /\ L + 7 + n <= BUFLEN /\ n \in Nat /\ B = [i \in 1..BUFLEN |-> B[i]]
      /\ L = 1 => B[1] = m.extension[1] /\ m.extension = <<B[1]>>
      /\ L = 0 => m.extension = << >>
      /\ B[L + 1] = MAGIC_NUM /\ B[L + 2] = m.version /\ B[L + 3] = p.type
      /\ B[L + 4] = 7 + L /\ B[L + 5] = 7 + n + L
      /\ B[L + 6] = p.seq_num /\ B[L + 7] = p.ack_num
      /\ \A i \in 1..n : B[L + 7 + i] = y[i]
  BY Received
<1>2. WellFormed(p)
  BY OutgoingAssumption
<1>3. MAGIC_NUM # VER_NUM /\ BUFLEN \in Nat
  BY PacketsAssumption
<1> DEFINE h == [type |-> B[at + 2], header_len |-> B[at + 3], packet_len |-> B[at + 4],
                 seq_num |-> B[at + 5], ack_num |-> B[at + 6]]
           pl == deserialize_payload(h, Payload(h, B))
           res == [type |-> h.type, header_len |-> h.header_len, packet_len |-> h.packet_len,
                   seq_num |-> h.seq_num, ack_num |-> h.ack_num,
                   hash_num |-> pl.hash_num, hash_list |-> pl.hash_list, data |-> pl.data]
<1>4. got = IF B[at] # MAGIC_NUM \/ B[at + 1] # VER_NUM THEN Null ELSE res
  BY Zenon DEF deserialize_packet
<1>5. at = IF B[1] = MAGIC_NUM THEN 1 ELSE 2
  BY DEF HeaderAt
<1>6. m.extension = <<MAGIC_NUM>> <=> L = 1 /\ B[1] = MAGIC_NUM
  <2>1. Len(<<MAGIC_NUM>>) = 1 /\ <<MAGIC_NUM>>[1] = MAGIC_NUM
    OBVIOUS
  <2>2. ASSUME m.extension = <<MAGIC_NUM>> PROVE L = 1 /\ B[1] = MAGIC_NUM
    <3>1. L = 1 /\ m.extension[1] = MAGIC_NUM
      BY <2>1, <2>2
    <3> HIDE DEF L, B
    <3> QED  BY <1>1, <3>1
  <2>3. ASSUME L = 1, B[1] = MAGIC_NUM PROVE m.extension = <<MAGIC_NUM>>
    <3>1. m.extension = <<B[1]>>
      BY <1>1, <2>3
    <3> QED  BY <2>3, <3>1
  <2> QED  BY <2>2, <2>3
<1> HIDE DEF B, L, n, at, p, y
<1>7. CASE m.extension = <<MAGIC_NUM>>
  <2>1. at = 1 /\ B[2] = MAGIC_NUM
    BY <1>1, <1>5, <1>6, <1>7
  <2>2. B[at + 1] # VER_NUM
    BY <1>3, <2>1
  <2>3. got = Null /\ ~Understood(m)
    <3> HIDE DEF got, res
    <3> QED  BY <1>4, <1>7, <2>2 DEF Understood
  <2> QED  BY <2>3 DEF B
<1>8. CASE m.extension # <<MAGIC_NUM>>
  <2>1. at = L + 1
    <3>1. CASE L = 0
      BY <1>1, <1>5, <3>1
    <3>2. CASE L = 1
      BY <1>1, <1>5, <1>6, <1>8, <3>2
    <3> QED  BY <1>1, <3>1, <3>2
  <2>2. /\ at = L + 1 /\ at + 1 = L + 2 /\ at + 2 = L + 3 /\ at + 3 = L + 4
        /\ at + 4 = L + 5 /\ at + 5 = L + 6 /\ at + 6 = L + 7
    BY <1>1, <2>1
  <2>3. /\ B[at] = MAGIC_NUM /\ B[at + 1] = m.version /\ B[at + 2] = p.type /\ B[at + 3] = 7 + L
        /\ B[at + 4] = 7 + n + L /\ B[at + 5] = p.seq_num /\ B[at + 6] = p.ack_num
    BY <1>1, <2>2
  <2>4. CASE m.version # VER_NUM
    <3>1. got = Null /\ ~Understood(m)
      <4> HIDE DEF got, res
      <4> QED  BY <1>4, <2>3, <2>4 DEF Understood
    <3> QED  BY <3>1 DEF B
  <2>5. CASE m.version = VER_NUM
    <3>1. Understood(m) /\ got = res
      <4> HIDE DEF got, res
      <4> QED  BY <1>4, <1>8, <2>3, <2>5 DEF Understood
    <3>2. /\ h.type = p.type /\ h.header_len = 7 + L /\ h.packet_len = 7 + n + L
          /\ h.seq_num = p.seq_num /\ h.ack_num = p.ack_num
      BY <2>3
    <3> HIDE DEF h
    <3> DEFINE b == Payload(h, B)
    <3>3. b = SubSeq(B, 7 + L + 1, BUFLEN)
      BY <3>2 DEF Payload
    <3> DEFINE T == {B[i] : i \in 1..BUFLEN}
    <3>4. /\ b \in Seq(T) /\ Len(b) = BUFLEN - (7 + L)
          /\ \A i \in 1..(BUFLEN - (7 + L)) : b[i] = B[L + 7 + i]
      <4>1. 7 + L + 1 \in Int /\ BUFLEN \in Int /\ \A i \in (7 + L + 1)..BUFLEN : B[i] \in T
        BY <1>1, <1>3
      <4> HIDE DEF T, b
      <4>2. /\ b \in Seq(T)
            /\ Len(b) = IF 7 + L + 1 <= BUFLEN THEN BUFLEN - (7 + L + 1) + 1 ELSE 0
            /\ \A i \in 1..(BUFLEN - (7 + L + 1) + 1) : b[i] = B[7 + L + 1 + i - 1]
        <5>1. /\ SubSeq(B, 7 + L + 1, BUFLEN) \in Seq(T)
              /\ Len(SubSeq(B, 7 + L + 1, BUFLEN)) =
                    IF 7 + L + 1 <= BUFLEN THEN BUFLEN - (7 + L + 1) + 1 ELSE 0
              /\ \A i \in 1..(BUFLEN - (7 + L + 1) + 1) :
                    SubSeq(B, 7 + L + 1, BUFLEN)[i] = B[7 + L + 1 + i - 1]
          BY <4>1, SubSeqProperties
        <5> QED  BY <3>3, <5>1, Zenon
      <4>3. BUFLEN - (7 + L + 1) + 1 = BUFLEN - (7 + L)
        BY <1>1, <1>3
      <4>4. \A i \in Nat : 7 + L + 1 + i - 1 = L + 7 + i
        BY <1>1
      <4>5. Len(b) = BUFLEN - (7 + L)
        BY <1>1, <1>3, <4>2
      <4>6. ASSUME NEW i \in 1..(BUFLEN - (7 + L)) PROVE b[i] = B[L + 7 + i]
        <5>1. b[i] = B[7 + L + 1 + i - 1]
          BY <4>2, <4>3
        <5>2. i \in Nat
          OBVIOUS
        <5> QED  BY <4>4, <5>1, <5>2
      <4> QED  BY <4>2, <4>5, <4>6
    <3>5. \A i \in 1..n : i \in 1..(BUFLEN - (7 + L)) /\ b[i] = y[i]
      <4> HIDE DEF b
      <4> TAKE i \in 1..n
      <4>1. i \in 1..(BUFLEN - (7 + L))
        BY <1>1, <1>3
      <4>2. b[i] = B[L + 7 + i]
        BY <3>4, <4>1
      <4>3. B[L + 7 + i] = y[i]
        BY <1>1
      <4> QED  BY <4>1, <4>2, <4>3
    <3>6. Used(res) = Used(p)
      <4> HIDE DEF b, T
      <4>1. /\ res.type = p.type /\ res.seq_num = p.seq_num /\ res.ack_num = p.ack_num
            /\ res.hash_list = pl.hash_list /\ res.data = pl.data
        BY <3>2
      <4>2. pl = deserialize_payload(h, b)
        BY DEF b
      <4> HIDE DEF pl, res
      <4> SUFFICES /\ p.type \in {WHOHAS, IHAVE, GET} => pl.hash_list = p.hash_list
                   /\ p.type = DATA => pl.data = p.data
        BY <4>1 DEF Used
      <4>3. CASE /\ p.type \in {WHOHAS, IHAVE, GET} /\ p = HashPacket(p.type, p.seq_num, p.hash_list)
                 /\ p.hash_list \in Seq(Range(p.hash_list))
        <5> DEFINE hs == p.hash_list
                   R == Range(hs)
        <5>1. n = 1 + Len(hs) /\ y = <<Len(hs)>> \o hs /\ hs \in Seq(R) /\ Len(hs) \in Nat
              /\ h.type \in HashTypes /\ p.type # DATA
          BY <3>2, <4>3, HashCarried DEF n, y
        <5> HIDE DEF hs, R
        <5>2. y[1] = Len(hs) /\ \A i \in 1..Len(hs) : y[i + 1] = hs[i]
          BY <5>1, HashPayload
        <5>3. b[1] = Len(hs) /\ \A i \in 1..Len(hs) : b[i + 1] = hs[i]
          <6>1. 1 \in 1..n /\ \A i \in 1..Len(hs) : i + 1 \in 1..n
            BY <5>1
          <6> QED  BY <3>5, <5>2, <6>1
        <5>4. pl.hash_list = SubSeq(b, 2, Len(hs) + 1)
          BY <4>2, <5>1, <5>3 DEF deserialize_payload
        <5>5. SubSeq(b, 2, Len(hs) + 1) = hs
          BY <5>1, <5>3, SubSeqIs
        <5> QED  BY <5>1, <5>4, <5>5 DEF hs, WHOHAS, IHAVE, GET, DATA
      <4>4. CASE p = DataPacket(p.seq_num, p.data) /\ p.data \in Seq(Range(p.data))
        <5> DEFINE ds == p.data
                   R == Range(ds)
        <5>1. n = Len(ds) /\ y = ds /\ ds \in Seq(R) /\ Len(ds) \in Nat /\ p.type = DATA
          BY <4>4, DataCarried DEF n, y
        <5> HIDE DEF ds, R
        <5>2. h.type = DATA /\ h.packet_len - h.header_len = Len(ds)
          BY <1>1, <3>2, <5>1
        <5>3. pl.data = SubSeq(b, 1, Len(ds))
          <6>1. h.type \notin HashTypes /\ h.type # ACK
            BY <5>2 DEF DATA, HashTypes, WHOHAS, IHAVE, GET, DENIED, ACK
          <6> QED  BY <4>2, <5>2, <6>1 DEF deserialize_payload
        <5>4. \A i \in 1..Len(ds) : b[i] = ds[i]
          BY <3>5, <5>1
        <5>5. SubSeq(b, 1, Len(ds)) = ds
          BY <5>1, <5>4, SubSeqIs
        <5> QED  BY <5>1, <5>3, <5>5 DEF ds, WHOHAS, IHAVE, GET, DATA
      <4>5. CASE p = AckPacket(p.ack_num)
        <5>1. p.type = ACK
          BY <4>5 DEF AckPacket
        <5> QED  BY <5>1 DEF WHOHAS, IHAVE, GET, DATA, ACK
      <4>6. CASE p = DeniedPacket(p.hash_num)
        <5>1. p.type = DENIED
          BY <4>6 DEF DeniedPacket
        <5> QED  BY <5>1 DEF WHOHAS, IHAVE, GET, DATA, DENIED
      <4> QED  BY <1>2, <4>3, <4>4, <4>5, <4>6 DEF WellFormed
    <3>7. res # Null
      <4>1. "type" \in DOMAIN res
        OBVIOUS
      <4>2. DOMAIN Null = {}
        BY DEF Null
      <4> QED  BY <4>1, <4>2
    <3> QED  BY <3>1, <3>6, <3>7 DEF B, p
  <2> QED  BY <2>4, <2>5
<1> QED  BY <1>7, <1>8


\* What process_inbound_udp finds in the receive buffer is what was sent and whom
\* it was sent by, for every packet a peer may send and whatever the memory behind
\* the datagram holds; what it cannot understand is dropped.
THEOREM PeersReadBack == Spec => []ReadsBack
<1>1. WireInv => ReadsBack
  <2> SUFFICES ASSUME WireInv, NEW c \in Pairs, NEW i \in DOMAIN received[c]
               PROVE  LET got == received[c][i]
                      IN  /\ got.from = c[1]
                          /\ IF Understood(got.message)
                               THEN got.packet # Null /\ Used(got.packet) = Used(got.message.packet)
                               ELSE got.packet = Null
    BY DEF ReadsBack
  <2>1. received[c] \in Seq(Got(c))
    BY DEF WireInv
  <2>2. received[c][i] \in Got(c)
    BY <2>1
  <2> DEFINE T == {p \in Packet : p.lSrcAddr = c[1] /\ p.lDestAddr = c[2]} \X Garbage
  <2>3. PICK t \in T : received[c][i] = process_inbound_udp(t[1], t[2])
    BY <2>2 DEF Got
  <2> DEFINE pkt == t[1]
             g == t[2]
             got == received[c][i]
  <2>4. pkt \in Packet /\ pkt.lSrcAddr = c[1]
    BY <2>3
  <2>5. /\ got.from = pkt.lSrcAddr /\ got.message = pkt.message
        /\ got.packet = deserialize_packet(spiffy_recvfrom(pkt, g))
    BY <2>3 DEF process_inbound_udp
  <2> HIDE DEF pkt, g, got
  <2>6. pkt.message \in Outgoing /\ pkt.datagram = Datagram(pkt.message)
    BY <2>4, PacketFields
  <2> DEFINE m == pkt.message
  <2>7. LET p == deserialize_packet(spiffy_recvfrom(pkt, g))
        IN  IF Understood(m) THEN p # Null /\ Used(p) = Used(m.packet) ELSE p = Null
    BY <2>6, Deserialized
  <2>8. /\ got.from = c[1]
        /\ IF Understood(got.message)
             THEN got.packet # Null /\ Used(got.packet) = Used(got.message.packet)
             ELSE got.packet = Null
    BY <2>4, <2>5, <2>7
  <2> QED  BY <2>8 DEF got
<1> QED  BY <1>1, WireInvariant, PTL
==============================================================================
