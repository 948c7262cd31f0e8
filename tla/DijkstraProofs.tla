--------------------------- MODULE DijkstraProofs ---------------------------
(***************************************************************************)
(* dijkstra finds shortest paths in every graph whose edges cost nothing   *)
(* or more: the proofs. Where a statement is about all positions of a path *)
(* the least position for which it fails is taken (LeastNumber).           *)
(***************************************************************************)
EXTENDS DijkstraInv, Lemmas


\* A walk along edges.
Way(g, p) ==
  /\ p \in Seq(Vertices) /\ p # <<>>
  /\ \A i \in Edges(p) : g[p[i]][p[i + 1]] # None

-----------------------------------------------------------------------------
(* Sums along a walk.                                                      *)

\* The length of a path is the last of its sums.
LEMMA LengthOfWay ==
  ASSUME NEW g \in Graphs, NEW p, Way(g, p)
  PROVE  /\ Len(p) \in Nat \ {0}
         /\ \A i \in 1 .. Len(p) : p[i] \in Vertices
         /\ \A i \in Edges(p) : i \in 1 .. Len(p) /\ i + 1 \in 1 .. Len(p) /\ g[p[i]][p[i + 1]] \in Nat
         /\ \E f \in [1 .. Len(p) -> Nat] :
              /\ f[1] = 0
              /\ \A i \in Edges(p) : f[i + 1] = f[i] + g[p[i]][p[i + 1]]
              /\ Length(g, p) = f[Len(p)]
<1>1. Len(p) \in Nat \ {0} /\ \A i \in 1 .. Len(p) : p[i] \in Vertices
  BY EmptySeq, LenProperties, ElementOfSeq DEF Way
<1>2. \A i \in Edges(p) : i \in 1 .. Len(p) /\ i + 1 \in 1 .. Len(p)
  BY <1>1 DEF Edges
<1>3. \A i \in Edges(p) : g[p[i]][p[i + 1]] \in Nat
  BY <1>1, <1>2 DEF Way, Graphs
<1> DEFINE w == [i \in Edges(p) |-> g[p[i]][p[i + 1]]]
           S(f) == f = [n \in 1 .. Len(p) |-> IF n = 1 THEN 0 ELSE f[n - 1] + g[p[n - 1]][p[n]]]
           F == CHOOSE f : S(f)
<1>4. \E f : S(f)
  <2>1. PICK f : Sums(f, w, Len(p))
    BY <1>1, SumsExist
  <2>2. ASSUME NEW n \in 1 .. Len(p), n # 1 PROVE w[n - 1] = g[p[n - 1]][p[n]]
    <3>1. n - 1 \in Edges(p) /\ n = (n - 1) + 1
      BY <1>1, <2>2 DEF Edges
    <3> QED
      BY <3>1
  <2>3. S(f)
    BY <2>1, <2>2 DEF Sums
  <2> QED
    BY <2>3
<1>5. S(F)
  BY <1>4
<1>6. Length(g, p) = F[Len(p)]
  BY DEF Length
<1> HIDE DEF F
<1>7. F[1] = 0 /\ \A i \in Edges(p) : F[i + 1] = F[i] + g[p[i]][p[i + 1]]
  <2>1. \A n \in 1 .. Len(p) : F[n] = IF n = 1 THEN 0 ELSE F[n - 1] + g[p[n - 1]][p[n]]
    BY <1>5, Zenon
  <2>2. \A i \in Edges(p) : i + 1 # 1 /\ (i + 1) - 1 = i
    BY <1>1 DEF Edges
  <2>3. 1 \in 1 .. Len(p)
    BY <1>1
  <2> QED
    BY <1>2, <2>1, <2>2, <2>3
<1>8. \A n \in 1 .. Len(p) : F[n] \in Nat
  <2> DEFINE T == {n \in 1 .. Len(p) : F[n] \in Nat}
  <2>1. 1 \in T
    BY <1>1, <1>7
  <2>2. ASSUME NEW n \in 1 .. Len(p) - 1, n \in T PROVE n + 1 \in T
    <3>1. n \in Edges(p)
      BY DEF Edges
    <3> QED
      BY <1>2, <1>3, <1>7, <2>2, <3>1
  <2> HIDE DEF T
  <2>3. 1 .. Len(p) \subseteq T
    BY <1>1, <2>1, <2>2, AllUpTo
  <2> QED
    BY <2>3 DEF T
<1>9. F \in [1 .. Len(p) -> Nat]
  <2>1. F = [n \in 1 .. Len(p) |-> F[n]]
    BY <1>5
  <2> QED
    BY <1>8, <2>1
<1> QED
  BY <1>1, <1>2, <1>3, <1>6, <1>7, <1>9

LEMMA LengthIsNat ==
  ASSUME NEW g \in Graphs, NEW p, Way(g, p)
  PROVE  Length(g, p) \in Nat
<1>1. Len(p) \in 1 .. Len(p)
  BY LengthOfWay
<1> QED
  BY <1>1, LengthOfWay

\* Two sums that start K apart and grow alike stay K apart.
LEMMA SumsApart ==
  ASSUME NEW L \in Nat \ {0}, NEW f \in [1 .. L -> Nat], NEW h \in [1 .. L -> Nat], NEW K \in Nat,
         f[1] = h[1] + K,
         \A i \in 1 .. L - 1 : f[i + 1] - f[i] = h[i + 1] - h[i]
  PROVE  f[L] = h[L] + K
<1> DEFINE T == {n \in 1 .. L : f[n] = h[n] + K}
<1>1. 1 \in T
  OBVIOUS
<1>2. ASSUME NEW n \in 1 .. L - 1, n \in T PROVE n + 1 \in T
  <2>1. n \in 1 .. L /\ n + 1 \in 1 .. L
    OBVIOUS
  <2>2. f[n] \in Nat /\ h[n] \in Nat /\ f[n + 1] \in Nat /\ h[n + 1] \in Nat
    BY <2>1
  <2>3. f[n] = h[n] + K /\ f[n + 1] - f[n] = h[n + 1] - h[n]
    BY <1>2
  <2> DEFINE a == f[n]
             b == h[n]
             c == f[n + 1]
             d == h[n + 1]
  <2>4. a \in Nat /\ b \in Nat /\ c \in Nat /\ d \in Nat /\ a = b + K /\ c - a = d - b
    BY <2>2, <2>3
  <2> HIDE DEF a, b, c, d
  <2>5. c = d + K
    BY <2>4
  <2> QED
    BY <2>1, <2>5 DEF c, d
<1> HIDE DEF T
<1>3. 1 .. L \subseteq T
  BY <1>1, <1>2, AllUpTo
<1>4. L \in 1 .. L
  OBVIOUS
<1>5. L \in T
  BY <1>3, <1>4
<1> QED
  BY <1>5 DEF T

LEMMA LengthOfSingle ==
  ASSUME NEW g \in Graphs, NEW v \in Vertices
  PROVE  Way(g, <<v>>) /\ Length(g, <<v>>) = 0
<1>1. <<v>> \in Seq(Vertices) /\ <<v>> # <<>> /\ Len(<<v>>) = 1
  OBVIOUS
<1>2. Edges(<<v>>) = {}
  BY <1>1 DEF Edges
<1>3. Way(g, <<v>>)
  BY <1>1, <1>2 DEF Way
<1> QED
  BY <1>1, <1>3, LengthOfWay

LEMMA LengthOfAppend ==
  ASSUME NEW g \in Graphs, NEW p, Way(g, p), NEW v \in Vertices, g[p[Len(p)]][v] # None
  PROVE  /\ Way(g, Append(p, v))
         /\ Length(g, Append(p, v)) = Length(g, p) + g[p[Len(p)]][v]
<1> DEFINE q == Append(p, v)
           L == Len(p)
<1>1. p \in Seq(Vertices) /\ L \in Nat \ {0}
  BY LengthOfWay DEF Way
<1>2. /\ q \in Seq(Vertices) /\ q # <<>> /\ Len(q) = L + 1
      /\ \A i \in 1 .. L : q[i] = p[i]
      /\ q[L + 1] = v
  BY <1>1, AppendResult
<1> HIDE DEF q
<1>3. \A i \in 1 .. L - 1 : i \in Edges(p) /\ i \in Edges(q) /\ q[i] = p[i] /\ q[i + 1] = p[i + 1]
  BY <1>1, <1>2 DEF Edges
<1>4. Edges(q) = 1 .. L /\ L \in Edges(q) /\ q[L] = p[L] /\ \A i \in 1 .. L : i \in 1 .. L - 1 \/ i = L
  BY <1>1, <1>2 DEF Edges
<1>5. Way(g, q)
  BY <1>2, <1>3, <1>4 DEF Way
<1>6. PICK f \in [1 .. L -> Nat] :
        /\ f[1] = 0
        /\ \A i \in Edges(p) : f[i + 1] = f[i] + g[p[i]][p[i + 1]]
        /\ Length(g, p) = f[L]
  BY LengthOfWay
<1>7. PICK h \in [1 .. L + 1 -> Nat] :
        /\ h[1] = 0
        /\ \A i \in Edges(q) : h[i + 1] = h[i] + g[q[i]][q[i + 1]]
        /\ Length(g, q) = h[L + 1]
  BY <1>2, <1>5, LengthOfWay
<1> DEFINE H == [i \in 1 .. L |-> h[i]]
<1>8. H[L] = f[L] + 0
  <2>1. H \in [1 .. L -> Nat] /\ H[1] = f[1] + 0
    BY <1>1, <1>6, <1>7
  <2>2. ASSUME NEW i \in 1 .. L - 1
        PROVE  H[i + 1] - H[i] = f[i + 1] - f[i]
    <3>1. i \in 1 .. L /\ i + 1 \in 1 .. L /\ i \in Edges(p) /\ i \in Edges(q)
      BY <1>1, <1>3
    <3>2. g[p[i]][p[i + 1]] \in Nat
      BY <3>1, LengthOfWay
    <3>3. f[i + 1] = f[i] + g[p[i]][p[i + 1]] /\ H[i + 1] = H[i] + g[p[i]][p[i + 1]]
      BY <1>3, <1>6, <1>7, <3>1
    <3>4. f[i] \in Nat /\ H[i] \in Nat
      BY <1>6, <2>1, <3>1
    <3> QED
      BY <3>2, <3>3, <3>4, SMTT(30)
  <2> HIDE DEF H, L
  <2> QED
    BY <1>1, <1>6, <2>1, <2>2, SumsApart
<1>9. h[L] = f[L]
  BY <1>1, <1>6, <1>8
<1>10. h[L + 1] = h[L] + g[p[L]][v]
  BY <1>2, <1>4, <1>7
<1> QED
  BY <1>5, <1>6, <1>7, <1>9, <1>10 DEF q

LEMMA LengthOfTail ==
  ASSUME NEW g \in Graphs, NEW p, Way(g, p), Len(p) >= 2
  PROVE  /\ Way(g, Tail(p))
         /\ Len(Tail(p)) = Len(p) - 1
         /\ \A i \in 1 .. Len(p) - 1 : Tail(p)[i] = p[i + 1]
         /\ Length(g, p) = Length(g, Tail(p)) + g[p[1]][p[2]]
<1> DEFINE q == Tail(p)
           L == Len(p) - 1
<1>1. p \in Seq(Vertices) /\ p # <<>> /\ Len(p) \in Nat
  BY LengthOfWay DEF Way
<1>2. L \in Nat \ {0} /\ Len(p) = L + 1
  <2>1. \A k \in Nat : k >= 2 => k - 1 \in Nat \ {0} /\ k = (k - 1) + 1
    OBVIOUS
  <2> QED
    BY <1>1, <2>1
<1>3. q \in Seq(Vertices) /\ Len(q) = L /\ \A i \in 1 .. L : q[i] = p[i + 1]
  BY <1>1, <1>2, TailResult
<1> HIDE DEF q, L
<1>4. q # <<>>
  BY <1>2, <1>3, EmptySeq
<1>5. Edges(q) = 1 .. L - 1 /\ Edges(p) = 1 .. L
  BY <1>2, <1>3 DEF Edges
<1>6. \A i \in 1 .. L - 1 : i \in 1 .. L /\ i + 1 \in 1 .. L
  BY <1>2
<1>7. Way(g, q)
  BY <1>3, <1>4, <1>5, <1>6 DEF Way
<1>8. PICK f \in [1 .. L + 1 -> Nat] :
        /\ f[1] = 0
        /\ \A i \in Edges(p) : f[i + 1] = f[i] + g[p[i]][p[i + 1]]
        /\ Length(g, p) = f[L + 1]
  BY <1>2, LengthOfWay, SMTT(30)
<1>9. PICK h \in [1 .. L -> Nat] :
        /\ h[1] = 0
        /\ \A i \in Edges(q) : h[i + 1] = h[i] + g[q[i]][q[i + 1]]
        /\ Length(g, q) = h[L]
  BY <1>3, <1>7, LengthOfWay
<1> DEFINE F == [i \in 1 .. L |-> f[i + 1]]
           K == g[p[1]][p[2]]
<1>10. K \in Nat /\ f[2] = f[1] + K
  <2>1. 1 \in Edges(p) /\ 1 + 1 = 2
    BY <1>2, <1>5
  <2>2. g[p[1]][p[1 + 1]] \in Nat /\ f[1 + 1] = f[1] + g[p[1]][p[1 + 1]]
    BY <1>8, <2>1, LengthOfWay
  <2> QED
    BY <2>1, <2>2
<1> HIDE DEF K
<1>11. F[L] = h[L] + K
  <2>1. F \in [1 .. L -> Nat] /\ F[1] = h[1] + K
    BY <1>2, <1>8, <1>9, <1>10
  <2>2. ASSUME NEW i \in 1 .. L - 1
        PROVE  F[i + 1] - F[i] = h[i + 1] - h[i]
    <3>1. i \in 1 .. L /\ i + 1 \in 1 .. L /\ i + 1 \in Edges(p) /\ i \in Edges(q)
      BY <1>2, <1>5
    <3>2. g[q[i]][q[i + 1]] \in Nat
      BY <1>7, <3>1, LengthOfWay
    <3>3. f[(i + 1) + 1] = f[i + 1] + g[p[i + 1]][p[(i + 1) + 1]]
      BY <1>8, <3>1
    <3>4. q[i] = p[i + 1] /\ q[i + 1] = p[(i + 1) + 1]
      BY <1>3, <3>1
    <3>5. F[i + 1] = F[i] + g[q[i]][q[i + 1]] /\ h[i + 1] = h[i] + g[q[i]][q[i + 1]]
      BY <1>9, <3>1, <3>3, <3>4
    <3>6. F[i] \in Nat /\ h[i] \in Nat
      BY <1>9, <2>1, <3>1
    <3> QED
      BY <3>2, <3>5, <3>6
  <2> HIDE DEF F
  <2> QED
    BY <1>2, <1>9, <1>10, <2>1, <2>2, SumsApart
<1>12. f[L + 1] = h[L] + K
  BY <1>2, <1>11
<1> QED
  BY <1>2, <1>3, <1>7, <1>8, <1>9, <1>12 DEF q, L, K

-----------------------------------------------------------------------------
(* Distances.                                                              *)

\* A path is a walk that visits no vertex twice.
LEMMA PathsAreSimple ==
  ASSUME NEW u \in Vertices, NEW v \in Vertices, NEW p
  PROVE  p \in PathsBetween[u][v] <=>
           p \in Seq(Vertices) /\ p # <<>> /\ p[1] = u /\ p[Len(p)] = v /\ IsInjective(p)
<1>1. p \in PathsBetween[u][v] <=>
        /\ \E n \in 1 .. Cardinality(Vertices) : p \in [1 .. n -> Vertices]
        /\ p[1] = u /\ p[Len(p)] = v /\ IsInjective(p)
  BY DEF PathsBetween
<1>2. Cardinality(Vertices) \in Nat
  BY VertexAssumption, FS_CardinalityType
<1>3. ASSUME NEW n \in 1 .. Cardinality(Vertices), p \in [1 .. n -> Vertices]
      PROVE  p \in Seq(Vertices) /\ p # <<>>
  <2>1. n \in Nat \ {0}
    BY <1>2
  <2>2. p \in Seq(Vertices)
    BY <1>3, <2>1, SeqDef
  <2>3. Len(p) = n
    BY <1>3, <2>1, <2>2, LenProperties
  <2> QED
    BY <2>1, <2>2, <2>3, EmptySeq
<1>4. ASSUME p \in Seq(Vertices), p # <<>>, IsInjective(p)
      PROVE  \E n \in 1 .. Cardinality(Vertices) : p \in [1 .. n -> Vertices]
  <2>1. Len(p) \in Nat \ {0} /\ p \in [1 .. Len(p) -> Vertices]
    BY <1>4, LenProperties, EmptySeq
  <2>2. Cardinality(Range(p)) = Len(p) /\ Range(p) \in SUBSET Vertices
    BY <1>4, ListCardinality, RangeByPosition
  <2>3. Len(p) <= Cardinality(Vertices)
    BY <2>2, VertexAssumption, FS_Subset
  <2>4. Len(p) \in 1 .. Cardinality(Vertices)
    BY <1>2, <2>1, <2>3
  <2> QED
    BY <2>1, <2>4, Zenon
<1> QED
  BY <1>1, <1>3, <1>4

\* The paths along edges.
LEMMA PathsAlongEdges ==
  ASSUME NEW g, NEW u \in Vertices, NEW v \in Vertices, NEW p
  PROVE  p \in PathsIn(g, u, v) <=> Way(g, p) /\ IsInjective(p) /\ p[1] = u /\ p[Len(p)] = v
BY PathsAreSimple DEF Way, PathsIn

LEMMA DistanceIs ==
  ASSUME NEW g \in Graphs, NEW u \in Vertices, NEW v \in Vertices, NEW d \in Nat,
         \E p : Way(g, p) /\ IsInjective(p) /\ p[1] = u /\ p[Len(p)] = v /\ Length(g, p) = d,
         \A p : Way(g, p) /\ p[1] = u /\ p[Len(p)] = v => d <= Length(g, p)
  PROVE  Distance(g, u, v) = d
<1> DEFINE lengths == {Length(g, p) : p \in PathsIn(g, u, v)}
<1>1. ASSUME NEW p PROVE p \in PathsIn(g, u, v) <=> Way(g, p) /\ IsInjective(p) /\ p[1] = u /\ p[Len(p)] = v
  BY PathsAlongEdges
<1>2. Distance(g, u, v) = IF lengths = {} THEN Inf ELSE Min(lengths)
  BY DEF Distance
<1>3. d \in lengths /\ \A x \in lengths : d <= x /\ x \in Nat
  <2>1. d \in lengths
    BY <1>1
  <2>2. ASSUME NEW p \in PathsIn(g, u, v) PROVE d <= Length(g, p) /\ Length(g, p) \in Nat
    <3>1. Way(g, p) /\ p[1] = u /\ p[Len(p)] = v
      BY <1>1
    <3>2. Length(g, p) \in Nat
      BY <3>1, LengthIsNat
    <3> QED
      BY <3>1, <3>2
  <2> QED
    BY <2>1, <2>2
<1> HIDE DEF lengths
<1>4. Min(lengths) \in lengths /\ \A x \in lengths : Min(lengths) <= x
  BY <1>3 DEF Min
<1>5. Min(lengths) = d
  <2> DEFINE m == Min(lengths)
  <2>1. d <= m /\ m <= d /\ m \in Nat
    BY <1>3, <1>4
  <2> HIDE DEF m
  <2>2. m = d
    BY <2>1
  <2> QED
    BY <2>2 DEF m
<1> QED
  BY <1>2, <1>3, <1>5

LEMMA NoDistance ==
  ASSUME NEW g, NEW u \in Vertices, NEW v \in Vertices,
         \A p : ~(Way(g, p) /\ p[1] = u /\ p[Len(p)] = v)
  PROVE  Distance(g, u, v) = Inf
<1> DEFINE lengths == {Length(g, p) : p \in PathsIn(g, u, v)}
<1>1. PathsIn(g, u, v) = {}
  BY PathsAlongEdges
<1>2. Distance(g, u, v) = IF lengths = {} THEN Inf ELSE Min(lengths)
  BY DEF Distance
<1> QED
  BY <1>1, <1>2

\* A distance that is finite is the length of a path, and no path is shorter.
LEMMA DistanceResult ==
  ASSUME NEW g \in Graphs, NEW u \in Vertices, NEW v \in Vertices
  PROVE  /\ Distance(g, u, v) # Inf =>
              Distance(g, u, v) \in Nat /\ \E p \in PathsIn(g, u, v) : Length(g, p) = Distance(g, u, v)
         /\ \A p \in PathsIn(g, u, v) : Distance(g, u, v) # Inf /\ Distance(g, u, v) <= Length(g, p)
<1> DEFINE lengths == {Length(g, p) : p \in PathsIn(g, u, v)}
<1>1. lengths \subseteq Nat
  <2>1. ASSUME NEW p \in PathsIn(g, u, v) PROVE Length(g, p) \in Nat
    BY PathsAlongEdges, LengthIsNat
  <2> QED
    BY <2>1
<1>2. Distance(g, u, v) = IF lengths = {} THEN Inf ELSE Min(lengths)
  BY DEF Distance
<1>3. lengths = {} <=> PathsIn(g, u, v) = {}
  OBVIOUS
<1>4. \A p \in PathsIn(g, u, v) : Length(g, p) \in lengths
  OBVIOUS
<1>5. \A x \in lengths : \E p \in PathsIn(g, u, v) : Length(g, p) = x
  OBVIOUS
<1> HIDE DEF lengths
<1>6. lengths # {} => Min(lengths) \in lengths /\ \A x \in lengths : Min(lengths) <= x
  BY <1>1, LeastNumber DEF Min
<1>7. Inf \notin Nat
  BY DEF Inf
<1> QED
  BY <1>1, <1>2, <1>3, <1>4, <1>5, <1>6, <1>7

\* With more edges there are more ways.
LEMMA MoreEdgesShorter ==
  ASSUME NEW g \in Graphs, NEW h \in Graphs,
         \A u, v \in Vertices : g[u][v] # None => h[u][v] = g[u][v],
         NEW a \in Vertices, NEW b \in Vertices, Distance(g, a, b) # Inf
  PROVE  Distance(h, a, b) # Inf /\ Distance(h, a, b) <= Distance(g, a, b)
<1>1. PICK p \in PathsIn(g, a, b) : Length(g, p) = Distance(g, a, b)
  BY DistanceResult
<1>2. Way(g, p) /\ IsInjective(p) /\ p[1] = a /\ p[Len(p)] = b
  BY PathsAlongEdges
<1> DEFINE L == Len(p)
<1>3. /\ L \in Nat \ {0} /\ \A i \in 1 .. L : p[i] \in Vertices
      /\ \A i \in Edges(p) : i \in 1 .. L /\ i + 1 \in 1 .. L /\ g[p[i]][p[i + 1]] \in Nat
  BY <1>2, LengthOfWay
<1>4. \A i \in Edges(p) : g[p[i]][p[i + 1]] # None /\ h[p[i]][p[i + 1]] = g[p[i]][p[i + 1]]
  BY <1>2, <1>3 DEF Way
<1>5. Way(h, p)
  BY <1>2, <1>4 DEF Way
<1>6. PICK f \in [1 .. L -> Nat] :
        /\ f[1] = 0
        /\ \A i \in Edges(p) : f[i + 1] = f[i] + g[p[i]][p[i + 1]]
        /\ Length(g, p) = f[L]
  BY <1>2, LengthOfWay
<1>7. PICK k \in [1 .. L -> Nat] :
        /\ k[1] = 0
        /\ \A i \in Edges(p) : k[i + 1] = k[i] + h[p[i]][p[i + 1]]
        /\ Length(h, p) = k[L]
  BY <1>5, LengthOfWay
<1>8. k[L] = f[L] + 0
  <2>1. ASSUME NEW i \in 1 .. L - 1 PROVE k[i + 1] - k[i] = f[i + 1] - f[i]
    <3>1. i \in Edges(p)
      BY DEF Edges
    <3> DEFINE w == g[p[i]][p[i + 1]]
    <3>2. w \in Nat /\ f[i] \in Nat /\ k[i] \in Nat /\ f[i + 1] = f[i] + w /\ k[i + 1] = k[i] + w
      BY <1>3, <1>4, <1>6, <1>7, <3>1
    <3> HIDE DEF w
    <3> QED
      BY <3>2
  <2>2. L \in Nat \ {0} /\ f \in [1 .. L -> Nat] /\ k \in [1 .. L -> Nat] /\ k[1] = f[1] + 0
    BY <1>3, <1>6, <1>7
  <2>3. \A i \in 1 .. L - 1 : k[i + 1] - k[i] = f[i + 1] - f[i]
    BY <2>1
  <2> HIDE DEF L
  <2>4. 0 \in Nat
    OBVIOUS
  <2> QED
    BY <2>2, <2>3, <2>4, SumsApart
<1>9. p \in PathsIn(h, a, b) /\ Length(h, p) = Length(g, p)
  <2>1. f[L] \in Nat
    BY <1>3, <1>6
  <2> QED
    BY <1>2, <1>5, <1>6, <1>7, <1>8, <2>1, PathsAlongEdges
<1> QED
  BY <1>1, <1>9, DistanceResult

\* If no part of the vertices is cut off from the others, a walk leads from each
\* vertex to each: those it leads to are a part with no edge out of it.
LEMMA ConnectedReached ==
  ASSUME NEW g \in Graphs, NEW s \in Vertices, NEW t \in Vertices,
         \A part \in SUBSET Vertices : part \notin {{}, Vertices} =>
           \E u \in part, v \in Vertices \ part : g[u][v] # None
  PROVE  \E r : Way(g, r) /\ r[1] = s /\ r[Len(r)] = t
<1> DEFINE Leads(r, v) == Way(g, r) /\ r[1] = s /\ r[Len(r)] = v
           part == {v \in Vertices : \E r : Leads(r, v)}
<1>1. s \in part
  <2>1. Way(g, <<s>>) /\ <<s>>[1] = s /\ <<s>>[Len(<<s>>)] = s
    BY LengthOfSingle
  <2> QED
    BY <2>1
<1>2. ASSUME part # Vertices PROVE FALSE
  <2>1. PICK u \in part, v \in Vertices \ part : g[u][v] # None
    BY <1>1, <1>2
  <2>2. PICK r : Leads(r, u)
    BY <2>1
  <2> DEFINE q == Append(r, v)
  <2>3. Way(g, q)
    BY <2>1, <2>2, LengthOfAppend
  <2>4. r \in Seq(Vertices) /\ Len(r) \in Nat \ {0}
    BY <2>2, LengthOfWay DEF Way
  <2>5. Len(q) = Len(r) + 1 /\ q[1] = r[1] /\ q[Len(r) + 1] = v
    BY <2>4, AppendResult
  <2> HIDE DEF q
  <2>6. Leads(q, v)
    BY <2>2, <2>3, <2>5
  <2> QED
    BY <2>1, <2>6
<1> QED
  BY <1>2

-----------------------------------------------------------------------------
(* The vertex whose turn it is.                                            *)

Turn(now) == Least(now.pq)[2]
TurnCost(now) == Least(now.pq)[1]

\* The neighbours whose cost its turn lowers.
Better(g, now) == {v \in Neighbours(g, Turn(now)) : Improves(TurnCost(now) + g[Turn(now)][v], now.cost[v])}

\* What a round does to a search that is not over.
RoundStep(g, t, now, after) == ~Over(t, now) /\ after = Round(g, t, now)

LEMMA Types ==
  ASSUME NEW g, NEW s, NEW t, NEW now, SearchTyped(g, s, t, now)
  PROVE  /\ g \in Graphs
         /\ s \in Vertices /\ t \in Vertices /\ t # s
         /\ now.cost \in [Vertices -> Nat \cup {Inf}]
         /\ now.parent \in [Vertices -> Vertices \cup {None}]
         /\ now.pq \subseteq Nat \X Vertices
         /\ now.visited \subseteq Vertices
         /\ \A v \in Vertices : now.cost[v] \in Nat <=> Reached(now, v)
         /\ None \notin Nat /\ None \notin Vertices /\ Inf \notin Nat
<1>1. None \notin Nat /\ Inf \notin Nat /\ None \notin Vertices
  BY VertexAssumption DEF None, Inf
<1>2. /\ s \in Vertices /\ t \in Vertices /\ t # s
      /\ now.cost \in [Vertices -> Nat \cup {Inf}]
      /\ now.parent \in [Vertices -> Vertices \cup {None}]
      /\ now.pq \subseteq Nat \X Vertices
      /\ now.visited \subseteq Vertices
  BY DEF SearchTyped
<1>3. \A v \in Vertices : now.cost[v] \in Nat <=> Reached(now, v)
  BY <1>1, <1>2 DEF Reached
<1>4. g \in Graphs
  BY DEF SearchTyped
<1> QED
  BY <1>1, <1>2, <1>3, <1>4

\* The pairs that a round pushes are no more than there are vertices.
LEMMA PairsFew ==
  ASSUME NEW w, NEW B \in SUBSET Vertices
  PROVE  /\ IsFiniteSet({<<w[v], v>> : v \in B})
         /\ Cardinality({<<w[v], v>> : v \in B}) \in Nat
         /\ Cardinality({<<w[v], v>> : v \in B}) <= Cardinality(Vertices)
<1> DEFINE pairs == {<<w[v], v>> : v \in B}
           f == [v \in B |-> <<w[v], v>>]
<1>1. IsFiniteSet(B) /\ Cardinality(B) \in Nat /\ Cardinality(Vertices) \in Nat
      /\ Cardinality(B) <= Cardinality(Vertices)
  BY VertexAssumption, FS_Subset, FS_CardinalityType
<1>2. f \in Surjection(B, pairs)
  BY DEF Surjection
<1> HIDE DEF pairs, f
<1>3. IsFiniteSet(pairs) /\ Cardinality(pairs) <= Cardinality(B)
  BY <1>1, <1>2, FS_Surjection
<1>4. Cardinality(pairs) \in Nat
  BY <1>3, FS_CardinalityType
<1>5. Cardinality(pairs) <= Cardinality(Vertices)
  BY <1>1, <1>3, <1>4
<1> QED
  BY <1>3, <1>4, <1>5 DEF pairs

\* The costs an edge may have are numbers.
LEMMA CostsAreNumbers ==
  [Vertices -> [Vertices -> Costs \cup {None}]] \subseteq Graphs
<1>1. Costs \cup {None} \subseteq Nat \cup {None}
  BY CostAssumption
<1>2. \A row \in [Vertices -> Costs \cup {None}] : row \in [Vertices -> Nat \cup {None}]
  BY <1>1
<1> QED
  BY <1>2 DEF Graphs

\* heappop: a pair of least cost.
LEMMA LeastPair ==
  ASSUME NEW pq, pq \subseteq Nat \X Vertices, pq # {}
  PROVE  /\ Least(pq) \in pq
         /\ Least(pq) = <<Least(pq)[1], Least(pq)[2]>>
         /\ Least(pq)[1] \in Nat /\ Least(pq)[2] \in Vertices
         /\ \A q \in pq : Least(pq)[1] <= q[1]
<1> DEFINE costs == {q[1] : q \in pq}
           Before(p, q) == p[1] < q[1] \/ (p[1] = q[1] /\ p[2] <= q[2])
<1>1. \A q \in pq : q[1] \in Nat /\ q[2] \in Nat /\ q[2] \in Vertices /\ q = <<q[1], q[2]>>
  <2>1. \A q \in Nat \X Vertices : q[1] \in Nat /\ q[2] \in Vertices /\ q = <<q[1], q[2]>>
    OBVIOUS
  <2> QED
    BY <2>1, VertexAssumption
<1>2. PICK m \in costs : \A n \in costs : m <= n
  <2>1. costs \subseteq Nat /\ costs # {}
    BY <1>1
  <2> QED
    BY <2>1, LeastNumber
<1> DEFINE ids == {q[2] : q \in {r \in pq : r[1] = m}}
<1>3. PICK k \in ids : \A n \in ids : k <= n
  <2>1. ids \subseteq Nat /\ ids # {}
    BY <1>1, <1>2
  <2> HIDE DEF ids
  <2> QED
    BY <2>1, LeastNumber
<1>4. PICK p \in pq : p[1] = m /\ p[2] = k
  BY <1>3
<1>5. ASSUME NEW q \in pq PROVE Before(p, q)
  <2>1. q[1] \in costs /\ q[1] \in Nat /\ p[1] \in Nat
    BY <1>1, <1>4
  <2>2. m <= q[1]
    BY <1>2, <2>1
  <2>3. q[1] = m => q[2] \in ids
    OBVIOUS
  <2>4. q[1] = m => k <= q[2]
    BY <1>3, <2>3
  <2> QED
    BY <1>4, <2>1, <2>2, <2>4
<1>6. Least(pq) \in pq /\ \A q \in pq : Before(Least(pq), q)
  BY <1>4, <1>5 DEF Least
<1>7. \A q \in pq : Least(pq)[1] <= q[1]
  BY <1>1, <1>6
<1> QED
  BY <1>1, <1>6, <1>7

\* The vertex whose turn it is has been reached, nothing that has not been visited
\* is nearer, and if it has not been visited either the pair shows its cost.
LEMMA TurnResult ==
  ASSUME NEW g, NEW s, NEW t, NEW now, SearchInvariant(g, s, t, now), now.pq # {}
  PROVE  /\ Least(now.pq) = <<TurnCost(now), Turn(now)>> /\ Least(now.pq) \in now.pq
         /\ Turn(now) \in Vertices /\ TurnCost(now) \in Nat /\ Reached(now, Turn(now))
         /\ \A v \in Vertices \ now.visited : Reached(now, v) => TurnCost(now) <= now.cost[v]
         /\ Turn(now) \notin now.visited => now.cost[Turn(now)] = TurnCost(now)
<1>1. SearchTyped(g, s, t, now) /\ HeapInv(now)
  BY DEF SearchInvariant
<1>2. /\ Least(now.pq) = <<TurnCost(now), Turn(now)>> /\ Least(now.pq) \in now.pq
      /\ Turn(now) \in Vertices /\ TurnCost(now) \in Nat
      /\ \A q \in now.pq : TurnCost(now) <= q[1]
  BY <1>1, Types, LeastPair DEF Turn, TurnCost
<1>3. Reached(now, Turn(now)) /\ now.cost[Turn(now)] <= TurnCost(now)
  <2>1. Least(now.pq)[2] = Turn(now) /\ Least(now.pq)[1] = TurnCost(now)
    BY DEF Turn, TurnCost
  <2> QED
    BY <1>1, <1>2, <2>1 DEF HeapInv
<1>4. ASSUME NEW v \in Vertices \ now.visited, Reached(now, v) PROVE TurnCost(now) <= now.cost[v]
  <2>1. <<now.cost[v], v>> \in now.pq
    BY <1>1, <1>4 DEF HeapInv
  <2>2. <<now.cost[v], v>>[1] = now.cost[v]
    OBVIOUS
  <2> QED
    BY <1>2, <2>1, <2>2
<1>5. ASSUME Turn(now) \notin now.visited PROVE now.cost[Turn(now)] = TurnCost(now)
  <2>1. TurnCost(now) <= now.cost[Turn(now)] /\ now.cost[Turn(now)] \in Nat
    BY <1>1, <1>2, <1>3, <1>4, <1>5, Types
  <2> QED
    BY <1>2, <1>3, <2>1
<1> QED
  BY <1>2, <1>3, <1>4, <1>5

\* What its turn does. Nobody who has been visited comes nearer through it.
LEMMA RoundResult ==
  ASSUME NEW g, NEW s, NEW t, NEW now, NEW after,
         SearchInvariant(g, s, t, now), RoundStep(g, t, now, after)
  PROVE  /\ now.pq # {} /\ t \notin now.visited
         /\ Turn(now) \in now.visited =>
              after = [cost |-> now.cost, parent |-> now.parent,
                         pq |-> now.pq \ {<<TurnCost(now), Turn(now)>>}, visited |-> now.visited]
         /\ Turn(now) \notin now.visited /\ Turn(now) = t =>
              after = [cost |-> now.cost, parent |-> now.parent,
                         pq |-> now.pq \ {<<TurnCost(now), Turn(now)>>}, visited |-> now.visited \cup {Turn(now)}]
         /\ Turn(now) \notin now.visited /\ Turn(now) # t =>
              /\ after =
                   [cost |-> [v \in Vertices |-> IF v \in Better(g, now) THEN TurnCost(now) + g[Turn(now)][v] ELSE now.cost[v]],
                    parent |-> [v \in Vertices |-> IF v \in Better(g, now) THEN Turn(now) ELSE now.parent[v]],
                    pq |-> (now.pq \ {<<TurnCost(now), Turn(now)>>}) \cup {<<TurnCost(now) + g[Turn(now)][v], v>> : v \in Better(g, now)},
                    visited |-> now.visited \cup {Turn(now)}]
              /\ Better(g, now) \cap (now.visited \cup {Turn(now)}) = {}
<1> DEFINE u == Turn(now)
           c == TurnCost(now)
           B == Better(g, now)
<1>1. /\ now.pq # {} /\ t \notin now.visited
      /\ after = Round(g, t, now)
  BY DEF RoundStep, Over
<1>2. SearchTyped(g, s, t, now) /\ VisitedInv(g, t, now)
  BY DEF SearchInvariant
<1>3. Least(now.pq) = <<c, u>> /\ u \in Vertices /\ c \in Nat
  BY <1>1, TurnResult
<1> HIDE DEF u, c, B
<1>4. now = [cost |-> now.cost, parent |-> now.parent, pq |-> now.pq, visited |-> now.visited]
  BY <1>2 DEF SearchTyped
<1> DEFINE entered == [Popped(now) EXCEPT !.visited = @ \cup {u}]
<1>5. Popped(now) = [cost |-> now.cost, parent |-> now.parent,
                        pq |-> now.pq \ {<<c, u>>}, visited |-> now.visited]
  BY <1>3, <1>4 DEF Popped
<1>6. entered = [cost |-> now.cost, parent |-> now.parent,
                 pq |-> now.pq \ {<<c, u>>}, visited |-> now.visited \cup {u}]
  BY <1>5
<1>7. Round(g, t, now) =
        IF u \in now.visited THEN Popped(now)
        ELSE IF u = t THEN entered
        ELSE Relax(g, entered, c, u)
  BY DEF Round, Turn, TurnCost, u, c
<1> HIDE DEF entered
<1>8. Relax(g, entered, c, u) =
        [cost |-> [v \in Vertices |-> IF v \in B THEN c + g[u][v] ELSE now.cost[v]],
         parent |-> [v \in Vertices |-> IF v \in B THEN u ELSE now.parent[v]],
         pq |-> (now.pq \ {<<c, u>>}) \cup {<<c + g[u][v], v>> : v \in B},
         visited |-> now.visited \cup {u}]
  <2> DEFINE new_cost == [v \in B |-> c + g[u][v]]
  <2>1. entered.cost = now.cost /\ entered.parent = now.parent
        /\ entered.pq = now.pq \ {<<c, u>>} /\ entered.visited = now.visited \cup {u}
    BY <1>6
  <2>2. Relax(g, entered, c, u) =
          [cost |-> [v \in Vertices |-> IF v \in B THEN new_cost[v] ELSE now.cost[v]],
           parent |-> [v \in Vertices |-> IF v \in B THEN u ELSE now.parent[v]],
           pq |-> (now.pq \ {<<c, u>>}) \cup {<<new_cost[v], v>> : v \in B},
           visited |-> now.visited \cup {u}]
    BY <2>1, Zenon DEF Relax, Better, B, u, c
  <2>3. \A v \in B : new_cost[v] = c + g[u][v]
    OBVIOUS
  <2> HIDE DEF new_cost
  <2>4. [v \in Vertices |-> IF v \in B THEN new_cost[v] ELSE now.cost[v]]
          = [v \in Vertices |-> IF v \in B THEN c + g[u][v] ELSE now.cost[v]]
    BY <2>3
  <2>5. {<<new_cost[v], v>> : v \in B} = {<<c + g[u][v], v>> : v \in B}
    BY <2>3
  <2> QED
    BY <2>2, <2>4, <2>5
<1>9. ASSUME u \notin now.visited, NEW v \in B PROVE v \notin now.visited \cup {u}
  <2>1. v \in Vertices /\ g[u][v] # None /\ Improves(c + g[u][v], now.cost[v])
    BY <1>9 DEF B, Better, Neighbours, u, c
  <2>2. g[u][v] \in Nat
    BY <1>2, <1>3, <2>1, Types DEF Graphs
  <2>3. now.cost[u] = c /\ Reached(now, u)
    BY <1>1, <1>9, TurnResult DEF u, c
  <2>4. ASSUME v \in now.visited PROVE FALSE
    <3>1. Reached(now, v) /\ now.cost[v] <= c
      BY <1>2, <1>3, <1>9, <2>3, <2>4 DEF VisitedInv
    <3>2. now.cost[v] \in Nat
      BY <1>2, <2>1, <3>1, Types
    <3> QED
      BY <1>3, <2>1, <2>2, <3>1, <3>2 DEF Improves, Reached
  <2>5. ASSUME v = u PROVE FALSE
    BY <1>3, <2>1, <2>2, <2>3, <2>5 DEF Improves, Reached
  <2> QED
    BY <2>4, <2>5
<1>10. u \notin now.visited => B \cap (now.visited \cup {u}) = {}
  BY <1>9
<1> QED
  BY <1>1, <1>5, <1>6, <1>7, <1>8, <1>10 DEF u, c, B

-----------------------------------------------------------------------------
(* The invariant is inductive.                                             *)

LEMMA StartInv ==
  ASSUME NEW g \in Graphs, NEW s \in Vertices, NEW t \in Vertices \ {s}
  PROVE  SearchInvariant(g, s, t, Start(s))
<1> DEFINE now == Start(s)
<1>1. now = [cost |-> [v \in Vertices |-> IF v = s THEN 0 ELSE Inf],
             parent |-> [v \in Vertices |-> None], pq |-> {<<0, s>>}, visited |-> {}]
  BY DEF Start
<1> HIDE DEF now
<1>2. None \notin Nat /\ None \notin Vertices /\ Inf \notin Nat /\ 0 # Inf
  BY VertexAssumption DEF None, Inf
<1>3. IsFiniteSet(now.pq)
  BY <1>1, FS_Singleton
<1>4. SearchTyped(g, s, t, now)
  BY <1>1, <1>3 DEF SearchTyped
<1>5. now.cost[s] = 0 /\ \A v \in Vertices : now.parent[v] = None /\ (Reached(now, v) <=> v = s)
  BY <1>1, <1>2 DEF Reached
<1>6. now.pq = {<<0, s>>} /\ now.visited = {}
  BY <1>1
<1>7. HeapInv(now) /\ VisitedInv(g, t, now) /\ CostsAreWalks(g, s, now)
  BY <1>1, <1>5, <1>6 DEF HeapInv, VisitedInv, CostsAreWalks, Reached
<1>8. TreeInv(g, s, now)
  <2>1. ASSUME NEW v \in Vertices, Reached(now, v)
        PROVE  \E p \in PathsBetween[s][v] : TreePath(g, s, now, p, v) /\ Length(g, p) = now.cost[v]
    <3> DEFINE p == <<s>>
    <3>1. v = s /\ g \in Graphs /\ s \in Vertices
      BY <1>1, <1>4, <1>5, <2>1, Types
    <3>2. Way(g, p) /\ Length(g, p) = 0
      BY <3>1, LengthOfSingle
    <3>3. p \in Seq(Vertices) /\ p # <<>> /\ p[1] = s /\ p[Len(p)] = s /\ Edges(p) = {}
      BY <3>1 DEF Edges
    <3>4. IsInjective(p)
      <4>1. \A i, j \in 1 .. Len(p) : i = j
        OBVIOUS
      <4> HIDE DEF p
      <4> QED
        BY <3>3, <4>1, RangeByPosition
    <3>5. p \in PathsBetween[s][v]
      BY <3>1, <3>3, <3>4, PathsAreSimple
    <3> HIDE DEF p
    <3>6. TreePath(g, s, now, p, v)
      BY <3>3, <3>5 DEF TreePath
    <3> QED
      BY <1>5, <3>1, <3>2, <3>5, <3>6
  <2>2. \E hop \in [Vertices -> Vertices] : \A v \in Vertices :
          hop[v] = IF now.parent[v] \in {s, None} THEN v ELSE hop[now.parent[v]]
    <3>1. [v \in Vertices |-> v] \in [Vertices -> Vertices]
      OBVIOUS
    <3> QED
      BY <1>5, <3>1
  <2> QED
    BY <1>1, <1>5, <2>1, <2>2 DEF TreeInv
<1>9. ParentsAcyclic(now)
  <2>1. ASSUME NEW part \in SUBSET Vertices, NEW v \in part PROVE now.parent[v] \notin part
    BY <1>2, <1>5
  <2> QED
    BY <2>1 DEF ParentsAcyclic
<1>10. SearchInvariant(g, s, t, now)
  BY <1>4, <1>7, <1>8, <1>9 DEF SearchInvariant
<1> QED
  BY <1>10 DEF now

\* Costs and parents stay, and more vertices have been visited.
LEMMA TreeStays ==
  ASSUME NEW g, NEW s, NEW now, NEW after,
         TreeInv(g, s, now), after.cost = now.cost, after.parent = now.parent,
         now.visited \subseteq after.visited
  PROVE  TreeInv(g, s, after)
<1>1. \A v : Reached(after, v) <=> Reached(now, v)
  BY DEF Reached
<1>2. \A p, v : TreePath(g, s, now, p, v) => TreePath(g, s, after, p, v)
  BY DEF TreePath
<1> QED
  BY <1>1, <1>2 DEF TreeInv

\* A leftover pair is taken from the heap.
LEMMA StaleInv ==
  ASSUME NEW g, NEW s, NEW t, NEW now, NEW after,
         SearchInvariant(g, s, t, now), RoundStep(g, t, now, after), Turn(now) \in now.visited
  PROVE  SearchInvariant(g, s, t, after)
<1> DEFINE u == Turn(now)
           c == TurnCost(now)
<1>1. /\ SearchTyped(g, s, t, now) /\ HeapInv(now) /\ VisitedInv(g, t, now)
      /\ TreeInv(g, s, now) /\ CostsAreWalks(g, s, now) /\ ParentsAcyclic(now)
      /\ after = [cost |-> now.cost, parent |-> now.parent,
                    pq |-> now.pq \ {<<c, u>>}, visited |-> now.visited]
      /\ u \in now.visited
  BY RoundResult DEF SearchInvariant
<1> HIDE DEF u, c
<1>2. after.cost = now.cost /\ after.parent = now.parent /\ after.visited = now.visited
      /\ after.pq = now.pq \ {<<c, u>>}
  BY <1>1
<1>3. SearchTyped(g, s, t, after)
  BY <1>1, FS_RemoveElement DEF SearchTyped
<1>4. \A v : Reached(after, v) <=> Reached(now, v)
  BY <1>2 DEF Reached
<1>5. HeapInv(after)
  BY <1>1, <1>2, <1>4 DEF HeapInv
<1>6. VisitedInv(g, t, after)
  BY <1>1, <1>2, <1>4 DEF VisitedInv
<1>7. TreeInv(g, s, after)
  BY <1>1, <1>2, TreeStays
<1>8. CostsAreWalks(g, s, after) /\ ParentsAcyclic(after)
  BY <1>1, <1>2 DEF CostsAreWalks, ParentsAcyclic
<1> QED
  BY <1>3, <1>5, <1>6, <1>7, <1>8 DEF SearchInvariant

\* The target is visited, and with it the search is over.
LEMMA TargetInv ==
  ASSUME NEW g, NEW s, NEW t, NEW now, NEW after,
         SearchInvariant(g, s, t, now), RoundStep(g, t, now, after), Turn(now) \notin now.visited, Turn(now) = t
  PROVE  SearchInvariant(g, s, t, after)
<1> DEFINE u == Turn(now)
           c == TurnCost(now)
<1>1. /\ SearchTyped(g, s, t, now) /\ HeapInv(now) /\ VisitedInv(g, t, now)
      /\ TreeInv(g, s, now) /\ CostsAreWalks(g, s, now) /\ ParentsAcyclic(now)
      /\ now.pq # {} /\ t \notin now.visited
      /\ after = [cost |-> now.cost, parent |-> now.parent,
                    pq |-> now.pq \ {<<c, u>>}, visited |-> now.visited \cup {u}]
      /\ u = t /\ u \notin now.visited
  BY RoundResult DEF SearchInvariant
<1>2. after.cost = now.cost /\ after.parent = now.parent
      /\ after.visited = now.visited \cup {u}
      /\ after.pq = now.pq \ {<<c, u>>}
  BY <1>1
<1>3. /\ u \in Vertices /\ c \in Nat /\ Reached(now, u) /\ now.cost[u] = c
      /\ \A v \in Vertices \ now.visited : Reached(now, v) => c <= now.cost[v]
  BY <1>1, TurnResult
<1> HIDE DEF u, c
<1>4. SearchTyped(g, s, t, after)
  BY <1>1, <1>3, FS_RemoveElement DEF SearchTyped
<1>5. \A v : Reached(after, v) <=> Reached(now, v)
  BY <1>2 DEF Reached
<1>6. HeapInv(after)
  BY <1>1, <1>2, <1>5 DEF HeapInv
<1>7. VisitedInv(g, t, after)
  <2>1. ASSUME NEW x \in now.visited
        PROVE  /\ Reached(now, x) /\ now.cost[x] <= now.cost[t]
               /\ \A v \in Vertices \ now.visited : Reached(now, v) => now.cost[x] <= now.cost[v]
               /\ x # t => \A v \in Neighbours(g, x) :
                    Reached(now, v) /\ now.cost[v] <= now.cost[x] + g[x][v]
    BY <1>1, <1>3 DEF VisitedInv
  <2>2. now.cost[t] <= now.cost[t]
    BY <1>1, <1>3
  <2> QED
    BY <1>1, <1>2, <1>3, <1>5, <2>1, <2>2 DEF VisitedInv
<1>8. TreeInv(g, s, after)
  BY <1>1, <1>2, TreeStays
<1>9. CostsAreWalks(g, s, after) /\ ParentsAcyclic(after)
  BY <1>1, <1>2 DEF CostsAreWalks, ParentsAcyclic
<1> QED
  BY <1>4, <1>6, <1>7, <1>8, <1>9 DEF SearchInvariant

\* A vertex is visited whose edges are followed.
LEMMA RelaxInv ==
  ASSUME NEW g, NEW s, NEW t, NEW now, NEW after,
         SearchInvariant(g, s, t, now), RoundStep(g, t, now, after), Turn(now) \notin now.visited, Turn(now) # t
  PROVE  SearchInvariant(g, s, t, after)
<1> DEFINE u == Turn(now)
           c == TurnCost(now)
           B == Better(g, now)
<1>1. /\ SearchTyped(g, s, t, now) /\ HeapInv(now) /\ VisitedInv(g, t, now)
      /\ TreeInv(g, s, now) /\ CostsAreWalks(g, s, now) /\ ParentsAcyclic(now)
      /\ now.pq # {} /\ t \notin now.visited
      /\ B \cap (now.visited \cup {u}) = {}
      /\ after =
           [cost |-> [v \in Vertices |-> IF v \in B THEN c + g[u][v] ELSE now.cost[v]],
            parent |-> [v \in Vertices |-> IF v \in B THEN u ELSE now.parent[v]],
            pq |-> (now.pq \ {<<c, u>>}) \cup {<<c + g[u][v], v>> : v \in B},
            visited |-> now.visited \cup {u}]
  BY RoundResult DEF SearchInvariant
<1>2. /\ after.cost = [v \in Vertices |-> IF v \in B THEN c + g[u][v] ELSE now.cost[v]]
      /\ after.parent = [v \in Vertices |-> IF v \in B THEN u ELSE now.parent[v]]
      /\ after.pq = (now.pq \ {<<c, u>>}) \cup {<<c + g[u][v], v>> : v \in B}
      /\ after.visited = now.visited \cup {u}
  BY <1>1
<1>3. /\ u \in Vertices /\ c \in Nat /\ Reached(now, u) /\ now.cost[u] = c
      /\ \A v \in Vertices \ now.visited : Reached(now, v) => c <= now.cost[v]
  BY <1>1, TurnResult
<1>4. /\ g \in Graphs /\ s \in Vertices /\ t \in Vertices /\ t # s
      /\ now.cost \in [Vertices -> Nat \cup {Inf}]
      /\ now.parent \in [Vertices -> Vertices \cup {None}]
      /\ now.pq \subseteq Nat \X Vertices
      /\ now.visited \subseteq Vertices
      /\ \A v \in Vertices : now.cost[v] \in Nat <=> Reached(now, v)
      /\ None \notin Nat /\ None \notin Vertices /\ Inf \notin Nat
  BY <1>1, Types
<1>5. \A v \in B : /\ v \in Vertices /\ g[u][v] # None /\ g[u][v] \in Nat
                   /\ c + g[u][v] \in Nat /\ c <= c + g[u][v]
                   /\ v \notin now.visited /\ v # u
                   /\ Reached(now, v) => c + g[u][v] < now.cost[v]
  <2>1. ASSUME NEW v \in B PROVE v \in Vertices /\ g[u][v] # None /\ g[u][v] \in Nat
    BY <1>3, <1>4 DEF Better, Neighbours, Graphs
  <2>2. ASSUME NEW v \in B PROVE Reached(now, v) => c + g[u][v] < now.cost[v]
    BY DEF Better, Improves, Reached
  <2> QED
    BY <1>1, <1>3, <2>1, <2>2
<1>6. \A v \in Neighbours(g, u) \ B : Reached(now, v) /\ now.cost[v] <= c + g[u][v]
  <2>1. ASSUME NEW v \in Neighbours(g, u), v \notin B
        PROVE  Reached(now, v) /\ now.cost[v] <= c + g[u][v]
    <3>1. v \in Vertices /\ g[u][v] \in Nat
      BY <1>3, <1>4 DEF Neighbours, Graphs
    <3>2. Reached(now, v) /\ ~(c + g[u][v] < now.cost[v])
      BY <2>1 DEF Better, Improves, Reached
    <3> QED
      BY <1>3, <1>4, <3>1, <3>2
  <2> QED
    BY <2>1
<1> HIDE DEF u, c, B
<1> DEFINE cost == now.cost
           cost2 == after.cost
<1>7. /\ \A v \in B : cost2[v] = c + g[u][v] /\ after.parent[v] = u
      /\ \A v \in Vertices \ B : cost2[v] = cost[v] /\ after.parent[v] = now.parent[v]
      /\ \A v \in now.visited \cup {u} : v \in Vertices \ B
  BY <1>1, <1>2, <1>3, <1>4, <1>5
<1>8. \A v \in Vertices : Reached(after, v) <=> Reached(now, v) \/ v \in B
  BY <1>4, <1>5, <1>7 DEF Reached
<1>9. \A v \in Vertices : Reached(now, v) => cost[v] \in Nat /\ cost2[v] \in Nat /\ cost2[v] <= cost[v]
  BY <1>4, <1>5, <1>7
<1>10. SearchTyped(g, s, t, after)
  <2>1. cost2 \in [Vertices -> Nat \cup {Inf}]
    BY <1>2, <1>4, <1>5
  <2>2. after.parent \in [Vertices -> Vertices \cup {None}]
    BY <1>2, <1>3, <1>4
  <2>3. after.pq \subseteq Nat \X Vertices
    BY <1>2, <1>4, <1>5
  <2>4. after.visited \subseteq Vertices
    BY <1>2, <1>3, <1>4
  <2>5. IsFiniteSet(after.pq)
    <3> DEFINE w == [v \in Vertices |-> c + g[u][v]]
    <3>1. B \in SUBSET Vertices /\ \A v \in B : w[v] = c + g[u][v]
      BY <1>5
    <3> HIDE DEF w
    <3>2. {<<c + g[u][v], v>> : v \in B} = {<<w[v], v>> : v \in B}
      BY <3>1
    <3>3. IsFiniteSet({<<w[v], v>> : v \in B})
      BY <3>1, PairsFew
    <3>4. IsFiniteSet(now.pq \ {<<c, u>>})
      BY <1>1, FS_RemoveElement DEF SearchTyped
    <3> DEFINE kept == now.pq \ {<<c, u>>}
               pushed == {<<w[v], v>> : v \in B}
    <3>5. after.pq = kept \cup pushed
      BY <1>2, <3>2
    <3> HIDE DEF kept, pushed
    <3>6. IsFiniteSet(kept) /\ IsFiniteSet(pushed)
      BY <3>3, <3>4 DEF kept, pushed
    <3> QED
      BY <3>5, <3>6, FS_Union
  <2> QED
    BY <1>1, <1>2, <2>1, <2>2, <2>3, <2>4, <2>5 DEF SearchTyped
<1>11. HeapInv(after)
  <2>1. ASSUME NEW v \in Vertices \ after.visited, Reached(after, v) PROVE <<cost2[v], v>> \in after.pq
    <3>1. CASE v \in B
      BY <1>2, <1>7, <3>1
    <3>2. CASE v \notin B
      <4>1. <<cost[v], v>> \in now.pq /\ v # u
        BY <1>1, <1>2, <1>8, <2>1, <3>2 DEF HeapInv
      <4> QED
        BY <1>2, <1>7, <3>2, <4>1
    <3> QED
      BY <3>1, <3>2
  <2>2. ASSUME NEW p \in after.pq PROVE Reached(after, p[2]) /\ cost2[p[2]] <= p[1]
    <3>1. CASE p \in now.pq
      <4>1. p[1] \in Nat /\ p[2] \in Vertices /\ Reached(now, p[2]) /\ cost[p[2]] <= p[1]
        BY <1>1, <1>4, <3>1 DEF HeapInv
      <4>2. cost[p[2]] \in Nat /\ cost2[p[2]] \in Nat /\ cost2[p[2]] <= cost[p[2]]
        BY <1>9, <4>1
      <4> QED
        BY <1>8, <4>1, <4>2
    <3>2. CASE \E v \in B : p = <<c + g[u][v], v>>
      BY <1>5, <1>7, <1>8, <3>2
    <3> QED
      BY <1>2, <3>1, <3>2
  <2> QED
    BY <2>1, <2>2 DEF HeapInv, Reached
<1>12. VisitedInv(g, t, after)
  <2>1. ASSUME NEW x \in now.visited
        PROVE  /\ x \in Vertices \ B /\ Reached(after, x) /\ cost2[x] = cost[x] /\ cost[x] \in Nat
               /\ cost[x] <= c
    <3>1. x \in Vertices /\ Reached(now, x) /\ cost[x] <= cost[u]
      BY <1>1, <1>3, <1>4 DEF VisitedInv, u
    <3> QED
      BY <1>3, <1>7, <1>8, <1>9, <3>1
  <2>2. /\ u \in Vertices \ B /\ cost2[u] # Inf /\ cost2[u] = c /\ cost[u] = c
    <3>1. u \in Vertices \ B
      BY <1>7
    <3>2. cost[u] = c /\ cost2[u] = cost[u]
      BY <1>3, <1>7, <3>1
    <3>3. cost2[u] # Inf
      BY <1>3, <1>4, <3>2
    <3> QED
      BY <3>1, <3>2, <3>3
  <2>3. ASSUME NEW x \in after.visited, NEW v \in Vertices \ after.visited, Reached(after, v)
        PROVE  cost2[x] <= cost2[v]
    <3>1. x \in now.visited \/ x = u
      BY <1>2
    <3>2. c <= cost2[v] /\ cost2[v] \in Nat
      <4>1. CASE v \in B
        BY <1>5, <1>7, <4>1
      <4>2. CASE v \notin B
        <5>1. Reached(now, v) /\ v \in Vertices \ now.visited
          BY <1>2, <1>8, <2>3, <4>2
        <5> QED
          BY <1>3, <1>7, <1>9, <4>2, <5>1
      <4> QED
        BY <4>1, <4>2
    <3> QED
      BY <1>3, <2>1, <2>2, <3>1, <3>2
  <2>4. ASSUME NEW x \in after.visited, NEW v \in Neighbours(g, x)
        PROVE  Reached(after, v) /\ cost2[v] <= cost2[x] + g[x][v]
    <3>1. v \in Vertices
      BY DEF Neighbours
    <3>2. CASE x \in now.visited
      <4>1. Reached(now, v) /\ cost[v] <= cost[x] + g[x][v]
        BY <1>1, <2>4, <3>2 DEF VisitedInv
      <4>2. cost[v] \in Nat /\ cost2[v] \in Nat /\ cost2[v] <= cost[v]
        BY <1>9, <3>1, <4>1
      <4>3. cost2[x] = cost[x] /\ cost[x] \in Nat /\ x \in Vertices
        BY <2>1, <3>2
      <4>4. g[x][v] \in Nat
        BY <1>4, <2>4, <4>3 DEF Neighbours, Graphs
      <4> QED
        BY <1>8, <3>1, <4>1, <4>2, <4>3, <4>4
    <3>3. CASE x = u
      <4>1. CASE v \in B
        BY <1>5, <1>7, <1>8, <2>2, <3>1, <3>3, <4>1
      <4>2. CASE v \notin B
        BY <1>6, <1>7, <1>8, <2>2, <2>4, <3>1, <3>3, <4>2
      <4> QED
        BY <4>1, <4>2
    <3> QED
      BY <1>2, <3>2, <3>3
  <2>5. t \notin after.visited
    BY <1>1, <1>2 DEF u
  <2>6. ASSUME NEW x \in after.visited PROVE Reached(after, x)
    <3>1. CASE x \in now.visited
      BY <2>1, <3>1
    <3>2. CASE x = u
      BY <2>2, <3>2 DEF Reached
    <3> QED
      BY <1>2, <3>1, <3>2
  <2> QED
    BY <1>1, <2>3, <2>4, <2>5, <2>6 DEF VisitedInv, Neighbours
<1>13. CostsAreWalks(g, s, after)
  <2>1. ASSUME NEW v \in Vertices \ {s}
        PROVE  /\ cost2[v] = Inf <=> after.parent[v] = None
               /\ cost2[v] # Inf =>
                    LET w == after.parent[v]
                    IN w \in after.visited /\ cost2[v] = cost2[w] + g[w][v]
    <3>1. CASE v \in B
      <4>1. cost2[v] # Inf /\ after.parent[v] = u /\ u # None /\ u \in after.visited /\ cost2[u] = c
        BY <1>2, <1>3, <1>4, <1>5, <1>7, <3>1
      <4> QED
        BY <1>7, <3>1, <4>1
    <3>2. CASE v \notin B
      <4>1. cost2[v] = cost[v] /\ after.parent[v] = now.parent[v]
        BY <1>7, <3>2
      <4>2. /\ cost[v] = Inf <=> now.parent[v] = None
            /\ cost[v] # Inf => /\ now.parent[v] \in now.visited
                                /\ cost[v] = cost[now.parent[v]] + g[now.parent[v]][v]
        BY <1>1 DEF CostsAreWalks
      <4>3. \A w \in now.visited : w \in after.visited /\ cost2[w] = cost[w]
        BY <1>2, <1>7
      <4> QED
        BY <4>1, <4>2, <4>3
    <3> QED
      BY <3>1, <3>2
  <2> QED
    BY <1>1, <2>1 DEF CostsAreWalks
<1>14. s \notin B /\ now.parent[s] = None /\ cost[s] = 0
  <2>1. cost[s] = 0 /\ now.parent[s] = None
    BY <1>1 DEF TreeInv
  <2>2. Reached(now, s)
    BY <1>4, <2>1 DEF Reached
  <2> QED
    BY <1>3, <1>5, <2>1, <2>2
\* The parent of a vertex, if it has one, has been visited.
<1>15. \A v \in Vertices : now.parent[v] = None \/ now.parent[v] \in now.visited
  <2>1. ASSUME NEW v \in Vertices PROVE now.parent[v] = None \/ now.parent[v] \in now.visited
    <3>1. CASE v = s
      BY <1>14, <3>1
    <3>2. CASE v # s
      BY <1>1, <3>2 DEF CostsAreWalks
    <3> QED
      BY <3>1, <3>2
  <2> QED
    BY <2>1
<1>16. ParentsAcyclic(after)
  <2>1. ASSUME NEW part \in SUBSET Vertices, part # {}, \A v \in part : after.parent[v] \in part
        PROVE  FALSE
    <3>1. part \ B # {}
      <4>1. CASE part \cap B = {}
        BY <2>1, <4>1
      <4>2. CASE part \cap B # {}
        <5>1. u \in part
          BY <1>7, <2>1, <4>2
        <5>2. u \notin B
          BY <1>5
        <5> QED
          BY <5>1, <5>2
      <4> QED
        BY <4>1, <4>2
    <3>2. PICK v \in part \ B : now.parent[v] \notin part \ B
      BY <1>1, <3>1 DEF ParentsAcyclic
    <3>3. now.parent[v] \in part /\ now.parent[v] = after.parent[v]
      BY <1>7, <2>1, <3>2
    <3>4. now.parent[v] \in now.visited
      BY <1>4, <1>15, <3>2, <3>3
    <3> QED
      BY <1>7, <3>2, <3>3, <3>4
  <2> QED
    BY <2>1 DEF ParentsAcyclic
<1>17. TreeInv(g, s, after)
  <2>1. cost2[s] = 0 /\ after.parent[s] = None
    BY <1>4, <1>7, <1>14
  \* The paths there were are still paths.
  <2>2. ASSUME NEW v \in Vertices \ B, NEW p, TreePath(g, s, now, p, v)
        PROVE  TreePath(g, s, after, p, v)
    <3>1. p \in PathsBetween[s][v] /\ p[Len(p)] = v /\ p \in Seq(Vertices) /\ p # <<>>
      BY <1>4, <2>2, PathsAreSimple DEF TreePath
    <3>2. Len(p) \in Nat
      BY <3>1, LenProperties
    <3>3. ASSUME NEW i \in Edges(p)
          PROVE  /\ g[p[i]][p[i + 1]] # None
                 /\ p[i] \in after.visited
                 /\ after.parent[p[i + 1]] = p[i]
      <4>1. g[p[i]][p[i + 1]] # None /\ p[i] \in now.visited /\ now.parent[p[i + 1]] = p[i]
        BY <2>2 DEF TreePath
      <4>2. p[i + 1] \in Vertices \ B
        <5>1. i + 1 = Len(p) \/ i + 1 \in Edges(p)
          BY <3>2 DEF Edges
        <5>2. i + 1 \in Edges(p) => p[i + 1] \in now.visited
          BY <2>2 DEF TreePath
        <5> QED
          BY <1>7, <2>2, <3>1, <5>1, <5>2
      <4> QED
        BY <1>2, <1>7, <4>1, <4>2
    <3> QED
      BY <1>1, <3>1, <3>3 DEF TreePath
  \* A vertex that comes nearer is added to the path to the one before.
  <2>3. ASSUME NEW v \in B
        PROVE  \E p \in PathsBetween[s][v] : TreePath(g, s, after, p, v) /\ Length(g, p) = c + g[u][v]
    <3>1. PICK q \in PathsBetween[s][u] : TreePath(g, s, now, q, u) /\ Length(g, q) = c
      BY <1>1, <1>3 DEF TreeInv
    <3>2. /\ q \in Seq(Vertices) /\ q # <<>> /\ q[1] = s /\ q[Len(q)] = u /\ IsInjective(q)
          /\ Way(g, q)
      BY <1>3, <1>4, <3>1, PathsAreSimple DEF TreePath, Way
    <3> DEFINE p == Append(q, v)
    <3>3. v \in Vertices /\ g[u][v] # None /\ v \notin now.visited /\ v # u
      BY <1>5
    <3>4. /\ Way(g, p) /\ Length(g, p) = c + g[u][v]
      BY <1>4, <3>1, <3>2, <3>3, LengthOfAppend
    <3>5. /\ p \in Seq(Vertices) /\ Len(p) = Len(q) + 1
          /\ \A i \in 1 .. Len(q) : p[i] = q[i]
          /\ p[Len(q) + 1] = v /\ p # <<>>
      BY <3>2, <3>3, AppendResult
    <3>6. Len(q) \in Nat \ {0}
      BY <3>2, EmptySeq, LenProperties
    <3>7. \A i \in 1 .. Len(q) : q[i] \in now.visited \cup {u}
      <4>1. \A i \in 1 .. Len(q) : i \in Edges(q) \/ i = Len(q)
        BY <3>6 DEF Edges
      <4> QED
        BY <3>1, <3>2, <4>1 DEF TreePath
    <3>8. IsInjective(p)
      <4>1. v \notin Range(q)
        BY <3>2, <3>3, <3>7, RangeByPosition
      <4> QED
        BY <3>2, <3>3, <4>1, ListAppend
    <3> HIDE DEF p
    <3>9. p \in PathsBetween[s][v]
      <4>1. p[1] = s /\ p[Len(p)] = v
        BY <3>2, <3>5, <3>6
      <4> QED
        BY <1>4, <3>3, <3>5, <3>8, <4>1, PathsAreSimple
    <3>10. ASSUME NEW i \in Edges(p)
           PROVE  /\ g[p[i]][p[i + 1]] # None
                  /\ p[i] \in after.visited
                  /\ after.parent[p[i + 1]] = p[i]
      <4>1. i \in 1 .. Len(q) /\ p[i] = q[i] /\ (i \in Edges(q) \/ i = Len(q))
        BY <3>5, <3>6 DEF Edges
      <4>2. p[i] \in after.visited
        BY <1>2, <3>7, <4>1
      <4>3. g[p[i]][p[i + 1]] # None
        BY <3>4 DEF Way
      <4>4. CASE i = Len(q)
        BY <1>7, <3>2, <3>5, <4>1, <4>2, <4>3, <4>4
      <4>5. CASE i \in Edges(q)
        <5>1. i + 1 \in 1 .. Len(q) /\ p[i + 1] = q[i + 1]
          BY <3>5, <3>6, <4>5 DEF Edges
        <5>2. now.parent[q[i + 1]] = q[i]
          BY <3>1, <4>5 DEF TreePath
        <5>3. after.parent[q[i + 1]] = now.parent[q[i + 1]]
          BY <1>7, <3>7, <5>1
        <5> QED
          BY <4>1, <4>2, <4>3, <5>1, <5>2, <5>3
      <4> QED
        BY <4>1, <4>4, <4>5
    <3>11. TreePath(g, s, after, p, v)
      BY <1>1, <3>9, <3>10 DEF TreePath
    <3> QED
      BY <3>4, <3>9, <3>11
  <2>4. ASSUME NEW v \in Vertices, Reached(after, v)
        PROVE  \E p \in PathsBetween[s][v] : TreePath(g, s, after, p, v) /\ Length(g, p) = cost2[v]
    <3>1. CASE v \in B
      BY <1>7, <2>3, <3>1
    <3>2. CASE v \notin B
      <4>1. PICK p \in PathsBetween[s][v] : TreePath(g, s, now, p, v) /\ Length(g, p) = cost[v]
        BY <1>1, <1>8, <2>4, <3>2 DEF TreeInv
      <4>2. TreePath(g, s, after, p, v)
        BY <2>2, <3>2, <4>1
      <4> QED
        BY <1>7, <3>2, <4>1, <4>2
    <3> QED
      BY <3>1, <3>2
  <2>5. \E hop \in [Vertices -> Vertices] : \A v \in Vertices :
          hop[v] = IF after.parent[v] \in {s, None} THEN v ELSE hop[after.parent[v]]
    <3>1. PICK hop \in [Vertices -> Vertices] : \A v \in Vertices :
            hop[v] = IF now.parent[v] \in {s, None} THEN v ELSE hop[now.parent[v]]
      BY <1>1 DEF TreeInv
    <3> DEFINE hop2 == [v \in Vertices |-> IF v \in B THEN IF u = s THEN v ELSE hop[u] ELSE hop[v]]
    <3>2. hop2 \in [Vertices -> Vertices]
      BY <1>3
    <3>3. ASSUME NEW v \in Vertices
          PROVE  hop2[v] = IF after.parent[v] \in {s, None} THEN v ELSE hop2[after.parent[v]]
      <4>1. CASE v \in B
        <5>1. after.parent[v] = u /\ u # None /\ u \in Vertices \ B
          BY <1>4, <1>7, <4>1
        <5> QED
          BY <4>1, <5>1
      <4>2. CASE v \notin B
        <5>1. after.parent[v] = now.parent[v]
          BY <1>7, <4>2
        <5>2. now.parent[v] # None => now.parent[v] \in Vertices \ B
          BY <1>7, <1>15
        <5> QED
          BY <3>1, <4>2, <5>1, <5>2
      <4> QED
        BY <4>1, <4>2
    <3> HIDE DEF hop2
    <3> QED
      BY <3>2, <3>3
  <2> QED
    BY <1>1, <2>1, <2>4, <2>5 DEF TreeInv
<1> QED
  BY <1>10, <1>11, <1>12, <1>13, <1>16, <1>17 DEF SearchInvariant

LEMMA RoundInv ==
  ASSUME NEW g, NEW s, NEW t, NEW now, NEW after,
         SearchInvariant(g, s, t, now), RoundStep(g, t, now, after)
  PROVE  SearchInvariant(g, s, t, after)
<1>1. CASE Turn(now) \in now.visited
  BY <1>1, StaleInv
<1>2. CASE Turn(now) \notin now.visited /\ Turn(now) = t
  BY <1>2, TargetInv
<1>3. CASE Turn(now) \notin now.visited /\ Turn(now) # t
  BY <1>3, RelaxInv
<1> QED
  BY <1>1, <1>2, <1>3

-----------------------------------------------------------------------------
(* The costs are distances.                                                *)

\* A bound stays one when the walk goes on.
LEMMA StillWithin ==
  \A c, k, m, n, w \in Nat : c <= k + m /\ n = m + w => c <= k + n
OBVIOUS

\* A walk to a visited vertex, from one that costs K at most, is not shorter than
\* the cost of that vertex, less K: as long as the walk is among vertices whose
\* edges have been followed, none costs more than the walk so far; and where it
\* leaves them, it is longer than the cost of every visited vertex.
LEMMA WalksAreLonger ==
  ASSUME NEW g, NEW s, NEW t, NEW now, SearchInvariant(g, s, t, now), NEW r, Way(g, r), NEW K \in Nat,
         Reached(now, r[1]), now.cost[r[1]] <= K, r[Len(r)] \in now.visited
  PROVE  now.cost[r[Len(r)]] <= K + Length(g, r)
<1> DEFINE L == Len(r)
           cost == now.cost
<1>1. SearchTyped(g, s, t, now) /\ VisitedInv(g, t, now)
  BY DEF SearchInvariant
<1>2. /\ g \in Graphs /\ now.visited \subseteq Vertices
      /\ \A v \in Vertices : Reached(now, v) => cost[v] \in Nat
  BY <1>1, Types
<1>3. /\ L \in Nat \ {0} /\ \A i \in 1 .. L : r[i] \in Vertices
      /\ \A i \in Edges(r) : i \in 1 .. L /\ i + 1 \in 1 .. L /\ g[r[i]][r[i + 1]] \in Nat
  BY <1>2, LengthOfWay
<1>4. PICK f \in [1 .. L -> Nat] :
        /\ f[1] = 0
        /\ \A i \in Edges(r) : f[i + 1] = f[i] + g[r[i]][r[i + 1]]
        /\ Length(g, r) = f[L]
  BY <1>2, LengthOfWay
<1> DEFINE Covers(i) == Reached(now, r[i]) /\ cost[r[i]] <= K + f[i]
           Exceeds(i) == \A x \in now.visited : cost[x] <= K + f[i]
           T == {i \in 1 .. L : Covers(i) \/ Exceeds(i)}
<1>5. 1 \in T
  BY <1>3, <1>4
<1>6. ASSUME NEW i \in 1 .. L - 1, i \in T PROVE i + 1 \in T
  <2>1. i \in Edges(r)
    BY DEF Edges
  <2> DEFINE w == g[r[i]][r[i + 1]]
  <2>2. /\ i \in 1 .. L /\ i + 1 \in 1 .. L /\ w \in Nat /\ f[i] \in Nat /\ f[i + 1] = f[i] + w
        /\ r[i] \in Vertices /\ r[i + 1] \in Vertices
    BY <1>3, <1>4, <2>1
  <2>3. r[i + 1] \in Neighbours(g, r[i])
    BY <2>1, <2>2 DEF Way, Neighbours
  <2> HIDE DEF w
  <2>4. CASE Exceeds(i)
    <3>1. ASSUME NEW x \in now.visited PROVE cost[x] <= K + f[i + 1]
      <4>1. cost[x] <= K + f[i]
        BY <2>4
      <4>2. cost[x] \in Nat
        BY <1>1, <1>2 DEF VisitedInv
      <4> HIDE DEF cost
      <4> QED
        BY <2>2, <4>1, <4>2, StillWithin
    <3> QED
      BY <2>2, <3>1
  <2>5. CASE Covers(i) /\ r[i] \in now.visited /\ r[i] # t
    <3>1. Reached(now, r[i + 1]) /\ cost[r[i + 1]] <= cost[r[i]] + w
      BY <1>1, <2>3, <2>5 DEF VisitedInv, w
    <3>2. cost[r[i]] \in Nat /\ cost[r[i + 1]] \in Nat
      BY <1>2, <2>2, <2>5, <3>1
    <3> QED
      BY <2>2, <2>5, <3>1, <3>2
  <2>6. CASE Covers(i) /\ (r[i] \notin now.visited \/ r[i] = t)
    <3>1. ASSUME NEW x \in now.visited PROVE cost[x] <= K + f[i + 1]
      <4>1. cost[x] <= cost[r[i]]
        <5>1. CASE r[i] \notin now.visited
          BY <1>1, <2>2, <2>6, <5>1 DEF VisitedInv
        <5>2. CASE r[i] \in now.visited
          BY <1>1, <2>6, <5>2 DEF VisitedInv
        <5> QED
          BY <5>1, <5>2
      <4>2. cost[x] \in Nat /\ cost[r[i]] \in Nat
        BY <1>1, <1>2, <2>2, <2>6 DEF VisitedInv
      <4>3. cost[r[i]] <= K + f[i]
        BY <2>6
      <4> HIDE DEF cost
      <4>4. cost[x] <= K + f[i]
        BY <2>2, <4>1, <4>2, <4>3
      <4> QED
        BY <2>2, <4>2, <4>4, StillWithin
    <3> QED
      BY <2>2, <3>1
  <2> QED
    BY <1>6, <2>4, <2>5, <2>6
<1> HIDE DEF T
<1>7. 1 .. L \subseteq T
  BY <1>3, <1>5, <1>6, AllUpTo
<1>8. L \in T
  BY <1>3, <1>7
<1> QED
  BY <1>4, <1>8 DEF T

\* When the heap is empty, everything a walk from the source leads to was visited.
LEMMA WalksAreVisited ==
  ASSUME NEW g, NEW s, NEW t, NEW now, SearchInvariant(g, s, t, now), now.pq = {}, t \notin now.visited,
         NEW r, Way(g, r), r[1] = s
  PROVE  r[Len(r)] \in now.visited
<1> DEFINE L == Len(r)
           T == {i \in 1 .. L : r[i] \in now.visited}
<1>1. SearchTyped(g, s, t, now) /\ VisitedInv(g, t, now) /\ HeapInv(now) /\ TreeInv(g, s, now)
  BY DEF SearchInvariant
<1>2. g \in Graphs /\ s \in Vertices
  BY <1>1, Types
<1>3. /\ L \in Nat \ {0} /\ \A i \in 1 .. L : r[i] \in Vertices
      /\ \A i \in Edges(r) : i \in 1 .. L /\ i + 1 \in 1 .. L
  BY <1>2, LengthOfWay
<1>4. \A v \in Vertices : Reached(now, v) => v \in now.visited
  BY <1>1 DEF HeapInv
<1>5. 1 \in T
  <2>1. Reached(now, s)
    BY <1>1 DEF TreeInv, Reached, Inf
  <2> QED
    BY <1>2, <1>3, <1>4, <2>1
<1>6. ASSUME NEW i \in 1 .. L - 1, i \in T PROVE i + 1 \in T
  <2>1. i \in Edges(r)
    BY DEF Edges
  <2>2. i + 1 \in 1 .. L /\ r[i + 1] \in Vertices /\ r[i + 1] \in Neighbours(g, r[i])
    BY <1>3, <2>1 DEF Way, Neighbours
  <2>3. r[i] \in now.visited /\ r[i] # t
    BY <1>6
  <2>4. Reached(now, r[i + 1])
    BY <1>1, <2>2, <2>3 DEF VisitedInv
  <2> QED
    BY <1>4, <2>2, <2>4
<1> HIDE DEF T
<1>7. 1 .. L \subseteq T
  BY <1>3, <1>5, <1>6, AllUpTo
<1>8. L \in T
  BY <1>3, <1>7
<1> QED
  BY <1>8 DEF T

LEMMA VisitedDistance ==
  ASSUME NEW g, NEW s, NEW t, NEW now, SearchInvariant(g, s, t, now), NEW v \in now.visited
  PROVE  now.cost[v] = Distance(g, s, v)
<1>1. SearchTyped(g, s, t, now) /\ VisitedInv(g, t, now) /\ TreeInv(g, s, now)
  BY DEF SearchInvariant
<1>2. /\ g \in Graphs /\ s \in Vertices /\ v \in Vertices /\ Reached(now, v) /\ now.cost[v] \in Nat
  BY <1>1, Types DEF VisitedInv
<1>3. now.cost[s] = 0 /\ Reached(now, s)
  BY <1>1 DEF TreeInv, Reached, Inf
<1>4. PICK p \in PathsBetween[s][v] : TreePath(g, s, now, p, v) /\ Length(g, p) = now.cost[v]
  BY <1>1, <1>2 DEF TreeInv
<1>5. Way(g, p) /\ IsInjective(p) /\ p[1] = s /\ p[Len(p)] = v
  BY <1>2, <1>4, PathsAreSimple DEF TreePath, Way
<1>6. ASSUME NEW r, Way(g, r), r[1] = s, r[Len(r)] = v
      PROVE  now.cost[v] <= Length(g, r)
  <2>1. now.cost[v] <= 0 + Length(g, r)
    BY <1>3, <1>6, WalksAreLonger
  <2>2. Length(g, r) \in Nat
    BY <1>2, <1>6, LengthIsNat
  <2> QED
    BY <2>1, <2>2
<1> QED
  BY <1>2, <1>4, <1>5, <1>6, DistanceIs

-----------------------------------------------------------------------------
(* What the function returns.                                              *)

\* The walk back along the parents stops at the second vertex of the path.
LEMMA HopOfPath ==
  ASSUME NEW g, NEW s, NEW t, NEW now, SearchInvariant(g, s, t, now), NEW p, TreePath(g, s, now, p, t)
  PROVE  Len(p) >= 2 /\ NextHop(now, s, t) = p[2]
<1> DEFINE L == Len(p)
           H(f) == f = [v \in Vertices |->
                          IF now.parent[v] \in {s, None} THEN v ELSE f[now.parent[v]]]
           F == CHOOSE f : H(f)
<1>1. SearchTyped(g, s, t, now) /\ TreeInv(g, s, now)
  BY DEF SearchInvariant
<1>2. /\ s \in Vertices /\ t \in Vertices /\ t # s /\ None \notin Vertices
      /\ g \in Graphs
  BY <1>1, Types
<1>3. /\ p \in Seq(Vertices) /\ p # <<>> /\ p[1] = s /\ p[L] = t /\ IsInjective(p)
      /\ \A i \in Edges(p) : now.parent[p[i + 1]] = p[i]
      /\ Way(g, p)
  BY <1>2, PathsAreSimple DEF TreePath, Way
<1>4. L \in Nat \ {0} /\ \A i \in 1 .. L : p[i] \in Vertices
  BY <1>2, <1>3, LengthOfWay
<1>5. L >= 2 /\ 1 \in Edges(p) /\ 2 \in 1 .. L
  <2>1. L # 1
    BY <1>2, <1>3
  <2>2. \A k \in Nat \ {0} : k # 1 => k >= 2 /\ 1 \in 1 .. (k - 1) /\ 2 \in 1 .. k
    OBVIOUS
  <2>3. Edges(p) = 1 .. (L - 1)
    BY DEF Edges
  <2> HIDE DEF L
  <2> QED
    BY <1>4, <2>1, <2>2, <2>3
<1>6. \E f : H(f)
  <2>1. PICK hop \in [Vertices -> Vertices] : \A v \in Vertices :
          hop[v] = IF now.parent[v] \in {s, None} THEN v ELSE hop[now.parent[v]]
    BY <1>1 DEF TreeInv
  <2>2. H(hop)
    BY <2>1
  <2> QED
    BY <2>2
<1>7. H(F)
  BY <1>6
<1>8. NextHop(now, s, t) = F[t]
  BY DEF NextHop
<1> HIDE DEF F
<1>9. \A v \in Vertices : F[v] = IF now.parent[v] \in {s, None} THEN v ELSE F[now.parent[v]]
  BY <1>7, Zenon
<1> DEFINE T == {i \in 1 .. L : i = 1 \/ F[p[i]] = p[2]}
<1>10. 1 \in T
  BY <1>4
<1>11. ASSUME NEW i \in 1 .. L - 1, i \in T PROVE i + 1 \in T
  <2>1. i \in Edges(p) /\ i \in 1 .. L /\ i + 1 \in 1 .. L /\ p[i] \in Vertices /\ p[i + 1] \in Vertices
    BY <1>4 DEF Edges
  <2>2. now.parent[p[i + 1]] = p[i] /\ p[i] # None
    BY <1>2, <1>3, <2>1
  <2>3. CASE i = 1
    BY <1>3, <1>9, <2>1, <2>2, <2>3
  <2>4. CASE i # 1
    <3>1. p[i] # s
      <4>1. 1 \in 1 .. L
        BY <1>4
      <4> QED
        BY <1>3, <2>1, <2>4, <4>1, RangeByPosition
    <3>2. F[p[i + 1]] = F[p[i]]
      BY <1>9, <2>1, <2>2, <3>1
    <3>3. F[p[i]] = p[2]
      BY <1>11, <2>4
    <3> QED
      BY <2>1, <3>2, <3>3
  <2> QED
    BY <2>3, <2>4
<1> HIDE DEF T
<1>12. 1 .. L \subseteq T
  BY <1>4, <1>10, <1>11, AllUpTo
<1>13. L \in T /\ L # 1
  BY <1>4, <1>5, <1>12
<1>14. F[t] = p[2]
  BY <1>3, <1>13 DEF T
<1> QED
  BY <1>5, <1>8, <1>14

\* When the search is over the cost of the target is its distance, and what remains
\* of it after the first edge is the distance from the next hop: a shorter way from
\* there would make a shorter walk from the source.
LEMMA OverIsShortest ==
  ASSUME NEW g, NEW s, NEW t, NEW now, SearchInvariant(g, s, t, now), Over(t, now)
  PROVE  LET cost == now.cost[t]
             hop == NextHop(now, s, t)
         IN /\ IsShortestRoute(g, s, t, cost, hop)
            /\ cost = Inf => \A r : ~(Way(g, r) /\ r[1] = s /\ r[Len(r)] = t)
            /\ cost # Inf => cost \in Nat /\ g[s][hop] \in Nat /\ Distance(g, hop, t) \in Nat
<1>1. SearchTyped(g, s, t, now) /\ VisitedInv(g, t, now) /\ TreeInv(g, s, now) /\ HeapInv(now)
  BY DEF SearchInvariant
<1>2. /\ g \in Graphs /\ s \in Vertices /\ t \in Vertices /\ t # s
      /\ now.visited \subseteq Vertices
      /\ \A v \in Vertices : now.cost[v] \in Nat <=> Reached(now, v)
  BY <1>1, Types
<1>3. t \in now.visited <=> Reached(now, t)
  BY <1>1, <1>2 DEF Over, HeapInv, VisitedInv
<1>4. CASE ~Reached(now, t)
  <2>1. now.pq = {} /\ t \notin now.visited
    BY <1>3, <1>4 DEF Over
  <2>2. \A r : ~(Way(g, r) /\ r[1] = s /\ r[Len(r)] = t)
    BY <2>1, WalksAreVisited
  <2>3. Distance(g, s, t) = Inf
    BY <1>2, <2>2, NoDistance
  <2> QED
    BY <1>4, <2>2, <2>3 DEF Reached, IsShortestRoute
<1>5. CASE Reached(now, t)
  <2>1. t \in now.visited /\ now.cost[t] \in Nat
    BY <1>2, <1>3, <1>5
  <2>2. now.cost[t] = Distance(g, s, t)
    BY <2>1, VisitedDistance
  <2>3. PICK p \in PathsBetween[s][t] : TreePath(g, s, now, p, t) /\ Length(g, p) = now.cost[t]
    BY <1>1, <1>2, <1>5 DEF TreeInv
  <2> DEFINE hop == NextHop(now, s, t)
             w == g[s][hop]
             q == Tail(p)
             d == Length(g, q)
  <2>4. /\ p \in Seq(Vertices) /\ p # <<>> /\ p[1] = s /\ p[Len(p)] = t /\ IsInjective(p)
        /\ Way(g, p) /\ Len(p) \in Nat
    BY <1>2, <2>3, PathsAreSimple, LenProperties DEF TreePath, Way
  <2>5. Len(p) >= 2 /\ hop = p[2]
    BY <2>3, HopOfPath
  <2>6. 1 \in Edges(p) /\ p[1 + 1] = hop /\ 2 \in 1 .. Len(p)
    BY <2>4, <2>5 DEF Edges
  <2>7. hop \in Vertices /\ w \in Nat /\ w # None /\ s \in now.visited
    <3>1. p[2] \in Vertices
      BY <2>4, <2>6, ElementOfSeq
    <3>2. g[p[1]][p[1 + 1]] # None /\ g[p[1]][p[1 + 1]] \in Nat
      BY <1>2, <2>4, <2>6, LengthOfWay DEF Way
    <3>3. p[1] \in now.visited
      BY <2>3, <2>6 DEF TreePath
    <3> QED
      BY <2>4, <2>5, <2>6, <3>1, <3>2, <3>3
  <2>8. hop \in Neighbours(g, s)
    BY <2>7 DEF Neighbours
  <2>9. /\ Way(g, q) /\ Len(q) = Len(p) - 1 /\ \A i \in 1 .. Len(p) - 1 : q[i] = p[i + 1]
        /\ Length(g, p) = d + w
    BY <1>2, <2>4, <2>5, LengthOfTail
  <2>10. IsInjective(q)
    BY <2>4, ListTail
  <2>11. d \in Nat
    BY <1>2, <2>9, LengthIsNat
  <2> HIDE DEF hop, w, q, d
  <2>12. q[1] = hop /\ q[Len(q)] = t
    <3>1. 1 \in 1 .. Len(p) - 1 /\ Len(p) - 1 \in 1 .. Len(p) - 1 /\ (Len(p) - 1) + 1 = Len(p)
      BY <2>4, <2>5
    <3>2. q[1] = p[1 + 1] /\ q[Len(p) - 1] = p[(Len(p) - 1) + 1]
      BY <2>9, <3>1
    <3> QED
      BY <2>4, <2>6, <2>9, <3>1, <3>2
  <2>13. ASSUME NEW r, Way(g, r), r[1] = hop, r[Len(r)] = t
         PROVE  d <= Length(g, r)
    <3>1. Reached(now, hop) /\ now.cost[hop] <= now.cost[s] + w /\ now.cost[s] = 0
      BY <1>1, <1>2, <2>7, <2>8 DEF VisitedInv, TreeInv, w
    <3>2. now.cost[hop] <= w
      BY <1>2, <2>7, <3>1
    <3>3. now.cost[t] <= w + Length(g, r)
      BY <2>1, <2>7, <2>13, <3>1, <3>2, WalksAreLonger
    <3>4. now.cost[t] = d + w /\ Length(g, r) \in Nat
      BY <1>2, <2>3, <2>9, <2>13, LengthIsNat
    <3> QED
      BY <2>7, <2>11, <3>3, <3>4
  <2>14. Distance(g, hop, t) = d
    BY <1>2, <2>7, <2>9, <2>10, <2>11, <2>12, <2>13, DistanceIs DEF d
  <2>15. now.cost[t] = w + Distance(g, hop, t)
    BY <2>3, <2>7, <2>9, <2>11, <2>14
  <2>16. now.cost[t] # Inf
    BY <1>5 DEF Reached
  <2> QED
    BY <2>1, <2>2, <2>7, <2>8, <2>11, <2>14, <2>15, <2>16 DEF hop, w, IsShortestRoute
<1> QED
  BY <1>4, <1>5

-----------------------------------------------------------------------------
(* The loop ends.                                                          *)

\* What the rounds use up: the pairs in the heap, and those that the vertices not
\* visited may still push.
Remaining(now) ==
  Cardinality(now.pq) + Cardinality(Vertices) * Cardinality(Vertices \ now.visited)

LEMMA RemainingIsNat ==
  ASSUME NEW g, NEW s, NEW t, NEW now, SearchTyped(g, s, t, now)
  PROVE  /\ Cardinality(now.pq) \in Nat /\ Cardinality(Vertices) \in Nat
         /\ IsFiniteSet(Vertices \ now.visited) /\ Cardinality(Vertices \ now.visited) \in Nat
         /\ Remaining(now) \in Nat
         /\ Remaining(now) = 0 => now.pq = {}
<1>1. IsFiniteSet(now.pq) /\ IsFiniteSet(Vertices \ now.visited)
  BY VertexAssumption, FS_Subset DEF SearchTyped
<1>2. /\ Cardinality(now.pq) \in Nat /\ Cardinality(Vertices) \in Nat
      /\ Cardinality(Vertices \ now.visited) \in Nat
  BY <1>1, VertexAssumption, FS_CardinalityType
<1> DEFINE a == Cardinality(now.pq)
           b == Cardinality(Vertices)
           k == Cardinality(Vertices \ now.visited)
<1>3. a \in Nat /\ b \in Nat /\ k \in Nat /\ Remaining(now) = a + b * k
  BY <1>2 DEF Remaining
<1> HIDE DEF a, b, k
<1>4. b * k \in Nat
  BY <1>3
<1>5. Remaining(now) \in Nat /\ (Remaining(now) = 0 => a = 0)
  BY <1>3, <1>4
<1>6. Remaining(now) = 0 => now.pq = {}
  BY <1>1, <1>5, FS_EmptySet DEF a
<1> QED
  BY <1>1, <1>2, <1>5, <1>6

\* A pair is taken, and a vertex is visited before it pushes its neighbours.
LEMMA RoundUsesUp ==
  ASSUME NEW g, NEW s, NEW t, NEW now, NEW after,
         SearchInvariant(g, s, t, now), RoundStep(g, t, now, after)
  PROVE  Remaining(after) < Remaining(now)
<1> DEFINE pair == <<TurnCost(now), Turn(now)>>
           a == Cardinality(now.pq)
           b == Cardinality(Vertices)
           k == Cardinality(Vertices \ now.visited)
           kept == now.pq \ {pair}
<1>1. SearchTyped(g, s, t, now) /\ SearchInvariant(g, s, t, after) /\ SearchTyped(g, s, t, after)
  BY RoundInv DEF SearchInvariant
<1>2. /\ a \in Nat /\ b \in Nat /\ k \in Nat /\ Remaining(now) = a + b * k
      /\ IsFiniteSet(Vertices \ now.visited) /\ IsFiniteSet(now.pq)
  BY <1>1, RemainingIsNat DEF Remaining, SearchTyped
<1>3. pair \in now.pq /\ Turn(now) \in Vertices
  BY RoundResult, TurnResult
<1> HIDE DEF pair
<1>4. IsFiniteSet(kept) /\ Cardinality(kept) = a - 1
  BY <1>2, <1>3, FS_RemoveElement
<1> HIDE DEF kept
<1>5. ASSUME Turn(now) \notin now.visited
      PROVE  Cardinality(Vertices \ (now.visited \cup {Turn(now)})) = k - 1 /\ k - 1 \in Nat
  <2> DEFINE left == Vertices \ now.visited
  <2>1. Vertices \ (now.visited \cup {Turn(now)}) = left \ {Turn(now)} /\ Turn(now) \in left
    BY <1>3, <1>5
  <2> HIDE DEF left
  <2>2. IsFiniteSet(left) /\ k = Cardinality(left)
    BY <1>2 DEF left
  <2>3. Cardinality(left \ {Turn(now)}) = k - 1 /\ IsFiniteSet(left \ {Turn(now)})
    BY <2>1, <2>2, FS_RemoveElement
  <2>4. Cardinality(left \ {Turn(now)}) \in Nat
    BY <2>3, FS_CardinalityType
  <2> QED
    BY <2>1, <2>3, <2>4
<1>6. b * (k - 1) = b * k - b
  BY <1>2
<1>7. CASE Turn(now) \in now.visited
  <2>1. after.pq = kept /\ after.visited = now.visited
    BY <1>7, RoundResult DEF kept, pair
  <2>2. Remaining(after) = (a - 1) + b * k
    BY <1>4, <2>1 DEF Remaining
  <2> HIDE DEF a, b, k
  <2>3. b * k \in Nat
    BY <1>2
  <2> QED
    BY <1>2, <2>2, <2>3
<1>8. CASE Turn(now) \notin now.visited /\ Turn(now) = t
  <2>1. after.pq = kept /\ after.visited = now.visited \cup {Turn(now)}
    BY <1>8, RoundResult DEF kept, pair
  <2>2. Remaining(after) = (a - 1) + b * (k - 1)
    BY <1>4, <1>5, <1>8, <2>1 DEF Remaining
  <2> HIDE DEF a, b, k
  <2>3. b * k \in Nat
    BY <1>2
  <2> QED
    BY <1>2, <1>6, <2>2, <2>3
<1>9. CASE Turn(now) \notin now.visited /\ Turn(now) # t
  <2> DEFINE w == [v \in Vertices |-> TurnCost(now) + g[Turn(now)][v]]
             pushed == {<<w[v], v>> : v \in Better(g, now)}
  <2>1. Better(g, now) \in SUBSET Vertices
    BY DEF Better, Neighbours
  <2>2. /\ after.pq = kept \cup {<<TurnCost(now) + g[Turn(now)][v], v>> : v \in Better(g, now)}
        /\ after.visited = now.visited \cup {Turn(now)}
    BY <1>9, RoundResult DEF kept, pair
  <2>3. {<<TurnCost(now) + g[Turn(now)][v], v>> : v \in Better(g, now)} = pushed
    BY <2>1
  <2> HIDE DEF w
  <2>4. IsFiniteSet(pushed) /\ Cardinality(pushed) \in Nat /\ Cardinality(pushed) <= b
    BY <2>1, PairsFew
  <2> HIDE DEF pushed
  <2>5. after.pq = kept \cup pushed
    BY <2>2, <2>3
  <2>6. Cardinality(after.pq) <= (a - 1) + b /\ Cardinality(after.pq) \in Nat
    <3>1. IsFiniteSet(kept \cap pushed)
      BY <1>4, FS_Subset
    <3>2. Cardinality(kept \cap pushed) \in Nat
      BY <3>1, FS_CardinalityType
    <3>3. Cardinality(after.pq) = Cardinality(kept) + Cardinality(pushed) - Cardinality(kept \cap pushed)
      BY <1>4, <2>4, <2>5, FS_Union
    <3>4. Cardinality(after.pq) \in Nat
      BY <1>1, RemainingIsNat
    <3> QED
      BY <1>2, <1>4, <2>4, <3>2, <3>3, <3>4
  <2>7. Remaining(after) = Cardinality(after.pq) + b * (k - 1)
    BY <1>5, <1>9, <2>2 DEF Remaining
  <2> HIDE DEF a, b, k
  <2>8. b * k \in Nat
    BY <1>2
  <2> QED
    BY <1>2, <1>6, <2>6, <2>7, <2>8
<1> QED
  BY <1>7, <1>8, <1>9

\* The searches after so many rounds.
Runs(f, g, s, t, L) ==
  f = [n \in 0 .. L |-> IF n = 0 THEN Start(s) ELSE RoundUnlessOver(g, t, f[n - 1])]

LEMMA RunsExist ==
  ASSUME NEW g, NEW s, NEW t, NEW L \in Nat
  PROVE  \E f : Runs(f, g, s, t, L)
<1> DEFINE T == {n \in 1 .. L + 1 : \E f : Runs(f, g, s, t, n - 1)}
<1>1. 1 \in T
  <2> DEFINE f == [n \in 0 .. 0 |-> Start(s)]
  <2>1. f = [n \in 0 .. 0 |-> IF n = 0 THEN Start(s) ELSE RoundUnlessOver(g, t, f[n - 1])]
    <3>1. \A n \in 0 .. 0 : n = 0
      OBVIOUS
    <3> QED
      BY <3>1
  <2>2. Runs(f, g, s, t, 0)
    BY <2>1 DEF Runs
  <2>3. 1 - 1 = 0
    OBVIOUS
  <2> HIDE DEF f
  <2> QED
    BY <2>2, <2>3
<1>2. ASSUME NEW n \in 1 .. L, n \in T PROVE n + 1 \in T
  <2> DEFINE k == n - 1
  <2>1. k \in Nat /\ n = k + 1 /\ n + 1 \in 1 .. L + 1 /\ (n + 1) - 1 = n
    OBVIOUS
  <2>2. PICK f : f = [i \in 0 .. k |-> IF i = 0 THEN Start(s) ELSE RoundUnlessOver(g, t, f[i - 1])]
    BY <1>2 DEF Runs
  <2> HIDE DEF k
  <2> DEFINE h == [i \in 0 .. n |-> IF i \in 0 .. k THEN f[i] ELSE RoundUnlessOver(g, t, f[k])]
  <2>3. ASSUME NEW i \in 0 .. n PROVE h[i] = IF i = 0 THEN Start(s) ELSE RoundUnlessOver(g, t, h[i - 1])
    <3>1. CASE i \in 0 .. k
      <4>1. i = 0 \/ i - 1 \in 0 .. k
        BY <2>1, <3>1
      <4>2. f[i] = IF i = 0 THEN Start(s) ELSE RoundUnlessOver(g, t, f[i - 1])
        BY <2>2, <3>1
      <4>3. i = 0 \/ h[i - 1] = f[i - 1]
        BY <2>1, <4>1
      <4>4. h[i] = f[i]
        BY <3>1
      <4> HIDE DEF h
      <4> QED
        BY <4>2, <4>3, <4>4
    <3>2. CASE i = n
      <4>1. i - 1 = k /\ k \in 0 .. k /\ k \in 0 .. n /\ i \notin 0 .. k /\ i # 0
        BY <2>1, <3>2
      <4>2. h[i] = RoundUnlessOver(g, t, f[k]) /\ h[k] = f[k]
        BY <4>1
      <4> HIDE DEF h
      <4> QED
        BY <4>1, <4>2
    <3> QED
      BY <2>1, <3>1, <3>2
  <2>4. h = [i \in 0 .. n |-> h[i]]
    OBVIOUS
  <2> HIDE DEF h
  <2>5. Runs(h, g, s, t, n)
    BY <2>3, <2>4, Zenon DEF Runs
  <2> QED
    BY <2>1, <2>5
<1> HIDE DEF T
<1>3. L + 1 \in Nat \ {0} /\ (L + 1) - 1 = L
  OBVIOUS
<1>4. 1 .. L + 1 \subseteq T
  BY <1>1, <1>2, <1>3, AllUpTo
<1>5. L + 1 \in T
  BY <1>3, <1>4
<1> QED
  BY <1>3, <1>5 DEF T

\* The loop of dijkstra comes to its end for every graph, source and target, after
\* one round more than the square of the number of vertices at most: when as many
\* have been counted there is nothing left in the heap, or it was over before.
THEOREM LoopEnds ==
  ASSUME NEW g \in Graphs, NEW s \in Vertices, NEW t \in Vertices \ {s}
  PROVE  Over(t, Finished(g, s, t)) /\ SearchInvariant(g, s, t, Finished(g, s, t))
<1> DEFINE L == RoundLimit
           F == CHOOSE f : Runs(f, g, s, t, L)
           P(now) == SearchInvariant(g, s, t, now)
<1>1. L \in Nat
  <2>1. Cardinality(Vertices) \in Nat
    BY VertexAssumption, FS_CardinalityType
  <2> QED
    BY <2>1 DEF RoundLimit
<1>2. Runs(F, g, s, t, L)
  BY <1>1, RunsExist
<1>3. Finished(g, s, t) = F[L]
  BY DEF Finished, Runs
<1> HIDE DEF F
<1>4. /\ F[0] = Start(s)
      /\ \A n \in 0 .. L - 1 : F[n + 1] = RoundUnlessOver(g, t, F[n])
  <2>1. \A n \in 0 .. L : F[n] = IF n = 0 THEN Start(s) ELSE RoundUnlessOver(g, t, F[n - 1])
    BY <1>2, Zenon DEF Runs
  <2>2. \A n \in 0 .. L - 1 : n + 1 \in 0 .. L /\ n + 1 # 0 /\ (n + 1) - 1 = n
    BY <1>1
  <2> QED
    BY <1>1, <2>1, <2>2
<1> DEFINE T == {n \in 1 .. L + 1 : /\ P(F[n - 1])
                                    /\ Over(t, F[n - 1]) \/ Remaining(F[n - 1]) + (n - 1) <= L}
<1> HIDE DEF P
<1>5. 1 \in T
  <2>1. P(F[0])
    BY <1>4, StartInv DEF P
  <2>2. Remaining(F[0]) + 0 <= L
    <3>1. F[0].pq = {<<0, s>>} /\ F[0].visited = {}
      BY <1>4 DEF Start
    <3>2. Cardinality(F[0].pq) = 1 /\ Vertices \ F[0].visited = Vertices
      BY <3>1, FS_Singleton
    <3>3. Remaining(F[0]) = RoundLimit
      BY <3>2 DEF Remaining, RoundLimit
    <3> QED
      BY <1>1, <3>3
  <2>3. 1 - 1 = 0 /\ 1 \in 1 .. L + 1
    BY <1>1
  <2> QED
    BY <2>1, <2>2, <2>3
<1> HIDE DEF L
<1>6. ASSUME NEW n \in 1 .. L, n \in T PROVE n + 1 \in T
  <2> DEFINE k == n - 1
             now == F[k]
             after == F[n]
  <2>1. k \in 0 .. L - 1 /\ n = k + 1 /\ (n + 1) - 1 = n /\ n + 1 \in 1 .. L + 1 /\ k \in Nat
    BY <1>1
  <2>2. after = RoundUnlessOver(g, t, now)
    BY <1>4, <2>1
  <2>3. P(now) /\ (Over(t, now) \/ Remaining(now) + k <= L)
    BY <1>6
  <2> HIDE DEF k, now, after
  <2>4. P(after) /\ (Over(t, after) \/ Remaining(after) + n <= L)
    <3>1. CASE Over(t, now)
      BY <2>2, <2>3, <3>1 DEF RoundUnlessOver
    <3>2. CASE ~Over(t, now)
      <4>1. RoundStep(g, t, now, after)
        BY <2>2, <3>2 DEF RoundUnlessOver, RoundStep
      <4>2. P(after) /\ Remaining(after) < Remaining(now)
        BY <2>3, <4>1, RoundInv, RoundUsesUp DEF P
      <4>3. Remaining(now) \in Nat /\ Remaining(after) \in Nat
        BY <2>3, <4>2, RemainingIsNat DEF SearchInvariant, P
      <4> QED
        BY <1>1, <2>1, <2>3, <3>2, <4>2, <4>3
    <3> QED
      BY <3>1, <3>2
  <2> QED
    BY <2>1, <2>4 DEF after
<1> HIDE DEF T
<1>7. L + 1 \in Nat \ {0} /\ (L + 1) - 1 = L /\ \A n \in 1 .. (L + 1) - 1 : n \in 1 .. L
  BY <1>1
<1>8. L + 1 \in T
  <2>1. 1 .. L + 1 \subseteq T
    BY <1>5, <1>6, <1>7, AllUpTo
  <2> QED
    BY <1>7, <2>1
<1>9. P(F[L]) /\ (Over(t, F[L]) \/ Remaining(F[L]) + L <= L)
  BY <1>7, <1>8 DEF T
<1>10. Remaining(F[L]) \in Nat /\ (Remaining(F[L]) = 0 => F[L].pq = {})
  BY <1>9, RemainingIsNat DEF SearchInvariant, P
<1>11. Over(t, F[L])
  BY <1>1, <1>9, <1>10 DEF Over
<1> QED
  BY <1>3, <1>9, <1>11 DEF P

\* What dijkstra returns is a shortest route, for every graph, source and target.
\* The cost is infinite only if no walk leads from the source to the target.
THEOREM RouteIsShortest ==
  ASSUME NEW g \in Graphs, NEW s \in Vertices, NEW t \in Vertices \ {s}
  PROVE  LET cost == Route(g, s, t).cost
             hop == Route(g, s, t).hop
         IN /\ IsShortestRoute(g, s, t, cost, hop)
            /\ cost = Inf => \A r : ~(Way(g, r) /\ r[1] = s /\ r[Len(r)] = t)
            /\ cost # Inf => cost \in Nat /\ g[s][hop] \in Nat /\ Distance(g, hop, t) \in Nat
<1> DEFINE now == Finished(g, s, t)
<1>1. Over(t, now) /\ SearchInvariant(g, s, t, now)
  BY LoopEnds
<1>2. Route(g, s, t) = [cost |-> now.cost[t], hop |-> NextHop(now, s, t)]
  BY DEF Route
<1>3. Route(g, s, t).cost = now.cost[t] /\ Route(g, s, t).hop = NextHop(now, s, t)
  BY <1>2
<1> HIDE DEF now
<1> QED
  BY <1>1, <1>3, OverIsShortest

-----------------------------------------------------------------------------
(* The machine.                                                            *)

LEMMA InitInv ==
  Init => DijkstraInvariant
<1> SUFFICES ASSUME Init PROVE DijkstraInvariant
  OBVIOUS
<1>1. graph \in [Vertices -> [Vertices -> Costs \cup {None}]]
  <2>1. PICK weight \in [Pairs -> Costs \cup {None}] : graph = GraphOf(weight)
    BY DEF Init
  <2>2. ASSUME NEW u \in Vertices, NEW v \in Vertices
        PROVE  (CASE u < v -> weight[<<u, v>>] [] v < u -> weight[<<v, u>>] [] OTHER -> None) \in Costs \cup {None}
    <3>1. u < v => <<u, v>> \in Pairs
      BY DEF Pairs
    <3>2. v < u => <<v, u>> \in Pairs
      BY DEF Pairs
    <3>3. u < v => weight[<<u, v>>] \in Costs \cup {None}
      BY <3>1
    <3>4. v < u => weight[<<v, u>>] \in Costs \cup {None}
      BY <3>2
    <3> QED
      BY <3>3, <3>4, VertexAssumption
  <2> QED
    BY <2>1, <2>2 DEF GraphOf
<1>2. graph \in Graphs
  BY <1>1, CostsAreNumbers
<1>3. SearchInvariant(graph, source, target, search)
  BY <1>2, StartInv DEF Init
<1>4. TypeOK
  BY <1>1, <1>3 DEF SearchInvariant, SearchTyped, TypeOK
<1> QED
  BY <1>3, <1>4 DEF DijkstraInvariant

LEMMA StepInv ==
  DijkstraInvariant /\ [Step]_vars => DijkstraInvariant'
<1> SUFFICES ASSUME DijkstraInvariant, [Step]_vars PROVE DijkstraInvariant'
  OBVIOUS
<1>1. TypeOK /\ SearchInvariant(graph, source, target, search)
  BY DEF DijkstraInvariant
<1>2. CASE Step
  <2>1. UNCHANGED <<graph, source, target>> /\ RoundStep(graph, target, search, search')
    BY <1>2 DEF Step, RoundStep
  <2>2. SearchInvariant(graph, source, target, search')
    BY <1>1, <2>1, RoundInv
  <2>3. TypeOK'
    BY <1>1, <2>1, <2>2 DEF TypeOK, SearchInvariant, SearchTyped
  <2> QED
    BY <2>1, <2>2, <2>3 DEF DijkstraInvariant
<1>3. CASE UNCHANGED vars
  <2>1. UNCHANGED <<graph, source, target, search>>
    BY <1>3 DEF vars
  <2> QED
    BY <1>1, <2>1 DEF DijkstraInvariant, TypeOK
<1> QED
  BY <1>2, <1>3

\* The search has visited vertices in the order of their costs and followed all
\* their edges; every cost is the length of a path along the parents.
THEOREM Invariance == Spec => []DijkstraInvariant
BY InitInv, StepInv, PTL DEF Spec

\* A reached vertex has a cost of which the vertex it was reached from has the rest.
THEOREM CostsAlongParents == Spec => []CostsAreWalks(graph, source, search)
<1>1. DijkstraInvariant => CostsAreWalks(graph, source, search)
  BY DEF DijkstraInvariant, SearchInvariant
<1> QED
  BY Invariance, <1>1, PTL

\* No vertex is its own ancestor, even if edges cost nothing.
THEOREM NoAncestorOfItself == Spec => []ParentsAcyclic(search)
<1>1. DijkstraInvariant => ParentsAcyclic(search)
  BY DEF DijkstraInvariant, SearchInvariant
<1> QED
  BY Invariance, <1>1, PTL

\* The cost with which a vertex is visited is its distance from the source.
THEOREM VisitedHaveDistance == Spec => []VisitedAreFinal
<1>1. DijkstraInvariant => VisitedAreFinal
  BY VisitedDistance DEF VisitedAreFinal, DijkstraInvariant
<1> QED
  BY Invariance, <1>1, PTL

\* For every graph whose edges cost nothing or more, every source and every target:
\* dijkstra returns the distance and the next hop of a shortest path, or infinity
\* if and only if there is no path.
THEOREM Correctness == Spec => []ReturnsShortestPath
<1>1. DijkstraInvariant => ReturnsShortestPath
  BY OverIsShortest DEF ReturnsShortestPath, DijkstraInvariant
<1> QED
  BY Invariance, <1>1, PTL

\* Every round uses up some of what there is to do, so that there are no more
\* rounds than RoundLimit whatever the graph.
THEOREM RoundsUseUp ==
  Spec => [](Remaining(search) \in Nat) /\ [][Remaining(search') < Remaining(search)]_vars
<1>1. DijkstraInvariant => Remaining(search) \in Nat
  BY RemainingIsNat DEF DijkstraInvariant, SearchInvariant
<1>2. DijkstraInvariant /\ [Step]_vars => [Remaining(search') < Remaining(search)]_vars
  <2> SUFFICES ASSUME DijkstraInvariant, Step PROVE Remaining(search') < Remaining(search)
    OBVIOUS
  <2>1. RoundStep(graph, target, search, search') /\ SearchInvariant(graph, source, target, search)
    BY DEF Step, RoundStep, DijkstraInvariant
  <2> QED
    BY <2>1, RoundUsesUp
<1> QED
  BY Invariance, <1>1, <1>2, PTL DEF Spec
=============================================================================
