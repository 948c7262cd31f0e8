-------------------------------- MODULE Paths --------------------------------
(***************************************************************************)
(* The distance of two vertices by its definition, the length of a         *)
(* shortest path over all paths: what dijkstra is compared with.           *)
(***************************************************************************)
EXTENDS ShortestPath, Sequences, FiniteSetsExt, Functions

\* The sequences of different vertices from u to v.
PathsBetween ==
  [u \in Vertices |-> [v \in Vertices |->
     {p \in UNION {[1 .. n -> Vertices] : n \in 1 .. Cardinality(Vertices)} :
        p[1] = u /\ p[Len(p)] = v /\ IsInjective(p)}]]

Edges(p) == 1 .. Len(p) - 1

Length(g, p) ==
  LET up_to[n \in 1 .. Len(p)] == IF n = 1 THEN 0 ELSE up_to[n - 1] + g[p[n - 1]][p[n]]
  IN up_to[Len(p)]

\* Those along edges of the graph.
PathsIn(g, u, v) ==
  {p \in PathsBetween[u][v] : \A i \in Edges(p) : g[p[i]][p[i + 1]] # None}

Distance(g, u, v) ==
  LET lengths == {Length(g, p) : p \in PathsIn(g, u, v)}
  IN IF lengths = {} THEN Inf ELSE Min(lengths)

\* The cost is the distance, infinite if there is no way, and the way goes on from
\* the hop, a neighbour, with what remains of the distance.
IsShortestRoute(g, u, v, cost, hop) ==
  /\ cost = Distance(g, u, v)
  /\ cost # Inf => /\ hop \in Neighbours(g, u)
                   /\ cost = g[u][hop] + Distance(g, hop, v)
=============================================================================
