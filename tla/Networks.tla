------------------------------- MODULE Networks ------------------------------
(***************************************************************************)
(* The networks that the forwarding emulator of a3 accepts: what Topology  *)
(* says of its topology files, and what LinkState and RoutingTable take    *)
(* for granted.                                                            *)
(***************************************************************************)
EXTENDS FiniteSets

\* No router is linked to itself, no two links join the same routers, and there is
\* no way to part the routers without cutting a link.
IsNetwork(nodes, edges, ends) ==
  /\ IsFiniteSet(nodes)
  /\ ends \in [edges -> SUBSET nodes]
  /\ \A l \in edges : \E u, v \in nodes : u # v /\ ends[l] = {u, v}
  /\ \A k, l \in edges : ends[k] = ends[l] => k = l
  /\ \A part \in SUBSET nodes : part \notin {{}, nodes} =>
       \E l \in edges : ends[l] \cap part # {} /\ ~ ends[l] \subseteq part
=============================================================================
