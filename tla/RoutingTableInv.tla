--------------------------- MODULE RoutingTableInv ---------------------------
(***************************************************************************)
(* The inductive invariant behind the safety properties of RoutingTable.   *)
(* It rests on FloodInv, which the flooding keeps with or without tables.  *)
(***************************************************************************)
EXTENDS RoutingTable, LinkStateInv

\* The part of the network that router r knows. Its costs need no mention: KnownInv
\* says that r has the right one for every link in it.
Known(r) == Graph(links[r], Cost)

\* The table is never older than what has been learnt: an entry for each router
\* of the graph, and in it what dijkstra says of the graph as it is now.
TableInv ==
  /\ DOMAIN routing_table = Routers
  /\ \A r \in Routers :
       /\ DOMAIN routing_table[r] = InGraph(Known(r)) \ {r}
       /\ \A t \in DOMAIN routing_table[r] : routing_table[r][t] = SP!Route(Known(r), r, t)

\* No fault is an action of TablesNext.
RoutingInv ==
  /\ FloodInv
  /\ TableInv
  /\ faults = {}
=============================================================================
