---------------------------- MODULE MCRoutingTable ----------------------------
(***************************************************************************)
(* RoutingTable on a triangle whose third link costs more than the way     *)
(* round, so that a better route turns up after a worse one.               *)
(***************************************************************************)
EXTENDS RoutingTable, SequencesExt

TriangleEnds == [l \in Links |-> {l, (l % 3) + 1}]
TriangleCost == [l \in Links |-> IF l = 3 THEN 3 ELSE 1]

\* The datagrams that will make a difference: an LSA that was seen before, or
\* that will have been when its turn comes, is dropped without a trace.
Effective(r) ==
  LET new(i) == \/ inbox[r][i].type = "reply"
                \/ /\ Key(inbox[r][i]) \notin seen[r]
                   /\ \A j \in 1 .. i - 1 : inbox[r][j].type = "lsa" =>
                        Key(inbox[r][j]) # Key(inbox[r][i])
  IN SelectSeq([i \in 1 .. Len(inbox[r]) |-> <<new(i), inbox[r][i]>>], LAMBDA x : x[1])

EffectiveState ==
  <<clients, replied, phase, neighbors, link_costs, links, seen, unsent, routing_table,
    [r \in Routers |-> Effective(r)]>>

\* A bound: the loops of sends of two routers do not overlap.
OneLoopAtATime == Cardinality({r \in Routers : unsent[r] # {}}) <= 1
=============================================================================
