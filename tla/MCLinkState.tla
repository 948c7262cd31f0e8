----------------------------- MODULE MCLinkState -----------------------------
(***************************************************************************)
(* Topologies for LinkState: a line of routers.                            *)
(***************************************************************************)
EXTENDS LinkStateInv

LineEnds == [l \in Links |-> {l, l + 1}]
LineCost == [l \in Links |-> l]
=============================================================================
