----------------------------- MODULE MCTopology -----------------------------
(***************************************************************************)
(* Topology files of up to four links, two of whose ids are one number.    *)
(***************************************************************************)
EXTENDS TopologyInv, TLC

CONSTANTS a, b, c, d

KeysAsNumbers == ("1" :> 1) @@ ("01" :> 1) @@ ("2" :> 2) @@ ("3" :> 3)

\* Ids of routers are only compared for equality.
AnyRouters == Permutations(RouterIds)
=============================================================================
