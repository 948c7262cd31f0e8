----------------------------- MODULE TlsFlowsInv -----------------------------
(***************************************************************************)
(* The inductive invariant behind the safety properties of TlsFlows.       *)
(***************************************************************************)
EXTENDS TlsFlows

\* The records still to be read are the last ones of the packet, and none of those
\* read was one that cannot be parsed.
TodoInv ==
  state = "records" =>
    /\ now # 0
    /\ Len(todo) <= Len(Packet.stream)
    /\ \A i \in 1 .. Len(todo) : todo[i] = Packet.stream[Len(Packet.stream) - Len(todo) + i]
    /\ \A r \in 1 .. Len(Packet.stream) - Len(todo) : Packet.stream[r] # "partial"

\* h is the last ClientHello of its key.
Latest(p, h) == \A g \in Hellos(p) : KeyOf(p, g) = KeyOf(p, h) => ~Before(h, g)

\* With the packets p, the dictionary has the flows of the latest ClientHellos, one
\* for each key that has had any, and the list those of the others.
Held(p, past, last) ==
  /\ IsFiniteSet(Hellos(p)) /\ Cardinality(Hellos(p)) = Len(past) + Len(last)
  /\ \A i, j \in 1 .. Len(last) : last[i].key = last[j].key => i = j
  /\ \A h \in Hellos(p) : \E i \in 1 .. Len(last) : last[i].key = KeyOf(p, h)
  /\ \A i \in 1 .. Len(last) : \E h \in Hellos(p) : Latest(p, h) /\ last[i] = FlowOf(p, h)
  /\ \A i \in 1 .. Len(past) : \E h \in Hellos(p) : ~Latest(p, h) /\ past[i] = FlowOf(p, h)
  /\ \A h \in Hellos(p) : ~Latest(p, h) => \E i \in 1 .. Len(past) : past[i] = FlowOf(p, h)

FlowsInv == \E p \in {Packets} : Held(p, flows, flows_temp)

CaptureInv ==
  /\ FlowsTypeOK
  /\ TodoInv
  /\ state \in {"next", "records"} => FlowsInv
  /\ FlowsExact
  /\ ZeroOnlyIfPartial
=============================================================================
