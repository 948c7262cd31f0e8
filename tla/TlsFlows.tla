------------------------------- MODULE TlsFlows -------------------------------
(***************************************************************************)
(* project/tls_flows.py: the packets of a capture are read one after the   *)
(* other and assigned to TLS flows, each begun by a ClientHello; at the    *)
(* end every flow whose server has named a protocol is printed.            *)
(*                                                                         *)
(* A packet comes with the addresses of its connection (the key) and the   *)
(* TLS records of its stream. Only the records that change anything are    *)
(* listed, and the numbers of bytes, which go with the counts, are not.    *)
(* Packets that are not TCP over IPv4 leave the state alone.               *)
(***************************************************************************)
EXTENDS Integers, Sequences, FiniteSets, FiniteSetsExt, SequencesExt

CONSTANTS
  Endpoints,   \* ends of connections, each an address and a port
  Streams,     \* the sequences of records a packet may hold
  MaxPackets   \* packets in a capture: a bound

\* Records: a ClientHello; a ServerHello that names a protocol, or one whose name
\* does not decode; one dpkt cannot parse (an exception the program catches, at
\* the first record also that of TLS(stream) itself), or fails on otherwise.
Records == {"clientHello", "serverHello", "undecodable", "partial", "broken"}

ASSUME CaptureAssumption ==
  /\ IsFiniteSet(Endpoints)
  /\ Streams \subseteq Seq(Records)
  /\ MaxPackets \in Nat

VARIABLES
  state,       \* "next" packet, its "records", or the end: "printed", "zero" for a
               \* ZeroDivisionError in to_row, "raised" for another exception
  capture,     \* history: the packets read; a packet's place is its time
  todo,        \* records of the last packet still to be read
  flows,       \* flows that another one of the same key has followed
  flows_temp,  \* the last flow of each key, in the order of the dictionary
  rows         \* the flows printed

flowvars == <<state, capture, todo, flows, flows_temp, rows>>

Keys == {k \in Endpoints \X Endpoints : k[1] # k[2]}
InvKey(key) == <<key[2], key[1]>>

now == Len(capture)
Packet == capture[now]

NewFlow(key) ==
  [key |-> key, start |-> now, end |-> -1, alpn |-> FALSE, client |-> 0, server |-> 0]

\* Where the dictionary has a key: one place or none.
Place(key) == {i \in 1 .. Len(flows_temp) : flows_temp[i].key = key}

FlowsInit ==
  /\ state = "next"
  /\ capture = <<>> /\ todo = <<>>
  /\ flows = <<>> /\ flows_temp = <<>> /\ rows = <<>>

ReadPacket ==
  /\ state = "next"
  /\ now < MaxPackets
  /\ \E key \in Keys, stream \in Streams :
       /\ capture' = Append(capture, [key |-> key, stream |-> stream])
       /\ todo' = stream
  /\ state' = "records"
  /\ UNCHANGED <<flows, flows_temp, rows>>

Record(type) == state = "records" /\ todo # <<>> /\ Head(todo) = type

\* Faulty variant: the flow the key had is dropped.
RetireNot(i) == flows

\* The flow the key had goes to the list.
Retire(i) == Append(flows, flows_temp[i])

ClientHello ==
  /\ Record("clientHello")
  /\ \/ /\ Place(Packet.key) = {}
        /\ flows_temp' = Append(flows_temp, NewFlow(Packet.key))
        /\ UNCHANGED flows
     \/ \E i \in Place(Packet.key) :
          /\ flows' = Retire(i)
          /\ flows_temp' = [flows_temp EXCEPT ![i] = NewFlow(Packet.key)]
  /\ todo' = Tail(todo)
  /\ UNCHANGED <<state, capture, rows>>

\* The protocol is set on the flow of the other direction, if there is one.
ServerHello ==
  /\ Record("serverHello")
  /\ flows_temp' = [i \in 1 .. Len(flows_temp) |->
                      [flows_temp[i] EXCEPT !.alpn = @ \/ i \in Place(InvKey(Packet.key))]]
  /\ todo' = Tail(todo)
  /\ UNCHANGED <<state, capture, flows, rows>>

\* alpn.decode(), which is not called when there is no flow.
Undecodable ==
  /\ Record("undecodable")
  /\ todo' = Tail(todo)
  /\ state' = IF Place(InvKey(Packet.key)) = {} THEN state ELSE "raised"
  /\ UNCHANGED <<capture, flows, flows_temp, rows>>

\* NeedData and SSL3Exception: the packet is not counted.
Caught ==
  /\ Record("partial")
  /\ todo' = <<>>
  /\ state' = "next"
  /\ UNCHANGED <<capture, flows, flows_temp, rows>>

Raised ==
  /\ Record("broken")
  /\ state' = "raised"
  /\ UNCHANGED <<capture, todo, flows, flows_temp, rows>>

\* Faulty variant: the flow of the other direction first.
TargetInverse(key) ==
  IF Place(InvKey(key)) # {} THEN Place(InvKey(key)) ELSE Place(key)

\* Faulty variant: only what the client sends.
TargetOwn(key) == Place(key)

\* The flow a packet belongs to: of its own direction if there is one.
Target(key) == IF Place(key) # {} THEN Place(key) ELSE Place(InvKey(key))

\* Flow.add_packet.
Counted(flow, key) ==
  [flow EXCEPT !.client = @ + (IF key = flow.key THEN 1 ELSE 0),
               !.server = @ + (IF key = InvKey(flow.key) THEN 1 ELSE 0),
               !.end = IF @ > now THEN @ ELSE now]

AddPacket ==
  /\ state = "records" /\ todo = <<>>
  /\ flows_temp' = [i \in 1 .. Len(flows_temp) |->
                      IF i \in Target(Packet.key) THEN Counted(flows_temp[i], Packet.key)
                      ELSE flows_temp[i]]
  /\ state' = "next"
  /\ UNCHANGED <<capture, todo, flows, rows>>

\* to_row divides by both counts.
Divisible(flow) == flow.client # 0 /\ flow.server # 0

\* The end of the capture: the last flows follow the others, and rows are
\* printed up to the first that fails.
Finish ==
  /\ state = "next"
  /\ LET all == flows \o flows_temp
         failing == {i \in 1 .. Len(all) : all[i].alpn /\ ~Divisible(all[i])}
         reached == IF failing = {} THEN all ELSE SubSeq(all, 1, Min(failing) - 1)
     IN /\ flows' = all
        /\ rows' = SelectSeq(reached, LAMBDA flow : flow.alpn)
        /\ state' = IF failing = {} THEN "printed" ELSE "zero"
  /\ UNCHANGED <<capture, todo, flows_temp>>

FlowsNext ==
  \/ ReadPacket \/ ClientHello \/ ServerHello \/ Undecodable
  \/ Caught \/ Raised \/ AddPacket \/ Finish

FlowsSpec == FlowsInit /\ [][FlowsNext]_flowvars

-----------------------------------------------------------------------------
(* What a flow is, by the packets alone.                                   *)

Stream(n) == capture[n].stream
Pending(n) == state = "records" /\ n = now

\* The records that are read of a packet: up to the first that cannot be parsed.
Reached(n) ==
  {r \in 1 .. Len(Stream(n)) :
     /\ Pending(n) => r <= Len(Stream(n)) - Len(todo)
     /\ \A q \in 1 .. r - 1 : Stream(n)[q] # "partial"}

\* The places of the ClientHellos read in a packet, whether a protocol was named, and
\* whether all of it was read.
Packets ==
  [n \in 1 .. now |->
     [key |-> capture[n].key,
      hellos |-> {r \in Reached(n) : Stream(n)[r] = "clientHello"},
      named |-> \E r \in Reached(n) : Stream(n)[r] = "serverHello",
      whole |-> ~Pending(n) /\ \A r \in 1 .. Len(Stream(n)) : Stream(n)[r] # "partial"]]

\* The ClientHellos of some packets p: packet and record.
Hellos(p) == UNION {{n} \X p[n].hellos : n \in DOMAIN p}

KeyOf(p, h) == p[h[1]].key

Before(g, h) == g[1] < h[1] \/ (g[1] = h[1] /\ g[2] < h[2])

\* h is the last ClientHello of its key up to packet n.
LastHello(p, h, n) ==
  /\ h[1] <= n
  /\ \A g \in Hellos(p) : KeyOf(p, g) = KeyOf(p, h) /\ g[1] <= n => ~Before(h, g)

\* The packets of direction `key` from h until the next ClientHello of h's key.
During(p, h, key) == {n \in DOMAIN p : p[n].key = key /\ LastHello(p, h, n)}

\* No ClientHello has been sent the other way, which would take the packets of
\* its direction for itself.
OneWay(p, key, n) == \A g \in Hellos(p) : g[1] <= n => KeyOf(p, g) # InvKey(key)

FromClient(p, h) == {n \in During(p, h, KeyOf(p, h)) : p[n].whole}
FromServer(p, h) ==
  {n \in During(p, h, InvKey(KeyOf(p, h))) : p[n].whole /\ OneWay(p, KeyOf(p, h), n)}
IsNamed(p, h) == \E n \in During(p, h, InvKey(KeyOf(p, h))) : p[n].named

FlowOf(p, h) ==
  [key |-> KeyOf(p, h),
   start |-> h[1],
   end |-> Max(FromClient(p, h) \cup FromServer(p, h) \cup {-1}),
   alpn |-> IsNamed(p, h),
   client |-> Cardinality(FromClient(p, h)),
   server |-> Cardinality(FromServer(p, h))]

Kept == IF state \in {"printed", "zero"} THEN flows ELSE flows \o flows_temp

Flow ==
  [key : Keys, start : Nat, end : Int, alpn : BOOLEAN, client : Nat, server : Nat]

FlowsTypeOK ==
  /\ state \in {"next", "records", "printed", "zero", "raised"}
  /\ capture \in Seq([key : Keys, stream : Streams])
  /\ todo \in Seq(Records)
  /\ flows \in Seq(Flow) /\ flows_temp \in Seq(Flow)

\* At any time there is one flow for every ClientHello so far, and it has exactly
\* the packets that lie between that and the next one of its connection, in either
\* direction, and the protocol that was named in that time: nothing is counted
\* twice, lost with a flow that another one replaces, or counted for the
\* connection before.
FlowsExact ==
  state # "raised" =>
    \E p \in {Packets} :
      /\ Len(Kept) = Cardinality(Hellos(p))
      /\ Range(Kept) = {FlowOf(p, h) : h \in Hellos(p)}

\* Printing ends in a division by zero, and the rows after it are lost, only if
\* some packet was not counted after its hello had been noted, or a connection
\* has ClientHellos both ways.
ZeroOnlyIfPartial ==
  state = "zero" =>
    \/ \E n \in 1 .. now : ~Packets[n].whole /\ (Packets[n].hellos # {} \/ Packets[n].named)
    \/ \E g, h \in Hellos(Packets) : KeyOf(Packets, g) = InvKey(KeyOf(Packets, h))
=============================================================================
