-------------------------- MODULE MessageServerProofs --------------------------
(***************************************************************************)
(* Proofs about MessageServer for any clients, codes and texts, whatever   *)
(* shutdown does on a UDP socket, whatever is lost.                        *)
(***************************************************************************)
EXTENDS MessageServerInv, Lemmas

-----------------------------------------------------------------------------
(* Sequences.                                                              *)

\* The numbers of sockets are positive, so 0 is not one of them.
LEMMA FdType == Fds \subseteq Nat /\ 0 \notin Fds
BY FS_CardinalityType, ServerAssumption DEF Fds

\* A list with one datagram lost holds datagrams only.
LEMMA RemoveAtType ==
  ASSUME NEW S, NEW q \in Seq(S), NEW i \in 1 .. Len(q)
  PROVE  /\ RemoveAt(q, i) \in Seq(S)
<1>1. Len(q) \in Nat
  BY LenProperties
<1>2. SubSeq(q, 1, i - 1) \in Seq(S)
  <2>1. \A k \in 1 .. i - 1 : q[k] \in S
    BY <1>1, ElementOfSeq
  <2> QED
    BY <1>1, <2>1, SubSeqProperties
<1>3. SubSeq(q, i + 1, Len(q)) \in Seq(S)
  <2>1. \A k \in i + 1 .. Len(q) : q[k] \in S
    BY <1>1, ElementOfSeq
  <2> QED
    BY <1>1, <2>1, SubSeqProperties
<1> QED
  BY <1>2, <1>3, ConcatProperties DEF RemoveAt

\* What the server sends and stores are datagrams.
LEMMA DatagramTypes ==
  ASSUME NEW c \in Clients
  PROVE  NoMsg \in Datagram /\ Stored(c) \in Datagram /\ EndMark(c) \in Datagram
         /\ EndMark(c).kind # "text" /\ NoMsg.kind = "text" /\ Stored(c).kind = "text"
<1>1. NoMsg \in Datagram /\ NoMsg.kind = "text"
  BY DEF NoMsg, Datagram, None
<1>2. Stored(c) \in Datagram /\ Stored(c).kind = "text"
  BY DEF Stored, Datagram
<1>3. EndMark(c) \in Datagram /\ EndMark(c).kind # "text"
  BY DEF EndMark, Bye, Empty, Datagram, None
<1> QED
  BY <1>1, <1>2, <1>3

LEMMA DatagramsType ==
  ASSUME TypeOK, NEW c \in Clients
  PROVE  /\ Append(messages, NoMsg) \in Seq(Datagram)
         /\ Datagrams(c) \in Seq(Datagram)
         /\ Datagrams(c) # <<>>
<1>1. NoMsg \in Datagram /\ EndMark(c) \in Datagram /\ messages \in Seq(Datagram)
  BY DatagramTypes DEF TypeOK
<1>2. Append(messages, NoMsg) \in Seq(Datagram)
  BY <1>1, AppendResult
<1> QED
  BY <1>1, <1>2, AppendResult DEF Datagrams

\* What is printed of a list up to its end mark are datagrams.
LEMMA PrintedType ==
  ASSUME NEW S, NEW q \in Seq(S), NEW i \in EndsAt(q)
  PROVE  SubSeq(q, 1, i - 1) \in Seq(S)
<1>1. Len(q) \in Nat /\ i \in 1 .. Len(q)
  BY LenProperties DEF EndsAt
<1>2. \A k \in 1 .. i - 1 : q[k] \in S
  BY <1>1, ElementOfSeq
<1> QED
  BY <1>1, <1>2, SubSeqProperties

LEMMA EmptyEndsNowhere == EndsAt(<<>>) = {}
BY DEF EndsAt

\* A whole list ends at its last datagram, so the list and NO MSG are printed.
LEMMA WholeListPrinted ==
  ASSUME NEW q \in Seq(Datagram), \A j \in 1 .. Len(q) : q[j].kind = "text",
         NEW c \in Clients,
         NEW i \in EndsAt(Append(Append(q, NoMsg), EndMark(c)))
  PROVE  SubSeq(Append(Append(q, NoMsg), EndMark(c)), 1, i - 1) = Append(q, NoMsg)
<1> DEFINE r == Append(q, NoMsg)
           t == Append(r, EndMark(c))
<1>1. r \in Seq(Datagram) /\ Len(r) = Len(q) + 1 /\ Len(q) \in Nat
      /\ (\A j \in 1 .. Len(q) : r[j] = q[j]) /\ r[Len(q) + 1] = NoMsg
  BY DatagramTypes, AppendResult, LenProperties
<1>2. \A j \in 1 .. Len(r) : r[j].kind = "text"
  BY <1>1, DatagramTypes
<1>3. t \in Seq(Datagram) /\ Len(t) = Len(r) + 1 /\ Len(r) \in Nat
      /\ (\A j \in 1 .. Len(r) : t[j] = r[j]) /\ t[Len(r) + 1] = EndMark(c)
  BY <1>1, DatagramTypes, AppendResult, LenProperties
<1> HIDE DEF r, t
<1>4. i \in 1 .. Len(t) /\ t[i].kind # "text"
  BY DEF EndsAt, r, t
<1>5. i = Len(r) + 1
  BY <1>2, <1>3, <1>4
<1>6. SubSeq(t, 1, Len(r)) = r
  <2>1. \A j \in 1 .. Len(r) : t[j] \in Datagram
    BY <1>1, <1>3, ElementOfSeq
  <2>2. SubSeq(t, 1, Len(r)) = [j \in 1 .. Len(r) |-> t[j]]
    BY <1>3
  <2>3. r = [j \in 1 .. Len(r) |-> r[j]]
    BY <1>1
  <2> QED
    BY <1>3, <2>2, <2>3
<1> QED
  BY <1>3, <1>5, <1>6 DEF r, t

-----------------------------------------------------------------------------
(* The server's sockets.                                                   *)

LEMMA TypeStep ==
  ASSUME TypeOK, ServingInv, NoStaleEvent, Next
  PROVE  TypeOK'
<1> USE FdType DEF TypeOK, server, tcp, udp, history
<1>1. CASE Select
  BY <1>1 DEF Select
<1>2. CASE Accept
  <2>1. pending # <<>>
    BY <1>2 DEF Accept, Handle, NoStaleEvent, Readable, Up
  <2>2. Head(pending) \in Clients /\ Tail(pending) \in Seq(Clients)
    BY <2>1, TailResult
  <2> QED
    BY <1>2, <2>2, SMTT(30) DEF Accept, Handle
<1>3. CASE Answer
  <2>1. serving \in Clients /\ messages \in Seq(Datagram) /\ Datagrams(serving) \in Seq(Datagram)
    BY <1>3, DatagramsType DEF Answer, ServingInv
  <2>2. \A i \in 1 .. Len(Datagrams(serving)) : RemoveAt(Datagrams(serving), i) \in Seq(Datagram)
    BY <2>1, RemoveAtType
  <2>3. PICK q \in Seq(Datagram) : inbox' = [inbox EXCEPT ![serving] = q]
    BY <1>3, <2>1, <2>2 DEF Answer
  <2>4. disturbed' \in BOOLEAN
    BY <1>3 DEF Answer
  <2>5. srv' \in {"store", "close"} /\ answered' \in [Clients -> Seq(Datagram)]
        /\ request' \subseteq Clients /\ inbox' \in [Clients -> Seq(Datagram)]
    BY <1>3, <2>1, <2>3 DEF Answer
  <2> QED
    BY <1>3, <2>4, <2>5 DEF Answer
<1>4. CASE StoreMessage
  <2>1. serving \in Clients
    BY <1>4 DEF StoreMessage, ServingInv
  <2>2. messages' \in Seq(Datagram)
    BY <1>4, <2>1, DatagramTypes, AppendResult DEF StoreMessage, Store
  <2> QED
    BY <1>4, <2>2 DEF StoreMessage
<1>5. CASE CloseUdp
  BY <1>5 DEF CloseUdp
<1>6. ASSUME NEW fd \in Fds, HandleEof(fd) PROVE TypeOK'
  BY <1>6 DEF HandleEof, Handle, Unregister
<1>7. ASSUME NEW fd \in Fds, Refuse(fd) PROVE TypeOK'
  BY <1>7 DEF Refuse, Handle
<1>8. ASSUME NEW fd \in Fds, Negotiate(fd) PROVE TypeOK'
  BY <1>8 DEF Negotiate, Handle
<1>9. CASE Interrupt
  BY <1>9 DEF Interrupt
<1>10. ASSUME NEW c \in Clients, Connect(c) PROVE TypeOK'
  BY <1>10, AppendResult DEF Connect, At
<1>11. ASSUME NEW c \in Clients, SendCode(c) \/ ShutdownWrite(c) \/ ServerGone(c) PROVE TypeOK'
  BY <1>11 DEF SendCode, ShutdownWrite, ServerGone, At
<1>12. ASSUME NEW c \in Clients, RecvPort(c) \/ SendMessage(c) PROVE TypeOK'
  BY <1>12 DEF RecvPort, SendMessage, At
<1>13. ASSUME NEW c \in Clients, RecvDatagrams(c) PROVE TypeOK'
  <2>1. <<>> \in Seq(Datagram) /\ inbox[c] \in Seq(Datagram)
    OBVIOUS
  <2>2. \A i \in EndsAt(inbox[c]) : SubSeq(inbox[c], 1, i - 1) \in Seq(Datagram)
    BY <2>1, PrintedType
  <2>3. printed' \in [Clients -> Seq(Datagram)] /\ inbox' \in [Clients -> Seq(Datagram)]
    BY <1>13, <2>1, <2>2 DEF RecvDatagrams
  <2> QED
    BY <1>13, <2>3 DEF RecvDatagrams, At
<1> QED
  BY <1>1, <1>2, <1>3, <1>4, <1>5, <1>6, <1>7, <1>8, <1>9, <1>10, <1>11, <1>12, <1>13
  DEF Next, Server, Client

LEMMA ServingStep ==
  ASSUME TypeOK, ServingInv, Next
  PROVE  ServingInv'
<1> USE DEF TypeOK, ServingInv, server
<1>1. CASE Select \/ Answer \/ StoreMessage \/ CloseUdp \/ Interrupt
  BY <1>1 DEF Select, Answer, StoreMessage, CloseUdp, Interrupt
<1>2. CASE Accept
  BY <1>2 DEF Accept, Handle
<1>3. ASSUME NEW fd \in Fds, HandleEof(fd) \/ Refuse(fd) \/ Negotiate(fd) PROVE ServingInv'
  BY <1>3 DEF HandleEof, Refuse, Negotiate, Handle
<1>4. ASSUME NEW c \in Clients, Client(c) PROVE ServingInv'
  BY <1>4 DEF Client, Connect, SendCode, ShutdownWrite, ServerGone, RecvPort, SendMessage, RecvDatagrams
<1> QED
  BY <1>1, <1>2, <1>3, <1>4 DEF Next, Server

\* Accepting moves the connection from the head of the queue to a free number.
LEMMA ConnStep ==
  ASSUME TypeOK, ConnInv, NoStaleEvent, Next
  PROVE  ConnInv'
<1>0. /\ pending \in Seq(Clients) /\ conn \in [Fds -> Clients \cup {None}] /\ pc = [c \in Clients |-> pc[c]]
      /\ Len(pending) \in Nat
  BY LenProperties DEF TypeOK
<1>a. \A f, g \in Fds : conn[f] = conn[g] /\ conn[f] # None => f = g
  BY DEF ConnInv
<1>b. \A i, j \in 1 .. Len(pending) : pending[i] = pending[j] => i = j
  BY DEF ConnInv
<1>c. \A f \in Fds, i \in 1 .. Len(pending) : conn[f] # pending[i]
  BY DEF ConnInv
<1>d. \A c \in Clients : pc[c] = "start" =>
        (\A f \in Fds : conn[f] # c) /\ (\A i \in 1 .. Len(pending) : pending[i] # c)
  BY DEF ConnInv
<1>1. CASE Select \/ Answer \/ StoreMessage \/ CloseUdp \/ Interrupt
  BY <1>1 DEF Select, Answer, StoreMessage, CloseUdp, Interrupt, ConnInv, server, tcp
<1>2. CASE Accept
  <2>1. pending # <<>>
    BY <1>2 DEF Accept, Handle, NoStaleEvent, Readable, Up
  <2>2. /\ pending' = Tail(pending) /\ pc' = pc /\ Head(pending) = pending[1] /\ pending[1] \in Clients
        /\ Len(pending) \in Nat \ {0} /\ Len(pending') = Len(pending) - 1
        /\ \A i \in 1 .. Len(pending) - 1 : pending'[i] = pending[i + 1]
    BY <1>2, <2>1, TailResult, <1>0 DEF Accept
  <2>3. PICK fd \in Fds : conn[fd] = None /\ conn' = [conn EXCEPT ![fd] = pending[1]]
    BY <1>2, <2>2 DEF Accept, IsNextFd, tcp
  <2>4. pending[1] # None
    BY <2>2, ServerAssumption DEF None
  <2>5. \A f, g \in Fds : conn'[f] = conn'[g] /\ conn'[f] # None => f = g
    BY <1>0, <1>a, <1>c, <2>2, <2>3, <2>4
  <2>6. \A i, j \in 1 .. Len(pending') : pending'[i] = pending'[j] => i = j
    BY <1>b, <2>2
  <2>7. \A f \in Fds, i \in 1 .. Len(pending') : conn'[f] # pending'[i]
    <3> SUFFICES ASSUME NEW f \in Fds, NEW i \in 1 .. Len(pending') PROVE conn'[f] # pending'[i]
      OBVIOUS
    <3>1. i + 1 \in 1 .. Len(pending) /\ i + 1 # 1 /\ pending'[i] = pending[i + 1] /\ 1 \in 1 .. Len(pending)
      BY <1>0, <2>2
    <3>2. pending[i + 1] # pending[1] /\ conn[f] # pending[i + 1]
      BY <1>b, <1>c, <3>1
    <3>3. conn'[f] = conn[f] \/ conn'[f] = pending[1]
      BY <1>0, <2>3
    <3> QED
      BY <3>1, <3>2, <3>3
  <2>8. \A c \in Clients : pc'[c] = "start" =>
          (\A f \in Fds : conn'[f] # c) /\ (\A i \in 1 .. Len(pending') : pending'[i] # c)
    <3> SUFFICES ASSUME NEW c \in Clients, pc[c] = "start"
                 PROVE  (\A f \in Fds : conn'[f] # c) /\ (\A i \in 1 .. Len(pending') : pending'[i] # c)
      BY <2>2
    <3>1. (\A f \in Fds : conn[f] # c) /\ (\A i \in 1 .. Len(pending) : pending[i] # c)
      BY <1>d
    <3>2. \A f \in Fds : conn'[f] = conn[f] \/ conn'[f] = pending[1]
      BY <1>0, <2>3
    <3>3. \A i \in 1 .. Len(pending') : pending'[i] = pending[i + 1] /\ i + 1 \in 1 .. Len(pending)
      BY <1>0, <2>2
    <3>4. 1 \in 1 .. Len(pending)
      BY <2>2
    <3> QED
      BY <3>1, <3>2, <3>3, <3>4
  <2> QED
    BY <2>5, <2>6, <2>7, <2>8 DEF ConnInv
<1>3. ASSUME NEW fd \in Fds, HandleEof(fd) \/ Refuse(fd) \/ Negotiate(fd) PROVE ConnInv'
  <2>1. pending' = pending /\ pc' = pc /\ (conn' = conn \/ conn' = [conn EXCEPT ![fd] = None])
    BY <1>3 DEF HandleEof, Refuse, Negotiate, tcp
  <2>2. \A i \in 1 .. Len(pending) : pending[i] # None
    BY <1>0, ElementOfSeq, ServerAssumption DEF None
  <2>3. None \notin Clients
    BY ServerAssumption DEF None
  <2>4. \A f \in Fds : conn'[f] = conn[f] \/ conn'[f] = None
    BY <1>0, <2>1
  <2>5. \A f, g \in Fds : conn'[f] = conn'[g] /\ conn'[f] # None => f = g
    BY <1>a, <2>4
  <2>6. \A f \in Fds, i \in 1 .. Len(pending) : conn'[f] # pending[i]
    BY <1>c, <2>2, <2>4
  <2>7. \A c \in Clients : pc[c] = "start" =>
          (\A f \in Fds : conn'[f] # c) /\ (\A i \in 1 .. Len(pending) : pending[i] # c)
    <3> SUFFICES ASSUME NEW c \in Clients, pc[c] = "start"
                 PROVE  (\A f \in Fds : conn'[f] # c) /\ (\A i \in 1 .. Len(pending) : pending[i] # c)
      OBVIOUS
    <3>1. (\A f \in Fds : conn[f] # c) /\ (\A i \in 1 .. Len(pending) : pending[i] # c)
      BY <1>d
    <3> QED
      BY <2>3, <2>4, <3>1
  <2> QED
    BY <1>b, <2>1, <2>5, <2>6, <2>7 DEF ConnInv
<1>4. ASSUME NEW c \in Clients, Connect(c) PROVE ConnInv'
  <2>1. /\ conn' = conn /\ pc[c] = "start" /\ pc' = [pc EXCEPT ![c] = "connected"]
        /\ Len(pending') = Len(pending) + 1 /\ Len(pending) \in Nat
        /\ (\A i \in 1 .. Len(pending) : pending'[i] = pending[i]) /\ pending'[Len(pending) + 1] = c
    BY <1>0, <1>4, AppendResult DEF Connect, At, server
  <2>2. (\A f \in Fds : conn[f] # c) /\ (\A i \in 1 .. Len(pending) : pending[i] # c)
    BY <1>d, <2>1
  <2>3. \A i \in 1 .. Len(pending') : i \in 1 .. Len(pending) \/ i = Len(pending) + 1
    BY <2>1
  <2>4. \A i, j \in 1 .. Len(pending') : pending'[i] = pending'[j] => i = j
    BY <1>b, <2>1, <2>2, <2>3
  <2>5. \A f \in Fds, i \in 1 .. Len(pending') : conn'[f] # pending'[i]
    BY <1>c, <2>1, <2>2, <2>3
  <2>6. \A d \in Clients : pc'[d] = "start" => pc[d] = "start" /\ d # c
    BY <1>0, <2>1
  <2>7. \A d \in Clients : pc'[d] = "start" =>
          (\A f \in Fds : conn'[f] # d) /\ (\A i \in 1 .. Len(pending') : pending'[i] # d)
    <3> SUFFICES ASSUME NEW d \in Clients, pc'[d] = "start"
                 PROVE  (\A f \in Fds : conn'[f] # d) /\ (\A i \in 1 .. Len(pending') : pending'[i] # d)
      OBVIOUS
    <3>1. (\A f \in Fds : conn[f] # d) /\ (\A i \in 1 .. Len(pending) : pending[i] # d) /\ d # c
      BY <1>d, <2>6
    <3> QED
      BY <2>1, <2>3, <3>1
  <2> QED
    BY <1>a, <2>1, <2>4, <2>5, <2>7 DEF ConnInv
<1>5. ASSUME NEW c \in Clients,
             SendCode(c) \/ ShutdownWrite(c) \/ ServerGone(c) \/ RecvPort(c) \/ SendMessage(c) \/ RecvDatagrams(c)
      PROVE  ConnInv'
  <2>1. conn' = conn /\ pending' = pending /\ \A d \in Clients : pc'[d] = "start" => pc[d] = "start"
    BY <1>0, <1>5 DEF SendCode, ShutdownWrite, ServerGone, RecvPort, SendMessage, RecvDatagrams, At, server, tcp
  <2> QED
    BY <1>a, <1>b, <1>c, <1>d, <2>1 DEF ConnInv
<1> QED
  BY <1>1, <1>2, <1>3, <1>4, <1>5 DEF Next, Server, Client

LEMMA KeyStep ==
  ASSUME TypeOK, KeyInv, NoStaleEvent, Next
  PROVE  KeyInv'
<1> USE FdType DEF TypeOK, KeyInv, server, tcp
<1>1. CASE Select \/ Answer \/ StoreMessage \/ CloseUdp \/ Interrupt
  BY <1>1 DEF Select, Answer, StoreMessage, CloseUdp, Interrupt, Up
<1>2. CASE Accept
  <2>1. pending # <<>>
    BY <1>2 DEF Accept, Handle, NoStaleEvent, Readable, Up
  <2>2. Head(pending) \in Clients /\ Head(pending) # None
    BY <2>1, TailResult, ServerAssumption DEF None
  <2>3. PICK fd \in Fds :
          /\ conn[fd] = None /\ conn' = [conn EXCEPT ![fd] = Head(pending)]
          /\ \/ srv' = srv /\ registered' = [registered EXCEPT ![fd] = Head(pending)]
             \/ srv' = "died" /\ registered' = registered
    BY <1>2 DEF Accept, IsNextFd
  <2>4. srv # "died" /\ port' = port
    BY <1>2 DEF Accept, Handle
  <2>5. ASSUME NEW g \in Fds, g # fd PROVE conn'[g] = conn[g] /\ registered'[g] = registered[g]
    BY <2>3, <2>5
  <2>6. conn'[fd] = Head(pending) /\ (srv' # "died" => registered'[fd] = Head(pending))
    BY <2>3
  <2> QED
    BY <2>2, <2>4, <2>5, <2>6
<1>3. ASSUME NEW fd \in Fds, HandleEof(fd) PROVE KeyInv'
  BY <1>3 DEF HandleEof, Handle, Unregister
<1>4. ASSUME NEW fd \in Fds, Refuse(fd) PROVE KeyInv'
  BY <1>4, ServerAssumption DEF Refuse, Handle
<1>5. ASSUME NEW fd \in Fds, Negotiate(fd) PROVE KeyInv'
  BY <1>5, ServerAssumption DEF Negotiate, Handle
<1>6. ASSUME NEW c \in Clients, Client(c) PROVE KeyInv'
  BY <1>6 DEF Client, Connect, SendCode, ShutdownWrite, ServerGone, RecvPort, SendMessage, RecvDatagrams
<1> QED
  BY <1>1, <1>2, <1>3, <1>4, <1>5, <1>6 DEF Next, Server

\* Only Accept ends the server in register, over a key that a refusal left.
LEMMA DiesStep ==
  ASSUME TypeOK, KeyInv, DiesOnlyAfterRefusal, Next
  PROVE  DiesOnlyAfterRefusal'
<1> USE DEF TypeOK, DiesOnlyAfterRefusal, server, tcp
<1>1. CASE Select \/ Answer \/ StoreMessage \/ CloseUdp \/ Interrupt
  BY <1>1 DEF Select, Answer, StoreMessage, CloseUdp, Interrupt, Up
<1>2. CASE Accept
  BY <1>2 DEF Accept, IsNextFd, Handle, KeyInv
<1>3. ASSUME NEW fd \in Fds, HandleEof(fd) \/ Refuse(fd) \/ Negotiate(fd) PROVE DiesOnlyAfterRefusal'
  BY <1>3 DEF HandleEof, Refuse, Negotiate, Handle
<1>4. ASSUME NEW c \in Clients, Client(c) PROVE DiesOnlyAfterRefusal'
  BY <1>4 DEF Client, Connect, SendCode, ShutdownWrite, ServerGone, RecvPort, SendMessage, RecvDatagrams
<1> QED
  BY <1>1, <1>2, <1>3, <1>4 DEF Next, Server

\* A callback touches one connection, and no other number is of that connection.
LEMMA EventStep ==
  ASSUME TypeOK, ConnInv, NoStaleEvent, Next
  PROVE  NoStaleEvent'
<1>0. ASSUME NEW c \in Clients, Connect(c) PROVE pending' # <<>>
  <2>1. pending \in Seq(Clients) /\ pending' = Append(pending, c)
    BY <1>0 DEF TypeOK, Connect
  <2> QED
    BY <2>1, AppendResult
<1> USE FdType DEF TypeOK, NoStaleEvent, Readable, server, tcp, Up
<1>1. CASE Select \/ Answer \/ StoreMessage \/ CloseUdp \/ Interrupt
  BY <1>1 DEF Select, Answer, StoreMessage, CloseUdp, Interrupt
<1>2. CASE Accept
  BY <1>2 DEF Accept, Handle, IsNextFd
<1>3. ASSUME NEW fd \in Fds, HandleEof(fd) \/ Refuse(fd) \/ Negotiate(fd) PROVE NoStaleEvent'
  <2>1. Up /\ fd \in events /\ events' = events \ {fd} /\ eof' = eof /\ pending' = pending
        /\ (\A g \in Fds \ {fd} : conn'[g] = conn[g] /\ registered'[g] = registered[g])
        /\ (code' = code \/ code' = code \ {conn[fd]})
    BY <1>3 DEF HandleEof, Refuse, Negotiate, Handle, Unregister
  <2>2. ASSUME NEW g \in events', g # 0 PROVE Readable(g)'
    <3>1. g \in Fds \ {fd} /\ g \in events /\ conn[g] # conn[fd]
      BY <2>1, <2>2 DEF ConnInv
    <3> QED
      BY <2>1, <2>2, <3>1
  <2>3. 0 \in events' => Readable(0)'
    BY <2>1
  <2> QED
    BY <2>2, <2>3
<1>4. ASSUME NEW c \in Clients, Connect(c) PROVE NoStaleEvent'
  BY <1>0, <1>4 DEF Connect
<1>5. ASSUME NEW c \in Clients,
             SendCode(c) \/ ShutdownWrite(c) \/ ServerGone(c) \/ RecvPort(c) \/ SendMessage(c) \/ RecvDatagrams(c)
      PROVE  NoStaleEvent'
  BY <1>5 DEF SendCode, ShutdownWrite, ServerGone, RecvPort, SendMessage, RecvDatagrams
<1> QED
  BY <1>1, <1>2, <1>3, <1>4, <1>5 DEF Next, Server, Client

-----------------------------------------------------------------------------
(* The lists.                                                              *)

LEMMA RequestStep ==
  ASSUME TypeOK, RequestInv, Next
  PROVE  RequestInv'
<1> USE DEF TypeOK, RequestInv, server, tcp, udp, history
<1>1. CASE Select \/ Accept \/ StoreMessage \/ CloseUdp \/ Interrupt
  BY <1>1 DEF Select, Accept, StoreMessage, CloseUdp, Interrupt
<1>2. CASE Answer
  <2>1. PICK q : inbox' = [inbox EXCEPT ![serving] = q]
    BY <1>2 DEF Answer
  <2>2. serving \in request /\ request' = request \ {serving} /\ pc' = pc
    BY <1>2 DEF Answer
  <2> QED
    BY <2>1, <2>2
<1>3. ASSUME NEW fd \in Fds, HandleEof(fd) \/ Refuse(fd) \/ Negotiate(fd) PROVE RequestInv'
  BY <1>3 DEF HandleEof, Refuse, Negotiate
<1>4. ASSUME NEW c \in Clients, Connect(c) \/ SendCode(c) \/ ShutdownWrite(c) \/ ServerGone(c) \/ RecvPort(c)
      PROVE RequestInv'
  BY <1>4 DEF Connect, SendCode, ShutdownWrite, ServerGone, RecvPort, At
<1>5. ASSUME NEW c \in Clients, SendMessage(c) PROVE RequestInv'
  BY <1>5 DEF SendMessage, At
<1>6. ASSUME NEW c \in Clients, RecvDatagrams(c) PROVE RequestInv'
  BY <1>6 DEF RecvDatagrams, At
<1> QED
  BY <1>1, <1>2, <1>3, <1>4, <1>5, <1>6 DEF Next, Server, Client

\* An end mark is sent just before the message is stored, and the handler does
\* nothing else in between.
LEMMA AckStep ==
  ASSUME TypeOK, ServingInv, AckInv, Next
  PROVE  AckInv'
<1> DEFINE Told(c) == pc[c] = "done" \/ EndsAt(inbox[c]) # {}
           InList(c) == \E i \in 1 .. Len(messages) : messages[i] = Stored(c)
<1>1. \A c \in Clients : Told(c) /\ IsPost(c) /\ Up => (srv = "store" /\ serving = c) \/ InList(c)
  BY DEF AckInv
<1>2. ASSUME \A c \in Clients : Told(c)' /\ IsPost(c) /\ Up' => (srv' = "store" /\ serving' = c) \/ InList(c)'
      PROVE  AckInv'
  BY <1>2 DEF AckInv, IsPost
<1>3. CASE Select \/ CloseUdp \/ Interrupt \/ Accept
  <2>1. messages' = messages /\ pc' = pc /\ inbox' = inbox /\ (Up' => Up) /\ (srv # "store" \/ ~Up')
    BY <1>3 DEF Select, CloseUdp, Interrupt, Accept, Handle, Up, udp
  <2> QED
    BY <1>1, <1>2, <2>1
<1>4. CASE Answer
  <2>1. /\ srv = "udp" /\ serving \in Clients /\ serving' = serving
        /\ messages' = messages /\ pc' = pc
        /\ IsPost(serving) => srv' = "store"
    BY <1>4 DEF Answer, ServingInv
  <2>2. PICK q : inbox' = [inbox EXCEPT ![serving] = q]
    BY <1>4 DEF Answer
  <2>3. ASSUME NEW c \in Clients, c # serving PROVE Told(c)' <=> Told(c)
    BY <2>1, <2>2, <2>3 DEF TypeOK
  <2>4. Up
    BY <2>1 DEF Up
  <2> QED
    BY <1>1, <1>2, <2>1, <2>3, <2>4
<1>5. CASE StoreMessage
  <2>1. srv = "store" /\ serving \in Clients /\ messages' = Append(messages, Stored(serving))
        /\ serving' = serving /\ pc' = pc /\ inbox' = inbox
    BY <1>5 DEF StoreMessage, Store, ServingInv, udp
  <2>2. /\ Len(messages') = Len(messages) + 1 /\ Len(messages) \in Nat
        /\ \A i \in 1 .. Len(messages) : messages'[i] = messages[i]
        /\ messages'[Len(messages) + 1] = Stored(serving)
    <3>1. messages \in Seq(Datagram) /\ Stored(serving) \in Datagram
      BY <2>1, DatagramTypes DEF TypeOK
    <3> QED
      BY <2>1, <3>1, AppendResult, LenProperties
  <2>3. \A c \in Clients : InList(c) => InList(c)'
    BY <2>2 DEF Stored
  <2>4. InList(serving)'
    <3>1. Len(messages) + 1 \in 1 .. Len(messages')
      BY <2>2
    <3> QED
      BY <2>1, <2>2, <3>1 DEF Stored
  <2>5. Up
    BY <2>1 DEF Up
  <2> QED
    BY <1>1, <1>2, <2>1, <2>3, <2>4, <2>5
<1>6. ASSUME NEW fd \in Fds, HandleEof(fd) \/ Refuse(fd) \/ Negotiate(fd) PROVE AckInv'
  <2>1. messages' = messages /\ pc' = pc /\ inbox' = inbox /\ Up /\ srv # "store"
    BY <1>6 DEF HandleEof, Refuse, Negotiate, Handle, Up, udp
  <2> QED
    BY <1>1, <1>2, <2>1
<1>7. ASSUME NEW c \in Clients,
             Connect(c) \/ SendCode(c) \/ ShutdownWrite(c) \/ ServerGone(c) \/ RecvPort(c) \/ SendMessage(c)
      PROVE  AckInv'
  <2>1. messages' = messages /\ inbox' = inbox /\ srv' = srv /\ serving' = serving
        /\ \A d \in Clients : pc'[d] = "done" => pc[d] = "done"
    BY <1>7 DEF Connect, SendCode, ShutdownWrite, ServerGone, RecvPort, SendMessage, At, TypeOK, server, udp
  <2>2. Up' <=> Up
    BY <2>1 DEF Up
  <2> QED
    BY <1>1, <1>2, <2>1, <2>2
<1>8. ASSUME NEW c \in Clients, RecvDatagrams(c) PROVE AckInv'
  <2>1. /\ messages' = messages /\ srv' = srv /\ serving' = serving
        /\ inbox' = [inbox EXCEPT ![c] = <<>>]
        /\ pc' = pc \/ (EndsAt(inbox[c]) # {} /\ pc' = [pc EXCEPT ![c] = "done"])
    BY <1>8 DEF RecvDatagrams, At, server
  <2>2. Up' <=> Up
    BY <2>1 DEF Up
  <2>3. \A d \in Clients : Told(d)' => Told(d)
    BY <2>1, EmptyEndsNowhere DEF TypeOK
  <2> QED
    BY <1>1, <1>2, <2>1, <2>2, <2>3
<1> QED
  BY <1>3, <1>4, <1>5, <1>6, <1>7, <1>8 DEF Next, Server, Client

\* Who has been answered to the end and is not being served is in the list.
LEMMA AckImpliesStored ==
  ASSUME AckInv
  PROVE  AcknowledgedIsStored
BY DEF AckInv, AcknowledgedIsStored, Up

LEMMA ListStep ==
  ASSUME TypeOK, ServingInv, ListInv, Next
  PROVE  ListInv'
<1> DEFINE Plain(q) == \A i \in 1 .. Len(q) : q[i].kind = "text"
           Whole(c) == inbox[c] # <<>> => inbox[c] = Append(Append(answered[c], NoMsg), EndMark(c))
<1>1. Plain(messages) /\ (\A c \in Clients : Plain(answered[c])) /\ (~disturbed => \A c \in Clients : Whole(c))
  BY DEF ListInv
<1>2. ASSUME Plain(messages'), \A c \in Clients : Plain(answered'[c]), ~disturbed' => \A c \in Clients : Whole(c)'
      PROVE  ListInv'
  BY <1>2 DEF ListInv
<1> HIDE DEF Plain
<1>3. CASE Select \/ Accept \/ CloseUdp \/ Interrupt
  <2>1. messages' = messages /\ inbox' = inbox /\ answered' = answered /\ (disturbed => disturbed')
    BY <1>3 DEF Select, Accept, CloseUdp, Interrupt, udp, history
  <2> QED
    BY <1>1, <1>2, <2>1
<1>4. CASE Answer
  <2>1. serving \in Clients /\ messages' = messages /\ answered' = [answered EXCEPT ![serving] = messages]
    BY <1>4 DEF Answer, ServingInv
  <2>2. \A c \in Clients : Plain(answered'[c])
    BY <1>1, <2>1 DEF TypeOK
  <2>3. ~disturbed' => ~disturbed /\ inbox' = [inbox EXCEPT ![serving] = Datagrams(serving)]
    BY <1>4 DEF Answer
  <2>4. ~disturbed' => \A c \in Clients : Whole(c)'
    BY <1>1, <2>1, <2>3 DEF TypeOK, Datagrams
  <2> QED
    BY <1>1, <1>2, <2>1, <2>2, <2>4
<1>5. CASE StoreMessage
  <2>1. messages' = Append(messages, Stored(serving)) /\ serving \in Clients
        /\ inbox' = inbox /\ answered' = answered /\ disturbed' = disturbed
    BY <1>5 DEF StoreMessage, Store, ServingInv, udp, history
  <2>2. messages \in Seq(Datagram) /\ Stored(serving) \in Datagram /\ Stored(serving).kind = "text"
    BY <2>1, DatagramTypes DEF TypeOK
  <2>3. Plain(messages')
    BY <1>1, <2>1, <2>2, AppendResult, LenProperties DEF Plain
  <2> QED
    BY <1>1, <1>2, <2>1, <2>3
<1>6. ASSUME NEW fd \in Fds, HandleEof(fd) \/ Refuse(fd) \/ Negotiate(fd) PROVE ListInv'
  <2>1. messages' = messages /\ inbox' = inbox /\ answered' = answered /\ disturbed' = disturbed
    BY <1>6 DEF HandleEof, Refuse, Negotiate, udp, history
  <2> QED
    BY <1>1, <1>2, <2>1
<1>7. ASSUME NEW c \in Clients,
             Connect(c) \/ SendCode(c) \/ ShutdownWrite(c) \/ ServerGone(c) \/ RecvPort(c) \/ SendMessage(c)
      PROVE  ListInv'
  <2>1. messages' = messages /\ inbox' = inbox /\ answered' = answered /\ (disturbed => disturbed')
    BY <1>7 DEF Connect, SendCode, ShutdownWrite, ServerGone, RecvPort, SendMessage, udp, history
  <2> QED
    BY <1>1, <1>2, <2>1
<1>8. ASSUME NEW c \in Clients, RecvDatagrams(c) PROVE ListInv'
  <2>1. messages' = messages /\ inbox' = [inbox EXCEPT ![c] = <<>>] /\ answered' = answered /\ disturbed' = disturbed
    BY <1>8 DEF RecvDatagrams, history
  <2>2. ~disturbed' => \A d \in Clients : Whole(d)'
    BY <1>1, <2>1 DEF TypeOK
  <2> QED
    BY <1>1, <1>2, <2>1, <2>2
<1> QED
  BY <1>3, <1>4, <1>5, <1>6, <1>7, <1>8 DEF Next, Server, Client

\* A client that is answered, or still prints, has not ended.
LEMMA WholeStep ==
  ASSUME TypeOK, RequestInv, ListInv, WholeList, Next
  PROVE  WholeList'
<1>1. \A c \in Clients : pc[c] = "done" /\ ~disturbed => printed[c] = Append(answered[c], NoMsg)
  BY DEF WholeList
<1>2. CASE Select \/ Accept \/ StoreMessage \/ CloseUdp \/ Interrupt
  <2>1. pc' = pc /\ printed' = printed /\ answered' = answered /\ (disturbed => disturbed')
    BY <1>2 DEF Select, Accept, StoreMessage, CloseUdp, Interrupt, history
  <2> QED
    BY <1>1, <2>1 DEF WholeList
<1>3. CASE Answer
  <2>1. pc' = pc /\ printed' = printed /\ serving \in request
        /\ answered' = [answered EXCEPT ![serving] = messages] /\ (disturbed => disturbed')
    BY <1>3 DEF Answer
  <2>2. serving \in Clients /\ pc[serving] = "wait"
    BY <2>1 DEF RequestInv, TypeOK
  <2>3. \A c \in Clients : c # serving => answered'[c] = answered[c]
    BY <2>1 DEF TypeOK
  <2> QED
    BY <1>1, <2>1, <2>2, <2>3 DEF WholeList
<1>4. ASSUME NEW fd \in Fds, HandleEof(fd) \/ Refuse(fd) \/ Negotiate(fd) PROVE WholeList'
  <2>1. pc' = pc /\ printed' = printed /\ answered' = answered /\ disturbed' = disturbed
    BY <1>4 DEF HandleEof, Refuse, Negotiate, history
  <2> QED
    BY <1>1, <2>1 DEF WholeList
<1>5. ASSUME NEW c \in Clients,
             Connect(c) \/ SendCode(c) \/ ShutdownWrite(c) \/ ServerGone(c) \/ RecvPort(c) \/ SendMessage(c)
      PROVE  WholeList'
  <2>1. printed' = printed /\ answered' = answered /\ (disturbed => disturbed')
        /\ \A d \in Clients : pc'[d] = "done" => pc[d] = "done"
    BY <1>5 DEF Connect, SendCode, ShutdownWrite, ServerGone, RecvPort, SendMessage, At, TypeOK, history
  <2> QED
    BY <1>1, <2>1 DEF WholeList
<1>6. ASSUME NEW c \in Clients, RecvDatagrams(c) PROVE WholeList'
  <2>1. answered' = answered /\ disturbed' = disturbed /\ inbox[c] # <<>> /\ pc[c] = "wait"
    BY <1>6 DEF RecvDatagrams, history
  <2>2. \A d \in Clients \ {c} : pc'[d] = pc[d] /\ printed'[d] = printed[d]
    BY <1>6 DEF RecvDatagrams, At, TypeOK
  <2>3. ASSUME pc'[c] = "done", ~disturbed' PROVE printed'[c] = Append(answered'[c], NoMsg)
    <3>1. PICK i \in EndsAt(inbox[c]) : printed' = [printed EXCEPT ![c] = SubSeq(inbox[c], 1, i - 1)]
      BY <1>6, <2>1, <2>3 DEF RecvDatagrams
    <3>2. inbox[c] = Append(Append(answered[c], NoMsg), EndMark(c))
          /\ \A j \in 1 .. Len(answered[c]) : answered[c][j].kind = "text"
      BY <2>1, <2>3 DEF ListInv
    <3>3. answered[c] \in Seq(Datagram) /\ printed'[c] = SubSeq(inbox[c], 1, i - 1)
      BY <3>1 DEF TypeOK
    <3>4. i \in EndsAt(Append(Append(answered[c], NoMsg), EndMark(c)))
      BY <3>2
    <3>5. SubSeq(Append(Append(answered[c], NoMsg), EndMark(c)), 1, i - 1) = Append(answered[c], NoMsg)
      BY <3>2, <3>3, <3>4, WholeListPrinted
    <3> QED
      BY <2>1, <3>2, <3>3, <3>5
  <2> QED
    BY <1>1, <2>1, <2>2, <2>3 DEF WholeList
<1> QED
  BY <1>2, <1>3, <1>4, <1>5, <1>6 DEF Next, Server, Client

-----------------------------------------------------------------------------
(* The invariant.                                                          *)

LEMMA ServerInit == Init => ServerInv
<1> SUFFICES ASSUME Init PROVE ServerInv
  OBVIOUS
<1> USE DEF Init
<1>1. TypeOK
  <2>1. <<>> \in Seq(Clients) /\ <<>> \in Seq(Datagram)
    OBVIOUS
  <2>2. srv = "loop" /\ events = {} /\ pending \in Seq(Clients) /\ messages \in Seq(Datagram)
    BY <2>1
  <2>3. inbox \in [Clients -> Seq(Datagram)] /\ printed \in [Clients -> Seq(Datagram)]
        /\ answered \in [Clients -> Seq(Datagram)]
    BY <2>1
  <2> QED
    BY <2>2, <2>3 DEF TypeOK
<1>2. ServingInv /\ ConnInv /\ KeyInv /\ NoStaleEvent /\ RequestInv /\ DiesOnlyAfterRefusal /\ WholeList
  BY ServerAssumption DEF ServingInv, ConnInv, KeyInv, NoStaleEvent, RequestInv, DiesOnlyAfterRefusal, WholeList, None
<1>3. AckInv
  BY EmptyEndsNowhere DEF AckInv
<1>4. ListInv
  BY DEF ListInv
<1> QED
  BY <1>1, <1>2, <1>3, <1>4 DEF ServerInv

LEMMA ServerNext == ServerInv /\ [Next]_vars => ServerInv'
<1> SUFFICES ASSUME ServerInv, [Next]_vars PROVE ServerInv'
  OBVIOUS
<1>1. CASE Next
  BY <1>1, TypeStep, ServingStep, ConnStep, KeyStep, EventStep, RequestStep, AckStep, ListStep, DiesStep, WholeStep
  DEF ServerInv
<1>2. CASE UNCHANGED vars
  <2> USE <1>2 DEF vars, server, tcp, udp, history
  <2>1. (TypeOK /\ ServingInv /\ ConnInv /\ KeyInv /\ NoStaleEvent)'
    BY DEF ServerInv, TypeOK, ServingInv, ConnInv, KeyInv, NoStaleEvent, Readable, Up
  <2>2. (RequestInv /\ AckInv /\ ListInv /\ DiesOnlyAfterRefusal /\ WholeList)'
    BY DEF ServerInv, RequestInv, AckInv, ListInv, DiesOnlyAfterRefusal, WholeList, IsPost, Up
  <2> QED
    BY <2>1, <2>2 DEF ServerInv
<1> QED
  BY <1>1, <1>2

\* The inductive invariant of the message server: which connections the selector
\* knows, which lists are on their way, and whose message has been stored.
THEOREM ServerInvariance == Spec => []ServerInv
BY ServerInit, ServerNext, PTL DEF Spec

\* Events the loop still has to handle are never out of date, however earlier
\* callbacks close sockets and accept others under their numbers.
THEOREM EventsAreCurrent == Spec => []NoStaleEvent
<1>1. ServerInv => NoStaleEvent
  BY DEF ServerInv
<1> QED
  BY <1>1, ServerInvariance, PTL

\* For any number of clients, register fails only over the key of a refused one.
THEOREM OnlyRefusalKills == Spec => []DiesOnlyAfterRefusal
<1>1. ServerInv => DiesOnlyAfterRefusal
  BY DEF ServerInv
<1> QED
  BY <1>1, ServerInvariance, PTL

\* A message is in the list before anybody is answered after its sender has ended.
THEOREM AcknowledgedMessagesAreStored == Spec => []AcknowledgedIsStored
<1>1. ServerInv => AcknowledgedIsStored
  BY AckImpliesStored DEF ServerInv
<1> QED
  BY <1>1, ServerInvariance, PTL

\* Whatever is stored, a client's loop ends at its own end mark and nowhere else.
THEOREM WholeListIsPrinted == Spec => []WholeList
<1>1. ServerInv => WholeList
  BY DEF ServerInv
<1> QED
  BY <1>1, ServerInvariance, PTL
=============================================================================
