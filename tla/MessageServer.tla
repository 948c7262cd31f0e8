---------------------------- MODULE MessageServer ----------------------------
(***************************************************************************)
(* The message server and its clients, a1/server.py and a1/client.py.      *)
(* A client sends its request code over TCP and is told the port of a UDP  *)
(* socket made for it; it sends its message there, gets the list of the    *)
(* messages stored so far and ends. The server is one thread: an event     *)
(* loop over a selector, with a receive that blocks inside a handler.      *)
(***************************************************************************)
EXTENDS Integers, Sequences, FiniteSets

CONSTANTS
  Clients,      \* client processes, each run once
  RightCode,    \* those that give the server's request code
  Text,         \* the message each client sends
  Backlog,      \* connections the listening socket holds before accept
  UdpShutdown   \* what shutdown does on a UDP socket: "ok", "raises" (Linux) or both

ASSUME ServerAssumption ==
  /\ IsFiniteSet(Clients)
  /\ "none" \notin Clients
  /\ RightCode \subseteq Clients
  /\ Text \in [Clients -> STRING]
  /\ Backlog \in Nat \ {0}
  /\ UdpShutdown \in (SUBSET {"ok", "raises"}) \ {{}}

VARIABLES
  srv,       \* the server: "loop", "udp", "store", "close"; or the process has ended:
             \* "exited", or by an exception: "failed" in shutdown, "died" in register
  events,    \* what select returned and the loop has not handled: sockets, 0 listens
  serving,   \* the client whose datagram the handler waits for
  pending,   \* connections not yet accepted
  conn,      \* the connection of each socket number in use
  registered,\* the keys of the selector: the connection registered under each number
  code, eof, \* connections with an unread request code, with a writing end shut down
  port,      \* what the client is sent over TCP: "port" or "zero"
  request,   \* clients whose message is on its way to its UDP socket
  inbox,     \* datagrams on their way to each client
  messages,  \* the stored messages, each with the client (the port) it came from
  pc,        \* each client
  printed,   \* what each client has printed
  answered,  \* history: the list a client was answered with
  disturbed  \* history: a datagram was lost, or the server interrupted

server == <<srv, events, serving, conn, registered>>
tcp == <<pending, code, eof, port>>
udp == <<request, inbox>>
history == <<answered, disturbed>>
vars == <<server, tcp, udp, messages, pc, printed, history>>

None == "none"
Fds == 1 .. Cardinality(Clients)
Up == srv \notin {"exited", "failed", "died"}

\* Datagrams to a client.
NoMsg == [kind |-> "text", from |-> None, text |-> "NO MSG"]
Bye == [kind |-> "bye", from |-> None, text |-> "BYE"]
Empty == [kind |-> "empty", from |-> None, text |-> ""]

\* Faulty variant: the message is stored as it came.
StoredRaw(c) ==
  [kind |-> CASE Text[c] = "BYE" -> "bye" [] Text[c] = "" -> "empty" [] OTHER -> "text",
   from |-> c, text |-> Text[c]]

\* '[port]: message', which is neither empty nor BYE, whatever the message.
Stored(c) == [kind |-> "text", from |-> c, text |-> Text[c]]

Init ==
  /\ srv = "loop" /\ events = {} /\ serving = None
  /\ pending = <<>>
  /\ conn = [fd \in Fds |-> None]
  /\ registered = [fd \in Fds |-> None]
  /\ code = {} /\ eof = {} /\ request = {}
  /\ port = [c \in Clients |-> None]
  /\ inbox = [c \in Clients |-> <<>>]
  /\ messages = <<>>
  /\ pc = [c \in Clients |-> "start"]
  /\ printed = [c \in Clients |-> <<>>]
  /\ answered = [c \in Clients |-> <<>>]
  /\ disturbed = FALSE

-----------------------------------------------------------------------------
(* The server.                                                             *)

\* A closed socket has left epoll by itself, registered or not.
Readable(fd) ==
  IF fd = 0 THEN pending # <<>>
  ELSE conn[fd] # None /\ registered[fd] = conn[fd] /\ conn[fd] \in code \cup eof

Select ==
  /\ srv = "loop" /\ events = {}
  /\ events' = {fd \in Fds \cup {0} : Readable(fd)}
  /\ events' # {}
  /\ UNCHANGED <<srv, serving, conn, registered, tcp, udp, messages, pc, printed, history>>

\* Faulty variant: the event is handled again.
HandleAgain(fd) == srv = "loop" /\ fd \in events /\ events' = events

\* The callback of one event begins.
Handle(fd) == srv = "loop" /\ fd \in events /\ events' = events \ {fd}

\* The number a new socket gets is the least that is not in use.
IsNextFd(fd) == conn[fd] = None /\ \A g \in Fds : conn[g] = None => fd <= g

\* recv_client. The selector refuses a number it still has a key for: KeyError.
Accept ==
  /\ Handle(0)
  /\ pending' = Tail(pending)
  /\ \E fd \in Fds :
       /\ IsNextFd(fd)
       /\ conn' = [conn EXCEPT ![fd] = Head(pending)]
       /\ \/ /\ registered[fd] = None
             /\ registered' = [registered EXCEPT ![fd] = Head(pending)]
             /\ UNCHANGED srv
          \/ /\ registered[fd] # None
             /\ srv' = "died"
             /\ UNCHANGED registered
  /\ UNCHANGED <<serving, code, eof, port, udp, messages, pc, printed, history>>

\* Faulty variant: the key stays in the selector.
UnregisterNot(fd) == registered

Unregister(fd) == [registered EXCEPT ![fd] = None]

\* handle_request after the client has shut down its writing end.
HandleEof(fd) ==
  /\ Handle(fd)
  /\ conn[fd] \notin code
  /\ conn' = [conn EXCEPT ![fd] = None]
  /\ registered' = Unregister(fd)
  /\ UNCHANGED <<srv, serving, tcp, udp, messages, pc, printed, history>>

\* handle_request with another code: '0', and closed without unregister.
Refuse(fd) ==
  /\ Handle(fd)
  /\ conn[fd] \in code \ RightCode
  /\ code' = code \ {conn[fd]}
  /\ port' = [port EXCEPT ![conn[fd]] = "zero"]
  /\ conn' = [conn EXCEPT ![fd] = None]
  /\ UNCHANGED <<srv, serving, registered, pending, eof, udp, messages, pc, printed, history>>

\* handle_request with the code: a UDP socket, its port, and recvfrom.
Negotiate(fd) ==
  /\ Handle(fd)
  /\ conn[fd] \in code \cap RightCode
  /\ code' = code \ {conn[fd]}
  /\ port' = [port EXCEPT ![conn[fd]] = "port"]
  /\ srv' = "udp"
  /\ serving' = conn[fd]
  /\ UNCHANGED <<conn, registered, pending, eof, udp, messages, pc, printed, history>>

EndMark(c) == IF Text[c] = "TERMINATE" THEN Bye ELSE Empty

\* Faulty variant: no end mark.
EndNot(c) == Append(messages, NoMsg)

\* send_message_list, then the end mark.
Datagrams(c) == Append(Append(messages, NoMsg), EndMark(c))

IsPost(c) == Text[c] \notin {"TERMINATE", "GET"}

\* A sequence without its i-th element.
RemoveAt(s, i) == SubSeq(s, 1, i - 1) \o SubSeq(s, i + 1, Len(s))

\* The datagram has come: the list is sent to whoever sent it. UDP may lose a
\* datagram (of each answer at most one, a bound).
Answer ==
  /\ srv = "udp" /\ serving \in request
  /\ request' = request \ {serving}
  /\ \/ inbox' = [inbox EXCEPT ![serving] = Datagrams(serving)] /\ UNCHANGED disturbed
     \/ /\ disturbed' = TRUE
        /\ \E i \in 1 .. Len(Datagrams(serving)) :
             inbox' = [inbox EXCEPT ![serving] = RemoveAt(Datagrams(serving), i)]
  /\ answered' = [answered EXCEPT ![serving] = messages]
  /\ srv' = IF IsPost(serving) THEN "store" ELSE "close"
  /\ UNCHANGED <<events, serving, conn, registered, tcp, messages, pc, printed>>

\* Faulty variant: what reads as a control word is not stored.
StorePlain(c) == IF Text[c] \in {"", "BYE"} THEN messages ELSE Append(messages, Stored(c))

Store(c) == Append(messages, Stored(c))

StoreMessage ==
  /\ srv = "store"
  /\ messages' = Store(serving)
  /\ srv' = "close"
  /\ UNCHANGED <<events, serving, conn, registered, tcp, udp, pc, printed, history>>

\* The UDP socket is shut down and closed; TERMINATE ends the process.
CloseUdp ==
  /\ srv = "close"
  /\ \/ "raises" \in UdpShutdown /\ srv' = "failed"
     \/ "ok" \in UdpShutdown /\ srv' = IF Text[serving] = "TERMINATE" THEN "exited" ELSE "loop"
  /\ serving' = None
  /\ UNCHANGED <<events, conn, registered, tcp, udp, messages, pc, printed, history>>

Server ==
  \/ Select \/ Accept \/ Answer \/ StoreMessage \/ CloseUdp
  \/ \E fd \in Fds : HandleEof(fd) \/ Refuse(fd) \/ Negotiate(fd)

\* KeyboardInterrupt, wherever the server is.
Interrupt ==
  /\ Up
  /\ srv' = "exited"
  /\ disturbed' = TRUE
  /\ UNCHANGED <<events, serving, conn, registered, tcp, udp, messages, pc, printed, answered>>

-----------------------------------------------------------------------------
(* A client.                                                               *)

At(c, from, to) == pc[c] = from /\ pc' = [pc EXCEPT ![c] = to]

Connect(c) ==
  /\ Up /\ Len(pending) <= Backlog
  /\ At(c, "start", "connected")
  /\ pending' = Append(pending, c)
  /\ UNCHANGED <<server, code, eof, port, udp, messages, printed, history>>

SendCode(c) ==
  /\ Up /\ At(c, "connected", "sent")
  /\ code' = code \cup {c}
  /\ UNCHANGED <<server, pending, eof, port, udp, messages, printed, history>>

ShutdownWrite(c) ==
  /\ Up /\ At(c, "sent", "shut")
  /\ eof' = eof \cup {c}
  /\ UNCHANGED <<server, pending, code, port, udp, messages, printed, history>>

\* With the server's process its sockets are closed: connecting fails, recv
\* returns nothing or fails, and the client ends with an exception.
ServerGone(c) ==
  /\ ~Up /\ port[c] = None
  /\ \E from \in {"start", "connected", "sent", "shut"} : At(c, from, "died")
  /\ UNCHANGED <<server, tcp, udp, messages, printed, history>>

\* The answer to the code is read. When it is '0' the server has closed the
\* connection, and the client's shutdown may fail before "Invalid req_code."
RecvPort(c) ==
  /\ \/ port[c] = "port" /\ At(c, "shut", "ask")
     \/ port[c] = "zero" /\ (At(c, "shut", "invalid") \/ At(c, "shut", "died"))
     \/ port[c] = "zero" /\ ~Up /\ At(c, "sent", "died")
  /\ UNCHANGED <<server, tcp, udp, messages, printed, history>>

\* The message is on its way to the server's UDP socket, or lost.
SendMessage(c) ==
  /\ At(c, "ask", "wait")
  /\ \/ request' = request \cup {c} /\ UNCHANGED disturbed
     \/ disturbed' = TRUE /\ UNCHANGED request
  /\ UNCHANGED <<server, tcp, inbox, messages, printed, answered>>

\* Where the loop of udp() ends: at an empty datagram or BYE.
EndsAt(s) == {i \in 1 .. Len(s) : s[i].kind # "text" /\ \A j \in 1 .. i - 1 : s[j].kind = "text"}

\* The loop of udp() over what has come: all up to the end mark is printed. Nobody
\* else sees the datagrams being taken one by one. (Waiting for a key after BYE
\* is left out.)
RecvDatagrams(c) ==
  /\ pc[c] = "wait" /\ inbox[c] # <<>>
  /\ inbox' = [inbox EXCEPT ![c] = <<>>]
  /\ \/ /\ EndsAt(inbox[c]) = {}
        /\ printed' = [printed EXCEPT ![c] = inbox[c]]
        /\ UNCHANGED pc
     \/ \E i \in EndsAt(inbox[c]) :
          /\ printed' = [printed EXCEPT ![c] = SubSeq(inbox[c], 1, i - 1)]
          /\ At(c, "wait", "done")
  /\ UNCHANGED <<server, tcp, request, messages, history>>

Client(c) ==
  \/ Connect(c) \/ SendCode(c) \/ ShutdownWrite(c) \/ ServerGone(c)
  \/ RecvPort(c) \/ SendMessage(c) \/ RecvDatagrams(c)

Next == Server \/ Interrupt \/ \E c \in Clients : Client(c)

Spec == Init /\ [][Next]_vars

\* The server and each client are processes of their own, which go on.
FairSpec == Spec /\ WF_vars(Server) /\ \A c \in Clients : WF_vars(Client(c))

-----------------------------------------------------------------------------
Datagram ==
  [kind : {"text", "bye", "empty"}, from : Clients \cup {None},
   text : {Text[c] : c \in Clients} \cup {"NO MSG", "BYE", ""}]

TypeOK ==
  /\ srv \in {"loop", "udp", "store", "close", "exited", "failed", "died"}
  /\ events \subseteq Fds \cup {0}
  /\ serving \in Clients \cup {None}
  /\ pending \in Seq(Clients)
  /\ conn \in [Fds -> Clients \cup {None}]
  /\ registered \in [Fds -> Clients \cup {None}]
  /\ code \subseteq Clients /\ eof \subseteq Clients /\ request \subseteq Clients
  /\ port \in [Clients -> {None, "port", "zero"}]
  /\ inbox \in [Clients -> Seq(Datagram)]
  /\ messages \in Seq(Datagram)
  /\ pc \in [Clients -> {"start", "connected", "sent", "shut", "ask", "wait",
                         "done", "invalid", "died"}]
  /\ printed \in [Clients -> Seq(Datagram)]
  /\ answered \in [Clients -> Seq(Datagram)]
  /\ disturbed \in BOOLEAN

\* The loop hands events to callbacks one after the other, and earlier callbacks
\* close and accept sockets: whatever they do, an event still to be handled is
\* of a socket that is open, registered by the same client and readable.
NoStaleEvent == Up => \A fd \in events : Readable(fd)

\* The exception of register ends the server only after a client with a wrong
\* code was sent away: regular clients, in whatever order they come and go,
\* leave no key behind.
DiesOnlyAfterRefusal ==
  srv = "died" => \E c \in Clients \ RightCode : port[c] = "zero"

\* A client that has been told the end of its request can rely on its message:
\* it is in the list before anybody else is answered.
AcknowledgedIsStored ==
  \A c \in Clients :
    pc[c] = "done" /\ IsPost(c) /\ srv \in {"loop", "udp"} =>
      \E i \in 1 .. Len(messages) : messages[i] = Stored(c)

\* Unless a datagram was lost, a client that has ended has printed all that was
\* stored when it was answered, though messages may read BYE or be empty.
WholeList ==
  \A c \in Clients :
    pc[c] = "done" /\ ~disturbed => printed[c] = Append(answered[c], NoMsg)

\* Every client ends, although the server blocks on one at a time and may end
\* with others in its queue: by itself or by an exception, unless a datagram is
\* lost or the server interrupted.
EveryClientEnds ==
  <>(disturbed \/ \A c \in Clients : pc[c] \in {"done", "invalid", "died"})

\* "used for handling concurrent TCP connections": no client brings it down.
ServerSurvives == srv # "died"
=============================================================================
