--------------------------- MODULE MessageServerInv ---------------------------
(***************************************************************************)
(* The inductive invariant behind the safety properties of MessageServer.  *)
(***************************************************************************)
EXTENDS MessageServer

\* A connection is in the listening socket's queue or has one number, and a client
\* that has not connected has none.
ConnInv ==
  /\ \A f, g \in Fds : conn[f] = conn[g] /\ conn[f] # None => f = g
  /\ \A i, j \in 1 .. Len(pending) : pending[i] = pending[j] => i = j
  /\ \A f \in Fds, i \in 1 .. Len(pending) : conn[f] # pending[i]
  /\ \A c \in Clients : pc[c] = "start" =>
       (\A f \in Fds : conn[f] # c) /\ (\A i \in 1 .. Len(pending) : pending[i] # c)

\* The handler that waits, stores or closes has a client.
ServingInv == srv \in {"udp", "store", "close"} => serving \in Clients

\* Every open connection is registered under its number; the keys of numbers that
\* are not in use are those of clients sent away.
KeyInv ==
  \A fd \in Fds :
    /\ conn[fd] # None /\ srv # "died" => registered[fd] = conn[fd]
    /\ conn[fd] = None /\ registered[fd] # None =>
         registered[fd] \in Clients \ RightCode /\ port[registered[fd]] = "zero"

\* A message is on its way only from a client that waits and has got nothing yet,
\* and only to such a client is anything on its way.
RequestInv ==
  \A c \in Clients :
    /\ c \in request => pc[c] = "wait" /\ inbox[c] = <<>>
    /\ inbox[c] # <<>> => pc[c] = "wait"

\* A client that has, or has seen, its end mark has its message stored, or the
\* server is just about to.
AckInv ==
  \A c \in Clients :
    /\ pc[c] = "done" \/ EndsAt(inbox[c]) # {}
    /\ IsPost(c)
    /\ Up
    => (srv = "store" /\ serving = c) \/ \E i \in 1 .. Len(messages) : messages[i] = Stored(c)

\* Lists of messages hold nothing that ends a list, and as long as nothing is lost
\* what is on its way to a client is its whole list.
ListInv ==
  /\ \A i \in 1 .. Len(messages) : messages[i].kind = "text"
  /\ \A c \in Clients : \A i \in 1 .. Len(answered[c]) : answered[c][i].kind = "text"
  /\ ~disturbed => \A c \in Clients : inbox[c] # <<>> =>
       inbox[c] = Append(Append(answered[c], NoMsg), EndMark(c))

ServerInv ==
  /\ TypeOK
  /\ ServingInv
  /\ ConnInv
  /\ KeyInv
  /\ NoStaleEvent
  /\ RequestInv
  /\ AckInv
  /\ ListInv
  /\ DiesOnlyAfterRefusal
  /\ WholeList
=============================================================================
