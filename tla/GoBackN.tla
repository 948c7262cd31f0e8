------------------------------ MODULE GoBackN ------------------------------
(***************************************************************************)
(* The Go-Back-N protocol of a2/sender.py with the receiver and the        *)
(* network emulator. rdt_send (sending thread) and rdt_rcv (main thread)   *)
(* are each one step here: what goes wrong between their statements, and   *)
(* with the Timer objects, is the matter of SenderThreads. A timeout may   *)
(* happen at any time and any number of timer threads may be resending,    *)
(* each long after it has read the window; the numbers wrap around.        *)
(***************************************************************************)
EXTENDS GbnNetwork

VARIABLES
  base,              \* Sender.base
  nextseqnum,        \* Sender.nextseqnum
  sndpkt,            \* Sender.sndpkt: one slot per sequence number
  should_send_eot,   \* Sender.should_send_eot
  offset,            \* chunks the sending thread has taken from the chunker and sent
  resend,            \* slots the threads in timeout_event have still to resend
  snd_done           \* the sender has ended

sndvars == <<base, nextseqnum, sndpkt, should_send_eot, offset, resend, snd_done>>
vars == <<netvars, rcvvars, sndvars>>

NoPacket == [type |-> DATA, seq_num |-> 0, data |-> NoData]

TypeOK ==
  /\ NetworkTypeOK
  /\ base \in SeqNum
  /\ nextseqnum \in SeqNum
  /\ sndpkt \in [SeqNum -> Packet]
  /\ should_send_eot \in BOOLEAN
  /\ offset \in 0 .. NumChunks
  /\ resend \subseteq SeqNum
  /\ snd_done \in BOOLEAN

Init ==
  /\ fwd = <<>>
  /\ bwd = <<>>
  /\ ReceiverInit
  /\ base = 0
  /\ nextseqnum = 0
  /\ sndpkt = [s \in SeqNum |-> NoPacket]
  /\ should_send_eot = FALSE
  /\ offset = 0
  /\ resend = {}
  /\ snd_done = FALSE

-----------------------------------------------------------------------------
(* The sender.                                                             *)

\* Faulty variant: one packet more than the window holds.
WindowOpenOneMore == base <= nextseqnum /\ nextseqnum <= base + WindowSize

\* The guard of rdt_send.
WindowOpen == base <= nextseqnum /\ nextseqnum < base + WindowSize

\* Packets in the window: sent and not known to be received.
InFlight == (nextseqnum - base) % SeqModulo

\* The slots unacked() yields.
Unacked == {(base + i) % SeqModulo : i \in 0 .. InFlight - 1}

\* An assumption on time: a thread has resent what it found in the window before
\* as many numbers have been given out as there are, so that none wants to resend
\* what comes to stand in the slot after the next.
BurstsInTime == Successor(nextseqnum) \notin resend

\* rdt_send with the next chunk; a refused call changes nothing and is
\* repeated by the sending thread.
RdtSend ==
  /\ ~snd_done
  /\ offset < NumChunks
  /\ WindowOpen
  /\ BurstsInTime
  /\ sndpkt' = [sndpkt EXCEPT ![nextseqnum] = CreatePacket(nextseqnum, offset + 1)]
  /\ fwd' \in Forward(fwd, sndpkt'[nextseqnum])
  /\ nextseqnum' = Successor(nextseqnum)
  /\ offset' = offset + 1
  /\ UNCHANGED <<bwd, rcvvars, base, should_send_eot, resend, snd_done>>

\* Faulty variant: a refused last chunk is taken for a sent one.
AllVisitedTooEarly == offset + 1 >= NumChunks

\* The sending thread has visited all chunks.
AllVisited == offset = NumChunks

SetShouldSendEot ==
  /\ ~snd_done
  /\ AllVisited
  /\ ~should_send_eot
  /\ should_send_eot' = TRUE
  /\ UNCHANGED <<netvars, rcvvars, base, nextseqnum, sndpkt, offset, resend, snd_done>>

\* timeout_event reads the window.
TimeoutEvent ==
  /\ ~snd_done
  /\ resend' = resend \cup Unacked
  /\ UNCHANGED <<netvars, rcvvars, base, nextseqnum, sndpkt, should_send_eot, offset, snd_done>>

\* One of the threads in timeout_event resends a slot; another may still have to.
ResendNext ==
  /\ ~snd_done
  /\ \E s \in resend :
       /\ IF sndpkt[s] = NoPacket
          THEN UNCHANGED fwd
          ELSE fwd' \in Forward(fwd, sndpkt[s])
       /\ resend' \in {resend, resend \ {s}}
  /\ UNCHANGED <<bwd, rcvvars, base, nextseqnum, sndpkt, should_send_eot, offset, snd_done>>

\* rdt_rcv when nothing is left in the window: when all chunks have been
\* visited, send the EOT.
RdtRcvAllAcked ==
  /\ ~snd_done
  /\ NextIs(bwd, ACK)
  /\ base' = Successor(Head(bwd).seq_num)
  /\ base' = nextseqnum
  /\ IF should_send_eot
     THEN /\ fwd' \in Forward(fwd, CreateEot(nextseqnum))
          /\ nextseqnum' = Successor(nextseqnum)
     ELSE UNCHANGED <<fwd, nextseqnum>>
  /\ bwd' = Tail(bwd)
  /\ UNCHANGED <<rcvvars, sndpkt, should_send_eot, offset, resend, snd_done>>

\* rdt_rcv when packets remain in the window.
RdtRcvSomeAcked ==
  /\ ~snd_done
  /\ NextIs(bwd, ACK)
  /\ base' = Successor(Head(bwd).seq_num)
  /\ base' # nextseqnum
  /\ bwd' = Tail(bwd)
  /\ UNCHANGED <<fwd, rcvvars, nextseqnum, sndpkt, should_send_eot, offset, resend, snd_done>>

RdtRcv == RdtRcvAllAcked \/ RdtRcvSomeAcked

\* wait_loop leaves on the receiver's EOT; start() closes the sockets and joins
\* the sending thread.
FinishOnEot ==
  /\ ~snd_done
  /\ should_send_eot
  /\ NextIs(bwd, EOT)
  /\ snd_done' = TRUE
  /\ bwd' = Tail(bwd)
  /\ UNCHANGED <<fwd, rcvvars, base, nextseqnum, sndpkt, should_send_eot, offset, resend>>

Sender ==
  \/ RdtSend \/ SetShouldSendEot \/ TimeoutEvent \/ ResendNext
  \/ RdtRcv \/ FinishOnEot

-----------------------------------------------------------------------------
Next ==
  \/ Sender
  \/ Receiver /\ UNCHANGED sndvars

Spec == Init /\ [][Next]_vars

\* The emulator never discards an EOT, but the hosts are connected by UDP: the
\* datagram that carries it may be lost on the way to the receiver.
LoseEot ==
  /\ NextIs(fwd, EOT)
  /\ fwd' = Tail(fwd)
  /\ UNCHANGED <<bwd, rcvvars, sndvars>>

SpecLossyEot == Init /\ [][Next \/ LoseEot]_vars

-----------------------------------------------------------------------------
(* Safety.                                                                 *)

EotSent == rcv_done \/ \E i \in 1 .. Len(fwd) : fwd[i].type = EOT

\* Until the EOT is sent, the three counters modulo SeqModulo tell how far
\* the transfer is: what left the window was written by the receiver, nothing
\* is written that was not sent, and the window holds at most WindowSize
\* packets (rdt_send, rdt_rcv and the receiver's loop together).
WindowSound ==
  ~EotSent =>
    /\ offset - InFlight <= Len(out)
    /\ Len(out) <= offset
    /\ InFlight <= WindowSize

\* rdt_rcv sets base from whatever acknowledgement arrives; it never steps
\* back, nor past what was sent.
BaseNeverRetreats ==
  [][(base' - base) % SeqModulo <= InFlight]_base

\* The comment in rdt_send calls a refused window full. It need not be: once
\* nextseqnum has wrapped around and base has not, the guard refuses.
RefusesOnlyFullWindow ==
  (offset < NumChunks /\ ~WindowOpen) => InFlight >= WindowSize
=============================================================================
