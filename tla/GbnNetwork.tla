----------------------------- MODULE GbnNetwork -----------------------------
(***************************************************************************)
(* The part of the Go-Back-N file transfer (a2/) that both sender models   *)
(* share: the packets of a2/packet.py, the network emulator between the    *)
(* two hosts, and the receiver of a2/receiver.py.                          *)
(*                                                                         *)
(* A chunk of the file is represented by its position 1 .. NumChunks: the  *)
(* most discriminating content a chunk can have.                           *)
(***************************************************************************)
EXTENDS Integers, Sequences

CONSTANTS
  NumChunks,    \* chunks of MAX_DATA_LENGTH characters the file consists of
  SeqModulo,    \* packet.SEQ_NUM_MODULO, 32 in the code
  WindowSize,   \* the sender's ws, 10 in the code
  QueueLimit    \* packets one direction of the emulator holds, 101 in the binary

ASSUME GbnAssumption ==
  /\ NumChunks \in Nat
  /\ SeqModulo \in Nat
  /\ WindowSize \in Nat \ {0}
  /\ WindowSize < SeqModulo
  /\ QueueLimit \in Nat \ {0}

VARIABLES
  fwd,              \* emulator queue, sender to receiver
  bwd,              \* emulator queue, receiver to sender
  expectedseqnum,   \* Receiver.expectedseqnum
  rcv_sndpkt,       \* Receiver.sndpkt: the packet the receiver sends (again)
  out,              \* the chunks written to the receiver's file
  rcv_done          \* the receiver left its loop and closed its sockets

netvars == <<fwd, bwd>>
rcvvars == <<expectedseqnum, rcv_sndpkt, out, rcv_done>>

-----------------------------------------------------------------------------
(* Packets (packet.py). The data of an ACK or an EOT is the empty string,  *)
(* here 0, which is the position of no chunk.                              *)

SeqNum == 0 .. SeqModulo - 1
Chunk == 1 .. NumChunks
NoData == 0
ACK == 0
DATA == 1
EOT == 2

MakePacket(type, seq_num, data) ==
  [type |-> type, seq_num |-> seq_num % SeqModulo, data |-> data]

CreateAck(seq_num) == MakePacket(ACK, seq_num, NoData)
CreatePacket(seq_num, data) == MakePacket(DATA, seq_num, data)
CreateEot(seq_num) == MakePacket(EOT, seq_num, NoData)

Packet == [type : {ACK, DATA, EOT}, seq_num : SeqNum, data : Chunk \cup {NoData}]

\* Faulty variant: the number does not wrap around.
SuccessorUnbounded(seq_num) == seq_num + 1

\* Faulty variant: the number wraps around with the window.
SuccessorInWindow(seq_num) == (seq_num + 1) % WindowSize

Successor(seq_num) == (seq_num + 1) % SeqModulo

-----------------------------------------------------------------------------
(* The emulator (nEmulator-linux386) keeps one first-in first-out queue    *)
(* per direction. On arrival it throws an ACK or DATA packet away at       *)
(* random, and when the queue is full, but never an EOT.                   *)

\* Faulty variant: the last packet in is the first out.
ForwardStack(queue, packet) ==
  {queue, <<packet>> \o queue}

\* The contents the queue may have once the packet has arrived.
Forward(queue, packet) ==
  IF packet.type = EOT THEN {Append(queue, packet)}
  ELSE IF Len(queue) < QueueLimit THEN {queue, Append(queue, packet)}
  ELSE {queue}

NextIs(queue, type) == queue # <<>> /\ Head(queue).type = type

-----------------------------------------------------------------------------
(* The receiver's loop, one action per branch.                             *)

\* Faulty variant: the first packet is acknowledged before it has arrived.
InitialAckZero == CreateAck(0)

\* What the receiver sends when the first packet is not the expected one.
InitialAck == CreateAck(-1)

ReceiverInit ==
  /\ expectedseqnum = 0
  /\ rcv_sndpkt = InitialAck
  /\ out = <<>>
  /\ rcv_done = FALSE

\* A data packet with the expected number: write it and acknowledge it.
ReceiveExpected ==
  /\ ~rcv_done
  /\ NextIs(fwd, DATA)
  /\ Head(fwd).seq_num = expectedseqnum
  /\ out' = Append(out, Head(fwd).data)
  /\ rcv_sndpkt' = CreateAck(expectedseqnum)
  /\ bwd' \in Forward(bwd, rcv_sndpkt')
  /\ expectedseqnum' = Successor(expectedseqnum)
  /\ fwd' = Tail(fwd)
  /\ UNCHANGED rcv_done

\* Faulty variant: acknowledge the packet itself, although it is not expected.
ReplyWithItsAck(packet) == CreateAck(packet.seq_num)

\* The reply to a data packet that is not expected: the last acknowledgement.
ReplyToUnexpected(packet) == rcv_sndpkt

ReceiveUnexpected ==
  /\ ~rcv_done
  /\ NextIs(fwd, DATA)
  /\ Head(fwd).seq_num # expectedseqnum
  /\ bwd' \in Forward(bwd, ReplyToUnexpected(Head(fwd)))
  /\ fwd' = Tail(fwd)
  /\ UNCHANGED rcvvars

\* An EOT: leave the loop, close the file, answer with an EOT, close the
\* sockets.
ReceiveEot ==
  /\ ~rcv_done
  /\ NextIs(fwd, EOT)
  /\ rcv_sndpkt' = CreateEot(expectedseqnum)
  /\ bwd' \in Forward(bwd, rcv_sndpkt')
  /\ rcv_done' = TRUE
  /\ fwd' = Tail(fwd)
  /\ UNCHANGED <<expectedseqnum, out>>

\* A packet that reaches the closed socket of the receiver is lost.
ReceiverClosed ==
  /\ rcv_done
  /\ fwd # <<>>
  /\ fwd' = Tail(fwd)
  /\ UNCHANGED <<bwd, rcvvars>>

Receiver == ReceiveExpected \/ ReceiveUnexpected \/ ReceiveEot \/ ReceiverClosed

NetworkTypeOK ==
  /\ fwd \in Seq(Packet)
  /\ bwd \in Seq(Packet)
  /\ expectedseqnum \in SeqNum
  /\ rcv_sndpkt \in Packet
  /\ out \in Seq(Chunk)
  /\ rcv_done \in BOOLEAN

\* What was written so far is a prefix of the file, chunk by chunk: the
\* README's "cmp large.txt large_copy.txt" finds no difference.
InOrderPrefix == \A i \in 1 .. Len(out) : out[i] = i
=============================================================================
