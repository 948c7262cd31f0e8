--------------------------- MODULE SenderThreadsInv ---------------------------
(***************************************************************************)
(* The inductive invariant behind InOrderPrefix, WindowKept and            *)
(* TransfersFile of SenderThreads: what holds between any two statements of the threads.    *)
(***************************************************************************)
EXTENDS SenderThreads

\* Where each thread can be: the flag is set by the last statement of the sending
\* thread, an EOT is only on its way to be sent when it is set, and a thread that
\* is about to cancel or start self.timer finds one.
ControlInv ==
  /\ should_send_eot <=> pc[sending] = "exit"
  /\ should_send_eot => offset = NumChunks
  /\ pc[sending] \notin {"guard1", "exit"} => offset < NumChunks
  /\ pc[main] \in {"eot", "incr"} => should_send_eot
  /\ \A t \in Thread : pc[t] \in {"timer_cancel", "timer_run"} => timer # None
  /\ \A k \in Timers : pc[k] = "end" => burst[k] # <<>>

\* No packet without a chunk is sent, nor is any but a data packet stored.
DataInv ==
  /\ \A i \in 1 .. Len(fwd) : fwd[i].type = DATA => fwd[i].data \in Chunk
  /\ \A s \in SeqNum : sndpkt[s] = NoPacket \/ (sndpkt[s].type = DATA /\ sndpkt[s].data \in Chunk)
  /\ pc[sending] = "send" => sndpkt[nextseqnum].data \in Chunk

\* The EOT has been counted: nextseqnum is one ahead of the chunks.
EotCounted == nextseqnum # offset

\* Without a wrap-around the numbers are counts of chunks. An acknowledgement of
\* nothing (-1) comes only when a second packet has been sent, so base = nextseqnum
\* is never true of 0 = 0, be it that nextseqnum starts there or the EOT's number
\* wraps around to it.
CountInv ==
  /\ expectedseqnum = Len(out)
  /\ base <= Len(out) /\ Len(out) <= Stored /\ Stored <= base + WindowSize
  /\ pc[sending] = "store" => offset < base + WindowSize
  /\ EotCounted => /\ should_send_eot
                   /\ nextseqnum = Successor(NumChunks)
                   /\ pc[main] \notin {"stop", "flag?", "eot", "incr"}
                   /\ base # 0
  /\ pc[main] \in {"stop", "flag?", "eot", "incr"} => base # 0
  /\ pc[main] = "compare" /\ base = 0 => offset # 0

\* A slot holds the chunk of its number, from the moment it is stored.
SlotInv ==
  \A s \in SeqNum : sndpkt[s] = IF s < Stored THEN CreatePacket(s, s + 1) ELSE NoPacket

\* So does every data packet on its way, however late a timer thread has sent it.
ForwardsInv ==
  \A i \in 1 .. Len(fwd) : fwd[i].type = DATA =>
    fwd[i].data = fwd[i].seq_num + 1 /\ fwd[i].data <= Stored

\* Acknowledgements arrive in the order of what they acknowledge.
BackwardsInv ==
  /\ ~rcv_done => rcv_sndpkt = CreateAck(Len(out) - 1)
  /\ \A i \in 1 .. Len(bwd) : bwd[i].type = ACK =>
       LET acked(j) == Successor(bwd[j].seq_num)
       IN /\ base <= acked(i) /\ acked(i) <= Len(out)
          /\ acked(i) = 0 => offset # 0
          /\ \A j \in 1 .. i - 1 : bwd[j].type = ACK => acked(j) <= acked(i)

\* An EOT is sent only when the flag is set, and answered only by a receiver that
\* has ended; the main thread leaves its loop only on that answer.
EndInv ==
  /\ \A i \in 1 .. Len(fwd) : fwd[i].type = EOT => should_send_eot
  /\ \A i \in 1 .. Len(bwd) : bwd[i].type = EOT => rcv_done
  /\ rcv_sndpkt.type = EOT => rcv_done
  /\ SocketsClosed => rcv_done

StatementInv ==
  /\ TypeOK
  /\ ControlInv
  /\ DataInv
  /\ NumChunks < SeqModulo =>
       CountInv /\ SlotInv /\ ForwardsInv /\ BackwardsInv /\ InOrderPrefix

ThreadInv == StatementInv /\ EndInv
=============================================================================
