----------------------------- MODULE GoBackNInv -----------------------------
(***************************************************************************)
(* The inductive invariant behind the safety properties of GoBackN. The    *)
(* program only keeps numbers modulo SeqModulo; the invariant relates them *)
(* to b, the number of chunks the sender knows to be written.              *)
(***************************************************************************)
EXTENDS GoBackN

\* The sequence number of the packet that is sent after k others.
Num(k) == k % SeqModulo

\* No EOT among the first i packets on the way to the receiver.
NoEotUpTo(i) == \A j \in 1 .. i : fwd[j].type # EOT

\* What an acknowledgement says, counted in chunks, if b were known before.
Acknowledged(packet, b) == b + ((packet.seq_num + 1 - b) % SeqModulo)

\* b <= chunks written <= chunks sent <= b + WindowSize, and the sender's and
\* the receiver's numbers are these counts modulo SeqModulo. The EOT takes the
\* number after the last chunk and leaves the sender with one packet in flight.
Counters(b) ==
  /\ b <= Len(out) /\ Len(out) <= offset /\ offset <= b + WindowSize
  /\ base = Num(b)
  /\ expectedseqnum = Num(Len(out))
  /\ should_send_eot => offset = NumChunks
  /\ ~EotSent => nextseqnum = Num(offset)
  /\ EotSent => /\ nextseqnum = Num(offset + 1)
                /\ b = NumChunks

\* The slots hold the chunks of the last round of numbers.
Buffer ==
  /\ \A s \in SeqNum : sndpkt[s].type = DATA
  /\ \A k \in 1 .. offset : offset < k + SeqModulo =>
       sndpkt[Num(k - 1)] = CreatePacket(k - 1, k)

\* A slot that is waiting to be resent holds a chunk that is not behind by a whole
\* round of numbers.
Burst ==
  ~EotSent => \A s \in resend :
                \E k \in 1 .. offset : s = Num(k - 1) /\ offset < k + SeqModulo - 1

\* A chunk on its way is numbered by its position, and will find that less than a
\* round of numbers has been written after it.
Forwards ==
  /\ \A i \in 1 .. Len(fwd) : fwd[i].type # ACK
  /\ ~rcv_done => \A i \in 1 .. Len(fwd) : NoEotUpTo(i) =>
       /\ fwd[i].data \in 1 .. offset
       /\ fwd[i].seq_num = Num(fwd[i].data - 1)
       /\ Len(out) < fwd[i].data + SeqModulo - 1
       /\ \A j \in 1 .. i - 1 : fwd[j].data < fwd[i].data + SeqModulo - 1

\* Acknowledgements arrive in the order of what they acknowledge, and none
\* acknowledges more than was written. An EOT comes back after the copy closed.
Backwards(b) ==
  /\ ~rcv_done => rcv_sndpkt = CreateAck(Len(out) - 1)
  /\ \A i \in 1 .. Len(bwd) :
       /\ bwd[i].type # DATA
       /\ bwd[i].type = EOT => rcv_done
       /\ bwd[i].type = ACK =>
            /\ Acknowledged(bwd[i], b) <= Len(out)
            /\ \A j \in 1 .. i - 1 : bwd[j].type = ACK =>
                 Acknowledged(bwd[j], b) <= Acknowledged(bwd[i], b)

Core(b) ==
  /\ Counters(b)
  /\ Buffer
  /\ Burst
  /\ Forwards
  /\ Backwards(b)

\* The invariant: the named relations hold for some number of chunks b, the
\* chunks written are a prefix of the file, and the sender ends after the receiver.
IInv ==
  /\ TypeOK
  /\ InOrderPrefix
  /\ snd_done => rcv_done
  /\ \E b \in 0 .. NumChunks : Core(b)
=============================================================================
