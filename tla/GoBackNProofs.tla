---------------------------- MODULE GoBackNProofs ----------------------------
(***************************************************************************)
(* Proofs that GoBackN keeps its safety properties for every file length,  *)
(* sequence number modulus, window size and queue limit. The invariant is  *)
(* IInv of GoBackNInv; each handler is shown to preserve it. And proofs    *)
(* that TextTransfer, the way of a chunk through encoder and decoder, is   *)
(* exact for the files it should be exact for, and for no others; the      *)
(* invariant is TextInv of TextTransferInv.                                *)
(***************************************************************************)
EXTENDS GoBackNInv, TextTransferInv, Lemmas

-----------------------------------------------------------------------------
(* Sequence numbers.                                                       *)

\* The assumption in the form the lemmas on % ask for.
LEMMA Modulus == SeqModulo \in Nat \ {0} /\ 1 \in Int
BY GbnAssumption

\* Every count has a sequence number.
LEMMA NumType ==
  ASSUME NEW a \in Int
  PROVE  Num(a) \in SeqNum
BY GbnAssumption, DivisionWithRemainder DEF Num, SeqNum

\* Successor is counting one further.
LEMMA NumSuccessor ==
  ASSUME NEW a \in Int
  PROVE  Successor(Num(a)) = Num(a + 1)
<1>1. ((a % SeqModulo) + 1) % SeqModulo = (a + 1) % SeqModulo
  BY Modulus, RemainderOfSum, Zenon
<1> QED
  BY <1>1 DEF Num, Successor

\* Counts less than SeqModulo apart have different numbers.
LEMMA NumInjective ==
  ASSUME NEW a \in Int, NEW b \in Int, Num(a) = Num(b),
         a < b + SeqModulo, b < a + SeqModulo
  PROVE  a = b
<1>1. CASE a <= b
  BY <1>1, Modulus, EqualWithinModulus, Zenon DEF Num
<1>2. CASE b <= a
  <2>1. b = a
    BY <1>2, Modulus, EqualWithinModulus, Zenon DEF Num
  <2> QED
    BY <2>1
<1> QED
  BY <1>1, <1>2

\* A packet carries the sequence number of its position, whether it is created
\* from the count or from the number.
LEMMA NumPackets ==
  ASSUME NEW a \in Int, NEW d
  PROVE  /\ CreatePacket(a, d) = [type |-> DATA, seq_num |-> Num(a), data |-> d]
         /\ CreatePacket(Num(a), d) = [type |-> DATA, seq_num |-> Num(a), data |-> d]
         /\ CreateAck(a) = [type |-> ACK, seq_num |-> Num(a), data |-> NoData]
         /\ CreateAck(Num(a)) = [type |-> ACK, seq_num |-> Num(a), data |-> NoData]
         /\ CreateEot(Num(a)) = [type |-> EOT, seq_num |-> Num(a), data |-> NoData]
<1>1. Num(a) \in 0 .. SeqModulo - 1
  BY NumType DEF SeqNum
<1>2. Num(a) % SeqModulo = Num(a)
  BY <1>1, GbnAssumption, RemainderOfSmall
<1> QED
  BY <1>2 DEF CreatePacket, CreateAck, CreateEot, MakePacket, Num

\* The packets in flight are those between the two counters.
LEMMA InFlightCounts ==
  ASSUME NEW b \in Int, NEW n \in Int, b <= n, n < b + SeqModulo,
         base = Num(b), nextseqnum = Num(n)
  PROVE  /\ InFlight = n - b
         /\ WindowOpen => n < b + WindowSize
<1>1. (Num(n) - Num(b)) % SeqModulo = (n - b) % SeqModulo
  BY Modulus, RemainderOfSum, Zenon DEF Num
<1>2. n - b \in 0 .. SeqModulo - 1
  BY GbnAssumption
<1>3. (n - b) % SeqModulo = n - b
  BY <1>2, GbnAssumption, RemainderOfSmall
<1>4. InFlight = n - b
  BY <1>1, <1>3 DEF InFlight
<1>5. ASSUME WindowOpen PROVE n < b + WindowSize
  <2>1. nextseqnum \in Int /\ base \in Int
    BY NumType DEF SeqNum
  <2>2. nextseqnum - base \in 0 .. SeqModulo - 1 /\ nextseqnum - base < WindowSize
    BY <1>5, <2>1, GbnAssumption DEF WindowOpen
  <2>3. InFlight = nextseqnum - base
    BY <2>2, GbnAssumption, RemainderOfSmall DEF InFlight
  <2> QED
    BY <1>4, <2>2, <2>3, GbnAssumption
<1> QED
  BY <1>4, <1>5

\* The slots of unacked() are those of the chunks in the window.
LEMMA UnackedSlots ==
  ASSUME NEW b \in Int, base = Num(b), NEW i \in Int
  PROVE  (base + i) % SeqModulo = Num(b + i)
<1>1. (Num(b) + i) % SeqModulo = (b + i) % SeqModulo
  BY Modulus, RemainderOfSum, Zenon DEF Num
<1> QED
  BY <1>1 DEF Num

\* A whole round of numbers later the number is the same.
LEMMA NumNextRound ==
  ASSUME NEW a \in Int
  PROVE  Num(a + SeqModulo) = Num(a)
<1>1. (SeqModulo * 1 + a) % SeqModulo = a % SeqModulo
  BY Modulus, AddMultiple, Zenon
<1>2. SeqModulo * 1 + a = a + SeqModulo
  BY Modulus
<1> QED
  BY <1>1, <1>2 DEF Num

\* An acknowledgement stands for one count of chunks, at least b.
LEMMA AcknowledgedCount ==
  ASSUME NEW b \in Int, NEW p \in Packet
  PROVE  /\ Acknowledged(p, b) \in Int
         /\ Acknowledged(p, b) >= b
         /\ Acknowledged(p, b) < b + SeqModulo
         /\ Num(Acknowledged(p, b)) = Successor(p.seq_num)
<1> DEFINE s == p.seq_num
           r == (s + 1 - b) % SeqModulo
<1>1. s \in Int /\ s + 1 \in Int /\ s + 1 - b \in Int
  BY DEF Packet, SeqNum
<1>2. r \in 0 .. SeqModulo - 1
  BY <1>1, GbnAssumption, DivisionWithRemainder
<1>3. (r + b) % SeqModulo = ((s + 1 - b) + b) % SeqModulo
  BY <1>1, GbnAssumption, RemainderOfSum
<1>4. (s + 1 - b) + b = s + 1
  BY <1>1
<1> HIDE DEF r, s
<1>5. r + b = b + r
  BY <1>2, GbnAssumption
<1>6. b + r \in Int /\ b + r >= b /\ b + r < b + SeqModulo
  BY <1>2, GbnAssumption
<1>7. Acknowledged(p, b) = b + r
  BY DEF Acknowledged, r, s
<1>8. Num(b + r) = Successor(s)
  BY <1>3, <1>4, <1>5 DEF Num, Successor
<1> QED
  BY <1>6, <1>7, <1>8 DEF s

\* ... and it is the only count from b on that is less than SeqModulo away.
LEMMA AcknowledgedUnique ==
  ASSUME NEW b \in Int, NEW p \in Packet, NEW x \in Int,
         b <= x, x < b + SeqModulo, Num(x) = Successor(p.seq_num)
  PROVE  Acknowledged(p, b) = x
<1> DEFINE a == Acknowledged(p, b)
<1>1. a \in Int /\ a >= b /\ a < b + SeqModulo /\ Num(a) = Num(x)
  BY AcknowledgedCount
<1> HIDE DEF a
<1>2. a < x + SeqModulo /\ x < a + SeqModulo
  BY <1>1, GbnAssumption
<1>3. a = x
  BY <1>1, <1>2, NumInjective
<1> QED
  BY <1>3 DEF a
-----------------------------------------------------------------------------
(* Queues.                                                                 *)

\* A packet that arrives at the emulator joins the end of the queue or is lost.
LEMMA ForwardResult ==
  ASSUME NEW q \in Seq(Packet), NEW p \in Packet, NEW r \in Forward(q, p)
  PROVE  /\ r \in Seq(Packet)
         /\ \/ r = q /\ p.type # EOT
            \/ /\ r = Append(q, p)
               /\ Len(r) = Len(q) + 1
               /\ \A i \in 1 .. Len(q) : r[i] = q[i]
               /\ r[Len(q) + 1] = p
<1>1. CASE r = q /\ p.type # EOT
  BY <1>1
<1>2. CASE r = Append(q, p)
  BY <1>2, AppendProperties
<1> QED
  BY <1>1, <1>2 DEF Forward

\* Only sending an EOT sends an EOT.
LEMMA EotSentForward ==
  ASSUME NEW p \in Packet, fwd \in Seq(Packet), fwd' \in Forward(fwd, p),
         p.type # EOT, rcv_done' = rcv_done
  PROVE  EotSent' <=> EotSent
BY ForwardResult, SMTT(30) DEF EotSent

\* A data packet sent from the window keeps what Forwards says of the queue;
\* after an EOT any data packet does.
LEMMA ForwardsSend ==
  ASSUME TypeOK, Forwards, Len(out) <= offset, UNCHANGED <<out, rcv_done>>,
         offset' \in Nat, offset <= offset',
         NEW p \in Packet, p.type = DATA, fwd' \in Forward(fwd, p),
         ~EotSent => /\ p.data \in 1 .. offset'
                     /\ p.seq_num = Num(p.data - 1)
                     /\ offset < p.data + SeqModulo - 1
  PROVE  Forwards'
<1>1. fwd \in Seq(Packet) /\ Len(fwd) \in Nat /\ offset \in Nat /\ Len(out) \in Nat
  BY GbnAssumption, LenProperties DEF TypeOK, NetworkTypeOK
<1>2. CASE fwd' = fwd
  BY <1>1, <1>2 DEF Forwards, NoEotUpTo
<1>3. CASE fwd' # fwd
  <2> DEFINE n == Len(fwd)
  <2>1. /\ Len(fwd') = n + 1
        /\ \A i \in 1 .. n : fwd'[i] = fwd[i]
        /\ fwd'[n + 1] = p
    BY <1>1, <1>3, ForwardResult
  <2>2. n \in Nat
    BY <1>1
  <2> HIDE DEF n
  <2>3. \A i \in 1 .. Len(fwd') : fwd'[i].type # ACK
    BY <2>1, <2>2 DEF Forwards, n, ACK, DATA
  <2>4. ASSUME ~rcv_done', NEW i \in 1 .. Len(fwd'), NoEotUpTo(i)'
        PROVE  /\ fwd'[i].data \in 1 .. offset'
               /\ fwd'[i].seq_num = Num(fwd'[i].data - 1)
               /\ Len(out') < fwd'[i].data + SeqModulo - 1
               /\ \A j \in 1 .. i - 1 : fwd'[j].data < fwd'[i].data + SeqModulo - 1
    <3>1. CASE i \in 1 .. n
      <4>1. NoEotUpTo(i)
        BY <2>1, <2>2, <2>4, <3>1 DEF NoEotUpTo
      <4>2. \A j \in 1 .. i : fwd'[j] = fwd[j]
        BY <2>1, <2>2, <3>1
      <4> QED
        BY <1>1, <2>2, <2>4, <3>1, <4>1, <4>2, SMTT(30) DEF Forwards, n
    <3>2. CASE i = n + 1
      <4>1. ~EotSent
        BY <2>1, <2>2, <2>4, <3>2 DEF EotSent, NoEotUpTo, n
      <4>2. \A j \in 1 .. n : NoEotUpTo(j)
        BY <2>1, <2>2, <2>4, <3>2 DEF NoEotUpTo
      <4>3. \A j \in 1 .. n : fwd'[j] = fwd[j] /\ fwd[j].data \in 1 .. offset
        BY <2>1, <2>4, <4>2 DEF Forwards, n
      <4>4. p.data \in Nat /\ offset < p.data + SeqModulo - 1
        BY <4>1
      <4>5. \A j \in 1 .. i - 1 : fwd'[j].data < p.data + SeqModulo - 1
        BY <1>1, <2>2, <3>2, <4>3, <4>4, GbnAssumption, SMTT(30)
      <4>6. Len(out') < p.data + SeqModulo - 1
        BY <1>1, <4>4, GbnAssumption
      <4>7. fwd'[i] = p
        BY <2>1, <3>2
      <4> QED
        BY <4>1, <4>5, <4>6, <4>7
    <3> QED
      BY <2>1, <2>2, <2>4, <3>1, <3>2
  <2> QED
    BY <2>3, <2>4 DEF Forwards
<1> QED
  BY <1>2, <1>3
-----------------------------------------------------------------------------
(* Each step of the sender.                                                *)

\* The counts are numbers, in the order the window allows.
Bounds(b) ==
  /\ b \in Nat /\ offset \in Nat /\ Len(out) \in Nat
  /\ b <= Len(out) /\ Len(out) <= offset /\ offset <= NumChunks
  /\ offset <= b + WindowSize /\ offset < b + SeqModulo
  /\ EotSent => b = NumChunks /\ offset = NumChunks /\ Len(out) = NumChunks

\* The invariant, taken apart for one count of acknowledged chunks.
LEMMA InvariantCount ==
  ASSUME IInv
  PROVE  \E b \in 0 .. NumChunks :
           /\ Counters(b) /\ Buffer /\ Burst /\ Forwards /\ Backwards(b)
           /\ Bounds(b)
<1>1. PICK b \in 0 .. NumChunks : Core(b)
  BY DEF IInv
<1>2. out \in Seq(Chunk) /\ offset \in 0 .. NumChunks
  BY DEF IInv, TypeOK, NetworkTypeOK
<1>3. Bounds(b)
  BY <1>1, <1>2, GbnAssumption, LenProperties DEF Core, Counters, Bounds
<1> QED
  BY <1>1, <1>3 DEF Core

LEMMA RdtSendInv ==
  ASSUME IInv, RdtSend
  PROVE  IInv'
<1> USE DEF IInv, Bounds
<1>1. PICK b \in 0 .. NumChunks :
        /\ Counters(b) /\ Buffer /\ Burst /\ Forwards /\ Backwards(b)
        /\ Bounds(b)
  BY InvariantCount
<1>2. Counters(b) /\ Buffer /\ Burst /\ Forwards /\ Backwards(b)
  BY <1>1
<1>3. Bounds(b) /\ b \in Int /\ offset \in Int
  BY <1>1
<1>4. /\ offset < NumChunks /\ WindowOpen /\ offset' = offset + 1 /\ BurstsInTime
      /\ UNCHANGED <<bwd, rcvvars, base, should_send_eot, resend, snd_done>>
  BY DEF RdtSend
<1>5. ~EotSent /\ ~rcv_done
  BY <1>3, <1>4 DEF EotSent
<1>6. base = Num(b) /\ nextseqnum = Num(offset)
  BY <1>2, <1>5 DEF Counters
<1>7. offset < b + WindowSize
  BY <1>3, <1>4, <1>6, InFlightCounts
<1> DEFINE p == [type |-> DATA, seq_num |-> Num(offset), data |-> offset + 1]
<1>8. /\ p = CreatePacket(nextseqnum, offset + 1)
      /\ p = CreatePacket(offset, offset + 1)
      /\ Num(offset) \in SeqNum
  BY <1>3, <1>6, NumPackets, NumType
<1>9. p \in Packet /\ p.type = DATA /\ p.type # EOT /\ p.data = offset + 1 /\ p.seq_num = Num(offset)
  <2>1. offset + 1 \in Chunk
    BY <1>3, <1>4, GbnAssumption DEF Chunk
  <2> QED
    BY <1>8, <2>1 DEF Packet, DATA, EOT
<1>10. sndpkt' = [sndpkt EXCEPT ![Num(offset)] = p]
  BY <1>6, <1>8 DEF RdtSend
<1>11. sndpkt \in [SeqNum -> Packet] /\ fwd \in Seq(Packet)
  BY DEF TypeOK, NetworkTypeOK
<1>12. sndpkt'[nextseqnum] = p
  BY <1>6, <1>8, <1>10, <1>11
<1> HIDE DEF p
<1>13. fwd' \in Forward(fwd, p) /\ fwd' \in Seq(Packet)
  BY <1>9, <1>11, <1>12, ForwardResult DEF RdtSend
<1>14. ~EotSent'
  BY <1>4, <1>5, <1>9, <1>11, <1>13, EotSentForward DEF rcvvars
<1>15. nextseqnum' = Num(offset + 1) /\ Num(offset + 1) \in SeqNum
  BY <1>3, <1>6, NumSuccessor, NumType DEF RdtSend
<1>16. TypeOK'
  <2>1. sndpkt' \in [SeqNum -> Packet]
    BY <1>8, <1>9, <1>10, <1>11
  <2>2. offset' \in 0 .. NumChunks
    BY <1>3, <1>4, GbnAssumption
  <2> QED
    BY <1>4, <1>13, <1>15, <2>1, <2>2 DEF TypeOK, NetworkTypeOK, rcvvars
<1>17. Counters(b)'
  BY <1>2, <1>3, <1>4, <1>5, <1>7, <1>14, <1>15, GbnAssumption DEF Counters, rcvvars
<1>18. Buffer'
  <2>1. \A s \in SeqNum : sndpkt'[s].type = DATA
    BY <1>2, <1>9, <1>10, <1>11 DEF Buffer
  <2>2. ASSUME NEW k \in 1 .. offset + 1, offset + 1 < k + SeqModulo
        PROVE  sndpkt'[Num(k - 1)] = CreatePacket(k - 1, k)
    <3>1. k \in Int /\ k - 1 \in Int /\ Num(k - 1) \in SeqNum
      BY <1>3, NumType
    <3>2. CASE k = offset + 1
      <4>1. k - 1 = offset
        BY <1>3, <3>2
      <4> QED
        BY <1>6, <1>8, <1>12, <3>2, <4>1
    <3>3. CASE k # offset + 1
      <4>1. /\ k \in 1 .. offset /\ k - 1 # offset
            /\ k - 1 < offset + SeqModulo /\ offset < k - 1 + SeqModulo
            /\ offset < k + SeqModulo
        BY <1>3, <2>2, <3>1, <3>3, GbnAssumption
      <4>2. Num(k - 1) # Num(offset)
        BY <1>3, <3>1, <4>1, NumInjective
      <4>3. sndpkt'[Num(k - 1)] = sndpkt[Num(k - 1)]
        BY <1>10, <1>11, <3>1, <4>2
      <4> QED
        BY <1>2, <4>1, <4>3 DEF Buffer
    <3> QED
      BY <3>2, <3>3
  <2> QED
    BY <1>4, <2>1, <2>2 DEF Buffer
\* What is waiting to be resent is not in the slot that the next packet will take.
<1>19. Burst'
  <2>1. SUFFICES ASSUME NEW s \in resend
                 PROVE  \E k \in 1 .. offset + 1 :
                          s = Num(k - 1) /\ offset + 1 < k + SeqModulo - 1
    BY <1>4 DEF Burst
  <2>2. PICK k \in 1 .. offset : s = Num(k - 1) /\ offset < k + SeqModulo - 1
    BY <1>2, <1>5 DEF Burst
  <2>3. offset + 1 # k + SeqModulo - 1
    <3>1. SUFFICES ASSUME offset + 1 = (k - 1) + SeqModulo PROVE FALSE
      BY <1>3, <2>2, GbnAssumption
    <3>2. Num(offset + 1) = Num(k - 1)
      BY <1>3, <2>2, <3>1, NumNextRound
    <3>3. Successor(nextseqnum) = s
      BY <1>3, <1>6, <2>2, <3>2, NumSuccessor
    <3> QED
      BY <1>4, <3>3 DEF BurstsInTime
  <2>4. k \in 1 .. offset + 1 /\ offset + 1 < k + SeqModulo - 1
    BY <1>3, <2>2, <2>3, GbnAssumption
  <2> QED
    BY <2>2, <2>4
<1>20. Forwards'
  <2>1. offset' \in Nat /\ offset <= offset' /\ p.data \in 1 .. offset' /\ p.data - 1 = offset
        /\ offset < p.data + SeqModulo - 1 /\ Len(out) <= offset
    BY <1>2, <1>3, <1>4, <1>9, GbnAssumption DEF Counters
  <2>2. p.seq_num = Num(p.data - 1)
    BY <1>9, <2>1
  <2> QED
    BY <1>2, <1>4, <1>9, <1>13, <2>1, <2>2, ForwardsSend DEF rcvvars
<1>21. Backwards(b)'
  BY <1>2, <1>4 DEF Backwards, rcvvars, Acknowledged
<1>22. InOrderPrefix' /\ (snd_done => rcv_done)'
  BY <1>4 DEF InOrderPrefix, rcvvars
<1> QED
  BY <1>16, <1>17, <1>18, <1>19, <1>20, <1>21, <1>22 DEF Core

LEMMA SetShouldSendEotInv ==
  ASSUME IInv, SetShouldSendEot
  PROVE  IInv'
<1> USE DEF IInv, Bounds
<1>1. PICK b \in 0 .. NumChunks :
        /\ Counters(b) /\ Buffer /\ Burst /\ Forwards /\ Backwards(b)
        /\ Bounds(b)
  BY InvariantCount
<1>2. /\ should_send_eot' = TRUE /\ offset = NumChunks
      /\ UNCHANGED <<fwd, bwd, expectedseqnum, rcv_sndpkt, out, rcv_done, base, nextseqnum,
                     sndpkt, offset, resend, snd_done>>
  BY DEF SetShouldSendEot, AllVisited, netvars, rcvvars
<1>3. TypeOK' /\ InOrderPrefix' /\ (snd_done => rcv_done)'
  BY <1>2 DEF TypeOK, NetworkTypeOK, InOrderPrefix, EotSent
<1>4. Counters(b)' /\ Buffer' /\ Burst' /\ Forwards' /\ Backwards(b)'
  BY <1>1, <1>2 DEF Counters, Buffer, Burst, Forwards, Backwards, EotSent, NoEotUpTo, Acknowledged
<1> QED
  BY <1>3, <1>4 DEF Core

LEMMA TimeoutEventInv ==
  ASSUME IInv, TimeoutEvent
  PROVE  IInv'
<1> USE DEF IInv, Bounds
<1>1. PICK b \in 0 .. NumChunks :
        /\ Counters(b) /\ Buffer /\ Burst /\ Forwards /\ Backwards(b)
        /\ Bounds(b)
  BY InvariantCount
<1>2. /\ resend' = resend \cup Unacked
      /\ UNCHANGED <<fwd, bwd, expectedseqnum, rcv_sndpkt, out, rcv_done, base, nextseqnum,
                     sndpkt, should_send_eot, offset, snd_done>>
  BY DEF TimeoutEvent, netvars, rcvvars
<1>3. InFlight \in Nat /\ base \in Int
  BY Modulus, DivisionWithRemainder DEF TypeOK, SeqNum, InFlight
<1>4. Unacked \subseteq SeqNum
  <2>1. ASSUME NEW i \in 0 .. InFlight - 1 PROVE (base + i) % SeqModulo \in SeqNum
    BY <1>3, Modulus, DivisionWithRemainder DEF SeqNum
  <2> QED
    BY <2>1 DEF Unacked
<1>5. TypeOK' /\ InOrderPrefix' /\ (snd_done => rcv_done)'
  BY <1>2, <1>4 DEF TypeOK, NetworkTypeOK, InOrderPrefix
<1>6. Counters(b)' /\ Buffer' /\ Forwards' /\ Backwards(b)'
  BY <1>1, <1>2 DEF Counters, Buffer, Forwards, Backwards, EotSent, NoEotUpTo, Acknowledged
<1>7. Burst'
  <2>1. SUFFICES ASSUME ~EotSent, NEW s \in Unacked
                 PROVE  \E k \in 1 .. offset : s = Num(k - 1) /\ offset < k + SeqModulo - 1
    BY <1>1, <1>2 DEF Burst, EotSent
  <2>2. base = Num(b) /\ nextseqnum = Num(offset)
    BY <1>1, <2>1 DEF Counters
  <2>3. InFlight = offset - b
    BY <1>1, <2>2, InFlightCounts
  <2>4. PICK i \in 0 .. InFlight - 1 : s = (base + i) % SeqModulo
    BY DEF Unacked
  <2>5. s = Num(b + i)
    BY <1>1, <1>3, <2>2, <2>4, UnackedSlots
  <2>6. /\ b + i + 1 \in 1 .. offset /\ (b + i + 1) - 1 = b + i
        /\ offset < (b + i + 1) + SeqModulo - 1
    BY <1>1, <1>3, <2>3, GbnAssumption
  <2> QED
    BY <2>5, <2>6
<1> QED
  BY <1>5, <1>6, <1>7 DEF Core

LEMMA ResendNextInv ==
  ASSUME IInv, ResendNext
  PROVE  IInv'
<1> USE DEF IInv, Bounds
<1>1. PICK b \in 0 .. NumChunks :
        /\ Counters(b) /\ Buffer /\ Burst /\ Forwards /\ Backwards(b)
        /\ Bounds(b)
  BY InvariantCount
<1>2. /\ resend' \subseteq resend
      /\ UNCHANGED <<bwd, expectedseqnum, rcv_sndpkt, out, rcv_done, base, nextseqnum,
                     sndpkt, should_send_eot, offset, snd_done>>
  BY DEF ResendNext, rcvvars
<1>3. PICK s \in resend : fwd' = fwd \/ fwd' \in Forward(fwd, sndpkt[s])
  BY DEF ResendNext
<1> DEFINE p == sndpkt[s]
<1>4. /\ p \in Packet /\ p.type = DATA /\ p.type # EOT
      /\ fwd \in Seq(Packet) /\ sndpkt \in [SeqNum -> Packet]
  BY <1>1, <1>3 DEF TypeOK, NetworkTypeOK, Buffer, DATA, EOT
<1>5. fwd' = fwd \/ fwd' \in Forward(fwd, p)
  BY <1>3
<1>6. fwd' \in Seq(Packet) /\ (EotSent' <=> EotSent)
  <2>1. CASE fwd' = fwd
    BY <1>2, <1>4, <2>1 DEF EotSent
  <2>2. CASE fwd' \in Forward(fwd, p)
    <3> HIDE DEF p
    <3> QED
      BY <1>2, <1>4, <2>2, ForwardResult, EotSentForward
  <2> QED
    BY <1>5, <2>1, <2>2
<1>7. TypeOK' /\ InOrderPrefix' /\ (snd_done => rcv_done)'
  BY <1>2, <1>3, <1>6 DEF TypeOK, NetworkTypeOK, InOrderPrefix
<1>8. Counters(b)' /\ Buffer' /\ Backwards(b)'
  BY <1>1, <1>2, <1>6 DEF Counters, Buffer, Backwards, Acknowledged
<1>9. Burst'
  BY <1>1, <1>2, <1>6 DEF Burst
<1>10. Forwards'
  <2>1. CASE fwd' = fwd
    BY <1>1, <1>2, <2>1 DEF Forwards, NoEotUpTo
  <2>2. CASE fwd' \in Forward(fwd, p)
    <3>1. ASSUME ~EotSent
          PROVE  /\ p.data \in 1 .. offset
                 /\ p.seq_num = Num(p.data - 1)
                 /\ offset < p.data + SeqModulo - 1
      <4>1. PICK k \in 1 .. offset : s = Num(k - 1) /\ offset < k + SeqModulo - 1
        BY <1>1, <1>3, <3>1 DEF Burst
      <4>2. p = CreatePacket(k - 1, k)
        <5>1. offset < k + SeqModulo
          BY <1>1, <4>1, GbnAssumption
        <5> QED
          BY <1>1, <4>1, <5>1 DEF Buffer
      <4>3. p.data = k /\ p.seq_num = Num(k - 1)
        BY <1>1, <4>2, NumPackets
      <4> HIDE DEF p
      <4> QED
        BY <1>1, <4>1, <4>3, GbnAssumption
    <3> HIDE DEF p
    <3> QED
      BY <1>1, <1>2, <1>4, <2>2, <3>1, ForwardsSend
  <2> QED
    BY <1>5, <2>1, <2>2
<1> QED
  BY <1>7, <1>8, <1>9, <1>10 DEF Core
\* rdt_rcv takes an acknowledgement: base becomes the number of the count it
\* stands for, and the acknowledgements behind it stand for what they stood for.
LEMMA AcknowledgementTaken ==
  ASSUME IInv, NEW b \in 0 .. NumChunks, Backwards(b), Bounds(b),
         NextIs(bwd, ACK), bwd' = Tail(bwd), UNCHANGED rcvvars
  PROVE  \E c \in b .. Len(out) :
           Successor(Head(bwd).seq_num) = Num(c) /\ Backwards(c)' /\ bwd' \in Seq(Packet)
<1> USE DEF IInv, Bounds
<1>1. /\ bwd \in Seq(Packet) /\ bwd # <<>> /\ bwd[1].type = ACK
      /\ Head(bwd) = bwd[1] /\ bwd[1] \in Packet /\ Len(bwd) \in Nat \ {0}
      /\ bwd' \in Seq(Packet) /\ Len(bwd') = Len(bwd) - 1
      /\ \A i \in 1 .. Len(bwd) - 1 : bwd'[i] = bwd[i + 1]
  BY TailResult DEF TypeOK, NetworkTypeOK, NextIs
<1>2. PICK c \in Int : c = Acknowledged(bwd[1], b)
  BY <1>1, AcknowledgedCount
<1>3. c <= Len(out) /\ c >= b /\ Successor(bwd[1].seq_num) = Num(c)
  BY <1>1, <1>2, AcknowledgedCount DEF Backwards
<1>4. ASSUME NEW p \in Packet, c <= Acknowledged(p, b), Acknowledged(p, b) <= Len(out)
      PROVE  Acknowledged(p, c) = Acknowledged(p, b)
  <2> DEFINE a == Acknowledged(p, b)
  <2>1. a \in Int /\ Num(a) = Successor(p.seq_num) /\ c <= a
    BY <1>4, AcknowledgedCount
  <2>2. a < c + SeqModulo
    BY <1>3, <1>4, <2>1, GbnAssumption
  <2> HIDE DEF a
  <2>3. Acknowledged(p, c) = a
    BY <1>3, <2>1, <2>2, AcknowledgedUnique
  <2> QED
    BY <2>3 DEF a
<1>5. ASSUME NEW i \in 1 .. Len(bwd'), bwd'[i].type = ACK
      PROVE  /\ Acknowledged(bwd'[i], c) = Acknowledged(bwd[i + 1], b)
             /\ Acknowledged(bwd[i + 1], b) <= Len(out)
  <2>1. i + 1 \in 1 .. Len(bwd) /\ 1 \in 1 .. (i + 1) - 1 /\ bwd'[i] = bwd[i + 1]
    BY <1>1
  <2>2. c <= Acknowledged(bwd[i + 1], b) /\ Acknowledged(bwd[i + 1], b) <= Len(out)
    BY <1>1, <1>2, <1>5, <2>1 DEF Backwards
  <2>3. bwd[i + 1] \in Packet
    BY <1>1, <2>1, ElementOfSeq
  <2> QED
    BY <1>4, <2>1, <2>2, <2>3
<1>6. ASSUME NEW i \in 1 .. Len(bwd'), bwd'[i].type = ACK,
             NEW j \in 1 .. i - 1, bwd'[j].type = ACK
      PROVE  Acknowledged(bwd'[j], c) <= Acknowledged(bwd'[i], c)
  <2>1. j \in 1 .. Len(bwd') /\ i + 1 \in 1 .. Len(bwd) /\ j + 1 \in 1 .. (i + 1) - 1
    BY <1>1
  <2>2. bwd'[j] = bwd[j + 1] /\ bwd'[i] = bwd[i + 1]
    BY <1>1, <2>1
  <2>3. Acknowledged(bwd[j + 1], b) <= Acknowledged(bwd[i + 1], b)
    BY <1>6, <2>1, <2>2 DEF Backwards
  <2> QED
    BY <1>5, <1>6, <2>1, <2>3
<1>7. \A i \in 1 .. Len(bwd') : bwd'[i].type # DATA /\ (bwd'[i].type = EOT => rcv_done)
  BY <1>1 DEF Backwards
<1>8. Backwards(c)'
  <2>1. UNCHANGED <<out, rcv_done, rcv_sndpkt>>
    BY DEF rcvvars
  <2>2. ~rcv_done' => rcv_sndpkt' = CreateAck(Len(out') - 1)
    BY <2>1 DEF Backwards
  <2> QED
    BY <1>5, <1>6, <1>7, <2>1, <2>2 DEF Backwards, Acknowledged
<1> QED
  BY <1>1, <1>3, <1>8

LEMMA RdtRcvSomeAckedInv ==
  ASSUME IInv, RdtRcvSomeAcked
  PROVE  IInv'
<1> USE DEF IInv, Bounds
<1>1. PICK b \in 0 .. NumChunks :
        /\ Counters(b) /\ Buffer /\ Burst /\ Forwards /\ Backwards(b)
        /\ Bounds(b)
  BY InvariantCount
<1>2. /\ base' = Successor(Head(bwd).seq_num) /\ base' # nextseqnum
      /\ NextIs(bwd, ACK) /\ bwd' = Tail(bwd)
      /\ UNCHANGED <<fwd, rcvvars, nextseqnum, sndpkt, should_send_eot, offset, resend, snd_done>>
  BY DEF RdtRcvSomeAcked
<1>3. PICK c \in b .. Len(out) :
        base' = Num(c) /\ Backwards(c)' /\ bwd' \in Seq(Packet)
  BY <1>1, <1>2, AcknowledgementTaken
<1>4. UNCHANGED <<expectedseqnum, rcv_sndpkt, out, rcv_done>> /\ (EotSent' <=> EotSent)
  BY <1>2 DEF rcvvars, EotSent
<1>5. c \in 0 .. NumChunks /\ c \in Int /\ Num(c) \in SeqNum
  BY <1>1, <1>3, GbnAssumption, NumType
<1>6. TypeOK' /\ InOrderPrefix' /\ (snd_done => rcv_done)'
  BY <1>2, <1>3, <1>4, <1>5 DEF TypeOK, NetworkTypeOK, InOrderPrefix
<1>7. Counters(c)'
  BY <1>1, <1>2, <1>3, <1>4, <1>5, GbnAssumption DEF Counters
<1>8. Buffer'
  BY <1>1, <1>2, <1>3 DEF Buffer
<1>9. Burst'
  BY <1>1, <1>2, <1>4 DEF Burst
<1>10. Forwards'
  BY <1>1, <1>2, <1>4 DEF Forwards, NoEotUpTo
<1> QED
  BY <1>3, <1>5, <1>6, <1>7, <1>8, <1>9, <1>10 DEF Core

LEMMA RdtRcvAllAckedInv ==
  ASSUME IInv, RdtRcvAllAcked
  PROVE  IInv'
<1> USE DEF IInv, Bounds
<1>1. PICK b \in 0 .. NumChunks :
        /\ Counters(b) /\ Buffer /\ Burst /\ Forwards /\ Backwards(b)
        /\ Bounds(b)
  BY InvariantCount
<1>2. /\ base' = Successor(Head(bwd).seq_num) /\ base' = nextseqnum
      /\ NextIs(bwd, ACK) /\ bwd' = Tail(bwd)
      /\ UNCHANGED <<rcvvars, sndpkt, should_send_eot, offset, resend, snd_done>>
  BY DEF RdtRcvAllAcked
<1>3. PICK c \in b .. Len(out) :
        base' = Num(c) /\ Backwards(c)' /\ bwd' \in Seq(Packet)
  BY <1>1, <1>2, AcknowledgementTaken
<1>4. UNCHANGED <<expectedseqnum, rcv_sndpkt, out, rcv_done>>
  BY <1>2 DEF rcvvars
<1>5. c \in 0 .. NumChunks /\ c \in Int /\ Num(c) \in SeqNum
  BY <1>1, <1>3, GbnAssumption, NumType
<1>6. ~EotSent
  <2>1. SUFFICES ASSUME EotSent PROVE FALSE
    OBVIOUS
  <2>2. c = offset /\ nextseqnum = Num(offset + 1)
    BY <1>1, <1>3, <2>1 DEF Counters
  <2>3. /\ offset \in Int /\ offset + 1 \in Int /\ offset # offset + 1
        /\ offset < offset + 1 + SeqModulo /\ offset + 1 < offset + SeqModulo
    BY <1>1, GbnAssumption
  <2> QED
    BY <1>2, <1>3, <2>2, <2>3, NumInjective
<1>7. c = offset
  <2>1. nextseqnum = Num(offset)
    BY <1>1, <1>6 DEF Counters
  <2>2. offset \in Int /\ c < offset + SeqModulo /\ offset < c + SeqModulo
    BY <1>1, <1>3, GbnAssumption
  <2> QED
    BY <1>2, <1>3, <1>5, <2>1, <2>2, NumInjective
<1>8. Len(out) = offset
  BY <1>1, <1>3, <1>7
<1>9. fwd \in Seq(Packet) /\ Len(fwd) \in Nat
  BY LenProperties DEF TypeOK, NetworkTypeOK
<1>10. CASE ~should_send_eot
  <2>1. UNCHANGED <<fwd, nextseqnum>>
    BY <1>10 DEF RdtRcvAllAcked
  <2>2. ~EotSent'
    BY <1>4, <1>6, <2>1 DEF EotSent
  <2>3. TypeOK' /\ InOrderPrefix' /\ (snd_done => rcv_done)'
    BY <1>2, <1>3, <1>4, <1>5, <2>1 DEF TypeOK, NetworkTypeOK, InOrderPrefix
  <2>4. Counters(c)'
    <3>1. c <= Len(out') /\ Len(out') <= offset' /\ offset' <= c + WindowSize
      BY <1>1, <1>2, <1>4, <1>7, <1>8, GbnAssumption
    <3>2. /\ expectedseqnum' = Num(Len(out'))
          /\ should_send_eot' => offset' = NumChunks
          /\ nextseqnum' = Num(offset')
      BY <1>1, <1>2, <1>4, <1>6, <2>1 DEF Counters
    <3> QED
      BY <1>3, <2>2, <3>1, <3>2 DEF Counters
  <2>5. Buffer' /\ Burst'
    BY <1>1, <1>2, <1>6 DEF Buffer, Burst
  <2>6. Forwards'
    BY <1>1, <1>2, <1>4, <2>1 DEF Forwards, NoEotUpTo
  <2> QED
    BY <1>3, <1>5, <2>3, <2>4, <2>5, <2>6 DEF Core
<1>11. CASE should_send_eot
  <2> DEFINE p == CreateEot(nextseqnum)
  <2>1. /\ offset = NumChunks /\ nextseqnum = Num(offset) /\ offset \in Int
        /\ nextseqnum' = Successor(nextseqnum) /\ fwd' \in Forward(fwd, p)
    BY <1>1, <1>6, <1>11 DEF Counters, RdtRcvAllAcked
  <2>2. p = [type |-> EOT, seq_num |-> Num(offset), data |-> NoData]
    BY <2>1, NumPackets
  <2>3. p \in Packet /\ p.type = EOT
    BY <2>1, <2>2, NumType DEF Packet
  <2>4. nextseqnum' = Num(offset + 1) /\ Num(offset + 1) \in SeqNum
    BY <2>1, NumSuccessor, NumType
  <2> HIDE DEF p
  <2>5. /\ fwd' \in Seq(Packet) /\ Len(fwd') = Len(fwd) + 1
        /\ \A i \in 1 .. Len(fwd) : fwd'[i] = fwd[i]
        /\ fwd'[Len(fwd) + 1] = p
    BY <1>9, <2>1, <2>3, ForwardResult
  <2>6. EotSent'
    BY <1>9, <2>3, <2>5 DEF EotSent
  <2>7. TypeOK' /\ InOrderPrefix' /\ (snd_done => rcv_done)'
    BY <1>2, <1>3, <1>4, <1>5, <2>4, <2>5, <2>6
    DEF TypeOK, NetworkTypeOK, InOrderPrefix
  <2>8. Counters(c)'
    BY <1>1, <1>2, <1>3, <1>4, <1>7, <1>8, <2>1, <2>4, <2>6, GbnAssumption DEF Counters
  <2>9. Buffer' /\ Burst'
    BY <1>1, <1>2, <2>6 DEF Buffer, Burst
  <2>10. Forwards'
    <3>1. \A i \in 1 .. Len(fwd') : fwd'[i].type # ACK
      <4>1. \A i \in 1 .. Len(fwd) : fwd'[i].type # ACK
        BY <1>1, <2>5 DEF Forwards
      <4>2. fwd'[Len(fwd) + 1].type # ACK
        BY <2>3, <2>5 DEF ACK, EOT
      <4> QED
        BY <1>9, <2>5, <4>1, <4>2
    <3>2. ASSUME ~rcv_done', NEW i \in 1 .. Len(fwd'), NoEotUpTo(i)'
          PROVE  /\ fwd'[i].data \in 1 .. offset'
                 /\ fwd'[i].seq_num = Num(fwd'[i].data - 1)
                 /\ Len(out') < fwd'[i].data + SeqModulo - 1
                 /\ \A j \in 1 .. i - 1 : fwd'[j].data < fwd'[i].data + SeqModulo - 1
      <4>1. i \in 1 .. Len(fwd)
        BY <1>9, <2>3, <2>5, <3>2 DEF NoEotUpTo
      <4>2. \A j \in 1 .. i : j \in 1 .. Len(fwd) /\ fwd'[j] = fwd[j]
        BY <1>9, <2>5, <4>1
      <4>3. NoEotUpTo(i)
        BY <3>2, <4>2 DEF NoEotUpTo
      <4>4. /\ fwd[i].data \in 1 .. offset
            /\ fwd[i].seq_num = Num(fwd[i].data - 1)
            /\ Len(out) < fwd[i].data + SeqModulo - 1
            /\ \A j \in 1 .. i - 1 : fwd[j].data < fwd[i].data + SeqModulo - 1
        BY <1>1, <1>4, <3>2, <4>1, <4>3 DEF Forwards
      <4>5. fwd'[i] = fwd[i] /\ \A j \in 1 .. i - 1 : fwd'[j] = fwd[j]
        BY <1>9, <4>1, <4>2
      <4> QED
        BY <1>2, <1>4, <4>4, <4>5
    <3> QED
      BY <3>1, <3>2 DEF Forwards
  <2> QED
    BY <1>3, <1>5, <2>7, <2>8, <2>9, <2>10 DEF Core
<1> QED
  BY <1>10, <1>11

LEMMA FinishOnEotInv ==
  ASSUME IInv, FinishOnEot
  PROVE  IInv'
<1> USE DEF IInv, Bounds
<1>1. PICK b \in 0 .. NumChunks :
        /\ Counters(b) /\ Buffer /\ Burst /\ Forwards /\ Backwards(b)
        /\ Bounds(b)
  BY InvariantCount
<1>2. /\ NextIs(bwd, EOT) /\ bwd' = Tail(bwd) /\ snd_done' = TRUE
      /\ UNCHANGED <<fwd, expectedseqnum, rcv_sndpkt, out, rcv_done, base, nextseqnum,
                     sndpkt, should_send_eot, offset, resend>>
  BY DEF FinishOnEot, rcvvars
<1>3. /\ bwd \in Seq(Packet) /\ bwd # <<>> /\ bwd[1].type = EOT /\ Len(bwd) \in Nat \ {0}
      /\ bwd' \in Seq(Packet) /\ Len(bwd') = Len(bwd) - 1
      /\ \A i \in 1 .. Len(bwd) - 1 : bwd'[i] = bwd[i + 1]
  BY <1>2, TailResult DEF TypeOK, NetworkTypeOK, NextIs
<1>4. rcv_done /\ EotSent'
  BY <1>1, <1>2, <1>3 DEF Backwards, EotSent
<1>5. TypeOK' /\ InOrderPrefix' /\ (snd_done => rcv_done)'
  BY <1>2, <1>3, <1>4 DEF TypeOK, NetworkTypeOK, InOrderPrefix
<1>6. Counters(b)' /\ Buffer' /\ Burst' /\ Forwards'
  BY <1>1, <1>2, <1>4 DEF Counters, Buffer, Burst, Forwards, NoEotUpTo, EotSent
<1>7. Backwards(b)'
  <2>1. ASSUME NEW i \in 1 .. Len(bwd')
        PROVE  /\ bwd'[i].type # DATA
               /\ bwd'[i].type = ACK => Acknowledged(bwd'[i], b) <= Len(out)
    <3>1. i + 1 \in 1 .. Len(bwd) /\ bwd'[i] = bwd[i + 1]
      BY <1>3
    <3> QED
      BY <1>1, <3>1 DEF Backwards
  <2>2. ASSUME NEW i \in 1 .. Len(bwd'), bwd'[i].type = ACK,
               NEW j \in 1 .. i - 1, bwd'[j].type = ACK
        PROVE  Acknowledged(bwd'[j], b) <= Acknowledged(bwd'[i], b)
    <3>1. /\ i + 1 \in 1 .. Len(bwd) /\ j + 1 \in 1 .. (i + 1) - 1
          /\ bwd'[i] = bwd[i + 1] /\ bwd'[j] = bwd[j + 1]
      BY <1>3
    <3> QED
      BY <1>1, <2>2, <3>1 DEF Backwards
  <2> QED
    BY <1>2, <1>4, <2>1, <2>2 DEF Backwards, Acknowledged
<1> QED
  BY <1>5, <1>6, <1>7 DEF Core
-----------------------------------------------------------------------------
(* Each step of the receiver.                                              *)

\* The receiver takes a data packet; what is behind it stays as it was. A chunk
\* that is written is the one the packet holds.
LEMMA DataTaken ==
  ASSUME TypeOK, Forwards, ~rcv_done, NextIs(fwd, DATA), fwd' = Tail(fwd),
         UNCHANGED <<offset, rcv_done>>,
         out' = out \/ Len(out') = Head(fwd).data
  PROVE  Forwards' /\ (EotSent' <=> EotSent) /\ fwd' \in Seq(Packet)
<1>1. /\ fwd \in Seq(Packet) /\ fwd # <<>> /\ Len(fwd) \in Nat \ {0}
      /\ Head(fwd) = fwd[1] /\ fwd[1].type = DATA /\ fwd[1].type # EOT
      /\ fwd' \in Seq(Packet) /\ Len(fwd') = Len(fwd) - 1
      /\ \A i \in 1 .. Len(fwd) - 1 : fwd'[i] = fwd[i + 1]
  BY TailResult DEF TypeOK, NetworkTypeOK, NextIs, DATA, EOT
<1>2. \A i \in 1 .. Len(fwd') : i + 1 \in 1 .. Len(fwd) /\ fwd'[i] = fwd[i + 1]
  BY <1>1
<1>3. EotSent' <=> EotSent
  <2>1. ASSUME EotSent' PROVE EotSent
    BY <1>2, <2>1 DEF EotSent
  <2>2. ASSUME EotSent PROVE EotSent'
    <3>1. PICK i \in 1 .. Len(fwd) : fwd[i].type = EOT
      BY <2>2 DEF EotSent
    <3>2. i # 1
      BY <1>1, <3>1
    <3>3. i - 1 \in 1 .. Len(fwd') /\ fwd'[i - 1] = fwd[i]
      BY <1>1, <3>2
    <3> QED
      BY <3>1, <3>3 DEF EotSent
  <2> QED
    BY <2>1, <2>2
<1>4. ASSUME NEW i \in 1 .. Len(fwd'), NoEotUpTo(i)'
      PROVE  /\ fwd'[i].data \in 1 .. offset
             /\ fwd'[i].seq_num = Num(fwd'[i].data - 1)
             /\ Len(out') < fwd'[i].data + SeqModulo - 1
             /\ \A j \in 1 .. i - 1 : fwd'[j].data < fwd'[i].data + SeqModulo - 1
  <2>1. NoEotUpTo(i + 1)
    <3>1. SUFFICES ASSUME NEW j \in 1 .. i + 1 PROVE fwd[j].type # EOT
      BY DEF NoEotUpTo
    <3>2. CASE j = 1
      BY <1>1, <3>2
    <3>3. CASE j # 1
      <4>1. j - 1 \in 1 .. i /\ fwd'[j - 1] = fwd[j]
        BY <1>1, <3>3
      <4> QED
        BY <1>4, <4>1 DEF NoEotUpTo
    <3> QED
      BY <3>2, <3>3
  <2>2. /\ fwd[i + 1].data \in 1 .. offset
        /\ fwd[i + 1].seq_num = Num(fwd[i + 1].data - 1)
        /\ Len(out) < fwd[i + 1].data + SeqModulo - 1
        /\ \A j \in 1 .. (i + 1) - 1 : fwd[j].data < fwd[i + 1].data + SeqModulo - 1
    BY <1>2, <2>1 DEF Forwards
  <2>3. fwd'[i] = fwd[i + 1] /\ 1 \in 1 .. (i + 1) - 1
    BY <1>1, <1>2
  <2>4. Len(out') < fwd[i + 1].data + SeqModulo - 1
    BY <1>1, <2>2, <2>3
  <2>5. \A j \in 1 .. i - 1 : j + 1 \in 1 .. (i + 1) - 1 /\ fwd'[j] = fwd[j + 1]
    BY <1>1
  <2> QED
    BY <2>2, <2>3, <2>4, <2>5
<1>5. \A i \in 1 .. Len(fwd') : fwd'[i].type # ACK
  BY <1>2 DEF Forwards
<1> QED
  BY <1>1, <1>3, <1>4, <1>5 DEF Forwards

\* The receiver acknowledges all it has written.
LEMMA AcknowledgementSent ==
  ASSUME TypeOK, NEW b \in 0 .. NumChunks, Backwards(b), Bounds(b), ~rcv_done,
         Len(out') \in Nat, Len(out) <= Len(out'), Len(out') < b + SeqModulo,
         NEW p \in Packet, p = CreateAck(Len(out') - 1), bwd' \in Forward(bwd, p),
         rcv_sndpkt' = p, rcv_done' = rcv_done
  PROVE  Backwards(b)' /\ bwd' \in Seq(Packet)
<1> USE DEF Bounds
<1>1. bwd \in Seq(Packet) /\ Len(bwd) \in Nat
  BY LenProperties DEF TypeOK, NetworkTypeOK
<1>2. bwd' \in Seq(Packet)
  BY <1>1, ForwardResult
<1>3. /\ Len(out') - 1 \in Int /\ (Len(out') - 1) + 1 = Len(out')
      /\ b \in Int /\ Len(out') \in Int /\ b <= Len(out')
  BY GbnAssumption
<1>4. p = [type |-> ACK, seq_num |-> Num(Len(out') - 1), data |-> NoData]
  BY <1>3, NumPackets
<1>5. Successor(p.seq_num) = Num(Len(out'))
  BY <1>3, <1>4, NumSuccessor
<1>6. Acknowledged(p, b) = Len(out')
  BY <1>3, <1>5, AcknowledgedUnique
<1>7. p.type = ACK /\ p.type # DATA /\ p.type # EOT
  BY <1>4 DEF ACK, DATA, EOT
<1>8. \A i \in 1 .. Len(bwd) : bwd[i].type = ACK => Acknowledged(bwd[i], b) <= Len(out')
  <2>1. ASSUME NEW i \in 1 .. Len(bwd), bwd[i].type = ACK
        PROVE  Acknowledged(bwd[i], b) <= Len(out')
    <3>1. Acknowledged(bwd[i], b) <= Len(out) /\ Acknowledged(bwd[i], b) \in Int
      BY <1>1, <1>3, <2>1, ElementOfSeq, AcknowledgedCount DEF Backwards
    <3> QED
      BY <3>1
  <2> QED
    BY <2>1
<1>9. CASE bwd' = bwd
  BY <1>2, <1>8, <1>9 DEF Backwards, Acknowledged
<1>10. CASE bwd' # bwd
  <2>1. /\ Len(bwd') = Len(bwd) + 1 /\ bwd'[Len(bwd) + 1] = p
        /\ \A i \in 1 .. Len(bwd) : bwd'[i] = bwd[i]
    BY <1>1, <1>10, ForwardResult
  <2>2. ASSUME NEW i \in 1 .. Len(bwd')
        PROVE  /\ bwd'[i].type # DATA /\ bwd'[i].type # EOT
               /\ bwd'[i].type = ACK =>
                    /\ Acknowledged(bwd'[i], b) <= Len(out')
                    /\ \A j \in 1 .. i - 1 : bwd'[j].type = ACK =>
                         Acknowledged(bwd'[j], b) <= Acknowledged(bwd'[i], b)
    <3>1. CASE i \in 1 .. Len(bwd)
      <4>1. bwd'[i] = bwd[i] /\ \A j \in 1 .. i - 1 : bwd'[j] = bwd[j]
        BY <1>1, <2>1, <3>1
      <4> QED
        BY <1>8, <3>1, <4>1 DEF Backwards
    <3>2. CASE i = Len(bwd) + 1
      <4>1. \A j \in 1 .. i - 1 : j \in 1 .. Len(bwd) /\ bwd'[j] = bwd[j]
        BY <1>1, <2>1, <3>2
      <4>2. bwd'[i] = p
        BY <2>1, <3>2
      <4>3. \A j \in 1 .. i - 1 : bwd'[j].type = ACK => Acknowledged(bwd'[j], b) <= Len(out')
        BY <1>8, <4>1
      <4>4. Acknowledged(bwd'[i], b) = Len(out') /\ Len(out') <= Len(out')
        BY <1>3, <1>6, <4>2
      <4> QED
        BY <1>7, <4>2, <4>3, <4>4
    <3> QED
      BY <1>1, <2>1, <3>1, <3>2
  <2> QED
    BY <1>2, <2>2 DEF Backwards, Acknowledged
<1> QED
  BY <1>9, <1>10
LEMMA ReceiveExpectedInv ==
  ASSUME IInv, ReceiveExpected, UNCHANGED sndvars
  PROVE  IInv' /\ out' = Append(out, Len(out) + 1) /\ Len(out) < NumChunks
<1> USE DEF IInv, Bounds
<1>1. PICK b \in 0 .. NumChunks :
        /\ Counters(b) /\ Buffer /\ Burst /\ Forwards /\ Backwards(b)
        /\ Bounds(b)
  BY InvariantCount
<1>2. /\ ~rcv_done /\ NextIs(fwd, DATA) /\ fwd' = Tail(fwd)
      /\ Head(fwd).seq_num = expectedseqnum
      /\ out' = Append(out, Head(fwd).data) /\ rcv_done' = rcv_done
      /\ rcv_sndpkt' = CreateAck(expectedseqnum) /\ bwd' \in Forward(bwd, rcv_sndpkt')
      /\ expectedseqnum' = Successor(expectedseqnum)
  BY DEF ReceiveExpected
<1>3. UNCHANGED <<base, nextseqnum, sndpkt, should_send_eot, offset, resend, snd_done>>
  BY DEF sndvars
<1>4. /\ fwd \in Seq(Packet) /\ fwd # <<>> /\ fwd[1] = Head(fwd) /\ 1 \in 1 .. Len(fwd)
      /\ Head(fwd).type = DATA
  BY <1>2, TailResult DEF TypeOK, NetworkTypeOK, NextIs
\* The packet holds the chunk after those already written.
<1>5. Head(fwd).data = Len(out) + 1 /\ Len(out) + 1 <= offset
  <2> DEFINE k == Head(fwd).data
  <2>1. NoEotUpTo(1)
    BY <1>4 DEF NoEotUpTo, DATA, EOT
  <2>2. /\ k \in 1 .. offset /\ Head(fwd).seq_num = Num(k - 1)
        /\ Len(out) < k + SeqModulo - 1
    BY <1>1, <1>2, <1>4, <2>1 DEF Forwards
  <2>3. Num(k - 1) = Num(Len(out))
    BY <1>1, <1>2, <2>2 DEF Counters
  <2> HIDE DEF k
  <2>4. /\ k - 1 \in Int /\ Len(out) \in Int
        /\ k - 1 < Len(out) + SeqModulo /\ Len(out) < (k - 1) + SeqModulo
    BY <1>1, <2>2, GbnAssumption
  <2>5. k - 1 = Len(out)
    BY <2>3, <2>4, NumInjective
  <2>6. k = Len(out) + 1 /\ k <= offset
    BY <1>1, <2>2, <2>5
  <2> QED
    BY <2>6 DEF k
<1>6. Len(out) + 1 \in Chunk
  BY <1>1, <1>5, GbnAssumption DEF Chunk
<1>7. /\ out' = Append(out, Len(out) + 1) /\ out' \in Seq(Chunk) /\ Len(out') = Len(out) + 1
      /\ \A i \in 1 .. Len(out) : out'[i] = out[i]
      /\ out'[Len(out) + 1] = Len(out) + 1
  BY <1>1, <1>2, <1>5, <1>6, AppendProperties DEF TypeOK, NetworkTypeOK
<1>8. Forwards' /\ (EotSent' <=> EotSent) /\ fwd' \in Seq(Packet)
  BY <1>1, <1>2, <1>3, <1>5, <1>7, DataTaken
<1>9. /\ expectedseqnum = Num(Len(out)) /\ Len(out) \in Int
      /\ expectedseqnum' = Num(Len(out')) /\ Num(Len(out')) \in SeqNum
  <2>1. expectedseqnum = Num(Len(out)) /\ Len(out) \in Int /\ Len(out) + 1 \in Int
    BY <1>1 DEF Counters
  <2> QED
    BY <1>2, <1>7, <2>1, NumSuccessor, NumType
<1>10. rcv_sndpkt' \in Packet /\ rcv_sndpkt' = CreateAck(Len(out') - 1)
  <2>1. Len(out') - 1 = Len(out)
    BY <1>7, <1>9
  <2>2. /\ rcv_sndpkt' = [type |-> ACK, seq_num |-> Num(Len(out)), data |-> NoData]
        /\ CreateAck(Len(out)) = [type |-> ACK, seq_num |-> Num(Len(out)), data |-> NoData]
        /\ Num(Len(out)) \in SeqNum
    BY <1>2, <1>9, NumPackets, NumType
  <2> QED
    BY <2>1, <2>2 DEF Packet
<1>11. Backwards(b)' /\ bwd' \in Seq(Packet)
  <2>1. Len(out') \in Nat /\ Len(out) <= Len(out') /\ Len(out') < b + SeqModulo
    BY <1>1, <1>5, <1>7, GbnAssumption
  <2> QED
    BY <1>1, <1>2, <1>10, <2>1, AcknowledgementSent
<1>12. TypeOK'
  BY <1>2, <1>3, <1>7, <1>8, <1>9, <1>10, <1>11 DEF TypeOK, NetworkTypeOK
<1>13. InOrderPrefix'
  BY <1>1, <1>7 DEF InOrderPrefix
<1>14. (snd_done => rcv_done)'
  BY <1>2, <1>3
<1>15. Counters(b)'
  <2>1. b <= Len(out') /\ Len(out') <= offset
    BY <1>1, <1>5, <1>7
  <2> QED
    BY <1>1, <1>3, <1>8, <1>9, <2>1 DEF Counters
<1>16. Buffer' /\ Burst'
  BY <1>1, <1>3, <1>8 DEF Buffer, Burst
<1>17. Len(out) < NumChunks
  BY <1>1, <1>5, GbnAssumption
<1> QED
  BY <1>7, <1>8, <1>11, <1>12, <1>13, <1>14, <1>15, <1>16, <1>17 DEF Core

LEMMA ReceiveUnexpectedInv ==
  ASSUME IInv, ReceiveUnexpected, UNCHANGED sndvars
  PROVE  IInv'
<1> USE DEF IInv, Bounds
<1>1. PICK b \in 0 .. NumChunks :
        /\ Counters(b) /\ Buffer /\ Burst /\ Forwards /\ Backwards(b)
        /\ Bounds(b)
  BY InvariantCount
<1>2. /\ ~rcv_done /\ NextIs(fwd, DATA) /\ fwd' = Tail(fwd)
      /\ bwd' \in Forward(bwd, rcv_sndpkt)
      /\ UNCHANGED <<expectedseqnum, rcv_sndpkt, out, rcv_done>>
  BY DEF ReceiveUnexpected, ReplyToUnexpected, rcvvars
<1>3. UNCHANGED <<base, nextseqnum, sndpkt, should_send_eot, offset, resend, snd_done>>
  BY DEF sndvars
<1>4. Forwards' /\ (EotSent' <=> EotSent) /\ fwd' \in Seq(Packet)
  BY <1>1, <1>2, <1>3, DataTaken
<1>5. Backwards(b)' /\ bwd' \in Seq(Packet)
  <2>1. rcv_sndpkt \in Packet /\ rcv_sndpkt = CreateAck(Len(out') - 1)
    BY <1>1, <1>2 DEF Backwards, TypeOK, NetworkTypeOK
  <2>2. Len(out') \in Nat /\ Len(out) <= Len(out') /\ Len(out') < b + SeqModulo
    BY <1>1, <1>2, GbnAssumption
  <2> QED
    BY <1>1, <1>2, <2>1, <2>2, AcknowledgementSent
<1>6. TypeOK' /\ InOrderPrefix' /\ (snd_done => rcv_done)'
  BY <1>2, <1>3, <1>4, <1>5 DEF TypeOK, NetworkTypeOK, InOrderPrefix
<1>7. Counters(b)' /\ Buffer' /\ Burst'
  BY <1>1, <1>2, <1>3, <1>4 DEF Counters, Buffer, Burst
<1> QED
  BY <1>4, <1>5, <1>6, <1>7 DEF Core

LEMMA ReceiveEotInv ==
  ASSUME IInv, ReceiveEot, UNCHANGED sndvars
  PROVE  IInv' /\ Len(out) = NumChunks
<1> USE DEF IInv, Bounds
<1>1. PICK b \in 0 .. NumChunks :
        /\ Counters(b) /\ Buffer /\ Burst /\ Forwards /\ Backwards(b)
        /\ Bounds(b)
  BY InvariantCount
<1>2. /\ ~rcv_done /\ NextIs(fwd, EOT) /\ fwd' = Tail(fwd) /\ rcv_done' = TRUE
      /\ rcv_sndpkt' = CreateEot(expectedseqnum) /\ bwd' \in Forward(bwd, rcv_sndpkt')
      /\ UNCHANGED <<expectedseqnum, out>>
  BY DEF ReceiveEot
<1>3. UNCHANGED <<base, nextseqnum, sndpkt, should_send_eot, offset, resend, snd_done>>
  BY DEF sndvars
<1>4. /\ fwd \in Seq(Packet) /\ fwd[1].type = EOT /\ Len(fwd) \in Nat \ {0}
      /\ fwd' \in Seq(Packet) /\ Len(fwd') = Len(fwd) - 1
      /\ \A i \in 1 .. Len(fwd) - 1 : fwd'[i] = fwd[i + 1]
  BY <1>2, TailResult DEF TypeOK, NetworkTypeOK, NextIs
<1>5. EotSent /\ EotSent'
  BY <1>2, <1>4 DEF EotSent
<1>6. rcv_sndpkt' \in Packet /\ rcv_sndpkt'.type = EOT
  <2>1. expectedseqnum = Num(Len(out)) /\ Len(out) \in Int
    BY <1>1 DEF Counters
  <2>2. CreateEot(Num(Len(out))) = [type |-> EOT, seq_num |-> Num(Len(out)), data |-> NoData]
    BY <2>1, NumPackets
  <2>3. rcv_sndpkt' = [type |-> EOT, seq_num |-> Num(Len(out)), data |-> NoData]
    BY <1>2, <2>1, <2>2
  <2>4. Num(Len(out)) \in SeqNum
    BY <2>1, NumType
  <2> QED
    BY <2>3, <2>4 DEF Packet
<1>7. bwd \in Seq(Packet) /\ Len(bwd) \in Nat
  BY LenProperties DEF TypeOK, NetworkTypeOK
<1>8. /\ bwd' \in Seq(Packet) /\ Len(bwd') = Len(bwd) + 1
      /\ \A i \in 1 .. Len(bwd) : bwd'[i] = bwd[i]
      /\ bwd'[Len(bwd) + 1].type = EOT
  BY <1>2, <1>6, <1>7, ForwardResult
<1>9. TypeOK' /\ InOrderPrefix' /\ (snd_done => rcv_done)'
  BY <1>2, <1>3, <1>4, <1>5, <1>6, <1>8
  DEF TypeOK, NetworkTypeOK, InOrderPrefix
<1>10. Counters(b)' /\ Buffer' /\ Burst'
  BY <1>1, <1>2, <1>3, <1>5 DEF Counters, Buffer, Burst
<1>11. Forwards'
  <2>1. \A i \in 1 .. Len(fwd') : i + 1 \in 1 .. Len(fwd) /\ fwd'[i] = fwd[i + 1]
    BY <1>4
  <2> QED
    BY <1>1, <1>2, <2>1 DEF Forwards
<1>12. Backwards(b)'
  <2>1. ASSUME NEW i \in 1 .. Len(bwd')
        PROVE  /\ bwd'[i].type # DATA
               /\ bwd'[i].type = ACK =>
                    /\ Acknowledged(bwd'[i], b) <= Len(out)
                    /\ \A j \in 1 .. i - 1 : bwd'[j].type = ACK =>
                         Acknowledged(bwd'[j], b) <= Acknowledged(bwd'[i], b)
    <3>1. CASE i \in 1 .. Len(bwd)
      <4>1. bwd'[i] = bwd[i] /\ \A j \in 1 .. i - 1 : bwd'[j] = bwd[j]
        BY <1>7, <1>8, <3>1
      <4> QED
        BY <1>1, <3>1, <4>1 DEF Backwards
    <3>2. CASE i = Len(bwd) + 1
      BY <1>8, <3>2 DEF ACK, DATA, EOT
    <3> QED
      BY <1>7, <1>8, <3>1, <3>2
  <2> QED
    BY <1>2, <2>1 DEF Backwards, Acknowledged
<1> QED
  BY <1>1, <1>5, <1>9, <1>10, <1>11, <1>12 DEF Core

LEMMA ReceiverClosedInv ==
  ASSUME IInv, ReceiverClosed, UNCHANGED sndvars
  PROVE  IInv'
<1> USE DEF IInv, Bounds
<1>1. PICK b \in 0 .. NumChunks :
        /\ Counters(b) /\ Buffer /\ Burst /\ Forwards /\ Backwards(b)
        /\ Bounds(b)
  BY InvariantCount
<1>2. /\ rcv_done /\ fwd # <<>> /\ fwd' = Tail(fwd)
      /\ UNCHANGED <<bwd, expectedseqnum, rcv_sndpkt, out, rcv_done>>
      /\ UNCHANGED <<base, nextseqnum, sndpkt, should_send_eot, offset, resend, snd_done>>
  BY DEF ReceiverClosed, rcvvars, sndvars
<1>3. /\ fwd \in Seq(Packet) /\ Len(fwd) \in Nat \ {0}
      /\ fwd' \in Seq(Packet) /\ Len(fwd') = Len(fwd) - 1
      /\ \A i \in 1 .. Len(fwd) - 1 : fwd'[i] = fwd[i + 1]
  BY <1>2, TailResult DEF TypeOK, NetworkTypeOK
<1>4. EotSent /\ EotSent'
  BY <1>2 DEF EotSent
<1>5. TypeOK' /\ InOrderPrefix' /\ (snd_done => rcv_done)'
  BY <1>2, <1>3, <1>4 DEF TypeOK, NetworkTypeOK, InOrderPrefix
<1>6. Counters(b)' /\ Buffer' /\ Burst' /\ Backwards(b)'
  BY <1>1, <1>2, <1>4 DEF Counters, Buffer, Burst, Backwards, Acknowledged
<1>7. Forwards'
  <2>1. \A i \in 1 .. Len(fwd') : i + 1 \in 1 .. Len(fwd) /\ fwd'[i] = fwd[i + 1]
    BY <1>3
  <2> QED
    BY <1>1, <1>2, <2>1 DEF Forwards
<1> QED
  BY <1>5, <1>6, <1>7 DEF Core
-----------------------------------------------------------------------------
(* The invariant is inductive.                                             *)

LEMMA InitInv == Init => IInv
<1> SUFFICES ASSUME Init PROVE IInv
  OBVIOUS
<1> USE DEF Init, ReceiverInit
<1>1. 0 \in SeqNum /\ 0 = Num(0) /\ 0 \in Int /\ NoPacket \in Packet
  <2>1. 0 \in 0 .. SeqModulo - 1
    BY GbnAssumption
  <2>2. 0 % SeqModulo = 0
    BY <2>1, Modulus, RemainderOfSmall, Zenon
  <2> QED
    BY <2>1, <2>2 DEF SeqNum, Num, NoPacket, Packet
<1>2. Len(out) = 0 /\ out \in Seq(Chunk) /\ fwd \in Seq(Packet) /\ bwd \in Seq(Packet)
      /\ resend = {} /\ Len(fwd) = 0 /\ Len(bwd) = 0
  OBVIOUS
<1>3. rcv_sndpkt \in Packet /\ rcv_sndpkt = CreateAck(Len(out) - 1)
  <2>1. -1 \in Int /\ Num(-1) \in SeqNum /\ 0 - 1 = -1
    BY NumType
  <2>2. CreateAck(-1) = [type |-> ACK, seq_num |-> Num(-1), data |-> NoData]
    BY <2>1, NumPackets
  <2> QED
    BY <1>2, <2>1, <2>2 DEF InitialAck, Packet
<1>4. TypeOK
  BY <1>1, <1>2, <1>3, GbnAssumption DEF TypeOK, NetworkTypeOK
<1>5. ~EotSent
  BY <1>2 DEF EotSent
<1>6. InOrderPrefix /\ (snd_done => rcv_done)
  BY <1>2 DEF InOrderPrefix
<1>7. Counters(0)
  BY <1>1, <1>2, <1>5, GbnAssumption DEF Counters
<1>8. Buffer /\ Burst /\ Forwards /\ Backwards(0)
  BY <1>2, <1>3 DEF Buffer, Burst, Forwards, Backwards, NoPacket
<1>9. 0 \in 0 .. NumChunks
  BY GbnAssumption
<1> QED
  BY <1>4, <1>6, <1>7, <1>8, <1>9 DEF IInv, Core

LEMMA StepInv ==
  ASSUME IInv, [Next]_vars
  PROVE  IInv'
<1>1. CASE UNCHANGED vars
  <2>1. UNCHANGED <<fwd, bwd, expectedseqnum, rcv_sndpkt, out, rcv_done, base, nextseqnum,
                    sndpkt, should_send_eot, offset, resend, snd_done>>
    BY <1>1 DEF vars, netvars, rcvvars, sndvars
  <2>2. PICK b \in 0 .. NumChunks : Core(b)
    BY DEF IInv
  <2>3. Core(b)'
    BY <2>1, <2>2 DEF Core, Counters, Buffer, Burst, Forwards, Backwards, EotSent,
                      NoEotUpTo, Acknowledged
  <2>4. TypeOK' /\ InOrderPrefix' /\ (snd_done => rcv_done)'
    BY <2>1 DEF IInv, TypeOK, NetworkTypeOK, InOrderPrefix, EotSent
  <2> QED
    BY <2>3, <2>4 DEF IInv
<1>2. CASE Sender
  BY <1>2, RdtSendInv, SetShouldSendEotInv, TimeoutEventInv, ResendNextInv,
     RdtRcvSomeAckedInv, RdtRcvAllAckedInv, FinishOnEotInv DEF Sender, RdtRcv
<1>3. CASE Receiver /\ UNCHANGED sndvars
  BY <1>3, ReceiveExpectedInv, ReceiveUnexpectedInv, ReceiveEotInv, ReceiverClosedInv
  DEF Receiver
<1> QED
  BY <1>1, <1>2, <1>3 DEF Next

\* The invariant holds in every reachable state.
THEOREM Invariance == Spec => []IInv
BY InitInv, StepInv, PTL DEF Spec

-----------------------------------------------------------------------------
(* What follows from it.                                                   *)

\* The variables of sender, receiver and emulator keep their types: in
\* particular no number leaves 0 .. SeqModulo - 1 and the sender never takes a
\* chunk beyond the end of the file.
THEOREM TypeCorrect == Spec => []TypeOK
<1>1. IInv => TypeOK
  BY DEF IInv
<1> QED
  BY <1>1, Invariance, PTL

\* For every length of the file and whatever the emulator discards, the copy is
\* at every moment a prefix of the file (README.md: cmp prints nothing).
THEOREM CopyIsPrefix == Spec => []InOrderPrefix
<1>1. IInv => InOrderPrefix
  BY DEF IInv
<1> QED
  BY <1>1, Invariance, PTL

\* base, nextseqnum and expectedseqnum, which are only kept modulo SeqModulo,
\* never lose track of the transfer.
THEOREM WindowIsSound == Spec => []WindowSound
<1>1. ASSUME IInv PROVE WindowSound
  <2>1. PICK b \in 0 .. NumChunks : Counters(b) /\ Bounds(b)
    BY <1>1, InvariantCount
  <2>2. SUFFICES ASSUME ~EotSent
                 PROVE  /\ offset - InFlight <= Len(out)
                        /\ Len(out) <= offset
                        /\ InFlight <= WindowSize
    BY DEF WindowSound
  <2>3. base = Num(b) /\ nextseqnum = Num(offset)
    BY <2>1, <2>2 DEF Counters
  <2>4. InFlight = offset - b
    BY <2>1, <2>3, InFlightCounts DEF Bounds
  <2> QED
    BY <2>1, <2>4, GbnAssumption DEF Bounds
<1> QED
  BY <1>1, Invariance, PTL

\* An acknowledgement moves base forward within the packets in flight, although
\* rdt_rcv does not compare it with anything.
THEOREM BaseMovesForward == Spec => BaseNeverRetreats
<1>1. ASSUME IInv, [Next]_vars
      PROVE  [(base' - base) % SeqModulo <= InFlight]_base
  <2>1. SUFFICES ASSUME base' # base PROVE (base' - base) % SeqModulo <= InFlight
    OBVIOUS
  <2>2. RdtRcv
    BY <1>1, <2>1 DEF Next, Sender, RdtSend, SetShouldSendEot, TimeoutEvent, ResendNext,
                      FinishOnEot, vars, sndvars
  <2>3. PICK b \in 0 .. NumChunks : Counters(b) /\ Bounds(b) /\ Backwards(b)
    BY <1>1, InvariantCount
  <2>4. PICK c \in b .. Len(out) : base' = Num(c)
    BY <1>1, <2>2, <2>3, AcknowledgementTaken DEF RdtRcv, RdtRcvAllAcked, RdtRcvSomeAcked
  <2>5. base = Num(b) /\ b \in Int /\ c \in Int /\ c - b \in 0 .. SeqModulo - 1
    BY <2>3, <2>4, GbnAssumption DEF Counters, Bounds
  <2>6. (base' - base) % SeqModulo = c - b
    <3>1. (Num(c) - Num(b)) % SeqModulo = (c - b) % SeqModulo
      BY <2>5, Modulus, RemainderOfSum, Zenon DEF Num
    <3>2. (c - b) % SeqModulo = c - b
      BY <2>5, Modulus, RemainderOfSmall, Zenon
    <3> QED
      BY <2>4, <2>5, <3>1, <3>2
  <2>7. CASE EotSent
    <3>1. c - b = 0
      BY <2>3, <2>4, <2>7 DEF Bounds
    <3>2. InFlight \in 0 .. SeqModulo - 1
      BY <1>1, Modulus, DivisionWithRemainder DEF InFlight, IInv, TypeOK, SeqNum
    <3> QED
      BY <2>6, <3>1, <3>2
  <2>8. CASE ~EotSent
    <3>1. nextseqnum = Num(offset)
      BY <2>3, <2>8 DEF Counters
    <3>2. InFlight = offset - b
      BY <2>3, <2>5, <3>1, InFlightCounts DEF Bounds
    <3> QED
      BY <2>3, <2>4, <2>6, <3>2 DEF Bounds
  <2> QED
    BY <2>7, <2>8
<1> QED
  BY <1>1, Invariance, PTL DEF Spec, BaseNeverRetreats

-----------------------------------------------------------------------------
(* What a file becomes when it is opened as text.                          *)

\* The function of OpenedAsText.
Opening(content, f) ==
  f = [i \in 0 .. Len(content) |->
        IF i = 0 THEN <<>>
        ELSE IF content[i] = LF /\ i > 1 /\ content[i - 1] = CR THEN f[i - 1]
        ELSE Append(f[i - 1], IF content[i] = CR THEN LF ELSE content[i])]

\* It exists.
LEMMA OpeningExists ==
  ASSUME NEW content \in Seq(Chars)
  PROVE  \E f : Opening(content, f)
<1> DEFINE L == Len(content)
           Step(f, i) == IF i = 0 THEN <<>>
                         ELSE IF content[i] = LF /\ i > 1 /\ content[i - 1] = CR THEN f[i - 1]
                         ELSE Append(f[i - 1], IF content[i] = CR THEN LF ELSE content[i])
           T == {n \in 0 .. L : \E f : f = [i \in 0 .. n |-> Step(f, i)]}
<1>0. L \in Nat
  BY LenProperties
<1>1. 0 \in T
  <2> DEFINE h == [i \in 0 .. 0 |-> <<>>]
  <2>1. ASSUME NEW i \in 0 .. 0 PROVE h[i] = Step(h, i)
    OBVIOUS
  <2>2. h = [i \in 0 .. 0 |-> h[i]]
    OBVIOUS
  <2> HIDE DEF h
  <2>3. h = [i \in 0 .. 0 |-> Step(h, i)]
    BY <2>1, <2>2, Zenon
  <2>4. 0 \in 0 .. L
    BY <1>0
  <2> QED
    BY <2>3, <2>4
<1>2. ASSUME NEW n \in 0 .. L - 1, n \in T PROVE n + 1 \in T
  <2>1. PICK f : f = [i \in 0 .. n |-> Step(f, i)]
    BY <1>2
  <2> DEFINE h == [i \in 0 .. n + 1 |-> IF i \in 0 .. n THEN f[i] ELSE Step(f, n + 1)]
  <2>2. ASSUME NEW i \in 0 .. n + 1 PROVE h[i] = Step(h, i)
    <3>0. i = 0 \/ (i - 1 \in 0 .. n /\ h[i - 1] = f[i - 1])
      BY <1>0
    <3>1. Step(h, i) = Step(f, i)
      BY <3>0
    <3>2. CASE i \in 0 .. n
      <4>1. f[i] = Step(f, i)
        BY <2>1, <3>2
      <4>2. h[i] = f[i]
        BY <3>2
      <4> QED
        BY <3>1, <4>1, <4>2
    <3>3. CASE i = n + 1
      <4>1. i \notin 0 .. n
        BY <3>3
      <4>2. h[i] = Step(f, i)
        BY <3>3, <4>1
      <4> QED
        BY <3>1, <4>2
    <3> QED
      BY <1>0, <3>2, <3>3
  <2>3. h = [i \in 0 .. n + 1 |-> h[i]]
    OBVIOUS
  <2> HIDE DEF h
  <2>4. h = [i \in 0 .. n + 1 |-> Step(h, i)]
    BY <2>2, <2>3, Zenon
  <2>5. n + 1 \in 0 .. L
    BY <1>0
  <2> QED
    BY <2>4, <2>5
<1> HIDE DEF T
<1>3. 0 .. L \subseteq T
  BY <1>0, <1>1, <1>2, AllFromZero
<1>4. L \in T
  BY <1>0, <1>3
<1> QED
  BY <1>4 DEF T, Opening

\* Its values, one character after the other.
LEMMA OpenedSteps ==
  ASSUME NEW content \in Seq(Chars)
  PROVE  \E f : /\ OpenedAsText(content) = f[Len(content)]
                /\ f[0] = <<>>
                /\ \A i \in 1 .. Len(content) :
                     f[i] = IF content[i] = LF /\ i > 1 /\ content[i - 1] = CR THEN f[i - 1]
                            ELSE Append(f[i - 1], IF content[i] = CR THEN LF ELSE content[i])
<1> DEFINE L == Len(content)
           f == CHOOSE g : Opening(content, g)
<1>0. L \in Nat
  BY LenProperties
<1>1. Opening(content, f)
  BY OpeningExists
<1>2. OpenedAsText(content) = f[L]
  BY DEF OpenedAsText, Opening
<1> HIDE DEF f
<1>3. /\ f[0] = <<>>
      /\ \A i \in 1 .. L : f[i] = IF content[i] = LF /\ i > 1 /\ content[i - 1] = CR THEN f[i - 1]
                                  ELSE Append(f[i - 1], IF content[i] = CR THEN LF ELSE content[i])
  <2> DEFINE Step(i) == IF i = 0 THEN <<>>
                        ELSE IF content[i] = LF /\ i > 1 /\ content[i - 1] = CR THEN f[i - 1]
                        ELSE Append(f[i - 1], IF content[i] = CR THEN LF ELSE content[i])
  <2>1. f = [i \in 0 .. L |-> Step(i)]
    BY <1>1 DEF Opening
  <2>2. Step(0) = <<>>
    OBVIOUS
  <2>3. \A i \in 1 .. L : Step(i) = IF content[i] = LF /\ i > 1 /\ content[i - 1] = CR THEN f[i - 1]
                                     ELSE Append(f[i - 1], IF content[i] = CR THEN LF ELSE content[i])
    OBVIOUS
  <2>4. 0 \in 0 .. L /\ \A i \in 1 .. L : i \in 0 .. L
    BY <1>0
  <2> HIDE DEF Step
  <2>5. \A i \in 0 .. L : f[i] = Step(i)
    BY <2>1
  <2> QED
    BY <2>2, <2>3, <2>4, <2>5
<1> QED
  BY <1>2, <1>3

\* Opened as text a file has a character of more than one byte exactly if it has
\* one as it is: those that are replaced or dropped are carriage returns and
\* line feeds.
LEMMA OpenedResult ==
  ASSUME TextAssumption, NEW content \in Seq(Chars)
  PROVE  /\ OpenedAsText(content) \in Seq(Chars)
         /\ SomeWide(OpenedAsText(content), Len(OpenedAsText(content)))
              <=> SomeWide(content, Len(content))
<1> DEFINE L == Len(content)
<1>0. L \in Nat /\ \A i \in 1 .. L : content[i] \in Chars
  BY LenProperties, ElementOfSeq
<1>1. PICK f : /\ OpenedAsText(content) = f[L]
               /\ f[0] = <<>>
               /\ \A i \in 1 .. L :
                    f[i] = IF content[i] = LF /\ i > 1 /\ content[i - 1] = CR THEN f[i - 1]
                           ELSE Append(f[i - 1], IF content[i] = CR THEN LF ELSE content[i])
  BY OpenedSteps
<1>2. OpenedAsText(content) = f[L]
  BY <1>1
<1>3. /\ f[0] = <<>>
      /\ \A i \in 1 .. L : f[i] = IF content[i] = LF /\ i > 1 /\ content[i - 1] = CR THEN f[i - 1]
                                  ELSE Append(f[i - 1], IF content[i] = CR THEN LF ELSE content[i])
  BY <1>1
<1> DEFINE T == {n \in 0 .. L : f[n] \in Seq(Chars) /\ (SomeWide(f[n], Len(f[n])) <=> SomeWide(content, n))}
<1>4. 0 \in T
  <2>1. <<>> \in Seq(Chars) /\ Len(<<>>) = 0 /\ 0 \in 0 .. L /\ 1 .. 0 = {}
    BY <1>0
  <2>2. f[0] \in Seq(Chars) /\ (SomeWide(f[0], Len(f[0])) <=> SomeWide(content, 0))
    BY <1>3, <2>1 DEF SomeWide
  <2> QED
    BY <2>1, <2>2
<1>5. ASSUME NEW n \in 0 .. L - 1, n \in T PROVE n + 1 \in T
  <2>1. n + 1 \in 1 .. L /\ n + 1 - 1 = n /\ content[n + 1] \in Chars
    BY <1>0
  <2>2. f[n] \in Seq(Chars) /\ (SomeWide(f[n], Len(f[n])) <=> SomeWide(content, n)) /\ Len(f[n]) \in Nat
    BY <1>5, LenProperties
  <2>3. SomeWide(content, n + 1) <=> SomeWide(content, n) \/ Width[content[n + 1]] # 1
    <3>1. \A i \in 1 .. n + 1 : i \in 1 .. n \/ i = n + 1
      BY <1>0
    <3>2. n + 1 \in 1 .. n + 1 /\ \A i \in 1 .. n : i \in 1 .. n + 1
      BY <1>0
    <3> QED
      BY <3>1, <3>2 DEF SomeWide
  <2>4. CASE content[n + 1] = LF /\ n + 1 > 1 /\ content[n] = CR
    <3>1. f[n + 1] = f[n] /\ Width[content[n + 1]] = 1
      BY <1>3, <2>1, <2>4 DEF TextAssumption
    <3> QED
      BY <2>1, <2>2, <2>3, <3>1
  <2>5. CASE ~(content[n + 1] = LF /\ n + 1 > 1 /\ content[n] = CR)
    <3> DEFINE c == IF content[n + 1] = CR THEN LF ELSE content[n + 1]
    <3>1. f[n + 1] = Append(f[n], c)
      <4> DEFINE k == n + 1
      <4>1. k \in 1 .. L /\ k - 1 = n /\ ~(content[k] = LF /\ k > 1 /\ content[k - 1] = CR)
        BY <2>1, <2>5
      <4> HIDE DEF k
      <4>2. f[k] = Append(f[k - 1], IF content[k] = CR THEN LF ELSE content[k])
        BY <1>3, <4>1
      <4> QED
        BY <4>1, <4>2 DEF k
    <3>2. c \in Chars /\ (Width[c] = 1 <=> Width[content[n + 1]] = 1)
      BY <2>1 DEF TextAssumption
    <3> HIDE DEF c
    <3>3. /\ f[n + 1] \in Seq(Chars) /\ Len(f[n + 1]) = Len(f[n]) + 1
          /\ \A i \in 1 .. Len(f[n]) : f[n + 1][i] = f[n][i]
          /\ f[n + 1][Len(f[n]) + 1] = c
      BY <2>2, <3>1, <3>2, AppendResult
    <3>4. SomeWide(f[n + 1], Len(f[n + 1])) <=> SomeWide(f[n], Len(f[n])) \/ Width[c] # 1
      <4> DEFINE l == Len(f[n])
      <4>1. \A i \in 1 .. l + 1 : i \in 1 .. l \/ i = l + 1
        BY <2>2
      <4>2. l + 1 \in 1 .. l + 1 /\ \A i \in 1 .. l : i \in 1 .. l + 1
        BY <2>2
      <4> QED
        BY <3>3, <4>1, <4>2 DEF SomeWide
    <3> QED
      BY <2>1, <2>2, <2>3, <3>2, <3>3, <3>4
  <2> QED
    BY <2>4, <2>5
<1> HIDE DEF T
<1>6. 0 .. L \subseteq T
  BY <1>0, <1>4, <1>5, AllFromZero
<1>7. L \in T
  BY <1>0, <1>6
<1> QED
  BY <1>2, <1>7 DEF T

\* A file without CR is opened as it is.
LEMMA OpenedWithoutCR ==
  ASSUME NEW content \in Seq(Chars), \A i \in 1 .. Len(content) : content[i] # CR
  PROVE  OpenedAsText(content) = content
<1> DEFINE L == Len(content)
<1>0. L \in Nat /\ (\A i \in 1 .. L : content[i] \in Chars) /\ content \in [1 .. L -> Chars]
  BY LenProperties, ElementOfSeq
<1>1. PICK f : /\ OpenedAsText(content) = f[L]
               /\ f[0] = <<>>
               /\ \A i \in 1 .. L :
                    f[i] = IF content[i] = LF /\ i > 1 /\ content[i - 1] = CR THEN f[i - 1]
                           ELSE Append(f[i - 1], IF content[i] = CR THEN LF ELSE content[i])
  BY OpenedSteps
<1>2. \A i \in 1 .. L : f[i] = Append(f[i - 1], content[i])
  <2>1. SUFFICES ASSUME NEW i \in 1 .. L PROVE f[i] = Append(f[i - 1], content[i])
    OBVIOUS
  <2>2. i > 1 => i - 1 \in 1 .. L
    BY <1>0
  <2> QED
    BY <1>1, <2>2
<1> DEFINE T == {n \in 0 .. L : /\ f[n] \in Seq(Chars) /\ Len(f[n]) = n
                                /\ \A i \in 1 .. n : f[n][i] = content[i]}
<1>3. 0 \in T
  <2>1. f[0] \in Seq(Chars) /\ Len(f[0]) = 0 /\ 0 \in 0 .. L /\ 1 .. 0 = {}
    BY <1>0, <1>1
  <2> QED
    BY <2>1
<1>4. ASSUME NEW n \in 0 .. L - 1, n \in T PROVE n + 1 \in T
  <2>1. /\ n + 1 \in 1 .. L /\ n + 1 \in 0 .. L /\ (n + 1) - 1 = n /\ content[n + 1] \in Chars
        /\ f[n] \in Seq(Chars) /\ Len(f[n]) = n
    BY <1>0, <1>4
  <2>2. f[n + 1] = Append(f[n], content[n + 1])
    <3> DEFINE k == n + 1
    <3>1. k \in 1 .. L /\ k - 1 = n
      BY <2>1
    <3> HIDE DEF k
    <3>2. f[k] = Append(f[k - 1], content[k])
      BY <1>2, <3>1
    <3> QED
      BY <3>1, <3>2 DEF k
  <2>3. /\ f[n + 1] \in Seq(Chars) /\ Len(f[n + 1]) = n + 1
        /\ \A i \in 1 .. n : f[n + 1][i] = f[n][i]
        /\ f[n + 1][n + 1] = content[n + 1]
    BY <2>1, <2>2, AppendResult
  <2>4. \A i \in 1 .. n + 1 : i \in 1 .. n \/ i = n + 1
    BY <1>0
  <2>5. \A i \in 1 .. n + 1 : f[n + 1][i] = content[i]
    BY <1>4, <2>3, <2>4
  <2> QED
    BY <2>1, <2>3, <2>5
<1> HIDE DEF T
<1>5. 0 .. L \subseteq T
  BY <1>0, <1>3, <1>4, AllFromZero
<1>6. L \in T
  BY <1>0, <1>5
<1>7. f[L] \in [1 .. L -> Chars] /\ \A i \in 1 .. L : f[L][i] = content[i]
  BY <1>6, LenProperties DEF T
<1> QED
  BY <1>0, <1>1, <1>7

-----------------------------------------------------------------------------
(* Bytes.                                                                  *)

\* Every byte of a string belongs to one character, the at[n]-th for the n-th
\* byte; before[i] bytes belong to the first i characters.
LEMMA EncodePlaces ==
  ASSUME TextAssumption, NEW s \in Seq(Chars)
  PROVE  \E before, at :
           /\ before[0] = 0
           /\ \A i \in 1 .. Len(s) : before[i] = before[i - 1] + Width[s[i]]
           /\ \A i \in 0 .. Len(s) : before[i] \in Nat
           /\ \A i, j \in 0 .. Len(s) : i <= j => before[i] + (j - i) <= before[j]
           /\ Encode(s) = [n \in 1 .. before[Len(s)] |-> <<s[at[n]], n - before[at[n] - 1]>>]
           /\ \A n \in 1 .. before[Len(s)] :
                at[n] \in 1 .. Len(s) /\ before[at[n] - 1] < n /\ n <= before[at[n]]
<1> DEFINE L == Len(s)
           w == [i \in 1 .. L |-> Width[s[i]]]
           Before(b) == b = [i \in 0 .. L |-> IF i = 0 THEN 0 ELSE b[i - 1] + Width[s[i]]]
           b == CHOOSE f : Before(f)
           At(n) == CHOOSE i \in 1 .. L : b[i - 1] < n /\ n <= b[i]
           at == [n \in 1 .. b[L] |-> At(n)]
<1>0. L \in Nat /\ \A i \in 1 .. L : Width[s[i]] \in 1 .. 4
  BY LenProperties, ElementOfSeq DEF TextAssumption
<1>1. Before(b)
  <2>0. L + 1 \in Nat \ {0}
    BY <1>0
  <2>1. PICK f : Sums(f, w, L + 1)
    BY <2>0, SumsExist, Zenon
  <2> DEFINE h == [i \in 0 .. L |-> f[i + 1]]
  <2>2. ASSUME NEW i \in 0 .. L PROVE h[i] = IF i = 0 THEN 0 ELSE h[i - 1] + Width[s[i]]
    <3>1. i + 1 \in 1 .. L + 1 /\ (i + 1 = 1 <=> i = 0) /\ (i + 1) - 1 = i
      BY <1>0
    <3>2. f[i + 1] = IF i + 1 = 1 THEN 0 ELSE f[(i + 1) - 1] + w[(i + 1) - 1]
      BY <2>1, <3>1 DEF Sums
    <3>3. h[i] = f[i + 1] /\ (i # 0 => h[i - 1] = f[i] /\ w[i] = Width[s[i]])
      <4>1. CASE i # 0
        <5>1. i - 1 \in 0 .. L /\ (i - 1) + 1 = i /\ i \in 1 .. L
          BY <1>0, <4>1
        <5> QED
          BY <5>1
      <4> QED
        BY <4>1
    <3> QED
      BY <3>1, <3>2, <3>3
  <2>3. h = [i \in 0 .. L |-> h[i]]
    OBVIOUS
  <2> HIDE DEF h
  <2>4. Before(h)
    BY <2>2, <2>3, Zenon
  <2> QED
    BY <2>4
<1>2. Encode(s) = [n \in 1 .. b[L] |-> <<s[At(n)], n - b[At(n) - 1]>>]
  BY DEF Encode
<1> HIDE DEF b, w
<1>3. b[0] = 0 /\ \A i \in 1 .. L : b[i] = b[i - 1] + Width[s[i]]
  <2>1. 0 \in 0 .. L /\ \A i \in 1 .. L : i \in 0 .. L /\ i # 0
    BY <1>0
  <2> QED
    BY <1>1, <2>1
<1>4. \A i \in 0 .. L : b[i] \in Nat
  <2> DEFINE T == {n \in 0 .. L : b[n] \in Nat}
  <2>1. 0 \in T
    BY <1>0, <1>3
  <2>2. ASSUME NEW n \in 0 .. L - 1, n \in T PROVE n + 1 \in T
    <3>1. n + 1 \in 1 .. L /\ n + 1 \in 0 .. L /\ (n + 1) - 1 = n
      BY <1>0
    <3>2. b[n + 1] = b[n] + Width[s[n + 1]]
      BY <1>3, <3>1
    <3> QED
      BY <1>0, <2>2, <3>1, <3>2
  <2> HIDE DEF T
  <2>3. 0 .. L \subseteq T
    BY <1>0, <2>1, <2>2, AllFromZero
  <2> QED
    BY <2>3 DEF T
<1>5. ASSUME NEW i \in 0 .. L, NEW j \in 0 .. L, i <= j PROVE b[i] + (j - i) <= b[j]
  <2> DEFINE T == {k \in 0 .. L - i : b[i] + k <= b[i + k]}
  <2>0. L - i \in Nat /\ b[i] \in Nat
    BY <1>0, <1>4
  <2>1. 0 \in T
    BY <2>0
  <2>2. ASSUME NEW k \in 0 .. (L - i) - 1, k \in T PROVE k + 1 \in T
    <3> DEFINE m == i + k
    <3>1. m + 1 \in 1 .. L /\ (m + 1) - 1 = m /\ k + 1 \in 0 .. L - i /\ m \in 0 .. L /\ m + 1 = i + (k + 1)
      BY <1>0
    <3>2. b[i] + k <= b[m]
      BY <2>2
    <3> HIDE DEF m
    <3>3. b[m + 1] = b[m] + Width[s[m + 1]] /\ b[m] \in Nat /\ Width[s[m + 1]] \in 1 .. 4
          /\ b[m + 1] \in Nat
      <4>1. m + 1 \in 0 .. L
        BY <3>1
      <4> QED
        BY <1>0, <1>3, <1>4, <3>1, <4>1
    <3>4. k \in Int
      BY <2>0
    <3>5. b[i] + (k + 1) <= b[m + 1]
      <4> DEFINE x == b[i]
                 y == b[m]
                 z == b[m + 1]
                 v == Width[s[m + 1]]
      <4>0. x \in Int /\ y \in Int /\ z \in Int
        BY <2>0, <3>3
      <4>3. v \in Int /\ v >= 1
        BY <3>3
      <4>4. x + k <= y
        BY <3>2
      <4>1. z = y + v
        BY <3>3
      <4> HIDE DEF x, y, z, v
      <4>2. x + (k + 1) <= z
        BY <3>4, <4>0, <4>1, <4>3, <4>4
      <4> QED
        BY <4>2 DEF x, z
    <3> QED
      BY <3>1, <3>5
  <2> HIDE DEF T
  <2>3. 0 .. L - i \subseteq T
    BY <2>0, <2>1, <2>2, AllFromZero
  <2>4. j - i \in 0 .. L - i /\ i + (j - i) = j
    BY <1>5, <1>0
  <2>5. j - i \in T
    BY <2>3, <2>4
  <2> QED
    BY <2>4, <2>5 DEF T
<1>6. ASSUME NEW n \in 1 .. b[L]
      PROVE  At(n) \in 1 .. L /\ b[At(n) - 1] < n /\ n <= b[At(n)]
  <2> DEFINE F == {i \in 0 .. L : n <= b[i]}
  <2>1. L \in F /\ F \subseteq Nat
    BY <1>0, <1>4
  <2>2. PICK m \in F : \A i \in F : m <= i
    BY <2>1, LeastNumber
  <2>3. m # 0
    BY <1>3, <2>2
  <2>4. m \in 1 .. L /\ m - 1 \in 0 .. L /\ ~(m <= m - 1)
    BY <1>0, <2>2, <2>3
  <2>5. ~(n <= b[m - 1]) /\ b[m - 1] \in Nat
    BY <1>4, <2>2, <2>4
  <2>6. b[m - 1] < n /\ n <= b[m]
    BY <1>0, <1>4, <2>2, <2>5
  <2> QED
    BY <2>4, <2>6
<1>7. \A n \in 1 .. b[L] : at[n] = At(n)
  OBVIOUS
<1>8. Encode(s) = [n \in 1 .. b[L] |-> <<s[at[n]], n - b[at[n] - 1]>>]
  <2> HIDE DEF At, at
  <2> QED
    BY <1>2, <1>7
<1> HIDE DEF At, at
<1>9. \A n \in 1 .. b[L] : at[n] \in 1 .. L /\ b[at[n] - 1] < n /\ n <= b[at[n]]
  BY <1>6, <1>7
<1> QED
  BY <1>3, <1>4, <1>5, <1>8, <1>9

\* A string is as long as its bytes exactly if every character has only one;
\* then byte and character have the same place. Otherwise that is so up to the
\* first byte of the first character that has more.
LEMMA EncodeResult ==
  ASSUME TextAssumption, NEW s \in Seq(Chars)
  PROVE  /\ Encode(s) \in Seq(Chars \X Nat)
         /\ Len(Encode(s)) >= Len(s)
         /\ \A i \in 1 .. Len(s) : \E n \in 1 .. Len(Encode(s)) : Encode(s)[n] = <<s[i], 1>>
         /\ ~SomeWide(s, Len(s)) =>
              Len(Encode(s)) = Len(s) /\ \A i \in 1 .. Len(s) : Encode(s)[i] = <<s[i], 1>>
         /\ SomeWide(s, Len(s)) =>
              /\ Len(Encode(s)) > Len(s)
              /\ \E j \in 1 .. Len(s) : Width[s[j]] # 1 /\ Encode(s)[j] = <<s[j], 1>>
<1> DEFINE L == Len(s)
<1>0. L \in Nat /\ \A i \in 1 .. L : s[i] \in Chars /\ Width[s[i]] \in 1 .. 4
  BY LenProperties, ElementOfSeq DEF TextAssumption
<1>1. PICK b, at : /\ b[0] = 0
                   /\ \A i \in 1 .. L : b[i] = b[i - 1] + Width[s[i]]
                   /\ \A i \in 0 .. L : b[i] \in Nat
                   /\ \A i, j \in 0 .. L : i <= j => b[i] + (j - i) <= b[j]
                   /\ Encode(s) = [n \in 1 .. b[L] |-> <<s[at[n]], n - b[at[n] - 1]>>]
                   /\ \A n \in 1 .. b[L] : at[n] \in 1 .. L /\ b[at[n] - 1] < n /\ n <= b[at[n]]
  BY EncodePlaces
<1>2. b[L] \in Nat /\ b[L] >= L /\ 0 \in 0 .. L /\ L \in 0 .. L
  <2>1. 0 \in 0 .. L /\ L \in 0 .. L /\ 0 <= L
    BY <1>0
  <2>2. b[0] + (L - 0) <= b[L] /\ b[L] \in Nat
    BY <1>1, <2>1
  <2> QED
    BY <1>0, <1>1, <2>1, <2>2
<1>3. \A n \in 1 .. b[L] : Encode(s)[n] = <<s[at[n]], n - b[at[n] - 1]>>
  BY <1>1
<1>4. Encode(s) \in Seq(Chars \X Nat) /\ Len(Encode(s)) = b[L]
  <2>1. ASSUME NEW n \in 1 .. b[L] PROVE <<s[at[n]], n - b[at[n] - 1]>> \in Chars \X Nat
    <3>1. at[n] \in 1 .. L /\ b[at[n] - 1] < n
      BY <1>1
    <3>2. at[n] - 1 \in 0 .. L
      BY <1>0, <3>1
    <3>3. b[at[n] - 1] \in Nat
      BY <1>1, <3>2
    <3> QED
      BY <1>0, <3>1, <3>3
  <2>2. Encode(s) \in [1 .. b[L] -> Chars \X Nat]
    BY <1>1, <2>1
  <2> QED
    BY <1>2, <2>2, SeqDef, LenProperties
\* The place of a byte is the only character whose bytes it is among.
<1>5. ASSUME NEW i \in 1 .. L PROVE b[i - 1] + 1 \in 1 .. b[L] /\ at[b[i - 1] + 1] = i
  <2> DEFINE n == b[i - 1] + 1
             k == at[n]
  <2>1. i - 1 \in 0 .. L /\ i \in 0 .. L /\ i <= L
    BY <1>0
  <2>2. b[i - 1] \in Nat /\ b[i] \in Nat /\ b[i] = b[i - 1] + Width[s[i]] /\ b[i] + (L - i) <= b[L]
    BY <1>1, <1>2, <2>1
  <2>3. n \in 1 .. b[L] /\ n <= b[i]
    <3> DEFINE v == Width[s[i]]
               x == b[i]
               y == b[L]
               z == b[i - 1]
    <3>1. v \in Int /\ v >= 1
      BY <1>0
    <3>2. x \in Int /\ y \in Int /\ z \in Nat
      BY <1>2, <2>2
    <3>3. x = z + v /\ x + (L - i) <= y
      BY <2>2
    <3> HIDE DEF v, x, y, z
    <3>4. z + 1 \in 1 .. y /\ z + 1 <= x
      BY <1>0, <2>1, <3>1, <3>2, <3>3
    <3> QED
      BY <3>4 DEF x, y, z
  <2>4. k \in 1 .. L /\ b[k - 1] < n /\ n <= b[k]
    BY <1>1, <2>3
  <2>5. k - 1 \in 0 .. L /\ k \in 0 .. L
    BY <1>0, <2>4
  <2> HIDE DEF k
  <2>6. b[k - 1] \in Nat /\ b[k] \in Nat
    BY <1>1, <2>5
  <2>7. ~(k < i)
    <3>1. k <= i - 1 => b[k] + ((i - 1) - k) <= b[i - 1]
      BY <1>1, <2>1, <2>5
    <3> QED
      BY <1>0, <2>2, <2>4, <2>6, <3>1
  <2>8. ~(i < k)
    <3>1. i <= k - 1 => b[i] + ((k - 1) - i) <= b[k - 1]
      BY <1>1, <2>1, <2>5
    <3> QED
      BY <1>0, <2>2, <2>3, <2>4, <2>6, <3>1
  <2>9. k = i
    BY <1>0, <2>4, <2>7, <2>8
  <2> QED
    BY <2>3, <2>9 DEF k
<1>6. ASSUME NEW i \in 1 .. L
      PROVE  b[i - 1] + 1 \in 1 .. b[L] /\ Encode(s)[b[i - 1] + 1] = <<s[i], 1>>
  <2> DEFINE n == b[i - 1] + 1
  <2>1. n \in 1 .. b[L] /\ at[n] = i
    BY <1>5
  <2>2. Encode(s)[n] = <<s[i], n - b[i - 1]>>
    BY <1>3, <2>1
  <2>3. i - 1 \in 0 .. L
    BY <1>0
  <2>4. n - b[i - 1] = 1
    BY <1>1, <2>3
  <2> QED
    BY <2>1, <2>2, <2>4
\* Up to a character that takes more than one byte, places agree.
<1>7. ASSUME NEW m \in 0 .. L, ~SomeWide(s, m) PROVE \A i \in 0 .. m : b[i] = i
  <2> DEFINE T == {i \in 0 .. m : b[i] = i}
  <2>1. 0 \in T
    BY <1>0, <1>1
  <2>2. ASSUME NEW i \in 0 .. m - 1, i \in T PROVE i + 1 \in T
    <3>1. i + 1 \in 1 .. m /\ i + 1 \in 1 .. L /\ (i + 1) - 1 = i /\ i + 1 \in 0 .. m
      BY <1>0
    <3>2. b[i + 1] = b[i] + Width[s[i + 1]] /\ Width[s[i + 1]] = 1
      BY <1>1, <1>7, <3>1 DEF SomeWide
    <3> QED
      BY <2>2, <3>1, <3>2
  <2> HIDE DEF T
  <2>3. m \in Nat
    BY <1>0
  <2>4. 0 .. m \subseteq T
    BY <2>1, <2>2, <2>3, AllFromZero
  <2> QED
    BY <2>4 DEF T
<1>8. ASSUME ~SomeWide(s, L)
      PROVE  b[L] = L /\ \A i \in 1 .. L : Encode(s)[i] = <<s[i], 1>>
  <2>1. \A i \in 0 .. L : b[i] = i
    BY <1>2, <1>7, <1>8
  <2>2. ASSUME NEW i \in 1 .. L PROVE Encode(s)[i] = <<s[i], 1>>
    <3>1. i - 1 \in 0 .. L /\ (i - 1) + 1 = i
      BY <1>0
    <3>2. b[i - 1] = i - 1
      BY <2>1, <3>1
    <3> QED
      BY <1>6, <3>1, <3>2
  <2> QED
    BY <1>2, <2>1, <2>2
<1>9. ASSUME SomeWide(s, L)
      PROVE  b[L] > L /\ \E j \in 1 .. L : Width[s[j]] # 1 /\ Encode(s)[j] = <<s[j], 1>>
  <2> DEFINE F == {i \in 1 .. L : Width[s[i]] # 1}
  <2>1. F # {} /\ F \subseteq Nat
    BY <1>9 DEF SomeWide
  <2>2. PICK j \in F : \A i \in F : j <= i
    BY <2>1, LeastNumber
  <2>3. j \in 1 .. L /\ j - 1 \in 0 .. L /\ (j - 1) + 1 = j /\ j \in 0 .. L /\ j <= L
    BY <1>0
  <2>4. ~SomeWide(s, j - 1)
    <3>1. \A i \in 1 .. j - 1 : i \in 1 .. L /\ ~(j <= i)
      BY <1>0
    <3> QED
      BY <2>2, <3>1 DEF SomeWide
  <2>5. b[j - 1] = j - 1
    <3>1. j - 1 \in 0 .. j - 1
      BY <2>3
    <3> QED
      BY <1>7, <2>3, <2>4, <3>1
  <2>6. Encode(s)[j] = <<s[j], 1>>
    BY <1>6, <2>3, <2>5
  <2>7. b[j] = b[j - 1] + Width[s[j]] /\ Width[s[j]] \in 2 .. 4 /\ b[j] + (L - j) <= b[L]
    <3>1. Width[s[j]] \in 1 .. 4 /\ Width[s[j]] # 1
      BY <1>0, <2>2, <2>3
    <3>2. Width[s[j]] \in 2 .. 4
      BY <3>1
    <3>3. b[j] = b[j - 1] + Width[s[j]]
      BY <1>1, <2>3
    <3>4. b[j] + (L - j) <= b[L]
      BY <1>1, <1>2, <2>3
    <3> QED
      BY <3>2, <3>3, <3>4
  <2>8. b[L] > L
    BY <1>0, <1>2, <2>3, <2>5, <2>7
  <2> QED
    BY <2>3, <2>6, <2>8
<1>10. \A i \in 1 .. L : \E n \in 1 .. b[L] : Encode(s)[n] = <<s[i], 1>>
  BY <1>6
<1> QED
  BY <1>2, <1>4, <1>8, <1>9, <1>10

\* The strings of at most n characters.
LEMMA StringsResult ==
  ASSUME NEW n \in Nat
  PROVE  \A s : s \in Strings(n) <=> s \in Seq(Chars) /\ Len(s) <= n
<1>1. ASSUME NEW s \in Strings(n) PROVE s \in Seq(Chars) /\ Len(s) <= n
  <2>1. PICK k \in 0 .. n : s \in [1 .. k -> Chars]
    BY DEF Strings
  <2>2. k \in Nat
    BY <2>1
  <2>3. s \in Seq(Chars) /\ Len(s) = k
    BY <2>1, <2>2, SeqDef, LenProperties
  <2> QED
    BY <2>1, <2>3
<1>2. ASSUME NEW s \in Seq(Chars), Len(s) <= n PROVE s \in Strings(n)
  <2>1. Len(s) \in 0 .. n /\ s \in [1 .. Len(s) -> Chars]
    BY <1>2, LenProperties
  <2> QED
    BY <2>1 DEF Strings
<1> QED
  BY <1>1, <1>2

\* What the receiver makes of a packet. It decodes as many bytes as the packet has
\* characters: these are all if every character has one byte, and the string comes
\* back; otherwise they are too few, and encode fewer characters, if any.
LEMMA ParsedResult ==
  ASSUME TextAssumption, NEW s \in Seq(Chars), s # <<>>,
         NEW d, d = DataBytes(Serialize(s))
  PROVE  /\ ~SomeWide(s, Len(s)) => Decodable(d) /\ Decode(d) = s
         /\ SomeWide(s, Len(s)) /\ Decodable(d) => Decode(d) \in Seq(Chars) /\ Len(Decode(d)) < Len(s)
<1> DEFINE n == Len(s)
           e == Encode(s)
<1>1. n \in Nat /\ n > 0
  BY LenProperties, EmptySeq
<1>2. e \in Seq(Chars \X Nat) /\ Len(e) \in Nat /\ Len(e) >= n
  BY EncodeResult, LenProperties
<1>3. d = SubSeq(e, 1, n)
  <2> HIDE DEF e, n
  <2>1. d = SubSeq(e, 1, Shortest(n, Len(e)))
    BY DEF DataBytes, Serialize, e, n
  <2> QED
    BY <1>2, <2>1 DEF Shortest
<1>4. d \in Seq(Chars \X Nat) /\ Len(d) = n /\ \A i \in 1 .. n : d[i] = e[i]
  <2>1. \A i \in 1 .. n : e[i] \in Chars \X Nat
    BY <1>1, <1>2, ElementOfSeq
  <2> HIDE DEF e, n
  <2>2. /\ SubSeq(e, 1, n) \in Seq(Chars \X Nat)
        /\ Len(SubSeq(e, 1, n)) = IF 1 <= n THEN n - 1 + 1 ELSE 0
        /\ \A i \in 1 .. n - 1 + 1 : SubSeq(e, 1, n)[i] = e[1 + i - 1]
    BY <1>1, <1>2, <2>1, SubSeqProperties
  <2> QED
    BY <1>1, <1>3, <2>2
<1>5. \A t : t \in Strings(Len(d)) <=> t \in Seq(Chars) /\ Len(t) <= n
  BY <1>1, <1>4, StringsResult
\* A string with these bytes that is as long as s has only characters of one byte.
<1>6. ASSUME NEW t \in Seq(Chars), Encode(t) = d, Len(t) = n
      PROVE  ~SomeWide(t, Len(t)) /\ \A i \in 1 .. n : d[i] = <<t[i], 1>>
  <2>1. ~SomeWide(t, Len(t))
    BY <1>1, <1>4, <1>6, EncodeResult
  <2> QED
    BY <1>6, <2>1, EncodeResult
<1>7. ASSUME ~SomeWide(s, n)
      PROVE  Decodable(d) /\ \A t \in Strings(Len(d)) : Encode(t) = d => t = s
  <2>1. Len(e) = n /\ \A i \in 1 .. n : e[i] = <<s[i], 1>>
    BY <1>7, EncodeResult
  <2>2. d = e
    BY <1>2, <1>4, <2>1, SeqEqual
  <2>3. s \in Strings(Len(d))
    BY <1>1, <1>5
  <2>4. ASSUME NEW t \in Strings(Len(d)), Encode(t) = d PROVE t = s
    <3>1. t \in Seq(Chars) /\ Len(t) <= n /\ Len(t) \in Nat
      BY <1>5, <2>4, LenProperties
    <3>2. ~SomeWide(t, Len(t))
      <4>1. ASSUME NEW i \in 1 .. Len(t) PROVE Width[t[i]] = 1
        <5>0. \E k \in 1 .. Len(Encode(t)) : Encode(t)[k] = <<t[i], 1>>
          BY <3>1, EncodeResult
        <5>1. PICK k \in 1 .. Len(d) : d[k] = <<t[i], 1>>
          BY <2>4, <5>0
        <5>2. k \in 1 .. n /\ d[k] = <<s[k], 1>>
          BY <1>4, <2>1, <5>1
        <5>3. t[i] = s[k]
          BY <5>1, <5>2
        <5> QED
          BY <1>7, <5>2, <5>3 DEF SomeWide
      <4> QED
        BY <4>1 DEF SomeWide
    <3>3. Len(d) = Len(t) /\ \A i \in 1 .. Len(t) : d[i] = <<t[i], 1>>
      BY <2>4, <3>1, <3>2, EncodeResult
    <3>4. Len(t) = Len(s) /\ \A i \in 1 .. Len(t) : t[i] = s[i]
      <4>1. Len(t) = n
        BY <1>4, <3>3
      <4>2. ASSUME NEW i \in 1 .. n PROVE t[i] = s[i]
        <5>1. d[i] = <<t[i], 1>> /\ d[i] = <<s[i], 1>>
          BY <1>4, <2>1, <3>3, <4>1
        <5> QED
          BY <5>1
      <4> QED
        BY <4>1, <4>2
    <3> QED
      BY <3>1, <3>4, SeqEqual
  <2> QED
    BY <2>2, <2>3, <2>4 DEF Decodable
<1>8. ASSUME SomeWide(s, n)
      PROVE  \A t \in Strings(Len(d)) : Encode(t) = d => t \in Seq(Chars) /\ Len(t) < n
  <2>1. PICK j \in 1 .. n : Width[s[j]] # 1 /\ e[j] = <<s[j], 1>>
    BY <1>8, EncodeResult
  <2>2. ASSUME NEW t \in Strings(Len(d)), Encode(t) = d PROVE t \in Seq(Chars) /\ Len(t) < n
    <3>1. t \in Seq(Chars) /\ Len(t) <= n /\ Len(t) \in Nat
      BY <1>5, <2>2, LenProperties
    <3>2. ASSUME Len(t) = n PROVE FALSE
      <4>1. ~SomeWide(t, Len(t)) /\ d[j] = <<t[j], 1>>
        BY <1>6, <2>2, <3>1, <3>2
      <4>2. d[j] = <<s[j], 1>>
        BY <1>4, <2>1
      <4>3. t[j] = s[j]
        BY <4>1, <4>2
      <4> QED
        BY <2>1, <3>2, <4>1, <4>3 DEF SomeWide
    <3> QED
      BY <1>1, <3>1, <3>2
  <2> QED
    BY <2>2
<1> HIDE DEF e, n
<1>9. Decodable(d) => Decode(d) \in Strings(Len(d)) /\ Encode(Decode(d)) = d
  BY DEF Decodable, Decode
<1> QED
  BY <1>7, <1>8, <1>9 DEF n

-----------------------------------------------------------------------------
(* The invariant.                                                          *)

\* The elements after the a-th up to the b-th.
LEMMA PieceResult ==
  ASSUME NEW S, NEW q \in Seq(S), NEW a \in 0 .. Len(q), NEW b \in a .. Len(q)
  PROVE  /\ SubSeq(q, a + 1, b) \in Seq(S)
         /\ Len(SubSeq(q, a + 1, b)) = b - a
         /\ \A i \in 1 .. b - a : SubSeq(q, a + 1, b)[i] = q[a + i]
<1>0. Len(q) \in Nat
  BY LenProperties
<1>1. a \in Nat /\ b \in Nat /\ a <= b /\ b <= Len(q)
  BY <1>0
<1>2. \A i \in a + 1 .. b : q[i] \in S
  BY <1>0, <1>1, ElementOfSeq
<1>3. /\ SubSeq(q, a + 1, b) \in Seq(S)
      /\ Len(SubSeq(q, a + 1, b)) = IF a + 1 <= b THEN b - (a + 1) + 1 ELSE 0
      /\ \A i \in 1 .. b - (a + 1) + 1 : SubSeq(q, a + 1, b)[i] = q[a + 1 + i - 1]
  <2>1. a + 1 \in Int /\ b \in Int
    BY <1>1
  <2> QED
    BY <1>2, <2>1, SubSeqProperties
<1> QED
  BY <1>1, <1>3

\* A piece of a piece; a whole as a piece; two pieces that meet.
LEMMA PieceOfPiece ==
  ASSUME NEW S, NEW q \in Seq(S), NEW a \in 0 .. Len(q),
         NEW i \in 0 .. Len(q) - a, NEW j \in i .. Len(q) - a
  PROVE  SubSeq(SubSeq(q, a + 1, Len(q)), i + 1, j) = SubSeq(q, (a + i) + 1, a + j)
<1> DEFINE p == SubSeq(q, a + 1, Len(q))
           l == SubSeq(p, i + 1, j)
           m == SubSeq(q, (a + i) + 1, a + j)
<1>0. Len(q) \in Nat /\ Len(q) \in a .. Len(q)
  BY LenProperties
<1>1. p \in Seq(S) /\ Len(p) = Len(q) - a /\ \A k \in 1 .. Len(q) - a : p[k] = q[a + k]
  BY <1>0, PieceResult
<1> HIDE DEF p
<1>2. l \in Seq(S) /\ Len(l) = j - i /\ \A k \in 1 .. j - i : l[k] = p[i + k]
  BY <1>1, PieceResult
<1>3. m \in Seq(S) /\ Len(m) = j - i /\ \A k \in 1 .. j - i : m[k] = q[(a + i) + k]
  <2>1. a + i \in 0 .. Len(q) /\ a + j \in a + i .. Len(q) /\ (a + j) - (a + i) = j - i
    BY <1>0
  <2> QED
    BY <2>1, PieceResult
<1> HIDE DEF l, m
<1>4. ASSUME NEW k \in 1 .. j - i PROVE l[k] = m[k]
  <2>1. i + k \in 1 .. Len(q) - a /\ a + (i + k) = (a + i) + k
    BY <1>0
  <2> QED
    BY <1>1, <1>2, <1>3, <2>1
<1>5. l = m
  BY <1>2, <1>3, <1>4, SeqEqual
<1> QED
  BY <1>5 DEF p, l, m

LEMMA WholePiece ==
  ASSUME NEW S, NEW q \in Seq(S)
  PROVE  SubSeq(q, 1, Len(q)) = q
<1>1. /\ 0 \in 0 .. Len(q) /\ Len(q) \in 0 .. Len(q) /\ Len(q) - 0 = Len(q)
      /\ 0 + 1 = 1 /\ \A i \in 1 .. Len(q) : 0 + i = i
  BY LenProperties
<1>2. /\ SubSeq(q, 1, Len(q)) \in Seq(S)
      /\ Len(SubSeq(q, 1, Len(q))) = Len(q)
      /\ \A i \in 1 .. Len(q) : SubSeq(q, 1, Len(q))[i] = q[i]
  BY <1>1, PieceResult
<1> QED
  BY <1>2, SeqEqual

LEMMA JoinPieces ==
  ASSUME NEW S, NEW q \in Seq(S), NEW a \in 0 .. Len(q), NEW b \in a .. Len(q)
  PROVE  SubSeq(q, 1, a) \o SubSeq(q, a + 1, b) = SubSeq(q, 1, b)
<1> DEFINE x == SubSeq(q, 1, a)
           y == SubSeq(q, a + 1, b)
           z == SubSeq(q, 1, b)
<1>0. /\ Len(q) \in Nat /\ 0 \in 0 .. Len(q) /\ a \in 0 .. Len(q) /\ b \in 0 .. Len(q)
      /\ 0 + 1 = 1 /\ a - 0 = a /\ b - 0 = b /\ \A i \in Nat : 0 + i = i
  BY LenProperties
<1>1. x \in Seq(S) /\ Len(x) = a /\ \A i \in 1 .. a : x[i] = q[i]
  BY <1>0, PieceResult
<1>2. y \in Seq(S) /\ Len(y) = b - a /\ \A i \in 1 .. b - a : y[i] = q[a + i]
  BY PieceResult
<1>3. z \in Seq(S) /\ Len(z) = b /\ \A i \in 1 .. b : z[i] = q[i]
  BY <1>0, PieceResult
<1> HIDE DEF x, y, z
<1>4. /\ x \o y \in Seq(S)
      /\ Len(x \o y) = b
      /\ \A i \in 1 .. b : (x \o y)[i] = IF i <= a THEN x[i] ELSE y[i - a]
  <2>1. /\ x \o y \in Seq(S)
        /\ Len(x \o y) = Len(x) + Len(y)
        /\ \A i \in 1 .. Len(x) + Len(y) : (x \o y)[i] = IF i <= Len(x) THEN x[i] ELSE y[i - Len(x)]
    BY <1>1, <1>2, ConcatProperties
  <2>2. a + (b - a) = b
    BY <1>0
  <2> QED
    BY <1>1, <1>2, <2>1, <2>2
<1>5. ASSUME NEW i \in 1 .. b PROVE (x \o y)[i] = z[i]
  <2>1. CASE i <= a
    <3>1. i \in 1 .. a
      BY <1>0, <2>1
    <3> QED
      BY <1>1, <1>3, <1>4, <2>1, <3>1
  <2>2. CASE ~(i <= a)
    <3>1. i - a \in 1 .. b - a /\ a + (i - a) = i
      BY <1>0, <2>2
    <3> QED
      BY <1>2, <1>3, <1>4, <2>2, <3>1
  <2> QED
    BY <2>1, <2>2
<1>6. x \o y = z
  BY <1>3, <1>4, <1>5, SeqEqual
<1> QED
  BY <1>6 DEF x, y, z

\* Where a string has a character of more than one byte, one of two pieces of it
\* has one.
LEMMA WidePiece ==
  ASSUME NEW q \in Seq(Chars), NEW a \in 0 .. Len(q), NEW b \in a .. Len(q)
  PROVE  SomeWide(q, b) <=> SomeWide(q, a) \/ SomeWide(SubSeq(q, a + 1, b), b - a)
<1>0. Len(q) \in Nat
  BY LenProperties
<1>1. \A i \in 1 .. b - a : SubSeq(q, a + 1, b)[i] = q[a + i] /\ a + i \in 1 .. b
  BY <1>0, PieceResult
<1>2. ASSUME NEW i \in 1 .. b, Width[q[i]] # 1
      PROVE  SomeWide(q, a) \/ SomeWide(SubSeq(q, a + 1, b), b - a)
  <2>1. CASE i <= a
    <3>1. i \in 1 .. a
      BY <1>0, <2>1
    <3> QED
      BY <1>2, <3>1 DEF SomeWide
  <2>2. CASE ~(i <= a)
    <3>1. i - a \in 1 .. b - a /\ a + (i - a) = i
      BY <1>0, <2>2
    <3> QED
      BY <1>1, <1>2, <3>1 DEF SomeWide
  <2> QED
    BY <2>1, <2>2
<1>3. \A i \in 1 .. a : i \in 1 .. b
  BY <1>0
<1> QED
  BY <1>1, <1>2, <1>3 DEF SomeWide

\* What the invariant says of places in the text.
LEMMA TextPlaces ==
  ASSUME TextAssumption, TextInv
  PROVE  /\ Original \in Seq(Chars) /\ Len(Original) \in Nat
         /\ Sent \in 0 .. Len(Original) /\ Received \in 0 .. Sent
         /\ Len(text) = Len(Original) - Sent
         /\ carried = Nothing <=> Received = Sent
         /\ carried # Nothing => carried = Serialize(SubSeq(Original, Received + 1, Sent))
<1>1. Original \in Seq(Chars) /\ Len(Original) \in Nat
  BY OpenedResult, LenProperties DEF TextInv, Original
<1>2. Len(text) \in Nat /\ Sent \in Nat /\ Received \in Nat
  BY LenProperties DEF TextInv
<1>3. Sent = Len(Original) - Len(text) /\ Received = Sent - carried.length
  BY DEF Sent, Received
<1>4. CASE carried = Nothing
  <2>1. carried.length = 0
    BY <1>4 DEF Nothing
  <2> QED
    BY <1>1, <1>2, <1>3, <1>4, <2>1
<1>5. CASE carried # Nothing
  <2> DEFINE c == SubSeq(Original, Received + 1, Sent)
  <2>1. carried.length > 0 /\ carried = Serialize(c)
    BY <1>5 DEF TextInv
  <2>2. carried.length = Len(c)
    BY <2>1 DEF Serialize
  <2>3. \A i \in Received + 1 .. Sent : Original[i] \in Chars
    <3>1. \A i \in Received + 1 .. Sent : i \in 1 .. Len(Original)
      BY <1>1, <1>2, <1>3
    <3> QED
      BY <1>1, <3>1, ElementOfSeq
  <2>4. c \in Seq(Chars)
    <3>1. Received + 1 \in Int /\ Sent \in Int
      BY <1>2
    <3> QED
      BY <2>3, <3>1, SubSeqProperties
  <2>5. Len(c) \in Nat
    BY <2>4, LenProperties
  <2> HIDE DEF c
  <2>6. Received < Sent
    BY <1>2, <1>3, <2>1, <2>2, <2>5
  <2> QED
    BY <1>1, <1>2, <1>3, <1>5, <2>1, <2>6 DEF c
<1> QED
  BY <1>4, <1>5

LEMMA TextInitInv ==
  ASSUME TextAssumption, TextInit
  PROVE  TextInv
<1>1. file \in Seq(Chars)
  BY StringsResult DEF TextAssumption, TextInit
<1>2. Original \in Seq(Chars) /\ Len(Original) \in Nat /\ text = Original
  BY <1>1, OpenedResult, LenProperties DEF TextInit, Original
<1>3. carried = Nothing /\ copy = <<>> /\ raised = FALSE
  BY DEF TextInit
<1>4. Sent = 0
  BY <1>2 DEF Sent
<1>5. Received = 0
  BY <1>3, <1>4 DEF Received, Nothing
<1>6. text = SubSeq(Original, Sent + 1, Len(Original))
  <2>1. Sent + 1 = 1
    BY <1>4
  <2> QED
    BY <1>2, <2>1, WholePiece
<1>7. ~SomeWide(Original, Received)
  <2>1. 1 .. 0 = {}
    OBVIOUS
  <2> QED
    BY <1>5, <2>1 DEF SomeWide
<1>8. copy = SubSeq(Original, 1, Received) /\ copy \in Seq(Chars)
  <2>1. SubSeq(Original, 1, 0) = <<>>
    BY SubSeqEmpty
  <2>2. <<>> \in Seq(Chars)
    BY EmptySeq
  <2> QED
    BY <1>3, <1>5, <2>1, <2>2
<1> QED
  BY <1>1, <1>2, <1>3, <1>4, <1>5, <1>6, <1>7, <1>8 DEF TextInv

LEMMA SendChunkInv ==
  ASSUME TextAssumption, TextInv, SendChunk
  PROVE  TextInv'
<1> DEFINE L == Len(Original)
           s == Sent
           k == Shortest(MaxDataLength, Len(text))
           chunk == SubSeq(text, 1, k)
           rest == SubSeq(text, MaxDataLength + 1, Len(text))
<1>1. /\ Original \in Seq(Chars) /\ L \in Nat /\ s \in 0 .. L /\ Received = s
      /\ Len(text) = L - s /\ text \in Seq(Chars)
  BY TextPlaces DEF SendChunk, TextInv
<1>2. /\ text = SubSeq(Original, s + 1, L) /\ text # <<>>
      /\ carried' = Serialize(chunk) /\ text' = rest
      /\ file' = file /\ copy' = copy /\ raised' = raised
  BY DEF TextInv, SendChunk, Read
<1>3. Original' = Original
  BY <1>2 DEF Original
<1>4. Len(text) \in Nat \ {0}
  BY <1>1, <1>2, EmptySeq
<1>5. k \in 1 .. L - s /\ MaxDataLength \in Nat \ {0} /\ k = Shortest(MaxDataLength, L - s)
  BY <1>1, <1>4 DEF TextAssumption, Shortest
<1> HIDE DEF k, L, s
<1>6. chunk = SubSeq(Original, s + 1, s + k)
  <2>1. 0 \in 0 .. L - s /\ k \in 0 .. L - s /\ 0 + 1 = 1 /\ s + 0 = s
    BY <1>1, <1>5
  <2>2. SubSeq(SubSeq(Original, s + 1, L), 0 + 1, k) = SubSeq(Original, (s + 0) + 1, s + k)
    BY <1>1, <2>1, PieceOfPiece DEF L
  <2> QED
    BY <1>2, <2>1, <2>2
<1>7. rest = SubSeq(Original, (s + k) + 1, L) /\ Len(rest) = L - (s + k)
  <2>1. s + k \in 0 .. L /\ L \in s + k .. L
    BY <1>1, <1>5
  <2>2. Len(SubSeq(Original, (s + k) + 1, L)) = L - (s + k)
    BY <1>1, <2>1, PieceResult DEF L
  <2>3. CASE MaxDataLength <= L - s
    <3>1. k = MaxDataLength
      BY <1>5, <2>3 DEF Shortest
    <3>2. k \in 0 .. L - s /\ L - s \in k .. L - s /\ s + (L - s) = L
      BY <1>1, <1>5
    <3>3. SubSeq(SubSeq(Original, s + 1, L), k + 1, L - s) = SubSeq(Original, (s + k) + 1, s + (L - s))
      BY <1>1, <3>2, PieceOfPiece DEF L
    <3>4. rest = SubSeq(Original, (s + k) + 1, L)
      BY <1>1, <1>2, <3>1, <3>2, <3>3
    <3> QED
      BY <2>2, <3>4
  <2>4. CASE ~(MaxDataLength <= L - s)
    <3>1. k = L - s
      BY <1>5, <2>4 DEF Shortest
    <3>2. MaxDataLength + 1 \in Int /\ Len(text) \in Int /\ Len(text) < MaxDataLength + 1
      BY <1>1, <1>5, <2>4
    <3>3. rest = <<>>
      BY <3>2, SubSeqEmpty
    <3>4. L < (s + k) + 1 /\ L \in Int /\ (s + k) + 1 \in Int
      BY <1>1, <1>5, <3>1
    <3>5. SubSeq(Original, (s + k) + 1, L) = <<>>
      BY <3>4, SubSeqEmpty
    <3> QED
      BY <2>2, <3>3, <3>5
  <2> QED
    BY <2>3, <2>4
<1>8. chunk \in Seq(Chars) /\ Len(chunk) = k
  <2>1. s + k \in s .. L /\ (s + k) - s = k
    BY <1>1, <1>5
  <2> QED
    BY <1>1, <1>6, <2>1, PieceResult DEF L
<1>9. rest \in Seq(Chars)
  <2>1. s + k \in 0 .. L /\ L \in s + k .. L
    BY <1>1, <1>5
  <2>2. SubSeq(Original, (s + k) + 1, L) \in Seq(Chars)
    BY <1>1, <2>1, PieceResult DEF L
  <2> QED
    BY <1>7, <2>2
<1> HIDE DEF chunk, rest
<1>10. Sent' = s + k
  <2>1. Sent' = L - Len(rest)
    BY <1>2, <1>3 DEF Sent, L
  <2> QED
    BY <1>1, <1>5, <1>7, <2>1
<1>11. carried'.length = k /\ Received' = s
  <2>1. carried'.length = k
    BY <1>2, <1>8 DEF Serialize
  <2>2. Received' = Sent' - k
    BY <2>1 DEF Received
  <2> QED
    BY <1>1, <1>5, <1>10, <2>1, <2>2
<1>12. Sent' \in Nat /\ Received' \in Nat /\ Received' = Received
  BY <1>1, <1>5, <1>10, <1>11
<1>13. carried'.length > 0 /\ carried' = Serialize(SubSeq(Original, Received + 1, Sent)')
  BY <1>1, <1>2, <1>3, <1>5, <1>6, <1>10, <1>11
<1>14. text' = SubSeq(Original, Sent + 1, Len(Original))'
  BY <1>2, <1>3, <1>7, <1>10 DEF L
<1>15. file' \in Seq(Chars) /\ text' \in Seq(Chars) /\ copy' \in Seq(Chars) /\ raised' \in BOOLEAN
  BY <1>2, <1>9 DEF TextInv
<1>16. IF SomeWide(Original, Received)'
       THEN (Len(copy) < Received)'
       ELSE (~raised /\ copy = SubSeq(Original, 1, Received))'
  BY <1>2, <1>3, <1>12 DEF TextInv, SomeWide
<1> QED
  BY <1>12, <1>13, <1>14, <1>15, <1>16 DEF TextInv

LEMMA ReceivePacketInv ==
  ASSUME TextAssumption, TextInv, ReceivePacket
  PROVE  TextInv'
<1> DEFINE L == Len(Original)
           r == Received
           s == Sent
           c == SubSeq(Original, r + 1, s)
           d == DataBytes(carried)
<1>1. /\ Original \in Seq(Chars) /\ L \in Nat /\ s \in 0 .. L /\ r \in 0 .. L /\ s \in r .. L /\ r < s
      /\ carried = Serialize(c)
  BY TextPlaces DEF ReceivePacket
<1>2. /\ carried' = Nothing /\ file' = file /\ text' = text
      /\ IF Decodable(d) THEN copy' = copy \o Decode(d) /\ raised' = raised
                         ELSE raised' = TRUE /\ copy' = copy
  BY DEF ReceivePacket
<1>3. copy \in Seq(Chars) /\ Len(copy) \in Nat /\ raised \in BOOLEAN
  BY LenProperties DEF TextInv
<1>4. Original' = Original /\ Sent' = s
  BY <1>2 DEF Original, Sent
<1>5. Received' = s
  BY <1>1, <1>2, <1>4 DEF Received, Nothing
<1> HIDE DEF L, r, s
<1>6. c \in Seq(Chars) /\ Len(c) = s - r /\ c # <<>>
  <2>1. c \in Seq(Chars) /\ Len(c) = s - r
    BY <1>1, PieceResult DEF L
  <2>2. Len(<<>>) = 0 /\ s - r > 0
    BY <1>1
  <2> HIDE DEF c
  <2> QED
    BY <2>1, <2>2
<1>7. SomeWide(Original, s) <=> SomeWide(Original, r) \/ SomeWide(c, Len(c))
  <2>1. SomeWide(Original, s) <=> SomeWide(Original, r) \/ SomeWide(c, s - r)
    BY <1>1, WidePiece DEF L
  <2> QED
    BY <1>6, <2>1
<1> HIDE DEF c
<1>8. /\ ~SomeWide(c, Len(c)) => Decodable(d) /\ Decode(d) = c
      /\ SomeWide(c, Len(c)) /\ Decodable(d) => Decode(d) \in Seq(Chars) /\ Len(Decode(d)) < Len(c)
  BY <1>1, <1>6, ParsedResult
<1> HIDE DEF d
<1>9. ASSUME Decodable(d)
      PROVE  Decode(d) \in Seq(Chars) /\ Len(Decode(d)) \in Nat /\ Len(Decode(d)) <= s - r
  <2>1. CASE SomeWide(c, Len(c))
    <3>1. Decode(d) \in Seq(Chars) /\ Len(Decode(d)) < Len(c)
      BY <1>8, <1>9, <2>1
    <3>2. Len(Decode(d)) \in Nat
      BY <3>1, LenProperties
    <3> QED
      BY <1>1, <1>6, <3>1, <3>2
  <2>2. CASE ~SomeWide(c, Len(c))
    <3>1. Decode(d) = c
      BY <1>8, <2>2
    <3> QED
      BY <1>1, <1>6, <3>1
  <2> QED
    BY <2>1, <2>2
<1>10. copy' \in Seq(Chars) /\ Len(copy') \in Nat /\ raised' \in BOOLEAN
       /\ (Decodable(d) => Len(copy') = Len(copy) + Len(Decode(d)))
  <2>1. CASE Decodable(d)
    <3> DEFINE p == Decode(d)
               q == copy \o p
    <3>1. p \in Seq(Chars) /\ Len(p) \in Nat
      BY <1>9, <2>1
    <3>2. q \in Seq(Chars) /\ Len(q) = Len(copy) + Len(p)
      BY <1>3, <3>1, ConcatProperties
    <3>3. copy' = q /\ raised' = raised
      BY <1>2, <2>1
    <3> HIDE DEF p, q
    <3>4. Len(q) \in Nat
      BY <1>3, <3>1, <3>2
    <3> QED
      BY <1>3, <2>1, <3>2, <3>3, <3>4 DEF p
  <2>2. CASE ~Decodable(d)
    BY <1>2, <1>3, <2>2
  <2> QED
    BY <2>1, <2>2
<1>11. IF SomeWide(Original, s) THEN Len(copy') < s ELSE ~raised' /\ copy' = SubSeq(Original, 1, s)
  <2>1. CASE SomeWide(Original, r)
    <3>1. SomeWide(Original, s) /\ Len(copy) < r
      BY <1>7, <2>1 DEF TextInv, r
    <3>2. CASE Decodable(d)
      BY <1>1, <1>3, <1>9, <1>10, <3>1, <3>2
    <3>3. CASE ~Decodable(d)
      BY <1>1, <1>2, <1>3, <3>1, <3>3
    <3> QED
      BY <3>2, <3>3
  <2>2. CASE ~SomeWide(Original, r)
    <3>1. ~raised /\ copy = SubSeq(Original, 1, r)
      BY <2>2 DEF TextInv, r
    <3>2. Len(copy) = r
      <4>1. 0 \in 0 .. L /\ r \in 0 .. L /\ r - 0 = r /\ 0 + 1 = 1
        BY <1>1
      <4> QED
        BY <1>1, <3>1, <4>1, PieceResult DEF L
    <3>3. CASE SomeWide(c, Len(c))
      <4>1. SomeWide(Original, s)
        BY <1>7, <3>3
      <4>2. CASE Decodable(d)
        BY <1>1, <1>6, <1>8, <1>9, <1>10, <3>2, <3>3, <4>1, <4>2
      <4>3. CASE ~Decodable(d)
        BY <1>1, <1>2, <3>2, <4>1, <4>3
      <4> QED
        BY <4>2, <4>3
    <3>4. CASE ~SomeWide(c, Len(c))
      <4>1. ~SomeWide(Original, s)
        BY <1>7, <2>2, <3>4
      <4>2. copy' = SubSeq(Original, 1, r) \o SubSeq(Original, r + 1, s) /\ ~raised'
        BY <1>2, <1>8, <3>1, <3>4 DEF c
      <4>3. copy' = SubSeq(Original, 1, s)
        BY <1>1, <4>2, JoinPieces DEF L
      <4> QED
        BY <4>1, <4>2, <4>3
    <3> QED
      BY <3>3, <3>4
  <2> QED
    BY <2>1, <2>2
<1>12. Sent' \in Nat /\ Received' \in Nat
  BY <1>1, <1>4, <1>5
<1>13. text' = SubSeq(Original, Sent + 1, Len(Original))' /\ text' \in Seq(Chars) /\ file' \in Seq(Chars)
  BY <1>2, <1>4 DEF TextInv, s
<1>14. IF SomeWide(Original, Received)'
       THEN (Len(copy) < Received)'
       ELSE (~raised /\ copy = SubSeq(Original, 1, Received))'
  BY <1>4, <1>5, <1>11 DEF SomeWide
<1> QED
  BY <1>2, <1>10, <1>12, <1>13, <1>14 DEF TextInv

\* TextInv holds in every state: what the receiver has written is what it was given,
\* until the first character of more than one byte; from then on it is too short.
THEOREM TextInvariance == ASSUME TextAssumption PROVE TextSpec => []TextInv
<1>1. TextInv /\ [TextNext]_textvars => TextInv'
  <2> SUFFICES ASSUME TextInv, [TextNext]_textvars PROVE TextInv'
    OBVIOUS
  <2>1. CASE SendChunk
    BY <2>1, SendChunkInv
  <2>2. CASE ReceivePacket
    BY <2>2, ReceivePacketInv
  <2>3. CASE UNCHANGED textvars
    BY <2>3 DEF textvars, TextInv, Original, Sent, Received, SomeWide
  <2> QED
    BY <2>1, <2>2, <2>3 DEF TextNext
<1> QED
  BY <1>1, TextInitInv, PTL DEF TextSpec

\* When the transfer is over, the copy is the text of the file exactly if every
\* character of it takes one byte.
LEMMA ExactWhenFinished ==
  ASSUME TextAssumption, TextInv, Finished
  PROVE  /\ copy = OpenedAsText(file) <=> SingleByte
         /\ SingleByte => ~raised
<1> DEFINE L == Len(Original)
<1>1. /\ Original \in Seq(Chars) /\ L \in Nat
      /\ Sent \in 0 .. L /\ Received \in 0 .. Sent
      /\ Len(text) = L - Sent
      /\ carried = Nothing <=> Received = Sent
  BY TextPlaces
<1>2. SomeWide(Original, L) <=> ~SingleByte
  <2>1. SomeWide(Original, L) <=> SomeWide(file, Len(file))
    BY OpenedResult DEF TextInv, Original
  <2> QED
    BY <2>1 DEF SomeWide, SingleByte
<1>3. ~raised => Received = L
  <2> SUFFICES ASSUME ~raised PROVE Received = L
    OBVIOUS
  <2>1. text = <<>> /\ carried = Nothing
    BY DEF Finished
  <2>2. Len(text) = 0
    BY <2>1
  <2> QED
    BY <1>1, <2>1, <2>2
<1>4. SomeWide(Original, Received) => SomeWide(Original, L)
  <2>1. \A i \in 1 .. Received : i \in 1 .. L
    BY <1>1
  <2> QED
    BY <2>1 DEF SomeWide
<1>5. CASE SomeWide(Original, L)
  <2>1. SomeWide(Original, Received)
    BY <1>3, <1>5 DEF TextInv
  <2>2. Len(copy) < Received /\ Len(copy) \in Nat
    BY <2>1, LenProperties DEF TextInv
  <2>3. Len(copy) # L
    BY <1>1, <2>2
  <2> QED
    BY <1>2, <1>5, <2>3 DEF Original
<1>6. CASE ~SomeWide(Original, L)
  <2>1. ~raised /\ copy = SubSeq(Original, 1, Received)
    BY <1>4, <1>6 DEF TextInv
  <2>2. copy = Original
    BY <1>1, <1>3, <2>1, WholePiece
  <2> QED
    BY <1>2, <1>6, <2>1, <2>2 DEF Original
<1> QED
  BY <1>5, <1>6, Zenon

\* A file of one-byte characters arrives as it was read, and without CR as it is.
THEOREM PlainTextIsCopied == ASSUME TextAssumption PROVE TextSpec => []PlainTextArrives
<1>1. ASSUME TextInv PROVE PlainTextArrives
  <2>1. SUFFICES ASSUME Finished, SingleByte
                 PROVE  /\ ~raised /\ copy = OpenedAsText(file)
                        /\ (\A i \in 1 .. Len(file) : file[i] # CR) => copy = file
    BY DEF PlainTextArrives
  <2>2. ~raised /\ copy = OpenedAsText(file)
    BY <1>1, <2>1, ExactWhenFinished
  <2>3. file \in Seq(Chars)
    BY <1>1 DEF TextInv
  <2> QED
    BY <2>2, <2>3, OpenedWithoutCR
<1> QED
  BY <1>1, TextInvariance, PTL

\* No other file does: a character of more than one byte always makes the copy differ
\* from the text, whatever else the file holds and wherever its chunks end.
THEOREM ExactOnlyForSingleBytes == ASSUME TextAssumption PROVE
  TextSpec => [](Finished => (copy = OpenedAsText(file) <=> SingleByte))
<1>1. TextInv => (Finished => (copy = OpenedAsText(file) <=> SingleByte))
  BY ExactWhenFinished
<1> QED
  BY <1>1, TextInvariance, PTL
=============================================================================
