------------------------- MODULE SenderThreadsProofs -------------------------
(***************************************************************************)
(* Proofs that the threads of the sender, however they are interleaved,    *)
(* keep the copy a prefix of the file and the window within its size, for  *)
(* every file whose numbers do not wrap around. The invariant is StatementInv *)
(* of SenderThreadsInv; each statement is shown to preserve it.            *)
(***************************************************************************)
EXTENDS SenderThreadsInv, Lemmas

-----------------------------------------------------------------------------
(* Sequence numbers and packets.                                           *)

\* The assumption in the form the lemmas on % ask for.
LEMMA Modulus == SeqModulo \in Nat \ {0} /\ 1 \in Int
BY GbnAssumption

\* The successor of a number is a number.
LEMMA SuccessorType ==
  ASSUME NEW a \in Int
  PROVE  Successor(a) \in SeqNum
BY Modulus, DivisionWithRemainder DEF Successor, SeqNum

\* Below the modulus it is the next one.
LEMMA SuccessorSmall ==
  ASSUME NEW a \in Nat, a + 1 < SeqModulo
  PROVE  Successor(a) = a + 1
<1>1. a + 1 \in 0 .. SeqModulo - 1
  BY Modulus
<1> QED
  BY <1>1, Modulus, RemainderOfSmall DEF Successor

\* A packet that is created of a number carries that number.
LEMMA CreatedPackets ==
  ASSUME NEW s \in SeqNum, NEW d
  PROVE  /\ CreatePacket(s, d) = [type |-> DATA, seq_num |-> s, data |-> d]
         /\ CreateEot(s) = [type |-> EOT, seq_num |-> s, data |-> NoData]
         /\ CreateEot(s) \in Packet
         /\ d \in Chunk => CreatePacket(s, d) \in Packet /\ CreatePacket(s, d) # NoPacket
<1>1. s % SeqModulo = s
  BY Modulus, RemainderOfSmall DEF SeqNum
<1> QED
  BY <1>1, GbnAssumption DEF CreatePacket, CreateEot, MakePacket, Packet, Chunk, NoData, NoPacket

\* The acknowledgement of the first c chunks, also of none.
LEMMA CreatedAck ==
  ASSUME NEW c \in Int
  PROVE  /\ CreateAck(c) \in Packet
         /\ CreateAck(c).type = ACK
         /\ CreateAck(c).seq_num \in SeqNum
         /\ 0 <= c + 1 /\ c + 1 < SeqModulo => Successor(CreateAck(c).seq_num) = c + 1
<1>1. c % SeqModulo \in SeqNum
  BY Modulus, DivisionWithRemainder DEF SeqNum
<1>2. CreateAck(c) = [type |-> ACK, seq_num |-> c % SeqModulo, data |-> NoData]
  BY DEF CreateAck, MakePacket
<1>3. ((c % SeqModulo) + 1) % SeqModulo = (c + 1) % SeqModulo
  BY Modulus, RemainderOfSum, Zenon
<1>4. ASSUME 0 <= c + 1, c + 1 < SeqModulo
      PROVE  Successor(c % SeqModulo) = c + 1
  <2>1. c + 1 \in 0 .. SeqModulo - 1
    BY <1>4, Modulus
  <2> QED
    BY <1>3, <2>1, Modulus, RemainderOfSmall DEF Successor
<1> QED
  BY <1>1, <1>2, <1>4 DEF Packet

-----------------------------------------------------------------------------
(* Queues.                                                                 *)

\* A packet that arrives at the emulator joins the end of the queue or is lost.
LEMMA ForwardResult ==
  ASSUME NEW q \in Seq(Packet), NEW p \in Packet, NEW r \in Forward(q, p)
  PROVE  /\ r \in Seq(Packet)
         /\ Len(q) \in Nat /\ Len(r) \in Nat
         /\ \A i \in 1 .. Len(r) : \/ i \in 1 .. Len(q) /\ r[i] = q[i]
                                   \/ i = Len(q) + 1 /\ r[i] = p
<1>1. CASE r = q
  BY <1>1, LenProperties
<1>2. CASE r = Append(q, p)
  BY <1>2, AppendResult, LenProperties
<1> QED
  BY <1>1, <1>2 DEF Forward

-----------------------------------------------------------------------------
(* Program counters.                                                       *)

\* Every thread is at one of its statements.
PcOK ==
  /\ pc \in [Thread -> UNION {Label[t] : t \in Thread}]
  /\ \A t \in Thread : pc[t] \in Label[t]

\* The three kinds of threads and their statements.
LEMMA Labels ==
  /\ main \in Thread /\ sending \in Thread /\ Timers \subseteq Thread
  /\ main # sending /\ main \notin Timers /\ sending \notin Timers /\ None \notin Timers
  /\ Label[main] = TimerStart \cup {"recv", "compare", "stop", "flag?", "eot", "incr",
                                    "join", "last_stop", "exit", "dead"}
  /\ Label[sending] = TimerStart \cup {"guard1", "guard2", "store", "send", "compare",
                                       "incr", "dead", "exit"}
  /\ \A k \in Timers : Label[k] = TimerStart \cup {"new", "cancelled", "waiting", "start",
                                                   "end", "resend", "dead"}
  /\ \A t \in Thread : t = main \/ t = sending \/ t \in Timers
BY ThreadAssumption DEF Thread, Label

\* A thread goes on at another of its statements, the others stay where they are.
LEMMA GotoResult ==
  ASSUME PcOK, NEW t \in Thread, NEW l \in Label[t], pc' = [pc EXCEPT ![t] = l]
  PROVE  PcOK' /\ pc'[t] = l /\ \A u \in Thread : u # t => pc'[u] = pc[u]
<1>1. l \in UNION {Label[u] : u \in Thread}
  OBVIOUS
<1> HIDE DEF Label
<1> QED
  BY <1>1 DEF PcOK

\* A thread goes on, and a Timer object changes.
LEMMA GotoTimerResult ==
  ASSUME PcOK, NEW t \in Thread, NEW l \in Label[t], NEW k \in Timers, k # t, NEW m \in Label[k],
         pc' = [pc EXCEPT ![t] = l, ![k] = m]
  PROVE  PcOK' /\ pc'[t] = l /\ pc'[k] = m /\ \A u \in Thread : u # t /\ u # k => pc'[u] = pc[u]
<1>1. k \in Thread
  BY Labels
<1>2. l \in UNION {Label[u] : u \in Thread} /\ m \in UNION {Label[u] : u \in Thread}
  BY <1>1
<1> QED
  BY <1>1, <1>2 DEF PcOK

-----------------------------------------------------------------------------
(* Statements that change no number, slot, flag or queue.                  *)

\* A thread that goes on without a change that others can see, but for timer and
\* burst, keeps the invariant if where it goes is allowed there.
LEMMA QuietStep ==
  ASSUME StatementInv,
         UNCHANGED <<netvars, rcvvars, base, nextseqnum, sndpkt, should_send_eot, offset>>,
         PcOK', timer' \in Timers \cup {None}, burst' \in [Timers -> Seq(SeqNum)],
         ControlInv', Stored' = Stored,
         pc'[sending] = "send" => pc[sending] = "send",
         NumChunks < SeqModulo =>
           /\ pc'[sending] = "store" => pc[sending] = "store" \/ offset < base + WindowSize
           /\ pc'[main] \in {"stop", "flag?", "eot", "incr"} => base # 0 /\ ~EotCounted
           /\ pc'[main] = "compare" => pc[main] = "compare"
  PROVE  StatementInv'
<1>1. TypeOK'
  BY DEF StatementInv, TypeOK, NetworkTypeOK, PcOK, netvars, rcvvars
<1>2. DataInv'
  BY DEF StatementInv, DataInv, netvars
<1>3. ASSUME NumChunks < SeqModulo
      PROVE  (CountInv /\ SlotInv /\ ForwardsInv /\ BackwardsInv /\ InOrderPrefix)'
  <2>1. CountInv /\ SlotInv /\ ForwardsInv /\ BackwardsInv /\ InOrderPrefix
    BY <1>3 DEF StatementInv
  <2>2. CountInv'
    BY <1>3, <2>1 DEF CountInv, EotCounted, rcvvars
  <2>3. SlotInv' /\ ForwardsInv' /\ BackwardsInv' /\ InOrderPrefix'
    BY <2>1 DEF SlotInv, ForwardsInv, BackwardsInv, InOrderPrefix, rcvvars, netvars
  <2> QED
    BY <2>2, <2>3
<1> QED
  BY <1>1, <1>2, <1>3 DEF StatementInv

\* What of the invariant the statements of timer_start depend on.
LEMMA StatementInvPc ==
  ASSUME StatementInv
  PROVE  /\ PcOK /\ ControlInv
         /\ timer \in Timers \cup {None}
         /\ burst \in [Timers -> Seq(SeqNum)]
BY DEF StatementInv, TypeOK, PcOK

LEMMA TimerCheckInv ==
  ASSUME StatementInv, NEW t \in Thread, TimerCheck(t)
  PROVE  StatementInv'
<1> DEFINE l == IF timer = None THEN "timer_new" ELSE "timer_cancel"
<1>1. l \in Label[t]
  BY Labels DEF TimerStart
<1>2. /\ PcOK' /\ pc'[t] = l /\ \A u \in Thread : u # t => pc'[u] = pc[u]
      /\ pc[t] = "timer_check" /\ UNCHANGED <<timer, burst>>
      /\ UNCHANGED <<netvars, rcvvars, base, nextseqnum, sndpkt, should_send_eot, offset>>
  BY <1>1, StatementInvPc, GotoResult DEF TimerCheck, Goto
<1>3. ControlInv'
  BY <1>2, StatementInvPc, Labels DEF ControlInv
<1>4. Stored' = Stored
  BY <1>2, Labels DEF Stored, TimerStart
<1>5. NumChunks < SeqModulo =>
           /\ pc'[sending] = "store" => pc[sending] = "store"
           /\ pc'[main] \in {"stop", "flag?", "eot", "incr"} => base # 0 /\ ~EotCounted
           /\ pc'[main] = "compare" => pc[main] = "compare"
  BY <1>2, Labels DEF StatementInv, CountInv
<1>6. pc'[sending] = "send" => pc[sending] = "send"
  BY <1>2, Labels
<1> QED
  BY <1>2, <1>3, <1>4, <1>5, <1>6, StatementInvPc, QuietStep

LEMMA TimerCancelInv ==
  ASSUME StatementInv, NEW t \in Thread, TimerCancel(t)
  PROVE  StatementInv'
<1>1. /\ pc[t] = "timer_cancel" /\ timer \in Timers /\ UNCHANGED <<timer, burst>>
      /\ UNCHANGED <<netvars, rcvvars, base, nextseqnum, sndpkt, should_send_eot, offset>>
      /\ pc' = [pc EXCEPT ![t] = "timer_new", ![timer] = Cancelled(@)]
  BY StatementInvPc DEF TimerCancel, ControlInv
<1>2. /\ PcOK' /\ pc'[t] = "timer_new"
      /\ \A u \in Thread \ {t} : pc'[u] = IF u = timer THEN Cancelled(pc[u]) ELSE pc[u]
  <2>1. "timer_new" \in Label[t]
    BY Labels DEF TimerStart
  <2>2. CASE timer = t
    <3>1. pc' = [pc EXCEPT ![t] = "timer_new"]
      BY <1>1, <2>2, StatementInvPc DEF Cancelled, PcOK
    <3> QED
      BY <2>1, <2>2, <3>1, StatementInvPc, GotoResult
  <2>3. CASE timer # t
    <3>1. timer \in Thread /\ pc[timer] \in Label[timer]
      BY <1>1, StatementInvPc, Labels DEF PcOK
    <3>2. Cancelled(pc[timer]) \in Label[timer]
      BY <1>1, <3>1, Labels DEF Cancelled
    <3>3. pc' = [pc EXCEPT ![t] = "timer_new", ![timer] = Cancelled(pc[timer])]
      BY <1>1, <2>3, <3>1, StatementInvPc DEF PcOK
    <3> DEFINE m == Cancelled(pc[timer])
    <3>4. m \in Label[timer] /\ pc' = [pc EXCEPT ![t] = "timer_new", ![timer] = m]
      BY <3>2, <3>3
    <3> HIDE DEF m
    <3>5. /\ PcOK' /\ pc'[t] = "timer_new" /\ pc'[timer] = m
          /\ \A u \in Thread : u # t /\ u # timer => pc'[u] = pc[u]
      <4>1. PcOK /\ timer \in Timers
        BY <1>1, StatementInvPc
      <4> QED
        BY <2>1, <2>3, <3>4, <4>1, GotoTimerResult, ZenonT(30)
    <3> QED
      BY <3>5 DEF m
  <2> QED
    BY <2>2, <2>3
<1>3. \A u \in Thread \ {t} : pc'[u] # pc[u] => u \in Timers /\ pc'[u] \in {"cancelled", "dead"}
  BY <1>1, <1>2 DEF Cancelled
<1>4. ControlInv'
  BY <1>1, <1>2, <1>3, StatementInvPc, Labels DEF ControlInv
<1>5. Stored' = Stored
  BY <1>1, <1>2, <1>3, Labels DEF Stored, TimerStart
<1>6. /\ NumChunks < SeqModulo =>
           /\ pc'[sending] = "store" => pc[sending] = "store"
           /\ pc'[main] \in {"stop", "flag?", "eot", "incr"} => base # 0 /\ ~EotCounted
           /\ pc'[main] = "compare" => pc[main] = "compare"
      /\ pc'[sending] = "send" => pc[sending] = "send"
  BY <1>1, <1>2, <1>3, Labels DEF StatementInv, CountInv
<1> QED
  BY <1>1, <1>2, <1>4, <1>5, <1>6, StatementInvPc, QuietStep

LEMMA TimerNewInv ==
  ASSUME StatementInv, NEW t \in Thread, TimerNew(t)
  PROVE  StatementInv'
<1>1. PICK k \in Timers : /\ Unused(k) /\ timer' = k
                          /\ pc' = [pc EXCEPT ![t] = "timer_run", ![k] = "new"]
  BY DEF TimerNew
<1>2. /\ pc[t] = "timer_new" /\ UNCHANGED burst
      /\ UNCHANGED <<netvars, rcvvars, base, nextseqnum, sndpkt, should_send_eot, offset>>
  BY DEF TimerNew
<1>3. k # t /\ pc[k] \in {"dead", "new", "cancelled"}
  BY <1>1, <1>2 DEF Unused
<1>4. /\ PcOK' /\ pc'[t] = "timer_run" /\ pc'[k] = "new"
      /\ \A u \in Thread : u # t /\ u # k => pc'[u] = pc[u]
  <2>1. "timer_run" \in Label[t] /\ "new" \in Label[k] /\ PcOK
    BY StatementInvPc, Labels DEF TimerStart
  <2> QED
    BY <1>1, <1>3, <2>1, GotoTimerResult, Zenon
<1>5. ControlInv'
  BY <1>1, <1>2, <1>4, StatementInvPc, Labels DEF ControlInv
<1>6. Stored' = Stored
  BY <1>2, <1>4, Labels DEF Stored, TimerStart
<1>7. /\ NumChunks < SeqModulo =>
           /\ pc'[sending] = "store" => pc[sending] = "store"
           /\ pc'[main] \in {"stop", "flag?", "eot", "incr"} => base # 0 /\ ~EotCounted
           /\ pc'[main] = "compare" => pc[main] = "compare"
      /\ pc'[sending] = "send" => pc[sending] = "send"
  BY <1>4, Labels DEF StatementInv, CountInv
<1> QED
  BY <1>1, <1>2, <1>4, <1>5, <1>6, <1>7, StatementInvPc, QuietStep

LEMMA TimerRunInv ==
  ASSUME StatementInv, NEW t \in Thread, TimerRun(t)
  PROVE  StatementInv'
<1>1. /\ pc[t] = "timer_run" /\ timer \in Timers /\ UNCHANGED <<timer, burst>>
      /\ UNCHANGED <<netvars, rcvvars, base, nextseqnum, sndpkt, should_send_eot, offset>>
  BY StatementInvPc DEF TimerRun, ControlInv
<1> DEFINE ended == IF pc[timer] = "new" THEN "waiting" ELSE "dead"
<1>2. /\ AfterTimerStart(t) \in Label[t] /\ "dead" \in Label[t] /\ ended \in Label[timer]
      /\ AfterTimerStart(t) = IF t = main THEN "recv" ELSE IF t = sending THEN "incr" ELSE "start"
  BY <1>1, Labels DEF AfterTimerStart
<1>3. \/ /\ pc[timer] \in {"new", "cancelled"}
         /\ pc' = [pc EXCEPT ![t] = AfterTimerStart(t), ![timer] = ended]
      \/ pc' = [pc EXCEPT ![t] = "dead"]
  BY DEF TimerRun
<1> HIDE DEF ended
<1>4. /\ PcOK' /\ pc'[t] \in {AfterTimerStart(t), "dead"}
      /\ \A u \in Thread : u # t /\ u # timer => pc'[u] = pc[u]
      /\ timer # t => pc'[timer] = pc[timer] \/ pc'[timer] = ended
  <2>1. CASE pc' = [pc EXCEPT ![t] = "dead"]
    BY <1>1, <1>2, <2>1, StatementInvPc, GotoResult, Labels
  <2>2. CASE /\ pc[timer] \in {"new", "cancelled"}
             /\ pc' = [pc EXCEPT ![t] = AfterTimerStart(t), ![timer] = ended]
    <3>1. timer # t /\ PcOK
      BY <1>1, <2>2, StatementInvPc
    <3>2. /\ PcOK' /\ pc'[t] = AfterTimerStart(t) /\ pc'[timer] = ended
          /\ \A u \in Thread : u # t /\ u # timer => pc'[u] = pc[u]
      BY <1>1, <1>2, <2>2, <3>1, GotoTimerResult, Zenon
    <3> QED
      BY <3>2
  <2> QED
    BY <1>3, <2>1, <2>2
<1>5. ControlInv'
  BY <1>1, <1>2, <1>4, StatementInvPc, Labels DEF ControlInv, ended
<1>6. Stored' = Stored
  BY <1>1, <1>2, <1>4, Labels DEF Stored, TimerStart
<1>7. /\ NumChunks < SeqModulo =>
           /\ pc'[sending] = "store" => pc[sending] = "store"
           /\ pc'[main] \in {"stop", "flag?", "eot", "incr"} => base # 0 /\ ~EotCounted
           /\ pc'[main] = "compare" => pc[main] = "compare"
      /\ pc'[sending] = "send" => pc[sending] = "send"
  BY <1>1, <1>2, <1>4, Labels DEF StatementInv, CountInv
<1> QED
  BY <1>1, <1>4, <1>5, <1>6, <1>7, StatementInvPc, QuietStep
-----------------------------------------------------------------------------
(* The threads of the Timer objects.                                       *)

\* A Timer thread that only goes on.
LEMMA TimerGoesOn ==
  ASSUME StatementInv, NEW k \in Timers, NEW l \in Label[k], Goto(k, l),
         l \notin {"timer_cancel", "timer_run"},
         UNCHANGED <<netvars, rcvvars, base, nextseqnum, sndpkt, should_send_eot, timer, offset>>,
         burst' \in [Timers -> Seq(SeqNum)],
         \A j \in Timers : j # k => burst'[j] = burst[j],
         l = "end" => burst'[k] # <<>>
  PROVE  StatementInv'
<1>1. PcOK' /\ pc'[k] = l /\ \A u \in Thread : u # k => pc'[u] = pc[u]
  BY StatementInvPc, GotoResult, Labels DEF Goto
<1>2. ControlInv'
  BY <1>1, StatementInvPc, Labels DEF ControlInv
<1>3. /\ Stored' = Stored
      /\ pc'[sending] = "send" => pc[sending] = "send"
      /\ NumChunks < SeqModulo =>
           /\ pc'[sending] = "store" => pc[sending] = "store"
           /\ pc'[main] \in {"stop", "flag?", "eot", "incr"} => base # 0 /\ ~EotCounted
           /\ pc'[main] = "compare" => pc[main] = "compare"
  BY <1>1, Labels DEF Stored, StatementInv, CountInv
<1> QED
  BY <1>1, <1>2, <1>3, StatementInvPc, QuietStep

LEMMA TimerFiresInv ==
  ASSUME StatementInv, NEW k \in Timers, TimerFires(k)
  PROVE  StatementInv'
<1>1. "timer_check" \in Label[k]
  BY Labels DEF TimerStart
<1> QED
  BY <1>1, StatementInvPc, TimerGoesOn DEF TimerFires

LEMMA UnackedStartInv ==
  ASSUME StatementInv, NEW k \in Timers, UnackedStart(k)
  PROVE  StatementInv'
<1>1. "end" \in Label[k] /\ base \in SeqNum /\ burst \in [Timers -> Seq(SeqNum)]
  BY Labels, StatementInvPc DEF StatementInv, TypeOK
<1>2. <<base>> \in Seq(SeqNum) /\ <<base>> # <<>>
  BY <1>1
<1>3. burst' = [burst EXCEPT ![k] = <<base>>]
  BY DEF UnackedStart
<1>4. /\ burst' \in [Timers -> Seq(SeqNum)] /\ burst'[k] # <<>>
      /\ \A j \in Timers : j # k => burst'[j] = burst[j]
  BY <1>1, <1>2, <1>3
<1> QED
  BY <1>1, <1>4, TimerGoesOn DEF UnackedStart

LEMMA UnackedEndInv ==
  ASSUME StatementInv, NEW k \in Timers, UnackedEnd(k)
  PROVE  StatementInv'
<1> DEFINE start == Head(burst[k])
           len == (nextseqnum - start) % SeqModulo
           slots == [i \in 1 .. len |-> (start + i - 1) % SeqModulo]
<1>1. "resend" \in Label[k] /\ nextseqnum \in SeqNum /\ burst \in [Timers -> Seq(SeqNum)]
  BY Labels, StatementInvPc DEF StatementInv, TypeOK
<1>2. burst[k] # <<>> /\ burst[k] \in Seq(SeqNum)
  BY <1>1, StatementInvPc DEF UnackedEnd, ControlInv
<1>3. start \in SeqNum
  BY <1>2, TailResult
<1>4. start \in Int /\ nextseqnum - start \in Int
  BY <1>1, <1>3 DEF SeqNum
<1>5. burst' = [burst EXCEPT ![k] = slots]
  BY DEF UnackedEnd
<1>6. len \in Nat
  BY <1>4, Modulus, DivisionWithRemainder
<1> HIDE DEF start, len
<1>7. slots \in Seq(SeqNum)
  <2>1. ASSUME NEW i \in 1 .. len PROVE (start + i - 1) % SeqModulo \in SeqNum
    <3>1. start + i - 1 \in Int
      BY <1>4, <1>6
    <3> QED
      BY <3>1, Modulus, DivisionWithRemainder DEF SeqNum
  <2> QED
    BY <1>6, <2>1, IsASeq
<1> HIDE DEF slots
<1>8. /\ burst' \in [Timers -> Seq(SeqNum)]
      /\ \A j \in Timers : j # k => burst'[j] = burst[j]
  BY <1>1, <1>5, <1>7
<1> QED
  BY <1>1, <1>8, TimerGoesOn DEF UnackedEnd

LEMMA ResendEndInv ==
  ASSUME StatementInv, NEW k \in Timers, ResendEnd(k)
  PROVE  StatementInv'
<1>1. "dead" \in Label[k]
  BY Labels
<1> QED
  BY <1>1, StatementInvPc, TimerGoesOn DEF ResendEnd

-----------------------------------------------------------------------------
(* The sending thread.                                                     *)

\* While the sending thread works on a chunk the EOT is not yet counted.
LEMMA BeforeEot ==
  ASSUME StatementInv, NumChunks < SeqModulo, pc[sending] # "exit"
  PROVE  ~should_send_eot /\ ~EotCounted /\ nextseqnum = offset
BY DEF StatementInv, ControlInv, CountInv, EotCounted

\* The sending thread goes on and changes nothing else.
LEMMA SendingGoesOn ==
  ASSUME StatementInv, NEW l \in Label[sending], Goto(sending, l),
         l \notin {"timer_cancel", "timer_run", "send", "exit"}, pc[sending] # "exit",
         l # "guard1" => offset < NumChunks,
         UNCHANGED <<netvars, rcvvars, base, nextseqnum, sndpkt, should_send_eot, timer, offset,
                     burst>>,
         l = "store" => WindowRoom,
         (pc[sending] \in {"send", "compare", "incr", "dead"} \cup TimerStart)
           <=> (l \in {"send", "compare", "incr", "dead"} \cup TimerStart)
  PROVE  StatementInv'
<1>1. PcOK' /\ pc'[sending] = l /\ \A u \in Thread : u # sending => pc'[u] = pc[u]
  BY StatementInvPc, GotoResult, Labels DEF Goto
<1>2. ControlInv'
  BY <1>1, StatementInvPc, Labels DEF ControlInv
<1>3. Stored' = Stored
  BY <1>1 DEF Stored
<1>4. NumChunks < SeqModulo /\ l = "store" => offset < base + WindowSize
  BY BeforeEot DEF WindowRoom
<1>5. /\ pc'[sending] = "send" => pc[sending] = "send"
      /\ NumChunks < SeqModulo =>
           /\ pc'[main] \in {"stop", "flag?", "eot", "incr"} => base # 0 /\ ~EotCounted
           /\ pc'[main] = "compare" => pc[main] = "compare"
  BY <1>1, Labels DEF StatementInv, CountInv
<1> QED
  BY <1>1, <1>2, <1>3, <1>4, <1>5, StatementInvPc, QuietStep

LEMMA Guard1Inv ==
  ASSUME StatementInv, Guard1
  PROVE  StatementInv'
<1>1. "guard2" \in Label[sending]
  BY Labels
<1> QED
  BY <1>1, SendingGoesOn DEF Guard1, TimerStart

LEMMA Guard2Inv ==
  ASSUME StatementInv, Guard2
  PROVE  StatementInv'
<1> DEFINE l == IF WindowRoom THEN "store" ELSE "guard1"
<1>1. l \in Label[sending] /\ Goto(sending, l) /\ pc[sending] = "guard2" /\ l \in {"store", "guard1"}
  BY Labels DEF Guard2
<1>2. l = "store" => WindowRoom
  OBVIOUS
<1> HIDE DEF l
<1>3. offset < NumChunks
  BY <1>1, StatementInvPc DEF ControlInv
<1> QED
  BY <1>1, <1>2, <1>3, SendingGoesOn DEF Guard2, TimerStart

LEMMA SendCompareInv ==
  ASSUME StatementInv, SendCompare
  PROVE  StatementInv'
<1> DEFINE l == IF base = nextseqnum THEN "timer_check" ELSE "incr"
<1>1. /\ l \in Label[sending] /\ Goto(sending, l) /\ pc[sending] = "compare"
      /\ l \in {"timer_check", "incr"}
  BY Labels DEF SendCompare, TimerStart
<1> HIDE DEF l
<1>2. offset < NumChunks
  BY <1>1, StatementInvPc DEF ControlInv
<1> QED
  BY <1>1, <1>2, SendingGoesOn DEF SendCompare, TimerStart

\* The chunks stored are those counted and perhaps one more.
LEMMA StoredType ==
  ASSUME StatementInv
  PROVE  /\ offset \in 0 .. NumChunks /\ Stored \in 0 .. NumChunks
         /\ Stored = offset \/ Stored = offset + 1
<1>1. offset \in 0 .. NumChunks /\ NumChunks \in Nat
  BY GbnAssumption DEF StatementInv, TypeOK
<1>2. Stored = offset + 1 => offset < NumChunks
  BY <1>1, StatementInvPc DEF Stored, ControlInv, TimerStart
<1>3. Stored = offset \/ Stored = offset + 1
  BY DEF Stored
<1> QED
  BY <1>1, <1>2, <1>3

\* A packet with a chunk joins the queue.
LEMMA DataSent ==
  ASSUME fwd \in Seq(Packet), NEW p \in Packet, fwd' \in Forward(fwd, p),
         p.type = DATA => p.data \in Chunk,
         \A i \in 1 .. Len(fwd) : fwd[i].type = DATA => fwd[i].data \in Chunk
  PROVE  /\ fwd' \in Seq(Packet)
         /\ \A i \in 1 .. Len(fwd') : fwd'[i].type = DATA => fwd'[i].data \in Chunk
<1>1. \A i \in 1 .. Len(fwd') : fwd'[i] = p \/ (i \in 1 .. Len(fwd) /\ fwd'[i] = fwd[i])
  BY ForwardResult
<1> QED
  BY <1>1, ForwardResult

\* ... one that has been stored.
LEMMA StoredSent ==
  ASSUME ForwardsInv, fwd \in Seq(Packet), NEW p \in Packet, fwd' \in Forward(fwd, p),
         Stored \in Nat, Stored' \in Nat, Stored <= Stored',
         p.type = DATA => p.data = p.seq_num + 1 /\ p.data <= Stored'
  PROVE  ForwardsInv'
<1>1. \A i \in 1 .. Len(fwd') : fwd'[i] = p \/ (i \in 1 .. Len(fwd) /\ fwd'[i] = fwd[i])
  BY ForwardResult
<1>2. \A i \in 1 .. Len(fwd) : fwd[i].seq_num \in Nat
  <2>1. \A i \in 1 .. Len(fwd) : fwd[i] \in Packet
    BY ElementOfSeq
  <2> QED
    BY <2>1, GbnAssumption DEF Packet, SeqNum
<1>3. ASSUME NEW i \in 1 .. Len(fwd'), fwd'[i].type = DATA
      PROVE  fwd'[i].data = fwd'[i].seq_num + 1 /\ fwd'[i].data <= Stored'
  <2>1. CASE fwd'[i] = p
    BY <1>3, <2>1
  <2>2. CASE i \in 1 .. Len(fwd) /\ fwd'[i] = fwd[i]
    <3>1. fwd[i].data = fwd[i].seq_num + 1 /\ fwd[i].data <= Stored /\ fwd[i].seq_num \in Nat
      BY <1>2, <1>3, <2>2 DEF ForwardsInv
    <3>2. fwd[i].data <= Stored'
      BY <3>1
    <3> QED
      BY <2>2, <3>1, <3>2
  <2> QED
    BY <1>1, <2>1, <2>2
<1> QED
  BY <1>3 DEF ForwardsInv

LEMMA StoreInv ==
  ASSUME StatementInv, Store
  PROVE  StatementInv'
<1> DEFINE p == CreatePacket(nextseqnum, offset + 1)
<1>1. /\ pc[sending] = "store" /\ sndpkt' = [sndpkt EXCEPT ![nextseqnum] = p]
      /\ UNCHANGED <<netvars, rcvvars, base, nextseqnum, should_send_eot, timer, offset, burst>>
      /\ pc' = [pc EXCEPT ![sending] = "send"]
  BY DEF Store, Goto
<1>2. PcOK' /\ pc'[sending] = "send" /\ \A u \in Thread : u # sending => pc'[u] = pc[u]
  BY <1>1, StatementInvPc, GotoResult, Labels
<1>3. /\ offset < NumChunks /\ offset \in Nat /\ nextseqnum \in SeqNum
      /\ sndpkt \in [SeqNum -> Packet]
  BY <1>1, StatementInvPc, StoredType DEF ControlInv, StatementInv, TypeOK
<1>4. offset + 1 \in Chunk
  BY <1>3, GbnAssumption DEF Chunk
<1>5. p \in Packet /\ p.type = DATA /\ p.seq_num = nextseqnum /\ p.data = offset + 1 /\ p.data \in Chunk
  BY <1>3, <1>4, CreatedPackets
<1>6. Stored = offset /\ Stored' = offset + 1
  BY <1>1, <1>2 DEF Stored, TimerStart, rcvvars
<1> HIDE DEF p
<1>7. /\ sndpkt' \in [SeqNum -> Packet] /\ sndpkt'[nextseqnum] = p
      /\ \A s \in SeqNum : s # nextseqnum => sndpkt'[s] = sndpkt[s]
  BY <1>1, <1>3, <1>5
<1>8. TypeOK'
  BY <1>1, <1>2, <1>7 DEF StatementInv, TypeOK, NetworkTypeOK, PcOK, netvars, rcvvars
<1>9. ControlInv'
  BY <1>1, <1>2, <1>3, StatementInvPc, Labels DEF ControlInv
<1>10. DataInv'
  BY <1>1, <1>5, <1>7 DEF StatementInv, DataInv, netvars
<1>11. ASSUME NumChunks < SeqModulo
       PROVE  (CountInv /\ SlotInv /\ ForwardsInv /\ BackwardsInv /\ InOrderPrefix)'
  <2>1. CountInv /\ SlotInv /\ ForwardsInv /\ BackwardsInv /\ InOrderPrefix
    BY <1>11 DEF StatementInv
  <2>2. nextseqnum = offset /\ ~EotCounted
    BY <1>1, <1>11, BeforeEot
  <2>3. base \in Nat /\ Len(out) \in Nat
    BY LenProperties, GbnAssumption DEF StatementInv, TypeOK, NetworkTypeOK, SeqNum
  <2>4. CountInv'
    BY <1>1, <1>2, <1>3, <1>6, <2>1, <2>2, <2>3, Labels, GbnAssumption
    DEF CountInv, EotCounted, rcvvars
  <2>5. SlotInv'
    <3>1. ASSUME NEW s \in SeqNum
          PROVE  sndpkt'[s] = IF s < offset + 1 THEN CreatePacket(s, s + 1) ELSE NoPacket
      <4>1. CASE s = offset
        BY <1>3, <1>7, <2>2, <4>1 DEF p
      <4>2. CASE s # offset
        <5>1. sndpkt'[s] = IF s < offset THEN CreatePacket(s, s + 1) ELSE NoPacket
          BY <1>6, <1>7, <2>1, <2>2, <4>2 DEF SlotInv
        <5>2. s < offset <=> s < offset + 1
          BY <1>3, <4>2 DEF SeqNum
        <5> QED
          BY <5>1, <5>2
      <4> QED
        BY <4>1, <4>2
    <3> QED
      BY <1>6, <3>1 DEF SlotInv
  <2>6. ForwardsInv'
    <3>1. ASSUME NEW i \in 1 .. Len(fwd), fwd[i].type = DATA
          PROVE  fwd[i].data = fwd[i].seq_num + 1 /\ fwd[i].data <= offset + 1
      <4>1. fwd[i].data = fwd[i].seq_num + 1 /\ fwd[i].data <= offset /\ fwd[i].data \in Nat
        BY <1>6, <2>1, <3>1 DEF ForwardsInv, StatementInv, DataInv, Chunk
      <4> QED
        BY <1>3, <4>1
    <3> QED
      BY <1>1, <1>6, <3>1 DEF ForwardsInv, netvars
  <2>7. BackwardsInv' /\ InOrderPrefix'
    BY <1>1, <2>1 DEF BackwardsInv, InOrderPrefix, netvars, rcvvars
  <2> QED
    BY <2>4, <2>5, <2>6, <2>7
<1> QED
  BY <1>8, <1>9, <1>10, <1>11 DEF StatementInv

\* The chunks of the window as they are sent.
LEMMA SendInv ==
  ASSUME StatementInv, Send
  PROVE  StatementInv'
<1> DEFINE p == sndpkt[nextseqnum]
<1>1. /\ pc[sending] = "send" /\ fwd' \in Forward(fwd, p)
      /\ UNCHANGED <<bwd, rcvvars, base, nextseqnum, sndpkt, should_send_eot, timer, offset, burst>>
      /\ pc' = [pc EXCEPT ![sending] = "compare"]
  BY DEF Send, Goto
<1>2. PcOK' /\ pc'[sending] = "compare" /\ \A u \in Thread : u # sending => pc'[u] = pc[u]
  BY <1>1, StatementInvPc, GotoResult, Labels
<1>3. /\ offset < NumChunks /\ offset \in Nat /\ nextseqnum \in SeqNum
      /\ sndpkt \in [SeqNum -> Packet] /\ fwd \in Seq(Packet)
  BY <1>1, StatementInvPc, StoredType DEF ControlInv, StatementInv, TypeOK, NetworkTypeOK
<1>4. p \in Packet /\ p.data \in Chunk
  BY <1>1, <1>3 DEF StatementInv, DataInv
<1>5. Stored = offset + 1 /\ Stored' = offset + 1
  BY <1>1, <1>2 DEF Stored, rcvvars
<1> HIDE DEF p
<1>6. /\ fwd' \in Seq(Packet)
      /\ \A i \in 1 .. Len(fwd') : fwd'[i].type = DATA => fwd'[i].data \in Chunk
  BY <1>1, <1>3, <1>4, DataSent DEF StatementInv, DataInv
<1>7. TypeOK'
  BY <1>1, <1>2, <1>6 DEF StatementInv, TypeOK, NetworkTypeOK, PcOK, rcvvars
<1>8. ControlInv'
  BY <1>1, <1>2, <1>3, StatementInvPc, Labels DEF ControlInv
<1>9. DataInv'
  BY <1>1, <1>2, <1>6 DEF StatementInv, DataInv
<1>10. ASSUME NumChunks < SeqModulo
       PROVE  (CountInv /\ SlotInv /\ ForwardsInv /\ BackwardsInv /\ InOrderPrefix)'
  <2>1. CountInv /\ SlotInv /\ ForwardsInv /\ BackwardsInv /\ InOrderPrefix
    BY <1>10 DEF StatementInv
  <2>2. nextseqnum = offset /\ ~EotCounted
    BY <1>1, <1>10, BeforeEot
  <2>3. p.data = p.seq_num + 1 /\ p.data <= offset + 1
    <3>1. offset \in SeqNum /\ offset < offset + 1
      BY <1>3, <2>2
    <3>2. p = CreatePacket(offset, offset + 1)
      BY <1>5, <2>1, <2>2, <3>1 DEF SlotInv, p
    <3> QED
      BY <1>3, <3>1, <3>2, CreatedPackets
  <2>4. CountInv' /\ SlotInv' /\ BackwardsInv' /\ InOrderPrefix'
    BY <1>1, <1>2, <1>5, <2>1, <2>2, Labels
    DEF CountInv, EotCounted, SlotInv, BackwardsInv, InOrderPrefix, rcvvars
  <2>5. ForwardsInv'
    BY <1>1, <1>3, <1>4, <1>5, <2>1, <2>3, StoredSent
  <2> QED
    BY <2>4, <2>5
<1> QED
  BY <1>7, <1>8, <1>9, <1>10 DEF StatementInv

LEMMA SendIncrInv ==
  ASSUME StatementInv, SendIncr
  PROVE  StatementInv'
<1>1. /\ pc[sending] = "incr" /\ nextseqnum' = Successor(nextseqnum) /\ offset' = offset + 1
      /\ UNCHANGED <<netvars, rcvvars, base, sndpkt, should_send_eot, timer, burst>>
      /\ pc' = [pc EXCEPT ![sending] = "guard1"]
  BY DEF SendIncr, Goto
<1>2. PcOK' /\ pc'[sending] = "guard1" /\ \A u \in Thread : u # sending => pc'[u] = pc[u]
  BY <1>1, StatementInvPc, GotoResult, Labels
<1>3. offset < NumChunks /\ offset \in Nat /\ nextseqnum \in Int
  BY <1>1, StatementInvPc, StoredType DEF ControlInv, StatementInv, TypeOK, SeqNum
<1>4. Stored = offset + 1 /\ Stored' = offset + 1
  BY <1>1, <1>2 DEF Stored, TimerStart, rcvvars
<1>5. nextseqnum' \in SeqNum /\ offset' \in 0 .. NumChunks
  BY <1>1, <1>3, SuccessorType, GbnAssumption
<1>6. TypeOK'
  BY <1>1, <1>2, <1>5 DEF StatementInv, TypeOK, NetworkTypeOK, PcOK, netvars, rcvvars
<1>7. ControlInv'
  BY <1>1, <1>2, <1>3, StatementInvPc, Labels DEF ControlInv
<1>8. DataInv'
  BY <1>1, <1>2 DEF StatementInv, DataInv, netvars
<1>9. ASSUME NumChunks < SeqModulo
      PROVE  (CountInv /\ SlotInv /\ ForwardsInv /\ BackwardsInv /\ InOrderPrefix)'
  <2>1. CountInv /\ SlotInv /\ ForwardsInv /\ BackwardsInv /\ InOrderPrefix
    BY <1>9 DEF StatementInv
  <2>2. nextseqnum = offset /\ ~EotCounted
    BY <1>1, <1>9, BeforeEot
  <2>3. nextseqnum' = offset + 1
    BY <1>1, <1>3, <1>9, <2>2, SuccessorSmall, GbnAssumption
  <2>4. CountInv'
    BY <1>1, <1>2, <1>3, <1>4, <2>1, <2>2, <2>3, Labels DEF CountInv, EotCounted, rcvvars
  <2>5. SlotInv' /\ ForwardsInv' /\ InOrderPrefix'
    BY <1>1, <1>4, <2>1 DEF SlotInv, ForwardsInv, InOrderPrefix, netvars, rcvvars
  <2>6. BackwardsInv'
    BY <1>1, <1>3, <2>1 DEF BackwardsInv, netvars, rcvvars
  <2> QED
    BY <2>4, <2>5, <2>6
<1> QED
  BY <1>6, <1>7, <1>8, <1>9 DEF StatementInv

LEMMA SetShouldSendEotInv ==
  ASSUME StatementInv, SetShouldSendEot
  PROVE  StatementInv'
<1>1. /\ pc[sending] = "guard1" /\ offset = NumChunks /\ should_send_eot' = TRUE
      /\ UNCHANGED <<netvars, rcvvars, base, nextseqnum, sndpkt, timer, offset, burst>>
      /\ pc' = [pc EXCEPT ![sending] = "exit"]
  BY DEF SetShouldSendEot, Goto
<1>2. PcOK' /\ pc'[sending] = "exit" /\ \A u \in Thread : u # sending => pc'[u] = pc[u]
  BY <1>1, StatementInvPc, GotoResult, Labels
<1>3. Stored' = Stored
  BY <1>1, <1>2 DEF Stored, TimerStart
<1>4. TypeOK'
  BY <1>1, <1>2 DEF StatementInv, TypeOK, NetworkTypeOK, PcOK, netvars, rcvvars
<1>5. ControlInv'
  BY <1>1, <1>2, StatementInvPc, Labels DEF ControlInv
<1>6. DataInv'
  BY <1>1, <1>2 DEF StatementInv, DataInv, netvars
<1>7. ASSUME NumChunks < SeqModulo
      PROVE  (CountInv /\ SlotInv /\ ForwardsInv /\ BackwardsInv /\ InOrderPrefix)'
  <2>1. CountInv /\ SlotInv /\ ForwardsInv /\ BackwardsInv /\ InOrderPrefix
    BY <1>7 DEF StatementInv
  <2>2. CountInv'
    BY <1>1, <1>2, <1>3, <2>1, Labels DEF CountInv, EotCounted, rcvvars
  <2>3. SlotInv' /\ ForwardsInv' /\ BackwardsInv' /\ InOrderPrefix'
    BY <1>1, <1>3, <2>1 DEF SlotInv, ForwardsInv, BackwardsInv, InOrderPrefix, netvars, rcvvars
  <2> QED
    BY <2>2, <2>3
<1> QED
  BY <1>4, <1>5, <1>6, <1>7 DEF StatementInv

\* A slot without a packet is skipped, a stored packet is sent once more.
LEMMA ResendInv ==
  ASSUME StatementInv, NEW k \in Timers, Resend(k)
  PROVE  StatementInv'
<1> DEFINE s == Head(burst[k])
           p == sndpkt[s]
           rest == Tail(burst[k])
<1>1. /\ pc[k] = "resend" /\ burst[k] # <<>>
      /\ UNCHANGED <<bwd, rcvvars, base, nextseqnum, sndpkt, should_send_eot, timer, offset>>
  BY DEF Resend
<1>2. PcOK /\ burst \in [Timers -> Seq(SeqNum)] /\ "resend" \in Label[k] /\ "dead" \in Label[k]
  BY StatementInvPc, Labels
<1>3. burst[k] \in Seq(SeqNum)
  BY <1>2
<1>4. s \in SeqNum /\ rest \in Seq(SeqNum)
  BY <1>1, <1>3, TailResult
<1>5. \/ UNCHANGED <<fwd, pc>> /\ burst' = [burst EXCEPT ![k] = rest]
      \/ UNCHANGED fwd /\ Goto(k, "dead") /\ burst' = [burst EXCEPT ![k] = <<>>]
      \/ /\ p # NoPacket /\ fwd' \in Forward(fwd, p) /\ UNCHANGED pc
         /\ burst' = [burst EXCEPT ![k] = rest]
  BY DEF Resend
<1> HIDE DEF s, p, rest
<1>6. CASE UNCHANGED <<fwd, pc>> /\ burst' = [burst EXCEPT ![k] = rest]
  <2>1. Goto(k, "resend")
    BY <1>1, <1>2, <1>6 DEF Goto, PcOK
  <2>2. burst' \in [Timers -> Seq(SeqNum)] /\ \A j \in Timers : j # k => burst'[j] = burst[j]
    BY <1>2, <1>4, <1>6
  <2> QED
    BY <1>1, <1>2, <1>6, <2>1, <2>2, TimerGoesOn DEF netvars
<1>7. CASE UNCHANGED fwd /\ Goto(k, "dead") /\ burst' = [burst EXCEPT ![k] = <<>>]
  <2>1. burst' \in [Timers -> Seq(SeqNum)] /\ \A j \in Timers : j # k => burst'[j] = burst[j]
    <3>1. <<>> \in Seq(SeqNum)
      OBVIOUS
    <3> QED
      BY <1>2, <1>7, <3>1
  <2> QED
    BY <1>1, <1>2, <1>7, <2>1, TimerGoesOn DEF netvars
<1>8. CASE /\ p # NoPacket /\ fwd' \in Forward(fwd, p) /\ UNCHANGED pc
           /\ burst' = [burst EXCEPT ![k] = rest]
  <2>1. fwd \in Seq(Packet) /\ sndpkt \in [SeqNum -> Packet]
    BY DEF StatementInv, TypeOK, NetworkTypeOK
  <2>2. p \in Packet /\ p.type = DATA /\ p.data \in Chunk
    BY <1>4, <1>8, <2>1 DEF p, StatementInv, DataInv
  <2>3. /\ fwd' \in Seq(Packet)
        /\ \A i \in 1 .. Len(fwd') : fwd'[i].type = DATA => fwd'[i].data \in Chunk
    BY <1>8, <2>1, <2>2, DataSent DEF StatementInv, DataInv
  <2>4. burst' \in [Timers -> Seq(SeqNum)] /\ \A j \in Timers : j # k => burst'[j] = burst[j]
    BY <1>2, <1>4, <1>8
  <2>5. TypeOK' /\ PcOK'
    BY <1>1, <1>2, <1>8, <2>3, <2>4 DEF StatementInv, TypeOK, NetworkTypeOK, PcOK, rcvvars
  <2>6. ControlInv'
    BY <1>1, <1>8, <2>4, StatementInvPc DEF ControlInv
  <2>7. DataInv'
    BY <1>1, <1>8, <2>3 DEF StatementInv, DataInv
  <2>8. Stored' = Stored /\ Stored \in Nat
    BY <1>1, <1>8, StoredType DEF Stored
  <2>9. ASSUME NumChunks < SeqModulo
        PROVE  (CountInv /\ SlotInv /\ ForwardsInv /\ BackwardsInv /\ InOrderPrefix)'
    <3>1. CountInv /\ SlotInv /\ ForwardsInv /\ BackwardsInv /\ InOrderPrefix
      BY <2>9 DEF StatementInv
    <3>2. s < Stored /\ p = CreatePacket(s, s + 1)
      BY <1>4, <1>8, <3>1 DEF SlotInv, p
    <3>3. p.data = p.seq_num + 1 /\ p.data <= Stored
      BY <1>4, <2>8, <3>2, CreatedPackets DEF SeqNum
    <3>4. ForwardsInv'
      BY <1>8, <2>1, <2>2, <2>8, <3>1, <3>3, StoredSent
    <3>5. CountInv' /\ SlotInv' /\ BackwardsInv' /\ InOrderPrefix'
      BY <1>1, <1>8, <2>8, <3>1
      DEF CountInv, EotCounted, SlotInv, BackwardsInv, InOrderPrefix, rcvvars
    <3> QED
      BY <3>1, <3>4, <3>5
  <2> QED
    BY <2>5, <2>6, <2>7, <2>9 DEF StatementInv
<1> QED
  BY <1>5, <1>6, <1>7, <1>8

-----------------------------------------------------------------------------
(* The main thread.                                                        *)

\* The main thread goes on and changes nothing else.
LEMMA MainGoesOn ==
  ASSUME StatementInv, NEW l \in Label[main], Goto(main, l),
         l \notin {"timer_cancel", "timer_run", "compare"},
         UNCHANGED <<netvars, rcvvars, base, nextseqnum, sndpkt, should_send_eot, timer, offset,
                     burst>>,
         l \in {"eot", "incr"} => should_send_eot,
         NumChunks < SeqModulo /\ l \in {"stop", "flag?", "eot", "incr"} => base # 0 /\ ~EotCounted
  PROVE  StatementInv'
<1>1. PcOK' /\ pc'[main] = l /\ \A u \in Thread : u # main => pc'[u] = pc[u]
  BY StatementInvPc, GotoResult, Labels DEF Goto
<1>2. ControlInv'
  BY <1>1, StatementInvPc, Labels DEF ControlInv
<1>3. Stored' = Stored
  BY <1>1, Labels DEF Stored
<1>4. pc'[sending] = pc[sending]
  BY <1>1, Labels
<1> QED
  BY <1>1, <1>2, <1>3, <1>4, StatementInvPc, QuietStep

\* The main thread goes on and cancels self.timer.
LEMMA MainCancels ==
  ASSUME StatementInv, NEW l \in Label[main], timer \in Timers,
         pc' = [pc EXCEPT ![main] = l, ![timer] = Cancelled(@)],
         l \in {"flag?", "exit"},
         UNCHANGED <<netvars, rcvvars, base, nextseqnum, sndpkt, should_send_eot, timer, offset,
                     burst>>,
         NumChunks < SeqModulo /\ l = "flag?" => base # 0 /\ ~EotCounted
  PROVE  StatementInv'
<1> DEFINE m == Cancelled(pc[timer])
<1>1. /\ PcOK /\ timer # main /\ timer # sending /\ timer \in Thread /\ main \in Thread
      /\ pc[timer] \in Label[timer] /\ sending \in Thread /\ sending # main
  BY StatementInvPc, Labels DEF PcOK
<1>2. m \in Label[timer] /\ (m = pc[timer] \/ m \in {"cancelled", "dead"})
  BY <1>1, Labels DEF Cancelled
<1>3. pc' = [pc EXCEPT ![main] = l, ![timer] = m]
  BY <1>1 DEF PcOK
<1> HIDE DEF m
<1>4. /\ PcOK' /\ pc'[main] = l /\ pc'[timer] = m
      /\ \A u \in Thread : u # main /\ u # timer => pc'[u] = pc[u]
  <2>1. l \in UNION {Label[u] : u \in Thread} /\ m \in UNION {Label[u] : u \in Thread}
    BY <1>1, <1>2
  <2> QED
    BY <1>1, <1>2, <1>3, <2>1 DEF PcOK
<1>5. ControlInv'
  <2>1. \A t \in Thread : pc'[t] \in {"timer_cancel", "timer_run"} => timer # None
    BY Labels
  <2>2. \A k \in Timers : pc'[k] = "end" => pc[k] = "end"
    BY <1>1, <1>2, <1>4, Labels
  <2> QED
    BY <1>1, <1>4, <2>1, <2>2, StatementInvPc DEF ControlInv
<1>6. Stored' = Stored /\ pc'[sending] = pc[sending]
  BY <1>1, <1>4 DEF Stored
<1> QED
  BY <1>4, <1>5, <1>6, StatementInvPc, QuietStep

\* Acknowledgements leave the queue in their order; base, once set to the first of
\* them, is ahead of none of the others.
LEMMA BackwardsTaken ==
  ASSUME BackwardsInv, bwd \in Seq(Packet), bwd # <<>>, bwd' = Tail(bwd),
         UNCHANGED <<rcvvars, offset>>, base \in Nat, Len(out) \in Nat,
         \/ UNCHANGED base
         \/ Head(bwd).type = ACK /\ base' = Successor(Head(bwd).seq_num)
  PROVE  /\ BackwardsInv'
         /\ Head(bwd).type = ACK => /\ base <= Successor(Head(bwd).seq_num)
                                    /\ Successor(Head(bwd).seq_num) <= Len(out)
                                    /\ Successor(Head(bwd).seq_num) = 0 => offset # 0
<1> DEFINE acked(j) == Successor(bwd[j].seq_num)
<1>1. /\ Len(bwd) \in Nat \ {0} /\ Len(bwd') = Len(bwd) - 1 /\ Head(bwd) = bwd[1]
      /\ \A i \in 1 .. Len(bwd) - 1 : bwd'[i] = bwd[i + 1]
  BY TailResult
<1>2. ASSUME NEW i \in 1 .. Len(bwd), bwd[i].type = ACK
      PROVE  /\ base <= acked(i) /\ acked(i) <= Len(out)
             /\ acked(i) = 0 => offset # 0
             /\ \A j \in 1 .. i - 1 : bwd[j].type = ACK => acked(j) <= acked(i)
  BY <1>2 DEF BackwardsInv
<1>3. 1 \in 1 .. Len(bwd)
  BY <1>1
<1>4. ASSUME NEW i \in 1 .. Len(bwd'), bwd'[i].type = ACK
      PROVE  /\ base' <= Successor(bwd'[i].seq_num) /\ Successor(bwd'[i].seq_num) <= Len(out)
             /\ Successor(bwd'[i].seq_num) = 0 => offset # 0
             /\ \A j \in 1 .. i - 1 : bwd'[j].type = ACK
                  => Successor(bwd'[j].seq_num) <= Successor(bwd'[i].seq_num)
  <2>1. i + 1 \in 1 .. Len(bwd) /\ bwd'[i] = bwd[i + 1] /\ 1 \in 1 .. (i + 1) - 1
    BY <1>1, <1>4
  <2>2. base' <= acked(i + 1)
    BY <1>1, <1>2, <1>4, <2>1
  <2>3. ASSUME NEW j \in 1 .. i - 1, bwd'[j].type = ACK
        PROVE  Successor(bwd'[j].seq_num) <= Successor(bwd'[i].seq_num)
    <3>1. j + 1 \in 1 .. (i + 1) - 1 /\ bwd'[j] = bwd[j + 1]
      BY <1>1, <2>1
    <3> QED
      BY <1>2, <1>4, <2>1, <2>3, <3>1
  <2> QED
    BY <1>2, <1>4, <2>1, <2>2, <2>3
<1>5. BackwardsInv'
  <2>1. ~rcv_done' => rcv_sndpkt' = CreateAck(Len(out') - 1)
    BY DEF BackwardsInv, rcvvars
  <2>2. out' = out /\ offset' = offset
    BY DEF rcvvars
  <2> QED
    BY <1>4, <2>1, <2>2 DEF BackwardsInv
<1> QED
  BY <1>1, <1>2, <1>3, <1>5

LEMMA RecvAckInv ==
  ASSUME StatementInv, RecvAck
  PROVE  StatementInv'
<1>1. /\ pc[main] = "recv" /\ bwd # <<>> /\ Head(bwd).type = ACK /\ bwd' = Tail(bwd)
      /\ base' = Successor(Head(bwd).seq_num) /\ pc' = [pc EXCEPT ![main] = "compare"]
      /\ UNCHANGED <<fwd, rcvvars, nextseqnum, sndpkt, should_send_eot, timer, offset, burst>>
  BY DEF RecvAck, NextIs, Goto
<1>2. PcOK' /\ pc'[main] = "compare" /\ \A u \in Thread : u # main => pc'[u] = pc[u]
  BY <1>1, StatementInvPc, GotoResult, Labels
<1>3. bwd \in Seq(Packet) /\ base \in Nat /\ Len(out) \in Nat
  BY LenProperties, GbnAssumption DEF StatementInv, TypeOK, NetworkTypeOK, SeqNum
<1>4. bwd' \in Seq(Packet) /\ Head(bwd) \in Packet
  BY <1>1, <1>3, TailResult
<1>5. base' \in SeqNum
  <2>1. Head(bwd).seq_num \in Int
    BY <1>4, GbnAssumption DEF Packet, SeqNum
  <2> QED
    BY <1>1, <2>1, SuccessorType
<1>6. Stored' = Stored /\ Stored \in Nat /\ pc'[sending] = pc[sending] /\ offset \in Nat
  BY <1>1, <1>2, Labels, StoredType DEF Stored
<1>7. TypeOK'
  BY <1>1, <1>2, <1>4, <1>5 DEF StatementInv, TypeOK, NetworkTypeOK, PcOK, rcvvars
<1>8. ControlInv'
  BY <1>1, <1>2, StatementInvPc, Labels DEF ControlInv
<1>9. DataInv'
  BY <1>1, <1>6 DEF StatementInv, DataInv
<1>10. ASSUME NumChunks < SeqModulo
       PROVE  (CountInv /\ SlotInv /\ ForwardsInv /\ BackwardsInv /\ InOrderPrefix)'
  <2>1. CountInv /\ SlotInv /\ ForwardsInv /\ BackwardsInv /\ InOrderPrefix
    BY <1>10 DEF StatementInv
  <2>2. BackwardsInv' /\ base <= base' /\ base' <= Len(out) /\ (base' = 0 => offset # 0)
    BY <1>1, <1>3, <2>1, BackwardsTaken
  <2>3. base' \in Nat /\ WindowSize \in Nat
    BY <1>5, GbnAssumption DEF SeqNum
  <2>4. CountInv'
    BY <1>1, <1>2, <1>3, <1>6, <2>1, <2>2, <2>3 DEF CountInv, EotCounted, rcvvars
  <2>5. SlotInv' /\ ForwardsInv' /\ InOrderPrefix'
    BY <1>1, <1>6, <2>1 DEF SlotInv, ForwardsInv, InOrderPrefix, rcvvars
  <2> QED
    BY <2>2, <2>4, <2>5
<1> QED
  BY <1>7, <1>8, <1>9, <1>10 DEF StatementInv

\* base = nextseqnum only of numbers that count chunks: all are acknowledged.
LEMMA RcvCompareInv ==
  ASSUME StatementInv, RcvCompare
  PROVE  StatementInv'
<1> DEFINE l == IF base = nextseqnum THEN "stop" ELSE "timer_check"
<1>1. /\ l \in Label[main] /\ Goto(main, l) /\ pc[main] = "compare" /\ l \in {"stop", "timer_check"}
  BY Labels DEF RcvCompare, TimerStart
<1>2. l = "stop" => base = nextseqnum
  OBVIOUS
<1> HIDE DEF l
<1>3. ASSUME NumChunks < SeqModulo, base = nextseqnum
      PROVE  base # 0 /\ ~EotCounted
  <2>1. CountInv
    BY <1>3 DEF StatementInv
  <2>2. ASSUME EotCounted PROVE FALSE
    <3>1. base # 0 /\ base = Successor(NumChunks) /\ base <= Len(out) /\ Len(out) <= Stored
      BY <1>3, <2>1, <2>2 DEF CountInv
    <3>2. base \in Nat /\ Len(out) \in Nat /\ Stored \in 0 .. NumChunks /\ NumChunks \in Nat
      BY StoredType, LenProperties, GbnAssumption DEF StatementInv, TypeOK, NetworkTypeOK, SeqNum
    <3>3. CASE NumChunks + 1 < SeqModulo
      BY <3>1, <3>2, <3>3, SuccessorSmall
    <3>4. CASE NumChunks + 1 = SeqModulo
      <4>1. SeqModulo % SeqModulo = 0
        <5>1. SeqModulo % SeqModulo = (SeqModulo * 1 + 0) % SeqModulo
          BY Modulus
        <5>2. (SeqModulo * 1 + 0) % SeqModulo = 0 % SeqModulo
          BY Modulus, AddMultiple
        <5>3. 0 % SeqModulo = 0
          BY Modulus, RemainderOfSmall
        <5> QED
          BY <5>1, <5>2, <5>3
      <4> QED
        BY <3>1, <3>4, <4>1 DEF Successor
    <3> QED
      BY <1>3, <3>2, <3>3, <3>4, Modulus
  <2>3. base # 0
    BY <1>1, <1>3, <2>1, <2>2 DEF CountInv, EotCounted
  <2> QED
    BY <2>2, <2>3
<1> QED
  BY <1>1, <1>2, <1>3, MainGoesOn DEF RcvCompare

LEMMA TimerStopInv ==
  ASSUME StatementInv, TimerStop
  PROVE  StatementInv'
<1>1. NumChunks < SeqModulo => base # 0 /\ ~EotCounted
  BY DEF StatementInv, CountInv, TimerStop
<1>2. "dead" \in Label[main] /\ "flag?" \in Label[main] /\ timer \in Timers \cup {None}
  BY StatementInvPc, Labels
<1>3. CASE timer = None
  BY <1>2, <1>3, MainGoesOn DEF TimerStop
<1>4. CASE timer # None
  BY <1>1, <1>2, <1>4, MainCancels DEF TimerStop
<1> QED
  BY <1>3, <1>4

LEMMA CheckFlagInv ==
  ASSUME StatementInv, CheckFlag
  PROVE  StatementInv'
<1> DEFINE l == IF should_send_eot THEN "eot" ELSE "recv"
<1>1. NumChunks < SeqModulo => base # 0 /\ ~EotCounted
  BY DEF StatementInv, CountInv, CheckFlag
<1>2. l \in Label[main] /\ Goto(main, l) /\ l \in {"eot", "recv"} /\ (l = "eot" => should_send_eot)
  BY Labels DEF CheckFlag
<1> HIDE DEF l
<1> QED
  BY <1>1, <1>2, MainGoesOn DEF CheckFlag

\* The EOT joins the queue, which no loss can keep it from.
LEMMA SendEotInv ==
  ASSUME StatementInv, SendEot
  PROVE  StatementInv'
<1> DEFINE p == CreateEot(nextseqnum)
<1>1. /\ pc[main] = "eot" /\ fwd' \in Forward(fwd, p) /\ pc' = [pc EXCEPT ![main] = "incr"]
      /\ UNCHANGED <<bwd, rcvvars, base, nextseqnum, sndpkt, should_send_eot, timer, offset, burst>>
  BY DEF SendEot, Goto
<1>2. PcOK' /\ pc'[main] = "incr" /\ \A u \in Thread : u # main => pc'[u] = pc[u]
  BY <1>1, StatementInvPc, GotoResult, Labels
<1>3. fwd \in Seq(Packet) /\ nextseqnum \in SeqNum
  BY DEF StatementInv, TypeOK, NetworkTypeOK
<1>4. p \in Packet /\ p.type # DATA
  BY <1>3, CreatedPackets DEF EOT, DATA
<1> HIDE DEF p
<1>5. /\ fwd' \in Seq(Packet)
      /\ \A i \in 1 .. Len(fwd') : fwd'[i].type = DATA => fwd'[i].data \in Chunk
  BY <1>1, <1>3, <1>4, DataSent DEF StatementInv, DataInv
<1>6. Stored' = Stored /\ Stored \in Nat /\ pc'[sending] = pc[sending]
  BY <1>1, <1>2, Labels, StoredType DEF Stored
<1>7. TypeOK'
  BY <1>1, <1>2, <1>5 DEF StatementInv, TypeOK, NetworkTypeOK, PcOK, rcvvars
<1>8. ControlInv'
  BY <1>1, <1>2, StatementInvPc, Labels DEF ControlInv
<1>9. DataInv'
  BY <1>1, <1>5, <1>6 DEF StatementInv, DataInv
<1>10. ASSUME NumChunks < SeqModulo
       PROVE  (CountInv /\ SlotInv /\ ForwardsInv /\ BackwardsInv /\ InOrderPrefix)'
  <2>1. CountInv /\ SlotInv /\ ForwardsInv /\ BackwardsInv /\ InOrderPrefix
    BY <1>10 DEF StatementInv
  <2>2. ForwardsInv'
    BY <1>1, <1>3, <1>4, <1>6, <2>1, StoredSent
  <2>3. CountInv'
    BY <1>1, <1>2, <1>6, <2>1 DEF CountInv, EotCounted, rcvvars
  <2>4. SlotInv' /\ BackwardsInv' /\ InOrderPrefix'
    BY <1>1, <1>6, <2>1 DEF SlotInv, BackwardsInv, InOrderPrefix, rcvvars
  <2> QED
    BY <2>2, <2>3, <2>4
<1> QED
  BY <1>7, <1>8, <1>9, <1>10 DEF StatementInv

\* Now nextseqnum counts the EOT.
LEMMA EotIncrInv ==
  ASSUME StatementInv, EotIncr
  PROVE  StatementInv'
<1>1. /\ pc[main] = "incr" /\ nextseqnum' = Successor(nextseqnum)
      /\ pc' = [pc EXCEPT ![main] = "recv"]
      /\ UNCHANGED <<netvars, rcvvars, base, sndpkt, should_send_eot, timer, offset, burst>>
  BY DEF EotIncr, Goto
<1>2. PcOK' /\ pc'[main] = "recv" /\ \A u \in Thread : u # main => pc'[u] = pc[u]
  BY <1>1, StatementInvPc, GotoResult, Labels
<1>3. should_send_eot /\ offset = NumChunks /\ pc[sending] = "exit"
  BY <1>1 DEF StatementInv, ControlInv
<1>4. nextseqnum' \in SeqNum
  <2>1. nextseqnum \in Int
    BY GbnAssumption DEF StatementInv, TypeOK, SeqNum
  <2> QED
    BY <1>1, <2>1, SuccessorType
<1>5. Stored' = Stored /\ pc'[sending] = pc[sending]
  BY <1>1, <1>2, Labels DEF Stored
<1>6. TypeOK'
  BY <1>1, <1>2, <1>4 DEF StatementInv, TypeOK, NetworkTypeOK, PcOK, netvars, rcvvars
<1>7. ControlInv'
  BY <1>1, <1>2, StatementInvPc, Labels DEF ControlInv
<1>8. DataInv'
  BY <1>1, <1>3, <1>5 DEF StatementInv, DataInv, netvars
<1>9. ASSUME NumChunks < SeqModulo
      PROVE  (CountInv /\ SlotInv /\ ForwardsInv /\ BackwardsInv /\ InOrderPrefix)'
  <2>1. CountInv /\ SlotInv /\ ForwardsInv /\ BackwardsInv /\ InOrderPrefix
    BY <1>9 DEF StatementInv
  <2>2. base # 0 /\ nextseqnum = NumChunks
    BY <1>1, <1>3, <2>1 DEF CountInv, EotCounted
  <2>3. CountInv'
    BY <1>1, <1>2, <1>3, <1>5, <2>1, <2>2 DEF CountInv, EotCounted, rcvvars
  <2>4. SlotInv' /\ ForwardsInv' /\ BackwardsInv' /\ InOrderPrefix'
    BY <1>1, <1>5, <2>1 DEF SlotInv, ForwardsInv, BackwardsInv, InOrderPrefix, netvars, rcvvars
  <2> QED
    BY <2>3, <2>4
<1> QED
  BY <1>6, <1>7, <1>8, <1>9 DEF StatementInv

LEMMA RecvEotInv ==
  ASSUME StatementInv, RecvEot
  PROVE  StatementInv'
<1>1. /\ pc[main] = "recv" /\ bwd # <<>> /\ bwd' = Tail(bwd) /\ pc' = [pc EXCEPT ![main] = "join"]
      /\ UNCHANGED <<fwd, rcvvars, base, nextseqnum, sndpkt, should_send_eot, timer, offset, burst>>
  BY DEF RecvEot, NextIs, Goto
<1>2. PcOK' /\ pc'[main] = "join" /\ \A u \in Thread : u # main => pc'[u] = pc[u]
  BY <1>1, StatementInvPc, GotoResult, Labels
<1>3. bwd \in Seq(Packet) /\ base \in Nat /\ Len(out) \in Nat
  BY LenProperties, GbnAssumption DEF StatementInv, TypeOK, NetworkTypeOK, SeqNum
<1>4. bwd' \in Seq(Packet)
  BY <1>1, <1>3, TailResult
<1>5. Stored' = Stored /\ pc'[sending] = pc[sending]
  BY <1>1, <1>2, Labels DEF Stored
<1>6. TypeOK'
  BY <1>1, <1>2, <1>4 DEF StatementInv, TypeOK, NetworkTypeOK, PcOK, rcvvars
<1>7. ControlInv'
  BY <1>1, <1>2, StatementInvPc, Labels DEF ControlInv
<1>8. DataInv'
  BY <1>1, <1>5 DEF StatementInv, DataInv
<1>9. ASSUME NumChunks < SeqModulo
      PROVE  (CountInv /\ SlotInv /\ ForwardsInv /\ BackwardsInv /\ InOrderPrefix)'
  <2>1. CountInv /\ SlotInv /\ ForwardsInv /\ BackwardsInv /\ InOrderPrefix
    BY <1>9 DEF StatementInv
  <2>2. BackwardsInv'
    BY <1>1, <1>3, <2>1, BackwardsTaken
  <2>3. CountInv'
    BY <1>1, <1>2, <1>5, <2>1 DEF CountInv, EotCounted, rcvvars
  <2>4. SlotInv' /\ ForwardsInv' /\ InOrderPrefix'
    BY <1>1, <1>5, <2>1 DEF SlotInv, ForwardsInv, InOrderPrefix, rcvvars
  <2> QED
    BY <2>2, <2>3, <2>4
<1> QED
  BY <1>6, <1>7, <1>8, <1>9 DEF StatementInv

LEMMA JoinInv ==
  ASSUME StatementInv, Join
  PROVE  StatementInv'
<1>1. "last_stop" \in Label[main]
  BY Labels
<1> QED
  BY <1>1, MainGoesOn DEF Join

LEMMA LastTimerStopInv ==
  ASSUME StatementInv, LastTimerStop
  PROVE  StatementInv'
<1>1. "dead" \in Label[main] /\ "exit" \in Label[main] /\ timer \in Timers \cup {None}
  BY StatementInvPc, Labels
<1>2. CASE timer = None
  BY <1>1, <1>2, MainGoesOn DEF LastTimerStop, Goto
<1>3. CASE timer # None
  BY <1>1, <1>3, MainCancels DEF LastTimerStop
<1> QED
  BY <1>2, <1>3

-----------------------------------------------------------------------------
(* The receiver.                                                           *)

\* The receiver takes a packet; those behind it stay as they are.
LEMMA ForwardsTaken ==
  ASSUME StatementInv, fwd # <<>>, fwd' = Tail(fwd), UNCHANGED sndvars
  PROVE  /\ fwd' \in Seq(Packet) /\ Head(fwd) \in Packet
         /\ Head(fwd).type = DATA => Head(fwd).data \in Chunk
         /\ DataInv' /\ ControlInv' /\ PcOK' /\ Stored' = Stored
         /\ NumChunks < SeqModulo =>
              /\ ForwardsInv' /\ SlotInv'
              /\ Head(fwd).type = DATA => /\ Head(fwd).data = Head(fwd).seq_num + 1
                                          /\ Head(fwd).data <= Stored
<1>1. fwd \in Seq(Packet)
  BY DEF StatementInv, TypeOK, NetworkTypeOK
<1>2. /\ Len(fwd) \in Nat \ {0} /\ Len(fwd') = Len(fwd) - 1 /\ Head(fwd) = fwd[1]
      /\ \A i \in 1 .. Len(fwd) - 1 : fwd'[i] = fwd[i + 1]
      /\ fwd' \in Seq(Packet) /\ Head(fwd) \in Packet
  BY <1>1, TailResult
<1>3. 1 \in 1 .. Len(fwd) /\ \A i \in 1 .. Len(fwd') : i + 1 \in 1 .. Len(fwd) /\ fwd'[i] = fwd[i + 1]
  BY <1>2
<1>4. Stored' = Stored /\ PcOK' /\ ControlInv'
  BY StatementInvPc DEF Stored, sndvars, PcOK, ControlInv
<1>5. DataInv'
  BY <1>3, <1>4 DEF StatementInv, DataInv, sndvars
<1>6. NumChunks < SeqModulo => ForwardsInv' /\ SlotInv'
  BY <1>3, <1>4 DEF StatementInv, ForwardsInv, SlotInv, sndvars
<1> QED
  BY <1>2, <1>3, <1>4, <1>5, <1>6 DEF StatementInv, DataInv, ForwardsInv

\* The receiver's reply joins the queue: what it acknowledges is not less than what
\* was acknowledged before it.
LEMMA BackwardsSent ==
  ASSUME BackwardsInv, bwd \in Seq(Packet), NEW p \in Packet, bwd' \in Forward(bwd, p),
         UNCHANGED <<base, offset>>, base \in Nat, Len(out) \in Nat, Len(out') \in Nat,
         base <= Len(out), Len(out) <= Len(out'),
         p.type = ACK =>
           LET c == Successor(p.seq_num)
           IN  c \in Nat /\ Len(out) <= c /\ c <= Len(out') /\ (c = 0 => offset # 0),
         ~rcv_done' => rcv_sndpkt' = CreateAck(Len(out') - 1)
  PROVE  BackwardsInv' /\ bwd' \in Seq(Packet)
<1> DEFINE acked(j) == Successor(bwd[j].seq_num)
           acked2(j) == Successor(bwd'[j].seq_num)
<1>1. /\ bwd' \in Seq(Packet) /\ Len(bwd) \in Nat /\ Len(bwd') \in Nat
      /\ \A i \in 1 .. Len(bwd') : \/ i \in 1 .. Len(bwd) /\ bwd'[i] = bwd[i]
                                   \/ i = Len(bwd) + 1 /\ bwd'[i] = p
  BY ForwardResult
<1>2. ASSUME NEW i \in 1 .. Len(bwd), bwd[i].type = ACK
      PROVE  /\ base <= acked(i) /\ acked(i) <= Len(out)
             /\ acked(i) = 0 => offset # 0
             /\ \A j \in 1 .. i - 1 : bwd[j].type = ACK => acked(j) <= acked(i)
  BY <1>2 DEF BackwardsInv
<1>3. ASSUME NEW i \in 1 .. Len(bwd)
      PROVE  acked(i) \in Nat
  <2>1. bwd[i] \in Packet
    BY <1>3, ElementOfSeq
  <2>2. bwd[i].seq_num \in Int
    BY <2>1, GbnAssumption DEF Packet, SeqNum
  <2> QED
    BY <2>2, SuccessorType, GbnAssumption DEF SeqNum
<1>4. ASSUME NEW i \in 1 .. Len(bwd'), bwd'[i].type = ACK
      PROVE  /\ base' <= acked2(i) /\ acked2(i) <= Len(out')
             /\ acked2(i) = 0 => offset' # 0
             /\ \A j \in 1 .. i - 1 : bwd'[j].type = ACK => acked2(j) <= acked2(i)
  <2>1. CASE i \in 1 .. Len(bwd) /\ bwd'[i] = bwd[i]
    <3>1. \A j \in 1 .. i - 1 : j \in 1 .. Len(bwd) /\ bwd'[j] = bwd[j]
      BY <1>1, <2>1
    <3>2. /\ base <= acked(i) /\ acked(i) <= Len(out) /\ acked(i) \in Nat
          /\ acked(i) = 0 => offset # 0
          /\ \A j \in 1 .. i - 1 : bwd[j].type = ACK => acked(j) <= acked(i)
      BY <1>2, <1>3, <1>4, <2>1
    <3>3. acked(i) <= Len(out')
      BY <3>2
    <3> QED
      BY <2>1, <3>1, <3>2, <3>3
  <2>2. CASE i = Len(bwd) + 1 /\ bwd'[i] = p
    <3> DEFINE c == Successor(p.seq_num)
    <3>1. c \in Nat /\ Len(out) <= c /\ c <= Len(out') /\ (c = 0 => offset # 0)
      BY <1>4, <2>2
    <3>2. \A j \in 1 .. i - 1 : j \in 1 .. Len(bwd) /\ bwd'[j] = bwd[j]
      BY <1>1, <2>2
    <3>3. ASSUME NEW j \in 1 .. i - 1, bwd'[j].type = ACK PROVE acked2(j) <= c
      <4>1. acked2(j) = acked(j) /\ acked(j) <= Len(out) /\ acked(j) \in Nat
        BY <1>2, <1>3, <3>2, <3>3
      <4> HIDE DEF acked, acked2, c
      <4> QED
        BY <3>1, <4>1
    <3>4. base' <= c
      <4> HIDE DEF c
      <4> QED
        BY <3>1
    <3> QED
      BY <2>2, <3>1, <3>3, <3>4
  <2> QED
    BY <1>1, <1>4, <2>1, <2>2
<1> QED
  BY <1>1, <1>4 DEF BackwardsInv

LEMMA ReceiveExpectedInv ==
  ASSUME StatementInv, ReceiveExpected, UNCHANGED sndvars
  PROVE  StatementInv'
<1> DEFINE p == CreateAck(expectedseqnum)
<1>1. /\ ~rcv_done /\ UNCHANGED rcv_done /\ fwd # <<>> /\ Head(fwd).type = DATA /\ fwd' = Tail(fwd)
      /\ Head(fwd).seq_num = expectedseqnum /\ out' = Append(out, Head(fwd).data)
      /\ rcv_sndpkt' = p /\ bwd' \in Forward(bwd, p)
      /\ expectedseqnum' = Successor(expectedseqnum)
  BY DEF ReceiveExpected, NextIs
<1>2. /\ fwd' \in Seq(Packet) /\ Head(fwd).data \in Chunk /\ Stored' = Stored
      /\ DataInv' /\ ControlInv' /\ PcOK'
  BY <1>1, ForwardsTaken
<1>3. bwd \in Seq(Packet) /\ out \in Seq(Chunk) /\ expectedseqnum \in SeqNum /\ base \in Nat
  BY GbnAssumption DEF StatementInv, TypeOK, NetworkTypeOK, SeqNum
<1>4. p \in Packet /\ expectedseqnum \in Int
  BY <1>3, CreatedAck, GbnAssumption DEF SeqNum
<1>5. /\ out' \in Seq(Chunk) /\ Len(out) \in Nat /\ Len(out') = Len(out) + 1
      /\ \A i \in 1 .. Len(out) : out'[i] = out[i]
      /\ out'[Len(out) + 1] = Head(fwd).data
  BY <1>1, <1>2, <1>3, AppendResult, LenProperties
<1>6. bwd' \in Seq(Packet)
  BY <1>1, <1>3, <1>4, ForwardResult
<1>7. expectedseqnum' \in SeqNum
  BY <1>1, <1>4, SuccessorType
<1>8. TypeOK'
  BY <1>1, <1>2, <1>4, <1>5, <1>6, <1>7 DEF StatementInv, TypeOK, NetworkTypeOK, PcOK, sndvars
<1>9. ASSUME NumChunks < SeqModulo
      PROVE  (CountInv /\ SlotInv /\ ForwardsInv /\ BackwardsInv /\ InOrderPrefix)'
  <2>1. CountInv /\ BackwardsInv /\ InOrderPrefix
    BY <1>9 DEF StatementInv
  <2>2. /\ ForwardsInv' /\ SlotInv'
        /\ Head(fwd).data = expectedseqnum + 1 /\ Head(fwd).data <= Stored
    BY <1>1, <1>9, ForwardsTaken
  <2>3. expectedseqnum = Len(out) /\ Len(out) + 1 <= Stored /\ Stored \in Nat /\ Stored <= NumChunks
    BY <1>5, <2>1, <2>2, StoredType DEF CountInv
  <2>4. Len(out) + 1 < SeqModulo
    BY <1>5, <1>9, <2>3, GbnAssumption
  <2>5. expectedseqnum' = Len(out')
    BY <1>1, <1>5, <2>3, <2>4, SuccessorSmall
  <2>6. CountInv'
    BY <1>2, <1>3, <1>5, <2>1, <2>3, <2>5 DEF CountInv, EotCounted, sndvars
  <2>7. BackwardsInv'
    <3>1. Successor(p.seq_num) = Len(out) + 1
      BY <1>4, <1>5, <2>3, <2>4, CreatedAck
    <3>2. base <= Len(out)
      BY <2>1 DEF CountInv
    <3>3. rcv_sndpkt' = CreateAck(Len(out') - 1)
      BY <1>1, <1>5, <2>3
    <3>4. UNCHANGED <<base, offset>>
      BY DEF sndvars
    <3>5. /\ Len(out') \in Nat /\ Len(out) <= Len(out')
          /\ Successor(p.seq_num) \in Nat /\ Successor(p.seq_num) # 0
          /\ Len(out) <= Successor(p.seq_num) /\ Successor(p.seq_num) <= Len(out')
      BY <1>5, <3>1
    <3> HIDE DEF p
    <3> QED
      BY <1>1, <1>3, <1>4, <1>5, <2>1, <3>2, <3>3, <3>4, <3>5, BackwardsSent
  <2>8. InOrderPrefix'
    BY <1>5, <2>1, <2>2, <2>3 DEF InOrderPrefix
  <2> QED
    BY <2>2, <2>6, <2>7, <2>8
<1> QED
  BY <1>2, <1>8, <1>9 DEF StatementInv

LEMMA ReceiveUnexpectedInv ==
  ASSUME StatementInv, ReceiveUnexpected, UNCHANGED sndvars
  PROVE  StatementInv'
<1>1. /\ ~rcv_done /\ fwd # <<>> /\ Head(fwd).type = DATA /\ fwd' = Tail(fwd)
      /\ Head(fwd).seq_num # expectedseqnum
      /\ bwd' \in Forward(bwd, rcv_sndpkt)
      /\ UNCHANGED rcvvars
  BY DEF ReceiveUnexpected, NextIs, ReplyToUnexpected
<1>2. /\ fwd' \in Seq(Packet) /\ Head(fwd) \in Packet /\ Stored' = Stored
      /\ DataInv' /\ ControlInv' /\ PcOK'
  BY <1>1, ForwardsTaken
<1>3. /\ bwd \in Seq(Packet) /\ rcv_sndpkt \in Packet /\ base \in Nat /\ Len(out) \in Nat
      /\ out' = out /\ Len(out') \in Nat
  BY <1>1, GbnAssumption, LenProperties DEF StatementInv, TypeOK, NetworkTypeOK, SeqNum, rcvvars
<1>4. bwd' \in Seq(Packet)
  BY <1>1, <1>3, ForwardResult
<1>5. TypeOK'
  BY <1>1, <1>2, <1>4 DEF StatementInv, TypeOK, NetworkTypeOK, PcOK, sndvars, rcvvars
<1>6. ASSUME NumChunks < SeqModulo
      PROVE  (CountInv /\ SlotInv /\ ForwardsInv /\ BackwardsInv /\ InOrderPrefix)'
  <2>1. CountInv /\ BackwardsInv /\ InOrderPrefix
    BY <1>6 DEF StatementInv
  <2>2. /\ ForwardsInv' /\ SlotInv'
        /\ Head(fwd).data = Head(fwd).seq_num + 1 /\ Head(fwd).data <= Stored
    BY <1>1, <1>6, ForwardsTaken
  <2>3. Len(out) <= NumChunks /\ NumChunks \in Nat /\ base <= Len(out)
    BY <1>3, <2>1, StoredType, GbnAssumption DEF CountInv
  <2>4. Len(out) = 0 => offset # 0
    <3>1. ASSUME Len(out) = 0 PROVE offset # 0
      <4>1. Head(fwd).seq_num \in Nat /\ Head(fwd).seq_num # 0
        BY <1>1, <1>2, <2>1, <3>1, GbnAssumption DEF CountInv, Packet, SeqNum
      <4> QED
        BY <2>2, <4>1, StoredType
    <3> QED
      BY <3>1
  <2>5. rcv_sndpkt = CreateAck(Len(out) - 1) /\ Successor(rcv_sndpkt.seq_num) = Len(out)
    <3>1. rcv_sndpkt = CreateAck(Len(out) - 1)
      BY <1>1, <2>1 DEF BackwardsInv
    <3>2. 0 <= (Len(out) - 1) + 1 /\ (Len(out) - 1) + 1 < SeqModulo /\ Len(out) - 1 \in Int
      BY <1>3, <1>6, <2>3, GbnAssumption
    <3>3. Successor(CreateAck(Len(out) - 1).seq_num) = (Len(out) - 1) + 1
      BY <3>2, CreatedAck
    <3> QED
      BY <1>3, <3>1, <3>3
  <2>6. BackwardsInv'
    <3>1. UNCHANGED <<base, offset, rcv_sndpkt>> /\ Len(out) <= Len(out')
      BY <1>1, <1>3 DEF sndvars, rcvvars
    <3> QED
      BY <1>1, <1>3, <2>1, <2>3, <2>4, <2>5, <3>1, BackwardsSent
  <2>7. CountInv' /\ InOrderPrefix'
    BY <1>1, <1>2, <2>1 DEF CountInv, EotCounted, InOrderPrefix, sndvars, rcvvars
  <2> QED
    BY <2>2, <2>6, <2>7
<1> QED
  BY <1>2, <1>5, <1>6 DEF StatementInv

LEMMA ReceiveEotInv ==
  ASSUME StatementInv, ReceiveEot, UNCHANGED sndvars
  PROVE  StatementInv'
<1> DEFINE p == CreateEot(expectedseqnum)
<1>1. /\ fwd # <<>> /\ fwd' = Tail(fwd) /\ rcv_done' = TRUE
      /\ rcv_sndpkt' = p /\ bwd' \in Forward(bwd, p) /\ UNCHANGED <<expectedseqnum, out>>
  BY DEF ReceiveEot, NextIs
<1>2. fwd' \in Seq(Packet) /\ Stored' = Stored /\ DataInv' /\ ControlInv' /\ PcOK'
  BY <1>1, ForwardsTaken
<1>3. bwd \in Seq(Packet) /\ expectedseqnum \in SeqNum /\ base \in Nat /\ Len(out) \in Nat
  BY GbnAssumption, LenProperties DEF StatementInv, TypeOK, NetworkTypeOK, SeqNum
<1>4. p \in Packet /\ p.type # ACK
  BY <1>3, CreatedPackets DEF EOT, ACK
<1> HIDE DEF p
<1>5. bwd' \in Seq(Packet)
  BY <1>1, <1>3, <1>4, ForwardResult
<1>6. TypeOK'
  BY <1>1, <1>2, <1>4, <1>5 DEF StatementInv, TypeOK, NetworkTypeOK, PcOK, sndvars
<1>7. ASSUME NumChunks < SeqModulo
      PROVE  (CountInv /\ SlotInv /\ ForwardsInv /\ BackwardsInv /\ InOrderPrefix)'
  <2>1. CountInv /\ BackwardsInv /\ InOrderPrefix
    BY <1>7 DEF StatementInv
  <2>2. ForwardsInv' /\ SlotInv'
    BY <1>1, <1>7, ForwardsTaken
  <2>3. BackwardsInv'
    <3>1. UNCHANGED <<base, offset>> /\ base <= Len(out) /\ Len(out) <= Len(out') /\ Len(out') \in Nat
      BY <1>1, <1>3, <2>1 DEF sndvars, CountInv
    <3> QED
      BY <1>1, <1>3, <1>4, <2>1, <3>1, BackwardsSent
  <2>4. CountInv' /\ InOrderPrefix'
    BY <1>1, <1>2, <2>1 DEF CountInv, EotCounted, InOrderPrefix, sndvars
  <2> QED
    BY <2>2, <2>3, <2>4
<1> QED
  BY <1>2, <1>6, <1>7 DEF StatementInv

LEMMA ReceiverClosedInv ==
  ASSUME StatementInv, ReceiverClosed, UNCHANGED sndvars
  PROVE  StatementInv'
<1>1. fwd # <<>> /\ fwd' = Tail(fwd) /\ UNCHANGED <<bwd, rcvvars>>
  BY DEF ReceiverClosed
<1>2. /\ fwd' \in Seq(Packet) /\ Stored' = Stored /\ DataInv' /\ ControlInv' /\ PcOK'
      /\ NumChunks < SeqModulo => ForwardsInv' /\ SlotInv'
  BY <1>1, ForwardsTaken
<1>3. TypeOK'
  BY <1>1, <1>2 DEF StatementInv, TypeOK, NetworkTypeOK, PcOK, sndvars, rcvvars
<1>4. NumChunks < SeqModulo => CountInv' /\ BackwardsInv' /\ InOrderPrefix'
  BY <1>1, <1>2
  DEF StatementInv, CountInv, EotCounted, BackwardsInv, InOrderPrefix, sndvars, rcvvars
<1> QED
  BY <1>2, <1>3, <1>4 DEF StatementInv

\* The program starts with it.
LEMMA StatementInit == Init => StatementInv
<1> SUFFICES ASSUME Init PROVE StatementInv
  OBVIOUS
<1> USE DEF Init, ReceiverInit
<1>1. PcOK
  <2>1. \A t \in Thread : pc[t] \in Label[t]
    BY Labels
  <2>2. pc \in [Thread -> UNION {Label[t] : t \in Thread}]
    <3> DEFINE l(t) == IF t = main THEN "recv" ELSE IF t = sending THEN "guard1" ELSE "dead"
    <3>1. \A t \in Thread : l(t) \in Label[t]
      BY Labels
    <3>2. \A t \in Thread : l(t) \in UNION {Label[u] : u \in Thread}
      BY <3>1
    <3>3. pc = [t \in Thread |-> l(t)]
      OBVIOUS
    <3> HIDE DEF l
    <3> QED
      BY <3>2, <3>3
  <2> QED
    BY <2>1, <2>2 DEF PcOK
<1>2. InitialAck \in Packet /\ 0 \in SeqNum /\ NoPacket \in Packet /\ SeqModulo \in Nat \ {0}
  BY CreatedAck, GbnAssumption DEF InitialAck, SeqNum, NoPacket, Packet
<1>3. TypeOK
  <2>1. NetworkTypeOK
    <3>1. fwd \in Seq(Packet) /\ bwd \in Seq(Packet) /\ out \in Seq(Chunk)
      OBVIOUS
    <3>2. expectedseqnum \in SeqNum /\ rcv_sndpkt \in Packet /\ rcv_done \in BOOLEAN
      BY <1>2
    <3> QED
      BY <3>1, <3>2 DEF NetworkTypeOK
  <2>2. sndpkt \in [SeqNum -> Packet] /\ base \in SeqNum /\ nextseqnum \in SeqNum
    BY <1>2
  <2>3. burst \in [Timers -> Seq(SeqNum)]
    <3>1. <<>> \in Seq(SeqNum)
      OBVIOUS
    <3> QED
      BY <3>1
  <2>4. offset \in 0 .. NumChunks /\ should_send_eot \in BOOLEAN /\ timer \in Timers \cup {None}
    <3>1. should_send_eot \in BOOLEAN
      BY Zenon
    <3>2. offset = 0 /\ timer = None
      OBVIOUS
    <3> HIDE DEF Init, ReceiverInit
    <3> QED
      BY <3>1, <3>2, GbnAssumption
  <2> HIDE DEF Init, ReceiverInit
  <2>5. /\ pc \in [Thread -> UNION {Label[t] : t \in Thread}]
        /\ \A t \in Thread : pc[t] \in Label[t]
    BY <1>1, Zenon DEF PcOK
  <2> QED
    BY <2>1, <2>2, <2>3, <2>4, <2>5, Zenon DEF TypeOK
<1>4. pc[main] = "recv" /\ pc[sending] = "guard1" /\ \A k \in Timers : pc[k] = "dead"
  BY Labels
<1>5. ControlInv
  BY <1>4, Labels DEF ControlInv
<1>6. DataInv
  BY <1>4 DEF DataInv
<1>7. Stored = 0
  BY <1>4 DEF Stored, TimerStart
<1>8. CountInv /\ SlotInv /\ ForwardsInv /\ BackwardsInv /\ InOrderPrefix
  BY <1>4, <1>7, GbnAssumption
  DEF CountInv, EotCounted, SlotInv, SeqNum, ForwardsInv, BackwardsInv, InitialAck, InOrderPrefix
<1> QED
  BY <1>3, <1>5, <1>6, <1>8 DEF StatementInv

\* Whatever thread is next, its statement keeps the invariant of the statements.
LEMMA StatementStep ==
  ASSUME StatementInv, [Next]_vars
  PROVE  StatementInv'
<1>1. CASE MainThread
  BY <1>1, RecvAckInv, RcvCompareInv, TimerStopInv, CheckFlagInv, SendEotInv, EotIncrInv,
     RecvEotInv, JoinInv, LastTimerStopInv DEF MainThread
<1>2. CASE SendingThread
  BY <1>2, Guard1Inv, Guard2Inv, StoreInv, SendInv, SendCompareInv, SendIncrInv,
     SetShouldSendEotInv DEF SendingThread
<1>3. CASE \E k \in Timers : TimerThread(k)
  BY <1>3, TimerFiresInv, UnackedStartInv, UnackedEndInv, ResendInv, ResendEndInv DEF TimerThread
<1>4. CASE \E t \in Thread : TimerStartStep(t)
  BY <1>4, TimerCheckInv, TimerCancelInv, TimerNewInv, TimerRunInv DEF TimerStartStep
<1>5. CASE Receiver /\ UNCHANGED sndvars
  BY <1>5, ReceiveExpectedInv, ReceiveUnexpectedInv, ReceiveEotInv, ReceiverClosedInv DEF Receiver
<1>6. CASE UNCHANGED vars
  <2>1. UNCHANGED <<netvars, rcvvars, sndvars>>
    BY <1>6 DEF vars
  <2>2. PcOK' /\ ControlInv' /\ Stored' = Stored
    BY <2>1, StatementInvPc DEF sndvars, PcOK, ControlInv, Stored
  <2>3. /\ UNCHANGED <<netvars, rcvvars, base, nextseqnum, sndpkt, should_send_eot, offset>>
        /\ timer' \in Timers \cup {None} /\ burst' \in [Timers -> Seq(SeqNum)] /\ UNCHANGED pc
    BY <2>1, StatementInvPc DEF sndvars
  <2>4. NumChunks < SeqModulo =>
           (pc'[main] \in {"stop", "flag?", "eot", "incr"} => base # 0 /\ ~EotCounted)
    BY <2>3 DEF StatementInv, CountInv
  <2> QED
    BY <2>2, <2>3, <2>4, QuietStep
<1> QED
  BY <1>1, <1>2, <1>3, <1>4, <1>5, <1>6 DEF Next

-----------------------------------------------------------------------------
(* The end of the transfer.                                                *)

\* What is left of a queue was in it before.
LEMMA TailHad ==
  ASSUME NEW q \in Seq(Packet), q # <<>>
  PROVE  \A i \in 1 .. Len(Tail(q)) : \E j \in 1 .. Len(q) : q[j] = Tail(q)[i]
<1>1. /\ Len(q) \in Nat \ {0} /\ Len(Tail(q)) = Len(q) - 1
      /\ \A i \in 1 .. Len(q) - 1 : Tail(q)[i] = q[i + 1]
  BY TailResult
<1>2. \A i \in 1 .. Len(q) - 1 : i + 1 \in 1 .. Len(q)
  BY <1>1
<1> QED
  BY <1>1, <1>2

\* What is in a queue to which p is sent is p or was in it before.
LEMMA ForwardHad ==
  ASSUME NEW q \in Seq(Packet), NEW p \in Packet, NEW r \in Forward(q, p)
  PROVE  \A i \in 1 .. Len(r) : r[i] = p \/ \E j \in 1 .. Len(q) : q[j] = r[i]
BY ForwardResult

\* A step keeps EndInv if it sends an EOT only as EndInv allows.
LEMMA EndKept ==
  ASSUME EndInv,
         rcv_done => rcv_done', should_send_eot => should_send_eot',
         \A i \in 1 .. Len(fwd') :
           fwd'[i].type # EOT \/ should_send_eot \/ \E j \in 1 .. Len(fwd) : fwd[j] = fwd'[i],
         \A i \in 1 .. Len(bwd') :
           bwd'[i].type # EOT \/ rcv_done' \/ \E j \in 1 .. Len(bwd) : bwd[j] = bwd'[i],
         rcv_sndpkt' = rcv_sndpkt \/ rcv_done' \/ rcv_sndpkt'.type # EOT,
         SocketsClosed' => SocketsClosed \/ rcv_done'
  PROVE  EndInv'
BY DEF EndInv

\* A step that leaves the queues, the receiver and the main thread's end alone keeps it.
LEMMA EndUntouched ==
  ASSUME EndInv, UNCHANGED <<fwd, bwd, rcv_sndpkt, rcv_done>>, should_send_eot => should_send_eot',
         SocketsClosed' => SocketsClosed \/ rcv_done
  PROVE  EndInv'
BY DEF EndInv

\* So does one that sends a data packet.
LEMMA EndDataSent ==
  ASSUME EndInv, fwd \in Seq(Packet), NEW p \in Packet, p.type = DATA,
         fwd' = fwd \/ fwd' \in Forward(fwd, p),
         UNCHANGED <<bwd, rcv_sndpkt, rcv_done>>, should_send_eot => should_send_eot',
         SocketsClosed' => SocketsClosed
  PROVE  EndInv'
<1>1. p.type # EOT
  BY DEF DATA, EOT
<1>2. \A i \in 1 .. Len(fwd') :
        fwd'[i].type # EOT \/ \E j \in 1 .. Len(fwd) : fwd[j] = fwd'[i]
  BY <1>1, ForwardHad
<1> QED
  BY <1>2, EndKept

\* The main thread is where it was unless it is the one that goes on.
LEMMA MainStays ==
  ASSUME PcOK, NEW t \in Thread, t # main, NEW l, NEW k \in Timers, NEW m,
         \/ pc' = [pc EXCEPT ![t] = l]
         \/ pc' = [pc EXCEPT ![t] = l, ![k] = m]
  PROVE  pc'[main] = pc[main]
BY Labels DEF PcOK

\* The statements of timer_start.
LEMMA EndTimerStart ==
  ASSUME StatementInv, EndInv, NEW t \in Thread, TimerStartStep(t)
  PROVE  EndInv'
<1>1. UNCHANGED <<fwd, bwd, rcv_sndpkt, rcv_done, should_send_eot>>
  BY DEF TimerStartStep, TimerCheck, TimerCancel, TimerNew, TimerRun, netvars, rcvvars
<1>2. PcOK /\ timer \in Timers \cup {None}
      /\ (pc[t] \in {"timer_cancel", "timer_run"} => timer \in Timers)
  BY StatementInvPc DEF ControlInv
<1>3. pc'[main] = pc[main] \/ ~SocketsClosed'
  <2>1. CASE TimerCheck(t)
    BY <1>2, <2>1, Labels DEF TimerCheck, Goto, PcOK, SocketsClosed
  <2>2. CASE TimerCancel(t)
    <3>1. pc'[main] = IF t = main THEN "timer_new" ELSE pc[main]
      BY <1>2, <2>2, Labels DEF TimerCancel, PcOK
    <3> QED
      BY <3>1 DEF SocketsClosed
  <2>3. CASE TimerNew(t)
    <3>1. pc'[main] = IF t = main THEN "timer_run" ELSE pc[main]
      BY <1>2, <2>3, Labels DEF TimerNew, PcOK
    <3> QED
      BY <3>1 DEF SocketsClosed
  <2>4. CASE TimerRun(t)
    <3>1. pc'[main] \in (IF t = main THEN {"recv", "dead"} ELSE {pc[main]})
      BY <1>2, <2>4, Labels DEF TimerRun, AfterTimerStart, PcOK
    <3> QED
      BY <3>1 DEF SocketsClosed
  <2> QED
    BY <2>1, <2>2, <2>3, <2>4 DEF TimerStartStep
<1>4. SocketsClosed' => SocketsClosed
  BY <1>3 DEF SocketsClosed
<1> QED
  BY <1>1, <1>4, EndUntouched

\* The statements of timeout_event.
LEMMA EndTimerThread ==
  ASSUME StatementInv, EndInv, NEW k \in Timers, TimerThread(k)
  PROVE  EndInv'
<1>1. /\ UNCHANGED <<bwd, rcv_sndpkt, rcv_done, should_send_eot>> /\ k \in Thread /\ k # main
      /\ pc' = pc \/ \E l : pc' = [pc EXCEPT ![k] = l]
  BY Labels DEF TimerThread, TimerFires, UnackedStart, UnackedEnd, Resend, ResendEnd, Goto,
                netvars, rcvvars
<1>2. SocketsClosed' => SocketsClosed
  BY <1>1, StatementInvPc, MainStays DEF SocketsClosed
<1>3. CASE Resend(k)
  <2>1. fwd' = fwd \/ \E s \in SeqNum : sndpkt[s] # NoPacket /\ fwd' \in Forward(fwd, sndpkt[s])
    <3>1. burst[k] # <<>> /\ burst[k] \in Seq(SeqNum)
      BY <1>3, StatementInvPc DEF Resend
    <3>2. Head(burst[k]) \in SeqNum
      BY <3>1, TailResult
    <3> QED
      BY <1>3, <3>2 DEF Resend
  <2>2. CASE fwd' = fwd
    BY <1>1, <1>2, <2>2, EndUntouched
  <2>3. CASE \E s \in SeqNum : sndpkt[s] # NoPacket /\ fwd' \in Forward(fwd, sndpkt[s])
    <3>1. PICK s \in SeqNum : sndpkt[s] # NoPacket /\ fwd' \in Forward(fwd, sndpkt[s])
      BY <2>3
    <3>2. fwd \in Seq(Packet) /\ sndpkt[s] \in Packet /\ sndpkt[s].type = DATA
      BY <3>1 DEF StatementInv, TypeOK, NetworkTypeOK, DataInv
    <3> QED
      BY <1>1, <1>2, <3>1, <3>2, EndDataSent
  <2> QED
    BY <2>1, <2>2, <2>3
<1>4. CASE ~Resend(k)
  <2>1. UNCHANGED fwd
    BY <1>4 DEF TimerThread, TimerFires, UnackedStart, UnackedEnd, ResendEnd, netvars
  <2> QED
    BY <1>1, <1>2, <2>1, EndUntouched
<1> QED
  BY <1>3, <1>4

\* The sending thread.
LEMMA EndSendingThread ==
  ASSUME StatementInv, EndInv, SendingThread
  PROVE  EndInv'
<1>1. /\ UNCHANGED <<bwd, rcv_sndpkt, rcv_done>> /\ (should_send_eot => should_send_eot')
      /\ sending \in Thread /\ sending # main /\ \E l : pc' = [pc EXCEPT ![sending] = l]
  BY Labels DEF SendingThread, Guard1, Guard2, Store, Send, SendCompare, SendIncr,
                SetShouldSendEot, Goto, netvars, rcvvars
<1>2. SocketsClosed' => SocketsClosed
  BY <1>1, StatementInvPc, MainStays DEF SocketsClosed
<1>3. CASE Send
  <2>1. /\ fwd \in Seq(Packet) /\ sndpkt[nextseqnum] \in Packet /\ pc[sending] = "send"
        /\ nextseqnum \in SeqNum /\ fwd' \in Forward(fwd, sndpkt[nextseqnum])
    BY <1>3 DEF StatementInv, TypeOK, NetworkTypeOK, Send
  <2>2. sndpkt[nextseqnum].type = DATA
    BY <2>1 DEF StatementInv, DataInv, NoPacket
  <2> QED
    BY <1>1, <1>2, <2>1, <2>2, EndDataSent
<1>4. CASE ~Send
  <2>1. UNCHANGED fwd
    BY <1>4 DEF SendingThread, Guard1, Guard2, Store, SendCompare, SendIncr, SetShouldSendEot,
                netvars
  <2> QED
    BY <1>1, <1>2, <2>1, EndUntouched
<1> QED
  BY <1>3, <1>4

\* The main thread: only the EOT of a receiver that has ended lets it leave its loop.
LEMMA EndMainThread ==
  ASSUME StatementInv, EndInv, MainThread
  PROVE  EndInv'
<1>1. /\ UNCHANGED <<rcv_sndpkt, rcv_done, should_send_eot>> /\ PcOK /\ timer \in Timers \cup {None}
      /\ main \in Thread /\ main \notin Timers
      /\ fwd \in Seq(Packet) /\ bwd \in Seq(Packet) /\ nextseqnum \in SeqNum
  <2>1. UNCHANGED <<rcv_sndpkt, rcv_done, should_send_eot>>
    BY DEF MainThread, RecvAck, RcvCompare, TimerStop, CheckFlag, SendEot, EotIncr, RecvEot,
           Join, LastTimerStop, rcvvars
  <2> QED
    BY <2>1, StatementInvPc, Labels DEF StatementInv, TypeOK, NetworkTypeOK
<1>2. CASE RecvAck
  <2>1. /\ bwd # <<>> /\ bwd' = Tail(bwd) /\ UNCHANGED fwd
        /\ pc' = [pc EXCEPT ![main] = "compare"]
    BY <1>2 DEF RecvAck, NextIs, Goto
  <2>2. ~SocketsClosed'
    BY <1>1, <2>1 DEF SocketsClosed, PcOK
  <2> QED
    BY <1>1, <2>1, <2>2, TailHad, EndKept
<1>3. CASE RecvEot
  <2>1. /\ bwd # <<>> /\ bwd' = Tail(bwd) /\ UNCHANGED fwd /\ Head(bwd).type = EOT
    BY <1>3 DEF RecvEot, NextIs
  <2>2. Head(bwd) = bwd[1] /\ 1 \in 1 .. Len(bwd)
    BY <1>1, <2>1, TailResult
  <2>3. rcv_done
    BY <2>1, <2>2 DEF EndInv
  <2> QED
    BY <1>1, <2>1, <2>3, TailHad, EndKept
<1>4. CASE SendEot
  <2>1. /\ fwd' \in Forward(fwd, CreateEot(nextseqnum)) /\ UNCHANGED bwd /\ pc[main] = "eot"
        /\ pc' = [pc EXCEPT ![main] = "incr"]
    BY <1>4 DEF SendEot, Goto
  <2>2. should_send_eot /\ CreateEot(nextseqnum) \in Packet
    BY <1>1, <2>1, CreatedPackets, StatementInvPc DEF ControlInv
  <2>3. ~SocketsClosed'
    BY <1>1, <2>1 DEF SocketsClosed, PcOK
  <2> QED
    BY <1>1, <2>1, <2>2, <2>3, EndKept
<1>5. CASE RcvCompare \/ TimerStop \/ CheckFlag \/ EotIncr
  <2>1. UNCHANGED <<fwd, bwd>>
    BY <1>5 DEF RcvCompare, TimerStop, CheckFlag, EotIncr, netvars
  <2>2. ~SocketsClosed'
    <3>1. CASE RcvCompare
      BY <1>1, <3>1 DEF RcvCompare, Goto, SocketsClosed, PcOK
    <3>2. CASE TimerStop
      BY <1>1, <3>2 DEF TimerStop, Goto, SocketsClosed, PcOK
    <3>3. CASE CheckFlag
      BY <1>1, <3>3 DEF CheckFlag, Goto, SocketsClosed, PcOK
    <3>4. CASE EotIncr
      BY <1>1, <3>4 DEF EotIncr, Goto, SocketsClosed, PcOK
    <3> QED
      BY <1>5, <3>1, <3>2, <3>3, <3>4
  <2> QED
    BY <1>1, <2>1, <2>2, EndUntouched
<1>6. CASE Join \/ LastTimerStop
  <2>1. UNCHANGED <<fwd, bwd>> /\ SocketsClosed
    BY <1>6 DEF Join, LastTimerStop, SocketsClosed, netvars
  <2> QED
    BY <1>1, <2>1, EndUntouched
<1> QED
  BY <1>2, <1>3, <1>4, <1>5, <1>6 DEF MainThread

\* The receiver.
LEMMA EndReceiver ==
  ASSUME StatementInv, EndInv, Receiver, UNCHANGED sndvars
  PROVE  EndInv'
<1>1. UNCHANGED should_send_eot /\ (SocketsClosed' => SocketsClosed)
  BY DEF sndvars, SocketsClosed
<1>2. /\ fwd \in Seq(Packet) /\ bwd \in Seq(Packet)
      /\ expectedseqnum \in SeqNum /\ rcv_sndpkt \in Packet
  BY DEF StatementInv, TypeOK, NetworkTypeOK
<1>3. /\ fwd # <<>> /\ fwd' = Tail(fwd)
      /\ \A i \in 1 .. Len(fwd') : \E j \in 1 .. Len(fwd) : fwd[j] = fwd'[i]
  <2>1. fwd # <<>> /\ fwd' = Tail(fwd)
    BY DEF Receiver, ReceiveExpected, ReceiveUnexpected, ReceiveEot, ReceiverClosed, NextIs
  <2> QED
    BY <1>2, <2>1, TailHad
<1>4. CASE ReceiveExpected
  <2>1. /\ UNCHANGED rcv_done /\ bwd' \in Forward(bwd, CreateAck(expectedseqnum))
        /\ rcv_sndpkt' = CreateAck(expectedseqnum)
        /\ expectedseqnum \in Int
    BY <1>2, <1>4, GbnAssumption DEF ReceiveExpected, SeqNum
  <2>2. CreateAck(expectedseqnum) \in Packet /\ CreateAck(expectedseqnum).type # EOT
    BY <2>1, CreatedAck DEF ACK, EOT
  <2>3. \A i \in 1 .. Len(bwd') :
          bwd'[i].type # EOT \/ \E j \in 1 .. Len(bwd) : bwd[j] = bwd'[i]
    BY <1>2, <2>1, <2>2, ForwardHad
  <2> QED
    BY <1>1, <1>3, <2>1, <2>2, <2>3, EndKept
\* Also the reply to an unexpected packet is an EOT only once the receiver has ended,
\* and then it receives no more.
<1>5. CASE ReceiveUnexpected \/ ReceiveEot \/ ReceiverClosed
  <2>1. CASE ReceiveEot
    BY <1>1, <1>3, <2>1, EndKept DEF ReceiveEot
  <2>2. CASE ReceiverClosed
    BY <1>1, <1>3, <2>2, EndKept DEF ReceiverClosed, rcvvars
  <2>3. CASE ReceiveUnexpected
    <3>1. UNCHANGED <<rcv_done, rcv_sndpkt>> /\ ~rcv_done /\ bwd' \in Forward(bwd, rcv_sndpkt)
      BY <2>3 DEF ReceiveUnexpected, ReplyToUnexpected, rcvvars
    <3>2. rcv_sndpkt.type # EOT
      BY <3>1 DEF EndInv
    <3>3. \A i \in 1 .. Len(bwd') :
            bwd'[i].type # EOT \/ \E j \in 1 .. Len(bwd) : bwd[j] = bwd'[i]
      BY <1>2, <3>1, <3>2, ForwardHad
    <3> QED
      BY <1>1, <1>3, <3>1, <3>3, EndKept
  <2> QED
    BY <1>5, <2>1, <2>2, <2>3
<1> QED
  BY <1>4, <1>5 DEF Receiver

\* The program starts with the invariant.
LEMMA InitInv == Init => ThreadInv
<1> SUFFICES ASSUME Init PROVE ThreadInv
  OBVIOUS
<1>1. StatementInv
  BY StatementInit
<1>2. EndInv
  <2>1. fwd = <<>> /\ bwd = <<>> /\ pc[main] = "recv"
    BY Labels DEF Init
  <2>2. rcv_sndpkt.type # EOT
    BY CreatedAck DEF Init, ReceiverInit, InitialAck, ACK, EOT
  <2> QED
    BY <2>1, <2>2 DEF EndInv, SocketsClosed
<1> QED
  BY <1>1, <1>2 DEF ThreadInv

\* Whatever thread is next, its statement keeps the invariant.
LEMMA StepInv ==
  ASSUME ThreadInv, [Next]_vars
  PROVE  ThreadInv'
<1>1. StatementInv' /\ StatementInv /\ EndInv
  BY StatementStep DEF ThreadInv
<1>2. EndInv'
  <2>1. CASE UNCHANGED vars
    BY <1>1, <2>1 DEF EndInv, SocketsClosed, vars, netvars, rcvvars, sndvars
  <2> QED
    BY <1>1, <2>1, EndMainThread, EndSendingThread, EndTimerThread, EndTimerStart, EndReceiver
    DEF Next
<1> QED
  BY <1>1, <1>2 DEF ThreadInv

\* Only the last statement of start() ends the main thread.
LEMMA ExitStays ==
  ASSUME ThreadInv, [Next]_vars, ~LastTimerStop
  PROVE  pc'[main] = "exit" <=> pc[main] = "exit"
<1>1. /\ PcOK /\ timer \in Timers \cup {None} /\ main \in Thread /\ main \notin Timers
      /\ main # sending /\ sending \in Thread /\ Timers \subseteq Thread
      /\ \A t \in Thread : pc[t] \in {"timer_cancel", "timer_run"} => timer \in Timers
  BY StatementInvPc, Labels DEF ThreadInv, ControlInv
<1>2. CASE MainThread
  <2>1. pc[main] # "exit"
    BY <1>2 DEF MainThread, RecvAck, RcvCompare, TimerStop, CheckFlag, SendEot, EotIncr,
                RecvEot, Join, LastTimerStop
  <2>2. CASE TimerStop
    BY <1>1, <2>1, <2>2 DEF TimerStop, Goto, PcOK
  <2>3. CASE \E l : l # "exit" /\ Goto(main, l)
    BY <1>1, <2>1, <2>3 DEF Goto, PcOK
  <2>4. TimerStop \/ \E l : l # "exit" /\ Goto(main, l)
    BY <1>2 DEF MainThread, RecvAck, RcvCompare, CheckFlag, SendEot, EotIncr, RecvEot, Join
  <2> QED
    BY <2>2, <2>3, <2>4
<1>3. CASE SendingThread
  <2>1. \E l : pc' = [pc EXCEPT ![sending] = l]
    BY <1>3 DEF SendingThread, Guard1, Guard2, Store, Send, SendCompare, SendIncr,
                SetShouldSendEot, Goto
  <2> QED
    BY <1>1, <2>1, MainStays
<1>4. CASE \E k \in Timers : TimerThread(k)
  <2>1. PICK k \in Timers : pc' = pc \/ \E l : pc' = [pc EXCEPT ![k] = l]
    BY <1>4 DEF TimerThread, TimerFires, UnackedStart, UnackedEnd, Resend, ResendEnd, Goto
  <2> QED
    BY <1>1, <2>1, MainStays
<1>5. CASE \E t \in Thread : TimerStartStep(t)
  <2>1. PICK t \in Thread : TimerStartStep(t)
    BY <1>5
  <2>2. CASE TimerCheck(t)
    BY <1>1, <2>2 DEF TimerCheck, Goto, PcOK
  <2>3. CASE TimerCancel(t)
    BY <1>1, <2>3 DEF TimerCancel, PcOK
  <2>4. CASE TimerNew(t)
    BY <1>1, <2>4 DEF TimerNew, PcOK
  <2>5. CASE TimerRun(t)
    BY <1>1, <2>5 DEF TimerRun, AfterTimerStart, PcOK
  <2> QED
    BY <2>1, <2>2, <2>3, <2>4, <2>5 DEF TimerStartStep
<1>6. CASE UNCHANGED pc
  BY <1>6
<1> QED
  BY <1>2, <1>3, <1>4, <1>5, <1>6 DEF Next, vars, sndvars

-----------------------------------------------------------------------------
(* The theorems.                                                           *)

\* Between any two statements of the threads the invariant holds.
THEOREM Invariance == Spec => []ThreadInv
<1>1. Init => ThreadInv
  BY InitInv
<1>2. ThreadInv /\ [Next]_vars => ThreadInv'
  BY StepInv
<1> QED
  BY <1>1, <1>2, PTL DEF Spec

\* For a file of fewer than SeqModulo chunks no interleaving of the sender's threads
\* puts a chunk into the copy in the wrong place, twice, or instead of another one.
THEOREM CopyIsPrefix == ASSUME NumChunks < SeqModulo PROVE Spec => []InOrderPrefix
<1>1. ThreadInv => InOrderPrefix
  BY DEF ThreadInv, StatementInv
<1> QED
  BY <1>1, Invariance, PTL

\* ... nor is a chunk forgotten before it is written, or more than a window of them
\* on the way.
THEOREM WindowIsKept == Spec => []WindowKept
<1>1. ThreadInv => WindowKept
  BY DEF ThreadInv, StatementInv, CountInv, WindowKept
<1> QED
  BY <1>1, Invariance, PTL

\* For a file of fewer than SeqModulo chunks sender, emulator and receiver implement
\* FileTransfer however the sender's threads are interleaved: chunks are written one by
\* one and in order, the receiver ends with all but at most the last window of them, and
\* start() returns only after it.
THEOREM ImplementsFileTransfer == ASSUME NumChunks < SeqModulo PROVE Spec => TransfersFile
<1>1. Init => Transfer!Init
  BY Labels DEF Init, ReceiverInit, Transfer!Init
<1>2. ASSUME ThreadInv, [Next]_vars
      PROVE  [Transfer!Next]_(Transfer!ftvars)
  <2> USE DEF Transfer!ftvars, Transfer!Next
  <2>1. CASE ReceiveExpected /\ UNCHANGED sndvars
    <3>1. /\ ~rcv_done /\ UNCHANGED <<rcv_done, pc>> /\ out' = Append(out, Head(fwd).data)
      BY <2>1 DEF ReceiveExpected, sndvars
    <3>2. out \in Seq(Chunk) /\ Head(fwd).data \in Chunk /\ Head(fwd).data = Len(out) + 1
      <4>1. Head(fwd).data = expectedseqnum + 1 /\ Head(fwd).data \in Chunk
        BY <1>2, <2>1, ForwardsTaken DEF ReceiveExpected, NextIs, ThreadInv
      <4> QED
        BY <1>2, <4>1 DEF ThreadInv, StatementInv, CountInv, TypeOK, NetworkTypeOK
    <3>3. Len(out) < NumChunks
      BY <3>2, LenProperties, GbnAssumption DEF Chunk
    <3> QED
      BY <3>1, <3>2, <3>3 DEF Transfer!Write
  <2>2. CASE ReceiveEot /\ UNCHANGED sndvars
    <3>1. /\ ~rcv_done /\ rcv_done' = TRUE /\ UNCHANGED <<out, pc>>
          /\ fwd # <<>> /\ Head(fwd).type = EOT
      BY <2>2 DEF ReceiveEot, NextIs, sndvars
    <3>2. should_send_eot
      <4>1. Head(fwd) = fwd[1] /\ 1 \in 1 .. Len(fwd)
        BY <1>2, <3>1, TailResult DEF ThreadInv, StatementInv, TypeOK, NetworkTypeOK
      <4> QED
        BY <1>2, <3>1, <4>1 DEF ThreadInv, EndInv
    <3>3. Stored = NumChunks
      BY <1>2, <3>2 DEF ThreadInv, StatementInv, ControlInv, Stored, TimerStart
    <3>4. base <= Len(out) /\ Stored <= base + WindowSize /\ base \in Nat /\ Len(out) \in Nat
      BY <1>2, LenProperties, GbnAssumption
      DEF ThreadInv, StatementInv, CountInv, TypeOK, NetworkTypeOK, SeqNum
    <3>5. Len(out) + WindowSize >= NumChunks
      BY <3>3, <3>4, GbnAssumption
    <3> QED
      BY <3>1, <3>5 DEF Transfer!Close
  <2>3. CASE LastTimerStop
    <3>1. /\ UNCHANGED <<out, rcv_done>> /\ pc[main] = "last_stop"
          /\ pc'[main] \in {"exit", "dead"}
      BY <1>2, <2>3, Labels DEF LastTimerStop, rcvvars, ThreadInv, StatementInv, TypeOK
    <3>2. rcv_done
      BY <1>2, <3>1 DEF ThreadInv, EndInv, SocketsClosed
    <3> QED
      BY <3>1, <3>2 DEF Transfer!Confirm
  <2>4. CASE UNCHANGED <<out, rcv_done>> /\ (pc'[main] = "exit" <=> pc[main] = "exit")
    BY <2>4
  <2>5. CASE ~(Receiver /\ UNCHANGED sndvars) /\ ~LastTimerStop
    <3>1. UNCHANGED <<out, rcv_done>>
      BY <1>2, <2>5
      DEF Next, MainThread, RecvAck, RcvCompare, TimerStop, CheckFlag, SendEot, EotIncr, RecvEot,
          Join, SendingThread, Guard1, Guard2, Store, Send, SendCompare, SendIncr,
          SetShouldSendEot, TimerThread, TimerFires, UnackedStart, UnackedEnd, Resend, ResendEnd,
          TimerStartStep, TimerCheck, TimerCancel, TimerNew, TimerRun, vars, rcvvars
    <3>2. pc'[main] = "exit" <=> pc[main] = "exit"
      BY <1>2, <2>5, ExitStays
    <3> QED
      BY <2>4, <3>1, <3>2
  <2>6. CASE (ReceiveUnexpected \/ ReceiverClosed) /\ UNCHANGED sndvars
    BY <2>4, <2>6 DEF ReceiveUnexpected, ReceiverClosed, rcvvars, sndvars
  <2> QED
    BY <2>1, <2>2, <2>3, <2>5, <2>6 DEF Receiver
<1> QED
  BY <1>1, <1>2, Invariance, PTL DEF Spec, TransfersFile, Transfer!Spec
=============================================================================
