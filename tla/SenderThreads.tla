---------------------------- MODULE SenderThreads ----------------------------
(***************************************************************************)
(* The sender of a2/sender.py statement by statement. The main thread      *)
(* (wait_loop), the sending thread and the threads of the Timer objects    *)
(* share base, nextseqnum, sndpkt, timer and should_send_eot without a     *)
(* lock; a thread may be preempted between any two accesses to them. One   *)
(* step makes two accesses only where the first reads what no other thread *)
(* can change meanwhile, or what it may as well have read later.           *)
(*                                                                         *)
(* A thread that raises an exception dies; the others go on.               *)
(***************************************************************************)
EXTENDS GbnNetwork

CONSTANTS
  main,       \* the thread that runs wait_loop
  sending,    \* the thread that runs sending_thread
  Timers,     \* the Timer objects; a bound: unused ones are used again
  None        \* no Timer object

ASSUME ThreadAssumption == main # sending /\ {main, sending, None} \cap Timers = {}

VARIABLES
  base, nextseqnum, sndpkt, should_send_eot,   \* the attributes of Sender
  timer,      \* Sender.timer
  offset,     \* chunks for which rdt_send has returned False
  pc,         \* the next statement of each thread
  burst       \* what a timer thread has read of unacked(): slots still to resend

sndvars == <<base, nextseqnum, sndpkt, should_send_eot, timer, offset, pc, burst>>
vars == <<netvars, rcvvars, sndvars>>

Thread == {main, sending} \cup Timers
NoPacket == [type |-> DATA, seq_num |-> 0, data |-> NoData]

\* Statements of timer_start, which every thread calls.
TimerStart == {"timer_check", "timer_cancel", "timer_new", "timer_run"}

Label ==
  [t \in Thread |->
    CASE t = main -> TimerStart \cup {"recv", "compare", "stop", "flag?", "eot", "incr",
                                      "join", "last_stop", "exit", "dead"}
      [] t = sending -> TimerStart \cup {"guard1", "guard2", "store", "send", "compare",
                                         "incr", "dead", "exit"}
      [] OTHER -> TimerStart \cup {"new", "cancelled", "waiting", "start", "end", "resend",
                                   "dead"}]

TypeOK ==
  /\ NetworkTypeOK
  /\ base \in SeqNum
  /\ nextseqnum \in SeqNum
  /\ sndpkt \in [SeqNum -> Packet]
  /\ should_send_eot \in BOOLEAN
  /\ timer \in Timers \cup {None}
  /\ offset \in 0 .. NumChunks
  /\ pc \in [Thread -> UNION {Label[t] : t \in Thread}]
  /\ \A t \in Thread : pc[t] \in Label[t]
  /\ burst \in [Timers -> Seq(SeqNum)]

Init ==
  /\ fwd = <<>>
  /\ bwd = <<>>
  /\ ReceiverInit
  /\ base = 0
  /\ nextseqnum = 0
  /\ sndpkt = [s \in SeqNum |-> NoPacket]
  /\ should_send_eot = FALSE
  /\ timer = None
  /\ offset = 0
  /\ pc = [t \in Thread |-> IF t = main THEN "recv" ELSE IF t = sending THEN "guard1" ELSE "dead"]
  /\ burst = [k \in Timers |-> <<>>]

\* Thread t goes on at label l.
Goto(t, l) == pc' = [pc EXCEPT ![t] = l]

\* start() has closed the sockets: the next send raises OSError.
SocketsClosed == pc[main] \in {"join", "last_stop", "exit"}

-----------------------------------------------------------------------------
(* Timer objects. A started Timer is a thread that waits, and calls        *)
(* timeout_event unless it was cancelled while it waited.                  *)

Cancelled(label) ==
  CASE label = "new" -> "cancelled"
    [] label = "waiting" -> "dead"
    [] OTHER -> label

\* Where timer_start returns to.
AfterTimerStart(t) == IF t = main THEN "recv" ELSE IF t = sending THEN "incr" ELSE "start"

\* if self.timer is not None
TimerCheck(t) ==
  /\ pc[t] = "timer_check"
  /\ Goto(t, IF timer = None THEN "timer_new" ELSE "timer_cancel")
  /\ UNCHANGED <<netvars, rcvvars, base, nextseqnum, sndpkt, should_send_eot, timer, offset, burst>>

\* self.timer_stop()
TimerCancel(t) ==
  /\ pc[t] = "timer_cancel"
  /\ pc' = [pc EXCEPT ![t] = "timer_new", ![timer] = Cancelled(@)]
  /\ UNCHANGED <<netvars, rcvvars, base, nextseqnum, sndpkt, should_send_eot, timer, offset, burst>>

\* The object is no running thread, and nothing refers to it once self.timer is
\* overwritten.
Unused(k) == pc[k] = "dead" \/ (pc[k] \in {"new", "cancelled"} /\ timer # k)

\* self.timer = threading.Timer(0.1, self.timeout_event)
TimerNew(t) ==
  /\ pc[t] = "timer_new"
  /\ \E k \in Timers :
       /\ Unused(k)
       /\ timer' = k
       /\ pc' = [pc EXCEPT ![t] = "timer_run", ![k] = "new"]
  /\ UNCHANGED <<netvars, rcvvars, base, nextseqnum, sndpkt, should_send_eot, offset, burst>>

\* self.timer.start() -- whichever Timer self.timer is by now; one that was
\* started before raises RuntimeError.
TimerRun(t) ==
  /\ pc[t] = "timer_run"
  /\ pc' = CASE pc[timer] = "new" -> [pc EXCEPT ![t] = AfterTimerStart(t), ![timer] = "waiting"]
             [] pc[timer] = "cancelled" -> [pc EXCEPT ![t] = AfterTimerStart(t), ![timer] = "dead"]
             [] OTHER -> [pc EXCEPT ![t] = "dead"]
  /\ UNCHANGED <<netvars, rcvvars, base, nextseqnum, sndpkt, should_send_eot, timer, offset, burst>>

\* 0.1 seconds have passed: timeout_event begins.
TimerFires(k) ==
  /\ pc[k] = "waiting"
  /\ Goto(k, "timer_check")
  /\ UNCHANGED <<netvars, rcvvars, base, nextseqnum, sndpkt, should_send_eot, timer, offset, burst>>

\* unacked(): start = self.base
UnackedStart(k) ==
  /\ pc[k] = "start"
  /\ burst' = [burst EXCEPT ![k] = <<base>>]
  /\ Goto(k, "end")
  /\ UNCHANGED <<netvars, rcvvars, base, nextseqnum, sndpkt, should_send_eot, timer, offset>>

\* unacked(): end = self.nextseqnum
UnackedEnd(k) ==
  /\ pc[k] = "end"
  /\ LET start == Head(burst[k])
         len == (nextseqnum - start) % SeqModulo
     IN burst' = [burst EXCEPT ![k] = [i \in 1 .. len |-> (start + i - 1) % SeqModulo]]
  /\ Goto(k, "resend")
  /\ UNCHANGED <<netvars, rcvvars, base, nextseqnum, sndpkt, should_send_eot, timer, offset>>

\* One round of the loop of timeout_event.
Resend(k) ==
  /\ pc[k] = "resend"
  /\ burst[k] # <<>>
  /\ LET pack == sndpkt[Head(burst[k])]
         rest == Tail(burst[k])
     IN \/ /\ pack = NoPacket
           /\ burst' = [burst EXCEPT ![k] = rest]
           /\ UNCHANGED <<fwd, pc>>
        \/ /\ pack # NoPacket /\ ~SocketsClosed
           /\ fwd' \in Forward(fwd, pack)
           /\ burst' = [burst EXCEPT ![k] = rest]
           /\ UNCHANGED pc
        \/ /\ pack # NoPacket /\ SocketsClosed
           /\ Goto(k, "dead")
           /\ burst' = [burst EXCEPT ![k] = <<>>]
           /\ UNCHANGED fwd
  /\ UNCHANGED <<bwd, rcvvars, base, nextseqnum, sndpkt, should_send_eot, timer, offset>>

ResendEnd(k) ==
  /\ pc[k] = "resend"
  /\ burst[k] = <<>>
  /\ Goto(k, "dead")
  /\ UNCHANGED <<netvars, rcvvars, base, nextseqnum, sndpkt, should_send_eot, timer, offset, burst>>

TimerThread(k) ==
  TimerFires(k) \/ UnackedStart(k) \/ UnackedEnd(k) \/ Resend(k) \/ ResendEnd(k)
-----------------------------------------------------------------------------
(* The sending thread: rdt_send for each chunk, again when it is refused.  *)

\* The two comparisons of the guard read self.base twice.
Guard1 ==
  /\ pc[sending] = "guard1"
  /\ offset < NumChunks
  /\ base <= nextseqnum
  /\ Goto(sending, "guard2")
  /\ UNCHANGED <<netvars, rcvvars, base, nextseqnum, sndpkt, should_send_eot, timer, offset, burst>>

\* Faulty variant: one packet more than the window holds.
WindowRoomOneMore == nextseqnum <= base + WindowSize

WindowRoom == nextseqnum < base + WindowSize

Guard2 ==
  /\ pc[sending] = "guard2"
  /\ Goto(sending, IF WindowRoom THEN "store" ELSE "guard1")
  /\ UNCHANGED <<netvars, rcvvars, base, nextseqnum, sndpkt, should_send_eot, timer, offset, burst>>

Store ==
  /\ pc[sending] = "store"
  /\ sndpkt' = [sndpkt EXCEPT ![nextseqnum] = CreatePacket(nextseqnum, offset + 1)]
  /\ Goto(sending, "send")
  /\ UNCHANGED <<netvars, rcvvars, base, nextseqnum, should_send_eot, timer, offset, burst>>

Send ==
  /\ pc[sending] = "send"
  /\ fwd' \in Forward(fwd, sndpkt[nextseqnum])
  /\ Goto(sending, "compare")
  /\ UNCHANGED <<bwd, rcvvars, base, nextseqnum, sndpkt, should_send_eot, timer, offset, burst>>

\* if self.base == self.nextseqnum: self.timer_start()
SendCompare ==
  /\ pc[sending] = "compare"
  /\ Goto(sending, IF base = nextseqnum THEN "timer_check" ELSE "incr")
  /\ UNCHANGED <<netvars, rcvvars, base, nextseqnum, sndpkt, should_send_eot, timer, offset, burst>>

SendIncr ==
  /\ pc[sending] = "incr"
  /\ nextseqnum' = Successor(nextseqnum)
  /\ offset' = offset + 1
  /\ Goto(sending, "guard1")
  /\ UNCHANGED <<netvars, rcvvars, base, sndpkt, should_send_eot, timer, burst>>

\* All chunks have been visited.
SetShouldSendEot ==
  /\ pc[sending] = "guard1"
  /\ offset = NumChunks
  /\ should_send_eot' = TRUE
  /\ Goto(sending, "exit")
  /\ UNCHANGED <<netvars, rcvvars, base, nextseqnum, sndpkt, timer, offset, burst>>

SendingThread ==
  Guard1 \/ Guard2 \/ Store \/ Send \/ SendCompare \/ SendIncr \/ SetShouldSendEot

-----------------------------------------------------------------------------
(* The main thread: wait_loop with rdt_rcv, then the end of start().       *)

\* An acknowledgement: rdt_rcv sets base.
RecvAck ==
  /\ pc[main] = "recv"
  /\ NextIs(bwd, ACK)
  /\ bwd' = Tail(bwd)
  /\ base' = Successor(Head(bwd).seq_num)
  /\ Goto(main, "compare")
  /\ UNCHANGED <<fwd, rcvvars, nextseqnum, sndpkt, should_send_eot, timer, offset, burst>>

\* if self.base == self.nextseqnum
RcvCompare ==
  /\ pc[main] = "compare"
  /\ Goto(main, IF base = nextseqnum THEN "stop" ELSE "timer_check")
  /\ UNCHANGED <<netvars, rcvvars, base, nextseqnum, sndpkt, should_send_eot, timer, offset, burst>>

\* timer_stop() cancels self.timer; None has no cancel: AttributeError.
TimerStop ==
  /\ pc[main] = "stop"
  /\ IF timer = None
     THEN Goto(main, "dead")
     ELSE pc' = [pc EXCEPT ![main] = "flag?", ![timer] = Cancelled(@)]
  /\ UNCHANGED <<netvars, rcvvars, base, nextseqnum, sndpkt, should_send_eot, timer, offset, burst>>

\* if self.should_send_eot
CheckFlag ==
  /\ pc[main] = "flag?"
  /\ Goto(main, IF should_send_eot THEN "eot" ELSE "recv")
  /\ UNCHANGED <<netvars, rcvvars, base, nextseqnum, sndpkt, should_send_eot, timer, offset, burst>>

SendEot ==
  /\ pc[main] = "eot"
  /\ fwd' \in Forward(fwd, CreateEot(nextseqnum))
  /\ Goto(main, "incr")
  /\ UNCHANGED <<bwd, rcvvars, base, nextseqnum, sndpkt, should_send_eot, timer, offset, burst>>

EotIncr ==
  /\ pc[main] = "incr"
  /\ nextseqnum' = Successor(nextseqnum)
  /\ Goto(main, "recv")
  /\ UNCHANGED <<netvars, rcvvars, base, sndpkt, should_send_eot, timer, offset, burst>>

\* The receiver's EOT: leave wait_loop, close the sockets.
RecvEot ==
  /\ pc[main] = "recv"
  /\ NextIs(bwd, EOT)
  /\ bwd' = Tail(bwd)
  /\ Goto(main, "join")
  /\ UNCHANGED <<fwd, rcvvars, base, nextseqnum, sndpkt, should_send_eot, timer, offset, burst>>

Join ==
  /\ pc[main] = "join"
  /\ pc[sending] \in {"exit", "dead"}
  /\ Goto(main, "last_stop")
  /\ UNCHANGED <<netvars, rcvvars, base, nextseqnum, sndpkt, should_send_eot, timer, offset, burst>>

\* "Stop timer, if any"
LastTimerStop ==
  /\ pc[main] = "last_stop"
  /\ pc' = IF timer = None THEN [pc EXCEPT ![main] = "dead"]
                           ELSE [pc EXCEPT ![main] = "exit", ![timer] = Cancelled(@)]
  /\ UNCHANGED <<netvars, rcvvars, base, nextseqnum, sndpkt, should_send_eot, timer, offset, burst>>

MainThread ==
  \/ RecvAck \/ RcvCompare \/ TimerStop \/ CheckFlag \/ SendEot \/ EotIncr
  \/ RecvEot \/ Join \/ LastTimerStop

-----------------------------------------------------------------------------
TimerStartStep(t) == TimerCheck(t) \/ TimerCancel(t) \/ TimerNew(t) \/ TimerRun(t)

Next ==
  \/ MainThread
  \/ SendingThread
  \/ \E k \in Timers : TimerThread(k)
  \/ \E t \in Thread : TimerStartStep(t)
  \/ Receiver /\ UNCHANGED sndvars

Spec == Init /\ [][Next]_vars
-----------------------------------------------------------------------------
\* Chunks put into sndpkt so far, which a timer thread may send at once.
Stored == IF pc[sending] \in {"send", "compare", "incr", "dead"} \cup TimerStart THEN offset + 1 ELSE offset

\* For a file of fewer than SeqModulo chunks the numbers do not wrap around, and
\* no interleaving of the threads lets the sender forget a chunk that is not
\* written, or have more than a window of them on the way (rdt_send, rdt_rcv).
WindowKept ==
  NumChunks < SeqModulo =>
    /\ base <= Len(out)
    /\ Len(out) <= Stored
    /\ Stored <= base + WindowSize

\* What is left of "an EOT should be send to the receiver when there is no unacked
\* packet" under every interleaving: chunks are written in order and none after the
\* end, a receiver that ends lacks at most the last window of the file, and start()
\* returns only when the receiver has ended.
Transfer == INSTANCE FileTransfer WITH
              copy <- out, closed <- rcv_done, confirmed <- pc[main] = "exit",
              Missing <- WindowSize

TransfersFile == Transfer!Spec

\* The comment itself says that a receiver that has ended has the whole file.
\* But rdt_rcv may compare base with nextseqnum while the sending thread has
\* sent a packet that nextseqnum does not count yet, and then see the flag set.
ClosedComplete == rcv_done => Len(out) = NumChunks

\* "Stop timer, if any": timer_stop calls cancel on None when the first
\* acknowledgement overtakes the timer_start of the packet it acknowledges. The
\* AttributeError ends the main thread.
MainThreadLives == pc[main] # "dead"

\* "Start the timer, if exists, reset the timer": when two threads are in
\* timer_start, both start the second one's Timer. The RuntimeError may end the
\* sending thread in the middle of the file.
SendingThreadLives == pc[sending] # "dead"

\* "Stop timer, if any": when start() returns no timeout is to come. A timer
\* thread that already runs starts another one.
NoTimerAfterExit == pc[main] = "exit" => \A k \in Timers : pc[k] # "waiting"

\* Nothing will happen any more: nothing is on its way, the main thread waits for a
\* packet, the sending thread is through with the file or refused, no timeout comes.
Quiet ==
  /\ fwd = <<>> /\ bwd = <<>>
  /\ pc[main] = "recv"
  /\ \/ pc[sending] = "exit"
     \/ pc[sending] = "guard1" /\ offset < NumChunks /\ ~(base <= nextseqnum /\ WindowRoom)
  /\ \A k \in Timers : pc[k] \in {"dead", "new", "cancelled"}

\* "If the window is empty, no unacked packet": rdt_send starts the timer for the first
\* packet of a window, so that no packet waits for its acknowledgement without a timeout.
\* But nextseqnum is incremented only after this test: an acknowledgement that empties the
\* window in between stops the timer, the packet just sent has none, and if it was
\* discarded everybody waits for ever.
NeverStuck == ~(Quiet /\ base # nextseqnum)

\* "If the flag is set, meaning that all chunks have been visited": the EOT is sent by the
\* rdt_rcv of the last acknowledgement, if the flag is set by then. But the sending thread
\* sets it after the last rdt_send has returned, and nothing tells the main thread: with the
\* window empty and the flag set, no packet comes that would make it look.
EotFollowsFlag == ~(Quiet /\ base = nextseqnum)
=============================================================================
