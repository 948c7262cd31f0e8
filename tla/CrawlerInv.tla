----------------------------- MODULE CrawlerInv -----------------------------
(***************************************************************************)
(* The inductive invariant behind the safety properties of Crawler.        *)
(***************************************************************************)
EXTENDS Crawler, Functions

\* Threads that have put a link of h and not yet written the count.
Counting(h) == {d \in Drivers : pc[d] \in {"load", "store"} /\ netloc[d] = h}

\* What a thread has read or the count says never exceeds the links put, those aside
\* whose threads are still counting.
CountInv ==
  /\ TypeOK
  /\ \A d \in Drivers : pc[d] \in {"put", "load", "store"} => netloc[d] \in Hosts
  /\ \A h \in Hosts :
       /\ netloc_count[h] + Cardinality(Counting(h)) <= puts[h]
       /\ \A d \in Drivers : pc[d] = "store" /\ netloc[d] = h =>
            read[d] + Cardinality(Counting(h)) <= puts[h]

\* The links that n threads can put of a host from a count of c on. Once one of them
\* has put a link and read c, the others can put what n - 1 threads can; then it
\* writes c + 1, and all n of them go on from there.
Most ==
  [c \in 0 .. Limit |-> [n \in 0 .. num_drivers |-> Ways(Limit - c + n, n) - 1]]

Room(c, n) == IF c < Limit THEN Most[c][n] ELSE 0

\* The count of h that d writes: the next one it writes, if it has read a count.
NextCount(d, h) ==
  1 + (IF pc[d] = "store" /\ netloc[d] = h THEN read[d] ELSE netloc_count[h])

\* d is about to put a link of h, or may come to that without another write.
MayPut(d, h) ==
  \/ pc[d] = "put" /\ netloc[d] = h
  \/ Within(h) /\ ~(pc[d] \in {"put", "load", "store"} /\ netloc[d] = h)

\* What the thread in place n adds if that is the order of their next writes: the link
\* it is at, and what it and those before it can put after its write.
Share(order, h) ==
  [n \in 1 .. num_drivers |->
     Room(NextCount(order[n], h), n) + (IF MayPut(order[n], h) THEN 1 ELSE 0)]

Total(f) ==
  LET sum[n \in 0 .. num_drivers] == IF n = 0 THEN 0 ELSE sum[n - 1] + f[n]
  IN sum[num_drivers]

Orders == Bijection(1 .. num_drivers, Drivers)

\* In whatever order the threads write, the links put and those that can still be put
\* are no more than all threads could put at the start.
RoomInv ==
  \A h \in Hosts, order \in Orders :
    puts[h] + Total(Share(order, h)) <= Room(0, num_drivers)

CrawlInv == CountInv /\ RoomInv
=============================================================================
