------------------------------- MODULE Crawler -------------------------------
(***************************************************************************)
(* project/crawler.py: threads, one for each web driver, take urls from a  *)
(* queue and put the links of the pages into it, up to a number of links   *)
(* for each host, which they count without a lock. What is on a page is    *)
(* arbitrary, so of a url only its host matters, and of the queue its      *)
(* length.                                                                 *)
(***************************************************************************)
EXTENDS Integers, FiniteSets, FiniteSetsExt

CONSTANTS
  Drivers,     \* driver ids, one thread each
  Hosts,       \* the netlocs of links
  Limit,       \* links of a host that are put into the queue: 1000 in the code
  InitUrls,    \* urls in the list the crawl starts from
  PageLinks    \* links of a page: a bound

ASSUME CrawlAssumption ==
  /\ IsFiniteSet(Drivers)
  /\ Limit \in Nat \ {0}
  /\ InitUrls \in Nat
  /\ PageLinks \in Nat

VARIABLES
  pc,            \* each thread: "start", "get", "page", "put", "load", "store" or "failed"
  queue,         \* urls in the queue
  netloc_count,  \* what the threads believe to have put for each host
  left,          \* links of its page a thread has still to look at
  netloc,        \* the host of the link a thread is at
  read,          \* the count a thread has read in netloc_count[...] += 1
  puts           \* history: links of each host put into the queue

NoHost == "none"

num_drivers == Cardinality(Drivers)

vars == <<pc, queue, netloc_count, left, netloc, read, puts>>

Init ==
  /\ pc = [d \in Drivers |-> "start"]
  /\ queue = InitUrls
  /\ netloc_count = [h \in Hosts |-> 0]
  /\ left = [d \in Drivers |-> 0]
  /\ netloc = [d \in Drivers |-> NoHost]
  /\ read = [d \in Drivers |-> 0]
  /\ puts = [h \in Hosts |-> 0]

At(d, from, to) == pc[d] = from /\ pc' = [pc EXCEPT ![d] = to]

\* The driver is made outside of the try statement: if that fails the thread ends.
MakeDriver(d) ==
  /\ At(d, "start", "get") \/ At(d, "start", "failed")
  /\ UNCHANGED <<queue, netloc_count, left, netloc, read, puts>>

\* Faulty variant: the url stays in the queue.
Unqueued == queue

Dequeued == queue - 1

\* queue.get; after 15 seconds without a url it is called again. The page has
\* any number of links, or cannot be loaded.
GetPage(d) ==
  /\ queue > 0
  /\ At(d, "get", "page")
  /\ queue' = Dequeued
  /\ \E n \in 0 .. PageLinks : left' = [left EXCEPT ![d] = n]
  /\ UNCHANGED <<netloc_count, netloc, read, puts>>

\* Faulty variant: any number of links.
WithinAny(h) == TRUE

Within(h) == netloc_count[h] < Limit

\* The next link: the count of its host is tested.
TestLink(d, h) ==
  /\ left[d] > 0
  /\ At(d, "page", IF Within(h) THEN "put" ELSE "page")
  /\ left' = [left EXCEPT ![d] = @ - 1]
  /\ netloc' = [netloc EXCEPT ![d] = h]
  /\ UNCHANGED <<queue, netloc_count, read, puts>>

\* There is no other link, or an exception ends the page.
LeavePage(d) ==
  /\ At(d, "page", "get")
  /\ left' = [left EXCEPT ![d] = 0]
  /\ UNCHANGED <<queue, netloc_count, netloc, read, puts>>

\* netloc_count[netloc] += 1, after the put, reads the count and then writes it.
PutLink(d) ==
  /\ At(d, "put", "load")
  /\ queue' = queue + 1
  /\ puts' = [puts EXCEPT ![netloc[d]] = @ + 1]
  /\ UNCHANGED <<netloc_count, left, netloc, read>>

LoadCount(d) ==
  /\ At(d, "load", "store")
  /\ read' = [read EXCEPT ![d] = netloc_count[netloc[d]]]
  /\ UNCHANGED <<queue, netloc_count, left, netloc, puts>>

\* Faulty variant: every link counts twice.
Twice(d) == read[d] + 2

Incremented(d) == read[d] + 1

StoreCount(d) ==
  /\ At(d, "store", "page")
  /\ netloc_count' = [netloc_count EXCEPT ![netloc[d]] = Incremented(d)]
  /\ UNCHANGED <<queue, left, netloc, read, puts>>

Thread(d) ==
  \/ MakeDriver(d) \/ GetPage(d) \/ LeavePage(d)
  \/ \E h \in Hosts : TestLink(d, h)
  \/ PutLink(d) \/ LoadCount(d) \/ StoreCount(d)

Next == \E d \in Drivers : Thread(d)

Spec == Init /\ [][Next]_vars

\* The threads are scheduled fairly.
FairSpec == Spec /\ \A d \in Drivers : WF_vars(Thread(d))

-----------------------------------------------------------------------------
TypeOK ==
  /\ pc \in [Drivers -> {"start", "get", "page", "put", "load", "store", "failed"}]
  /\ queue \in Nat
  /\ netloc_count \in [Hosts -> Nat]
  /\ left \in [Drivers -> Nat]
  /\ netloc \in [Drivers -> Hosts \cup {NoHost}]
  /\ read \in [Drivers -> Nat]
  /\ puts \in [Hosts -> Nat]

\* No host is cut short: whatever increments are lost or undone, a link is turned
\* away only after as many links of its host have been put as the limit allows.
NotCutShort == \A h \in Hosts : ~Within(h) => puts[h] >= Limit

\* The number of ways to choose k of m things.
Ways(m, k) == Cardinality(kSubset(k, 1 .. m))

MostPuts == Ways(Limit + num_drivers, num_drivers) - 1

\* The limit does not hold: a late write takes the count back to what its thread
\* once read, and the others fill it up again. With N threads the worst case is
\* not Limit + N - 1 but the number of ways to choose N of Limit + N things, less
\* one.
WorstCase == \A h \in Hosts : puts[h] <= MostPuts

\* Threads end only by failing to make their driver, but the crawl comes to rest:
\* for all the lost counts, in the end every url has been taken and no thread is
\* at a page, unless there is no thread left.
AtRest ==
  /\ \A d \in Drivers : pc[d] \in {"get", "failed"}
  /\ queue = 0 \/ \A d \in Drivers : pc[d] = "failed"

ComesToRest == <>[]AtRest
=============================================================================
