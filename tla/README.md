# A verification project for cs656-computer-networks

TLA+ modules, TLC configurations and TLAPS proofs about the programs in `src/`: a Go-Back-N file
transfer over UDP (`a2/`), a link state routing protocol over UDP (`a3/`), a message server with a
two-phase protocol (`a1/`) and two data collection scripts (`project/`).

Everything is translated from the source at this commit. `PROJECT.json` maps each definition that
models code to its lines and lists runs, mutants, hazards, findings and theorems.

## 1. The system

### a2: Go-Back-N file transfer

| Part | State | Operations | Talks to |
|---|---|---|---|
| `Sender` (`sender.py`) | `base`, `nextseqnum`, `sndpkt` (a slot per sequence number), `timer`, `should_send_eot`, the position of the chunker | `sending_thread`/`rdt_send`, `wait_loop`/`rdt_rcv`/`send_eot`, `timer_start`/`timer_stop`/`timeout_event`/`unacked`, `start` | emulator, by UDP; its three kinds of threads share all state and have no lock |
| `Receiver` (`receiver.py`) | `expectedseqnum`, `sndpkt` (the last acknowledgement), the output file | one branch of `loop` per kind of packet, `send_eot` | emulator, by UDP |
| `packet.py`, `udp.py` | none | `create_*`, `get_udp_data`, `parse_udp_data`, send, receive | |
| `nEmulator-linux386` | a queue per direction | a binary, not source: delays, discards | both hosts |

Hard: loss and duplication with numbers modulo 32; three kinds of threads without a lock; the end
(an EOT that is sent once); bytes against characters. Correct means: the copy is at any time a
prefix of the file, the receiver ends only with the whole file, the window is what Go-Back-N needs,
no packet waits without a timer, no thread dies, both programs end and the copy is the file. At the
level of statements most of it turns out to be false (section 6): what holds there are the prefix and
the window, of files whose numbers do not wrap around.

### a3: link state routing

| Part | State | Operations | Talks to |
|---|---|---|---|
| network forwarding emulator (`nfe.py`) | `topology`, `clients` | parse and validate the topology; collect init messages; reply; forward each LSA over the link its sender names | all routers, by UDP |
| `VirtualRouter` (`virtualrouter.py`) | `neighbors`, `link_costs`, `links`, `lsa_seen_before`, `graph`, `routing_table` | `init`, initial broadcast, `forward`/`propagate`, `update_from_LSA`/`update_graph`/`dijkstra` | the NFE only |

Hard: the order in which LSAs reach a router over different ways; knowledge that is put together
from LSAs and from who sent them; termination of the flooding; the partial graphs `dijkstra` is run
on meanwhile; loss without any retry, of the init reply too. Correct means: what a router knows is true; when flooding is
over all know everything and every table is a table of shortest paths; no router dies on the way.

### a1: message server

| Part | State | Operations | Talks to |
|---|---|---|---|
| server (`server.py`) | the selector with its keys, the sockets open, `messages` | event loop, `recv_client`, the four outcomes of `handle_request` | clients: a TCP connection for the request code, then a UDP socket of their own |
| client (`client.py`) | where it is in its program | `tcp`, `udp` | the server |

Hard: events of one `select` whose sockets earlier callbacks close and whose numbers are used again;
a blocking receive inside the event loop; a list of unknown length whose end is marked in band; the
end of the server with clients in its queue. Correct means: events are current, no client brings the
server down (false, section 6), an acknowledged message is stored, lists are complete, clients end.

### project: crawler and flows

`crawler.py`: ten threads take urls from a `Queue`, load the page and put its links back, up to 1000
per host, counted in an unlocked dictionary. Hard: test, put and `+= 1` are four steps; the threads
never end. Correct means: no host is cut short, the limit is not overrun without bound, the crawl
comes to rest. `tls_flows.py`: a sequential fold of the packets of a capture into flows. Hard: which
flow a packet belongs to when hellos repeat or go both ways, an exception between two records of one
packet, counts of zero. Correct means: each flow has exactly its packets.

`project/constants.py`, the notebook, loggers and shell scripts hold no state of the system and are
left out.

## 2. The modules

```
GbnNetwork  <--  GoBackN  <--  GoBackNInv  <--  GoBackNProofs
     ^---------  SenderThreads  <--  SenderThreadsInv  <--  SenderThreadsProofs, MCSenderThreads
                      v refines
                 FileTransfer        the abstract promise
TextTransfer  <--  TextTransferInv  <--  GoBackNProofs, MCTextTransfer

Networks            what the emulator of a3 accepts
     ^---------  Topology  <--  TopologyInv  <--  TopologyProofs, MCTopology
     ^---------  LinkState  <--  LinkStateInv  <--  MCLinkState
LinkState  <--  RoutingTable (+ Paths WITH Vertices <- Routers)  <--  MCRoutingTable
RoutingTable, LinkStateInv  <--  RoutingTableInv  <--  LinkStateProofs
                                 (which uses DijkstraProofs WITH Vertices <- Routers)
ShortestPath  <--  Paths  <--  Dijkstra  <--  DijkstraInv  <--  DijkstraProofs

MessageServer  <--  MessageServerInv  <--  MessageServerProofs, MCMessageServer
Crawler  <--  CrawlerInv  <--  ProjectProofs, MCCrawler
TlsFlows  <--  TlsFlowsInv  <--  ProjectProofs
    ^--------  MCTlsFlows

Lemmas              on queues, lists, numbers, sums and %, for the *Proofs modules
```

* **GbnNetwork**: packets, the emulator's two queues, the receiver. A chunk is its position in the
  file: the most discriminating content it can have, since any chunk out of place shows. The
  emulator is external: on arrival it may discard an ACK or DATA packet, discards when its queue is
  full, and never discards an EOT (`Forward`).
* **GoBackN**: the Go-Back-N *protocol* of the sender, with numbers that wrap around. `rdt_send` and
  `rdt_rcv` are one step each. Between their statements they are not: that is an abstraction the code
  does not justify, so nothing is claimed here that depends on a timer, on the flag being seen or on
  the programs ending; those are questions to `SenderThreads`. There is no timer: a timeout may come
  at any time, also one of a stale `Timer`, in any number of threads, each of which reads the window
  and then sends its slots one by one (`resend`) with all other steps in between, acknowledgements
  and new packets included. One assumption on time is left, `BurstsInTime`: a loop of `timeout_event`
  has sent a slot before `rdt_send` has come round to the number before it again. For that more than
  twenty further packets would have to be sent within a loop over ten; when it fails, so does the
  prefix (section 6).
* **SenderThreads**: the same sender statement by statement. The main thread, the sending thread and
  the threads of all `Timer` objects have program counters; a `Timer` is a model value whose counter
  says whether it is new, waiting, cancelled or running `timeout_event`. Exceptions (`cancel` of
  `None`, starting a `Timer` twice, sending on a closed socket) end their thread, as in Python. An
  acknowledgement may be handled between any two statements of `rdt_send`, also between `udt_send`
  and `incr_nextseqnum`, where `base` is ahead of `nextseqnum` and `unacked()` yields nearly all slots.
* **TextTransfer**: what happens to the content of a chunk: text mode, chunking by characters, the
  length field, UTF-8, decoding. It says for which files `GbnNetwork` may take a chunk for what is
  written: those of single-byte characters (as all files in `a2/` are).
* **FileTransfer**: what the a2 programs promise together: chunks are written one by one and in
  order, the receiver ends when at most `Missing` are not written and writes none after, the sender
  ends after it. One would want `Missing = 0`; `SenderThreads` implements it with
  `Missing = WindowSize` (`TransfersFile`), and with 0 it does not (`threads_truncate`).
* **LinkState**: the NFE and the routers. A datagram in the NFE's socket queue is placed directly in
  the queue of the router it goes to, which is the same since the NFE handles one after the other and
  keeps no state about them. A loop of sends is interleaved with everything else; its order is free,
  because `neighbors` is a set. `Router(r)` handles one new LSA per step, dropping the seen ones
  before it, and what it has seen when a datagram arrives is dropped then: dropping changes nothing
  but the queue, and what is seen stays seen. Init messages, init replies and LSAs may be lost, and a
  router may be killed and started again (`Fault`): one the NFE has no address of sends its init
  message again; one it has an address of is `"ignored"` from then on, since the NFE takes the second
  init message for a duplicate and knows no other address. `ReceiveInitReply` does not test the type
  of what it receives, as `init` does not: of an LSA it reads the sender's id as the number of links,
  `slink` with the router's id as the first link and its cost, `rlink` with its cost as the second
  (`LinksRead`); a third is not there, and the router dies of `struct.error` (`DieInInit`). A
  `KeyError` of `update_graph` ends it likewise (`KeyError`, phase `"dead"`).
* **Topology**: the class `Topology` of `nfe.py`: one step per link of the file, the three
  validations, and `validate_connected` router by router (`Visit`) and neighbour by neighbour
  (`Look`). A link id is a key (its spelling) and the number `int` makes of it. Accepted files with
  different numbers describe an `IsNetwork` (module **Networks**), and each router's list then has
  exactly its links: this is the theorem `AcceptedIsAssumed`. `IsNetwork` is also what
  `TopologyAssumption` asks for, under which everything else about a3 is checked and proved; besides,
  it asks for ids and costs in `Nat`, which the emulator does not validate and is assumed of the file.
* **ShortestPath**, **Paths**, **Dijkstra**: `dijkstra` with its heap, costs, parents and visited
  set, round by round; the definition of a distance over all simple paths; and the machine that runs
  the former on any graph and compares. `Finished` is the loop as a function of the graph, with which
  `RoutingTable` computes its tables; it stops counting rounds at `RoundLimit`, which is proved never
  to cut a run off (`LoopEnds`). The heap is a set of pairs: its order is the pairs' order.
  `VertexAssumption` asks for a finite set of numbers, which the keys of a Python dictionary are.
* **RoutingTable**: `LinkState` plus the table each router recomputes after each new LSA.
  `update_graph` never removes an edge, so the graph is a function of `links` and `link_costs`. That
  it implements `LinkState` without faults is the theorem `TablesImplementFlooding`.
* **MessageServer**: server and clients. A connection is its client; the server's sockets are
  descriptors, of which `accept` takes the least that is free, as the kernel does; `registered` is
  the selector's map. `events` is what one `select` returned, handled in any order. The wait for a
  datagram is the state `"udp"`, in which nothing but that datagram or an interrupt moves the server.
  A message in `messages` remembers its client in place of the port it is printed with. The state
  after an answer and before the message is stored is its own (`"store"`), since other programs see
  the difference.
* **Crawler**: one program counter per thread; `netloc_count[...] += 1` is a read and a write. A url
  is its host; what is on a page is arbitrary. The timeout of `get` is a stutter, being caught.
* **TlsFlows**: one step per TLS record that matters and one per `add_packet`. A packet's place in
  the capture is its time. `FlowOf` says what a flow is by the packets alone, without state.

`MC*` modules hold values for constants, symmetry, views and constraints. `SuccessorUnbounded`,
`WindowOpenOneMore` and other definitions introduced as *Faulty variant* are used by no
specification: each is a plausible bug that replaces the definition after it, and the property
named in `PROJECT.json` must then fail. `*Inv` modules hold the inductive invariants, in a module of
their own because both TLC's runs and the proofs use them.

## 3. The runs

| Run | Instance | Shows |
|---|---|---|
| `go_back_n` | 7 chunks, numbers modulo 4, window 3, queues of 3 | of the protocol, with timeouts at any time: prefix, window, progress of `base`, the inductive invariant |
| `sender_threads` | 3 chunks, modulo 4, window 2, queues of 2, 2 Timer objects | prefix, window, refinement of `FileTransfer` and the inductive invariant under every interleaving of statements |
| `threads_truncate` (violation) | 2 chunks, modulo 3, window 2, queues of 2, 3 Timer objects | the EOT before the last chunk |
| `text_copy` (violation) | files of up to 5 characters of one, two and three bytes, no CR, packets of 2 | a file with a character of more than one byte does not arrive |
| `topology` | files of up to 4 links over 4 routers and 3 ids, one spelled in two ways | accepted exactly if sound; links lead where they should; the inductive invariant |
| `link_state` | a line of 3 routers, queues of 8, one restart of a known router | no link believed that is not there, termination, and complete knowledge if nothing is lost, with loss of init messages, replies and LSAs and with restarts; true costs and no exception until a reply is lost; the inductive invariant of the flooding |
| `dijkstra` | all graphs of up to 4 vertices with edge costs 0, 1, 3 | shortest paths, final costs, termination; the inductive invariant |
| `routing_table` | a triangle with costs 1, 1, 3 | routes are real during the flooding, never get worse, and are shortest after it |
| `message_server` | a client that posts `BYE`, one that sends `TERMINATE`, one with a wrong code; backlog 1 | current events, stored messages, whole lists, clients end, the inductive invariant |
| `server_dies` (violation) | the same, `shutdown` of a UDP socket returning | a refused client ends the server |
| `crawler` | 3 threads, a host with a limit of 2, 2 urls, pages of up to 2 links | lost counts: no host cut short, the worst overrun, rest; the inductive invariant |
| `flows` | captures of up to 4 packets of one connection, 11 kinds of streams | flows have exactly their packets; when rows fail |

### Bounds

* *Chunks and numbers.* The code uses numbers modulo 32 and a window of 10. What matters is window
  < modulus, that the window wraps around and that a number is used again while old packets are on
  their way: 7 chunks modulo 4 with a window of 3 go round almost twice, with resends, duplicates and
  acknowledgements of the round before. The proofs hold for all values. In `sender_threads` 3 chunks stay below the modulus on purpose: with a wrap-around the
  property is false (section 6).
* *QueueLimit* is the emulator's own limit of 101 packets, at a small value so that it is reached.
* *Timers* is the number of `Timer` objects alive at once; objects that are finished or unreachable
  are used again (`Unused`), so that runs of any length are covered. A thread that finds no free
  object waits. `TimerSymmetry` permutes them, which is sound: no property or action names one.
* *InboxLimit* bounds a router's queue in the model; 8 and 40 are never reached as a limit on the
  line and the triangle, where each router sends finitely many datagrams.
* *Routing tables.* `MCRoutingTable` identifies states by `EffectiveState`, which leaves out of the
  queues the LSAs that will be dropped when their turn comes: they change nothing, so this is an
  exact quotient for the properties checked. `OneLoopAtATime` is a real restriction: the loops of
  sends of two routers do not overlap in this run (they do in `link_state`). The triangle is the
  smallest network in which a worse route is known before a better one.
* *RestartLimit* bounds the routers started again although the NFE knows them; one of the three, at
  any time and any place of the line, leaves a pair of routers that goes on or two that cannot talk.
  Routers it does not know are started again without bound.
* *Topology files*: 4 links make everything from a triangle with a tail and a cycle to two parted
  pairs, and all orders of the links and of their ends. `AnyRouters` permutes the routers, which
  are compared for equality only. All costs are 1: the parser does nothing with a cost.
* *Backlog*: `listen(1)` holds two connections. Three clients are one more, and enough for a
  descriptor to be used again while another client's event is being handled. `EveryClientEnds`
  assumes nothing about a lost datagram; of each answer at most one is lost, one being enough to
  lose the end mark or a line of the list. `UdpShutdown` has both outcomes in `message_server`:
  on Linux the call raises ENOTCONN, which ends the server after its first request.
* *Crawler*: a limit of 2 and 3 threads reach the worst case of 9 links (the ways to choose 3 of 5, less one), which
  needs a thread to write a count that two others have passed in the meantime.
* *Captures*: 4 packets hold a hello, its answer, a second hello and a packet of either side in any
  order. Keys other than a pair and its inverse never meet in `flows_temp`.
* *MaxFile*: 5 characters make 3 packets, with every position of a multi-byte character in them.
* Deadlock is not checked: these systems stop (`start` returns, both programs may hang as
  section 6 says, routers wait for ever when flooding is over, searches and captures end, crawler
  threads wait on an empty queue).

### Fairness

* Nothing is claimed about liveness of a2: both programs may hang (section 6), and `NeverStuck` and
  `EotFollowsFlag` show it as *states* in which nothing will happen any more, so that no fairness is
  needed to see it. The specifications of a2 have none.
* In `link_state` the NFE and each router are processes that run whenever they can: weak fairness.
  No datagram is *required* to be lost or delivered; convergence is claimed for behaviours in which
  nothing is lost, termination of the flooding for all in which the NFE hears from every router: those
  who are dead or wait for a lost reply are at rest too. Nothing is assumed of a router that is not
  started again.
* In `dijkstra` the loop goes on. In `message_server` the server and each client are processes that
  go on, no datagram has to be lost; in `crawler` threads are scheduled fairly, and pages are loaded or
  fail in the end.

## 4. What is proved

TLAPS checks every step of the modules `GoBackNProofs`, `SenderThreadsProofs`, `LinkStateProofs`,
`TopologyProofs`, `DijkstraProofs`, `MessageServerProofs`, `ProjectProofs` and of `Lemmas`, which
they share. Every invariant and every action property of the nine passing runs is a theorem, and so
is the refinement in `sender_threads`, for all values of the constants; what is left to TLC is
liveness (section 5). Every inductive invariant, and `PlainTextArrives`, has been checked by TLC
before it was proved; those of `go_back_n`, `sender_threads`, `link_state`, `topology`, `dijkstra`,
`message_server` and `crawler` are invariants of the run.

The library's induction theorems have an operator as parameter, which the provers cannot
instantiate. Where a proof is by induction (over the length of a path, a string, a capture, the
rounds of a loop) it goes by way of a set of numbers instead, and a least one: `LeastNumber`,
`AllUpTo`, `AllFromZero` in `Lemmas`. What a recursive function computes is proved in the same way,
after its existence; for this the modules that are proved about use recursive functions and no
`RECURSIVE` operator.

**Go-Back-N**, the protocol (any number of chunks, any modulus, any window below the modulus, any queue
limit, timeouts at any time; `GbnAssumption`): `TypeCorrect`, `CopyIsPrefix`, `WindowIsSound`,
`BaseMovesForward`, all from `Invariance`.
None of the safety properties is inductive: the program keeps numbers modulo `SeqModulo` only, and a
step is right only because of where all the packets on their way come from. `IInv` (`GoBackNInv`)
therefore says that there is a number `b` of chunks known to be written such that
`b <= written <= sent <= b + WindowSize`, that all counters are these numbers modulo `SeqModulo`
(`Counters`), that the slots hold the chunks of the last round of numbers (`Buffer`), that a slot some
thread has still to resend is not behind by a round (`Burst`), that a DATA packet on its way will
find less than a round written after it, and nothing more than a round ahead of it in the queue
(`Forwards`), and that acknowledgements arrive in the order of what they acknowledge (`Backwards`).
The last two are where first-in first-out delivery is used. A number determines its chunk because
`WindowSize < SeqModulo`; for this `Lemmas` has facts about `%`, of which the provers know little.

**The content of the chunks** (any characters of 1 to 4 bytes, any file and packet size;
`TextAssumption`): `PlainTextIsCopied` and `ExactOnlyForSingleBytes`, from `TextInvariance`. The
first says which files arrive, and that without carriage returns they arrive as they are; the second
that no others do, which makes it the measure of what `text_copy` finds. `TextAssumption`, which the
instance of `text_copy` satisfies, is a hypothesis of both. `TextInv` (`TextTransferInv`) says which
part of the text the receiver has been given, that the packet on its way holds the next part, and
that the copy is the former exactly as long as no character in it took more than one byte: from then
on it is too short. The receiver decodes as many bytes as the packet has characters
(`ParsedResult`). If these were whole characters again and as many as were sent, each had one byte;
but at the place of the first that does not there is the first byte of just this one
(`EncodeResult`).

**The sender's threads** (any number of chunks, `Timer` objects, any modulus, window and queue
limit): `WindowIsKept`, `CopyIsPrefix` and `ImplementsFileTransfer`, from `Invariance`. They are
about files of fewer chunks than numbers: with a wrap-around they are false (section 6). The
refinement says what is left of the promise of a2 under every interleaving: the receiver ends with
at most a window of the file missing. A run shows that some may be. `ThreadInv` (`SenderThreadsInv`)
says in which statements each thread can be when the flag is set, the EOT counted or a `Timer` there
(`ControlInv`); that the counters are counts of chunks, also between two statements of `rdt_send`,
and that no statement of `rdt_rcv` takes 0 = 0 for an empty window (`CountInv`); that a slot holds
the chunk of its number from the moment it is stored, and so does a packet, *however late* a timer
thread sends it (`SlotInv`, `ForwardsInv`); and that acknowledgements come in order
(`BackwardsInv`). `EndInv` says that an EOT is under way to the receiver only when the flag is set,
that is when the last chunk has been sent, and back only when the receiver has ended; that no more
than a window is missing then is the window bound of `CountInv`. What a thread has read before another
one went on is never assumed to be current: only that a slot, once filled, is never filled
otherwise.

**Link state** (any topology as `nfe.py` admits one: two different ends per link, at most one link
per pair, connected; natural costs and ids; `TopologyAssumption`): `TypeCorrect`, `KnowledgeIsTrue`,
`NoRouterDies`, `ReplyComesFirst` from `Invariance`, although any init message, init reply or LSA may
be lost and any router started again. `LinkInv` (`LinkStateInv`) has a part that always holds. Nothing
is on its way before the NFE has heard from all (`StartInv`); an init reply is first in the queue of a
router that waits for it (`QueueInv`); every LSA on its way names a real end of its link *and came over
a link of its receiver* (`LsaInv`), without which taking the sender for an end of the link would not be
justified. This survives a router that floods what it misread: the NFE ignores what it sends over links
it does not have, and what it sends over its own names itself or what it has heard. So known ends are
real (`EndsKnown`). The other part, `CostsInv`, holds until an init reply is lost: a waiting router has
its reply first in its queue (`ReplyComes`), costs in LSAs are real (`LsasTrue`), and a router knows a
cost for every link it has heard of, because it knows those of its own links (`KnownInv`). After that
it is false: wrong costs do spread.
`RestIsComplete`: when flooding is over and nothing was lost, every router knows every link. It
follows from `FloodInv` (`FloodInvariance`), which adds that what a router has learnt it has told
every neighbour, or will, or it is on its way (`FloodedInv`), and that what it sends goes out over
all of its own links (`OwnInv`). At rest nothing is on its way, so the routers that know an end of a
given link are a set which no link leaves; by the connectivity in `TopologyAssumption` it is all of them.

**Routing tables** (any such topology, any order of the datagrams): `RoutesLeadOn`, `RestIsShortest`
and `RoutesNeverWorsen`, from `RoutingInvariance`. The proof puts the two halves together.
`TablesImplementFlooding` shows that the machine with tables implements the flooding without faults,
so that `FloodInv` holds in it; `TableInv` (`RoutingTableInv`) says that every table is what
`dijkstra` returns for the graph its router knows *now*; and `RouteIsShortest` says what that is. The
known graph is a part of the network, by `KnowledgeTrue`: its walks are walks of the network, and it
only grows. So a route is never better than the network allows, one that is found stays, and at rest,
when the graph is the whole network (`RestIsComplete`), it is a shortest one.

**Topology** (any routers, spellings, costs and length of the file; `FileAssumption`):
`AcceptsTheSound`, `LinksAreTwoWay` and `AcceptedIsAssumed` from `Invariance`. `TopologyInv` relates
the lists of routers and neighbours to the links of the file (`FileInv`), and says of the search
that no router is in two of its lists or twice in one, that what a visited router has for neighbours
is found or still to be looked at, and that *every* set of routers that contains the first and is
closed under neighbours contains what has been found (`SearchInv`). At the end the found routers are
closed themselves, so they are the least such set: if there are as many as routers, no set is cut
off, as `Sound` says; if there are fewer, they are one. Two list lengths can stand for this because
the lists are injective.

**Dijkstra** (any finite set of numbers as vertices, any graph on them with costs in `Nat`, any
source and target; `VertexAssumption`): `CostsAlongParents`, `NoAncestorOfItself`,
`VisitedHaveDistance` and `Correctness` from `Invariance`. `DijkstraInvariant` (`DijkstraInv`) says
that what is reached and not visited waits in the heap at its cost and leftovers cost more
(`HeapInv`); that visited vertices are no farther than others and their edges have been followed, all
but the target's (`VisitedInv`); and that a path along the parents has the length that the cost says
(`TreeInv`), which also makes the function that walks back well defined. No vertex can be cheaper:
`WalksAreLonger` follows any walk to a visited vertex: as long as it is among vertices whose edges
have been followed none costs more than the walk so far, and where it leaves them it is longer than
the cost of every visited vertex.
The invariant is stated of any state of the search, so that it holds in the machine `Dijkstra` and
for the rounds of the function `Finished` alike. Each round uses up a pair of the heap or visits a
vertex, whose edges add at most as many pairs as there are vertices (`RoundsUseUp`), so that
`RoundLimit` rounds are enough (`LoopEnds`), and what the function returns is right for every graph
(`RouteIsShortest`).

**Message server** (any number of clients, any messages, any backlog; `ServerAssumption`):
`EventsAreCurrent`, `OnlyRefusalKills`, `AcknowledgedMessagesAreStored`, `WholeListIsPrinted` from
`ServerInvariance`. `ServerInv` (`MessageServerInv`) adds: a connection is in one place (`ConnInv`);
every open connection is registered under its own number, and a number that is free but still in the
selector is that of a refused client (`KeyInv`), which is why a stale key can only come from a
refusal; a client with nothing on its way has not been answered (`RequestInv`); whoever can see an
end mark has its message stored or just about to be (`AckInv`); and no stored message can be taken
for an end mark (`ListInv`), because `store_msg` begins with a bracket.

**Crawler** (any number of threads, hosts and links, any limit; `CrawlAssumption`):
`CountsNeverExceed`, `NoHostIsCutShort` and `OverrunIsBounded`. `CountInv` (`CrawlerInv`) counts the
threads between `put` and the write of the count: a count, and what such a thread has read of it,
never exceeds the links put less those threads. For the bound, `RoomInv` says how much room is left,
*whatever the order in which the threads write next*: if a thread writes before n - 1 others, what it
can put until its write and all of them after it is bounded by the number that has been read, since
the write puts the count back to that number plus one, and so on for the others. This bound does not
grow: `put` uses a link of it, reading and testing add nothing, and after a write all threads but those
that hold a count of their own have together no more than the writer was allowed for in the order in
which it trades places with the last of them. That the bounds fit together is Pascal's rule for the
ways to choose; at the start there is room for the worst case.

**Flows** (any endpoints, streams and length of the capture; `CaptureAssumption`): `FlowsAreExact` and
`ZeroIsPartial`, from `CaptureInvariance`. `Held` (`TlsFlowsInv`) says of the packets read so far that
the dictionary has a flow for the latest ClientHello of each key and the list one for each of the
others, each as `FlowOf` defines it from the packets alone: with another packet only the flows of the
latest hellos of its two keys change, and a new hello takes the place of the latest one of its key,
whose flow is then complete.

## 5. What is only model-checked

* Liveness (`Converges`, `Ends`, `EveryClientEnds`,
  `ComesToRest`): fairness and ENABLED are beyond the prover. Of `Ends` the substance is proved: a
  measure in `Nat` falls with every round of `dijkstra` (`RoundsUseUp`).

## 6. Deviations found

Three violation runs show, each as a behaviour of a few steps:

* `threads_truncate`: `rdt_rcv` sees `base = nextseqnum` while the last packet has been sent and not
  counted; the flag is set before it is read; the EOT follows and the last chunk may be missing.
* `text_copy`: a character of more than one byte is cut, because the length field counts characters;
  the receiver dies decoding it, or text is lost. `a2/README.md` and `test.sh` compare file and copy
  byte by byte and expect no difference. With `AllChars` for `Chars` the shortest behaviour may also
  be one in which text mode replaces a carriage return.
* `server_dies`: a client with a wrong code is closed without `unregister`; `register` of the next
  connection with that number raises `KeyError`, which nothing catches.

More of them are stated in the modules, each beside the comment of the code it contradicts, and can be
seen by naming them in the configuration given; no run is spent on them. In `ThreadsTruncate.cfg`, all
within seconds:

* `NeverStuck`: `rdt_send` compares `base` with `nextseqnum` before it increments the latter. An
  acknowledgement that empties the window in between stops the timer; the packet just sent has none,
  and if the emulator discards it, both programs wait for ever.
* `EotFollowsFlag`: the EOT is only tested for when an acknowledgement arrives. If the last one comes
  before `sending_thread` sets the flag, both programs wait for ever. An empty file always does.
* `MainThreadLives`: an acknowledgement before the first `timer_start` leads to `None.cancel()`.
* `SendingThreadLives`: two threads in `timer_start` start one Timer twice, which raises in the
  sending thread and ends it in the middle of the file.
* `NoTimerAfterExit`: a running `timeout_event` starts a timer after the last `timer_stop`.
* `InOrderPrefix` with 3 chunks: a timer thread preempted between reading the window and sending
  resends a slot of the next round, and a chunk is written in the wrong place. So the promise of
  `sender_threads` is limited to files whose numbers do not wrap, and `GoBackN` needs `BurstsInTime`.

In `GoBackN.cfg`:

* `RefusesOnlyFullWindow`: `rdt_send` refuses whenever `nextseqnum` has wrapped around and `base` has
  not, although its comment calls the window full then.
* `InOrderPrefix` of `SpecLossyEot`: if UDP loses the EOT (the emulator never does), a late duplicate
  acknowledgement makes the sender resend slots of an earlier round, which the receiver writes again.

In `LinkState.cfg`:

* `ForwardsOverOwnLinks`: `init` reads the type of the first datagram and never tests it. When the
  reply is lost, an LSA is taken for it, and the router goes on with links and costs that are none.
* `KnowledgeTrue` without its condition `RepliesArrive`: such a router tells what it takes for a cost,
  and its neighbours believe it.

Elsewhere:

* `Topology!LinksLeadBack` without its second line: ids `"1"` and `"01"` pass `dup_key_verify` and
  are one number; the NFE forwards over the first link that has it.
* `Crawler`: `puts[h] <= Limit` is false; 1000 is exceeded by up to
  as many links as there are ways to choose 10 of 1010, less 1001, in the worst case.

Seen in the source and outside of the models: negative costs pass `nfe.py` and `dijkstra` is wrong
for them; `client.py` sends `int(req_code)`, so a code with leading zeros never matches; messages of
more than 1024 bytes are cut, possibly within a character; `shutdown` of an unconnected UDP socket
raises on Linux, in server and client; `enque` of the crawler reads an attribute that does not
exist, and nobody calls it.

## 7. What is abstracted, what is not modelled

*Abstracted.* In `GoBackN`, what happens between the statements of `rdt_send` and `rdt_rcv` and all
that concerns `Timer` objects (in `SenderThreads` for files whose numbers do not wrap). Logging, the
two output files of a router, printing, argument parsing, addresses and ports. In the emulator:
delays other than as order, since it is a queue. In the NFE: datagrams of a wrong length or type,
which the routers do not send. In a1: reordering of the datagrams of an answer (they are sent back
to back over one path), the wait for a key after `BYE`, addresses other than the client's sending to
a UDP socket. In the crawler: urls but for their host, the browser. In the flows: byte sums, packets
that are not TCP over IPv4, the contents of hellos.

*Not modelled.* `project/constants.py` is a table of TLS numbers, `project/flows.ipynb` plots the rows of
`tls_flows.py` and keeps no state of its own, the loggers and shell scripts configure and start the
programs.

## 8. The plan

Done in this order, the most important behaviour first: GbnNetwork, GoBackN with its proofs,
SenderThreads, LinkState with its proofs, ShortestPath/Dijkstra, RoutingTable, TextTransfer;
MessageServer with its proofs, Topology, Crawler with its proofs, TlsFlows; faults in LinkState with
its proofs; the proofs of SenderThreads, of CompleteAtRest, Topology and Dijkstra; the proofs of
RoutingTable, TlsFlows, the worst case of Crawler and TextTransfer, and that the network of an
accepted file is the one assumed; the loss of init replies, and the refinement of FileTransfer by
SenderThreads.

Not done: anything that holds of the sender's statements when the numbers wrap around. It would take
an assumption like `BurstsInTime` about every statement in place of the one about a burst.
