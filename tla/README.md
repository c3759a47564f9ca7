# AODV routing agents of ns2_wsn: TLA+ models, checks and proofs

The repository is a set of ns-2 experiments on ad-hoc routing. Its core is
`src/aodv_src/`, the AODV agent (C++) that every simulated node runs; the rest
drives simulations and evaluates their traces. This directory models the agent
as a distributed protocol on lossy links and the timed parts of one node, checks
the models with TLC on small instances, and proves the protocol's central
properties with TLAPS for every network.

## 1. Inventory

| Component (source) | State | Operations | Works with |
|---|---|---|---|
| Route entry and table (`aodv_rtable.*`) | one `aodv_rt_entry` per destination: sequence number, hop count, flag (DOWN, UP, IN_REPAIR), next hop, precursors, expiry, request state | `rt_add`, `rt_lookup`, `pc_insert`, `pc_delete`; `rt_update` and `rt_down` in `aodv.cc` | written by every handler of the agent |
| Agent (`aodv.cc`, `aodv.h`) | own sequence number, next broadcast id, table, id cache, send buffer | `recv`, `rt_resolve`, `recvRequest`, `recvReply`, `recvError`, `sendRequest`, `sendReply`, `sendError`, `forward`, `rt_ll_failed`, `handle_link_failure`, `rt_purge` | other agents by RREQ, RREP, RERR; the MAC calls `rt_ll_failed`; the timers call `rt_purge`, `id_purge` |
| Local repair (`aodv.cc`, macro `AODV_LOCAL_REPAIR`, defined) | entries IN_REPAIR, pending `LocalRepairTimer` events | `local_rt_repair`, `LocalRepairTimer::handle` | table, send buffer, `sendRequest` |
| Request limiter and expanding ring (in `sendRequest`) | `rt_req_timeout`, `rt_req_cnt`, `rt_req_last_ttl`, `rt_last_hop_count` of each entry | send, withhold, give up for `MAX_RREQ_TIMEOUT` | send buffer, `rt_purge`, `recvRequest`/`recvReply` reset it |
| Send buffer (`aodv_rqueue.*`) | list through `Packet::next_`, `head_`, `tail_`, `len_`, `ts_` of packets | `enque`, `deque()`, `deque(dst)`, `find`, `purge` | agent |
| Broadcast id cache (`aodv.cc`) | (source, id) pairs with expiry | `id_insert`, `id_lookup`, `id_purge` | `recvRequest` |
| HELLO and neighbour list (`aodv.cc`) | neighbours with expiry | `sendHello`, `recvHello`, `nb_*` | in this build the timers are not started: `AODV_LINK_LAYER_DETECTION` is defined |
| Packet headers (`aodv_packet.h`), tracing (`aodv_logs.cc`), `command()` | layout; counters for debug output; tracer and queue handles | - | - |
| Traffic generator (`cbrgen.tcl`), trace analysers (`*.awk`), experiment runners (`run*.sh`), scenarios (`*.tcl`), results and plots | none that outlives a run | straight-line scripts and loops | ns-2, each other by files |

ns-2 runs one event at a time, so a handler is atomic. What is hard is what
happens between handlers: packets in flight are lost, delayed and reordered,
entries expire and links fail while old requests, answers and errors are still
under way, buffered packets age, and repairs overlap. `PROJECT.json` lists the
hazards line by line. What makes each component correct:

* table and agent: routes never form a loop; an entry only gets better; a
  destination's own number is never outrun; hop count, flag and parity of the
  number, which different handlers test, agree; a packet does not stay in the
  buffer when its route is up; packets are multiplied only by local repair, and by
  no more than the acknowledgements that were lost; errors reach the neighbours
  that depend on a route;
* repair: every repair ends; it does not break the above;
* limiter: the intended number of searches, with the intended TTLs, then a pause;
  while a packet waits, searches go on;
* buffer: the list is well-formed; it is a FIFO with a limit and a timeout;
* id cache: a request is not processed twice while copies of it are under way,
  and every id is forgotten;
* neighbour list: silent neighbours are dropped in time, others are not, and no
  route stays with a neighbour that was dropped.

## 2. Modules

| Module | Contents |
|---|---|
| `RoutingTable` | one entry and the pure operations on it |
| `Aodv` | all agents and the network between them, time left open (extends `RoutingTable`) |
| `MCAodv` | topologies and traffic for TLC |
| `AodvProofs` | type correctness and consistency of entries, proved |
| `AodvLoopProofs` | loop freedom, assertions and improvement of routes, proved |
| `AodvSafetyProofs` | waiting packets, repair timers, the owners' numbers and the copies of packets, proved |
| `RouteDiscovery` | one node in time: limiter, ring, buffer times, expiry, repair timers |
| `Search` | the abstract specification of the limiter; `RouteDiscovery` implements it |
| `MCRouteDiscovery` | tables and packets for TLC |
| `RouteDiscoveryProofs` | the limiter implements `Search`, what waits is searched for, proved |
| `BcastCache`, `MCBcastCache` | the id cache and its timer |
| `BcastCacheProofs` | requests are processed once, ids are forgotten in time, proved |
| `Neighbors`, `MCNeighbors` | HELLO beacons and the neighbour list |
| `NeighborsProofs` | silent neighbours are dropped in time, and only those, proved |
| `RQueue` | the send buffer as linked list |
| `PacketBuffer` | the abstract specification of the send buffer; `RQueue` implements it |
| `MCRQueue` | packets and destinations for TLC |
| `RQueueProofs` | the list is intact and implements `PacketBuffer`, proved |
| `SetInduction` | induction and recursion over an initial segment of the naturals, for the proofs |

`Aodv` and the timed modules divide the agent: `Aodv` has every node and every
packet but lets timers fire whenever they exist; each timed module has one node's
clockwork and lets the network do anything. So what is proved of `Aodv` does not
depend on the timeouts, and what is checked of a timed module does not depend on
the topology.

### Aodv and the code

`rt[n][d]` is node `n`'s entry for `d`; an entry not yet added behaves like a
fresh one (`FreshEntry`), so `rt_lookup`/`rt_add` need no action. `req` of an
entry says that `rt_req_timeout > 0`. `bcache[n]` is the id cache, `queue[n]`
the send buffer as a set, `repairs[n][d]` counts pending repair timers, and
`net` is the set of packets in flight: a broadcast puts one copy for each node
that may hear it. `unacked` holds the data packets that were delivered while
their senders' MACs still wait for the acknowledgement, which is lost; `lostacks`
counts how often that happened to each packet. `failed` collects the names of
assertions of the code that evaluated to false; nothing runs after one has.

| Action | Code |
|---|---|
| `Originate` | `recv`, `rt_resolve` for the node's own data, with `rqueue.enque` and `sendRequest` |
| `DataEnds`, `DataRelayed` | `recv`, `rt_resolve`, `forward` for data of others |
| `RequestDiscarded`, `RecvRequest` | `recvRequest`; the three answers `AnswerOwn`, `AnswerKnown`, `RelayRequest` are its final branches |
| `ReplySuppressed`, `RecvReply` | `recvReply` |
| `RecvError` | `recvError` |
| `Receive`, `AckLost` | `recv`, `recvAODV` with the handlers above; the MAC may lose the acknowledgement |
| `TransmitFailed` | `rt_ll_failed` for a data packet that the MAC hands back, delivered or not |
| - `StartRepair` | its branch for local repair, `local_rt_repair` |
| - `LinkBroken` | the other one, `nb_delete`, `handle_link_failure` |
| `RepairTimer` | `LocalRepairTimer::handle` |
| `Purge` | `rt_purge`, with every `sendRequest`, `deque` and `forward` in it |
| `IdPurge` | `id_purge` |

Abstractions:

* Time. A route may expire, a buffered packet age, an id be forgotten and a
  repair timer fire whenever it exists. This allows more than the code does, so
  what holds here holds for every choice of the timeouts.
* The limiter. The first search after a reset always goes out; a later one is
  sent, withheld or ends in giving up, nondeterministically. `RouteDiscovery` has
  it in detail, and its `IsSearch` shows that the pattern is what `Search` allows. `RingTTL` are the
  TTLs a search may have.
* The network. Loss is a packet that is never received, delay and reordering
  are free. Identical packets in flight are one. The MAC reports a data packet lost
  that was not received, or one that was received when only the acknowledgement
  was lost: `AckLost` keeps the sender's copy in `unacked`, with a number of its own
  (`copy`), and `TransmitFailed` may hand it back at any later time, or never. What
  the MAC hands back of the agents' own packets is dropped by `rt_ll_failed` without
  any change of state, so a request, answer or error needs no such copy. Nodes do
  not move out of `Link`, but any link may fail for any packet.
* Hop counts and numbers do not overflow: guards keep a hop count below
  `INFINITY2` (in `AnswerKnown`, `RecvReply`) and own numbers at `MaxSeqno`.
  In the code a hop count is 8 bits and numbers are 32 bits.
* Addresses. `Addr0` is node address 0, which is also what `rt_nexthop` is when
  there is none, as in the code.
* When local repair gives up in the same call (limiter exhausted), the code
  drops the packet and then copies it for the timer; the model takes its header
  to be still readable.

### RQueue and the code

`list` holds `head_`, `tail_`, `len_` and every packet's `next_`; `ts` the times.
`RemoveHead`, `Unlink`, `Purged`, `Linked` make the code's pointer assignments;
the actions are the public operations. The agent never hands over a packet that
is in the buffer, hence the guard of `Enque`. Under the refinement mapping the
abstract buffer is the sequence met from `head_` on. `PacketBuffer` lets aged
packets go from the front only, as the purge commented out in `aodv_rqueue.cc`
does; `RQueue` has the purge in use, which scans the list for them. That one
implements the other is part of `IsPacketBuffer`.

### RouteDiscovery and the code

One node and its entries `rt[d]`, with the fields that `Aodv` leaves out:
`rt_req_timeout` (`asked` is whether it was set, `req_timeout` what is left of
it), `rt_req_cnt`, `rt_req_last_ttl`, `rt_last_hop_count`, `rt_expire`,
`rt_disc_latency`. Points in time are kept as the time left until them, so that
there are finitely many; `elapsed` is `CURRENT_TIME`, for the two places where
the code confuses a time with a duration.

| Definition | Code |
|---|---|
| `sendRequest`, `DropsPackets` | `sendRequest`: `Searches` are its two early returns, `GivesUp`/`Rested` the pause, `NextTTL`/`Asked` the ring and the next timeout (`PerHopTime`) |
| `Originate`, `Relay` | `rt_resolve` |
| `Purge` | `RouteCacheTimer`, `rt_purge` over the table in its order (`Swept`, `PurgeEntry`) |
| `RecvReply`, `RecvRequest` | what `recvReply` and `recvRequest` do to the entries and the buffer, the route over which an answer is forwarded included |
| `RoutesLost` | `handle_link_failure`, `recvError`: `rt_down` of several entries |
| `StartRepair`, `RepairTimer` | `local_rt_repair`, `LocalRepairTimer` |

`Search` is the limiter without its arithmetic: a destination is idle, being
searched for, or at rest; requests are at least a tick and at most
`MAX_RREQ_TIMEOUT` apart; rings come before network-wide searches, of which
there are `MaxWide`; then comes a rest of `MAX_RREQ_TIMEOUT`. The mapping reads
the phase from the entry and sets `MaxWide` to `RREQ_RETRIES + 1`, which is what
the code does. The comments say `RREQ_RETRIES`: see `discovery_retries` below.

### The other modules and the code

* `BcastCache`: `bihead` is the list of `BroadcastID`s, `due` the time until
  `BroadcastTimer` fires. `age` and `seen` say how long a request's copies have
  been under way and how often it was processed.
* `Neighbors`: the agent without `AODV_LINK_LAYER_DETECTION`. `nb` is the
  neighbour list, `htimer` the neighbours' `HelloTimer`s with their random
  intervals, `ntimer` the `NeighborTimer`; `nb_purge` includes the `nb_delete` and
  `handle_link_failure` of every neighbour that timed out. A tick is 0.25 s, which
  makes every duration whole: intervals of 0.75 to 1.25 s, expiry after 4.5 s.

## 3. Runs

### Runs of Aodv

| Run | Instance | Shows |
|---|---|---|
| `ring` | 3 nodes in a ring, 2 packets for two sources of one destination and back, numbers to 6, A forgets ids | `TypeOK`, `LoopInv`, `LoopFree`, `OwnerFreshest`, `NoWaitingWhenUp`, `NoAssertionFails`, `RoutesImprove` |
| `repair` | S-A-B-D, 1 packet, 2 lost acknowledgements, local repair | `EntryConsistent`, `RepairEnds`, `CopiesBounded` |

Three nodes in a ring are the smallest network in which two neighbours can
route through each other while a third is the destination; each packet may go
directly or be relayed. Numbers up to 4 leave room for an invalidation or a
second search after the first, in both sources at the same time, so that one's
route is lost while the other's is in use. `FewNumbers`, a constraint of the run,
follows the numbers of A and D to 6 while only one packet was sent: then an answer
about a node comes back to it, and it has a route to itself. Local repair needs a
packet that has come further than it has to go, hence four nodes.
A copy that was delivered outlives its delivery only at a relay, and the nodes
that repair pass a packet on to a relay only when it goes back and forth: with 7
hops (`NETWORK_DIAMETER`) it does so often enough for both acknowledgements to be
lost and for three copies to be under way at once, which is what `CopiesBounded`
then allows. `MaxLostAcks` bounds how many acknowledgements are lost for a packet;
one suffices in `ring`, where the packet handed back is dropped.
`RtTimers` and `IdTimers` name the nodes whose timers fire, a bound on the state
space of each run: A and D in `ring`, S in `repair`. `RingTTL` is one TTL that
spans the network, like the TTL 30 of a first search.

### Runs of one node

| Run | Instance | Shows |
|---|---|---|
| `rqueue` | 4 packets, 2 destinations, limit 3, timeout 1, clock to 2 | `TypeOK`, `VerifyQueue` (what QDEBUG asserts), `OldestFirst`, `HandsOutFresh`, `IsPacketBuffer` |
| `discovery` | 1 destination, 2 packets, 2 overlapping local repairs | `TypeOK`, `WaitingIsSearched`, `IsSearch`, `RepairAsks`, liveness: `EveryPacketLeaves`, `RepairsEnd` |
| `bcast` | 3 requests, one of them own, period 4, copies for 3 | `TypeOK`, `ProcessedOnce`, `ForgottenInTime`, liveness: `Forgotten` |
| `neighbors` | 2 neighbours, 1 route, 2 losses allowed | `TypeOK`, `SilentAreDropped`, `GivenUpAfterLosses`, liveness: `RoutesFollow` |

Bounds. Three places in the buffer give a head, a middle and a tail, and a
fourth packet one that does not fit; two ticks let packets of different age be
held at once. In `RouteDiscovery` the durations are scaled down with their order
kept (a search takes longer than a purge period, the pause longest) and there is
one ring between a neighbour and the whole network and, with `RREQ_RETRIES` 1, a
second network-wide search before the pause. What is further back than `Past`
counts as `Past`: handlers only compare such times with now, and `LifetimeFits`
with a second ago. `MaxElapsed` bounds the age of the simulation, beyond which
it counts as that; `MaxRepairs` the repair timers pending for one destination:
two, so that the timer of one repair can end another. In `Neighbors` the
intervals are the code's in ticks of 0.25 s; two losses are allowed for the
code's three, and `MaxLost` is one more, so that both sides of the limit occur.
`MaxSeqno` lets the own number start again, since nothing compares it here. In
`BcastCache` copies travel for one tick less than the period, as long as they can
without being processed again.

Fairness. ns-2 executes every scheduled event and its clock goes on, so a timer
that is set fires, and its handler sets it again: weak fairness of the timers'
handlers and of `Tick` in `RouteDiscovery`, `BcastCache` and `Neighbors`.
Nothing is assumed of the traffic, the links, the answers or the neighbours. A
handler due runs before time moves on, as the guard of `Tick` says; with
fairness of `Tick` time therefore never stops. `Aodv` has no time, so no fairness
would be justified there, and its properties are about safety.

Deadlock. The bounded models of `Aodv` stop when bounds are reached or an
assertion has failed, so there deadlock is not checked; for the buffer,
`RouteDiscovery`, `BcastCache` and `Neighbors` it is.

### Runs that show a disagreement

`repair_loop`, `repair_assert`, `discovery_repair_delay` and `discovery_lifetime` have
local repair, which `aodv.h` turns on; `reply` and `discovery_retries` need none.

| Run | What happens |
|---|---|
| `repair_loop` | A route under repair is taken down with its number unchanged and without an error (`aodv.cc:165` is commented out). Upstream, the old route is as fresh as the repairer's request asks, so upstream answers it: both forward to each other. |
| `repair_assert` | An answer is relayed over a route IN_REPAIR, whose hop count is finite: `assert(rt0->rt_flags == RTF_UP)` (`aodv.cc:873`) fails. |
| `reply` | A request older than the last one of its source arrives after the reverse route was lost; the entry is not updated and the answer is sent to next hop 0, although the comment in `recvRequest` promises a reverse route. |
| `discovery_repair_delay` | The repair timer's delay is a point in time: late in a simulation it fires only after as long again. |
| `discovery_retries` | `RREQ_RETRIES` + 1 network-wide searches are made before the pause, because `rt_req_cnt > RREQ_RETRIES` is tested before the count grows (`aodv.cc:1052`); `aodv.h:54-55` and `aodv.cc:1042-1044` call `RREQ_RETRIES` their maximum. `IsSearch` has the number of the code. |
| `discovery_lifetime` | A route under repair is announced with a lifetime that is the conversion of a negative number. |

The models also follow the code where it differs from a comment or a name and no
run is spent on it:

* `rt_last_hop_count` starts as infinity (`aodv_rtable.cc:47`), so the first search
  of a destination is network-wide and `TTL_START` is never used (`aodv.cc:1079`).
* `rt_purge` looks for packets with `find`, which does not purge: a packet older
  than `AODV_RTQ_TIMEOUT` is searched for (`aodv.cc:489`), and leaves the buffer only
  with the next use of it, which `EveryPacketLeaves` says there is.
* `purge` neither drops nor frees what it takes out (`aodv_rqueue.cc:191`), unlike the
  older version commented out above it.
* A neighbour expires after 1.5 * `ALLOWED_HELLO_LOSS` * `HELLO_INTERVAL`
  (`aodv.cc:1327`); the comments at `aodv_rtable.h:42-47` leave out the factor 1.5. With
  their value, `GivenUpAfterLosses` would fail: it is the mutant `nb_expire_exact`.
* `nb_purge` "runs every HELLO_INTERVAL * 1.5 seconds" (`aodv.cc:1375-1377`), but
  `NeighborTimer` fires every `HELLO_INTERVAL` (`aodv.cc:140`), as in `Neighbors`.
* With HELLOs, a neighbour may be deleted after exactly `ALLOWED_HELLO_LOSS` losses,
  at the longest interval; not after fewer (`GivenUpAfterLosses`).
* A neighbour that routes to a requester through a node is not in that node's
  precursor list (`aodv_rtable.h:63` says it should be), so it will not be told when
  the route is lost; it finds out when that node answers a packet with an error.

## 4. Proofs

Every theorem holds for every value of the constants that satisfies
the assumptions of the module.

`RoutingTable` and `Aodv` assume that the node set is finite and contains address
0, `Link` and `Flow` join different nodes, TTLs are below `INFINITY2`, the bound
on numbers is even: nothing about the topology, the number of nodes, or the
bounds' values.

`AodvProofs` (any value of `LocalRepair`):

* `TypeCorrect`: `Spec => []TypeOK`. `TypeIInv` is inductive on its own: one lemma
  for each action, over lemmas for the packets each sends and the entries each
  writes. That own numbers stay even is part of it. Its part `MacInv` says that the
  MACs hold data packets only, which are well-formed when they hand them back.
* `EntriesConsistent`: `Spec => []EntryConsistent`, by the same induction with the
  packets' numbers (an answer in flight carries an even positive number).

`AodvSafetyProofs` (any value of `LocalRepair`): what `repair_loop` does to the
order of routes, it does not do to these.

* `NothingWaitsWhenUp`, `RepairsEnd`: `EntryInv` is `TypeIInv` with the two
  invariants. Each handler changes an entry, the packets that wait for it and its
  timers in one of the few ways that `EntryStep` lists, and those keep both.
* `NumbersAreTheOwners`: `NumberInv` is `TypeIInv` with `OwnerFreshest`. The bound
  holds of every entry and every packet in flight because owners' numbers only
  grow (`FreshStep`) and only the owner, or a node that rounds up what it has,
  makes a new one. Parity, from `TypeInv`, is what keeps the successor of an even
  number below the owner's next one.
* `DataCopiesBounded`: `CopiesBounded` counts and is not inductive: it says neither
  that the next packet's number is unused nor that what a MAC still holds is not
  yet counted. `Unique` says that no two copies in flight or in a buffer have the
  same number and copy; `CopyNumbers` that these are bounded by the packets
  originated and the acknowledgements lost, and that nobody has the copy that a MAC
  holds. Originating a packet, losing an acknowledgement and repairing each use one
  new pair, every other handler lets packets out of one buffer or moves one
  (`ReleaseStep`, `AcceptStep`). The copies of one packet then have different
  numbers in `0 .. lostacks[i]`, and only 0 without local repair.

`AodvLoopProofs` (for `LocalRepair = FALSE`; with local repair the property is
false, see `repair_loop`): the invariant `LoopIInv` joins `TypeIInv`, `LoopInv`
and `NoAssertionFails`. `LoopFree` itself is not inductive: a handler that
accepts a route must know that the neighbour which offered it is still better
placed *now*, although the offer may be old. `LoopInv` says so for every entry
and for every packet in flight: the neighbour has a larger number or the same
one over fewer hops. It is preserved because no entry ever gets worse, which
is the action property `RoutesImprove` (as lemma `RouteStep`: an entry stays,
learns a fresher route from a packet, or is lost with a larger odd number).
Then:

* `NextHopAhead`: `LoopInv` always holds;
* `LoopFreedom`: a set of nodes that forward to each other would have an element
  whose entry is best; its next hop would be better still (`LoopInvLoopFree`,
  by `LeastElement` over pairs of number and hop count);
* `AssertionsHold`, `RoutesOnlyImprove`.

`BcastCache` assumes positive durations. `BcastCacheProofs`:

* `CacheTypes`: `TypeOK` is inductive on its own.
* `IdsForgottenInTime`: until the next firing, an id loses no more time than the
  timer has run (`InTime`), and the firing takes out what has expired.
* `RequestsProcessedOnce`: `seen[r] <= 1` is not inductive, because it does not say
  why a second copy meets a known id. `Once` does: the id of a processed request
  is known for at least what is left of `BCAST_ID_SAVE` since it was sent, and a
  copy is never older than `MaxDelay`. The premise `MaxDelay < BCAST_ID_SAVE` is the
  property's own; the code relies on it.

`Neighbors` assumes finitely many neighbours, positive durations, an odd
`MaxSeqno` (as 2^32 - 1 is) and a `MaxLost` beyond the allowed losses.
`NeighborsProofs`:

* `NeighborTypes`, `SilentDropped`: `ListInv` adds to `TypeOK` that an entry has
  not been expired for longer than the neighbour timer has run (`InPeriod`).
* `GivenUpOnlyAfterLosses`: the time since the last HELLO of a neighbour is at
  most that of the intervals whose HELLOs were lost and the running one
  (`LossInv`). It assumes that `ALLOWED_HELLO_LOSS` of the longest intervals are
  shorter than `nb_expire`; in the code that is 3 * 1.25 s < 4.5 s.

`RQueue` assumes finitely many packets, a `limit_` of at least one and natural
times. `RQueueProofs`:

* `ListIsIntact`, `DeadlinesAreSorted`, `BufferTyped`, `HandedOutIsFresh`: the
  properties speak of a walk along the pointers, which no step can be followed
  through. `BufferInv` says instead that some sequence of different packets is
  what is linked (`Chain`) and that its deadlines never decrease, none being
  further ahead than `timeout_`. Every routine turns one chain into another.
  Without the order of deadlines, a full buffer could throw out a packet while
  older ones stay; without their bound, a new packet could break the order.
* `ListIsFifo`: `Spec => IsPacketBuffer`. The purge in use removes the first aged
  packet it finds until there is none; because deadlines are sorted, what is left
  is the end of the chain, which is what `PacketBuffer` keeps.

`RouteDiscovery` assumes that the table lists a destination once (`rt_add` is only
called after `rt_lookup` found nothing, and asserts so), that timeouts are
positive, that a ring stays within `NETWORK_DIAMETER`, and that this is less than
`INFINITY2`; all are so in `aodv.h` and `aodv_rtable.h`. `RouteDiscoveryProofs`,
for any table and any packets:

* `DiscoveryTyped`, `WaitingIsAskedFor`, `RepairsAsk`: `DiscoveryInv` joins the types,
  `WaitingIsSearched` and `EntryOK` of every entry: a network-wide search that is
  counted has left its TTL in the entry; what has not been asked for waits for
  nothing; a route under repair has been asked for; a route that is up has
  forgotten how often it was searched for. The last is why a repair does not give
  up at its start and lose the packet it was started for.
* `RequestsAreLimited`: `Spec => IsSearch`. Each operation on an entry makes at most
  one step of `Search` (`SearchStep`). That no ring follows a network-wide search
  that was counted, and that a rest is followed by no ring either, needs
  `EntryOK`: the TTL of the last search decides what comes next, not the count.
* `rt_purge` walks the table with one buffer. Between two entries the table and the
  buffer are as `DiscoveryInv` wants them (`SweptOK`), and as no entry is visited
  twice, each has made one step at the end (`SweptFacts`).

`SetInduction` carries the recursions. The walk along the list, the purge's scan,
the walk over the table and the loop over latencies are recursive functions. The
induction theorems of the library take a predicate as parameter, which the
provers cannot instantiate, but a set that contains 0 and the successor of each
of its elements can be cited like any fact: `InductionTo` is proved from the
least element of a set, and `Recursion` from it.

Only model-checked: `EveryPacketLeaves`, `RepairsEnd` of `RouteDiscovery`, `Forgotten`
and `RoutesFollow`, since liveness under fairness is out of the prover's reach. Of
the safety properties of the passing runs none is left unproved; `LoopInv`,
`LoopFree`, `NoAssertionFails` and `RoutesImprove` are proved without local repair
only, where they hold.

## 5. Not modelled

* `rt_delete` and the neighbour lists of entries: without a caller.
* The smoothing of link failures that `aodv.h` describes: no code tests
  `AODV_USE_LL_METRIC` or `AODV_USE_GOD_FEEDBACK`.
* `command()` except for `start`; tracing (every function of `aodv_logs.cc` returns
  at once, `verbose` being 0); header sizes and byte layout; the delays between
  packets of one handler (reordering is free in `Aodv`).
* A route error of more than 100 destinations: no scenario has more nodes.
* The scripts: scenarios are straight-line set-up, analysers count lines and
  divide, runners loop over commands, the generator is one pass over the nodes.
  Nothing in them runs concurrently. `PROJECT.json` lists where they can go wrong.
* The MAC, ARP and the interface queue are external, modelled as far as the
  agent sees them.

## 6. Plan

1. What composes: that the choice `Aodv` leaves open when it searches is the one
   `RouteDiscovery` makes, stated as a refinement of one node's entries.
2. Safety facts from which the liveness properties follow, as far as they can be
   stated without fairness: how long a packet can stay in the buffer, and how
   many searches it takes until the limiter gives up.
3. `Neighbors`: that a route outlives its neighbour by no more than a firing of the
   timer, from which `RoutesFollow` would follow.
