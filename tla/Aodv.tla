-------------------------------- MODULE Aodv --------------------------------
(***************************************************************************)
(* The AODV agents of aodv.cc on a set of nodes joined by lossy radio      *)
(* links: route discovery (RREQ, RREP), route maintenance (link failure,   *)
(* RERR, expiry), the packets buffered meanwhile, and local repair when    *)
(* AODV_LOCAL_REPAIR is defined.                                           *)
(*                                                                         *)
(* Every action is one run of a handler of class AODV: ns-2 schedules one  *)
(* event at a time, so a handler is atomic and everything it sends is in   *)
(* the network when it returns.  Time is abstracted: a timer may fire, a   *)
(* route expire and a buffered packet age whenever the code has armed it.  *)
(***************************************************************************)
EXTENDS RoutingTable, FiniteSets, Functions

CONSTANTS
  Link,             \* <<n, m>>: m can ever hear n
  Flow,             \* <<s, d>>: s is given data for d by its agents
  LocalRepair,      \* whether AODV_LOCAL_REPAIR is defined
  NETWORK_DIAMETER, \* initial TTL of data, replies and network-wide requests
  RingTTL,          \* the TTLs sendRequest computes for its ring searches
  MaxData,          \* bound: data packets originated
  MaxLostAcks,      \* bound: acknowledgements lost for each data packet
  RtTimers,         \* bound: the nodes whose route purge timer fires
  IdTimers          \* bound: the nodes whose id purge timer fires

ASSUME NodeAssumption == IsFiniteSet(Node)
ASSUME LinkAssumption == Link \subseteq {l \in Node \X Node : l[1] # l[2]}
ASSUME FlowAssumption == Flow \subseteq {f \in Node \X Node : f[1] # f[2]}
ASSUME ParameterAssumption ==
  /\ LocalRepair \in BOOLEAN
  /\ MaxData \in Nat /\ MaxLostAcks \in Nat
  /\ NETWORK_DIAMETER \in Nat /\ 1 < NETWORK_DIAMETER
  /\ NETWORK_DIAMETER < INFINITY2
  /\ RingTTL \subseteq 1 .. NETWORK_DIAMETER
  /\ RtTimers \subseteq Node /\ IdTimers \subseteq Node

VARIABLES
  seqno,    \* seqno[n]: n's own sequence number
  bid,      \* bid[n]: the broadcast id of n's next request
  rt,       \* rt[n][d]: n's route entry for d
  bcache,   \* bcache[n]: the <<source, broadcast id>> pairs n remembers
  queue,    \* queue[n]: the data packets in n's rqueue
  repairs,  \* repairs[n][d]: local repair timers n has pending for d
  net,      \* packets in flight, one copy for each receiver; loss is never
            \* receiving one, any order of reception is possible
  unacked,  \* data packets that were delivered but not acknowledged, as the
            \* sender's MAC still holds them
  lostacks, \* lostacks[i]: acknowledgements lost so far for packet i
  nsent,    \* data packets originated so far
  failed    \* the assertions of the code that have evaluated to false

mac  == <<unacked, lostacks>>
vars == <<seqno, bid, rt, bcache, queue, repairs, net, mac, nsent, failed>>

\* A false assertion aborts the simulator.
Running == failed = {}

-----------------------------------------------------------------------------
\* copy tells the copies of one packet apart, which lost acknowledgements make;
\* 0 is the original.
Copy == 0 .. MaxLostAcks
Data == [src : Node, dst : Node, id : 1 .. MaxData, copy : Copy,
         fwd : 0 .. NETWORK_DIAMETER]
TTL  == 1 .. NETWORK_DIAMETER
\* What an RERR lists: a sequence number for each destination it declares lost.
Unreachable == UNION {[D -> Seqno] : D \in SUBSET Node}

RREQs == [type : {"RREQ"}, from : Node, to : Node, src : Node,
          bid : Nat \ {0}, srcseq : Seqno, dst : Node, dstseq : Seqno,
          hc : TTL, ttl : TTL]
RREPs == [type : {"RREP"}, from : Node, to : Node, daddr : Node, dst : Node,
          seq : Seqno, hc : Hops \ {INFINITY2}, ttl : TTL]
RERRs == [type : {"RERR"}, from : Node, to : Node, lost : Unreachable]
DATAs == [type : {"DATA"}, from : Node, to : Node, src : Node, dst : Node,
          id : 1 .. MaxData, copy : Copy, fwd : 0 .. NETWORK_DIAMETER]

Greater(a, b) == IF a > b THEN a ELSE b
Heard(n)      == {m \in Node : <<n, m>> \in Link}
WaitingFrom(n, d) == {q \in queue[n] : q.src = d}
Waiting(n, d) == {q \in queue[n] : q.dst = d}

\* The assertions of aodv.cc about routes and sequence numbers.
rt_resolveAsserts == {"rt_resolve UP hops"}
recvReplyAsserts  == {"recvReply UP"}
recvErrorAsserts  == {"recvError UP", "recvError even"}
link_failureAsserts == {"handle_link_failure UP", "handle_link_failure even"}
rt_purgeAsserts   == {"rt_purge UP hops", "rt_purge odd"}
Assertions == rt_resolveAsserts \cup recvReplyAsserts \cup recvErrorAsserts
                \cup link_failureAsserts \cup rt_purgeAsserts

\* The name of an assertion when its condition does not hold.
Check(name, holds) == IF holds THEN {} ELSE {name}

(* forward() of a data packet over a route whose next hop is via. *)
Forwarded(n, via, Q) ==
  {[type |-> "DATA", from |-> n, to |-> via, src |-> q.src, dst |-> q.dst,
    id |-> q.id, copy |-> q.copy, fwd |-> q.fwd] : q \in Q}

(* The buffer once deque(d) has run until it finds no more packet for d, old *)
(* having aged out of it.                                                   *)
ReleasedNothing(n, d, old) == queue[n] \ old
Released(n, d, old) == queue[n] \ (old \cup Waiting(n, d))

(* The k-th request that n sends in one handler, for d.  Each takes the    *)
(* next broadcast id and advances n's own sequence number by 2.            *)
RouteRequest(n, d, k, ttl) ==
  {[type |-> "RREQ", from |-> n, to |-> m, src |-> n, bid |-> bid[n] + k - 1,
    srcseq |-> seqno[n] + 2 * k, dst |-> d, dstseq |-> rt[n][d].seqno,
    hc |-> 1, ttl |-> ttl] : m \in Heard(n)}

(* sendReply: unicast to the next hop towards the requester, whatever the  *)
(* state of that route is.                                                 *)
RouteReply(n, via, requester, d, seq, hc) ==
  [type |-> "RREP", from |-> n, to |-> via, daddr |-> requester, dst |-> d,
   seq |-> seq, hc |-> hc, ttl |-> NETWORK_DIAMETER]

(* sendError: one broadcast, unless the list is empty. *)
RouteError(n, lost) ==
  IF DOMAIN lost = {} THEN {}
  ELSE {[type |-> "RERR", from |-> n, to |-> m, lost |-> lost] : m \in Heard(n)}

(* ifqueue->filter(id): unicast packets n has for id may still be in its   *)
(* interface queue; those are dropped.                                     *)
InterfaceQueue(n, id) ==
  {x \in net : x.type \in {"DATA", "RREP"} /\ x.from = n /\ x.to = id}

Init ==
  /\ seqno = [n \in Node |-> 2]
  /\ bid = [n \in Node |-> 1]
  /\ rt = [n \in Node |-> [d \in Node |-> FreshEntry]]
  /\ bcache = [n \in Node |-> {}]
  /\ queue = [n \in Node |-> {}]
  /\ repairs = [n \in Node |-> [d \in Node |-> 0]]
  /\ net = {}
  /\ unacked = {}
  /\ lostacks = [i \in 1 .. MaxData |-> 0]
  /\ nsent = 0
  /\ failed = {}

-----------------------------------------------------------------------------
(* rqueue.enque(q), then sendRequest(q.dst) when n's entry for q.dst is e   *)
(* (not UP); sent is the network by then.  old are packets the queue has    *)
(* dropped because they aged or it was full.  The rate limiter is an        *)
(* abstraction: without an earlier request (e.req) the request goes out;    *)
(* with one it may be too early, time for another, or time to give up and   *)
(* drop what waits.                                                         *)
EnqueAndRequest(n, q, e, sent) ==
  \E old \in SUBSET queue[n] :
    LET kept == (queue[n] \ old) \cup {q} IN
    \/ /\ seqno[n] + 2 <= MaxSeqno
       /\ \E ttl \in RingTTL : net' = sent \cup RouteRequest(n, q.dst, 1, ttl)
       /\ seqno' = [seqno EXCEPT ![n] = @ + 2]
       /\ bid' = [bid EXCEPT ![n] = @ + 1]
       /\ rt' = [rt EXCEPT ![n][q.dst] = [e EXCEPT !.req = TRUE]]
       /\ queue' = [queue EXCEPT ![n] = kept]
    \/ /\ e.req
       /\ queue' = [queue EXCEPT ![n] = kept]
       /\ rt' = [rt EXCEPT ![n][q.dst] = e]
       /\ net' = sent
       /\ UNCHANGED <<seqno, bid>>
    \/ /\ e.req
       /\ queue' = [queue EXCEPT ![n] = {x \in kept : x.dst # q.dst}]
       /\ rt' = [rt EXCEPT ![n][q.dst] = e]
       /\ net' = sent
       /\ UNCHANGED <<seqno, bid>>

(* recv and rt_resolve for a packet the node's own agents produce. *)
Originate(n, d) ==
  LET q == [src |-> n, dst |-> d, id |-> nsent + 1, copy |-> 0, fwd |-> 0]
      e == rt[n][d]
  IN
  /\ Running
  /\ <<n, d>> \in Flow
  /\ nsent < MaxData
  /\ nsent' = nsent + 1
  /\ \/ /\ e.flags = "UP"
        /\ net' = net \cup Forwarded(n, e.nexthop, {q})
        /\ UNCHANGED <<seqno, bid, rt, queue>>
     \/ /\ e.flags # "UP"
        /\ EnqueAndRequest(n, q, e, net)
  /\ failed' = failed \cup Check("rt_resolve UP hops", e.flags = "UP" => e.hops # INFINITY2)
  /\ UNCHANGED <<bcache, repairs, mac>>

(* A data packet reaches its destination, comes back to its source, or has  *)
(* no hops left: it goes no further.                                        *)
DataEnds(p) ==
  /\ p.to \in {p.dst, p.src} \/ p.fwd + 1 = NETWORK_DIAMETER
  /\ net' = net \ {p}
  /\ UNCHANGED <<seqno, bid, rt, bcache, queue, repairs, nsent, failed>>

(* recv and rt_resolve at a relay: forward, buffer during a local repair,   *)
(* or drop and broadcast an RERR with the entry's number as it is.          *)
DataRelayed(p) ==
  LET n == p.to
      e == rt[n][p.dst]
      q == [src |-> p.src, dst |-> p.dst, id |-> p.id, copy |-> p.copy, fwd |-> p.fwd + 1]
      rest == net \ {p}
  IN
  /\ n \notin {p.dst, p.src} /\ p.fwd + 1 < NETWORK_DIAMETER
  /\ \/ /\ e.flags = "UP"
        /\ net' = rest \cup Forwarded(n, e.nexthop, {q})
        /\ UNCHANGED queue
     \/ /\ e.flags = "IN_REPAIR"
        /\ \E old \in SUBSET queue[n] :
             queue' = [queue EXCEPT ![n] = (@ \ old) \cup {q}]
        /\ net' = rest
     \/ /\ e.flags = "DOWN"
        /\ net' = rest \cup RouteError(n, [d \in {p.dst} |-> e.seqno])
        /\ UNCHANGED queue
  /\ failed' = failed \cup Check("rt_resolve UP hops", e.flags = "UP" => e.hops # INFINITY2)
  /\ UNCHANGED <<seqno, bid, rt, bcache, repairs, nsent>>

-----------------------------------------------------------------------------
(* recvRequest, first two tests: my own request, or one heard recently. *)
RequestDiscarded(p) ==
  /\ p.to = p.src \/ <<p.src, p.bid>> \in bcache[p.to]
  /\ net' = net \ {p}
  /\ UNCHANGED <<seqno, bid, rt, bcache, queue, repairs, nsent, failed>>

(* The entry for the requester after recvRequest has looked at it. *)
ReverseRoute(n, p) ==
  LET e == rt[n][p.src] IN
  IF Fresher(e, p.srcseq, p.hc) THEN rt_update(e, p.srcseq, p.hc, p.from) ELSE e

NoRounding(s) == s
NextEven(s) == IF s % 2 = 0 THEN s ELSE s + 1

(* Mutants: the number announced is not kept. *)
AnswerOwnForgets(n, p, rt0, sent) ==
  LET own == NextEven(Greater(seqno[n], p.dstseq) + 1) IN
  /\ p.dst = n
  /\ own <= MaxSeqno
  /\ UNCHANGED seqno
  /\ rt' = [rt EXCEPT ![n][p.src] = rt0]
  /\ net' = sent \cup {RouteReply(n, rt0.nexthop, p.src, n, own, 1)}

(* I am the destination: answer with a number above every one heard. *)
AnswerOwn(n, p, rt0, sent) ==
  LET own == NextEven(Greater(seqno[n], p.dstseq) + 1) IN
  /\ p.dst = n
  /\ own <= MaxSeqno
  /\ seqno' = [seqno EXCEPT ![n] = own]
  /\ rt' = [rt EXCEPT ![n][p.src] = rt0]
  /\ net' = sent \cup {RouteReply(n, rt0.nexthop, p.src, n, own, 1)}

(* I have a fresh enough route, which the code tests by its hop count.  The *)
(* hop count of the answer stays below INFINITY2: a bound.                  *)
HasFreshRoute(n, p) ==
  rt[n][p.dst].hops # INFINITY2 /\ rt[n][p.dst].seqno >= p.dstseq

AnswerKnown(n, p, rt0, sent) ==
  LET e == rt[n][p.dst] IN
  /\ p.dst # n /\ HasFreshRoute(n, p)
  /\ e.hops + 1 < INFINITY2
  /\ rt' = [rt EXCEPT ![n][p.dst] = pc_insert(e, rt0.nexthop),
                      ![n][p.src] = pc_insert(rt0, e.nexthop)]
  /\ net' = sent \cup {RouteReply(n, rt0.nexthop, p.src, p.dst, e.seqno, e.hops + 1)}
  /\ UNCHANGED seqno

(* Cannot answer: rebroadcast while the TTL lasts. *)
RelayRequest(n, p, rt0, sent) ==
  /\ p.dst # n /\ ~HasFreshRoute(n, p)
  /\ rt' = [rt EXCEPT ![n][p.src] = rt0]
  /\ net' = sent \cup
       IF p.ttl = 1 THEN {}
       ELSE {[p EXCEPT !.from = n, !.to = m, !.hc = @ + 1, !.ttl = @ - 1,
                       !.dstseq = Greater(@, rt[n][p.dst].seqno)] : m \in Heard(n)}
  /\ UNCHANGED seqno

(* recvRequest past the two tests.  When the reverse route is accepted, the *)
(* packets waiting for the requester leave over it (old ones aged before).  *)
RecvRequest(p) ==
  LET n == p.to
      rt0 == ReverseRoute(n, p)
      learnt == Fresher(rt[n][p.src], p.srcseq, p.hc)
  IN
  /\ n # p.src /\ <<p.src, p.bid>> \notin bcache[n]
  /\ bcache' = [bcache EXCEPT ![n] = @ \cup {<<p.src, p.bid>>}]
  /\ \E old \in IF learnt THEN SUBSET queue[n] ELSE {{}} :
       LET go == IF learnt THEN Waiting(n, p.src) \ old ELSE {}
           sent == (net \ {p}) \cup Forwarded(n, p.from, go)
       IN /\ queue' = [queue EXCEPT ![n] = IF learnt THEN Released(n, p.src, old) ELSE @]
          /\ \/ AnswerOwn(n, p, rt0, sent)
             \/ AnswerKnown(n, p, rt0, sent)
             \/ RelayRequest(n, p, rt0, sent)
  /\ UNCHANGED <<bid, repairs, nsent, failed>>

-----------------------------------------------------------------------------
(* recvReply of an answer that is not fresher: suppressed, not forwarded. *)
ReplySuppressed(p) ==
  /\ ~Fresher(rt[p.to][p.dst], p.seq, p.hc)
  /\ net' = net \ {p}
  /\ UNCHANGED <<seqno, bid, rt, bcache, queue, repairs, nsent, failed>>

(* recvReply of a fresher one: take the route, release the packets waiting  *)
(* for it, then pass the answer on towards the requester if there is a      *)
(* route with a finite hop count (the passed-on hop count stays below       *)
(* INFINITY2: a bound).                                                     *)
RecvReply(p) ==
  LET n == p.to
      new == rt_update(rt[n][p.dst], p.seq, p.hc, p.from)
      rt0 == rt[n][p.daddr]
      relay == n # p.daddr /\ rt0.hops # INFINITY2
  IN
  /\ Fresher(rt[n][p.dst], p.seq, p.hc)
  /\ relay => p.hc + 1 < INFINITY2
  /\ rt' = [rt EXCEPT ![n][p.dst] =
              IF relay THEN pc_insert(new, rt0.nexthop) ELSE new]
  /\ \E old \in SUBSET queue[n] :
       /\ queue' = [queue EXCEPT ![n] = Released(n, p.dst, old)]
       /\ net' = (net \ {p}) \cup Forwarded(n, p.from, Waiting(n, p.dst) \ old)
            \cup IF relay /\ p.ttl > 1
                 THEN {[p EXCEPT !.from = n, !.to = rt0.nexthop, !.hc = @ + 1,
                                 !.ttl = @ - 1]}
                 ELSE {}
  /\ failed' = failed \cup Check("recvReply UP", relay => rt0.flags = "UP")
  /\ UNCHANGED <<seqno, bid, bcache, repairs, nsent>>

(* The destinations of an RERR that n routes through its sender with a      *)
(* number that is not newer.                                                *)
HitAnyNumber(n, p) ==
  {d \in DOMAIN p.lost : rt[n][d].hops # INFINITY2 /\ rt[n][d].nexthop = p.from}
Hit(n, p) ==
  {d \in DOMAIN p.lost : /\ rt[n][d].hops # INFINITY2
                         /\ rt[n][d].nexthop = p.from
                         /\ rt[n][d].seqno <= p.lost[d]}

(* recvError: take those routes down with the number listed, drop what the  *)
(* interface queue holds for the sender, and pass on the routes that had    *)
(* precursors.                                                              *)
RecvError(p) ==
  LET n == p.to
      hit == Hit(n, p)
      told == {d \in hit : rt[n][d].pc # {}}
  IN
  /\ rt' = [rt EXCEPT ![n] = [d \in Node |->
              IF d \in hit THEN pc_clear(rt_down([rt[n][d] EXCEPT !.seqno = p.lost[d]]))
              ELSE rt[n][d]]]
  /\ \E dropped \in IF hit = {} THEN {{}} ELSE SUBSET InterfaceQueue(n, p.from) :
       net' = (net \ ({p} \cup dropped))
                \cup RouteError(n, [d \in told |-> p.lost[d]])
  /\ failed' = failed \cup Check("recvError UP", \A d \in hit : rt[n][d].flags = "UP")
                      \cup Check("recvError even", \A d \in hit : rt[n][d].seqno % 2 = 0)
  /\ UNCHANGED <<seqno, bid, bcache, queue, repairs, nsent>>

-----------------------------------------------------------------------------
(* rt_ll_failed with AODV_LOCAL_REPAIR, when the packet has come further    *)
(* than the entry says it has to go: buffer it, ask for a route, and arm    *)
(* the repair timer.  Nothing checks that the entry still uses the link.    *)
StartRepair(p) ==
  LET n == p.from
      d == p.dst
      q == [src |-> p.src, dst |-> d, id |-> p.id, copy |-> p.copy, fwd |-> p.fwd]
  IN
  /\ LocalRepair /\ p.fwd > rt[n][d].hops
  /\ EnqueAndRequest(n, q, [rt[n][d] EXCEPT !.flags = "IN_REPAIR"], net \ {p})
  /\ repairs' = [repairs EXCEPT ![n][d] = @ + 1]
  /\ UNCHANGED <<bcache, nsent, failed>>

(* rt_ll_failed otherwise, with nb_delete and handle_link_failure: drop the *)
(* packet and what the interface queue holds for the neighbour, invalidate  *)
(* every route through it, remove it from all precursor lists, and          *)
(* broadcast what became unreachable.                                       *)
ThroughNeighbor(n, id) ==
  {d \in Node : rt[n][d].hops # INFINITY2 /\ rt[n][d].nexthop = id}

LinkBroken(p) ==
  LET n == p.from
      id == p.to
      gone == ThroughNeighbor(n, id)
  IN
  /\ ~(LocalRepair /\ p.fwd > rt[n][p.dst].hops)
  /\ seqno[n] + 2 <= MaxSeqno
  /\ seqno' = [seqno EXCEPT ![n] = @ + 2]
  /\ rt' = [rt EXCEPT ![n] = [d \in Node |->
              pc_delete(IF d \in gone THEN Invalidated(rt[n][d]) ELSE rt[n][d], id)]]
  /\ \E dropped \in SUBSET InterfaceQueue(n, id) :
       net' = (net \ ({p} \cup dropped))
                \cup RouteError(n, [d \in gone |-> rt[n][d].seqno + 1])
  /\ failed' = failed
       \cup Check("handle_link_failure UP", \A d \in gone : rt[n][d].flags = "UP")
       \cup Check("handle_link_failure even", \A d \in gone : rt[n][d].seqno % 2 = 0)
  /\ UNCHANGED <<bid, bcache, queue, repairs, nsent>>

(* Mutant: the test of the flags the wrong way round. *)
RepairTimerInverted(n, d) ==
  /\ Running
  /\ repairs[n][d] > 0
  /\ repairs' = [repairs EXCEPT ![n][d] = @ - 1]
  /\ rt' = [rt EXCEPT ![n][d] = IF @.flags = "UP" THEN rt_down(@) ELSE @]
  /\ UNCHANGED <<seqno, bid, bcache, queue, net, mac, nsent, failed>>

(* LocalRepairTimer::handle: a route that is not UP goes down, with its     *)
(* sequence number as it is and without an RERR.                            *)
RepairTimer(n, d) ==
  /\ Running
  /\ repairs[n][d] > 0
  /\ repairs' = [repairs EXCEPT ![n][d] = @ - 1]
  /\ rt' = [rt EXCEPT ![n][d] = IF @.flags = "UP" THEN @ ELSE rt_down(@)]
  /\ UNCHANGED <<seqno, bid, bcache, queue, net, mac, nsent, failed>>

-----------------------------------------------------------------------------
(* rt_purge, every half second.  expired: UP routes past rt_expire, which   *)
(* go down with what waits for them.  Packets that wait for a route that is *)
(* UP leave over it.  Packets that wait for one that is not make            *)
(* sendRequest run for it: asked are those it sends a request for, one by   *)
(* one in table order; dropped those it gives up.  old have aged.           *)
UpRoutes(n)     == {d \in Node : rt[n][d].flags = "UP"}
WantedRoutes(n) == {d \in Node \ UpRoutes(n) : Waiting(n, d) # {}}

PurgeSends(n, valid, asked, order, ttl, old) ==
  (UNION {Forwarded(n, rt[n][d].nexthop, Waiting(n, d) \ old) : d \in valid})
    \cup (UNION {RouteRequest(n, d, order[d], ttl[d]) : d \in asked})

PurgeRoutes(n, expired, asked, dropped, order, ttl, old) ==
  LET valid == UpRoutes(n) \ expired
      leave == {q \in queue[n] : q.dst \in expired \cup valid \cup dropped}
  IN
  /\ seqno[n] + 2 * Cardinality(asked) <= MaxSeqno
  /\ seqno' = [seqno EXCEPT ![n] = @ + 2 * Cardinality(asked)]
  /\ bid' = [bid EXCEPT ![n] = @ + Cardinality(asked)]
  /\ rt' = [rt EXCEPT ![n] = [d \in Node |->
              IF d \in expired THEN Invalidated(rt[n][d])
              ELSE IF d \in asked THEN [rt[n][d] EXCEPT !.req = TRUE]
              ELSE rt[n][d]]]
  /\ queue' = [queue EXCEPT ![n] = @ \ (old \cup leave)]
  /\ net' = net \cup PurgeSends(n, valid, asked, order, ttl, old)
  /\ failed' = failed
       \cup Check("rt_purge UP hops", \A d \in UpRoutes(n) : rt[n][d].hops # INFINITY2)
       \cup Check("rt_purge odd", \A d \in expired : (rt[n][d].seqno + 1) % 2 = 1)
  /\ UNCHANGED <<bcache, repairs, mac, nsent>>

Purge(n) ==
  /\ Running
  /\ \E expired \in SUBSET UpRoutes(n), asked \in SUBSET WantedRoutes(n) :
       /\ \A d \in WantedRoutes(n) \ asked : rt[n][d].req
       /\ \E dropped \in SUBSET (WantedRoutes(n) \ asked),
             order \in Injection(asked, 1 .. Cardinality(asked)), ttl \in [asked -> RingTTL] :
          \E old \in IF UpRoutes(n) \cup dropped = {} THEN {{}} ELSE SUBSET queue[n] :
            PurgeRoutes(n, expired, asked, dropped, order, ttl, old)

(* id_purge: request ids older than BCAST_ID_SAVE are forgotten. *)
IdPurge(n) ==
  /\ Running
  /\ \E old \in (SUBSET bcache[n]) \ {{}} : bcache' = [bcache EXCEPT ![n] = @ \ old]
  /\ UNCHANGED <<seqno, bid, rt, queue, repairs, net, mac, nsent, failed>>

-----------------------------------------------------------------------------
(* The MAC delivers p, but the acknowledgement is lost: the sender's MAC    *)
(* keeps the packet, which is from then on a copy of its own.  A request,   *)
(* answer or error handed back is dropped, so only data are kept track of.  *)
AckLost(p) ==
  /\ p.type = "DATA"
  /\ lostacks[p.id] < MaxLostAcks
  /\ lostacks' = [lostacks EXCEPT ![p.id] = @ + 1]
  /\ unacked' = unacked \cup {[p EXCEPT !.copy = lostacks[p.id] + 1]}

Receive(p) ==
  /\ Running
  /\ <<p.from, p.to>> \in Link
  /\ \/ p.type = "DATA" /\ (DataEnds(p) \/ DataRelayed(p))
     \/ p.type = "RREQ" /\ (RequestDiscarded(p) \/ RecvRequest(p))
     \/ p.type = "RREP" /\ (ReplySuppressed(p) \/ RecvReply(p))
     \/ p.type = "RERR" /\ RecvError(p)
  /\ UNCHANGED mac \/ AckLost(p)

(* The MAC hands back a data packet: one that did not arrive, or one that   *)
(* did without its sender hearing so.                                       *)
TransmitFailed(p) ==
  /\ Running
  /\ p.type = "DATA"
  /\ StartRepair(p) \/ LinkBroken(p)
  /\ unacked' = unacked \ {p}
  /\ UNCHANGED lostacks

Next ==
  \/ \E f \in Flow : Originate(f[1], f[2])
  \/ \E p \in net : Receive(p)
  \/ \E p \in net \cup unacked : TransmitFailed(p)
  \/ \E n, d \in Node : RepairTimer(n, d)
  \/ \E n \in RtTimers : Purge(n)
  \/ \E n \in IdTimers : IdPurge(n)

Spec == Init /\ [][Next]_vars

-----------------------------------------------------------------------------
TypeOK ==
  /\ seqno \in [Node -> {s \in Seqno : s % 2 = 0 /\ s >= 2}]
  /\ bid \in [Node -> Nat \ {0}]
  /\ rt \in [Node -> [Node -> Entry]]
  /\ bcache \in [Node -> SUBSET (Node \X (Nat \ {0}))]
  /\ queue \in [Node -> SUBSET Data]
  /\ repairs \in [Node -> [Node -> Nat]]
  /\ net \subseteq RREQs \cup RREPs \cup RERRs \cup DATAs
  /\ \A p \in net : p.type = "RREQ" => p.hc + p.ttl <= NETWORK_DIAMETER + 1
  /\ unacked \subseteq DATAs
  /\ lostacks \in [1 .. MaxData -> Copy]
  /\ nsent \in 0 .. MaxData
  /\ failed \subseteq Assertions

-----------------------------------------------------------------------------
(* An invalid route is exactly one with an infinite hop count, and a finite *)
(* one carries a number its destination announced: even.  The handlers test *)
(* now the one, now the other, now the third.                               *)
EntryConsistent ==
  \A n, d \in Node :
    /\ rt[n][d].flags = "DOWN" <=> rt[n][d].hops = INFINITY2
    /\ rt[n][d].hops # INFINITY2 => rt[n][d].seqno % 2 = 0 /\ rt[n][d].seqno >= 2

(* No packet is left behind in the buffer when its route is up: every       *)
(* handler that brings a route up releases what waits for it, as the        *)
(* comment in rt_purge expects ("This should not be needed").               *)
NoWaitingWhenUp ==
  \A n, d \in Node : rt[n][d].flags = "UP" =>
    ~rt[n][d].req /\ \A q \in queue[n] : q.dst # d

(* Nobody knows a destination by a number the destination has not reached:  *)
(* at most its own number, or the odd successor of it on an invalid entry   *)
(* or in a request; so an answer of its own is fresher than all of them.    *)
OwnerFreshest ==
  /\ \A n, d \in Node : rt[n][d].seqno <= seqno[d] + 1
  /\ \A p \in net : /\ p.type = "RREQ" => /\ p.dstseq <= seqno[p.dst] + 1
                                          /\ p.srcseq <= seqno[p.src]
                    /\ p.type = "RREP" => p.seq <= seqno[p.dst]
                    /\ p.type = "RERR" =>
                         \A d \in DOMAIN p.lost : p.lost[d] <= seqno[d] + 1

(* m is ahead of a route to d: it is d, or knows d by a larger number (an    *)
(* invalid entry counts with the number it was given), or by the same number *)
(* over fewer hops.                                                          *)
Ahead(m, d, seq, hc) ==
  m = d \/ rt[m][d].seqno > seq \/ (rt[m][d].seqno = seq /\ rt[m][d].hops < hc)

(* What loop freedom rests on, without local repair: the next hop of every  *)
(* usable route is ahead of it, and so is the sender of every request and   *)
(* answer in flight of what it offers; the numbers of usable routes are     *)
(* even and positive, those of lost ones odd or never set.                  *)
Usable(seq) == seq % 2 = 0 /\ seq >= 2
Void(seq)   == seq % 2 = 1 \/ seq = 0

LoopInv ==
  /\ \A n, d \in Node :
       \/ /\ rt[n][d].flags = "UP" /\ Usable(rt[n][d].seqno)
          /\ Ahead(rt[n][d].nexthop, d, rt[n][d].seqno, rt[n][d].hops)
       \/ rt[n][d].flags = "DOWN" /\ Void(rt[n][d].seqno)
  /\ \A p \in net :
       /\ p.type = "RREQ" => Ahead(p.from, p.src, p.srcseq, p.hc)
       /\ p.type = "RREP" => Ahead(p.from, p.dst, p.seq, p.hc)
       /\ p.type = "RERR" => \A d \in DOMAIN p.lost : Void(p.lost[d])

(* No data packet can be sent in a circle: in every set of nodes without    *)
(* the destination, some node has no usable route or leaves the set.        *)
LoopFree ==
  \A d \in Node : \A S \in SUBSET (Node \ {d}) : S # {} =>
    \E n \in S : rt[n][d].flags # "UP" \/ rt[n][d].nexthop \notin S

(* No assertion of the code fails. *)
NoAssertionFails == failed = {}

(* A data packet is multiplied only by local repair, and then only by lost  *)
(* acknowledgements, each of which adds one copy: buffering, releasing,     *)
(* purging and the reports of packets that did not arrive add none, and     *)
(* without local repair a packet handed back is dropped.                    *)
CopiesBounded ==
  \A i \in 1 .. MaxData :
    LET flying == {p \in net : p.type = "DATA" /\ p.id = i}
        held   == {h \in Node \X Data : h[2] \in queue[h[1]] /\ h[2].id = i}
    IN Cardinality(flying) + Cardinality(held)
         <= IF LocalRepair THEN 1 + lostacks[i] ELSE 1

(* Every repair under way has a timer that will end it. *)
RepairEnds ==
  \A n, d \in Node : rt[n][d].flags = "IN_REPAIR" => repairs[n][d] > 0

(* Knowledge about a destination only improves: an entry changes to a       *)
(* larger number, or keeps it with fewer hops or the same route.            *)
Improves(e, f) ==
  \/ f.seqno > e.seqno
  \/ f.seqno = e.seqno /\ f.hops < e.hops
  \/ f.seqno = e.seqno /\ f.hops = e.hops /\ f.nexthop = e.nexthop /\ f.flags = e.flags

RoutesImprove == [][\A n, d \in Node : Improves(rt[n][d], rt'[n][d])]_vars

-----------------------------------------------------------------------------
(* What the comments of the code say and the runs refute. *)

(* recvRequest, before it answers: "we make sure that the REVERSE route is  *)
(* in the route table".  An answer leaves over a route to the requester     *)
(* that is up.                                                              *)
ReplyHasRoute ==
  [][\A x \in net' \ net : x.type = "RREP" => rt'[x.from][x.daddr].flags = "UP"]_vars
=============================================================================
