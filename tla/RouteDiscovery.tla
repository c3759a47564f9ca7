--------------------------- MODULE RouteDiscovery ---------------------------
(***************************************************************************)
(* Route discovery at one node, in time: when sendRequest sends a request, *)
(* withholds it or gives up, with which TTL, how long buffered packets     *)
(* wait, when routes expire, and when a local repair ends.  Module Aodv    *)
(* leaves all of this open; here the rest of the network is what is open:  *)
(* data, requests and answers arrive and links fail at any time.           *)
(*                                                                         *)
(* Time advances by ticks.  Points in time are kept as the time left until *)
(* them: rt_req_timeout, rt_expire and ts_ less CURRENT_TIME.  A timer's   *)
(* handler runs in the tick in which it is due, before time moves on.      *)
(***************************************************************************)
EXTENDS Integers, Sequences, SequencesExt

CONSTANTS
  Table,      \* the destinations, as rtable lists their entries from the head
  Me, Other,  \* this node, and a node that it has no entry for
  Packet,     \* data packets that may wait here; a name is used again once free
  To,         \* To[p]: the destination of packet p
  Distance,   \* hop counts that requests and answers arrive with
  Lifetime,   \* lifetimes that answers arrive with
  Latency,    \* discovery latencies per hop, in ticks
  LocalRepair,
  TTL_START, TTL_THRESHOLD, TTL_INCREMENT, NETWORK_DIAMETER, INFINITY2,
  RREQ_RETRIES, MAX_HISTORY,
  \* Durations, in ticks:
  SECOND, NODE_TRAVERSAL_TIME, MAX_RREQ_TIMEOUT, ACTIVE_ROUTE_TIMEOUT,
  REV_ROUTE_LIFE, AODV_RTQ_TIMEOUT, FREQUENCY,
  \* Bounds:
  Past,        \* what is past for longer counts as past for so long
  MaxElapsed,  \* an age of the simulation beyond this counts as this
  MaxRepairs   \* repair timers pending for a destination

Dst == Range(Table)

ASSUME ConstantAssumption ==
  /\ Table \in Seq(Dst) /\ IsInjective(Table)
  /\ Me # Other /\ {Me, Other} \cap Dst = {} /\ To \in [Packet -> Dst]
  /\ Distance \subseteq 1 .. INFINITY2 - 1
  /\ Lifetime \subseteq Nat /\ Latency \subseteq Nat \ {0}
  /\ LocalRepair \in BOOLEAN
  /\ {TTL_START, TTL_INCREMENT, RREQ_RETRIES, MAX_HISTORY, SECOND,
      NODE_TRAVERSAL_TIME, MAX_RREQ_TIMEOUT, ACTIVE_ROUTE_TIMEOUT,
      REV_ROUTE_LIFE, AODV_RTQ_TIMEOUT, FREQUENCY} \subseteq Nat \ {0}
  /\ TTL_THRESHOLD \in Nat /\ NETWORK_DIAMETER \in Nat /\ INFINITY2 \in Nat
  /\ TTL_THRESHOLD + TTL_INCREMENT <= NETWORK_DIAMETER
  /\ NETWORK_DIAMETER < INFINITY2
  /\ Past \in Nat /\ Past >= SECOND /\ Past > FREQUENCY
  /\ MaxElapsed \in Nat /\ MaxElapsed >= Past /\ MaxRepairs \in Nat

VARIABLES
  rt,       \* rt[d]: the entry for d
  queue,    \* queue[p]: the time packet p may still wait, for p in the buffer
  due,      \* the time until rtimer fires; Off before "start"
  repairs,  \* repairs[d]: the times until the repair timers for d fire
  elapsed   \* CURRENT_TIME

vars == <<rt, queue, due, repairs, elapsed>>

Off == -1
LongAgo == -Past

\* asked: rt_req_timeout > 0.  req_timeout is the time left until then.
Entry == [flags : {"DOWN", "UP", "IN_REPAIR"}, hops : 1 .. INFINITY2,
          last_hop_count : 1 .. INFINITY2, expire : Int,
          asked : BOOLEAN, req_timeout : 0 .. MAX_RREQ_TIMEOUT,
          req_cnt : 0 .. RREQ_RETRIES + 1, req_last_ttl : 0 .. INFINITY2,
          disc_latency : [0 .. MAX_HISTORY - 1 -> Latency \cup {0}],
          hist_indx : 0 .. MAX_HISTORY - 1]

Greater(a, b) == IF a > b THEN a ELSE b
Lesser(a, b)  == IF a < b THEN a ELSE b

Zero == Greater(-elapsed, LongAgo)   \* rt_expire = 0

FreshEntry ==
  [flags |-> "DOWN", hops |-> INFINITY2, last_hop_count |-> INFINITY2,
   expire |-> 0, asked |-> FALSE, req_timeout |-> 0, req_cnt |-> 0,
   req_last_ttl |-> 0, disc_latency |-> [i \in 0 .. MAX_HISTORY - 1 |-> 0],
   hist_indx |-> 0]

-----------------------------------------------------------------------------
(* The send buffer: aged packets leave it when it is used, except by find(). *)
(* It holds fewer packets than its limit; module RQueue has the list.        *)
Without(q, P) == [p \in DOMAIN q \ P |-> q[p]]
Aged(q)       == {p \in DOMAIN q : q[p] < 0}
find(q, d)    == \E p \in DOMAIN q : To[p] = d
enque(q, p)   ==
  [r \in (DOMAIN q \ Aged(q)) \cup {p} |-> IF r = p THEN AODV_RTQ_TIMEOUT ELSE q[r]]

\* deque(d) called until it returns nothing, and what that returned.
EmptiedOnce(q, d) ==
  LET P == {p \in DOMAIN q : To[p] = d} IN
  Without(q, Aged(q) \cup (IF P = {} THEN {} ELSE {CHOOSE p \in P : TRUE}))
Emptied(q, d)  == Without(q, Aged(q) \cup {p \in DOMAIN q : To[p] = d})
Released(q, d) == {p \in DOMAIN q \ Aged(q) : To[p] = d}

-----------------------------------------------------------------------------
(* The entry's operations.                                                   *)

rt_down(e) ==
  IF e.flags = "DOWN" THEN e
  ELSE [e EXCEPT !.last_hop_count = e.hops, !.hops = INFINITY2,
                 !.flags = "DOWN", !.expire = Zero]

\* forward() of some packets over the route.
Used(e, P) == IF P = {} THEN e ELSE [e EXCEPT !.expire = ACTIVE_ROUTE_TIMEOUT]

\* The latencies known: how many there are, and their sum.
Latencies(e) ==
  LET known[i \in 0 .. MAX_HISTORY] ==
        IF i = 0 THEN [num |-> 0, total |-> 0]
        ELSE LET m == known[i - 1]
                 l == e.disc_latency[i - 1]
             IN IF l > 0 THEN [num |-> m.num + 1, total |-> m.total + l] ELSE m
  IN known[MAX_HISTORY]

\* Their mean, NODE_TRAVERSAL_TIME if none is known, times k.
PerHopTime(e, k) ==
  LET m == Latencies(e) IN
  IF m.num = 0 THEN k * NODE_TRAVERSAL_TIME ELSE (k * m.total) \div m.num

\* sendRequest sends nothing while the route is up or the last request may
\* still be answered.
SearchesAlways(e) == e.flags # "UP"
Searches(e) == e.flags # "UP" /\ e.req_timeout = 0

GivesUpLater(e) == Searches(e) /\ e.req_cnt > RREQ_RETRIES + 1
GivesUp(e) == Searches(e) /\ e.req_cnt > RREQ_RETRIES

\* How far the destination was thought to be, by the last search or route.
Reach(e) == Greater(e.req_last_ttl, e.last_hop_count)
IsWide(e) == Reach(e) >= TTL_THRESHOLD

NextTTL(e) ==
  IF Reach(e) = 0 THEN TTL_START
  ELSE IF IsWide(e) THEN NETWORK_DIAMETER ELSE Reach(e) + TTL_INCREMENT

\* The entry once a request has gone out.
Asked(e) ==
  LET ttl == NextTTL(e)
      cnt == IF IsWide(e) THEN e.req_cnt + 1 ELSE e.req_cnt
      wait == PerHopTime(e, 2 * ttl * Greater(cnt, 1))
  IN [e EXCEPT !.req_last_ttl = ttl, !.req_cnt = cnt, !.asked = TRUE,
               !.req_timeout = Lesser(wait, MAX_RREQ_TIMEOUT), !.expire = Zero]

Rested(e) ==
  [e EXCEPT !.req_timeout = MAX_RREQ_TIMEOUT, !.req_cnt = 0, !.asked = TRUE]

\* What sendRequest makes of the entry, and of the buffer.
sendRequest(e) ==
  IF GivesUp(e) THEN Rested(e) ELSE IF Searches(e) THEN Asked(e) ELSE e
KeepsPackets(e, q, d) == q
DropsPackets(e, q, d) == IF GivesUp(e) THEN Emptied(q, d) ELSE q

\* rt_update of the entry by an answer or a request, the packets in P leaving.
ResetKeepsCount(e, hc) == [e EXCEPT !.req_timeout = 0, !.asked = FALSE, !.req_last_ttl = hc]
Reset(e, hc) ==
  [e EXCEPT !.req_cnt = 0, !.req_timeout = 0, !.asked = FALSE, !.req_last_ttl = hc]

Sampled(e, latency) ==
  [e EXCEPT !.disc_latency[e.hist_indx] = latency,
            !.hist_indx = (@ + 1) % MAX_HISTORY]

-----------------------------------------------------------------------------
Init ==
  /\ rt = [d \in Dst |-> FreshEntry]
  /\ queue = [p \in {} |-> 0]
  /\ due = Off
  /\ repairs = [d \in Dst |-> <<>>]
  /\ elapsed = 0

\* command("start") runs the timer's handler at once.
Start == due = Off /\ due' = 0 /\ UNCHANGED <<rt, queue, repairs, elapsed>>

(* rt_resolve for a packet of the node's own. *)
Originate(p) ==
  LET d == To[p]
      q == enque(queue, p)
  IN
  /\ p \notin DOMAIN queue
  /\ \/ /\ rt[d].flags = "UP"
        /\ rt' = [rt EXCEPT ![d] = Used(@, {p})]
        /\ UNCHANGED queue
     \/ /\ rt[d].flags # "UP"
        /\ rt' = [rt EXCEPT ![d] = sendRequest(@)]
        /\ queue' = DropsPackets(rt[d], q, d)
  /\ UNCHANGED <<due, repairs, elapsed>>

(* rt_resolve for a packet of another node; without a route it is dropped. *)
Relay(p) ==
  LET d == To[p] IN
  /\ p \notin DOMAIN queue
  /\ \/ /\ rt[d].flags = "UP"
        /\ rt' = [rt EXCEPT ![d] = Used(@, {p})]
        /\ UNCHANGED queue
     \/ /\ rt[d].flags = "IN_REPAIR"
        /\ queue' = enque(queue, p)
        /\ UNCHANGED rt
  /\ UNCHANGED <<due, repairs, elapsed>>

(* rt_purge for one entry; s holds the table and the buffer by then.  Only a *)
(* route that is up keeps an aged packet from being searched for.            *)
Expired(e) == e.flags = "UP" /\ e.expire < 0

PurgeEntry(s, d) ==
  LET e == s.rt[d] IN
  IF Expired(e) THEN
    [rt |-> [s.rt EXCEPT ![d] = rt_down(e)], queue |-> Emptied(s.queue, d)]
  ELSE IF e.flags = "UP" THEN
    [rt |-> [s.rt EXCEPT ![d] = Used(e, Released(s.queue, d))],
     queue |-> Emptied(s.queue, d)]
  ELSE IF find(s.queue, d) THEN
    [rt |-> [s.rt EXCEPT ![d] = sendRequest(e)],
     queue |-> DropsPackets(e, s.queue, d)]
  ELSE s

\* The table and the buffer when the first i entries have been purged.
Swept ==
  LET swept[i \in 0 .. Len(Table)] ==
        IF i = 0 THEN [rt |-> rt, queue |-> queue]
        ELSE PurgeEntry(swept[i - 1], Table[i])
  IN swept

(* RouteCacheTimer: rt_purge, and the timer set again. *)
Purge ==
  LET s == Swept[Len(Table)] IN
  /\ due = 0
  /\ rt' = s.rt
  /\ queue' = s.queue
  /\ due' = FREQUENCY
  /\ UNCHANGED <<repairs, elapsed>>

(* recvReply, an answer that is newer or shorter.  One to a request of this  *)
(* node's brings a latency; one to a request by src is forwarded, over the   *)
(* route to src if there is one.  The code asserts that it is up.            *)
RecvReply(d, hc, lifetime, src, latency) ==
  LET up  == [Reset(rt[d], hc) EXCEPT !.flags = "UP", !.hops = hc, !.expire = lifetime]
      e   == IF src = Me THEN Sampled(up, latency) ELSE up
      new == [rt EXCEPT ![d] = Used(e, Released(queue, d))]
      via == {s \in Dst \ {d} : s = src /\ rt[s].hops # INFINITY2}
  IN
  /\ \A s \in via : rt[s].flags = "UP"
  /\ rt' = [s \in Dst |-> Used(new[s], {s} \cap via)]
  /\ queue' = Emptied(queue, d)
  /\ UNCHANGED <<due, repairs, elapsed>>

(* recvRequest of a request by d, for the reverse route to d: fresh or not. *)
RecvRequest(d, hc, fresh) ==
  LET seen == [rt[d] EXCEPT !.expire = Greater(@, REV_ROUTE_LIFE)]
      up   == [seen EXCEPT !.flags = "UP", !.hops = hc]
      e    == IF up.asked THEN [Reset(up, hc) EXCEPT !.expire = ACTIVE_ROUTE_TIMEOUT]
              ELSE up
  IN
  /\ \/ /\ fresh
        /\ rt' = [rt EXCEPT ![d] = Used(e, Released(queue, d))]
        /\ queue' = Emptied(queue, d)
     \/ /\ ~fresh
        /\ rt' = [rt EXCEPT ![d] = seen]
        /\ UNCHANGED queue
  /\ UNCHANGED <<due, repairs, elapsed>>

(* handle_link_failure and recvError: the routes to the destinations in D    *)
(* go down.  The code asserts that they are up.                              *)
RoutesLost(D) ==
  /\ \A d \in D : rt[d].flags = "UP"
  /\ rt' = [d \in Dst |-> IF d \in D THEN rt_down(rt[d]) ELSE rt[d]]
  /\ UNCHANGED <<queue, due, repairs, elapsed>>

(* local_rt_repair of a packet handed back.  The delay of the timer is       *)
(* rt_req_timeout itself, not what is left until then.                       *)
RepairDelay(e) == elapsed + e.req_timeout

StartRepair(p) ==
  LET d == To[p]
      e == [rt[d] EXCEPT !.flags = "IN_REPAIR"]
  IN
  /\ LocalRepair
  /\ p \notin DOMAIN queue
  /\ rt[d].hops # INFINITY2 /\ Len(repairs[d]) < MaxRepairs
  /\ rt' = [rt EXCEPT ![d] = sendRequest(e)]
  /\ queue' = DropsPackets(e, enque(queue, p), d)
  /\ repairs' = [repairs EXCEPT ![d] = Append(@, RepairDelay(sendRequest(e)))]
  /\ UNCHANGED <<due, elapsed>>

RepairTimerInverted(d) ==
  \E i \in DOMAIN repairs[d] :
    /\ repairs[d][i] = 0
    /\ repairs' = [repairs EXCEPT ![d] = RemoveAt(@, i)]
    /\ rt' = [rt EXCEPT ![d] = IF @.flags = "UP" THEN rt_down(@) ELSE @]
    /\ UNCHANGED <<queue, due, elapsed>>

(* LocalRepairTimer *)
RepairTimer(d) ==
  \E i \in DOMAIN repairs[d] :
    /\ repairs[d][i] = 0
    /\ repairs' = [repairs EXCEPT ![d] = RemoveAt(@, i)]
    /\ rt' = [rt EXCEPT ![d] = IF @.flags = "UP" THEN @ ELSE rt_down(@)]
    /\ UNCHANGED <<queue, due, elapsed>>

(* The scheduler's clock moves on when no timer is due.  Agents are started  *)
(* at time 0.                                                                *)
Tick ==
  /\ due > 0
  /\ \A d \in Dst : 0 \notin Range(repairs[d])
  /\ rt' = [d \in Dst |->
              [rt[d] EXCEPT !.expire = Greater(@ - 1, LongAgo),
                            !.req_timeout = Greater(@ - 1, 0)]]
  /\ queue' = [p \in DOMAIN queue |-> Greater(queue[p] - 1, LongAgo)]
  /\ due' = due - 1
  /\ repairs' = [d \in Dst |-> [i \in DOMAIN repairs[d] |-> repairs[d][i] - 1]]
  /\ elapsed' = Lesser(elapsed + 1, MaxElapsed)

Next ==
  \/ Start
  \/ \E p \in Packet : Originate(p) \/ Relay(p) \/ StartRepair(p)
  \/ Purge
  \/ \E d \in Dst, hc \in Distance :
       \/ \E life \in Lifetime, src \in (Dst \ {d}) \cup {Me, Other}, l \in Latency \cup {0} :
            RecvReply(d, hc, life, src, l)
       \/ \E fresh \in BOOLEAN : RecvRequest(d, hc, fresh)
  \/ \E D \in SUBSET Dst : RoutesLost(D)
  \/ \E d \in Dst : RepairTimer(d)
  \/ Tick

\* ns-2 runs every event it was given, and its clock goes on; nothing is
\* assumed of the traffic or of the rest of the network.
Fairness == WF_vars(Start) /\ WF_vars(Purge) /\ WF_vars(Tick)
              /\ \A d \in Dst : WF_vars(RepairTimer(d))

Spec == Init /\ [][Next]_vars /\ Fairness

-----------------------------------------------------------------------------
TypeOK ==
  /\ rt \in [Dst -> Entry]
  /\ \A d \in Dst : rt[d].expire >= LongAgo
  /\ DOMAIN queue \subseteq Packet
  /\ \A p \in DOMAIN queue : queue[p] \in LongAgo .. AODV_RTQ_TIMEOUT
  /\ due \in {Off} \cup 0 .. FREQUENCY
  /\ \A d \in Dst : repairs[d] \in Seq(Nat) /\ Len(repairs[d]) <= MaxRepairs
  /\ elapsed \in 0 .. MaxElapsed

(* A packet waits only for a route that is not up, and that has been asked   *)
(* for since it was last up: no handler forgets to search for what it        *)
(* buffers or to release what it has found a route for.                      *)
WaitingIsSearched ==
  \A p \in DOMAIN queue : rt[To[p]].flags # "UP" /\ rt[To[p]].asked

(* The requests for each destination are spaced and limited as Search says.  *)
(* The limit is the one the test of rt_req_cnt gives, RREQ_RETRIES + 1; that *)
(* it is not the one in the comments is RetriesLimited, below.               *)
Phase(e) ==
  IF ~e.asked THEN "idle"
  ELSE IF e.req_cnt = 0 /\ e.req_last_ttl = NETWORK_DIAMETER THEN "resting"
  ELSE "searching"

Requests == INSTANCE Search WITH
              MaxWide <- RREQ_RETRIES + 1,
              phase <- [d \in Dst |-> Phase(rt[d])],
              wide <- [d \in Dst |-> rt[d].req_cnt],
              wait <- [d \in Dst |-> rt[d].req_timeout]
IsSearch == Requests!Spec

(* A local repair of a route in use asks for a new one at once, and keeps    *)
(* the packet that failed.                                                   *)
RepairAsks ==
  [][\A d \in Dst : rt[d].flags = "UP" /\ rt'[d].flags = "IN_REPAIR" =>
       rt'[d].asked /\ find(queue', d)]_vars

(* Every packet leaves the buffer, whatever answers come or stay away: the   *)
(* purge timer searches for it until it gives up, aged packets included.     *)
EveryPacketLeaves == \A p \in Packet : p \in DOMAIN queue ~> p \notin DOMAIN queue

(* Every local repair comes to an end, whatever fails meanwhile.             *)
RepairsEnd == \A d \in Dst : rt[d].flags = "IN_REPAIR" ~> rt[d].flags # "IN_REPAIR"

-----------------------------------------------------------------------------
(* What the comments of the code say and the runs refute.                    *)

(* RREQ_RETRIES, by aodv.h: "No. of times to do network-wide search before   *)
(* timing out for MAX_RREQ_TIMEOUT sec", and by sendRequest: "the maximum    *)
(* number we will allow before going to a long timeout".  rt_req_cnt is "the *)
(* no. of times we did network-wide broadcast".                              *)
RetriesLimited == \A d \in Dst : rt[d].req_cnt <= RREQ_RETRIES

(* sendRequest on rt_expire = 0, "this means that the entry is valid at      *)
(* present": the lifetime recvRequest announces for a route it would answer  *)
(* for, (u_int32_t) of rt_expire - CURRENT_TIME, is in the range of that     *)
(* conversion, which is defined above -1 second only.                        *)
LifetimeFits ==
  \A d \in Dst : rt[d].hops # INFINITY2 => rt[d].expire > -SECOND

(* LocalRepairTimer: "you get here after the timeout in a local repair       *)
(* attempt", which is at most MAX_RREQ_TIMEOUT ahead.                        *)
RepairTimerInTime ==
  \A d \in Dst : \A i \in DOMAIN repairs[d] : repairs[d][i] <= MAX_RREQ_TIMEOUT
=============================================================================
