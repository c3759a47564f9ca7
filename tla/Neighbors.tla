------------------------------ MODULE Neighbors ------------------------------
(***************************************************************************)
(* HELLO beacons, and the neighbour list one node keeps by them: the agent *)
(* built without AODV_LINK_LAYER_DETECTION, where a missing HELLO is the   *)
(* only sign of a broken link.  The senders' HelloTimers and the node's    *)
(* NeighborTimer run side by side; every HELLO may be lost, and a          *)
(* neighbour may move out of range for good.                               *)
(***************************************************************************)
EXTENDS Integers, FiniteSets

CONSTANTS
  Neighbor,  \* the nodes that may be heard
  Dst,       \* destinations routed to through them
  None,      \* the next hop of a route that is down
  ALLOWED_HELLO_LOSS,
  \* Durations, in ticks:
  HELLO_INTERVAL, MinHelloInterval, MaxHelloInterval,
  \* Bounds:
  MaxLost,   \* HELLOs of a neighbour lost in a row
  MaxSeqno   \* the own number starts again beyond this

ASSUME NeighborsAssumption ==
  /\ IsFiniteSet(Neighbor) /\ None \notin Neighbor
  /\ {ALLOWED_HELLO_LOSS, HELLO_INTERVAL, MinHelloInterval, MaxHelloInterval,
      MaxLost, MaxSeqno} \subseteq Nat \ {0}
  /\ MinHelloInterval <= MaxHelloInterval
  /\ HELLO_INTERVAL % 2 = 0 /\ MaxSeqno % 2 = 1 /\ MaxSeqno > 2
  /\ MaxLost > ALLOWED_HELLO_LOSS

VARIABLES
  nb,      \* nb[n]: the time left until nb_expire, for n in the list nbhead
  seqno,   \* the node's own sequence number
  ntimer,  \* the time until its NeighborTimer fires
  htimer,  \* htimer[n]: the time until n's HelloTimer fires
  lost,    \* lost[n]: HELLOs of n lost since one was received
  away,    \* the neighbours that have moved out of range
  route    \* route[d]: rt_nexthop of the route to d, None while it is down

vars == <<nb, seqno, ntimer, htimer, lost, away, route>>

Listed == DOMAIN nb

\* Mutant: without the safety margin.
nb_expire_exact == ALLOWED_HELLO_LOSS * HELLO_INTERVAL
nb_expire == (3 * ALLOWED_HELLO_LOSS * HELLO_INTERVAL) \div 2

\* "set of neighbors changed", k times.
Changed(k) == (seqno + 2 * k) % (MaxSeqno + 1)

\* Every agent is started at once: its timers' handlers run at time 0.
Init ==
  /\ nb = [n \in {} |-> 0]
  /\ seqno = 2
  /\ ntimer = 0
  /\ htimer = [n \in Neighbor |-> 0]
  /\ lost = [n \in Neighbor |-> 0]
  /\ away = {}
  /\ route = [d \in Dst |-> None]

\* Mutant: the set of neighbours changes, but the number does not tell.
nb_insert_odd(n) == seqno' = IF n \in Listed THEN seqno ELSE seqno + 1
\* recvHello: the own number once n is in the list.
nb_insert(n) == seqno' = IF n \in Listed THEN seqno ELSE Changed(1)

(* recvHello *)
RecvHello(n) ==
  /\ nb' = [m \in Listed \cup {n} |-> IF m = n THEN nb_expire ELSE nb[m]]
  /\ nb_insert(n)
  /\ lost' = [lost EXCEPT ![n] = 0]

Missed(n) ==
  /\ n \in away \/ lost[n] < MaxLost
  /\ lost' = [lost EXCEPT ![n] = IF @ = MaxLost THEN @ ELSE @ + 1]
  /\ UNCHANGED <<nb, seqno>>

(* HelloTimer at n: sendHello, and the timer set again to a random time. *)
SendHello(n) ==
  /\ htimer[n] = 0
  /\ \E interval \in MinHelloInterval .. MaxHelloInterval :
       htimer' = [htimer EXCEPT ![n] = interval]
  /\ (n \notin away /\ RecvHello(n)) \/ Missed(n)
  /\ UNCHANGED <<ntimer, away, route>>

\* Mutants: entries are kept for a period more; the routes are forgotten.
TimedOutLate == {n \in Listed : nb[n] <= -HELLO_INTERVAL}
RoutesKept(gone) == route
\* What nb_purge finds timed out.
TimedOut == {n \in Listed : nb[n] <= 0}

\* handle_link_failure, for all of them.
RoutesWithout(gone) == [d \in Dst |-> IF route[d] \in gone THEN None ELSE route[d]]

(* NeighborTimer: nb_purge, with nb_delete of each, and the timer set again. *)
nb_purge ==
  /\ ntimer = 0
  /\ nb' = [n \in Listed \ TimedOut |-> nb[n]]
  /\ seqno' = Changed(Cardinality(TimedOut))
  /\ route' = RoutesWithout(TimedOut)
  /\ ntimer' = HELLO_INTERVAL
  /\ UNCHANGED <<htimer, lost, away>>

(* recvRequest or recvReply of a packet that n sends, whether or not a HELLO *)
(* of n has been received; recvError or rt_purge.                            *)
RouteVia(d, n) ==
  /\ n \notin away
  /\ route' = [route EXCEPT ![d] = n]
  /\ UNCHANGED <<nb, seqno, ntimer, htimer, lost, away>>

RouteDown(d) ==
  /\ route[d] # None
  /\ route' = [route EXCEPT ![d] = None]
  /\ UNCHANGED <<nb, seqno, ntimer, htimer, lost, away>>

MoveAway(n) ==
  /\ n \notin away
  /\ away' = away \cup {n}
  /\ UNCHANGED <<nb, seqno, ntimer, htimer, lost, route>>

Tick ==
  /\ ntimer > 0 /\ \A n \in Neighbor : htimer[n] > 0
  /\ nb' = [n \in Listed |-> nb[n] - 1]
  /\ ntimer' = ntimer - 1
  /\ htimer' = [n \in Neighbor |-> htimer[n] - 1]
  /\ UNCHANGED <<seqno, lost, away, route>>

Next ==
  \/ \E n \in Neighbor : SendHello(n) \/ MoveAway(n)
  \/ nb_purge
  \/ \E d \in Dst : RouteDown(d) \/ \E n \in Neighbor : RouteVia(d, n)
  \/ Tick

\* The timers run and the clock goes on; nothing is assumed of the links.
Spec == Init /\ [][Next]_vars /\ WF_vars(nb_purge) /\ WF_vars(Tick)
          /\ \A n \in Neighbor : WF_vars(SendHello(n))

-----------------------------------------------------------------------------
(* nb_insert and nb_delete assert that the own number is even.               *)
TypeOK ==
  /\ Listed \subseteq Neighbor
  /\ \A n \in Listed : nb[n] \in -HELLO_INTERVAL .. nb_expire
  /\ seqno \in {s \in 0 .. MaxSeqno : s % 2 = 0}
  /\ ntimer \in 0 .. HELLO_INTERVAL
  /\ htimer \in [Neighbor -> 0 .. MaxHelloInterval]
  /\ lost \in [Neighbor -> 0 .. MaxLost]
  /\ away \subseteq Neighbor
  /\ route \in [Dst -> Neighbor \cup {None}]

(* A neighbour that has been silent is in the list no longer than until the  *)
(* purge that follows, however often the sender's timer has fired in between *)
(* and whatever else expired with it.                                        *)
SilentAreDropped == \A n \in Listed : nb[n] > -HELLO_INTERVAL

(* A neighbour is given up only if ALLOWED_HELLO_LOSS HELLOs in a row have   *)
(* not arrived, whatever intervals the senders draw.                         *)
GivenUpAfterLosses ==
  [][\A n \in Listed \ DOMAIN nb' : lost[n] >= ALLOWED_HELLO_LOSS]_vars

(* No route keeps pointing to a neighbour that has gone, if it was listed.   *)
RoutesFollow ==
  \A n \in Neighbor :
    n \in Listed \cap away ~> n \notin Listed /\ \A d \in Dst : route[d] # n

=============================================================================
