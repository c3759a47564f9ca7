------------------------ MODULE RouteDiscoveryProofs ------------------------
(***************************************************************************)
(* Route discovery at one node, for every table, every network and every   *)
(* setting of the timers: its type invariant, that what waits is searched  *)
(* for, that a repair asks at once, and that the requests for a            *)
(* destination are those of Search.                                        *)
(*                                                                         *)
(* The state of a search lies in four fields of an entry.  EntryOK relates *)
(* them to each other and to the flags; every operation on an entry keeps  *)
(* it and makes at most one step of Search.  rt_purge goes through the     *)
(* entries with one buffer: what holds between two entries is SweptOK.     *)
(***************************************************************************)
EXTENDS RouteDiscovery, SetInduction, SequenceTheorems

LEMMA Constants ==
  /\ To \in [Packet -> Dst]
  /\ Distance \subseteq 1 .. INFINITY2 - 1 /\ Lifetime \subseteq Nat
  /\ Latency \subseteq Nat \ {0}
  /\ TTL_START \in Nat \ {0} /\ TTL_INCREMENT \in Nat \ {0}
  /\ RREQ_RETRIES \in Nat \ {0} /\ MAX_HISTORY \in Nat \ {0}
  /\ NODE_TRAVERSAL_TIME \in Nat \ {0} /\ MAX_RREQ_TIMEOUT \in Nat \ {0}
  /\ ACTIVE_ROUTE_TIMEOUT \in Nat \ {0} /\ REV_ROUTE_LIFE \in Nat \ {0}
  /\ AODV_RTQ_TIMEOUT \in Nat \ {0} /\ FREQUENCY \in Nat \ {0}
  /\ TTL_THRESHOLD \in Nat /\ NETWORK_DIAMETER \in Nat /\ INFINITY2 \in Nat
  /\ TTL_THRESHOLD + TTL_INCREMENT <= NETWORK_DIAMETER
  /\ NETWORK_DIAMETER < INFINITY2
  /\ Past \in Nat /\ MaxElapsed \in Nat /\ MaxRepairs \in Nat /\ Past > FREQUENCY
  BY ConstantAssumption

-----------------------------------------------------------------------------
(* The loop of PerHopTime: no latency that it counts is less than a tick.  *)
LEMMA LatenciesType ==
  ASSUME NEW e, e.disc_latency \in [0 .. MAX_HISTORY - 1 -> Latency \cup {0}]
  PROVE  /\ Latencies(e).num \in Nat /\ Latencies(e).total \in Nat
         /\ Latencies(e).num <= Latencies(e).total
  <1> DEFINE h == e.disc_latency
             S == {m \in [num : Nat, total : Nat] : m.num <= m.total}
             next(i, m) == LET l == h[i - 1] IN
                           IF l > 0 THEN [num |-> m.num + 1, total |-> m.total + l] ELSE m
             a == [num |-> 0, total |-> 0]
             G == [x \in (1 .. MAX_HISTORY) \X S |-> next(x[1], x[2])]
             P(f) == f = [i \in 0 .. MAX_HISTORY |-> IF i = 0 THEN a ELSE next(i, f[i - 1])]
  <1>0. MAX_HISTORY \in Nat /\ Latency \subseteq Nat
    BY Constants
  <1>11. \A i \in 1 .. MAX_HISTORY : h[i - 1] \in Nat
    <2>1. h \in [0 .. MAX_HISTORY - 1 -> Latency \cup {0}]
      OBVIOUS
    <2> HIDE DEF h
    <2> TAKE i \in 1 .. MAX_HISTORY
    <2>2. i - 1 \in 0 .. MAX_HISTORY - 1
      BY <1>0
    <2>3. h[i - 1] \in Latency \cup {0}
      BY <2>1, <2>2
    <2>4. \A x \in Latency \cup {0} : x \in Nat
      BY <1>0
    <2> QED BY <2>3, <2>4
  <1> HIDE DEF h
  <1>1. a \in S
    OBVIOUS
  <1>2. \A i \in 1 .. MAX_HISTORY, m \in S : next(i, m) \in S
    <2> TAKE i \in 1 .. MAX_HISTORY, m \in S
    <2>1. h[i - 1] \in Nat
      BY <1>11
    <2>2. m \in [num : Nat, total : Nat] /\ m.num <= m.total
      OBVIOUS
    <2> QED BY <2>1, <2>2
  <1> HIDE DEF S, next
  <1>3. G \in [(1 .. MAX_HISTORY) \X S -> S]
    BY <1>2
  <1>4. PICK f : Unfolds(f, MAX_HISTORY, S, a, G)
    <2> HIDE DEF G, a
    <2> QED BY <1>0, <1>1, <1>3, Recursion
  <1>5. P(f)
    <2>1. ASSUME NEW i \in 0 .. MAX_HISTORY, i # 0
          PROVE  f[i] = next(i, f[i - 1])
      <3>1. i \in 1 .. MAX_HISTORY /\ i - 1 \in 0 .. MAX_HISTORY
        BY <1>0, <2>1
      <3>2. f[i - 1] \in S /\ f[i] = G[<<i, f[i - 1]>>]
        BY <1>4, <3>1 DEF Unfolds
      <3> QED BY <3>1, <3>2
    <2>2. f \in [0 .. MAX_HISTORY -> S] /\ f[0] = a
      BY <1>4 DEF Unfolds
    <2> HIDE DEF a
    <2> QED BY <2>1, <2>2
  <1> DEFINE known == CHOOSE g : P(g)
  <1>6. P(known)
    <2> HIDE DEF P
    <2> QED BY <1>5
  <1>7. Latencies(e) = known[MAX_HISTORY]
    BY DEF Latencies, next, h
  <1> HIDE DEF known
  <1>8. known[0] = a /\ \A i \in 1 .. MAX_HISTORY : known[i] = next(i, known[i - 1])
    BY <1>0, <1>1, <1>6
  <1> DEFINE T == {i \in 0 .. MAX_HISTORY : known[i] \in S}
  <1>9. 0 .. MAX_HISTORY \subseteq T
    <2>1. 0 \in T
      BY <1>0, <1>1, <1>8
    <2>2. \A k \in 0 .. MAX_HISTORY : k < MAX_HISTORY /\ k \in T => k + 1 \in T
      <3> SUFFICES ASSUME NEW k \in 0 .. MAX_HISTORY, k < MAX_HISTORY, k \in T PROVE k + 1 \in T
        OBVIOUS
      <3>1. k + 1 \in 1 .. MAX_HISTORY /\ (k + 1) - 1 = k /\ k + 1 \in 0 .. MAX_HISTORY
        BY <1>0, <1>1
      <3> QED BY <1>2, <1>8, <3>1
    <2> HIDE DEF T
    <2> QED BY <1>0, <1>1, <2>1, <2>2, InductionTo
  <1>10. known[MAX_HISTORY] \in S
    BY <1>0, <1>1, <1>9
  <1> QED BY <1>7, <1>10 DEF S

LEMMA Quotient ==
  ASSUME NEW k \in Nat \ {0}, NEW t \in Nat, NEW n \in Nat \ {0}, n <= t
  PROVE  (k * t) \div n \in Nat \ {0}
  <1>1. k * t \in Nat /\ k * t >= t
    OBVIOUS
  <1> DEFINE a == k * t
  <1>2. a \in Nat /\ a >= n
    BY <1>1
  <1> HIDE DEF a
  <1>3. (a \div n) \in Nat \ {0}
    BY <1>2
  <1> QED BY <1>3 DEF a

LEMMA PerHopTimeType ==
  ASSUME NEW e, e.disc_latency \in [0 .. MAX_HISTORY - 1 -> Latency \cup {0}],
         NEW k \in Nat \ {0}
  PROVE  PerHopTime(e, k) \in Nat \ {0}
  <1> DEFINE m == Latencies(e)
  <1>1. m.num \in Nat /\ m.total \in Nat /\ m.num <= m.total
    BY LatenciesType
  <1> HIDE DEF m
  <1>2. k * NODE_TRAVERSAL_TIME \in Nat \ {0}
    BY Constants
  <1>3. m.num # 0 => (k * m.total) \div m.num \in Nat \ {0}
    BY <1>1, Quotient
  <1> QED BY <1>2, <1>3 DEF PerHopTime, m

-----------------------------------------------------------------------------
(* What an entry remembers of its search.  A network-wide search that is   *)
(* counted was the last one, and its TTL is still there; an entry that has *)
(* not been asked for waits for nothing.                                   *)
SearchOK(e) ==
  /\ e \in Entry
  /\ e.expire >= LongAgo
  /\ e.req_cnt > 0 => e.asked /\ e.req_last_ttl = NETWORK_DIAMETER
  /\ ~e.asked => e.req_timeout = 0

(* A repair has been asked for, and a route that is up has forgotten how   *)
(* often it was searched for.                                              *)
EntryOK(e) ==
  /\ SearchOK(e)
  /\ e.flags = "IN_REPAIR" => e.asked
  /\ e.flags = "UP" => e.req_cnt = 0

\* The search is as it was.
Unmoved(e, f) ==
  /\ f.asked = e.asked /\ f.req_timeout = e.req_timeout
  /\ f.req_cnt = e.req_cnt /\ f.req_last_ttl = e.req_last_ttl

LEMMA FreshOK == EntryOK(FreshEntry)
  <1>1. /\ INFINITY2 \in 1 .. INFINITY2 /\ 0 \in 0 .. MAX_RREQ_TIMEOUT
        /\ 0 \in 0 .. RREQ_RETRIES + 1 /\ 0 \in 0 .. INFINITY2
        /\ 0 \in 0 .. MAX_HISTORY - 1 /\ 0 >= LongAgo
    BY Constants DEF LongAgo
  <1>2. [i \in 0 .. MAX_HISTORY - 1 |-> 0] \in [0 .. MAX_HISTORY - 1 -> Latency \cup {0}]
    OBVIOUS
  <1>3. FreshEntry \in Entry
    BY <1>1, <1>2 DEF FreshEntry, Entry
  <1> QED BY <1>1, <1>3 DEF EntryOK, SearchOK, FreshEntry

LEMMA ZeroType ==
  ASSUME elapsed \in 0 .. MaxElapsed
  PROVE  Zero \in Int /\ Zero >= LongAgo
  <1>1. -elapsed \in Int /\ LongAgo \in Int
    BY Constants DEF LongAgo
  <1> QED BY <1>1 DEF Zero, Greater

LEMMA DownOK ==
  ASSUME NEW e, EntryOK(e), elapsed \in 0 .. MaxElapsed
  PROVE  /\ EntryOK(rt_down(e)) /\ Unmoved(e, rt_down(e))
         /\ rt_down(e).flags # "UP" /\ rt_down(e).flags # "IN_REPAIR"
  <1> DEFINE f == rt_down(e)
  <1>1. e \in Entry /\ SearchOK(e)
    BY DEF EntryOK, SearchOK
  <1>2. CASE e.flags = "DOWN"
    BY <1>2 DEF rt_down, Unmoved
  <1>3. CASE e.flags # "DOWN"
    <2>1. f = [e EXCEPT !.last_hop_count = e.hops, !.hops = INFINITY2,
                        !.flags = "DOWN", !.expire = Zero]
      BY <1>3 DEF rt_down
    <2>2. INFINITY2 \in 1 .. INFINITY2 /\ Zero \in Int /\ Zero >= LongAgo
      BY Constants, ZeroType
    <2> HIDE DEF f
    <2>3. f \in Entry
      BY <1>1, <2>1, <2>2 DEF Entry
    <2>4. f.flags = "DOWN" /\ f.expire = Zero /\ Unmoved(e, f)
      BY <1>1, <2>1 DEF Entry, Unmoved
    <2>5. SearchOK(f)
      BY <1>1, <2>2, <2>3, <2>4 DEF SearchOK, Unmoved
    <2> QED BY <2>4, <2>5 DEF EntryOK, f
  <1> QED BY <1>2, <1>3

LEMMA UsedOK ==
  ASSUME NEW e, EntryOK(e), NEW P
  PROVE  EntryOK(Used(e, P)) /\ Unmoved(e, Used(e, P)) /\ Used(e, P).flags = e.flags
  <1> DEFINE f == Used(e, P)
  <1>1. e \in Entry /\ SearchOK(e)
    BY DEF EntryOK, SearchOK
  <1>2. CASE P = {}
    BY <1>2 DEF Used, Unmoved
  <1>3. CASE P # {}
    <2>1. f = [e EXCEPT !.expire = ACTIVE_ROUTE_TIMEOUT]
      BY <1>3 DEF Used
    <2>2. ACTIVE_ROUTE_TIMEOUT \in Int /\ ACTIVE_ROUTE_TIMEOUT >= LongAgo
      BY Constants DEF LongAgo
    <2> HIDE DEF f
    <2>3. f \in Entry
      BY <1>1, <2>1, <2>2 DEF Entry
    <2>4. f.flags = e.flags /\ f.expire = ACTIVE_ROUTE_TIMEOUT /\ Unmoved(e, f)
      BY <1>1, <2>1 DEF Entry, Unmoved
    <2>5. SearchOK(f)
      BY <1>1, <2>2, <2>3, <2>4 DEF SearchOK, Unmoved
    <2> QED BY <2>4, <2>5 DEF EntryOK, f, Unmoved
  <1> QED BY <1>2, <1>3

LEMMA ResetOK ==
  ASSUME NEW e, SearchOK(e), NEW hc \in Distance
  PROVE  LET f == Reset(e, hc) IN
         /\ SearchOK(f) /\ f.req_cnt = 0 /\ ~f.asked /\ f.req_timeout = 0
         /\ f.flags = e.flags
  <1> DEFINE f == Reset(e, hc)
  <1>1. e \in Entry /\ e.expire >= LongAgo
    BY DEF SearchOK
  <1>2. f = [e EXCEPT !.req_cnt = 0, !.req_timeout = 0, !.asked = FALSE, !.req_last_ttl = hc]
    BY DEF Reset
  <1>3. hc \in 0 .. INFINITY2 /\ 0 \in 0 .. RREQ_RETRIES + 1 /\ 0 \in 0 .. MAX_RREQ_TIMEOUT
    BY Constants
  <1> HIDE DEF f
  <1>4. f \in Entry
    BY <1>1, <1>2, <1>3 DEF Entry
  <1>5. /\ f.req_cnt = 0 /\ ~f.asked /\ f.req_timeout = 0 /\ f.flags = e.flags
        /\ f.expire = e.expire
    BY <1>1, <1>2 DEF Entry
  <1>6. SearchOK(f)
    BY <1>1, <1>4, <1>5 DEF SearchOK
  <1> QED BY <1>5, <1>6 DEF f

(* One step of Search, for one destination. *)
Becomes(f, p, n, w) == Phase(f) = p /\ f.req_cnt = n /\ f.req_timeout = w
SearchStep(e, f) ==
  \/ /\ e.req_timeout = 0 /\ e.req_cnt = 0 /\ Phase(e) # "resting"
     /\ \E w \in 1 .. MAX_RREQ_TIMEOUT : Becomes(f, "searching", 0, w)
  \/ /\ e.req_timeout = 0 /\ e.req_cnt < RREQ_RETRIES + 1
     /\ \E w \in 1 .. MAX_RREQ_TIMEOUT : Becomes(f, "searching", e.req_cnt + 1, w)
  \/ /\ e.req_timeout = 0 /\ e.req_cnt = RREQ_RETRIES + 1
     /\ Becomes(f, "resting", 0, MAX_RREQ_TIMEOUT)
  \/ Becomes(f, "idle", 0, 0)
  \/ e.req_timeout > 0 /\ Becomes(f, Phase(e), e.req_cnt, e.req_timeout - 1)
  \/ Becomes(f, Phase(e), e.req_cnt, e.req_timeout)

LEMMA UnmovedStep ==
  ASSUME NEW e, NEW f, Unmoved(e, f)
  PROVE  SearchStep(e, f)
  <1>1. Phase(f) = Phase(e)
    BY DEF Unmoved, Phase
  <1> QED BY <1>1 DEF Unmoved, SearchStep, Becomes

LEMMA RestedOK ==
  ASSUME NEW e, SearchOK(e), GivesUp(e), e.flags # "UP"
  PROVE  LET f == Rested(e) IN
         EntryOK(f) /\ f.asked /\ f.flags = e.flags /\ SearchStep(e, f)
  <1> DEFINE f == Rested(e)
  <1>1. /\ e \in Entry /\ e.expire >= LongAgo /\ e.req_timeout = 0
        /\ e.req_cnt > RREQ_RETRIES /\ e.req_cnt \in 0 .. RREQ_RETRIES + 1
        /\ e.req_cnt > 0 => e.req_last_ttl = NETWORK_DIAMETER
    BY DEF SearchOK, GivesUp, Searches, Entry
  <1>2. e.req_cnt = RREQ_RETRIES + 1 /\ e.req_last_ttl = NETWORK_DIAMETER
    BY <1>1, Constants
  <1>3. f = [e EXCEPT !.req_timeout = MAX_RREQ_TIMEOUT, !.req_cnt = 0, !.asked = TRUE]
    BY DEF Rested
  <1>4. MAX_RREQ_TIMEOUT \in 0 .. MAX_RREQ_TIMEOUT /\ 0 \in 0 .. RREQ_RETRIES + 1
    BY Constants
  <1> HIDE DEF f
  <1>5. f \in Entry
    BY <1>1, <1>3, <1>4 DEF Entry
  <1>6. /\ f.req_timeout = MAX_RREQ_TIMEOUT /\ f.req_cnt = 0 /\ f.asked
        /\ f.req_last_ttl = e.req_last_ttl /\ f.flags = e.flags /\ f.expire = e.expire
    BY <1>1, <1>3 DEF Entry
  <1>7. EntryOK(f)
    BY <1>1, <1>5, <1>6 DEF EntryOK, SearchOK
  <1>8. Phase(f) = "resting"
    BY <1>2, <1>6 DEF Phase
  <1>9. SearchStep(e, f)
    BY <1>1, <1>2, <1>6, <1>8 DEF SearchStep, Becomes
  <1> QED BY <1>6, <1>7, <1>9 DEF f

LEMMA AskedOK ==
  ASSUME NEW e, SearchOK(e), Searches(e), ~GivesUp(e), elapsed \in 0 .. MaxElapsed
  PROVE  LET f == Asked(e) IN
         EntryOK(f) /\ f.asked /\ f.flags = e.flags /\ SearchStep(e, f)
  <1> DEFINE ttl == NextTTL(e)
             cnt == IF IsWide(e) THEN e.req_cnt + 1 ELSE e.req_cnt
             wait == PerHopTime(e, 2 * ttl * Greater(cnt, 1))
             left == Lesser(wait, MAX_RREQ_TIMEOUT)
             f == Asked(e)
  <1>1. /\ e \in Entry /\ e.req_timeout = 0 /\ e.flags # "UP"
        /\ ~(e.req_cnt > RREQ_RETRIES)
        /\ e.req_cnt > 0 => e.asked /\ e.req_last_ttl = NETWORK_DIAMETER
    BY DEF SearchOK, GivesUp, Searches
  <1>2. /\ e.req_cnt \in Nat /\ e.req_cnt <= RREQ_RETRIES
        /\ e.last_hop_count \in 1 .. INFINITY2 /\ e.req_last_ttl \in 0 .. INFINITY2
        /\ e.disc_latency \in [0 .. MAX_HISTORY - 1 -> Latency \cup {0}]
    BY <1>1, Constants DEF Entry
  <1>3. /\ Reach(e) \in Nat \ {0} /\ Reach(e) >= e.req_last_ttl
    BY <1>2, Constants DEF Reach, Greater
  <1>4. IsWide(e) => ttl = NETWORK_DIAMETER
    BY <1>3 DEF NextTTL
  <1>5. ~IsWide(e) => ttl = Reach(e) + TTL_INCREMENT /\ ttl < NETWORK_DIAMETER /\ e.req_cnt = 0
    <2> SUFFICES ASSUME ~IsWide(e)
                 PROVE  ttl = Reach(e) + TTL_INCREMENT /\ ttl < NETWORK_DIAMETER /\ e.req_cnt = 0
      OBVIOUS
    <2>1. ttl = Reach(e) + TTL_INCREMENT
      BY <1>3 DEF NextTTL
    <2>2. Reach(e) < TTL_THRESHOLD
      BY <1>3, Constants DEF IsWide
    <2> HIDE DEF ttl
    <2>3. ttl < NETWORK_DIAMETER /\ e.req_last_ttl < NETWORK_DIAMETER
      BY <1>2, <1>3, <2>1, <2>2, Constants
    <2>4. e.req_cnt = 0
      BY <1>1, <1>2, <2>3, Constants
    <2> QED BY <2>1, <2>3, <2>4
  <1> HIDE DEF ttl
  <1>6. ttl \in Nat \ {0} /\ ttl \in 0 .. INFINITY2
    BY <1>3, <1>4, <1>5, Constants
  <1>7. cnt \in Nat /\ cnt \in 0 .. RREQ_RETRIES + 1
    BY <1>2, Constants
  <1> HIDE DEF cnt
  <1>8. wait \in Nat \ {0}
    <2>1. Greater(cnt, 1) \in Nat \ {0}
      BY <1>7 DEF Greater
    <2>2. 2 * ttl * Greater(cnt, 1) \in Nat \ {0}
      <3>1. 2 * ttl \in Nat \ {0}
        BY <1>6
      <3> QED BY <2>1, <3>1
    <2> QED BY <1>2, <2>2, PerHopTimeType
  <1> HIDE DEF wait
  <1>9. left \in 1 .. MAX_RREQ_TIMEOUT
    BY <1>8, Constants DEF Lesser
  <1> HIDE DEF left
  <1>10. f = [e EXCEPT !.req_last_ttl = ttl, !.req_cnt = cnt, !.asked = TRUE,
                       !.req_timeout = left, !.expire = Zero]
    BY DEF Asked, ttl, cnt, wait, left
  <1>11. Zero \in Int /\ Zero >= LongAgo
    BY ZeroType
  <1>12. left \in 0 .. MAX_RREQ_TIMEOUT
    BY <1>9, Constants
  <1> HIDE DEF f
  <1>13. f \in Entry
    BY <1>1, <1>6, <1>7, <1>10, <1>11, <1>12 DEF Entry
  <1>14. /\ f.req_last_ttl = ttl /\ f.req_cnt = cnt /\ f.asked /\ f.req_timeout = left
         /\ f.expire = Zero /\ f.flags = e.flags
    BY <1>1, <1>10 DEF Entry
  <1>15. CASE IsWide(e)
    <2>1. cnt = e.req_cnt + 1 /\ cnt > 0
      BY <1>2, <1>15 DEF cnt
    <2>2. SearchOK(f)
      BY <1>4, <1>11, <1>13, <1>14, <1>15 DEF SearchOK
    <2>3. Phase(f) = "searching"
      BY <1>7, <1>14, <2>1 DEF Phase
    <2>4. SearchStep(e, f)
      <3>1. e.req_timeout = 0 /\ e.req_cnt < RREQ_RETRIES + 1
        BY <1>1, <1>2, Constants
      <3>2. Becomes(f, "searching", e.req_cnt + 1, left)
        BY <1>14, <2>1, <2>3 DEF Becomes
      <3> QED BY <1>9, <3>1, <3>2 DEF SearchStep
    <2> QED BY <1>1, <1>14, <2>2, <2>4 DEF EntryOK, f
  <1>16. CASE ~IsWide(e)
    <2>1. cnt = 0 /\ ttl # NETWORK_DIAMETER
      BY <1>5, <1>6, <1>16, Constants DEF cnt
    <2>2. SearchOK(f)
      BY <1>11, <1>13, <1>14, <2>1 DEF SearchOK
    <2>3. Phase(f) = "searching"
      BY <1>14, <2>1 DEF Phase
    <2>4. SearchStep(e, f)
      <3>1. Phase(e) # "resting"
        <4>1. e.req_last_ttl # NETWORK_DIAMETER
          <5>1. Reach(e) < TTL_THRESHOLD
            BY <1>3, <1>16, Constants DEF IsWide
          <5> QED BY <1>2, <1>3, <5>1, Constants
        <4> QED BY <4>1 DEF Phase
      <3>2. Becomes(f, "searching", 0, left)
        BY <1>14, <2>1, <2>3 DEF Becomes
      <3>3. e.req_timeout = 0 /\ e.req_cnt = 0
        BY <1>1, <1>5, <1>16
      <3> QED BY <1>9, <3>1, <3>2, <3>3 DEF SearchStep
    <2> QED BY <1>1, <1>14, <2>2, <2>4 DEF EntryOK, f
  <1> QED BY <1>15, <1>16

(* Whatever sendRequest does to an entry that is not up, it has asked. *)
LEMMA SendOK ==
  ASSUME NEW e, SearchOK(e), e.flags # "UP", elapsed \in 0 .. MaxElapsed
  PROVE  LET f == sendRequest(e) IN
         EntryOK(f) /\ f.asked /\ f.flags = e.flags /\ SearchStep(e, f)
  <1>1. CASE GivesUp(e)
    BY <1>1, RestedOK DEF sendRequest
  <1>2. CASE ~GivesUp(e) /\ Searches(e)
    BY <1>2, AskedOK DEF sendRequest
  <1>3. CASE ~GivesUp(e) /\ ~Searches(e)
    <2>1. sendRequest(e) = e
      BY <1>3 DEF sendRequest
    <2>2. e.asked
      BY <1>3 DEF Searches, SearchOK
    <2>3. SearchStep(e, e)
      BY UnmovedStep DEF Unmoved
    <2> QED BY <2>1, <2>2, <2>3 DEF EntryOK
  <1> QED BY <1>1, <1>2, <1>3

-----------------------------------------------------------------------------
(* The send buffer. *)
Buffers == UNION {[P -> LongAgo .. AODV_RTQ_TIMEOUT] : P \in SUBSET Packet}

LEMMA BuffersDef ==
  ASSUME NEW q
  PROVE  q \in Buffers <=> /\ q = [p \in DOMAIN q |-> q[p]]
                           /\ DOMAIN q \subseteq Packet
                           /\ \A p \in DOMAIN q : q[p] \in LongAgo .. AODV_RTQ_TIMEOUT
  <1>1. ASSUME q \in Buffers
        PROVE  /\ q = [p \in DOMAIN q |-> q[p]]
               /\ DOMAIN q \subseteq Packet
               /\ \A p \in DOMAIN q : q[p] \in LongAgo .. AODV_RTQ_TIMEOUT
    <2>1. PICK P \in SUBSET Packet : q \in [P -> LongAgo .. AODV_RTQ_TIMEOUT]
      BY <1>1 DEF Buffers
    <2> QED BY <2>1
  <1>2. ASSUME q = [p \in DOMAIN q |-> q[p]], DOMAIN q \subseteq Packet,
               \A p \in DOMAIN q : q[p] \in LongAgo .. AODV_RTQ_TIMEOUT
        PROVE  q \in Buffers
    <2>1. q \in [DOMAIN q -> LongAgo .. AODV_RTQ_TIMEOUT]
      BY <1>2
    <2> QED BY <1>2, <2>1 DEF Buffers
  <1> QED BY <1>1, <1>2

LEMMA WithoutOK ==
  ASSUME NEW q \in Buffers, NEW P
  PROVE  Without(q, P) \in Buffers /\ DOMAIN Without(q, P) = DOMAIN q \ P
  <1>1. /\ DOMAIN q \subseteq Packet
        /\ \A p \in DOMAIN q : q[p] \in LongAgo .. AODV_RTQ_TIMEOUT
    BY BuffersDef
  <1>2. DOMAIN Without(q, P) = DOMAIN q \ P
    BY DEF Without
  <1>3. Without(q, P) = [p \in DOMAIN Without(q, P) |-> Without(q, P)[p]]
    BY DEF Without
  <1>4. \A p \in DOMAIN Without(q, P) : Without(q, P)[p] \in LongAgo .. AODV_RTQ_TIMEOUT
    BY <1>1 DEF Without
  <1> QED BY <1>1, <1>2, <1>3, <1>4, BuffersDef

LEMMA EnqueOK ==
  ASSUME NEW q \in Buffers, NEW p \in Packet
  PROVE  /\ enque(q, p) \in Buffers /\ p \in DOMAIN enque(q, p)
         /\ DOMAIN enque(q, p) \subseteq DOMAIN q \cup {p}
  <1> DEFINE f == enque(q, p)
  <1>1. /\ DOMAIN f = (DOMAIN q \ Aged(q)) \cup {p}
        /\ f = [x \in DOMAIN f |-> f[x]]
        /\ \A x \in DOMAIN f : f[x] = IF x = p THEN AODV_RTQ_TIMEOUT ELSE q[x]
    BY DEF enque
  <1>2. AODV_RTQ_TIMEOUT \in LongAgo .. AODV_RTQ_TIMEOUT
    BY Constants DEF LongAgo
  <1>3. /\ DOMAIN q \subseteq Packet
        /\ \A x \in DOMAIN q : q[x] \in LongAgo .. AODV_RTQ_TIMEOUT
    BY BuffersDef
  <1> HIDE DEF f
  <1>4. \A x \in DOMAIN f : f[x] \in LongAgo .. AODV_RTQ_TIMEOUT
    BY <1>1, <1>2, <1>3
  <1>5. f \in Buffers
    BY <1>1, <1>3, <1>4, BuffersDef
  <1> QED BY <1>1, <1>5 DEF f

LEMMA EmptiedOK ==
  ASSUME NEW q \in Buffers, NEW d
  PROVE  /\ Emptied(q, d) \in Buffers
         /\ \A p \in DOMAIN Emptied(q, d) : p \in DOMAIN q /\ To[p] # d
  <1> DEFINE P == Aged(q) \cup {p \in DOMAIN q : To[p] = d}
  <1>1. Emptied(q, d) = Without(q, P)
    BY DEF Emptied
  <1>2. Without(q, P) \in Buffers /\ DOMAIN Without(q, P) = DOMAIN q \ P
    BY WithoutOK
  <1> QED BY <1>1, <1>2

LEMMA DropsOK ==
  ASSUME NEW q \in Buffers, NEW d, NEW e
  PROVE  /\ DropsPackets(e, q, d) \in Buffers
         /\ DOMAIN DropsPackets(e, q, d) \subseteq DOMAIN q
         /\ ~GivesUp(e) => DropsPackets(e, q, d) = q
  BY EmptiedOK DEF DropsPackets

-----------------------------------------------------------------------------
(* The inductive invariant. *)
Searched(r, q) == \A p \in DOMAIN q : r[To[p]].flags # "UP" /\ r[To[p]].asked

TableOK(r) == r \in [Dst -> Entry] /\ \A d \in Dst : EntryOK(r[d])

DiscoveryInv ==
  /\ TableOK(rt)
  /\ queue \in Buffers
  /\ Searched(rt, queue)
  /\ due \in {Off} \cup 0 .. FREQUENCY
  /\ repairs \in [Dst -> Seq(Nat)] /\ \A d \in Dst : Len(repairs[d]) <= MaxRepairs
  /\ elapsed \in 0 .. MaxElapsed

\* What a step may do to the entry for d.
Advances(d) ==
  /\ SearchStep(rt[d], rt'[d])
  /\ rt[d].flags = "UP" /\ rt'[d].flags = "IN_REPAIR" => rt'[d].asked /\ find(queue', d)

Good == DiscoveryInv' /\ \A d \in Dst : Advances(d)

LEMMA InvFacts ==
  ASSUME DiscoveryInv
  PROVE  /\ rt \in [Dst -> Entry]
         /\ \A d \in Dst : EntryOK(rt[d]) /\ SearchOK(rt[d]) /\ rt[d] \in Entry
         /\ queue \in Buffers /\ DOMAIN queue \subseteq Packet
         /\ \A p \in DOMAIN queue : rt[To[p]].flags # "UP" /\ rt[To[p]].asked
         /\ elapsed \in 0 .. MaxElapsed
         /\ \A p \in Packet : To[p] \in Dst
  <1>1. DOMAIN queue \subseteq Packet
    BY BuffersDef DEF DiscoveryInv
  <1>2. \A d \in Dst : EntryOK(rt[d]) /\ SearchOK(rt[d])
    BY DEF DiscoveryInv, TableOK, EntryOK
  <1> QED BY <1>1, <1>2, Constants DEF DiscoveryInv, TableOK, Searched

LEMMA EntryOKType ==
  ASSUME NEW e, EntryOK(e)
  PROVE  e \in Entry /\ SearchOK(e)
  BY DEF EntryOK, SearchOK

\* A handler that changes one entry, and the buffer.
LEMMA OneEntry ==
  ASSUME DiscoveryInv, NEW d \in Dst, NEW f,
         EntryOK(f), SearchStep(rt[d], f), rt' = [rt EXCEPT ![d] = f],
         rt[d].flags = "UP" /\ f.flags = "IN_REPAIR" => f.asked /\ find(queue', d),
         queue' \in Buffers,
         \A p \in DOMAIN queue' : IF To[p] = d THEN f.flags # "UP" /\ f.asked
                                  ELSE p \in DOMAIN queue,
         due' = due, elapsed' = elapsed,
         repairs' \in [Dst -> Seq(Nat)], \A x \in Dst : Len(repairs'[x]) <= MaxRepairs
  PROVE  Good
  <1>1. /\ rt'[d] = f /\ \A x \in Dst : x # d => rt'[x] = rt[x]
    BY InvFacts
  <1>2. TableOK(rt')
    <2>1. f \in Entry
      BY EntryOKType
    <2>2. rt' \in [Dst -> Entry]
      BY <2>1, InvFacts
    <2>3. \A x \in Dst : EntryOK(rt'[x])
      BY <1>1, InvFacts
    <2> QED BY <2>2, <2>3 DEF TableOK
  <1>3. Searched(rt', queue')
    <2> SUFFICES ASSUME NEW p \in DOMAIN queue'
                 PROVE  rt'[To[p]].flags # "UP" /\ rt'[To[p]].asked
      BY DEF Searched
    <2>1. CASE To[p] = d
      BY <1>1, <2>1
    <2>2. CASE To[p] # d
      <3>1. p \in DOMAIN queue /\ To[p] \in Dst
        BY <2>2, InvFacts
      <3>2. rt'[To[p]] = rt[To[p]]
        BY <1>1, <2>2, <3>1
      <3> QED BY <3>1, <3>2, InvFacts
    <2> QED BY <2>1, <2>2
  <1>4. DiscoveryInv'
    BY <1>2, <1>3 DEF DiscoveryInv
  <1>5. ASSUME NEW x \in Dst
        PROVE  Advances(x)
    <2>1. CASE x = d
      BY <1>1, <2>1 DEF Advances
    <2>2. CASE x # d
      <3>1. rt'[x] = rt[x]
        BY <1>1, <2>2
      <3>2. SearchStep(rt[x], rt[x])
        BY UnmovedStep DEF Unmoved
      <3> QED BY <3>1, <3>2 DEF Advances
    <2> QED BY <2>1, <2>2
  <1> QED BY <1>4, <1>5 DEF Good

-----------------------------------------------------------------------------
(* The handlers. *)
LEMMA StartStep ==
  ASSUME DiscoveryInv, Start
  PROVE  Good
  <1>1. due' = 0 /\ rt' = rt /\ queue' = queue /\ repairs' = repairs /\ elapsed' = elapsed
    BY DEF Start
  <1>2. 0 \in 0 .. FREQUENCY
    BY Constants
  <1>3. DiscoveryInv'
    BY <1>1, <1>2 DEF DiscoveryInv
  <1>4. \A d \in Dst : Advances(d)
    BY <1>1, UnmovedStep DEF Advances, Unmoved
  <1> QED BY <1>3, <1>4 DEF Good

LEMMA OriginateStep ==
  ASSUME DiscoveryInv, NEW p \in Packet, Originate(p)
  PROVE  Good
  <1> DEFINE d == To[p]
             q == enque(queue, p)
  <1>1. /\ due' = due /\ repairs' = repairs /\ elapsed' = elapsed
        /\ repairs' \in [Dst -> Seq(Nat)] /\ \A x \in Dst : Len(repairs'[x]) <= MaxRepairs
    BY DEF Originate, DiscoveryInv
  <1>2. d \in Dst /\ EntryOK(rt[d]) /\ SearchOK(rt[d]) /\ elapsed \in 0 .. MaxElapsed
    BY InvFacts
  <1>3. CASE rt[d].flags = "UP"
    <2> DEFINE f == Used(rt[d], {p})
    <2>1. rt' = [rt EXCEPT ![d] = f] /\ queue' = queue
      BY <1>3 DEF Originate
    <2>2. EntryOK(f) /\ Unmoved(rt[d], f) /\ f.flags = "UP"
      BY <1>2, <1>3, UsedOK
    <2>3. SearchStep(rt[d], f)
      BY <2>2, UnmovedStep
    <2>4. \A r \in DOMAIN queue' : To[r] # d /\ r \in DOMAIN queue
      BY <1>3, <2>1, InvFacts
    <2>5. queue' \in Buffers
      BY <2>1, InvFacts
    <2> HIDE DEF f, d
    <2> QED BY <1>1, <1>2, <2>1, <2>2, <2>3, <2>4, <2>5, OneEntry
  <1>4. CASE rt[d].flags # "UP"
    <2> DEFINE f == sendRequest(rt[d])
    <2>1. rt' = [rt EXCEPT ![d] = f] /\ queue' = DropsPackets(rt[d], q, d)
      BY <1>4 DEF Originate
    <2>2. EntryOK(f) /\ f.asked /\ f.flags = rt[d].flags /\ SearchStep(rt[d], f)
      BY <1>2, <1>4, SendOK
    <2>3. q \in Buffers /\ DOMAIN q \subseteq DOMAIN queue \cup {p}
      BY InvFacts, EnqueOK
    <2>4. queue' \in Buffers /\ DOMAIN queue' \subseteq DOMAIN queue \cup {p}
      <3> HIDE DEF q
      <3> QED BY <2>1, <2>3, DropsOK
    <2>5. \A r \in DOMAIN queue' : IF To[r] = d THEN f.flags # "UP" /\ f.asked
                                   ELSE r \in DOMAIN queue
      BY <1>4, <2>2, <2>4
    <2> HIDE DEF f, d, q
    <2> QED BY <1>1, <1>2, <1>4, <2>1, <2>2, <2>4, <2>5, OneEntry
  <1> QED BY <1>3, <1>4

LEMMA RelayStep ==
  ASSUME DiscoveryInv, NEW p \in Packet, Relay(p)
  PROVE  Good
  <1> DEFINE d == To[p]
  <1>1. /\ due' = due /\ repairs' = repairs /\ elapsed' = elapsed
        /\ repairs' \in [Dst -> Seq(Nat)] /\ \A x \in Dst : Len(repairs'[x]) <= MaxRepairs
    BY DEF Relay, DiscoveryInv
  <1>2. d \in Dst /\ EntryOK(rt[d]) /\ rt \in [Dst -> Entry] /\ queue \in Buffers
    BY InvFacts
  <1>3. CASE rt[d].flags = "UP"
    <2> DEFINE f == Used(rt[d], {p})
    <2>1. rt' = [rt EXCEPT ![d] = f] /\ queue' = queue
      BY <1>3 DEF Relay
    <2>2. EntryOK(f) /\ Unmoved(rt[d], f) /\ f.flags = "UP"
      BY <1>2, <1>3, UsedOK
    <2>3. SearchStep(rt[d], f)
      BY <2>2, UnmovedStep
    <2>4. \A r \in DOMAIN queue' : To[r] # d /\ r \in DOMAIN queue
      BY <1>3, <2>1, InvFacts
    <2>5. queue' \in Buffers
      BY <1>2, <2>1
    <2> HIDE DEF f, d
    <2> QED BY <1>1, <1>2, <2>1, <2>2, <2>3, <2>4, <2>5, OneEntry
  <1>4. CASE rt[d].flags = "IN_REPAIR"
    <2> DEFINE f == rt[d]
    <2>1. rt' = rt /\ queue' = enque(queue, p)
      BY <1>4 DEF Relay
    <2>2. f.asked /\ f.flags # "UP"
      BY <1>2, <1>4 DEF EntryOK
    <2>3. SearchStep(f, f)
      BY UnmovedStep DEF Unmoved
    <2>4. queue' \in Buffers /\ DOMAIN queue' \subseteq DOMAIN queue \cup {p}
      BY <1>2, <2>1, EnqueOK
    <2>5. \A r \in DOMAIN queue' : IF To[r] = d THEN f.flags # "UP" /\ f.asked
                                   ELSE r \in DOMAIN queue
      BY <2>2, <2>4
    <2>6. rt' = [rt EXCEPT ![d] = f]
      BY <1>2, <2>1
    <2> HIDE DEF f, d
    <2> QED BY <1>1, <1>2, <1>4, <2>2, <2>3, <2>4, <2>5, <2>6, OneEntry DEF f
  <1> QED BY <1>3, <1>4 DEF Relay

LEMMA StartRepairStep ==
  ASSUME DiscoveryInv, NEW p \in Packet, StartRepair(p)
  PROVE  Good
  <1> DEFINE d == To[p]
             e == [rt[d] EXCEPT !.flags = "IN_REPAIR"]
             f == sendRequest(e)
             q == enque(queue, p)
  <1>1. /\ due' = due /\ elapsed' = elapsed
        /\ rt' = [rt EXCEPT ![d] = f]
        /\ queue' = DropsPackets(e, q, d)
        /\ repairs' = [repairs EXCEPT ![d] = Append(@, RepairDelay(f))]
        /\ Len(repairs[d]) < MaxRepairs
    BY DEF StartRepair
  <1>2. /\ d \in Dst /\ EntryOK(rt[d]) /\ SearchOK(rt[d]) /\ rt[d] \in Entry
        /\ elapsed \in 0 .. MaxElapsed /\ queue \in Buffers
    BY InvFacts
  <1>3. SearchOK(e) /\ e.flags = "IN_REPAIR" /\ Unmoved(rt[d], e)
    <2> DEFINE o == rt[d]
    <2>1. o \in Entry /\ SearchOK(o) /\ e = [o EXCEPT !.flags = "IN_REPAIR"]
      BY <1>2
    <2> HIDE DEF o, e
    <2>2. e \in Entry
      BY <2>1 DEF Entry
    <2>3. e.flags = "IN_REPAIR" /\ Unmoved(o, e) /\ e.expire = o.expire
      BY <2>1 DEF Entry, Unmoved
    <2>4. SearchOK(e)
      BY <2>1, <2>2, <2>3 DEF SearchOK, Unmoved
    <2> QED BY <2>3, <2>4 DEF o
  <1>4. EntryOK(f) /\ f.asked /\ f.flags = "IN_REPAIR" /\ SearchStep(e, f)
    <2> HIDE DEF e
    <2> QED BY <1>2, <1>3, SendOK
  <1>5. SearchStep(rt[d], f)
    <2>1. Phase(rt[d]) = Phase(e)
      <3> HIDE DEF e
      <3> QED BY <1>3 DEF Unmoved, Phase
    <2> HIDE DEF e, f
    <2> QED BY <1>3, <1>4, <2>1 DEF SearchStep, Unmoved
  <1>6. q \in Buffers /\ p \in DOMAIN q /\ DOMAIN q \subseteq DOMAIN queue \cup {p}
    BY <1>2, EnqueOK
  <1>7. /\ queue' \in Buffers /\ DOMAIN queue' \subseteq DOMAIN queue \cup {p}
        /\ ~GivesUp(e) => queue' = q
    <2> HIDE DEF q, e
    <2> QED BY <1>1, <1>6, DropsOK
  <1>8. \A r \in DOMAIN queue' : IF To[r] = d THEN f.flags # "UP" /\ f.asked
                                 ELSE r \in DOMAIN queue
    BY <1>4, <1>7
  <1>9. rt[d].flags = "UP" => f.asked /\ find(queue', d)
    <2> SUFFICES ASSUME rt[d].flags = "UP" PROVE f.asked /\ find(queue', d)
      OBVIOUS
    <2>1. rt[d].req_cnt = 0
      BY <1>2 DEF EntryOK
    <2>2. e.req_cnt = 0
      <3> HIDE DEF e
      <3> QED BY <1>3, <2>1 DEF Unmoved
    <2>3. ~GivesUp(e)
      <3> HIDE DEF e
      <3> QED BY <2>2, Constants DEF GivesUp
    <2>4. p \in DOMAIN queue'
      BY <1>6, <1>7, <2>3
    <2> QED BY <1>4, <2>4 DEF find
  <1>10. RepairDelay(f) \in Nat
    <2>1. f.req_timeout \in 0 .. MAX_RREQ_TIMEOUT
      <3> HIDE DEF f
      <3> QED BY <1>4, EntryOKType DEF Entry
    <2> HIDE DEF f
    <2> QED BY <1>2, <2>1, Constants DEF RepairDelay
  <1>11. repairs' \in [Dst -> Seq(Nat)] /\ \A x \in Dst : Len(repairs'[x]) <= MaxRepairs
    <2> DEFINE t == RepairDelay(f)
    <2>1. repairs \in [Dst -> Seq(Nat)] /\ \A x \in Dst : Len(repairs[x]) <= MaxRepairs
      BY DEF DiscoveryInv
    <2>2. t \in Nat /\ repairs' = [repairs EXCEPT ![d] = Append(repairs[d], t)]
      BY <1>1, <1>10
    <2> HIDE DEF t
    <2>3. repairs[d] \in Seq(Nat)
      BY <1>2, <2>1
    <2>4. Append(repairs[d], t) \in Seq(Nat) /\ Len(Append(repairs[d], t)) = Len(repairs[d]) + 1
      BY <2>2, <2>3, AppendProperties
    <2>5. Len(repairs[d]) \in Nat
      BY <2>3, LenProperties
    <2>6. Len(Append(repairs[d], t)) <= MaxRepairs
      <3>1. Len(repairs[d]) < MaxRepairs /\ MaxRepairs \in Nat
        BY <1>1, Constants
      <3> QED BY <2>4, <2>5, <3>1
    <2> QED BY <1>2, <2>1, <2>2, <2>4, <2>6
  <1> HIDE DEF e, f, q, d
  <1> QED BY <1>1, <1>2, <1>4, <1>5, <1>7, <1>8, <1>9, <1>11, OneEntry

(* A newer answer: the route is up, and the search for it is forgotten. *)
LEMMA RouteUp ==
  ASSUME NEW e, SearchOK(e), NEW hc \in Distance, NEW life \in Nat
  PROVE  LET f == [Reset(e, hc) EXCEPT !.flags = "UP", !.hops = hc, !.expire = life] IN
         EntryOK(f) /\ f.flags = "UP" /\ SearchStep(e, f) /\ ~f.asked
         /\ f.req_cnt = 0 /\ f.req_timeout = 0
  <1> DEFINE o == Reset(e, hc)
             f == [o EXCEPT !.flags = "UP", !.hops = hc, !.expire = life]
  <1>1. SearchOK(o) /\ o \in Entry /\ o.req_cnt = 0 /\ ~o.asked /\ o.req_timeout = 0
    <2>1. SearchOK(o) /\ o.req_cnt = 0 /\ ~o.asked /\ o.req_timeout = 0
      BY ResetOK
    <2> HIDE DEF o
    <2> QED BY <2>1 DEF SearchOK
  <1>2. f = [o EXCEPT !.flags = "UP", !.hops = hc, !.expire = life]
    OBVIOUS
  <1>3. hc \in 1 .. INFINITY2 /\ life \in Int /\ life >= LongAgo
    BY Constants DEF LongAgo
  <1> HIDE DEF f, o
  <1>4. f \in Entry
    BY <1>1, <1>2, <1>3 DEF Entry
  <1>5. /\ f.flags = "UP" /\ f.expire = life /\ ~f.asked /\ f.req_cnt = 0
        /\ f.req_timeout = 0
    BY <1>1, <1>2 DEF Entry
  <1>6. EntryOK(f)
    BY <1>3, <1>4, <1>5 DEF EntryOK, SearchOK
  <1>7. SearchStep(e, f)
    BY <1>5 DEF SearchStep, Becomes, Phase
  <1> QED BY <1>5, <1>6, <1>7 DEF f, o

LEMMA SampledOK ==
  ASSUME NEW e, EntryOK(e), NEW latency \in Latency \cup {0}
  PROVE  LET f == Sampled(e, latency) IN
         EntryOK(f) /\ f.flags = e.flags /\ Unmoved(e, f)
  <1> DEFINE i == (e.hist_indx + 1) % MAX_HISTORY
             h == [e.disc_latency EXCEPT ![e.hist_indx] = latency]
             f == Sampled(e, latency)
  <1>1. e \in Entry /\ SearchOK(e)
    BY EntryOKType
  <1>2. f = [e EXCEPT !.disc_latency = h, !.hist_indx = i]
    BY <1>1 DEF Sampled, Entry
  <1>3. i \in 0 .. MAX_HISTORY - 1
    <2>1. e.hist_indx \in 0 .. MAX_HISTORY - 1
      BY <1>1 DEF Entry
    <2>2. MAX_HISTORY \in Nat \ {0}
      BY Constants
    <2> QED BY <2>1, <2>2
  <1>4. h \in [0 .. MAX_HISTORY - 1 -> Latency \cup {0}]
    BY <1>1 DEF Entry
  <1> HIDE DEF i, h, f
  <1>5. f \in Entry
    BY <1>1, <1>2, <1>3, <1>4 DEF Entry
  <1>6. f.flags = e.flags /\ f.expire = e.expire /\ Unmoved(e, f)
    BY <1>1, <1>2 DEF Entry, Unmoved
  <1>7. EntryOK(f)
    BY <1>1, <1>5, <1>6 DEF EntryOK, SearchOK, Unmoved
  <1> QED BY <1>6, <1>7 DEF f

LEMMA StepThenUnmoved ==
  ASSUME NEW e, NEW f, NEW g, SearchStep(e, f), Unmoved(f, g)
  PROVE  SearchStep(e, g)
  <1>1. Phase(g) = Phase(f)
    BY DEF Unmoved, Phase
  <1> QED BY <1>1 DEF SearchStep, Becomes, Unmoved

LEMMA RecvReplyStep ==
  ASSUME DiscoveryInv, NEW d \in Dst, NEW hc \in Distance, NEW life \in Lifetime,
         NEW src, NEW latency \in Latency \cup {0}, RecvReply(d, hc, life, src, latency)
  PROVE  Good
  <1> DEFINE up  == [Reset(rt[d], hc) EXCEPT !.flags = "UP", !.hops = hc, !.expire = life]
             e   == IF src = Me THEN Sampled(up, latency) ELSE up
             f   == Used(e, Released(queue, d))
             new == [rt EXCEPT ![d] = f]
             via == {s \in Dst \ {d} : s = src /\ rt[s].hops # INFINITY2}
  <1>1. /\ rt' = [s \in Dst |-> Used(new[s], {s} \cap via)]
        /\ queue' = Emptied(queue, d)
        /\ due' = due /\ repairs' = repairs /\ elapsed' = elapsed
    BY DEF RecvReply
  <1>2. /\ rt \in [Dst -> Entry] /\ queue \in Buffers
        /\ \A x \in Dst : EntryOK(rt[x]) /\ SearchOK(rt[x])
    BY InvFacts
  <1>3. EntryOK(up) /\ up.flags = "UP" /\ SearchStep(rt[d], up)
    <2> DEFINE o == rt[d]
    <2>1. life \in Nat
      BY Constants
    <2>2. SearchOK(o)
      BY <1>2
    <2>3. up = [Reset(o, hc) EXCEPT !.flags = "UP", !.hops = hc, !.expire = life]
      OBVIOUS
    <2> HIDE DEF up, o, e, f, new, via
    <2>4. EntryOK(up)
      BY <2>1, <2>2, <2>3, RouteUp
    <2>5. up.flags = "UP"
      <3> DEFINE r == Reset(o, hc)
      <3>1. SearchOK(r)
        BY <2>2, ResetOK
      <3> HIDE DEF r
      <3>2. r \in Entry
        BY <3>1 DEF SearchOK
      <3> QED BY <2>3, <3>2 DEF r, Entry
    <2>6. SearchStep(o, up)
      BY <2>1, <2>2, <2>3, RouteUp
    <2> QED BY <2>4, <2>5, <2>6 DEF o
  <1>4. EntryOK(e) /\ e.flags = "UP" /\ SearchStep(rt[d], e)
    <2> HIDE DEF up
    <2>1. CASE src = Me
      <3> DEFINE g == Sampled(up, latency)
      <3>1. EntryOK(g) /\ g.flags = up.flags /\ Unmoved(up, g)
        BY <1>3, SampledOK
      <3>2. SearchStep(rt[d], g)
        <4> HIDE DEF g
        <4> QED BY <1>3, <3>1, StepThenUnmoved
      <3> QED BY <1>3, <2>1, <3>1, <3>2
    <2>2. CASE src # Me
      BY <1>3, <2>2
    <2> QED BY <2>1, <2>2
  <1> HIDE DEF e
  <1>5. EntryOK(f) /\ f.flags = "UP" /\ SearchStep(rt[d], f)
    <2>1. EntryOK(f) /\ Unmoved(e, f) /\ f.flags = e.flags
      BY <1>4, UsedOK
    <2> HIDE DEF f
    <2> QED BY <1>4, <2>1, StepThenUnmoved
  <1> HIDE DEF f, via
  <1>6. new[d] = f /\ \A x \in Dst : x # d => new[x] = rt[x]
    BY <1>2
  <1> HIDE DEF new
  <1>7. ASSUME NEW x \in Dst
        PROVE  /\ EntryOK(rt'[x]) /\ SearchStep(rt[x], rt'[x])
               /\ rt'[x].flags = IF x = d THEN "UP" ELSE rt[x].flags
               /\ x # d => rt'[x].asked = rt[x].asked
    <2> DEFINE P == {x} \cap via
               g == Used(new[x], P)
    <2>1. rt'[x] = g
      BY <1>1
    <2>2. EntryOK(new[x]) /\ SearchStep(rt[x], new[x])
          /\ new[x].flags = IF x = d THEN "UP" ELSE rt[x].flags
      <3>1. CASE x = d
        BY <1>5, <1>6, <3>1
      <3>2. CASE x # d
        <4>1. new[x] = rt[x]
          BY <1>6, <3>2
        <4>2. SearchStep(rt[x], rt[x])
          BY UnmovedStep DEF Unmoved
        <4> QED BY <1>2, <3>2, <4>1, <4>2
      <3> QED BY <3>1, <3>2
    <2>3. EntryOK(g) /\ Unmoved(new[x], g) /\ g.flags = new[x].flags
      <3> HIDE DEF P
      <3> QED BY <2>2, UsedOK
    <2> HIDE DEF g
    <2>4. SearchStep(rt[x], g)
      BY <2>2, <2>3, StepThenUnmoved
    <2>5. x # d => g.asked = rt[x].asked
      BY <1>6, <2>3 DEF Unmoved
    <2> QED BY <2>1, <2>2, <2>3, <2>4, <2>5
  <1>8. TableOK(rt')
    <2>1. \A x \in Dst : EntryOK(rt'[x]) /\ rt'[x] \in Entry
      BY <1>7, EntryOKType
    <2>2. rt' = [x \in Dst |-> rt'[x]]
      BY <1>1
    <2>3. rt' \in [Dst -> Entry]
      BY <2>1, <2>2
    <2> QED BY <2>1, <2>3 DEF TableOK
  <1>9. queue' \in Buffers /\ \A p \in DOMAIN queue' : p \in DOMAIN queue /\ To[p] # d
    BY <1>1, <1>2, EmptiedOK
  <1>10. Searched(rt', queue')
    <2> SUFFICES ASSUME NEW p \in DOMAIN queue'
                 PROVE  rt'[To[p]].flags # "UP" /\ rt'[To[p]].asked
      BY DEF Searched
    <2>1. p \in DOMAIN queue /\ To[p] # d /\ To[p] \in Dst
      BY <1>9, InvFacts
    <2>2. rt[To[p]].flags # "UP" /\ rt[To[p]].asked
      BY <2>1, InvFacts
    <2> QED BY <1>7, <2>1, <2>2
  <1>11. DiscoveryInv'
    BY <1>1, <1>8, <1>9, <1>10 DEF DiscoveryInv
  <1>12. \A x \in Dst : Advances(x)
    <2> TAKE x \in Dst
    <2>1. ~(rt[x].flags = "UP" /\ rt'[x].flags = "IN_REPAIR")
      BY <1>7
    <2> QED BY <1>7, <2>1 DEF Advances
  <1> QED BY <1>11, <1>12 DEF Good

LEMMA RecvRequestStep ==
  ASSUME DiscoveryInv, NEW d \in Dst, NEW hc \in Distance, NEW fresh \in BOOLEAN,
         RecvRequest(d, hc, fresh)
  PROVE  Good
  <1> DEFINE seen == [rt[d] EXCEPT !.expire = Greater(@, REV_ROUTE_LIFE)]
             up   == [seen EXCEPT !.flags = "UP", !.hops = hc]
             e    == IF up.asked THEN [Reset(up, hc) EXCEPT !.expire = ACTIVE_ROUTE_TIMEOUT]
                     ELSE up
             f    == Used(e, Released(queue, d))
             o    == rt[d]
  <1>1. /\ \/ fresh /\ rt' = [rt EXCEPT ![d] = f] /\ queue' = Emptied(queue, d)
           \/ ~fresh /\ rt' = [rt EXCEPT ![d] = seen] /\ queue' = queue
        /\ due' = due /\ repairs' = repairs /\ elapsed' = elapsed
    BY DEF RecvRequest
  <1>2. /\ queue \in Buffers /\ EntryOK(o) /\ SearchOK(o) /\ o \in Entry
    BY InvFacts
  <1>3. /\ repairs' \in [Dst -> Seq(Nat)] /\ \A x \in Dst : Len(repairs'[x]) <= MaxRepairs
    BY <1>1 DEF DiscoveryInv
  <1>4. /\ hc \in 1 .. INFINITY2 /\ Greater(o.expire, REV_ROUTE_LIFE) \in Int
        /\ Greater(o.expire, REV_ROUTE_LIFE) >= LongAgo
        /\ ACTIVE_ROUTE_TIMEOUT \in Int /\ ACTIVE_ROUTE_TIMEOUT >= LongAgo
    <2>1. o.expire \in Int /\ o.expire >= LongAgo
      BY <1>2 DEF Entry, SearchOK
    <2> QED BY <2>1, Constants DEF Greater, LongAgo
  <1>5. seen = [o EXCEPT !.expire = Greater(o.expire, REV_ROUTE_LIFE)]
    BY <1>2 DEF Entry
  <1> HIDE DEF seen, o
  <1>6. /\ seen \in Entry /\ seen.flags = o.flags /\ seen.expire >= LongAgo
        /\ Unmoved(o, seen)
    BY <1>2, <1>4, <1>5 DEF Entry, Unmoved
  <1>7. EntryOK(seen)
    BY <1>2, <1>6 DEF EntryOK, SearchOK, Unmoved
  <1>8. SearchStep(o, seen)
    BY <1>6, UnmovedStep
  <1>9. CASE ~fresh
    <2>1. rt' = [rt EXCEPT ![d] = seen] /\ queue' = queue
      BY <1>1, <1>9
    <2>2. \A p \in DOMAIN queue' : IF To[p] = d THEN seen.flags # "UP" /\ seen.asked
                                   ELSE p \in DOMAIN queue
      <3> TAKE p \in DOMAIN queue'
      <3>1. To[p] = d => o.flags # "UP" /\ o.asked
        BY <2>1, InvFacts DEF o
      <3> QED BY <1>6, <2>1, <3>1 DEF Unmoved
    <2> QED BY <1>1, <1>2, <1>3, <1>6, <1>7, <1>8, <2>1, <2>2, OneEntry DEF o
  <1>10. CASE fresh
    <2>1. rt' = [rt EXCEPT ![d] = f] /\ queue' = Emptied(queue, d)
      BY <1>1, <1>10
    <2>2. up \in Entry /\ up.flags = "UP" /\ up.expire >= LongAgo /\ Unmoved(o, up)
      <3>1. up = [seen EXCEPT !.flags = "UP", !.hops = hc]
        OBVIOUS
      <3> HIDE DEF up
      <3>2. up \in Entry
        BY <1>4, <1>6, <3>1 DEF Entry
      <3>3. up.flags = "UP" /\ up.expire = seen.expire /\ Unmoved(o, up)
        BY <1>6, <3>1 DEF Entry, Unmoved
      <3> QED BY <1>6, <3>2, <3>3
    <2> HIDE DEF up
    <2>3. SearchOK(up)
      BY <1>2, <2>2 DEF SearchOK, Unmoved
    <2>4. EntryOK(e) /\ e.flags = "UP" /\ SearchStep(o, e)
      <3>1. CASE up.asked
        <4> DEFINE r == Reset(up, hc)
        <4>1. SearchOK(r) /\ r.req_cnt = 0 /\ ~r.asked /\ r.req_timeout = 0 /\ r.flags = "UP"
          BY <2>2, <2>3, ResetOK
        <4>2. e = [r EXCEPT !.expire = ACTIVE_ROUTE_TIMEOUT]
          BY <3>1
        <4> HIDE DEF r, e
        <4>3. r \in Entry
          BY <4>1 DEF SearchOK
        <4>4. e \in Entry
          BY <1>4, <4>2, <4>3 DEF Entry
        <4>5. /\ e.flags = "UP" /\ e.req_cnt = 0 /\ ~e.asked /\ e.req_timeout = 0
              /\ e.expire = ACTIVE_ROUTE_TIMEOUT
          BY <4>1, <4>2, <4>3 DEF Entry
        <4>6. EntryOK(e)
          BY <1>4, <4>4, <4>5 DEF EntryOK, SearchOK
        <4>7. SearchStep(o, e)
          BY <4>5 DEF SearchStep, Becomes, Phase
        <4> QED BY <4>5, <4>6, <4>7
      <3>2. CASE ~up.asked
        <4>1. e = up
          BY <3>2
        <4>2. up.req_cnt \in Nat
          BY <2>2, Constants DEF Entry
        <4>3. up.req_cnt = 0
          BY <2>3, <3>2, <4>2 DEF SearchOK
        <4>4. EntryOK(up)
          BY <2>2, <2>3, <4>3 DEF EntryOK
        <4>5. SearchStep(o, up)
          BY <2>2, UnmovedStep
        <4> QED BY <2>2, <4>1, <4>4, <4>5
      <3> QED BY <3>1, <3>2
    <2> HIDE DEF e
    <2>5. EntryOK(f) /\ f.flags = "UP" /\ SearchStep(o, f)
      <3>1. EntryOK(f) /\ Unmoved(e, f) /\ f.flags = e.flags
        BY <2>4, UsedOK
      <3> HIDE DEF f
      <3> QED BY <2>4, <3>1, StepThenUnmoved
    <2> HIDE DEF f
    <2>6. queue' \in Buffers /\ \A p \in DOMAIN queue' : p \in DOMAIN queue /\ To[p] # d
      BY <1>2, <2>1, EmptiedOK
    <2> QED BY <1>1, <1>3, <2>1, <2>5, <2>6, OneEntry DEF o
  <1> QED BY <1>9, <1>10

(* Routes lost, repairs over, time going on. *)
LEMMA RoutesLostStep ==
  ASSUME DiscoveryInv, NEW D \in SUBSET Dst, RoutesLost(D)
  PROVE  Good
  <1>1. /\ \A d \in D : rt[d].flags = "UP"
        /\ rt' = [d \in Dst |-> IF d \in D THEN rt_down(rt[d]) ELSE rt[d]]
        /\ queue' = queue /\ due' = due /\ repairs' = repairs /\ elapsed' = elapsed
    BY DEF RoutesLost
  <1>2. ASSUME NEW d \in Dst
        PROVE  /\ EntryOK(rt'[d]) /\ rt'[d] \in Entry /\ SearchStep(rt[d], rt'[d])
               /\ rt[d].flags # "UP" => rt'[d] = rt[d]
               /\ rt[d].flags = "UP" => rt'[d].flags # "IN_REPAIR"
    <2>1. CASE d \in D
      <3> DEFINE f == rt_down(rt[d])
      <3>1. rt'[d] = f /\ rt[d].flags = "UP"
        BY <1>1, <2>1
      <3>2. EntryOK(f) /\ Unmoved(rt[d], f) /\ f.flags # "IN_REPAIR"
        BY InvFacts, DownOK
      <3> HIDE DEF f
      <3> QED BY <3>1, <3>2, UnmovedStep, EntryOKType
    <2>2. CASE d \notin D
      <3>1. rt'[d] = rt[d]
        BY <1>1, <2>2
      <3>2. SearchStep(rt[d], rt[d])
        BY UnmovedStep DEF Unmoved
      <3> QED BY <3>1, <3>2, InvFacts
    <2> QED BY <2>1, <2>2
  <1>3. TableOK(rt')
    <2>1. rt' = [d \in Dst |-> rt'[d]]
      BY <1>1
    <2>2. rt' \in [Dst -> Entry]
      BY <1>2, <2>1
    <2> QED BY <1>2, <2>2 DEF TableOK
  <1>4. Searched(rt', queue')
    BY <1>1, <1>2, InvFacts DEF Searched
  <1>5. DiscoveryInv'
    BY <1>1, <1>3, <1>4 DEF DiscoveryInv
  <1>6. \A d \in Dst : Advances(d)
    BY <1>2 DEF Advances
  <1> QED BY <1>5, <1>6 DEF Good

\* RemoveAt of SequencesExt.
LEMMA RemoveAtShortens ==
  ASSUME NEW s \in Seq(Nat), NEW i \in DOMAIN s
  PROVE  RemoveAt(s, i) \in Seq(Nat) /\ Len(RemoveAt(s, i)) <= Len(s)
  <1> DEFINE k == Len(s)
             a == SubSeq(s, 1, i - 1)
             b == SubSeq(s, i + 1, k)
  <1>1. k \in Nat /\ i \in 1 .. k /\ \A j \in 1 .. k : s[j] \in Nat
    BY LenProperties
  <1> HIDE DEF k
  <1>2. a \in Seq(Nat) /\ Len(a) = i - 1
    <2>1. 1 \in Int /\ i - 1 \in Int /\ \A j \in 1 .. i - 1 : j \in 1 .. k
      BY <1>1
    <2>2. \A j \in 1 .. i - 1 : s[j] \in Nat
      BY <1>1, <2>1
    <2>3. a \in Seq(Nat) /\ Len(a) = IF 1 <= i - 1 THEN (i - 1) - 1 + 1 ELSE 0
      BY <2>1, <2>2, SubSeqProperties
    <2> HIDE DEF a
    <2> QED BY <1>1, <2>3
  <1>3. b \in Seq(Nat) /\ Len(b) = k - i
    <2>1. i + 1 \in Int /\ k \in Int /\ \A j \in i + 1 .. k : j \in 1 .. k
      BY <1>1
    <2>2. \A j \in i + 1 .. k : s[j] \in Nat
      BY <1>1, <2>1
    <2>3. b \in Seq(Nat) /\ Len(b) = IF i + 1 <= k THEN k - (i + 1) + 1 ELSE 0
      BY <2>1, <2>2, SubSeqProperties
    <2> HIDE DEF b
    <2> QED BY <1>1, <2>3
  <1>4. RemoveAt(s, i) = a \o b
    BY DEF RemoveAt, a, b, k
  <1> HIDE DEF a, b
  <1>5. a \o b \in Seq(Nat) /\ Len(a \o b) = Len(a) + Len(b)
    BY <1>2, <1>3, ConcatProperties
  <1>6. Len(a \o b) <= k
    BY <1>1, <1>2, <1>3, <1>5
  <1> QED BY <1>4, <1>5, <1>6 DEF k

LEMMA RepairTimerStep ==
  ASSUME DiscoveryInv, NEW d \in Dst, RepairTimer(d)
  PROVE  Good
  <1> DEFINE o == rt[d]
             f == IF o.flags = "UP" THEN o ELSE rt_down(o)
  <1>1. PICK i \in DOMAIN repairs[d] :
          /\ repairs' = [repairs EXCEPT ![d] = RemoveAt(repairs[d], i)]
          /\ rt' = [rt EXCEPT ![d] = f]
          /\ queue' = queue /\ due' = due /\ elapsed' = elapsed
    <2>1. d \in DOMAIN rt /\ d \in DOMAIN repairs
      BY InvFacts DEF DiscoveryInv
    <2> QED BY <2>1 DEF RepairTimer
  <1>2. EntryOK(o) /\ queue \in Buffers /\ elapsed \in 0 .. MaxElapsed
    BY InvFacts
  <1>3. /\ EntryOK(f) /\ Unmoved(o, f) /\ f.flags # "IN_REPAIR"
        /\ o.flags # "UP" => f.flags # "UP"
    <2> HIDE DEF o
    <2>1. CASE o.flags = "UP"
      BY <1>2, <2>1 DEF Unmoved
    <2>2. CASE o.flags # "UP"
      <3> DEFINE g == rt_down(o)
      <3>1. EntryOK(g) /\ Unmoved(o, g) /\ g.flags # "UP" /\ g.flags # "IN_REPAIR"
        BY <1>2, DownOK
      <3> HIDE DEF g
      <3>2. f = g
        BY <2>2 DEF g
      <3> QED BY <2>2, <3>1, <3>2
    <2> QED BY <2>1, <2>2
  <1> HIDE DEF f
  <1>4. SearchStep(o, f)
    <2> HIDE DEF o
    <2> QED BY <1>3, UnmovedStep
  <1>5. \A p \in DOMAIN queue' : IF To[p] = d THEN f.flags # "UP" /\ f.asked
                                 ELSE p \in DOMAIN queue
    <2> TAKE p \in DOMAIN queue'
    <2>1. p \in DOMAIN queue /\ (To[p] = d => o.flags # "UP" /\ o.asked)
      BY <1>1, InvFacts
    <2> HIDE DEF o
    <2> QED BY <1>3, <2>1 DEF Unmoved
  <1>6. repairs' \in [Dst -> Seq(Nat)] /\ \A x \in Dst : Len(repairs'[x]) <= MaxRepairs
    <2> DEFINE s == RemoveAt(repairs[d], i)
    <2>1. repairs \in [Dst -> Seq(Nat)] /\ \A x \in Dst : Len(repairs[x]) <= MaxRepairs
      BY DEF DiscoveryInv
    <2>2. s \in Seq(Nat) /\ Len(s) <= Len(repairs[d])
      BY <2>1, RemoveAtShortens
    <2>3. repairs' = [repairs EXCEPT ![d] = s]
      BY <1>1
    <2> HIDE DEF s
    <2>4. Len(s) <= MaxRepairs
      <3>1. Len(s) \in Nat /\ Len(repairs[d]) \in Nat /\ MaxRepairs \in Nat
        BY <2>1, <2>2, LenProperties, Constants
      <3> QED BY <2>1, <2>2, <3>1
    <2> QED BY <2>1, <2>2, <2>3, <2>4
  <1> QED BY <1>1, <1>2, <1>3, <1>4, <1>5, <1>6, OneEntry

LEMMA PassedOK ==
  ASSUME NEW e, EntryOK(e)
  PROVE  LET f == [e EXCEPT !.expire = Greater(@ - 1, LongAgo),
                            !.req_timeout = Greater(@ - 1, 0)] IN
         /\ EntryOK(f) /\ f.flags = e.flags /\ f.asked = e.asked
         /\ SearchStep(e, f)
  <1> DEFINE x == Greater(e.expire - 1, LongAgo)
             t == Greater(e.req_timeout - 1, 0)
             f == [e EXCEPT !.expire = Greater(@ - 1, LongAgo),
                            !.req_timeout = Greater(@ - 1, 0)]
  <1>1. e \in Entry /\ SearchOK(e)
    BY EntryOKType
  <1>2. x \in Int /\ x >= LongAgo
    <2>1. e.expire \in Int /\ LongAgo \in Int
      BY <1>1, Constants DEF Entry, LongAgo
    <2> QED BY <2>1 DEF Greater
  <1>3. /\ e.req_timeout \in 0 .. MAX_RREQ_TIMEOUT /\ t \in 0 .. MAX_RREQ_TIMEOUT
        /\ IF e.req_timeout > 0 THEN t = e.req_timeout - 1 ELSE t = 0 /\ e.req_timeout = 0
    <2>1. e.req_timeout \in 0 .. MAX_RREQ_TIMEOUT /\ MAX_RREQ_TIMEOUT \in Nat
      BY <1>1, Constants DEF Entry
    <2> QED BY <2>1 DEF Greater
  <1>4. f = [e EXCEPT !.expire = x, !.req_timeout = t]
    BY <1>1 DEF Entry
  <1> HIDE DEF x, t, f
  <1>5. f \in Entry
    BY <1>1, <1>2, <1>3, <1>4 DEF Entry
  <1>6. /\ f.flags = e.flags /\ f.asked = e.asked /\ f.expire = x /\ f.req_timeout = t
        /\ f.req_cnt = e.req_cnt /\ f.req_last_ttl = e.req_last_ttl
    BY <1>1, <1>4 DEF Entry
  <1>7. EntryOK(f)
    <2>1. ~e.asked => t = 0
      BY <1>1, <1>3 DEF SearchOK
    <2> QED BY <1>1, <1>2, <1>5, <1>6, <2>1 DEF EntryOK, SearchOK
  <1>8. SearchStep(e, f)
    <2>1. Phase(f) = Phase(e)
      BY <1>6 DEF Phase
    <2> QED BY <1>3, <1>6, <2>1 DEF SearchStep, Becomes
  <1> QED BY <1>6, <1>7, <1>8 DEF f

LEMMA TickStep ==
  ASSUME DiscoveryInv, Tick
  PROVE  Good
  <1>1. /\ due > 0 /\ \A d \in Dst : 0 \notin Range(repairs[d])
        /\ rt' = [d \in Dst |-> [rt[d] EXCEPT !.expire = Greater(@ - 1, LongAgo),
                                              !.req_timeout = Greater(@ - 1, 0)]]
        /\ queue' = [p \in DOMAIN queue |-> Greater(queue[p] - 1, LongAgo)]
        /\ due' = due - 1
        /\ repairs' = [d \in Dst |-> [i \in DOMAIN repairs[d] |-> repairs[d][i] - 1]]
        /\ elapsed' = Lesser(elapsed + 1, MaxElapsed)
    BY DEF Tick
  <1>2. ASSUME NEW d \in Dst
        PROVE  /\ EntryOK(rt'[d]) /\ rt'[d] \in Entry /\ SearchStep(rt[d], rt'[d])
               /\ rt'[d].flags = rt[d].flags /\ rt'[d].asked = rt[d].asked
    <2> DEFINE e == rt[d]
               f == [e EXCEPT !.expire = Greater(@ - 1, LongAgo),
                              !.req_timeout = Greater(@ - 1, 0)]
    <2>1. rt'[d] = f /\ EntryOK(e)
      BY <1>1, InvFacts
    <2> HIDE DEF e
    <2>2. EntryOK(f) /\ f.flags = e.flags /\ f.asked = e.asked /\ SearchStep(e, f)
      BY <2>1, PassedOK
    <2> HIDE DEF f
    <2> QED BY <2>1, <2>2, EntryOKType DEF e
  <1>3. TableOK(rt')
    <2>1. rt' = [d \in Dst |-> rt'[d]]
      BY <1>1
    <2>2. rt' \in [Dst -> Entry]
      BY <1>2, <2>1
    <2> QED BY <1>2, <2>2 DEF TableOK
  <1>4. queue' \in Buffers
    <2>1. \A p \in DOMAIN queue : queue[p] \in LongAgo .. AODV_RTQ_TIMEOUT
      BY BuffersDef, InvFacts
    <2>2. LongAgo \in Int /\ AODV_RTQ_TIMEOUT \in Int /\ LongAgo <= AODV_RTQ_TIMEOUT
      BY Constants DEF LongAgo
    <2>3. \A p \in DOMAIN queue : queue'[p] \in LongAgo .. AODV_RTQ_TIMEOUT
      <3> TAKE p \in DOMAIN queue
      <3>1. queue'[p] = Greater(queue[p] - 1, LongAgo)
        BY <1>1
      <3> QED BY <2>1, <2>2, <3>1 DEF Greater
    <2>4. DOMAIN queue' = DOMAIN queue /\ queue' = [p \in DOMAIN queue' |-> queue'[p]]
      BY <1>1
    <2> QED BY <2>3, <2>4, InvFacts, BuffersDef
  <1>5. Searched(rt', queue')
    <2>1. DOMAIN queue' = DOMAIN queue
      BY <1>1
    <2> QED BY <1>2, <2>1, InvFacts DEF Searched
  <1>6. due' \in {Off} \cup 0 .. FREQUENCY
    <2>1. due \in {-1} \cup 0 .. FREQUENCY
      BY DEF DiscoveryInv, Off
    <2>2. FREQUENCY \in Nat /\ due > 0 /\ due' = due - 1
      BY <1>1, Constants
    <2>3. due' \in 0 .. FREQUENCY
      BY <2>1, <2>2
    <2> QED BY <2>3
  <1>7. repairs' \in [Dst -> Seq(Nat)] /\ \A d \in Dst : Len(repairs'[d]) <= MaxRepairs
    <2>1. ASSUME NEW d \in Dst
          PROVE  repairs'[d] \in Seq(Nat) /\ Len(repairs'[d]) <= MaxRepairs
      <3> DEFINE s == repairs[d]
                 t == [i \in DOMAIN s |-> s[i] - 1]
      <3>1. s \in Seq(Nat) /\ Len(s) <= MaxRepairs
        BY DEF DiscoveryInv
      <3>2. repairs'[d] = t /\ 0 \notin Range(s)
        BY <1>1
      <3> HIDE DEF s
      <3>3. Len(s) \in Nat /\ DOMAIN s = 1 .. Len(s) /\ \A i \in DOMAIN s : s[i] \in Nat
        BY <3>1, LenProperties
      <3>4. \A i \in DOMAIN s : s[i] # 0
        BY <3>2 DEF Range
      <3>5. \A i \in 1 .. Len(s) : s[i] - 1 \in Nat
        BY <3>3, <3>4
      <3>6. t = [i \in 1 .. Len(s) |-> s[i] - 1] /\ t \in [1 .. Len(s) -> Nat]
        BY <3>3, <3>5
      <3> HIDE DEF t
      <3>7. t \in Seq(Nat)
        BY <3>3, <3>6, SeqDef
      <3>8. Len(t) = Len(s)
        <4>1. Len(t) \in Nat /\ DOMAIN t = 1 .. Len(t) /\ DOMAIN t = 1 .. Len(s)
          BY <3>6, <3>7, LenProperties
        <4>2. \A j, k \in Nat : 1 .. j = 1 .. k => j = k
          <5> SUFFICES ASSUME NEW j \in Nat, NEW k \in Nat, 1 .. j = 1 .. k PROVE j = k
            OBVIOUS
          <5>1. (j = 0 \/ j \in 1 .. k) /\ (k = 0 \/ k \in 1 .. j)
            OBVIOUS
          <5> QED BY <5>1
        <4> QED BY <3>3, <4>1, <4>2
      <3> QED BY <3>1, <3>2, <3>7, <3>8
    <2>2. repairs' = [d \in Dst |-> repairs'[d]]
      BY <1>1
    <2> HIDE DEF Dst
    <2> QED BY <2>1, <2>2
  <1>8. elapsed' \in 0 .. MaxElapsed
    <2>1. elapsed' = Lesser(elapsed + 1, MaxElapsed)
      BY <1>1
    <2>2. elapsed \in 0 .. MaxElapsed /\ MaxElapsed \in Nat
      BY InvFacts, Constants
    <2> QED BY <2>1, <2>2 DEF Lesser
  <1>9. DiscoveryInv'
    BY <1>3, <1>4, <1>5, <1>6, <1>7, <1>8 DEF DiscoveryInv
  <1>10. \A d \in Dst : Advances(d)
    <2> TAKE d \in Dst
    <2>1. ~(rt[d].flags = "UP" /\ rt'[d].flags = "IN_REPAIR")
      BY <1>2
    <2> QED BY <1>2, <2>1 DEF Advances
  <1> QED BY <1>9, <1>10 DEF Good

-----------------------------------------------------------------------------
(* rt_purge.  Between two entries, the table and the buffer are as good as *)
(* between two events: what is waiting has been searched for, and no entry *)
(* has been visited twice.                                                 *)
SweptOK == {s \in [rt : [Dst -> Entry], queue : Buffers] :
              TableOK(s.rt) /\ Searched(s.rt, s.queue)}

Changed(s, d, f, q) == [rt |-> [s.rt EXCEPT ![d] = f], queue |-> q]

LEMMA OneSwept ==
  ASSUME NEW s \in SweptOK, NEW d \in Dst, NEW f, EntryOK(f), NEW q \in Buffers,
         \A p \in DOMAIN q : IF To[p] = d THEN f.flags # "UP" /\ f.asked
                             ELSE p \in DOMAIN s.queue,
         NEW t, t = Changed(s, d, f, q)
  PROVE  t \in SweptOK /\ t.rt[d] = f /\ \A x \in Dst : x # d => t.rt[x] = s.rt[x]
  <1> DEFINE r == s.rt
             u == [r EXCEPT ![d] = f]
  <1>1. /\ r \in [Dst -> Entry] /\ \A x \in Dst : EntryOK(r[x])
        /\ \A p \in DOMAIN s.queue : r[To[p]].flags # "UP" /\ r[To[p]].asked
    BY DEF SweptOK, TableOK, Searched
  <1>2. t = [rt |-> u, queue |-> q]
    BY DEF Changed
  <1> HIDE DEF r
  <1>3. u[d] = f /\ \A x \in Dst : x # d => u[x] = r[x]
    BY <1>1
  <1>4. u \in [Dst -> Entry]
    BY <1>1, EntryOKType
  <1> HIDE DEF u
  <1>5. TableOK(u)
    <2>1. ASSUME NEW x \in Dst PROVE EntryOK(u[x])
      <3>1. CASE x = d
        BY <1>3, <3>1
      <3>2. CASE x # d
        BY <1>1, <1>3, <3>2
      <3> QED BY <3>1, <3>2
    <2> QED BY <1>4, <2>1 DEF TableOK
  <1>6. Searched(u, q)
    <2> SUFFICES ASSUME NEW p \in DOMAIN q PROVE u[To[p]].flags # "UP" /\ u[To[p]].asked
      BY DEF Searched
    <2>1. CASE To[p] = d
      BY <1>3, <2>1
    <2>2. CASE To[p] # d
      <3>1. p \in Packet
        BY BuffersDef
      <3>2. To[p] \in Dst /\ p \in DOMAIN s.queue
        BY <2>2, <3>1, Constants
      <3>3. u[To[p]] = r[To[p]]
        BY <1>3, <2>2, <3>2
      <3> QED BY <1>1, <3>2, <3>3
    <2> QED BY <2>1, <2>2
  <1>7. t.rt = u /\ t.queue = q /\ t \in [rt : [Dst -> Entry], queue : Buffers]
    <2> DEFINE R == [Dst -> Entry]
    <2>1. u \in R
      BY <1>4
    <2> HIDE DEF R
    <2>2. t.rt = u /\ t.queue = q
      BY <1>2
    <2>3. t \in [rt : R, queue : Buffers]
      BY <1>2, <2>1
    <2> QED BY <2>2, <2>3 DEF R
  <1> HIDE DEF SweptOK
  <1>8. t \in SweptOK
    BY <1>5, <1>6, <1>7 DEF SweptOK
  <1> QED BY <1>3, <1>7, <1>8 DEF r

\* What a purge may do to an entry.
Purged(e, f) ==
  SearchStep(e, f) /\ (f.flags = "IN_REPAIR" => e.flags = "IN_REPAIR")

LEMMA PurgeEntryOK ==
  ASSUME NEW s \in SweptOK, NEW d \in Dst, elapsed \in 0 .. MaxElapsed,
         NEW t, t = PurgeEntry(s, d)
  PROVE  /\ t \in SweptOK /\ Purged(s.rt[d], t.rt[d])
         /\ \A x \in Dst : x # d => t.rt[x] = s.rt[x]
  <1> DEFINE e == s.rt[d]
             b == s.queue
  <1>1. EntryOK(e) /\ SearchOK(e) /\ b \in Buffers
    BY EntryOKType DEF SweptOK, TableOK
  <1>2. t = IF Expired(e) THEN
              [rt |-> [s.rt EXCEPT ![d] = rt_down(e)], queue |-> Emptied(b, d)]
            ELSE IF e.flags = "UP" THEN
              [rt |-> [s.rt EXCEPT ![d] = Used(e, Released(b, d))], queue |-> Emptied(b, d)]
            ELSE IF find(b, d) THEN
              [rt |-> [s.rt EXCEPT ![d] = sendRequest(e)], queue |-> DropsPackets(e, b, d)]
            ELSE s
    BY DEF PurgeEntry
  <1> HIDE DEF e
  <1>3. CASE Expired(e)
    <2> DEFINE f == rt_down(e)
               q == Emptied(b, d)
    <2>1. EntryOK(f) /\ Unmoved(e, f) /\ f.flags # "IN_REPAIR"
      BY <1>1, DownOK
    <2>2. q \in Buffers /\ \A p \in DOMAIN q : p \in DOMAIN b /\ To[p] # d
      <3> HIDE DEF b
      <3> QED BY <1>1, EmptiedOK
    <2>3. t = Changed(s, d, f, q)
      BY <1>2, <1>3 DEF Changed
    <2> HIDE DEF f, q
    <2>4. t \in SweptOK /\ t.rt[d] = f /\ \A x \in Dst : x # d => t.rt[x] = s.rt[x]
      BY <2>1, <2>2, <2>3, OneSwept
    <2>5. Purged(e, f)
      BY <2>1, UnmovedStep DEF Purged
    <2> QED BY <2>4, <2>5 DEF e
  <1>4. CASE ~Expired(e) /\ e.flags = "UP"
    <2> DEFINE P == Released(b, d)
               f == Used(e, P)
               q == Emptied(b, d)
    <2>1. EntryOK(f) /\ Unmoved(e, f) /\ f.flags = e.flags
      <3> HIDE DEF P
      <3> QED BY <1>1, UsedOK
    <2>2. q \in Buffers /\ \A p \in DOMAIN q : p \in DOMAIN b /\ To[p] # d
      <3> HIDE DEF b
      <3> QED BY <1>1, EmptiedOK
    <2>3. t = Changed(s, d, f, q)
      BY <1>2, <1>4 DEF Changed
    <2> HIDE DEF f, q
    <2>4. t \in SweptOK /\ t.rt[d] = f /\ \A x \in Dst : x # d => t.rt[x] = s.rt[x]
      BY <2>1, <2>2, <2>3, OneSwept
    <2>5. Purged(e, f)
      BY <1>4, <2>1, UnmovedStep DEF Purged
    <2> QED BY <2>4, <2>5 DEF e
  <1>5. CASE ~Expired(e) /\ e.flags # "UP" /\ find(b, d)
    <2> DEFINE f == sendRequest(e)
               q == DropsPackets(e, b, d)
    <2>1. EntryOK(f) /\ f.asked /\ f.flags = e.flags /\ SearchStep(e, f)
      BY <1>1, <1>5, SendOK
    <2>2. q \in Buffers /\ \A p \in DOMAIN q : p \in DOMAIN b
      <3> HIDE DEF b
      <3> QED BY <1>1, DropsOK
    <2>3. t = Changed(s, d, f, q)
      BY <1>2, <1>5 DEF Changed
    <2> HIDE DEF f, q
    <2>4. \A p \in DOMAIN q : IF To[p] = d THEN f.flags # "UP" /\ f.asked ELSE p \in DOMAIN s.queue
      BY <1>5, <2>1, <2>2
    <2>5. t \in SweptOK /\ t.rt[d] = f /\ \A x \in Dst : x # d => t.rt[x] = s.rt[x]
      BY <2>1, <2>2, <2>3, <2>4, OneSwept
    <2>6. Purged(e, f)
      BY <2>1 DEF Purged
    <2> QED BY <2>5, <2>6 DEF e
  <1>6. CASE ~Expired(e) /\ e.flags # "UP" /\ ~find(b, d)
    <2>1. t = s
      BY <1>2, <1>6
    <2>2. Purged(e, e)
      BY UnmovedStep DEF Purged, Unmoved
    <2> QED BY <2>1, <2>2 DEF e
  <1> QED BY <1>3, <1>4, <1>5, <1>6

LEMMA TableFacts ==
  /\ Len(Table) \in Nat
  /\ \A i \in 1 .. Len(Table) : Table[i] \in Dst
  /\ \A i, j \in 1 .. Len(Table) : Table[i] = Table[j] => i = j
  <1>1. Table \in Seq(Dst) /\ IsInjective(Table)
    BY ConstantAssumption
  <1>2. /\ Len(Table) \in Nat /\ DOMAIN Table = 1 .. Len(Table)
        /\ \A i \in 1 .. Len(Table) : Table[i] \in Dst
    <2> HIDE DEF Dst
    <2> QED BY <1>1, LenProperties, ElementOfSeq
  <1>3. \A i, j \in DOMAIN Table : Table[i] = Table[j] => i = j
    BY <1>1 DEF IsInjective
  <1> QED BY <1>2, <1>3

LEMMA SweptUnfolds ==
  ASSUME DiscoveryInv
  PROVE  /\ Swept[0] = [rt |-> rt, queue |-> queue]
         /\ \A i \in 1 .. Len(Table) : Swept[i] = PurgeEntry(Swept[i - 1], Table[i])
  <1> DEFINE n == Len(Table)
             a == [rt |-> rt, queue |-> queue]
             next(i, s) == PurgeEntry(s, Table[i])
             G == [x \in (1 .. n) \X SweptOK |-> next(x[1], x[2])]
             P(f) == f = [i \in 0 .. n |-> IF i = 0 THEN a ELSE next(i, f[i - 1])]
  <1>1. n \in Nat
    BY TableFacts
  <1>2. a \in SweptOK
    <2>1. a \in [rt : [Dst -> Entry], queue : Buffers]
      BY DEF DiscoveryInv, TableOK
    <2> QED BY <2>1 DEF DiscoveryInv, SweptOK
  <1>3. \A i \in 1 .. n, s \in SweptOK : next(i, s) \in SweptOK
    <2> TAKE i \in 1 .. n, s \in SweptOK
    <2>1. Table[i] \in Dst /\ elapsed \in 0 .. MaxElapsed
      BY TableFacts DEF DiscoveryInv
    <2> QED BY <2>1, PurgeEntryOK
  <1> HIDE DEF next
  <1>4. G \in [(1 .. n) \X SweptOK -> SweptOK]
    BY <1>3
  <1>5. PICK f : Unfolds(f, n, SweptOK, a, G)
    <2> HIDE DEF G, a, n
    <2> QED BY <1>1, <1>2, <1>4, Recursion
  <1>6. P(f)
    <2> HIDE DEF n
    <2>1. ASSUME NEW i \in 0 .. n, i # 0
          PROVE  f[i] = next(i, f[i - 1])
      <3>1. i \in 1 .. n /\ i - 1 \in 0 .. n
        BY <1>1, <2>1
      <3>2. f[i - 1] \in SweptOK /\ f[i] = G[<<i, f[i - 1]>>]
        BY <1>5, <3>1 DEF Unfolds
      <3> QED BY <3>1, <3>2
    <2>2. f \in [0 .. n -> SweptOK] /\ f[0] = a
      BY <1>5 DEF Unfolds
    <2> HIDE DEF a
    <2> QED BY <2>1, <2>2
  <1> DEFINE swept == CHOOSE g : P(g)
  <1>7. P(swept)
    <2> HIDE DEF P
    <2> QED BY <1>6
  <1>8. Swept = swept
    BY DEF Swept, next
  <1> HIDE DEF swept, a, n
  <1>9. swept[0] = a /\ \A i \in 1 .. n : swept[i] = next(i, swept[i - 1])
    <2>1. 0 \in 0 .. n /\ \A i \in 1 .. n : i \in 0 .. n /\ i # 0
      BY <1>1
    <2> QED BY <1>7, <2>1
  <1> QED BY <1>8, <1>9 DEF a, n, next

LEMMA SweptFacts ==
  ASSUME DiscoveryInv
  PROVE  LET s == Swept[Len(Table)] IN
         s \in SweptOK /\ \A d \in Dst : Purged(rt[d], s.rt[d])
  <1> DEFINE n == Len(Table)
             Kept(i, d) == (\A j \in 1 .. i : Table[j] # d) => Swept[i].rt[d] = rt[d]
             So(i) == /\ Swept[i] \in SweptOK
                      /\ \A d \in Dst : Purged(rt[d], Swept[i].rt[d]) /\ Kept(i, d)
             T == {i \in 0 .. n : So(i)}
  <1>1. /\ n \in Nat /\ \A i \in 1 .. n : Table[i] \in Dst
        /\ \A i, j \in 1 .. n : Table[i] = Table[j] => i = j
    BY TableFacts
  <1>2. /\ Swept[0] = [rt |-> rt, queue |-> queue]
        /\ \A i \in 1 .. n : Swept[i] = PurgeEntry(Swept[i - 1], Table[i])
    BY SweptUnfolds
  <1>3. elapsed \in 0 .. MaxElapsed
    BY DEF DiscoveryInv
  <1> HIDE DEF n
  <1>4. So(0)
    <2>1. Swept[0] \in [rt : [Dst -> Entry], queue : Buffers]
      BY <1>2 DEF DiscoveryInv, TableOK
    <2>2. Swept[0].rt = rt /\ Swept[0].queue = queue
      BY <1>2
    <2>3. Swept[0] \in SweptOK
      BY <2>1, <2>2 DEF SweptOK, DiscoveryInv
    <2>4. \A d \in Dst : Purged(rt[d], rt[d])
      BY UnmovedStep DEF Purged, Unmoved
    <2> QED BY <2>2, <2>3, <2>4
  <1>5. ASSUME NEW k \in 0 .. n, k < n, So(k)
        PROVE  So(k + 1)
    <2> DEFINE s == Swept[k]
               t == Swept[k + 1]
               c == Table[k + 1]
    <2>1. k \in Nat /\ k + 1 \in 1 .. n /\ (k + 1) - 1 = k
      BY <1>1, <1>5
    <2>2. c \in Dst /\ t = PurgeEntry(s, c) /\ s \in SweptOK
      BY <1>1, <1>2, <1>5, <2>1
    <2>3. \A j \in 1 .. k : Table[j] # c
      <3>1. \A j \in 1 .. k : j \in 1 .. n /\ j # k + 1
        BY <1>1, <2>1
      <3> QED BY <1>1, <2>1, <3>1
    <2>4. s.rt[c] = rt[c]
      BY <1>5, <2>2, <2>3
    <2> HIDE DEF t, s
    <2>5. /\ t \in SweptOK /\ Purged(s.rt[c], t.rt[c])
          /\ \A x \in Dst : x # c => t.rt[x] = s.rt[x]
      <3> HIDE DEF c
      <3> QED BY <1>3, <2>2, PurgeEntryOK
    <2>6. ASSUME NEW d \in Dst
          PROVE  /\ Purged(rt[d], t.rt[d])
                 /\ (\A j \in 1 .. k + 1 : Table[j] # d) => t.rt[d] = rt[d]
      <3>1. k + 1 \in 1 .. k + 1 /\ \A j \in 1 .. k : j \in 1 .. k + 1
        BY <2>1
      <3>2. Purged(rt[d], s.rt[d]) /\ ((\A j \in 1 .. k : Table[j] # d) => s.rt[d] = rt[d])
        BY <1>5 DEF s
      <3>3. CASE d = c
        <4>1. Purged(rt[d], t.rt[d])
          BY <2>4, <2>5, <3>3
        <4> QED BY <3>1, <3>3, <4>1
      <3>4. CASE d # c
        <4>1. t.rt[d] = s.rt[d]
          BY <2>5, <3>4
        <4> QED BY <3>1, <3>2, <4>1
      <3> QED BY <3>3, <3>4
    <2> QED BY <2>5, <2>6 DEF t
  <1> HIDE DEF So
  <1>6. 0 \in T /\ \A k \in 0 .. n : k < n /\ k \in T => k + 1 \in T
    <2>1. 0 \in 0 .. n /\ \A k \in 0 .. n : k < n => k + 1 \in 0 .. n
      BY <1>1
    <2> QED BY <1>4, <1>5, <2>1
  <1> HIDE DEF T
  <1>7. 0 .. n \subseteq T
    BY <1>1, <1>6, InductionTo
  <1>8. So(n)
    <2>1. n \in 0 .. n
      BY <1>1
    <2> QED BY <1>7, <2>1 DEF T
  <1> QED BY <1>8 DEF So, n

LEMMA PurgeStep ==
  ASSUME DiscoveryInv, Purge
  PROVE  Good
  <1> DEFINE s == Swept[Len(Table)]
  <1>1. /\ rt' = s.rt /\ queue' = s.queue /\ due' = FREQUENCY
        /\ repairs' = repairs /\ elapsed' = elapsed
    BY DEF Purge
  <1>2. s \in SweptOK /\ \A d \in Dst : Purged(rt[d], s.rt[d])
    BY SweptFacts
  <1> HIDE DEF s
  <1>3. TableOK(rt') /\ queue' \in Buffers /\ Searched(rt', queue')
    BY <1>1, <1>2 DEF SweptOK
  <1>4. due' \in {Off} \cup 0 .. FREQUENCY
    BY <1>1, Constants
  <1>5. DiscoveryInv'
    BY <1>1, <1>3, <1>4 DEF DiscoveryInv
  <1>6. \A d \in Dst : Advances(d)
    BY <1>1, <1>2 DEF Advances, Purged
  <1> QED BY <1>5, <1>6 DEF Good

-----------------------------------------------------------------------------
(* The theorems. *)
LEMMA InitOK ==
  ASSUME Init
  PROVE  DiscoveryInv
  <1>1. /\ rt = [d \in Dst |-> FreshEntry] /\ queue = [p \in {} |-> 0] /\ due = Off
        /\ repairs = [d \in Dst |-> <<>>] /\ elapsed = 0
    BY DEF Init
  <1>2. TableOK(rt)
    <2>1. EntryOK(FreshEntry) /\ FreshEntry \in Entry
      BY FreshOK, EntryOKType
    <2> HIDE DEF Dst
    <2> QED BY <1>1, <2>1 DEF TableOK
  <1>3. queue \in Buffers /\ Searched(rt, queue)
    <2>1. DOMAIN queue = {}
      BY <1>1
    <2>2. queue = [p \in DOMAIN queue |-> queue[p]]
      BY <1>1
    <2> QED BY <2>1, <2>2, BuffersDef DEF Searched
  <1>4. repairs \in [Dst -> Seq(Nat)] /\ \A d \in Dst : Len(repairs[d]) <= MaxRepairs
    <2>1. <<>> \in Seq(Nat) /\ Len(<<>>) = 0 /\ MaxRepairs \in Nat
      BY Constants, EmptySeq
    <2> HIDE DEF Dst
    <2> QED BY <1>1, <2>1
  <1>5. elapsed \in 0 .. MaxElapsed
    BY <1>1, Constants
  <1> QED BY <1>1, <1>2, <1>3, <1>4, <1>5 DEF DiscoveryInv

LEMMA NextStep ==
  ASSUME DiscoveryInv, [Next]_vars
  PROVE  Good
  <1>1. CASE Start
    BY <1>1, StartStep
  <1>2. CASE \E p \in Packet : Originate(p) \/ Relay(p) \/ StartRepair(p)
    BY <1>2, OriginateStep, RelayStep, StartRepairStep
  <1>3. CASE Purge
    BY <1>3, PurgeStep
  <1>4. ASSUME NEW d \in Dst, NEW hc \in Distance, NEW life \in Lifetime,
               NEW src \in (Dst \ {d}) \cup {Me, Other}, NEW l \in Latency \cup {0},
               RecvReply(d, hc, life, src, l)
        PROVE  Good
    BY <1>4, RecvReplyStep
  <1>5. ASSUME NEW d \in Dst, NEW hc \in Distance, NEW fresh \in BOOLEAN,
               RecvRequest(d, hc, fresh)
        PROVE  Good
    BY <1>5, RecvRequestStep
  <1>6. CASE \E D \in SUBSET Dst : RoutesLost(D)
    BY <1>6, RoutesLostStep
  <1>7. CASE \E d \in Dst : RepairTimer(d)
    BY <1>7, RepairTimerStep
  <1>8. CASE Tick
    BY <1>8, TickStep
  <1>9. CASE UNCHANGED vars
    <2>1. /\ rt' = rt /\ queue' = queue /\ due' = due /\ repairs' = repairs
          /\ elapsed' = elapsed
      BY <1>9 DEF vars
    <2>2. DiscoveryInv'
      BY <2>1 DEF DiscoveryInv
    <2>3. \A d \in Dst : Advances(d)
      BY <2>1, UnmovedStep DEF Advances, Unmoved
    <2> QED BY <2>2, <2>3 DEF Good
  <1> QED BY <1>1, <1>2, <1>3, <1>4, <1>5, <1>6, <1>7, <1>8, <1>9 DEF Next

LEMMA DiscoveryInvariant == Spec => []DiscoveryInv
  <1>1. Init => DiscoveryInv
    BY InitOK
  <1>2. DiscoveryInv /\ [Next]_vars => DiscoveryInv'
    BY NextStep DEF Good
  <1> QED BY <1>1, <1>2, PTL DEF Spec

LEMMA InvImpliesTypeOK ==
  ASSUME DiscoveryInv
  PROVE  TypeOK
  <1>1. /\ rt \in [Dst -> Entry] /\ \A d \in Dst : rt[d].expire >= LongAgo
    BY InvFacts DEF SearchOK
  <1>2. DOMAIN queue \subseteq Packet /\ \A p \in DOMAIN queue : queue[p] \in LongAgo .. AODV_RTQ_TIMEOUT
    BY InvFacts, BuffersDef
  <1> QED BY <1>1, <1>2 DEF DiscoveryInv, TypeOK

LEMMA InvImpliesSearched ==
  ASSUME DiscoveryInv
  PROVE  WaitingIsSearched
  BY DEF DiscoveryInv, Searched, WaitingIsSearched

\* A step of every entry is a step of Search.
LEMMA SearchNext ==
  ASSUME \A d \in Dst : SearchStep(rt[d], rt'[d])
  PROVE  Requests!Next
  <1> SUFFICES ASSUME NEW d \in Dst
               PROVE  Requests!Ring(d) \/ Requests!NetworkWide(d) \/ Requests!Rest(d)
                      \/ Requests!Found(d) \/ Requests!Passes(d) \/ Requests!Same(d)
    BY DEF Requests!Next
  <1> DEFINE e == rt[d]
             f == rt'[d]
  <1>1. \A p, n, w : Becomes(f, p, n, w) => Requests!Becomes(d, p, n, w)
    BY DEF Becomes, Requests!Becomes
  <1>2. SearchStep(e, f)
    OBVIOUS
  <1>3. CASE /\ e.req_timeout = 0 /\ e.req_cnt = 0 /\ Phase(e) # "resting"
             /\ \E w \in 1 .. MAX_RREQ_TIMEOUT : Becomes(f, "searching", 0, w)
    <2>1. Requests!Ring(d)
      BY <1>1, <1>3 DEF Requests!Ring
    <2> QED BY <2>1
  <1>4. CASE /\ e.req_timeout = 0 /\ e.req_cnt < RREQ_RETRIES + 1
             /\ \E w \in 1 .. MAX_RREQ_TIMEOUT : Becomes(f, "searching", e.req_cnt + 1, w)
    <2>1. Requests!NetworkWide(d)
      BY <1>1, <1>4 DEF Requests!NetworkWide
    <2> QED BY <2>1
  <1>5. CASE /\ e.req_timeout = 0 /\ e.req_cnt = RREQ_RETRIES + 1
             /\ Becomes(f, "resting", 0, MAX_RREQ_TIMEOUT)
    <2>1. Requests!Rest(d)
      BY <1>1, <1>5 DEF Requests!Rest
    <2> QED BY <2>1
  <1>6. CASE Becomes(f, "idle", 0, 0)
    <2>1. Requests!Found(d)
      BY <1>1, <1>6 DEF Requests!Found
    <2> QED BY <2>1
  <1>7. CASE e.req_timeout > 0 /\ Becomes(f, Phase(e), e.req_cnt, e.req_timeout - 1)
    BY <1>7 DEF Becomes, Requests!Passes, Requests!Becomes
  <1>8. CASE Becomes(f, Phase(e), e.req_cnt, e.req_timeout)
    BY <1>8 DEF Becomes, Requests!Same, Requests!Becomes
  <1> QED BY <1>2, <1>3, <1>4, <1>5, <1>6, <1>7, <1>8 DEF SearchStep

LEMMA SearchInit ==
  ASSUME Init
  PROVE  Requests!Init
  <1>1. \A d \in Dst : rt[d] = FreshEntry
    BY DEF Init
  <1>2. Phase(FreshEntry) = "idle" /\ FreshEntry.req_cnt = 0 /\ FreshEntry.req_timeout = 0
    BY DEF Phase, FreshEntry
  <1> QED BY <1>1, <1>2 DEF Requests!Init

(* Every field of an entry stays in its range, rt_req_cnt within one of    *)
(* RREQ_RETRIES, the latency history within MAX_HISTORY, and the timers    *)
(* are set at most their period ahead.                                     *)
THEOREM DiscoveryTyped == Spec => []TypeOK
  BY DiscoveryInvariant, InvImpliesTypeOK, PTL

(* No handler forgets to search for what it buffers, or to release what it *)
(* has found a route for: rt_resolve, rt_purge and local_rt_repair search, *)
(* recvReply and recvRequest release, and nothing else touches the buffer. *)
THEOREM WaitingIsAskedFor == Spec => []WaitingIsSearched
  BY DiscoveryInvariant, InvImpliesSearched, PTL

(* A repair of a route in use never gives up at its start: rt_req_cnt of   *)
(* a route that is up is 0, so that sendRequest keeps the packet it failed *)
(* for.                                                                    *)
THEOREM RepairsAsk == Spec => RepairAsks
  <1>1. DiscoveryInv /\ [Next]_vars =>
          [\A d \in Dst : rt[d].flags = "UP" /\ rt'[d].flags = "IN_REPAIR" =>
             rt'[d].asked /\ find(queue', d)]_vars
    BY NextStep DEF Good, Advances
  <1> QED BY <1>1, DiscoveryInvariant, PTL DEF Spec, RepairAsks

(* The requests for each destination are spaced and limited as the         *)
(* comments around sendRequest say: whichever handler calls it, in         *)
(* whatever order routes come and go, a step is one of Search's.           *)
THEOREM RequestsAreLimited == Spec => IsSearch
  <1>1. Init => Requests!Init
    BY SearchInit
  <1>2. DiscoveryInv /\ [Next]_vars =>
          [Requests!Next]_<<[d \in Dst |-> Phase(rt[d])], [d \in Dst |-> rt[d].req_cnt],
                            [d \in Dst |-> rt[d].req_timeout]>>
    BY NextStep, SearchNext DEF Good, Advances
  <1> QED BY <1>1, <1>2, DiscoveryInvariant, PTL DEF Spec, IsSearch, Requests!Spec
=============================================================================
