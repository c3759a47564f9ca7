--------------------------- MODULE NeighborsProofs ---------------------------
(***************************************************************************)
(* Silent neighbours are dropped in time, and others are not: for any      *)
(* number of neighbours, any losses, and any intervals that fit.           *)
(***************************************************************************)
EXTENDS Neighbors, TLAPS, FiniteSetTheorems

-----------------------------------------------------------------------------
(* Types.                                                                    *)

\* The time a HELLO buys is positive.
LEMMA ExpireType == nb_expire \in Nat /\ nb_expire > 0
<1> DEFINE k == ALLOWED_HELLO_LOSS * HELLO_INTERVAL
<1>1. k \in Nat /\ k > 0
  BY NeighborsAssumption
<1>2. (3 * k) \div 2 \in Nat /\ (3 * k) \div 2 > 0
  <2> HIDE DEF k
  <2> QED
    BY <1>1
<1>3. 3 * ALLOWED_HELLO_LOSS * HELLO_INTERVAL = 3 * k
  BY NeighborsAssumption
<1> QED
  BY <1>2, <1>3 DEF nb_expire

\* The own number stays even however many neighbours come and go.
LEMMA ChangedType ==
  ASSUME seqno \in 0 .. MaxSeqno, seqno % 2 = 0, NEW k \in Nat
  PROVE  Changed(k) \in 0 .. MaxSeqno /\ Changed(k) % 2 = 0
<1> DEFINE x == seqno + 2 * k
           m == MaxSeqno + 1
           q == x \div m
<1>1. m \in Nat /\ m > 0 /\ m % 2 = 0
  BY NeighborsAssumption
<1>2. x \in Nat /\ x % 2 = 0
  BY NeighborsAssumption
<1>3. q \in Int /\ x % m = x - m * q /\ x % m \in 0 .. m - 1
  <2> HIDE DEF x, m
  <2> QED
    BY <1>1, <1>2
<1>4. (m * q) % 2 = 0
  <2>1. PICK h \in Int : m = 2 * h
    BY <1>1
  <2>2. h * q \in Int /\ m * q = 2 * (h * q)
    <3> HIDE DEF x, m, q
    <3> QED
      BY <1>3, <2>1
  <2> HIDE DEF x, m, q
  <2> QED
    BY <2>2
<1>5. (x % m) % 2 = 0
  <2> DEFINE y == m * q
  <2>1. y \in Int
    BY <1>1, <1>3
  <2> HIDE DEF x, m, y
  <2> QED
    BY <1>2, <1>3, <1>4, <2>1 DEF y
<1> QED
  BY <1>3, <1>5, NeighborsAssumption DEF Changed

-----------------------------------------------------------------------------
(* Types, and how long entries are kept: an entry that survives the purge    *)
(* has time left, and loses as much of it as NeighborTimer does.             *)

InPeriod == \A n \in Listed : nb[n] > ntimer - HELLO_INTERVAL

ListInv == TypeOK /\ InPeriod

LEMMA ListInit == Init => ListInv
BY NeighborsAssumption, ExpireType DEF Init, ListInv, TypeOK, InPeriod, Listed

LEMMA HelloStep ==
  ASSUME ListInv, NEW n \in Neighbor, SendHello(n)
  PROVE  ListInv'
<1> USE NeighborsAssumption, ExpireType
<1>1. CASE RecvHello(n)
  <2>1. Listed' = Listed \cup {n}
    BY <1>1 DEF RecvHello, Listed
  <2>2. \A m \in Listed' : nb'[m] = IF m = n THEN nb_expire ELSE nb[m]
    BY <1>1, <2>1 DEF RecvHello
  <2>3. seqno' \in 0 .. MaxSeqno /\ seqno' % 2 = 0
    BY <1>1, ChangedType DEF RecvHello, nb_insert, ListInv, TypeOK
  <2>4. htimer' \in [Neighbor -> 0 .. MaxHelloInterval] /\ lost' \in [Neighbor -> 0 .. MaxLost]
    BY <1>1 DEF RecvHello, SendHello, ListInv, TypeOK
  <2>5. \A m \in Listed' : nb'[m] \in -HELLO_INTERVAL .. nb_expire
    BY <2>1, <2>2 DEF ListInv, TypeOK
  <2>6. \A m \in Listed' : nb'[m] > ntimer - HELLO_INTERVAL
    BY <2>1, <2>2 DEF ListInv, TypeOK, InPeriod
  <2> QED
    BY <2>1, <2>3, <2>4, <2>5, <2>6 DEF SendHello, ListInv, TypeOK, InPeriod
<1>2. CASE Missed(n)
  <2>1. htimer' \in [Neighbor -> 0 .. MaxHelloInterval] /\ lost' \in [Neighbor -> 0 .. MaxLost]
    BY <1>2 DEF Missed, SendHello, ListInv, TypeOK
  <2> QED
    BY <1>2, <2>1 DEF Missed, SendHello, ListInv, TypeOK, InPeriod, Listed
<1> QED
  BY <1>1, <1>2 DEF SendHello

LEMMA PurgeStep ==
  ASSUME ListInv, nb_purge
  PROVE  ListInv'
<1> USE NeighborsAssumption, ExpireType
<1>1. Listed' = Listed \ TimedOut
  BY DEF nb_purge, Listed
<1>2. \A m \in Listed' : m \in Listed /\ nb'[m] = nb[m] /\ nb[m] > 0
  BY <1>1 DEF nb_purge, TimedOut, ListInv, TypeOK
<1>3. Cardinality(TimedOut) \in Nat
  BY FS_Subset, FS_CardinalityType DEF TimedOut, ListInv, TypeOK
<1>4. seqno' \in 0 .. MaxSeqno /\ seqno' % 2 = 0
  BY <1>3, ChangedType DEF nb_purge, ListInv, TypeOK
<1>5. route' \in [Dst -> Neighbor \cup {None}]
  BY DEF nb_purge, RoutesWithout, ListInv, TypeOK
<1>6. \A m \in Listed' : nb'[m] \in -HELLO_INTERVAL .. nb_expire
  BY <1>2 DEF ListInv, TypeOK
<1>7. InPeriod'
  <2>1. ntimer' - HELLO_INTERVAL = 0
    BY DEF nb_purge
  <2>2. \A m \in Listed' : nb'[m] > 0
    BY <1>2, <1>6
  <2> QED
    BY <2>1, <2>2 DEF InPeriod
<1> QED
  BY <1>1, <1>4, <1>5, <1>6, <1>7 DEF nb_purge, ListInv, TypeOK

LEMMA TickStep ==
  ASSUME ListInv, Tick
  PROVE  ListInv'
<1> USE NeighborsAssumption, ExpireType
<1>1. Listed' = Listed
  BY DEF Tick, Listed
<1>2. \A m \in Listed' : nb'[m] = nb[m] - 1
  BY <1>1 DEF Tick
<1>3. \A m \in Listed' : nb'[m] \in -HELLO_INTERVAL .. nb_expire
  BY <1>1, <1>2 DEF Tick, ListInv, TypeOK, InPeriod
<1>4. InPeriod'
  BY <1>1, <1>2 DEF Tick, ListInv, TypeOK, InPeriod
<1>5. ntimer' \in 0 .. HELLO_INTERVAL /\ htimer' \in [Neighbor -> 0 .. MaxHelloInterval]
  BY DEF Tick, ListInv, TypeOK
<1> QED
  BY <1>1, <1>3, <1>4, <1>5 DEF Tick, ListInv, TypeOK

LEMMA ListStep == ListInv /\ [Next]_vars => ListInv'
<1> SUFFICES ASSUME ListInv, [Next]_vars PROVE ListInv'
  OBVIOUS
<1>1. CASE \E n \in Neighbor : SendHello(n)
  BY <1>1, HelloStep
<1>2. CASE \E n \in Neighbor : MoveAway(n)
  BY <1>2 DEF MoveAway, ListInv, TypeOK, InPeriod, Listed
<1>3. CASE nb_purge
  BY <1>3, PurgeStep
<1>4. CASE \E d \in Dst : RouteDown(d)
  BY <1>4 DEF RouteDown, ListInv, TypeOK, InPeriod, Listed
<1>5. CASE \E d \in Dst, n \in Neighbor : RouteVia(d, n)
  BY <1>5 DEF RouteVia, ListInv, TypeOK, InPeriod, Listed
<1>6. CASE Tick
  BY <1>6, TickStep
<1>7. CASE UNCHANGED vars
  BY <1>7 DEF vars, ListInv, TypeOK, InPeriod, Listed
<1> QED
  BY <1>1, <1>2, <1>3, <1>4, <1>5, <1>6, <1>7 DEF Next

\* Every variable keeps its type, in particular nb_insert's and nb_delete's
\* assertion that the own number is even.
THEOREM NeighborTypes == Spec => []TypeOK
<1>1. ListInv => TypeOK
  BY DEF ListInv
<1> QED
  BY <1>1, ListInit, ListStep, PTL DEF Spec

\* A silent neighbour is gone after the next purge at the latest: nb_purge.
THEOREM SilentDropped == Spec => []SilentAreDropped
<1>1. ListInv => SilentAreDropped
  BY NeighborsAssumption, ExpireType DEF ListInv, TypeOK, InPeriod, SilentAreDropped
<1> QED
  BY <1>1, ListInit, ListStep, PTL DEF Spec

-----------------------------------------------------------------------------
(* Only lost HELLOs make a neighbour go.  The time that has passed since the *)
(* last HELLO of a listed neighbour is that of the intervals whose HELLOs    *)
(* were lost and of the one that is running.                                 *)

Intervals(k) == k * MaxHelloInterval

LossInv ==
  \A n \in Listed :
    lost[n] < ALLOWED_HELLO_LOSS =>
      nb_expire - nb[n] + htimer[n] <= Intervals(lost[n] + 1)

LEMMA IntervalsGrow ==
  \A k \in Nat :
    /\ Intervals(k) \in Nat
    /\ Intervals(k + 1) = Intervals(k) + MaxHelloInterval
    /\ \A l \in Nat : k <= l => Intervals(k) <= Intervals(l)
BY NeighborsAssumption DEF Intervals

LEMMA LossHello ==
  ASSUME ListInv, LossInv, NEW n \in Neighbor, SendHello(n)
  PROVE  LossInv'
<1> USE NeighborsAssumption, ExpireType
<1> SUFFICES ASSUME NEW m \in Listed', lost'[m] < ALLOWED_HELLO_LOSS
             PROVE  nb_expire - nb'[m] + htimer'[m] <= Intervals(lost'[m] + 1)
  BY DEF LossInv
<1>1. PICK interval \in MinHelloInterval .. MaxHelloInterval :
        htimer' = [htimer EXCEPT ![n] = interval]
  BY DEF SendHello
<1>2. CASE RecvHello(n)
  <2>1. Listed' = Listed \cup {n} /\ nb'[m] = IF m = n THEN nb_expire ELSE nb[m]
    BY <1>2 DEF RecvHello, Listed
  <2>2. CASE m = n
    <3>1. htimer'[n] = interval /\ lost'[n] = 0 /\ nb'[n] = nb_expire
      BY <1>1, <1>2, <2>1, <2>2 DEF RecvHello, ListInv, TypeOK
    <3>2. Intervals(0 + 1) = MaxHelloInterval
      BY DEF Intervals
    <3> QED
      BY <2>2, <3>1, <3>2
  <2>3. CASE m # n
    BY <1>1, <1>2, <2>1, <2>3 DEF RecvHello, LossInv, ListInv, TypeOK
  <2> QED
    BY <2>2, <2>3
<1>3. CASE Missed(n)
  <2>1. m \in Listed /\ m \in Neighbor /\ nb' = nb
    BY <1>3 DEF Missed, Listed, ListInv, TypeOK
  <2>2. CASE m = n
    <3>1. lost[n] \in Nat /\ htimer[n] = 0 /\ nb[n] \in Int
      BY <2>1, <2>2 DEF SendHello, ListInv, TypeOK
    <3>2. lost'[n] = IF lost[n] = MaxLost THEN lost[n] ELSE lost[n] + 1
      BY <1>3 DEF Missed, ListInv, TypeOK
    <3>3. htimer'[n] = interval
      BY <1>1 DEF ListInv, TypeOK
    <3>4. lost'[n] = lost[n] + 1 /\ lost[n] < ALLOWED_HELLO_LOSS
      BY <2>2, <3>1, <3>2
    <3>5. nb_expire - nb[n] <= Intervals(lost[n] + 1)
      BY <2>1, <2>2, <3>1, <3>4 DEF LossInv
    <3>6. /\ Intervals(lost[n] + 1 + 1) = Intervals(lost[n] + 1) + MaxHelloInterval
          /\ Intervals(lost[n] + 1) \in Nat
      <4>1. lost[n] + 1 \in Nat
        BY <3>1
      <4> QED
        BY <4>1, IntervalsGrow
    <3> QED
      BY <2>1, <2>2, <3>1, <3>3, <3>4, <3>5, <3>6
  <2>3. CASE m # n
    BY <1>1, <1>3, <2>1, <2>3 DEF Missed, LossInv, ListInv, TypeOK
  <2> QED
    BY <2>2, <2>3
<1> QED
  BY <1>2, <1>3 DEF SendHello

LEMMA LossStep ==
  ASSUME ListInv, LossInv, [Next]_vars
  PROVE  LossInv'
<1> USE NeighborsAssumption, ExpireType
<1>1. CASE \E n \in Neighbor : SendHello(n)
  BY <1>1, LossHello
<1>2. CASE \E n \in Neighbor : MoveAway(n)
  BY <1>2 DEF MoveAway, LossInv, Listed
<1>3. CASE nb_purge
  BY <1>3 DEF nb_purge, LossInv, Listed
<1>4. CASE \E d \in Dst : RouteDown(d)
  BY <1>4 DEF RouteDown, LossInv, Listed
<1>5. CASE \E d \in Dst, n \in Neighbor : RouteVia(d, n)
  BY <1>5 DEF RouteVia, LossInv, Listed
<1>6. CASE Tick
  <2> SUFFICES ASSUME NEW m \in Listed, lost[m] < ALLOWED_HELLO_LOSS
               PROVE  nb_expire - nb'[m] + htimer'[m] <= Intervals(lost[m] + 1)
    BY <1>6 DEF Tick, LossInv, Listed
  <2>1. nb'[m] = nb[m] - 1 /\ htimer'[m] = htimer[m] - 1
    BY <1>6 DEF Tick, Listed, ListInv, TypeOK
  <2>2. nb[m] \in Int /\ htimer[m] \in Int
    BY DEF ListInv, TypeOK
  <2> QED
    BY <2>1, <2>2 DEF LossInv
<1>7. CASE UNCHANGED vars
  BY <1>7 DEF vars, LossInv, Listed
<1> QED
  BY <1>1, <1>2, <1>3, <1>4, <1>5, <1>6, <1>7 DEF Next

\* If ALLOWED_HELLO_LOSS of the longest intervals are shorter than the time a
\* HELLO buys, nb_purge drops no neighbour of which fewer HELLOs were lost.
THEOREM GivenUpOnlyAfterLosses ==
  ASSUME ALLOWED_HELLO_LOSS * MaxHelloInterval < nb_expire
  PROVE  Spec => GivenUpAfterLosses
<1> USE NeighborsAssumption, ExpireType
<1>1. Init => LossInv
  BY DEF Init, LossInv, Listed
<1>2. ASSUME ListInv, LossInv, nb_purge, NEW n \in Listed \ DOMAIN nb'
      PROVE  lost[n] >= ALLOWED_HELLO_LOSS
  <2>1. n \in Neighbor /\ nb[n] <= 0
    BY <1>2 DEF nb_purge, TimedOut, ListInv, TypeOK
  <2>2. lost[n] \in Nat /\ htimer[n] \in Nat /\ nb[n] \in Int
    BY <1>2, <2>1 DEF ListInv, TypeOK
  <2> SUFFICES ASSUME lost[n] < ALLOWED_HELLO_LOSS PROVE FALSE
    BY <2>2
  <2>3. lost[n] + 1 \in Nat /\ lost[n] + 1 <= ALLOWED_HELLO_LOSS
    BY <2>2
  <2>4. Intervals(lost[n] + 1) \in Nat
    BY <2>3, IntervalsGrow
  <2>5. nb_expire <= Intervals(lost[n] + 1)
    <3>1. nb_expire - nb[n] + htimer[n] <= Intervals(lost[n] + 1)
      BY <1>2 DEF LossInv
    <3> DEFINE i == Intervals(lost[n] + 1)
    <3> HIDE DEF i
    <3>2. i \in Nat /\ nb_expire - nb[n] + htimer[n] <= i
      BY <3>1, <2>4 DEF i
    <3> QED
      BY <2>1, <2>2, <3>2 DEF i
  <2>6. Intervals(lost[n] + 1) <= Intervals(ALLOWED_HELLO_LOSS)
    BY <2>3, IntervalsGrow
  <2>7. Intervals(ALLOWED_HELLO_LOSS) = ALLOWED_HELLO_LOSS * MaxHelloInterval
    BY DEF Intervals
  <2>8. ALLOWED_HELLO_LOSS * MaxHelloInterval \in Nat
    OBVIOUS
  <2> QED
    BY <2>5, <2>6, <2>4, <2>7, <2>8
<1>3. ListInv /\ LossInv /\ [Next]_vars =>
        [\A n \in Listed \ DOMAIN nb' : lost[n] >= ALLOWED_HELLO_LOSS]_vars
  <2> SUFFICES ASSUME ListInv, LossInv, [Next]_vars, ~nb_purge
               PROVE  Listed \subseteq DOMAIN nb'
    BY <1>2
  <2>1. CASE \E n \in Neighbor : SendHello(n)
    BY <2>1 DEF SendHello, RecvHello, Missed, Listed
  <2>2. CASE UNCHANGED nb
    BY <2>2 DEF Listed
  <2>3. CASE Tick
    BY <2>3 DEF Tick, Listed
  <2> QED
    BY <2>1, <2>2, <2>3 DEF Next, MoveAway, RouteDown, RouteVia, vars
<1> QED
  BY <1>1, <1>3, ListInit, ListStep, LossStep, PTL DEF Spec, GivenUpAfterLosses
=============================================================================
