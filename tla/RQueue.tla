------------------------------- MODULE RQueue -------------------------------
(***************************************************************************)
(* The send buffer of an AODV agent, class aodv_rqueue: a singly linked    *)
(* list of packets threaded through Packet::next_, with head_, tail_ and   *)
(* len_ kept by hand.                                                      *)
(*                                                                         *)
(* A call runs to its end before the next.  What it does to the list is    *)
(* computed on a record list = [head, tail, next, len], one operator for   *)
(* each private routine, so that the order of the assignments is the       *)
(* code's.  deque(void) has no caller in the agent; it is public.          *)
(***************************************************************************)
EXTENDS Naturals, FiniteSets, FiniteSetsExt

CONSTANTS
  Packet,            \* packets the agent can hand over
  Dst,               \* Dst[p]: the destination in p's IP header
  Null,              \* the null pointer
  AODV_RTQ_MAX_LEN,  \* limit_
  AODV_RTQ_TIMEOUT,  \* timeout_
  MaxTime            \* bound: the clock stops here

ASSUME RQueueAssumption ==
  /\ IsFiniteSet(Packet) /\ Null \notin Packet /\ DOMAIN Dst = Packet
  /\ AODV_RTQ_MAX_LEN \in Nat \ {0}
  /\ AODV_RTQ_TIMEOUT \in Nat /\ MaxTime \in Nat

VARIABLES
  now,   \* CURRENT_TIME, which only grows between calls
  list,  \* head_, tail_, len_, and next_ of every packet
  ts,    \* ts_ of every packet: until when it may wait
  got    \* the packet the last call returned, or threw out for want of room

vars == <<now, list, ts, got>>

List == [head : Packet \cup {Null}, tail : Packet \cup {Null},
         len : 0 .. AODV_RTQ_MAX_LEN, next : [Packet -> Packet \cup {Null}]]

-----------------------------------------------------------------------------
(* node[i]: the i-th packet met from head_ on, Null after the last. *)
Node(l) ==
  LET node[i \in 1 .. Cardinality(Packet) + 1] ==
        LET p == node[i - 1] IN
        IF i = 1 THEN l.head ELSE IF p = Null THEN Null ELSE l.next[p]
  IN node

\* findPacketWithDst and findAgedPacket: where the first of the packets in P
\* is, 0 if there is none.
Position(l, P) ==
  LET is == {i \in DOMAIN Node(l) : Node(l)[i] \in P}
  IN IF is = {} THEN 0 ELSE Min(is)

\* Mutant: the counter is not the list's.
RemoveHeadUncounted(l) ==
  [l EXCEPT !.head = IF @ = l.tail THEN Null ELSE l.next[@],
            !.tail = IF l.head = @ THEN Null ELSE @]

RemoveHead(l) ==
  LET p == l.head IN
  [l EXCEPT !.head = IF p = l.tail THEN Null ELSE l.next[p],
            !.tail = IF p = l.tail THEN Null ELSE @,
            !.len  = IF p = Null THEN @ ELSE @ - 1]

(* Mutants: the tail pointer forgotten, the head taken instead. *)
UnlinkKeepsTail(l, i) ==
  LET p == Node(l)[i] IN
  IF p = l.head THEN RemoveHead(l)
  ELSE [l EXCEPT !.next[Node(l)[i - 1]] = l.next[p], !.len = @ - 1]
UnlinkFromHead(l, i) == RemoveHead(l)

\* How deque(dst) and purge take the i-th packet out.
Unlink(l, i) ==
  LET p == Node(l)[i]
      prev == Node(l)[i - 1]
  IN IF p = l.head THEN RemoveHead(l)
     ELSE IF p = l.tail THEN [l EXCEPT !.next[prev] = Null, !.tail = prev, !.len = @ - 1]
     ELSE [l EXCEPT !.next[prev] = l.next[p], !.len = @ - 1]

\* Mutants: find() for the buffer, deque(dst) for the agent, do not purge; a
\* packet keeps the time of its first wait.
PurgedNone == list
RestampedOnce(t, p) == IF t[p] = 0 THEN [t EXCEPT ![p] = now + AODV_RTQ_TIMEOUT] ELSE t

\* The first packet past its time goes, wherever it is, until there is none.
Aged == {p \in Packet : ts[p] < now}
Purged ==
  LET purged[k \in 0 .. Cardinality(Packet)] ==
        IF k = 0 THEN list
        ELSE LET l == purged[k - 1]
                 i == Position(l, Aged)
             IN IF i = 0 THEN l ELSE Unlink(l, i)
  IN purged[Cardinality(Packet)]

Linked(l, p) ==
  LET m == [l EXCEPT !.next[p] = Null]
      n == IF m.len = AODV_RTQ_MAX_LEN THEN RemoveHead(m) ELSE m
  IN IF n.head = Null THEN [n EXCEPT !.head = p, !.tail = p, !.len = @ + 1]
     ELSE [n EXCEPT !.next[n.tail] = p, !.tail = p, !.len = @ + 1]

Restamped(t, p) == [t EXCEPT ![p] = now + AODV_RTQ_TIMEOUT]

Held == {p \in Packet : Position(list, {p}) # 0}

-----------------------------------------------------------------------------
Init ==
  /\ now = 0
  /\ list = [head |-> Null, tail |-> Null, len |-> 0, next |-> [p \in Packet |-> Null]]
  /\ ts = [p \in Packet |-> 0]
  /\ got = Null

(* enque: what the agent hands over is not in the buffer already. *)
Enque(p) ==
  /\ p \notin Held
  /\ LET l == Purged IN
       /\ list' = Linked(l, p)
       /\ got' = IF l.len = AODV_RTQ_MAX_LEN THEN l.head ELSE Null
  /\ ts' = Restamped(ts, p)
  /\ UNCHANGED now

(* deque(void) *)
Deque ==
  /\ LET l == Purged IN list' = RemoveHead(l) /\ got' = l.head
  /\ UNCHANGED <<now, ts>>

(* deque(dst) *)
DequeFor(d) ==
  LET l == Purged
      i == Position(l, {p \in Packet : Dst[p] = d}) IN
  /\ list' = IF i = 0 THEN l ELSE Unlink(l, i)
  /\ got' = IF i = 0 THEN Null ELSE Node(l)[i]
  /\ UNCHANGED <<now, ts>>

Tick == now < MaxTime /\ now' = now + 1 /\ UNCHANGED <<list, ts, got>>

Next ==
  \/ \E p \in Packet : Enque(p)
  \/ Deque
  \/ \E p \in Packet : DequeFor(Dst[p])
  \/ Tick

Spec == Init /\ [][Next]_vars

-----------------------------------------------------------------------------
TypeOK ==
  /\ now \in 0 .. MaxTime
  /\ list \in List
  /\ ts \in [Packet -> Nat]
  /\ got \in Packet \cup {Null}

(* verifyQueue(): from head_ on there are len_ packets and the last is      *)
(* tail_.  In particular the list has no cycle.                             *)
VerifyQueue ==
  /\ Cardinality(Held) = list.len
  /\ Node(list)[list.len + 1] = Null
  /\ list.tail = IF list.len = 0 THEN Null ELSE Node(list)[list.len]

(* The packets wait in the order in which their time runs out: purge could  *)
(* stop at the first that may stay, as the version commented out did.       *)
OldestFirst ==
  \A i, j \in 1 .. list.len : i < j => ts[Node(list)[i]] <= ts[Node(list)[j]]

(* A packet that is handed out has not waited beyond its time, and is no    *)
(* longer in the buffer.                                                    *)
HandsOutFresh ==
  [][got' # Null /\ got' # got => got' \notin Held' /\ ts[got'] >= now]_vars

(* The linked list implements the bounded, timed FIFO. *)
Buffer == INSTANCE PacketBuffer WITH
            buffer <- [i \in 1 .. list.len |-> Node(list)[i]]
IsPacketBuffer == Buffer!Spec
=============================================================================
