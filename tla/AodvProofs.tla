----------------------------- MODULE AodvProofs -----------------------------
(***************************************************************************)
(* Type correctness and the consistency of route entries, for every value  *)
(* of the constants, with or without local repair.                         *)
(*                                                                         *)
(* TypeOK is not inductive alone: rt_seqno++ stays within Seqno only       *)
(* because the number it counts up is even, which EntryConsistent says of  *)
(* usable entries and which holds because requests and answers carry even  *)
(* numbers.  TypeInv collects the three facts as sets of good entries and  *)
(* good packets, so that each handler is shown to build only such; MacInv  *)
(* has the types of what the MACs hold, which no handler touches.          *)
(***************************************************************************)
EXTENDS Aodv, FiniteSetTheorems, TLAPS

GoodEntry ==
  {e \in Entry : /\ e.flags = "DOWN" <=> e.hops = INFINITY2
                 /\ e.hops # INFINITY2 => Usable(e.seqno)}

GoodRREQ == {p \in RREQs : p.hc + p.ttl <= NETWORK_DIAMETER + 1 /\ Usable(p.srcseq)}
GoodRREP == {p \in RREPs : Usable(p.seq)}
GoodPacket == GoodRREQ \cup GoodRREP \cup RERRs \cup DATAs

OwnSeqno == {s \in Seqno : Usable(s)}

TypeInv ==
  /\ seqno \in [Node -> OwnSeqno]
  /\ bid \in [Node -> Nat \ {0}]
  /\ rt \in [Node -> [Node -> GoodEntry]]
  /\ bcache \in [Node -> SUBSET (Node \X (Nat \ {0}))]
  /\ queue \in [Node -> SUBSET Data]
  /\ repairs \in [Node -> [Node -> Nat]]
  /\ net \subseteq GoodPacket
  /\ nsent \in 0 .. MaxData
  /\ failed \subseteq Assertions

MacInv ==
  /\ unacked \subseteq DATAs
  /\ lostacks \in [1 .. MaxData -> Copy]

TypeIInv == TypeInv /\ MacInv

-----------------------------------------------------------------------------
(* Route entries: what each operation of aodv_rt_entry keeps. *)

LEMMA FreshEntryGood == FreshEntry \in GoodEntry
  BY TableAssumption DEF FreshEntry, GoodEntry, Entry, Seqno, Hops, Flag, Usable

LEMMA UpdateGood ==
  ASSUME NEW e \in GoodEntry, NEW s \in Seqno, Usable(s),
         NEW h \in Hops \ {INFINITY2}, NEW v \in Node
  PROVE  rt_update(e, s, h, v) \in GoodEntry
  BY DEF rt_update, GoodEntry, Entry, Flag

LEMMA DownSameGood ==
  ASSUME NEW e \in Entry, e.flags = "DOWN" <=> e.hops = INFINITY2
  PROVE  rt_down(e) \in GoodEntry
  <1>1. CASE e.flags = "DOWN"
    BY <1>1 DEF rt_down, GoodEntry
  <1>2. CASE e.flags # "DOWN"
    <2> DEFINE f == [e EXCEPT !.hops = INFINITY2, !.flags = "DOWN", !.nexthop = Addr0]
    <2>1. rt_down(e) = f
      BY <1>2 DEF rt_down
    <2>2. f \in Entry /\ f.flags = "DOWN" /\ f.hops = INFINITY2
      <3>1. INFINITY2 \in Hops /\ Addr0 \in Node /\ "DOWN" \in Flag
        BY TableAssumption DEF Hops, Flag
      <3> QED BY <3>1 DEF Entry
    <2> QED BY <2>1, <2>2 DEF GoodEntry
  <1> QED BY <1>1, <1>2

LEMMA DownGood ==
  ASSUME NEW e \in GoodEntry, NEW s \in Seqno
  PROVE  rt_down([e EXCEPT !.seqno = s]) \in GoodEntry
  <1>1. /\ [e EXCEPT !.seqno = s] \in Entry
        /\ [e EXCEPT !.seqno = s].flags = e.flags
        /\ [e EXCEPT !.seqno = s].hops = e.hops
    BY DEF GoodEntry, Entry
  <1> QED BY <1>1, DownSameGood DEF GoodEntry

LEMMA InvalidatedGood ==
  ASSUME NEW e \in GoodEntry, e.hops # INFINITY2
  PROVE  Invalidated(e) \in GoodEntry /\ e.seqno + 1 \in Seqno
  <1>1. e.seqno + 1 \in Seqno
    BY TableAssumption DEF GoodEntry, Entry, Seqno, Usable
  <1>2. Invalidated(e) = rt_down([e EXCEPT !.seqno = e.seqno + 1])
    BY DEF Invalidated
  <1> QED BY <1>1, <1>2, DownGood

LEMMA PrecursorsGood ==
  ASSUME NEW e \in GoodEntry, NEW id \in Node
  PROVE  /\ pc_insert(e, id) \in GoodEntry
         /\ pc_delete(e, id) \in GoodEntry
         /\ pc_clear(e) \in GoodEntry
         /\ [e EXCEPT !.req = TRUE] \in GoodEntry
  BY DEF pc_insert, pc_delete, pc_clear, GoodEntry, Entry

LEMMA RepairGood ==
  ASSUME NEW e \in GoodEntry, e.hops # INFINITY2
  PROVE  [e EXCEPT !.flags = "IN_REPAIR"] \in GoodEntry
  BY DEF GoodEntry, Entry, Flag

LEMMA EntryFields ==
  ASSUME NEW e \in GoodEntry
  PROVE  /\ e.seqno \in Seqno /\ e.hops \in Hops /\ e.nexthop \in Node
         /\ e.flags \in Flag /\ e.pc \subseteq Node /\ e.req \in BOOLEAN
         /\ e.hops # INFINITY2 => Usable(e.seqno)
         /\ e.flags = "UP" => e.hops # INFINITY2
  BY DEF GoodEntry, Entry

-----------------------------------------------------------------------------
(* Packets: what the transmission routines put in the network. *)

LEMMA PacketKinds ==
  ASSUME NEW p \in GoodPacket
  PROVE  /\ p.from \in Node /\ p.to \in Node
         /\ p.type = "RREQ" => p \in GoodRREQ
         /\ p.type = "RREP" => p \in GoodRREP
         /\ p.type = "RERR" => p \in RERRs
         /\ p.type = "DATA" => p \in DATAs
  BY DEF GoodPacket, GoodRREQ, GoodRREP, RREQs, RREPs, RERRs, DATAs

LEMMA HeardNodes == \A n : Heard(n) \subseteq Node
  BY DEF Heard

LEMMA ForwardedGood ==
  ASSUME NEW n \in Node, NEW via \in Node, NEW Q, Q \subseteq Data
  PROVE  Forwarded(n, via, Q) \subseteq GoodPacket
  BY DEF Forwarded, Data, DATAs, GoodPacket

LEMMA OwnSeqnoEven ==
  ASSUME NEW s \in OwnSeqno, NEW k \in Nat, s + 2 * k <= MaxSeqno
  PROVE  s + 2 * k \in OwnSeqno
  BY TableAssumption DEF OwnSeqno, Usable, Seqno

LEMMA RouteRequestGood ==
  ASSUME TypeInv, NEW n \in Node, NEW d \in Node, NEW k \in Nat \ {0},
         seqno[n] + 2 * k <= MaxSeqno, NEW ttl \in RingTTL
  PROVE  RouteRequest(n, d, k, ttl) \subseteq GoodPacket
  <1> SUFFICES ASSUME NEW m \in Heard(n)
               PROVE  [type |-> "RREQ", from |-> n, to |-> m, src |-> n,
                       bid |-> bid[n] + k - 1, srcseq |-> seqno[n] + 2 * k, dst |-> d,
                       dstseq |-> rt[n][d].seqno, hc |-> 1, ttl |-> ttl] \in GoodRREQ
    BY DEF RouteRequest, GoodPacket
  <1>1. seqno[n] + 2 * k \in Seqno /\ Usable(seqno[n] + 2 * k)
    BY OwnSeqnoEven DEF TypeInv, OwnSeqno
  <1>2. bid[n] + k - 1 \in Nat \ {0}
    BY DEF TypeInv
  <1>3. rt[n][d].seqno \in Seqno
    BY EntryFields DEF TypeInv
  <1>4. ttl \in TTL /\ 1 \in TTL /\ 1 + ttl <= NETWORK_DIAMETER + 1
    BY ParameterAssumption DEF TTL
  <1> QED BY <1>1, <1>2, <1>3, <1>4, HeardNodes DEF GoodRREQ, RREQs

LEMMA RouteReplyGood ==
  ASSUME NEW n \in Node, NEW via \in Node, NEW r \in Node, NEW d \in Node,
         NEW s \in Seqno, Usable(s), NEW h \in Hops \ {INFINITY2}
  PROVE  RouteReply(n, via, r, d, s, h) \in GoodPacket
  <1>1. NETWORK_DIAMETER \in TTL
    BY ParameterAssumption DEF TTL
  <1> QED BY <1>1 DEF RouteReply, GoodPacket, GoodRREP, RREPs

LEMMA RouteErrorGood ==
  ASSUME NEW n \in Node, NEW lost \in Unreachable
  PROVE  RouteError(n, lost) \subseteq GoodPacket
  BY HeardNodes DEF RouteError, GoodPacket, RERRs

-----------------------------------------------------------------------------
(* The handlers, one lemma each. *)

LEMMA EnqueAndRequestType ==
  ASSUME TypeInv, NEW n \in Node, NEW q \in Data, NEW e \in GoodEntry,
         NEW sent, sent \subseteq GoodPacket, EnqueAndRequest(n, q, e, sent)
  PROVE  /\ seqno' \in [Node -> OwnSeqno]
         /\ bid' \in [Node -> Nat \ {0}]
         /\ rt' \in [Node -> [Node -> GoodEntry]]
         /\ queue' \in [Node -> SUBSET Data]
         /\ net' \subseteq GoodPacket
  <1> PICK old \in SUBSET queue[n] :
        LET kept == (queue[n] \ old) \cup {q} IN
        \/ /\ seqno[n] + 2 <= MaxSeqno
           /\ \E ttl \in RingTTL : net' = sent \cup RouteRequest(n, q.dst, 1, ttl)
           /\ seqno' = [seqno EXCEPT ![n] = @ + 2]
           /\ bid' = [bid EXCEPT ![n] = @ + 1]
           /\ rt' = [rt EXCEPT ![n][q.dst] = [e EXCEPT !.req = TRUE]]
           /\ queue' = [queue EXCEPT ![n] = kept]
        \/ /\ e.req
           /\ queue' = [queue EXCEPT ![n] = kept]
           /\ rt' = [rt EXCEPT ![n][q.dst] = e]
           /\ net' = sent
           /\ UNCHANGED <<seqno, bid>>
        \/ /\ e.req
           /\ queue' = [queue EXCEPT ![n] = {x \in kept : x.dst # q.dst}]
           /\ rt' = [rt EXCEPT ![n][q.dst] = e]
           /\ net' = sent
           /\ UNCHANGED <<seqno, bid>>
    BY DEF EnqueAndRequest
  <1> DEFINE kept == (queue[n] \ old) \cup {q}
  <1>1. kept \subseteq Data /\ q.dst \in Node
    BY DEF TypeInv, Data
  <1>2. [e EXCEPT !.req = TRUE] \in GoodEntry
    BY TableAssumption, PrecursorsGood
  <1>3. queue' \in [Node -> SUBSET Data]
    <2> DEFINE left == {x \in kept : x.dst # q.dst}
    <2>1. left \in SUBSET Data /\ kept \in SUBSET Data
      BY <1>1
    <2>2. queue' = [queue EXCEPT ![n] = kept] \/ queue' = [queue EXCEPT ![n] = left]
      OBVIOUS
    <2> HIDE DEF left, kept
    <2> QED BY <2>1, <2>2 DEF TypeInv
  <1>4. rt' \in [Node -> [Node -> GoodEntry]]
    <2> SUFFICES ASSUME NEW f \in GoodEntry, rt' = [rt EXCEPT ![n][q.dst] = f]
                 PROVE  rt' \in [Node -> [Node -> GoodEntry]]
      BY <1>2
    <2> QED BY <1>1 DEF TypeInv
  <1>5. seqno' \in [Node -> OwnSeqno] /\ bid' \in [Node -> Nat \ {0}]
    <2>1. CASE UNCHANGED <<seqno, bid>>
      BY <2>1 DEF TypeInv
    <2>2. CASE /\ seqno[n] + 2 <= MaxSeqno
               /\ seqno' = [seqno EXCEPT ![n] = @ + 2]
               /\ bid' = [bid EXCEPT ![n] = @ + 1]
      <3>1. seqno[n] \in OwnSeqno /\ seqno[n] \in Nat
        BY DEF TypeInv, OwnSeqno, Seqno
      <3>2. seqno[n] + 2 \in OwnSeqno
        BY <2>2, <3>1, OwnSeqnoEven, seqno[n] + 2 = seqno[n] + 2 * 1
      <3> QED BY <2>2, <3>2 DEF TypeInv
    <2> QED BY <2>1, <2>2
  <1>6. net' \subseteq GoodPacket
    <2>1. CASE net' = sent
      BY <2>1
    <2>2. CASE /\ seqno[n] + 2 <= MaxSeqno
               /\ \E ttl \in RingTTL : net' = sent \cup RouteRequest(n, q.dst, 1, ttl)
      <3>1. PICK ttl \in RingTTL : net' = sent \cup RouteRequest(n, q.dst, 1, ttl)
        BY <2>2
      <3>2. RouteRequest(n, q.dst, 1, ttl) \subseteq GoodPacket
        BY <1>1, <2>2, RouteRequestGood
      <3> QED BY <3>1, <3>2
    <2> QED BY <2>1, <2>2
  <1> QED BY <1>3, <1>4, <1>5, <1>6

LEMMA OriginateType ==
  ASSUME TypeInv, NEW n \in Node, NEW d \in Node, Originate(n, d)
  PROVE  TypeInv'
  <1> DEFINE q == [src |-> n, dst |-> d, id |-> nsent + 1, copy |-> 0, fwd |-> 0]
  <1>1. q \in Data /\ nsent' \in 0 .. MaxData
    <2>1. nsent < MaxData /\ nsent' = nsent + 1 /\ nsent \in 0 .. MaxData
      BY DEF Originate, TypeInv
    <2>2. nsent + 1 \in 1 .. MaxData /\ 0 \in 0 .. NETWORK_DIAMETER /\ 0 \in Copy
      BY <2>1, ParameterAssumption DEF Copy
    <2> QED BY <2>1, <2>2, ParameterAssumption DEF Data
  <1>2. failed' \subseteq Assertions
    BY DEF Originate, TypeInv, Check, Assertions, rt_resolveAsserts
  <1>3. CASE /\ net' = net \cup Forwarded(n, rt[n][d].nexthop, {q})
             /\ UNCHANGED <<seqno, bid, rt, queue>>
    <2>1. rt[n][d].nexthop \in Node
      BY EntryFields DEF TypeInv
    <2>2. net' \subseteq GoodPacket
      BY <1>1, <1>3, <2>1, ForwardedGood DEF TypeInv
    <2> QED BY <1>1, <1>2, <1>3, <2>2 DEF TypeInv, Originate
  <1>4. CASE EnqueAndRequest(n, q, rt[n][d], net)
    <2>1. rt[n][d] \in GoodEntry /\ net \subseteq GoodPacket
      BY DEF TypeInv
    <2> HIDE DEF q
    <2> QED BY <1>1, <1>2, <1>4, <2>1, EnqueAndRequestType DEF TypeInv, Originate
  <1> QED BY <1>3, <1>4 DEF Originate

LEMMA DataEndsType ==
  ASSUME TypeInv, NEW p \in net, DataEnds(p)
  PROVE  TypeInv'
  BY DEF TypeInv, DataEnds

LEMMA DataRelayedType ==
  ASSUME TypeInv, NEW p \in net, p.type = "DATA", DataRelayed(p)
  PROVE  TypeInv'
  <1> DEFINE n == p.to
             e == rt[n][p.dst]
             q == [src |-> p.src, dst |-> p.dst, id |-> p.id, copy |-> p.copy, fwd |-> p.fwd + 1]
  <1>1. p \in DATAs /\ n \in Node /\ p.dst \in Node
    BY PacketKinds DEF TypeInv, DATAs
  <1>2. q \in Data
    <2>1. p.fwd + 1 < NETWORK_DIAMETER /\ p.fwd \in 0 .. NETWORK_DIAMETER
      BY <1>1 DEF DataRelayed, DATAs
    <2>2. p.fwd + 1 \in 0 .. NETWORK_DIAMETER
      BY <2>1, ParameterAssumption
    <2> QED BY <1>1, <2>2 DEF Data, DATAs
  <1>3. e \in GoodEntry /\ e.nexthop \in Node /\ e.seqno \in Seqno
    BY <1>1, EntryFields DEF TypeInv
  <1>4. failed' \subseteq Assertions
    BY DEF DataRelayed, TypeInv, Check, Assertions, rt_resolveAsserts
  <1>5. net' \subseteq GoodPacket
    <2>1. Forwarded(n, e.nexthop, {q}) \subseteq GoodPacket
      BY <1>1, <1>2, <1>3, ForwardedGood
    <2>2. [d \in {p.dst} |-> e.seqno] \in Unreachable
      <3>1. [d \in {p.dst} |-> e.seqno] \in [{p.dst} -> Seqno]
        BY <1>3
      <3> QED BY <1>1, <3>1 DEF Unreachable
    <2>3. RouteError(n, [d \in {p.dst} |-> e.seqno]) \subseteq GoodPacket
      BY <1>1, <2>2, RouteErrorGood
    <2> QED BY <2>1, <2>3 DEF DataRelayed, TypeInv
  <1>6. queue' \in [Node -> SUBSET Data]
    <2>1. CASE UNCHANGED queue
      BY <2>1 DEF TypeInv
    <2>2. CASE \E old \in SUBSET queue[n] :
                 queue' = [queue EXCEPT ![n] = (@ \ old) \cup {q}]
      BY <1>1, <1>2, <2>2 DEF TypeInv
    <2> QED BY <2>1, <2>2 DEF DataRelayed
  <1> QED BY <1>4, <1>5, <1>6 DEF DataRelayed, TypeInv

LEMMA RequestDiscardedType ==
  ASSUME TypeInv, NEW p \in net, RequestDiscarded(p)
  PROVE  TypeInv'
  BY DEF TypeInv, RequestDiscarded

(* What recvRequest makes of the entry for the requester. *)
LEMMA ReverseRouteGood ==
  ASSUME TypeInv, NEW p \in GoodRREQ
  PROVE  ReverseRoute(p.to, p) \in GoodEntry
  <1>1. /\ p.to \in Node /\ p.from \in Node /\ p.src \in Node
        /\ p.srcseq \in Seqno /\ Usable(p.srcseq)
    BY DEF GoodRREQ, RREQs
  <1>2. p.hc \in Hops \ {INFINITY2}
    BY ParameterAssumption, TableAssumption DEF GoodRREQ, RREQs, TTL, Hops
  <1>3. rt[p.to][p.src] \in GoodEntry
    BY <1>1 DEF TypeInv
  <1> QED BY <1>1, <1>2, <1>3, UpdateGood DEF ReverseRoute

LEMMA AnswerOwnType ==
  ASSUME TypeInv, NEW p \in GoodRREQ, NEW rt0 \in GoodEntry,
         NEW sent, sent \subseteq GoodPacket, AnswerOwn(p.to, p, rt0, sent)
  PROVE  /\ seqno' \in [Node -> OwnSeqno]
         /\ rt' \in [Node -> [Node -> GoodEntry]]
         /\ net' \subseteq GoodPacket
  <1> DEFINE n == p.to
             own == NextEven(Greater(seqno[n], p.dstseq) + 1)
  <1>1. n \in Node /\ p.src \in Node /\ p.dstseq \in Seqno
    BY DEF GoodRREQ, RREQs
  <1>2. seqno[n] \in Seqno /\ Usable(seqno[n])
    BY <1>1 DEF TypeInv, OwnSeqno
  <1>3. own \in OwnSeqno
    <2>1. own <= MaxSeqno
      BY DEF AnswerOwn
    <2>2. PICK g \in Nat : g = Greater(seqno[n], p.dstseq) /\ g >= 2
      BY <1>1, <1>2 DEF Greater, Seqno, Usable
    <2>3. own = IF (g + 1) % 2 = 0 THEN g + 1 ELSE g + 2
      BY <2>2 DEF NextEven
    <2> HIDE DEF own
    <2> QED BY <2>1, <2>2, <2>3, TableAssumption DEF OwnSeqno, Usable, Seqno
  <1>4. RouteReply(n, rt0.nexthop, p.src, n, own, 1) \in GoodPacket
    <2>1. 1 \in Hops \ {INFINITY2}
      BY ParameterAssumption, TableAssumption DEF Hops
    <2>2. own \in Seqno /\ Usable(own)
      BY <1>3 DEF OwnSeqno
    <2> HIDE DEF own
    <2> QED BY <1>1, <2>1, <2>2, EntryFields, RouteReplyGood
  <1> HIDE DEF own
  <1>5. /\ seqno' = [seqno EXCEPT ![n] = own]
        /\ rt' = [rt EXCEPT ![n][p.src] = rt0]
        /\ net' = sent \cup {RouteReply(n, rt0.nexthop, p.src, n, own, 1)}
    BY DEF AnswerOwn, own
  <1> QED BY <1>1, <1>3, <1>4, <1>5 DEF TypeInv

LEMMA AnswerKnownType ==
  ASSUME TypeInv, NEW p \in GoodRREQ, NEW rt0 \in GoodEntry,
         NEW sent, sent \subseteq GoodPacket, AnswerKnown(p.to, p, rt0, sent)
  PROVE  /\ seqno' \in [Node -> OwnSeqno]
         /\ rt' \in [Node -> [Node -> GoodEntry]]
         /\ net' \subseteq GoodPacket
  <1> DEFINE n == p.to
             e == rt[n][p.dst]
  <1>1. n \in Node /\ p.src \in Node /\ p.dst \in Node
    BY DEF GoodRREQ, RREQs
  <1>2. e \in GoodEntry
    BY <1>1 DEF TypeInv
  <1>3. e.nexthop \in Node /\ rt0.nexthop \in Node /\ e.seqno \in Seqno /\ e.hops \in Hops
    BY <1>2, EntryFields
  <1>4. Usable(e.seqno) /\ e.hops + 1 \in Hops \ {INFINITY2}
    <2>1. e.hops # INFINITY2 /\ e.hops + 1 < INFINITY2
      BY DEF AnswerKnown, HasFreshRoute
    <2> QED BY <1>2, <1>3, <2>1, EntryFields, TableAssumption DEF Hops
  <1>5. RouteReply(n, rt0.nexthop, p.src, p.dst, e.seqno, e.hops + 1) \in GoodPacket
    BY <1>1, <1>3, <1>4, RouteReplyGood
  <1>6. pc_insert(e, rt0.nexthop) \in GoodEntry /\ pc_insert(rt0, e.nexthop) \in GoodEntry
    BY <1>2, <1>3, PrecursorsGood
  <1> HIDE DEF e
  <1>7. /\ UNCHANGED seqno
        /\ rt' = [rt EXCEPT ![n][p.dst] = pc_insert(e, rt0.nexthop),
                            ![n][p.src] = pc_insert(rt0, e.nexthop)]
        /\ net' = sent \cup {RouteReply(n, rt0.nexthop, p.src, p.dst, e.seqno, e.hops + 1)}
    BY DEF AnswerKnown, e
  <1> QED BY <1>1, <1>5, <1>6, <1>7 DEF TypeInv

LEMMA RelayRequestType ==
  ASSUME TypeInv, NEW p \in GoodRREQ, NEW rt0 \in GoodEntry,
         NEW sent, sent \subseteq GoodPacket, RelayRequest(p.to, p, rt0, sent)
  PROVE  /\ seqno' \in [Node -> OwnSeqno]
         /\ rt' \in [Node -> [Node -> GoodEntry]]
         /\ net' \subseteq GoodPacket
  <1> DEFINE n == p.to
             copy(m) == [p EXCEPT !.from = n, !.to = m, !.hc = @ + 1, !.ttl = @ - 1,
                                  !.dstseq = Greater(@, rt[n][p.dst].seqno)]
  <1>1. /\ n \in Node /\ p.src \in Node /\ p.dst \in Node /\ p.dstseq \in Seqno
        /\ p.hc \in TTL /\ p.ttl \in TTL /\ p.hc + p.ttl <= NETWORK_DIAMETER + 1
    BY DEF GoodRREQ, RREQs
  <1>2. Greater(p.dstseq, rt[n][p.dst].seqno) \in Seqno
    BY <1>1, EntryFields DEF TypeInv, Greater
  <1>3. ASSUME p.ttl # 1, NEW m \in Heard(n)
        PROVE  copy(m) \in GoodPacket
    <2>1. /\ p.hc + 1 \in TTL /\ p.ttl - 1 \in TTL
          /\ (p.hc + 1) + (p.ttl - 1) <= NETWORK_DIAMETER + 1
      BY <1>1, <1>3, ParameterAssumption DEF TTL
    <2>2. m \in Node
      BY HeardNodes
    <2>3. copy(m) \in RREQs
      BY <1>1, <1>2, <2>1, <2>2 DEF GoodRREQ, RREQs
    <2>4. /\ copy(m).hc = p.hc + 1 /\ copy(m).ttl = p.ttl - 1
          /\ copy(m).srcseq = p.srcseq
      BY DEF GoodRREQ, RREQs
    <2> HIDE DEF copy
    <2> QED BY <2>1, <2>3, <2>4 DEF GoodRREQ, GoodPacket
  <1>4. net' \subseteq GoodPacket
    <2>1. net' \subseteq sent \cup (IF p.ttl = 1 THEN {} ELSE {copy(m) : m \in Heard(n)})
      BY DEF RelayRequest
    <2> HIDE DEF copy
    <2> QED BY <1>3, <2>1
  <1> QED BY <1>1, <1>4 DEF RelayRequest, TypeInv

LEMMA RecvRequestType ==
  ASSUME TypeInv, NEW p \in net, p.type = "RREQ", RecvRequest(p)
  PROVE  TypeInv'
  <1> DEFINE n == p.to
             rt0 == ReverseRoute(n, p)
             learnt == Fresher(rt[n][p.src], p.srcseq, p.hc)
             go(old) == IF learnt THEN Waiting(n, p.src) \ old ELSE {}
             sent(old) == (net \ {p}) \cup Forwarded(n, p.from, go(old))
  <1>1. p \in GoodRREQ /\ n \in Node /\ p.from \in Node
    BY PacketKinds DEF TypeInv
  <1>2. p.src \in Node /\ p.bid \in Nat \ {0}
    BY <1>1 DEF GoodRREQ, RREQs
  <1>3. rt0 \in GoodEntry
    BY <1>1, ReverseRouteGood
  <1>4. PICK old :
          /\ queue' = [queue EXCEPT ![n] = IF learnt THEN Released(n, p.src, old) ELSE @]
          /\ \/ AnswerOwn(n, p, rt0, sent(old))
             \/ AnswerKnown(n, p, rt0, sent(old))
             \/ RelayRequest(n, p, rt0, sent(old))
    BY DEF RecvRequest
  <1>5. sent(old) \subseteq GoodPacket
    <2>1. go(old) \subseteq Data
      BY <1>1 DEF Waiting, TypeInv
    <2>2. Forwarded(n, p.from, go(old)) \subseteq GoodPacket
      BY <1>1, <2>1, ForwardedGood
    <2> QED BY <2>2 DEF TypeInv
  <1>6. queue' \in [Node -> SUBSET Data]
    BY <1>1, <1>4 DEF TypeInv, Released
  <1>7. bcache' \in [Node -> SUBSET (Node \X (Nat \ {0}))]
    <2>1. bcache' = [bcache EXCEPT ![n] = @ \cup {<<p.src, p.bid>>}]
      BY DEF RecvRequest
    <2> QED BY <1>1, <1>2, <2>1 DEF TypeInv
  <1> HIDE DEF rt0, sent
  <1>8. /\ seqno' \in [Node -> OwnSeqno]
        /\ rt' \in [Node -> [Node -> GoodEntry]]
        /\ net' \subseteq GoodPacket
    BY <1>1, <1>3, <1>4, <1>5, AnswerOwnType, AnswerKnownType, RelayRequestType
  <1> QED BY <1>6, <1>7, <1>8 DEF RecvRequest, TypeInv

LEMMA ReplySuppressedType ==
  ASSUME TypeInv, NEW p \in net, ReplySuppressed(p)
  PROVE  TypeInv'
  BY DEF TypeInv, ReplySuppressed

LEMMA RecvReplyType ==
  ASSUME TypeInv, NEW p \in net, p.type = "RREP", RecvReply(p)
  PROVE  TypeInv'
  <1> DEFINE n == p.to
             new == rt_update(rt[n][p.dst], p.seq, p.hc, p.from)
             rt0 == rt[n][p.daddr]
             relay == n # p.daddr /\ rt0.hops # INFINITY2
             onward == [p EXCEPT !.from = n, !.to = rt0.nexthop, !.hc = @ + 1,
                                 !.ttl = @ - 1]
  <1>1. p \in GoodRREP
    BY PacketKinds DEF TypeInv
  <1>2. /\ n \in Node /\ p.from \in Node /\ p.dst \in Node /\ p.daddr \in Node
        /\ p.seq \in Seqno /\ Usable(p.seq) /\ p.hc \in Hops \ {INFINITY2} /\ p.ttl \in TTL
    BY <1>1 DEF GoodRREP, RREPs
  <1>3. rt[n][p.dst] \in GoodEntry /\ rt0 \in GoodEntry /\ rt0.nexthop \in Node
    BY <1>2, EntryFields DEF TypeInv
  <1>4. new \in GoodEntry /\ pc_insert(new, rt0.nexthop) \in GoodEntry
    BY <1>2, <1>3, UpdateGood, PrecursorsGood
  <1>5. ASSUME relay, p.ttl > 1
        PROVE  onward \in GoodPacket
    <2>1. p.hc + 1 \in Hops \ {INFINITY2}
      <3>1. p.hc + 1 < INFINITY2
        BY <1>5 DEF RecvReply
      <3> QED BY <1>2, <3>1, TableAssumption DEF Hops
    <2>2. p.ttl - 1 \in TTL
      BY <1>2, <1>5, ParameterAssumption DEF TTL
    <2>3. onward \in RREPs /\ onward.seq = p.seq
      BY <1>1, <1>2, <1>3, <2>1, <2>2 DEF GoodRREP, RREPs
    <2> HIDE DEF onward
    <2> QED BY <1>2, <2>3 DEF GoodRREP, GoodPacket
  <1> HIDE DEF onward, new
  <1>6. rt' \in [Node -> [Node -> GoodEntry]]
    <2>1. rt' = [rt EXCEPT ![n][p.dst] = IF relay THEN pc_insert(new, rt0.nexthop) ELSE new]
      BY DEF RecvReply, new
    <2>2. (IF relay THEN pc_insert(new, rt0.nexthop) ELSE new) \in GoodEntry
      BY <1>4
    <2> HIDE DEF relay, rt0
    <2> QED BY <1>2, <2>1, <2>2 DEF TypeInv
  <1>7. PICK old \in SUBSET queue[n] :
          /\ queue' = [queue EXCEPT ![n] = Released(n, p.dst, old)]
          /\ net' = (net \ {p}) \cup Forwarded(n, p.from, Waiting(n, p.dst) \ old)
                \cup IF relay /\ p.ttl > 1 THEN {onward} ELSE {}
    BY DEF RecvReply, onward
  <1>8. net' \subseteq GoodPacket
    <2>1. Waiting(n, p.dst) \ old \subseteq Data
      BY <1>2 DEF Waiting, TypeInv
    <2>2. Forwarded(n, p.from, Waiting(n, p.dst) \ old) \subseteq GoodPacket
      BY <1>2, <2>1, ForwardedGood
    <2> QED BY <1>5, <1>7, <2>2 DEF TypeInv
  <1>9. queue' \in [Node -> SUBSET Data]
    BY <1>2, <1>7 DEF TypeInv, Released
  <1>10. failed' \subseteq Assertions
    BY DEF RecvReply, TypeInv, Check, Assertions, recvReplyAsserts
  <1> QED BY <1>6, <1>8, <1>9, <1>10 DEF RecvReply, TypeInv

LEMMA RecvErrorType ==
  ASSUME TypeInv, NEW p \in net, p.type = "RERR", RecvError(p)
  PROVE  TypeInv'
  <1> DEFINE n == p.to
             hit == Hit(n, p)
             told == {d \in hit : rt[n][d].pc # {}}
  <1>1. p \in RERRs /\ n \in Node
    BY PacketKinds DEF TypeInv
  <1>2. hit \subseteq Node /\ \A d \in hit : p.lost[d] \in Seqno
    BY <1>1 DEF Hit, RERRs, Unreachable
  <1>3. rt' \in [Node -> [Node -> GoodEntry]]
    <2> DEFINE f(d) == IF d \in hit
                       THEN pc_clear(rt_down([rt[n][d] EXCEPT !.seqno = p.lost[d]]))
                       ELSE rt[n][d]
    <2>1. \A d \in Node : f(d) \in GoodEntry
      <3> SUFFICES ASSUME NEW d \in Node PROVE f(d) \in GoodEntry
        OBVIOUS
      <3>1. rt[n][d] \in GoodEntry
        BY <1>1 DEF TypeInv
      <3>2. CASE d \in hit
        <4>1. rt_down([rt[n][d] EXCEPT !.seqno = p.lost[d]]) \in GoodEntry
          BY <1>2, <3>1, <3>2, DownGood
        <4> QED BY <3>2, <4>1, PrecursorsGood, TableAssumption
      <3> QED BY <3>1, <3>2
    <2>2. rt' = [rt EXCEPT ![n] = [d \in Node |-> f(d)]]
      BY DEF RecvError
    <2> HIDE DEF f
    <2> QED BY <1>1, <2>1, <2>2 DEF TypeInv
  <1>4. net' \subseteq GoodPacket
    <2>1. [d \in told |-> p.lost[d]] \in [told -> Seqno]
      BY <1>2
    <2>2. [d \in told |-> p.lost[d]] \in Unreachable
      BY <1>2, <2>1 DEF Unreachable
    <2>3. RouteError(n, [d \in told |-> p.lost[d]]) \subseteq GoodPacket
      BY <1>1, <2>2, RouteErrorGood
    <2>4. net' \subseteq net \cup RouteError(n, [d \in told |-> p.lost[d]])
      BY DEF RecvError
    <2> QED BY <2>3, <2>4 DEF TypeInv
  <1>5. failed' \subseteq Assertions
    BY DEF RecvError, TypeInv, Check, Assertions, recvErrorAsserts
  <1> QED BY <1>3, <1>4, <1>5 DEF RecvError, TypeInv

LEMMA StartRepairType ==
  ASSUME TypeInv, NEW p \in DATAs, StartRepair(p)
  PROVE  TypeInv'
  <1> DEFINE n == p.from
             d == p.dst
             q == [src |-> p.src, dst |-> d, id |-> p.id, copy |-> p.copy, fwd |-> p.fwd]
             e == [rt[n][d] EXCEPT !.flags = "IN_REPAIR"]
  <1>1. p \in DATAs /\ n \in Node /\ d \in Node
    BY DEF DATAs
  <1>2. q \in Data
    BY <1>1 DEF Data, DATAs
  <1>3. e \in GoodEntry
    <2>1. rt[n][d] \in GoodEntry /\ rt[n][d].hops \in Hops
      BY <1>1, EntryFields DEF TypeInv
    <2>2. rt[n][d].hops # INFINITY2
      <3>1. p.fwd \in 0 .. NETWORK_DIAMETER /\ p.fwd > rt[n][d].hops
        BY <1>1 DEF DATAs, StartRepair
      <3> QED BY <2>1, <3>1, ParameterAssumption, TableAssumption DEF Hops
    <2> QED BY <2>1, <2>2, RepairGood
  <1>4. EnqueAndRequest(n, q, e, net \ {p})
    BY DEF StartRepair
  <1>5. net \ {p} \subseteq GoodPacket
    BY DEF TypeInv
  <1>6. repairs' \in [Node -> [Node -> Nat]]
    <2>1. repairs' = [repairs EXCEPT ![n][d] = @ + 1]
      BY DEF StartRepair
    <2> QED BY <1>1, <2>1 DEF TypeInv
  <1> HIDE DEF q, e
  <1> QED BY <1>1, <1>2, <1>3, <1>4, <1>5, <1>6, EnqueAndRequestType DEF StartRepair, TypeInv

LEMMA LinkBrokenType ==
  ASSUME TypeInv, NEW p \in DATAs, LinkBroken(p)
  PROVE  TypeInv'
  <1> DEFINE n == p.from
             id == p.to
             gone == ThroughNeighbor(n, id)
  <1>1. n \in Node /\ id \in Node
    BY DEF DATAs
  <1>2. gone \subseteq Node /\ \A d \in gone : rt[n][d].hops # INFINITY2
    BY DEF ThroughNeighbor
  <1>3. \A d \in gone : Invalidated(rt[n][d]) \in GoodEntry /\ rt[n][d].seqno + 1 \in Seqno
    BY <1>1, <1>2, InvalidatedGood DEF TypeInv
  <1>4. rt' \in [Node -> [Node -> GoodEntry]]
    <2> DEFINE f(d) == pc_delete(IF d \in gone THEN Invalidated(rt[n][d]) ELSE rt[n][d], id)
    <2>1. \A d \in Node : f(d) \in GoodEntry
      BY <1>1, <1>3, PrecursorsGood DEF TypeInv
    <2>2. rt' = [rt EXCEPT ![n] = [d \in Node |-> f(d)]]
      BY DEF LinkBroken
    <2> HIDE DEF f
    <2> QED BY <1>1, <2>1, <2>2 DEF TypeInv
  <1>5. net' \subseteq GoodPacket
    <2>1. [d \in gone |-> rt[n][d].seqno + 1] \in [gone -> Seqno]
      BY <1>3
    <2>2. [d \in gone |-> rt[n][d].seqno + 1] \in Unreachable
      BY <1>2, <2>1 DEF Unreachable
    <2>3. RouteError(n, [d \in gone |-> rt[n][d].seqno + 1]) \subseteq GoodPacket
      BY <1>1, <2>2, RouteErrorGood
    <2>4. net' \subseteq net \cup RouteError(n, [d \in gone |-> rt[n][d].seqno + 1])
      BY DEF LinkBroken
    <2> QED BY <2>3, <2>4 DEF TypeInv
  <1>6. seqno' \in [Node -> OwnSeqno]
    <2>1. seqno[n] \in OwnSeqno /\ seqno[n] \in Nat
      BY <1>1 DEF TypeInv, OwnSeqno, Seqno
    <2>2. seqno[n] + 2 <= MaxSeqno /\ seqno' = [seqno EXCEPT ![n] = @ + 2]
      BY DEF LinkBroken
    <2>3. seqno[n] + 2 \in OwnSeqno
      BY <2>1, <2>2, OwnSeqnoEven, seqno[n] + 2 = seqno[n] + 2 * 1
    <2> QED BY <2>2, <2>3 DEF TypeInv
  <1>7. failed' \subseteq Assertions
    BY DEF LinkBroken, TypeInv, Check, Assertions, link_failureAsserts
  <1> QED BY <1>4, <1>5, <1>6, <1>7 DEF LinkBroken, TypeInv

LEMMA RepairTimerType ==
  ASSUME TypeInv, NEW n \in Node, NEW d \in Node, RepairTimer(n, d)
  PROVE  TypeInv'
  <1> DEFINE e == IF rt[n][d].flags = "UP" THEN rt[n][d] ELSE rt_down(rt[n][d])
  <1>1. e \in GoodEntry
    BY DownSameGood DEF TypeInv, GoodEntry
  <1>2. rt' = [rt EXCEPT ![n][d] = e]
    BY DEF RepairTimer
  <1>3. rt' \in [Node -> [Node -> GoodEntry]]
    <2> HIDE DEF e
    <2> QED BY <1>1, <1>2 DEF TypeInv
  <1>4. repairs' \in [Node -> [Node -> Nat]]
    BY DEF RepairTimer, TypeInv
  <1> QED BY <1>3, <1>4 DEF RepairTimer, TypeInv

(* The requests of one rt_purge take consecutive numbers. *)
LEMMA PurgeType ==
  ASSUME TypeInv, NEW n \in Node, Purge(n)
  PROVE  TypeInv'
  <1>1. PICK expired \in SUBSET UpRoutes(n), asked \in SUBSET WantedRoutes(n) :
          \E dropped \in SUBSET (WantedRoutes(n) \ asked),
             order \in Injection(asked, 1 .. Cardinality(asked)), ttl \in [asked -> RingTTL] :
          \E old \in IF UpRoutes(n) \cup dropped = {} THEN {{}} ELSE SUBSET queue[n] :
            PurgeRoutes(n, expired, asked, dropped, order, ttl, old)
    BY DEF Purge
  <1> DEFINE k == Cardinality(asked)
  <1>2. PICK dropped \in SUBSET (WantedRoutes(n) \ asked),
             order \in Injection(asked, 1 .. k), ttl \in [asked -> RingTTL] :
          \E old \in IF UpRoutes(n) \cup dropped = {} THEN {{}} ELSE SUBSET queue[n] :
            PurgeRoutes(n, expired, asked, dropped, order, ttl, old)
    BY <1>1
  <1>3. PICK old \in SUBSET queue[n] :
        PurgeRoutes(n, expired, asked, dropped, order, ttl, old)
    BY <1>2
  <1>4. asked \subseteq Node /\ expired \subseteq Node /\ UpRoutes(n) \subseteq Node
    BY DEF WantedRoutes, UpRoutes
  <1>5. k \in Nat
    BY <1>4, NodeAssumption, FS_Subset, FS_CardinalityType
  <1>6. \A d \in asked : order[d] \in 1 .. k
    BY <1>2 DEF Injection
  <1> HIDE DEF k
  <1>7. seqno[n] \in OwnSeqno /\ seqno[n] \in Nat
    BY DEF TypeInv, OwnSeqno, Seqno
  <1>8. seqno' \in [Node -> OwnSeqno]
    <2>1. seqno[n] + 2 * k \in OwnSeqno
      BY <1>3, <1>5, <1>7, OwnSeqnoEven DEF PurgeRoutes, k
    <2> QED BY <1>3, <2>1 DEF TypeInv, PurgeRoutes, k
  <1>9. bid' \in [Node -> Nat \ {0}]
    <2>1. bid' = [bid EXCEPT ![n] = @ + k]
      BY <1>3 DEF PurgeRoutes, k
    <2> QED BY <1>5, <2>1 DEF TypeInv
  <1>10. rt' \in [Node -> [Node -> GoodEntry]]
    <2> DEFINE f(d) == IF d \in expired THEN Invalidated(rt[n][d])
                       ELSE IF d \in asked THEN [rt[n][d] EXCEPT !.req = TRUE]
                       ELSE rt[n][d]
    <2>1. \A d \in Node : f(d) \in GoodEntry
      <3> SUFFICES ASSUME NEW d \in Node PROVE f(d) \in GoodEntry
        OBVIOUS
      <3>1. rt[n][d] \in GoodEntry
        BY DEF TypeInv
      <3>2. CASE d \in expired
        <4>1. rt[n][d].hops # INFINITY2
          BY <3>1, <3>2, EntryFields DEF UpRoutes
        <4> QED BY <3>1, <3>2, <4>1, InvalidatedGood
      <3>3. CASE d \notin expired
        BY <3>1, <3>3, PrecursorsGood, TableAssumption
      <3> QED BY <3>2, <3>3
    <2>2. rt' = [rt EXCEPT ![n] = [d \in Node |-> f(d)]]
      BY <1>3 DEF PurgeRoutes
    <2> HIDE DEF f
    <2> QED BY <2>1, <2>2 DEF TypeInv
  <1>11. queue' \in [Node -> SUBSET Data]
    BY <1>3 DEF TypeInv, PurgeRoutes
  <1>12. net' \subseteq GoodPacket
    <2>1. \A d \in UpRoutes(n) \ expired :
            Forwarded(n, rt[n][d].nexthop, Waiting(n, d) \ old) \subseteq GoodPacket
      <3> SUFFICES ASSUME NEW d \in UpRoutes(n)
                   PROVE Forwarded(n, rt[n][d].nexthop, Waiting(n, d) \ old) \subseteq GoodPacket
        OBVIOUS
      <3>1. rt[n][d].nexthop \in Node
        BY <1>4, EntryFields DEF TypeInv
      <3>2. Waiting(n, d) \ old \subseteq Data
        BY DEF Waiting, TypeInv
      <3> QED BY <3>1, <3>2, ForwardedGood
    <2>2. \A d \in asked : RouteRequest(n, d, order[d], ttl[d]) \subseteq GoodPacket
      <3> SUFFICES ASSUME NEW d \in asked
                   PROVE RouteRequest(n, d, order[d], ttl[d]) \subseteq GoodPacket
        OBVIOUS
      <3>1. order[d] \in Nat \ {0} /\ seqno[n] + 2 * order[d] <= MaxSeqno
        <4>1. seqno[n] + 2 * k <= MaxSeqno
          BY <1>3 DEF PurgeRoutes, k
        <4>2. order[d] \in 1 .. k
          BY <1>6
        <4> QED BY <1>5, <1>7, <4>1, <4>2, TableAssumption
      <3> QED BY <1>4, <3>1, RouteRequestGood
    <2>3. net' = net \cup PurgeSends(n, UpRoutes(n) \ expired, asked, order, ttl, old)
      BY <1>3 DEF PurgeRoutes
    <2>4. PurgeSends(n, UpRoutes(n) \ expired, asked, order, ttl, old) \subseteq GoodPacket
      <3> SUFFICES ASSUME NEW x \in PurgeSends(n, UpRoutes(n) \ expired, asked, order, ttl, old)
                   PROVE  x \in GoodPacket
        OBVIOUS
      <3>1. \/ \E d \in UpRoutes(n) \ expired :
                 x \in Forwarded(n, rt[n][d].nexthop, Waiting(n, d) \ old)
            \/ \E d \in asked : x \in RouteRequest(n, d, order[d], ttl[d])
        BY DEF PurgeSends
      <3> QED BY <2>1, <2>2, <3>1
    <2> QED BY <2>3, <2>4 DEF TypeInv
  <1>13. failed' \subseteq Assertions
    BY <1>3 DEF PurgeRoutes, TypeInv, Check, Assertions, rt_purgeAsserts
  <1>14. UNCHANGED <<bcache, repairs, nsent>>
    BY <1>3 DEF PurgeRoutes
  <1> QED BY <1>8, <1>9, <1>10, <1>11, <1>12, <1>13, <1>14 DEF TypeInv

LEMMA IdPurgeType ==
  ASSUME TypeInv, NEW n \in Node, IdPurge(n)
  PROVE  TypeInv'
  BY DEF TypeInv, IdPurge

-----------------------------------------------------------------------------
(* What the MACs hold: only a lost acknowledgement adds to it. *)
LEMMA HandedBack ==
  ASSUME TypeIInv, NEW p \in net \cup unacked, p.type = "DATA"
  PROVE  p \in DATAs
  BY PacketKinds DEF TypeIInv, TypeInv, MacInv

LEMMA AckLostType ==
  ASSUME TypeIInv, NEW p \in net, AckLost(p)
  PROVE  MacInv'
  <1> DEFINE k == lostacks[p.id] + 1
  <1>1. p \in DATAs /\ p.id \in 1 .. MaxData
    BY PacketKinds DEF AckLost, TypeIInv, TypeInv, DATAs
  <1>2. k \in Copy
    <2>1. lostacks[p.id] \in 0 .. MaxLostAcks /\ lostacks[p.id] < MaxLostAcks
      BY <1>1 DEF AckLost, TypeIInv, MacInv, Copy
    <2> QED BY <2>1, ParameterAssumption DEF Copy
  <1>3. [p EXCEPT !.copy = k] \in DATAs
    <2> HIDE DEF k
    <2> QED BY <1>1, <1>2 DEF DATAs
  <1>4. lostacks' = [lostacks EXCEPT ![p.id] = k] /\ unacked' = unacked \cup {[p EXCEPT !.copy = k]}
    BY DEF AckLost
  <1> HIDE DEF k
  <1> QED BY <1>1, <1>2, <1>3, <1>4 DEF TypeIInv, MacInv

LEMMA MacStep ==
  ASSUME [Next]_vars
  PROVE  \/ UNCHANGED mac
         \/ \E p \in net : AckLost(p)
         \/ UNCHANGED lostacks /\ \E p : unacked' = unacked \ {p}
  <1>1. ASSUME NEW f \in Flow, Originate(f[1], f[2]) PROVE UNCHANGED mac
    BY <1>1 DEF Originate
  <1>2. ASSUME NEW p \in net, Receive(p) PROVE UNCHANGED mac \/ AckLost(p)
    BY <1>2 DEF Receive
  <1>3. ASSUME NEW p \in net \cup unacked, TransmitFailed(p)
        PROVE UNCHANGED lostacks /\ unacked' = unacked \ {p}
    BY <1>3 DEF TransmitFailed
  <1>4. ASSUME NEW n \in Node, NEW d \in Node, RepairTimer(n, d) PROVE UNCHANGED mac
    BY <1>4 DEF RepairTimer
  <1>5. ASSUME NEW n \in Node, Purge(n) \/ IdPurge(n) PROVE UNCHANGED mac
    <2>1. CASE Purge(n)
      <3>1. PICK expired, asked, dropped, order, ttl, old :
              PurgeRoutes(n, expired, asked, dropped, order, ttl, old)
        BY <2>1 DEF Purge
      <3> QED BY <3>1 DEF PurgeRoutes
    <2>2. CASE IdPurge(n)
      BY <2>2 DEF IdPurge
    <2> QED BY <1>5, <2>1, <2>2
  <1>6. CASE UNCHANGED vars
    BY <1>6 DEF vars
  <1> QED BY <1>1, <1>2, <1>3, <1>4, <1>5, <1>6, ParameterAssumption DEF Next

LEMMA MacType == TypeIInv /\ [Next]_vars => MacInv'
  <1> SUFFICES ASSUME TypeIInv, [Next]_vars PROVE MacInv'
    OBVIOUS
  <1>1. CASE UNCHANGED mac
    BY <1>1 DEF mac, TypeIInv, MacInv
  <1>2. CASE UNCHANGED lostacks /\ \E p : unacked' = unacked \ {p}
    BY <1>2 DEF TypeIInv, MacInv
  <1> QED BY <1>1, <1>2, MacStep, AckLostType

-----------------------------------------------------------------------------
(* The steps of Next, for this invariant and the ones of other modules. *)
LEMMA InitType == Init => TypeIInv
  <1> SUFFICES ASSUME Init PROVE TypeIInv
    OBVIOUS
  <1>1. 2 \in OwnSeqno
    BY TableAssumption DEF OwnSeqno, Usable, Seqno
  <1>2. TypeInv
    BY <1>1, FreshEntryGood, ParameterAssumption DEF Init, TypeInv
  <1>3. MacInv
    BY ParameterAssumption DEF Init, MacInv, Copy
  <1> QED BY <1>2, <1>3 DEF TypeIInv

LEMMA NextType == TypeIInv /\ [Next]_vars => TypeIInv'
  <1> SUFFICES ASSUME TypeIInv, [Next]_vars PROVE TypeInv'
    BY MacType DEF TypeIInv
  <1> USE DEF TypeIInv
  <1>1. ASSUME NEW f \in Flow, Originate(f[1], f[2]) PROVE TypeInv'
    <2>1. f[1] \in Node /\ f[2] \in Node
      BY FlowAssumption
    <2> QED BY <1>1, <2>1, OriginateType
  <1>2. ASSUME NEW p \in net, Receive(p) PROVE TypeInv'
    BY <1>2, DataEndsType, DataRelayedType, RequestDiscardedType, RecvRequestType,
       ReplySuppressedType, RecvReplyType, RecvErrorType DEF Receive
  <1>3. ASSUME NEW p \in net \cup unacked, TransmitFailed(p) PROVE TypeInv'
    BY <1>3, HandedBack, StartRepairType, LinkBrokenType DEF TransmitFailed
  <1>4. ASSUME NEW n \in Node, NEW d \in Node, RepairTimer(n, d) PROVE TypeInv'
    BY <1>4, RepairTimerType
  <1>5. ASSUME NEW n \in Node, Purge(n) \/ IdPurge(n) PROVE TypeInv'
    BY <1>5, PurgeType, IdPurgeType
  <1>6. CASE UNCHANGED vars
    BY <1>6 DEF vars, TypeInv
  <1> QED BY <1>1, <1>2, <1>3, <1>4, <1>5, <1>6, ParameterAssumption DEF Next

LEMMA TypeInvFacts == TypeIInv => TypeOK /\ EntryConsistent
  <1> SUFFICES ASSUME TypeIInv PROVE TypeOK /\ EntryConsistent
    OBVIOUS
  <1> USE DEF TypeIInv
  <1>1. EntryConsistent
    BY DEF TypeInv, EntryConsistent, GoodEntry, Usable
  <1>2. rt \in [Node -> [Node -> Entry]]
    BY DEF TypeInv, GoodEntry
  <1>3. net \subseteq RREQs \cup RREPs \cup RERRs \cup DATAs
    BY DEF TypeInv, GoodPacket, GoodRREQ, GoodRREP
  <1>4. \A p \in net : p.type = "RREQ" => p.hc + p.ttl <= NETWORK_DIAMETER + 1
    BY PacketKinds DEF TypeInv, GoodRREQ
  <1>5. seqno \in [Node -> {s \in Seqno : s % 2 = 0 /\ s >= 2}]
    BY DEF TypeInv, OwnSeqno, Usable
  <1> QED BY <1>1, <1>2, <1>3, <1>4, <1>5 DEF TypeInv, MacInv, TypeOK

(* Type correctness: every handler of aodv.cc keeps every variable in its   *)
(* range; no sequence number leaves its bound and no hop count in a packet  *)
(* exceeds what its TTL allows.                                             *)
THEOREM TypeCorrect == Spec => []TypeOK
  <1>1. Spec => []TypeIInv
    BY InitType, NextType, PTL DEF Spec
  <1> QED BY <1>1, TypeInvFacts, PTL

(* The handlers may test a route by its flags, its hop count or the parity  *)
(* of its number: the three agree, with and without local repair.           *)
THEOREM EntriesConsistent == Spec => []EntryConsistent
  <1>1. Spec => []TypeIInv
    BY InitType, NextType, PTL DEF Spec
  <1> QED BY <1>1, TypeInvFacts, PTL
=============================================================================
