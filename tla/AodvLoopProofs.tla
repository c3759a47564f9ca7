--------------------------- MODULE AodvLoopProofs ---------------------------
(***************************************************************************)
(* Loop freedom of AODV without local repair, for every network and every  *)
(* number of nodes, packets and sequence numbers.                          *)
(*                                                                         *)
(* LoopFree is not inductive: a loop is closed by an answer sent long      *)
(* before.  LoopInv strengthens it with what every packet in flight        *)
(* promises.  A handler changes a route in one of three ways (RouteStep):  *)
(* it leaves it, learns a fresher one whose next hop is Ahead, or loses it *)
(* with a larger number.  Each of them Improves the entry, and so leaves   *)
(* whoever was Ahead ahead; what remains for each handler is which of the  *)
(* three ways it takes and that its packets keep their promises.           *)
(***************************************************************************)
EXTENDS AodvProofs, WellFoundedInduction

SameRoute(e, f) ==
  f.seqno = e.seqno /\ f.hops = e.hops /\ f.flags = e.flags /\ f.nexthop = e.nexthop
Learnt(d, e, f) ==
  /\ f.flags = "UP" /\ Fresher(e, f.seqno, f.hops) /\ Usable(f.seqno)
  /\ Ahead(f.nexthop, d, f.seqno, f.hops)
Lost(e, f) ==
  f.flags = "DOWN" /\ f.seqno > e.seqno /\ Void(f.seqno)

RouteStep(n, d) ==
  \/ SameRoute(rt[n][d], rt'[n][d])
  \/ Learnt(d, rt[n][d], rt'[n][d])
  \/ Lost(rt[n][d], rt'[n][d])

RouteOK(n, d) ==
  \/ /\ rt[n][d].flags = "UP" /\ Usable(rt[n][d].seqno)
     /\ Ahead(rt[n][d].nexthop, d, rt[n][d].seqno, rt[n][d].hops)
  \/ rt[n][d].flags = "DOWN" /\ Void(rt[n][d].seqno)

PacketOK(p) ==
  /\ p.type = "RREQ" => Ahead(p.from, p.src, p.srcseq, p.hc)
  /\ p.type = "RREP" => Ahead(p.from, p.dst, p.seq, p.hc)
  /\ p.type = "RERR" => \A d \in DOMAIN p.lost : Void(p.lost[d])

\* What a step has to show, for the packets it sends, to keep LoopInv.
Keeps ==
  /\ \A n, d \in Node : RouteStep(n, d)
  /\ \A p \in net' \ net : PacketOK(p)'

LEMMA LoopInvParts ==
  LoopInv <=> (\A n, d \in Node : RouteOK(n, d)) /\ (\A p \in net : PacketOK(p))
  BY DEF LoopInv, RouteOK, PacketOK

-----------------------------------------------------------------------------
(* Numbers and entries. *)

LEMMA Numbers ==
  ASSUME NEW e \in GoodEntry
  PROVE  e.seqno \in Nat /\ e.hops \in Nat
  BY TableAssumption, EntryFields DEF Seqno, Hops

LEMMA StepImproves ==
  ASSUME TypeInv, TypeInv', NEW n \in Node, NEW d \in Node, RouteStep(n, d)
  PROVE  Improves(rt[n][d], rt'[n][d])
  <1>1. rt[n][d] \in GoodEntry /\ rt'[n][d] \in GoodEntry
    BY DEF TypeInv
  <1>2. /\ rt[n][d].seqno \in Nat /\ rt'[n][d].seqno \in Nat
        /\ rt[n][d].hops \in Nat /\ rt'[n][d].hops \in Nat
    BY <1>1, Numbers
  <1> QED BY <1>2 DEF RouteStep, SameRoute, Learnt, Lost, Improves, Fresher

(* Whoever is ahead of a route stays ahead of it. *)
LEMMA AheadStays ==
  ASSUME TypeInv, TypeInv', NEW m \in Node, NEW d \in Node, NEW s \in Nat, NEW h \in Nat,
         Improves(rt[m][d], rt'[m][d]), Ahead(m, d, s, h)
  PROVE  Ahead(m, d, s, h)'
  <1>1. rt[m][d] \in GoodEntry /\ rt'[m][d] \in GoodEntry
    BY DEF TypeInv
  <1>2. /\ rt[m][d].seqno \in Nat /\ rt'[m][d].seqno \in Nat
        /\ rt[m][d].hops \in Nat /\ rt'[m][d].hops \in Nat
    BY <1>1, Numbers
  <1> QED BY <1>2 DEF Ahead, Improves

LEMMA PacketNumbers ==
  ASSUME NEW p \in GoodPacket
  PROVE  /\ p.from \in Node
         /\ p.type = "RREQ" => p.src \in Node /\ p.srcseq \in Nat /\ p.hc \in Nat
         /\ p.type = "RREP" => p.dst \in Node /\ p.seq \in Nat /\ p.hc \in Nat
  BY PacketKinds, TableAssumption, ParameterAssumption
     DEF GoodRREQ, GoodRREP, RREQs, RREPs, Seqno, TTL, Hops

(* The three ways of changing a route keep the invariant. *)
LEMMA KeepsLoopInv ==
  ASSUME TypeInv, TypeInv', LoopInv, Keeps
  PROVE  LoopInv' /\ \A n, d \in Node : Improves(rt[n][d], rt'[n][d])
  <1>1. \A n, d \in Node : Improves(rt[n][d], rt'[n][d])
    BY StepImproves DEF Keeps
  <1>2. \A n, d \in Node : RouteOK(n, d)'
    <2> SUFFICES ASSUME NEW n \in Node, NEW d \in Node PROVE RouteOK(n, d)'
      OBVIOUS
    <2>1. rt[n][d] \in GoodEntry /\ rt'[n][d] \in GoodEntry
      BY DEF TypeInv
    <2>2. /\ rt'[n][d].nexthop \in Node
          /\ rt'[n][d].seqno \in Nat /\ rt'[n][d].hops \in Nat
      BY <2>1, EntryFields, Numbers
    <2>3. RouteOK(n, d)
      BY LoopInvParts
    <2>4. CASE Lost(rt[n][d], rt'[n][d])
      BY <2>4 DEF Lost, RouteOK
    <2>5. ASSUME rt'[n][d].flags = "UP", Usable(rt'[n][d].seqno),
                 Ahead(rt'[n][d].nexthop, d, rt'[n][d].seqno, rt'[n][d].hops)
          PROVE  RouteOK(n, d)'
      <3> DEFINE m == rt'[n][d].nexthop
                 s == rt'[n][d].seqno
                 h == rt'[n][d].hops
      <3>1. Ahead(m, d, s, h)
        BY <2>5
      <3>2. m \in Node /\ s \in Nat /\ h \in Nat
        BY <2>2
      <3>3. m = d \/ rt'[m][d].seqno > s \/ (rt'[m][d].seqno = s /\ rt'[m][d].hops < h)
        <4> HIDE DEF m, s, h
        <4>1. Improves(rt[m][d], rt'[m][d])
          BY <1>1, <3>2
        <4>2. rt[m][d] \in GoodEntry /\ rt'[m][d] \in GoodEntry
          BY <3>2 DEF TypeInv
        <4>3. /\ rt[m][d].seqno \in Nat /\ rt'[m][d].seqno \in Nat
              /\ rt[m][d].hops \in Nat /\ rt'[m][d].hops \in Nat
          BY <4>2, Numbers
        <4> QED BY <3>1, <3>2, <4>1, <4>3 DEF Ahead, Improves
      <3> QED BY <2>5, <3>3 DEF RouteOK, Ahead
    <2>6. CASE Learnt(d, rt[n][d], rt'[n][d])
      BY <2>5, <2>6 DEF Learnt
    <2>7. CASE SameRoute(rt[n][d], rt'[n][d])
      <3>1. CASE rt[n][d].flags = "DOWN" /\ Void(rt[n][d].seqno)
        BY <2>7, <3>1 DEF SameRoute, RouteOK
      <3>2. CASE /\ rt[n][d].flags = "UP" /\ Usable(rt[n][d].seqno)
                 /\ Ahead(rt[n][d].nexthop, d, rt[n][d].seqno, rt[n][d].hops)
        BY <2>5, <2>7, <3>2 DEF SameRoute
      <3> QED BY <2>3, <3>1, <3>2 DEF RouteOK
    <2> QED BY <2>4, <2>6, <2>7 DEF Keeps, RouteStep
  <1>3. \A p \in net' : PacketOK(p)'
    <2> SUFFICES ASSUME NEW p \in net', p \in net PROVE PacketOK(p)'
      BY DEF Keeps
    <2>1. p \in GoodPacket /\ PacketOK(p)
      BY LoopInvParts DEF TypeInv
    <2>2. CASE p.type = "RREQ"
      BY <1>1, <2>1, <2>2, PacketNumbers, AheadStays DEF PacketOK
    <2>3. CASE p.type = "RREP"
      BY <1>1, <2>1, <2>3, PacketNumbers, AheadStays DEF PacketOK
    <2> QED BY <2>1, <2>2, <2>3 DEF PacketOK
  <1>4. LoopInv'
    BY <1>2, <1>3 DEF LoopInv, RouteOK, PacketOK
  <1> QED BY <1>1, <1>4

-----------------------------------------------------------------------------
(* Which of the three ways each operation on an entry is. *)

LEMMA OtherFields ==
  ASSUME NEW e \in Entry, NEW id
  PROVE  /\ SameRoute(e, e)
         /\ SameRoute(e, pc_insert(e, id))
         /\ SameRoute(e, pc_delete(e, id))
         /\ SameRoute(e, pc_clear(e))
         /\ SameRoute(e, [e EXCEPT !.req = TRUE])
  BY DEF SameRoute, pc_insert, pc_delete, pc_clear, Entry

LEMMA SameTwice ==
  ASSUME NEW e, NEW f, NEW g, NEW d, SameRoute(f, g)
  PROVE  /\ SameRoute(e, f) => SameRoute(e, g)
         /\ Learnt(d, e, f) => Learnt(d, e, g)
         /\ Lost(e, f) => Lost(e, g)
  BY DEF SameRoute, Learnt, Lost

LEMMA UpdateLearns ==
  ASSUME NEW e \in Entry, NEW s, NEW h, NEW v, NEW d,
         Fresher(e, s, h), Usable(s), Ahead(v, d, s, h)
  PROVE  /\ Learnt(d, e, rt_update(e, s, h, v))
         /\ rt_update(e, s, h, v).seqno = s /\ rt_update(e, s, h, v).hops = h
  BY DEF Learnt, rt_update, Entry

(* A usable number is even and not 0, a void one at least as large is larger. *)
LEMMA DownLoses ==
  ASSUME NEW e \in GoodEntry, e.hops # INFINITY2, NEW s \in Nat, Void(s), s >= e.seqno
  PROVE  Lost(e, rt_down([e EXCEPT !.seqno = s]))
  <1> DEFINE f == [e EXCEPT !.seqno = s]
  <1>1. f.seqno = s /\ f.flags = e.flags
    BY DEF GoodEntry, Entry
  <1>2. e.flags # "DOWN" /\ Usable(e.seqno)
    BY DEF GoodEntry
  <1>3. rt_down(f).flags = "DOWN" /\ rt_down(f).seqno = s
    <2>1. rt_down(f) = [f EXCEPT !.hops = INFINITY2, !.flags = "DOWN", !.nexthop = Addr0]
      BY <1>1, <1>2 DEF rt_down
    <2> QED BY <1>1, <2>1 DEF GoodEntry, Entry
  <1>4. s > e.seqno
    <2>1. e.seqno \in Nat
      BY Numbers
    <2> QED BY <1>2, <2>1 DEF Usable, Void
  <1> QED BY <1>3, <1>4 DEF Lost

LEMMA InvalidatedLoses ==
  ASSUME NEW e \in GoodEntry, e.hops # INFINITY2
  PROVE  Lost(e, Invalidated(e)) /\ Void(e.seqno + 1)
  <1>1. e.seqno \in Nat /\ Usable(e.seqno)
    BY Numbers DEF GoodEntry
  <1>2. e.seqno + 1 \in Nat /\ Void(e.seqno + 1) /\ e.seqno + 1 >= e.seqno
    BY <1>1 DEF Usable, Void
  <1>3. Invalidated(e) = rt_down([e EXCEPT !.seqno = e.seqno + 1])
    BY DEF Invalidated
  <1> QED BY <1>2, <1>3, DownLoses

LEMMA OneTable ==
  ASSUME TypeInv, NEW n \in Node, NEW f \in [Node -> GoodEntry],
         rt' = [rt EXCEPT ![n] = f],
         \A d \in Node : \/ SameRoute(rt[n][d], f[d])
                         \/ Learnt(d, rt[n][d], f[d])
                         \/ Lost(rt[n][d], f[d])
  PROVE  \A m, d \in Node : RouteStep(m, d)
  <1> SUFFICES ASSUME NEW m \in Node, NEW d \in Node PROVE RouteStep(m, d)
    OBVIOUS
  <1>1. rt'[m][d] = IF m = n THEN f[d] ELSE rt[m][d]
    BY DEF TypeInv
  <1> QED BY <1>1 DEF RouteStep, SameRoute

LEMMA OneEntry ==
  ASSUME TypeInv, NEW n \in Node, NEW d \in Node, NEW f \in GoodEntry,
         rt' = [rt EXCEPT ![n][d] = f],
         \/ SameRoute(rt[n][d], f)
         \/ Learnt(d, rt[n][d], f)
         \/ Lost(rt[n][d], f)
  PROVE  \A m, c \in Node : RouteStep(m, c)
  <1> DEFINE g == [rt[n] EXCEPT ![d] = f]
  <1>1. g \in [Node -> GoodEntry] /\ rt' = [rt EXCEPT ![n] = g]
    BY DEF TypeInv
  <1>2. \A c \in Node : g[c] = IF c = d THEN f ELSE rt[n][c]
    BY DEF TypeInv
  <1>3. \A c \in Node : SameRoute(rt[n][c], rt[n][c])
    BY DEF SameRoute
  <1>4. \A c \in Node : \/ SameRoute(rt[n][c], g[c])
                        \/ Learnt(c, rt[n][c], g[c])
                        \/ Lost(rt[n][c], g[c])
    BY <1>2, <1>3
  <1> HIDE DEF g
  <1> QED BY <1>1, <1>4, OneTable

LEMMA SameTables ==
  ASSUME UNCHANGED rt
  PROVE  \A m, d \in Node : RouteStep(m, d)
  BY DEF RouteStep, SameRoute

(* What is sent without conditions: data, one's own requests. *)
LEMMA FreePackets ==
  ASSUME NEW n
  PROVE  /\ \A via, Q : \A p \in Forwarded(n, via, Q) : PacketOK(p)'
         /\ \A d, k, ttl : \A p \in RouteRequest(n, d, k, ttl) : PacketOK(p)'
  <1>1. \A via, Q : \A p \in Forwarded(n, via, Q) : PacketOK(p)'
    BY DEF Forwarded, PacketOK
  <1>2. \A d, k, ttl : \A p \in RouteRequest(n, d, k, ttl) : PacketOK(p)'
    BY DEF RouteRequest, PacketOK, Ahead
  <1> QED BY <1>1, <1>2

LEMMA ErrorOK ==
  ASSUME NEW n, NEW lost, \A d \in DOMAIN lost : Void(lost[d])
  PROVE  \A p \in RouteError(n, lost) : PacketOK(p)'
  BY DEF RouteError, PacketOK

-----------------------------------------------------------------------------
(* The handlers, one lemma each. *)

LEMMA OriginateKeeps ==
  ASSUME TypeInv, NEW n \in Node, NEW d \in Node, Originate(n, d)
  PROVE  Keeps
  <1> DEFINE q == [src |-> n, dst |-> d, id |-> nsent + 1, copy |-> 0, fwd |-> 0]
             e == rt[n][d]
             f == [e EXCEPT !.req = TRUE]
  <1>1. e \in GoodEntry /\ e \in Entry
    BY DEF TypeInv, GoodEntry
  <1>2. f \in GoodEntry /\ SameRoute(e, f) /\ SameRoute(e, e)
    BY <1>1, PrecursorsGood, OtherFields
  <1>3. CASE net' = net \cup Forwarded(n, e.nexthop, {q}) /\ UNCHANGED rt
    BY <1>3, FreePackets, SameTables DEF Keeps
  <1>4. CASE EnqueAndRequest(n, q, e, net)
    <2>1. q.dst = d
      OBVIOUS
    <2>2. rt' = [rt EXCEPT ![n][d] = f] \/ rt' = [rt EXCEPT ![n][d] = e]
      <3> HIDE DEF q
      <3> QED BY <1>4, <2>1 DEF EnqueAndRequest
    <2>3. net' = net \/ \E ttl : net' = net \cup RouteRequest(n, q.dst, 1, ttl)
      <3> HIDE DEF q, e
      <3> QED BY <1>4 DEF EnqueAndRequest
    <2> HIDE DEF f, q
    <2>4. \A m, c \in Node : RouteStep(m, c)
      BY <1>1, <1>2, <2>2, OneEntry
    <2> QED BY <2>3, <2>4, FreePackets DEF Keeps
  <1> QED BY <1>3, <1>4 DEF Originate

LEMMA DataRelayedKeeps ==
  ASSUME TypeInv, LoopInv, NEW p \in net, p.type = "DATA", DataRelayed(p)
  PROVE  Keeps
  <1> DEFINE n == p.to
             e == rt[n][p.dst]
             q == [src |-> p.src, dst |-> p.dst, id |-> p.id, copy |-> p.copy, fwd |-> p.fwd + 1]
             lost == [d \in {p.dst} |-> e.seqno]
  <1>1. n \in Node /\ p.dst \in Node
    BY PacketKinds DEF TypeInv, DATAs
  <1>2. ASSUME e.flags = "DOWN"
        PROVE  \A x \in RouteError(n, lost) : PacketOK(x)'
    <2>1. Void(e.seqno)
      BY <1>1, <1>2, LoopInvParts DEF RouteOK
    <2>2. \A d \in DOMAIN lost : Void(lost[d])
      BY <2>1
    <2> HIDE DEF lost
    <2> QED BY <2>2, ErrorOK
  <1>3. \/ net' \subseteq net \cup Forwarded(n, e.nexthop, {q})
        \/ e.flags = "DOWN" /\ net' \subseteq net \cup RouteError(n, lost)
    BY DEF DataRelayed
  <1>4. \A x \in net' \ net : PacketOK(x)'
    <2> HIDE DEF q, lost, e
    <2> QED BY <1>2, <1>3, FreePackets
  <1> QED BY <1>4, SameTables DEF DataRelayed, Keeps

(* The reverse route is as it was or learnt from the request; either way    *)
(* it is at least as good as what the request offers.                       *)
LEMMA ReverseRouteKeeps ==
  ASSUME TypeInv, LoopInv, NEW p \in net, p.type = "RREQ",
         NEW e, e = rt[p.to][p.src], NEW rt0, rt0 = ReverseRoute(p.to, p)
  PROVE  /\ rt0 \in GoodEntry
         /\ SameRoute(e, rt0) \/ Learnt(p.src, e, rt0)
         /\ \/ rt0.seqno > p.srcseq
            \/ rt0.seqno = p.srcseq /\ rt0.hops < p.hc + 1
  <1>1. p \in GoodRREQ /\ p \in GoodPacket /\ p.to \in Node /\ p.src \in Node
    BY PacketKinds DEF TypeInv, GoodRREQ, RREQs
  <1>2. rt0 \in GoodEntry /\ e \in GoodEntry /\ e \in Entry
    BY <1>1, ReverseRouteGood DEF TypeInv, GoodEntry
  <1>3. /\ p.srcseq \in Nat /\ p.hc \in Nat /\ Usable(p.srcseq)
        /\ e.seqno \in Nat /\ e.hops \in Nat
    BY <1>1, <1>2, PacketNumbers, Numbers DEF GoodRREQ
  <1>4. Ahead(p.from, p.src, p.srcseq, p.hc)
    BY LoopInvParts DEF PacketOK
  <1>5. CASE Fresher(e, p.srcseq, p.hc)
    <2>1. rt0 = rt_update(e, p.srcseq, p.hc, p.from)
      BY <1>5 DEF ReverseRoute
    <2>2. Learnt(p.src, e, rt0) /\ rt0.seqno = p.srcseq /\ rt0.hops = p.hc
      BY <1>2, <1>3, <1>4, <1>5, <2>1, UpdateLearns
    <2> QED BY <1>2, <1>3, <2>2
  <1>6. CASE ~Fresher(e, p.srcseq, p.hc)
    <2>1. rt0 = e
      BY <1>6 DEF ReverseRoute
    <2> QED BY <1>2, <1>3, <1>6, <2>1 DEF Fresher, SameRoute
  <1> QED BY <1>5, <1>6

LEMMA RecvRequestKeeps ==
  ASSUME TypeInv, LoopInv, NEW p \in net, p.type = "RREQ", RecvRequest(p)
  PROVE  Keeps
  <1> DEFINE n == p.to
             e == rt[n][p.src]
             rt0 == ReverseRoute(n, p)
             learnt == Fresher(rt[n][p.src], p.srcseq, p.hc)
             go(old) == IF learnt THEN Waiting(n, p.src) \ old ELSE {}
             sent(old) == (net \ {p}) \cup Forwarded(n, p.from, go(old))
  <1>1. p \in GoodRREQ /\ n \in Node /\ p.src \in Node /\ p.dst \in Node /\ p.hc \in Nat
    BY PacketKinds DEF TypeInv, GoodRREQ, RREQs, TTL
  <1>2. /\ rt0 \in GoodEntry /\ rt0 \in Entry
        /\ SameRoute(e, rt0) \/ Learnt(p.src, e, rt0)
        /\ \/ rt0.seqno > p.srcseq
           \/ rt0.seqno = p.srcseq /\ rt0.hops < p.hc + 1
    BY ReverseRouteKeeps DEF GoodEntry
  <1>3. PICK old : \/ AnswerOwn(n, p, rt0, sent(old))
                   \/ AnswerKnown(n, p, rt0, sent(old))
                   \/ RelayRequest(n, p, rt0, sent(old))
    BY DEF RecvRequest
  <1>4. \A x \in sent(old) \ net : PacketOK(x)'
    BY FreePackets
  <1> HIDE DEF rt0, sent
  <1>5. CASE AnswerOwn(n, p, rt0, sent(old))
    <2>1. PICK own : net' = sent(old) \cup {RouteReply(n, rt0.nexthop, p.src, n, own, 1)}
      BY <1>5 DEF AnswerOwn
    <2>2. rt' = [rt EXCEPT ![n][p.src] = rt0]
      BY <1>5 DEF AnswerOwn
    <2>3. \A x : x = RouteReply(n, rt0.nexthop, p.src, n, own, 1) => PacketOK(x)'
      BY DEF RouteReply, PacketOK, Ahead
    <2>4. \A m, c \in Node : RouteStep(m, c)
      BY <1>1, <1>2, <2>2, OneEntry
    <2> QED BY <1>4, <2>1, <2>3, <2>4 DEF Keeps
  <1>6. CASE AnswerKnown(n, p, rt0, sent(old))
    <2> DEFINE k == rt[n][p.dst]
               f == [[rt[n] EXCEPT ![p.dst] = pc_insert(k, rt0.nexthop)]
                        EXCEPT ![p.src] = pc_insert(rt0, k.nexthop)]
               reply == RouteReply(n, rt0.nexthop, p.src, p.dst, k.seqno, k.hops + 1)
    <2>1. k \in GoodEntry /\ k \in Entry /\ e \in GoodEntry
      BY <1>1 DEF TypeInv, GoodEntry
    <2>2. /\ pc_insert(k, rt0.nexthop) \in GoodEntry
          /\ pc_insert(rt0, k.nexthop) \in GoodEntry
      BY <1>2, <2>1, EntryFields, PrecursorsGood
    <2>3. rt' = [rt EXCEPT ![n] = f]
      BY <1>1, <1>6 DEF AnswerKnown, TypeInv
    <2>4. \A d \in Node : f[d] = IF d = p.src THEN pc_insert(rt0, k.nexthop)
                                 ELSE IF d = p.dst THEN pc_insert(k, rt0.nexthop)
                                 ELSE rt[n][d]
      BY <1>1 DEF TypeInv
    <2>5. f \in [Node -> GoodEntry]
      BY <1>1, <2>2 DEF TypeInv
    <2>6. SameRoute(k, pc_insert(k, rt0.nexthop))
      BY <2>1, OtherFields
    <2>7. \/ SameRoute(e, pc_insert(rt0, k.nexthop))
          \/ Learnt(p.src, e, pc_insert(rt0, k.nexthop))
      <3>1. SameRoute(rt0, pc_insert(rt0, k.nexthop))
        BY <1>2, OtherFields
      <3> QED BY <1>2, <3>1, SameTwice
    <2> HIDE DEF f
    <2>8. \A m, d \in Node : RouteStep(m, d)
      <3>1. \A d \in Node : \/ SameRoute(rt[n][d], f[d])
                            \/ Learnt(d, rt[n][d], f[d])
                            \/ Lost(rt[n][d], f[d])
        BY <2>4, <2>6, <2>7 DEF SameRoute
      <3> QED BY <1>1, <2>3, <2>5, <3>1, OneTable
    <2>9. \A x : x = reply => PacketOK(x)'
      <3> SUFFICES ASSUME NEW x, x = reply PROVE PacketOK(x)'
        OBVIOUS
      <3>1. rt'[n][p.dst] \in GoodEntry /\ Improves(k, rt'[n][p.dst])
        <4>1. TypeInv'
          BY RecvRequestType
        <4> QED BY <1>1, <2>8, <4>1, StepImproves DEF TypeInv
      <3>2. /\ k.seqno \in Nat /\ k.hops \in Nat
            /\ rt'[n][p.dst].seqno \in Nat /\ rt'[n][p.dst].hops \in Nat
        BY <2>1, <3>1, Numbers
      <3>3. \/ rt'[n][p.dst].seqno > k.seqno
            \/ rt'[n][p.dst].seqno = k.seqno /\ rt'[n][p.dst].hops < k.hops + 1
        BY <3>1, <3>2 DEF Improves
      <3>4. /\ x.type = "RREP" /\ x.from = n /\ x.dst = p.dst
            /\ x.seq = k.seqno /\ x.hc = k.hops + 1
        BY DEF RouteReply
      <3> HIDE DEF k, reply
      <3> QED BY <3>3, <3>4 DEF PacketOK, Ahead
    <2>10. net' = sent(old) \cup {reply}
      BY <1>6 DEF AnswerKnown
    <2> HIDE DEF reply
    <2> QED BY <1>4, <2>8, <2>9, <2>10 DEF Keeps
  <1>7. CASE RelayRequest(n, p, rt0, sent(old))
    <2> DEFINE copy(m) == [p EXCEPT !.from = n, !.to = m, !.hc = @ + 1, !.ttl = @ - 1,
                                    !.dstseq = Greater(@, rt[n][p.dst].seqno)]
    <2>1. rt' = [rt EXCEPT ![n][p.src] = rt0]
      BY <1>7 DEF RelayRequest
    <2>2. rt'[n][p.src] = rt0
      BY <1>1, <2>1 DEF TypeInv
    <2>3. \A m, c \in Node : RouteStep(m, c)
      BY <1>1, <1>2, <2>1, OneEntry
    <2>4. \A m, x : x = copy(m) => PacketOK(x)'
      <3> SUFFICES ASSUME NEW m, NEW x, x = copy(m) PROVE PacketOK(x)'
        OBVIOUS
      <3>1. /\ x.type = "RREQ" /\ x.from = n /\ x.src = p.src
            /\ x.srcseq = p.srcseq /\ x.hc = p.hc + 1
        BY <1>1 DEF GoodRREQ, RREQs
      <3> HIDE DEF copy
      <3> QED BY <1>2, <2>2, <3>1 DEF PacketOK, Ahead
    <2>5. \A x \in net' : x \in sent(old) \/ \E m : x = copy(m)
      BY <1>7 DEF RelayRequest
    <2> HIDE DEF copy
    <2> QED BY <1>4, <2>3, <2>4, <2>5 DEF Keeps
  <1> QED BY <1>3, <1>5, <1>6, <1>7

LEMMA RecvReplyKeeps ==
  ASSUME TypeInv, LoopInv, NEW p \in net, p.type = "RREP", RecvReply(p)
  PROVE  Keeps
  <1> DEFINE n == p.to
             e == rt[n][p.dst]
             new == rt_update(e, p.seq, p.hc, p.from)
             rt0 == rt[n][p.daddr]
             relay == n # p.daddr /\ rt0.hops # INFINITY2
             f == IF relay THEN pc_insert(new, rt0.nexthop) ELSE new
             onward == [p EXCEPT !.from = n, !.to = rt0.nexthop, !.hc = @ + 1,
                                 !.ttl = @ - 1]
  <1>1. p \in GoodRREP /\ p \in GoodPacket
    BY PacketKinds DEF TypeInv
  <1>2. /\ n \in Node /\ p.from \in Node /\ p.dst \in Node /\ p.daddr \in Node
        /\ p.seq \in Seqno /\ Usable(p.seq) /\ p.hc \in Hops \ {INFINITY2} /\ p.hc \in Nat
    BY <1>1, PacketNumbers DEF GoodRREP, RREPs
  <1>3. e \in GoodEntry /\ e \in Entry /\ rt0 \in GoodEntry /\ rt0.nexthop \in Node
    BY <1>2, EntryFields DEF TypeInv, GoodEntry
  <1>4. new \in GoodEntry /\ new \in Entry
    BY <1>2, <1>3, UpdateGood DEF GoodEntry
  <1>5. Learnt(p.dst, e, new) /\ new.seqno = p.seq /\ new.hops = p.hc
    <2>1. Fresher(e, p.seq, p.hc)
      BY DEF RecvReply
    <2>2. Ahead(p.from, p.dst, p.seq, p.hc)
      BY LoopInvParts DEF PacketOK
    <2> QED BY <1>2, <1>3, <2>1, <2>2, UpdateLearns
  <1> HIDE DEF new
  <1>6. /\ f \in GoodEntry /\ Learnt(p.dst, e, f)
        /\ f.seqno = p.seq /\ f.hops = p.hc
    <2>1. pc_insert(new, rt0.nexthop) \in GoodEntry
      BY <1>3, <1>4, PrecursorsGood
    <2>2. SameRoute(new, pc_insert(new, rt0.nexthop))
      BY <1>4, OtherFields
    <2>3. Learnt(p.dst, e, pc_insert(new, rt0.nexthop))
      BY <1>5, <2>2, SameTwice
    <2> QED BY <1>4, <1>5, <2>1, <2>2, <2>3 DEF SameRoute
  <1>7. rt' = [rt EXCEPT ![n][p.dst] = f]
    BY DEF RecvReply, new
  <1>8. rt'[n][p.dst] = f
    BY <1>2, <1>7 DEF TypeInv
  <1>9. PICK old : net' = (net \ {p}) \cup Forwarded(n, p.from, Waiting(n, p.dst) \ old)
                          \cup IF relay /\ p.ttl > 1 THEN {onward} ELSE {}
    BY DEF RecvReply
  <1>10. \A x : x = onward => PacketOK(x)'
    <2> SUFFICES ASSUME NEW x, x = onward PROVE PacketOK(x)'
      OBVIOUS
    <2>1. /\ x.type = "RREP" /\ x.from = n /\ x.dst = p.dst
          /\ x.seq = p.seq /\ x.hc = p.hc + 1
      BY <1>1 DEF GoodRREP, RREPs
    <2> HIDE DEF onward, f
    <2> QED BY <1>2, <1>6, <1>8, <2>1 DEF PacketOK, Ahead
  <1> HIDE DEF f, onward
  <1>11. \A m, c \in Node : RouteStep(m, c)
    BY <1>2, <1>6, <1>7, OneEntry
  <1> QED BY <1>9, <1>10, <1>11, FreePackets DEF Keeps

(* An RERR lists void numbers, and takes a route down only with one that is *)
(* not smaller, hence larger, than the usable number of the route.          *)
LEMMA RecvErrorKeeps ==
  ASSUME TypeInv, LoopInv, NEW p \in net, p.type = "RERR", RecvError(p)
  PROVE  Keeps
  <1> DEFINE n == p.to
             hit == Hit(n, p)
             told == {d \in hit : rt[n][d].pc # {}}
             lost == [d \in told |-> p.lost[d]]
             f == [d \in Node |-> IF d \in hit
                     THEN pc_clear(rt_down([rt[n][d] EXCEPT !.seqno = p.lost[d]]))
                     ELSE rt[n][d]]
  <1>1. p \in RERRs /\ n \in Node
    BY PacketKinds DEF TypeInv
  <1>2. \A d \in hit : /\ d \in Node /\ Void(p.lost[d])
                       /\ p.lost[d] \in Seqno /\ p.lost[d] \in Nat
                       /\ rt[n][d].hops # INFINITY2 /\ rt[n][d].seqno <= p.lost[d]
    <2>1. \A d \in DOMAIN p.lost : Void(p.lost[d])
      BY LoopInvParts DEF PacketOK
    <2> QED BY <1>1, <2>1 DEF Hit, RERRs, Unreachable, Seqno
  <1>3. \A d \in Node : /\ f[d] \in GoodEntry
                        /\ SameRoute(rt[n][d], f[d]) \/ Lost(rt[n][d], f[d])
    <2> SUFFICES ASSUME NEW d \in Node
                 PROVE  /\ f[d] \in GoodEntry
                        /\ SameRoute(rt[n][d], f[d]) \/ Lost(rt[n][d], f[d])
      OBVIOUS
    <2>1. rt[n][d] \in GoodEntry /\ rt[n][d].seqno \in Nat
      BY <1>1, Numbers DEF TypeInv
    <2>2. CASE d \notin hit
      BY <2>1, <2>2 DEF SameRoute
    <2>3. CASE d \in hit
      <3> DEFINE g == rt_down([rt[n][d] EXCEPT !.seqno = p.lost[d]])
      <3>1. g \in GoodEntry /\ g \in Entry
        BY <1>2, <2>1, <2>3, DownGood DEF GoodEntry
      <3>2. Lost(rt[n][d], g)
        BY <1>2, <2>1, <2>3, DownLoses
      <3>3. f[d] = pc_clear(g)
        BY <2>3
      <3> HIDE DEF g, f
      <3>4. SameRoute(g, pc_clear(g)) /\ pc_clear(g) \in GoodEntry
        BY <3>1, OtherFields, PrecursorsGood, TableAssumption
      <3> QED BY <3>2, <3>3, <3>4, SameTwice
    <2> QED BY <2>2, <2>3
  <1>4. f \in [Node -> GoodEntry]
    BY <1>3
  <1>5. rt' = [rt EXCEPT ![n] = f]
    BY DEF RecvError
  <1> HIDE DEF f
  <1>6. \A m, c \in Node : RouteStep(m, c)
    BY <1>1, <1>3, <1>4, <1>5, OneTable
  <1>7. net' \subseteq net \cup RouteError(n, lost)
    BY DEF RecvError
  <1>8. \A d \in DOMAIN lost : Void(lost[d])
    BY <1>2
  <1> HIDE DEF lost
  <1> QED BY <1>6, <1>7, <1>8, ErrorOK DEF Keeps

LEMMA LinkBrokenKeeps ==
  ASSUME TypeInv, LoopInv, NEW p \in DATAs, LinkBroken(p)
  PROVE  Keeps
  <1> DEFINE n == p.from
             id == p.to
             gone == ThroughNeighbor(n, id)
             lost == [d \in gone |-> rt[n][d].seqno + 1]
             g(d) == IF d \in gone THEN Invalidated(rt[n][d]) ELSE rt[n][d]
             f == [d \in Node |-> pc_delete(g(d), id)]
  <1>1. n \in Node /\ id \in Node
    BY DEF DATAs
  <1>2. \A d \in gone : d \in Node /\ rt[n][d].hops # INFINITY2
    BY DEF ThroughNeighbor
  <1>3. \A d \in gone : /\ Invalidated(rt[n][d]) \in GoodEntry
                        /\ Lost(rt[n][d], Invalidated(rt[n][d]))
                        /\ Void(rt[n][d].seqno + 1)
    BY <1>1, <1>2, InvalidatedGood, InvalidatedLoses DEF TypeInv
  <1>4. \A d \in Node : /\ g(d) \in GoodEntry /\ g(d) \in Entry
                        /\ SameRoute(rt[n][d], g(d)) \/ Lost(rt[n][d], g(d))
    BY <1>1, <1>3 DEF TypeInv, GoodEntry, SameRoute
  <1> HIDE DEF g
  <1>5. \A d \in Node : /\ f[d] \in GoodEntry
                        /\ SameRoute(rt[n][d], f[d]) \/ Lost(rt[n][d], f[d])
    <2> SUFFICES ASSUME NEW d \in Node
                 PROVE  /\ f[d] \in GoodEntry
                        /\ SameRoute(rt[n][d], f[d]) \/ Lost(rt[n][d], f[d])
      OBVIOUS
    <2>1. SameRoute(g(d), pc_delete(g(d), id)) /\ pc_delete(g(d), id) \in GoodEntry
      BY <1>1, <1>4, OtherFields, PrecursorsGood
    <2> QED BY <1>4, <2>1, SameTwice
  <1>6. f \in [Node -> GoodEntry]
    BY <1>5
  <1>7. rt' = [rt EXCEPT ![n] = f]
    BY DEF LinkBroken, g
  <1> HIDE DEF f
  <1>8. \A m, c \in Node : RouteStep(m, c)
    BY <1>1, <1>5, <1>6, <1>7, OneTable
  <1>9. net' \subseteq net \cup RouteError(n, lost)
    BY DEF LinkBroken
  <1>10. \A d \in DOMAIN lost : Void(lost[d])
    BY <1>3
  <1> HIDE DEF lost
  <1> QED BY <1>8, <1>9, <1>10, ErrorOK DEF Keeps

(* Without local repair a pending repair timer finds nothing to take down. *)
LEMMA RepairTimerKeeps ==
  ASSUME TypeInv, LoopInv, NEW n \in Node, NEW d \in Node, RepairTimer(n, d)
  PROVE  Keeps
  <1>1. rt[n][d].flags \in {"UP", "DOWN"}
    BY LoopInvParts DEF RouteOK
  <1>2. rt' = [rt EXCEPT ![n][d] = rt[n][d]]
    BY <1>1 DEF RepairTimer, rt_down
  <1>3. rt[n][d] \in GoodEntry /\ SameRoute(rt[n][d], rt[n][d])
    BY DEF TypeInv, SameRoute
  <1> QED BY <1>2, <1>3, OneEntry DEF Keeps, RepairTimer

LEMMA PurgeKeeps ==
  ASSUME TypeInv, LoopInv, NEW n \in Node, Purge(n)
  PROVE  Keeps
  <1>1. PICK expired, asked, dropped, order, ttl, old :
          /\ expired \in SUBSET UpRoutes(n)
          /\ PurgeRoutes(n, expired, asked, dropped, order, ttl, old)
    BY DEF Purge
  <1> DEFINE f == [d \in Node |-> IF d \in expired THEN Invalidated(rt[n][d])
                                  ELSE IF d \in asked THEN [rt[n][d] EXCEPT !.req = TRUE]
                                  ELSE rt[n][d]]
  <1>2. \A d \in Node : /\ f[d] \in GoodEntry
                        /\ SameRoute(rt[n][d], f[d]) \/ Lost(rt[n][d], f[d])
    <2> SUFFICES ASSUME NEW d \in Node
                 PROVE  /\ f[d] \in GoodEntry
                        /\ SameRoute(rt[n][d], f[d]) \/ Lost(rt[n][d], f[d])
      OBVIOUS
    <2>1. rt[n][d] \in GoodEntry /\ rt[n][d] \in Entry
      BY DEF TypeInv, GoodEntry
    <2>2. CASE d \in expired
      <3>1. rt[n][d].hops # INFINITY2
        BY <1>1, <2>1, <2>2, EntryFields DEF UpRoutes
      <3> QED BY <2>1, <2>2, <3>1, InvalidatedGood, InvalidatedLoses
    <2>3. CASE d \notin expired
      BY <2>1, <2>3, PrecursorsGood, OtherFields, TableAssumption
    <2> QED BY <2>2, <2>3
  <1>3. f \in [Node -> GoodEntry]
    BY <1>2
  <1>4. rt' = [rt EXCEPT ![n] = f]
    BY <1>1 DEF PurgeRoutes
  <1>5. net' = net \cup PurgeSends(n, UpRoutes(n) \ expired, asked, order, ttl, old)
    BY <1>1 DEF PurgeRoutes
  <1>6. \A x \in PurgeSends(n, UpRoutes(n) \ expired, asked, order, ttl, old) : PacketOK(x)'
    <2> SUFFICES ASSUME NEW x \in PurgeSends(n, UpRoutes(n) \ expired, asked, order, ttl, old)
                 PROVE  PacketOK(x)'
      OBVIOUS
    <2>1. \/ \E d : x \in Forwarded(n, rt[n][d].nexthop, Waiting(n, d) \ old)
          \/ \E d : x \in RouteRequest(n, d, order[d], ttl[d])
      BY DEF PurgeSends
    <2> QED BY <2>1, FreePackets
  <1> HIDE DEF f
  <1>7. \A m, c \in Node : RouteStep(m, c)
    BY <1>2, <1>3, <1>4, OneTable
  <1> QED BY <1>5, <1>6, <1>7 DEF Keeps

-----------------------------------------------------------------------------
(* The invariant of the whole system. *)
LoopIInv == LocalRepair = FALSE /\ TypeIInv /\ LoopInv /\ NoAssertionFails

LEMMA InitLoop == LocalRepair = FALSE /\ Init => LoopIInv
  <1> SUFFICES ASSUME LocalRepair = FALSE, Init PROVE LoopIInv
    OBVIOUS
  <1>1. LoopInv
    BY DEF Init, LoopInv, FreshEntry, Void
  <1> QED BY <1>1, InitType DEF LoopIInv, Init, NoAssertionFails

LEMMA NextKeeps ==
  ASSUME LoopIInv, Next
  PROVE  Keeps
  <1> USE DEF LoopIInv, TypeIInv
  <1>1. ASSUME NEW f \in Flow, Originate(f[1], f[2]) PROVE Keeps
    <2>1. f[1] \in Node /\ f[2] \in Node
      BY FlowAssumption
    <2> QED BY <1>1, <2>1, OriginateKeeps
  <1>2. ASSUME NEW p \in net, Receive(p) PROVE Keeps
    <2>1. ASSUME DataEnds(p) \/ RequestDiscarded(p) \/ ReplySuppressed(p) PROVE Keeps
      <3>1. UNCHANGED rt /\ net' \subseteq net
        BY <2>1 DEF DataEnds, RequestDiscarded, ReplySuppressed
      <3> QED BY <3>1, SameTables DEF Keeps
    <2> QED BY <1>2, <2>1, DataRelayedKeeps, RecvRequestKeeps, RecvReplyKeeps,
               RecvErrorKeeps DEF Receive
  <1>3. ASSUME NEW p \in net \cup unacked, TransmitFailed(p) PROVE Keeps
    BY <1>3, HandedBack, LinkBrokenKeeps DEF TransmitFailed, StartRepair
  <1>4. ASSUME NEW n \in Node, NEW d \in Node, RepairTimer(n, d) PROVE Keeps
    BY <1>4, RepairTimerKeeps
  <1>5. ASSUME NEW n \in Node, Purge(n) PROVE Keeps
    BY <1>5, PurgeKeeps
  <1>6. ASSUME NEW n \in Node, IdPurge(n) PROVE Keeps
    BY <1>6, SameTables DEF IdPurge, Keeps
  <1> QED BY <1>1, <1>2, <1>3, <1>4, <1>5, <1>6, ParameterAssumption DEF Next

(* Every assertion tests what LoopInv says of the entries it looks at. *)
LEMMA NextChecks ==
  ASSUME LoopIInv, Next
  PROVE  failed' = failed
  <1>1. \A n, d \in Node :
          /\ rt[n][d].flags = "UP" => rt[n][d].hops # INFINITY2
          /\ rt[n][d].hops # INFINITY2 =>
               /\ rt[n][d].flags = "UP"
               /\ rt[n][d].seqno % 2 = 0 /\ (rt[n][d].seqno + 1) % 2 = 1
    <2> SUFFICES ASSUME NEW n \in Node, NEW d \in Node
                 PROVE /\ rt[n][d].flags = "UP" => rt[n][d].hops # INFINITY2
                       /\ rt[n][d].hops # INFINITY2 =>
                            /\ rt[n][d].flags = "UP"
                            /\ rt[n][d].seqno % 2 = 0 /\ (rt[n][d].seqno + 1) % 2 = 1
      OBVIOUS
    <2>1. RouteOK(n, d) /\ rt[n][d] \in GoodEntry
      BY LoopInvParts DEF LoopIInv, TypeIInv, TypeInv
    <2>2. rt[n][d].seqno \in Nat
      BY <2>1, Numbers
    <2>3. /\ rt[n][d].flags = "UP" => rt[n][d].hops # INFINITY2
          /\ rt[n][d].hops # INFINITY2 => rt[n][d].flags = "UP" /\ Usable(rt[n][d].seqno)
      BY <2>1 DEF RouteOK, GoodEntry
    <2> QED BY <2>2, <2>3 DEF Usable
  <1>2. ASSUME NEW f \in Flow, Originate(f[1], f[2]) PROVE failed' = failed
    BY <1>1, <1>2, FlowAssumption DEF Originate, Check
  <1>3. ASSUME NEW p \in net, Receive(p) PROVE failed' = failed
    <2>1. p \in GoodPacket /\ p.to \in Node
      BY PacketKinds DEF LoopIInv, TypeIInv, TypeInv
    <2>2. ASSUME p.type = "DATA", DataRelayed(p) PROVE failed' = failed
      <3>1. p.dst \in Node
        BY <2>1, <2>2, PacketKinds DEF DATAs
      <3> QED BY <1>1, <2>1, <2>2, <3>1 DEF DataRelayed, Check
    <2>3. ASSUME p.type = "RREP", RecvReply(p) PROVE failed' = failed
      <3>1. p.daddr \in Node
        BY <2>1, <2>3, PacketKinds DEF GoodRREP, RREPs
      <3> QED BY <1>1, <2>1, <2>3, <3>1 DEF RecvReply, Check
    <2>4. ASSUME p.type = "RERR", RecvError(p) PROVE failed' = failed
      <3>1. \A d \in Hit(p.to, p) : d \in Node /\ rt[p.to][d].hops # INFINITY2
        BY <2>1, <2>4, PacketKinds DEF RERRs, Unreachable, Hit
      <3> QED BY <1>1, <2>1, <2>4, <3>1 DEF RecvError, Check
    <2> QED BY <1>3, <2>2, <2>3, <2>4
            DEF Receive, DataEnds, RequestDiscarded, RecvRequest, ReplySuppressed
  <1>4. ASSUME NEW p \in net \cup unacked, TransmitFailed(p) PROVE failed' = failed
    <2>1. p.from \in Node
      BY <1>4, HandedBack DEF LoopIInv, TransmitFailed, DATAs
    <2>2. LinkBroken(p)
      BY <1>4 DEF TransmitFailed, StartRepair, LoopIInv
    <2> QED BY <1>1, <2>1, <2>2 DEF LinkBroken, ThroughNeighbor, Check
  <1>5. ASSUME NEW n \in Node, Purge(n) PROVE failed' = failed
    <2>1. PICK expired, asked, dropped, order, ttl, old :
            /\ expired \in SUBSET UpRoutes(n)
            /\ PurgeRoutes(n, expired, asked, dropped, order, ttl, old)
      BY <1>5 DEF Purge
    <2> QED BY <1>1, <2>1 DEF PurgeRoutes, UpRoutes, Check
  <1>6. ASSUME NEW n \in Node, NEW d \in Node, RepairTimer(n, d) \/ IdPurge(n)
        PROVE failed' = failed
    BY <1>6 DEF RepairTimer, IdPurge
  <1> QED BY <1>2, <1>3, <1>4, <1>5, <1>6, ParameterAssumption DEF Next

LEMMA NextLoop ==
  LoopIInv /\ [Next]_vars => /\ LoopIInv'
                             /\ [\A n, d \in Node : Improves(rt[n][d], rt'[n][d])]_vars
  <1> SUFFICES ASSUME LoopIInv, [Next]_vars
               PROVE  /\ LoopIInv'
                      /\ [\A n, d \in Node : Improves(rt[n][d], rt'[n][d])]_vars
    OBVIOUS
  <1>1. CASE Next
    <2>1. TypeIInv'
      BY NextType DEF LoopIInv
    <2>2. LoopInv' /\ \A n, d \in Node : Improves(rt[n][d], rt'[n][d])
      BY <1>1, <2>1, NextKeeps, KeepsLoopInv DEF LoopIInv, TypeIInv
    <2> QED BY <1>1, <2>1, <2>2, NextChecks DEF LoopIInv, NoAssertionFails
  <1>2. CASE UNCHANGED vars
    BY <1>2, NextType DEF LoopIInv, vars, LoopInv, Ahead, NoAssertionFails
  <1> QED BY <1>1, <1>2

-----------------------------------------------------------------------------
(* A set of natural numbers has a least element. *)
LEMMA LeastElement ==
  ASSUME NEW T, T \subseteq Nat, T # {}
  PROVE  \E x \in T : \A y \in T : x <= y
  <1> DEFINE R == {xy \in Nat \X Nat : xy[1] < xy[2]}
  <1>1. IsWellFoundedOn(R, Nat)
    BY NatLessThanWellFounded DEF OpToRel
  <1>2. \A x, y \in Nat : <<x, y>> \in R <=> x < y
    OBVIOUS
  <1> HIDE DEF R
  <1>3. PICK x \in T : \A y \in T : ~(<<y, x>> \in R)
    BY <1>1, WFMin
  <1>4. \A y \in T : ~(y < x)
    <2> TAKE y \in T
    <2>1. y \in Nat /\ x \in Nat
      OBVIOUS
    <2> QED BY <1>2, <1>3, <2>1
  <1> QED BY <1>4

(* In any set of nodes, one with the largest number for d, and among those  *)
(* one with the fewest hops, has nobody in the set ahead of it.             *)
LEMMA LoopInvLoopFree == TypeInv /\ LoopInv => LoopFree
  <1> SUFFICES ASSUME TypeInv, LoopInv, NEW d \in Node,
                      NEW S \in SUBSET (Node \ {d}), S # {}
               PROVE  \E n \in S : rt[n][d].flags # "UP" \/ rt[n][d].nexthop \notin S
    BY DEF LoopFree
  <1>1. \A n \in Node : rt[n][d].seqno \in Nat /\ rt[n][d].seqno <= MaxSeqno + 1
                        /\ rt[n][d].hops \in Nat
    <2> TAKE n \in Node
    <2>1. rt[n][d] \in GoodEntry
      BY DEF TypeInv
    <2> QED BY <2>1, Numbers, EntryFields, TableAssumption DEF Seqno
  <1> DEFINE age(n) == MaxSeqno + 1 - rt[n][d].seqno
             Ages == {age(n) : n \in S}
  <1>2. Ages \subseteq Nat /\ Ages # {}
    BY <1>1, TableAssumption
  <1>3. PICK a \in Ages : \A b \in Ages : a <= b
    <2> HIDE DEF Ages
    <2> QED BY <1>2, LeastElement
  <1> DEFINE Best == {n \in S : age(n) = a}
             Dists == {rt[n][d].hops : n \in Best}
  <1>4. Dists \subseteq Nat /\ Dists # {}
    BY <1>1
  <1>5. PICK h \in Dists : \A b \in Dists : h <= b
    <2> HIDE DEF Dists
    <2> QED BY <1>4, LeastElement
  <1>6. PICK n \in Best : rt[n][d].hops = h
    OBVIOUS
  <1>7. ASSUME rt[n][d].flags = "UP", rt[n][d].nexthop \in S
        PROVE  FALSE
    <2> DEFINE m == rt[n][d].nexthop
    <2>1. Ahead(m, d, rt[n][d].seqno, rt[n][d].hops)
      BY <1>6, <1>7 DEF LoopInv
    <2>2. m \in Node /\ m # d /\ m \in S
      BY <1>7
    <2> HIDE DEF m
    <2>3. /\ rt[m][d].seqno \in Nat /\ rt[m][d].hops \in Nat
          /\ rt[n][d].seqno \in Nat /\ rt[n][d].hops \in Nat
      BY <1>1, <1>6, <2>2
    <2>4. CASE rt[m][d].seqno > rt[n][d].seqno
      <3>1. age(m) \in Ages /\ age(n) = a
        BY <1>6, <2>2
      <3>2. a <= age(m)
        BY <1>3, <3>1
      <3> QED BY <2>3, <2>4, <3>1, <3>2, TableAssumption
    <2>5. CASE rt[m][d].seqno = rt[n][d].seqno /\ rt[m][d].hops < rt[n][d].hops
      <3>1. m \in Best
        BY <1>6, <2>2, <2>5
      <3>2. h <= rt[m][d].hops
        BY <1>5, <3>1
      <3> QED BY <1>6, <2>3, <2>5, <3>2
    <2> QED BY <2>1, <2>2, <2>4, <2>5 DEF Ahead
  <1> QED BY <1>6, <1>7

-----------------------------------------------------------------------------
(* Without AODV_LOCAL_REPAIR, every usable route leads to a node that knows *)
(* the destination better, and every packet in flight offers only what its  *)
(* sender can keep, whatever the network loses, delays or reorders.         *)
THEOREM NextHopAhead == Spec /\ LocalRepair = FALSE => []LoopInv
  <1>1. LoopIInv => LoopInv
    BY DEF LoopIInv
  <1> QED BY <1>1, InitLoop, NextLoop, PTL DEF Spec

(* Without AODV_LOCAL_REPAIR, no data packet can travel in a circle: the    *)
(* purpose of the sequence numbers that aodv_rtable.h describes.            *)
THEOREM LoopFreedom == Spec /\ LocalRepair = FALSE => []LoopFree
  <1>1. LoopIInv => LoopFree
    BY LoopInvLoopFree DEF LoopIInv, TypeIInv
  <1> QED BY <1>1, InitLoop, NextLoop, PTL DEF Spec

(* Without AODV_LOCAL_REPAIR, no assertion about routes and sequence        *)
(* numbers in aodv.cc fails.                                                *)
THEOREM AssertionsHold == Spec /\ LocalRepair = FALSE => []NoAssertionFails
  <1>1. LoopIInv => NoAssertionFails
    BY DEF LoopIInv
  <1> QED BY <1>1, InitLoop, NextLoop, PTL DEF Spec

(* Without AODV_LOCAL_REPAIR, no handler replaces what a node knows of a    *)
(* destination by something staler, longer, or as good but different.       *)
THEOREM RoutesOnlyImprove == Spec /\ LocalRepair = FALSE => RoutesImprove
  BY InitLoop, NextLoop, PTL DEF Spec, RoutesImprove
=============================================================================
