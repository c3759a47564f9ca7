-------------------------- MODULE AodvSafetyProofs --------------------------
(***************************************************************************)
(* Four invariants of the agents that hold with and without local repair:  *)
(* no packet waits for a route that is up, a repair under way has a timer, *)
(* nobody knows a destination by a number it has not reached, and the      *)
(* copies of a data packet are bounded by the acknowledgements lost.       *)
(*                                                                         *)
(* The first two speak of one entry, the packets that wait for it and its  *)
(* timers; each handler is shown to change them in one of the ways that    *)
(* EntryStep lists.  The third relates every entry and every packet in     *)
(* flight to the owner's number, which only grows: FreshStep.  The fourth  *)
(* counts; what is inductive is that no two copies share a number (Unique) *)
(* and that lost acknowledgements bound the numbers, those of the packets  *)
(* that the MACs still hold included (CopyNumbers).                        *)
(***************************************************************************)
EXTENDS AodvProofs

Settles(n, d) ==
  \/ rt'[n][d].flags # "UP"
  \/ ~rt'[n][d].req /\ \A q \in queue'[n] : q.dst # d
  \/ /\ rt'[n][d].flags = rt[n][d].flags /\ rt'[n][d].req = rt[n][d].req
     /\ \A q \in queue'[n] : q.dst = d => q \in queue[n]

StaysTimed(n, d) ==
  rt'[n][d].flags = "IN_REPAIR" =>
    \/ repairs'[n][d] > 0
    \/ rt[n][d].flags = "IN_REPAIR" /\ repairs'[n][d] = repairs[n][d]

EntryStep(n, d) == Settles(n, d) /\ StaysTimed(n, d)

LEMMA StepKeeps ==
  ASSUME NoWaitingWhenUp, RepairEnds, \A n, d \in Node : EntryStep(n, d)
  PROVE  NoWaitingWhenUp' /\ RepairEnds'
  BY DEF NoWaitingWhenUp, RepairEnds, EntryStep, Settles, StaysTimed

LEMMA QuietStep ==
  ASSUME UNCHANGED <<rt, queue, repairs>>
  PROVE  \A n, d \in Node : EntryStep(n, d)
  BY DEF EntryStep, Settles, StaysTimed

-----------------------------------------------------------------------------
(* The operations on entries. *)
LEMMA FlagsOf ==
  ASSUME NEW e \in GoodEntry
  PROVE  /\ rt_down(e).flags = "DOWN"
         /\ \A s \in Seqno : rt_down([e EXCEPT !.seqno = s]).flags = "DOWN"
         /\ \A id : pc_clear(rt_down(e)).flags = "DOWN"
         /\ \A id : /\ pc_delete(e, id).flags = e.flags /\ pc_delete(e, id).req = e.req
                    /\ pc_insert(e, id).flags = e.flags /\ pc_insert(e, id).req = e.req
         /\ pc_clear(e).flags = e.flags
         /\ \A f : [e EXCEPT !.flags = f].flags = f
         /\ [e EXCEPT !.req = TRUE].flags = e.flags
         /\ \A s, h, v : /\ rt_update(e, s, h, v).flags = "UP"
                         /\ ~rt_update(e, s, h, v).req
  BY DEF rt_down, pc_delete, pc_insert, pc_clear, rt_update, GoodEntry, Entry

LEMMA InvalidatedDown ==
  ASSUME NEW e \in GoodEntry, e.hops # INFINITY2
  PROVE  Invalidated(e).flags = "DOWN"
  <1>1. Invalidated(e) = rt_down([e EXCEPT !.seqno = e.seqno + 1])
    BY DEF Invalidated
  <1>2. e.seqno + 1 \in Seqno
    BY InvalidatedGood
  <1> QED BY <1>1, <1>2, FlagsOf

-----------------------------------------------------------------------------
(* Each handler takes one of those steps for every entry. *)
LEMMA EnqueAndRequestStep ==
  ASSUME TypeInv, NEW n \in Node, NEW q \in Data, NEW e \in GoodEntry,
         e.flags # "UP", NEW sent, EnqueAndRequest(n, q, e, sent)
  PROVE  /\ \A m, d \in Node : Settles(m, d)
         /\ \A m, d \in Node : m # n \/ d # q.dst => rt'[m][d] = rt[m][d]
         /\ rt'[n][q.dst].flags = e.flags
  <1>1. q.dst \in Node
    BY DEF Data
  <1>2. PICK f \in GoodEntry : f.flags = e.flags /\ rt' = [rt EXCEPT ![n][q.dst] = f]
    <2>1. [e EXCEPT !.req = TRUE] \in GoodEntry /\ [e EXCEPT !.req = TRUE].flags = e.flags
      BY TableAssumption, PrecursorsGood, FlagsOf
    <2> QED BY <2>1 DEF EnqueAndRequest
  <1>3. /\ \A m, d \in Node : m # n \/ d # q.dst => rt'[m][d] = rt[m][d]
        /\ rt'[n][q.dst] = f
    BY <1>1, <1>2 DEF TypeInv
  <1>4. PICK Q : queue' = [queue EXCEPT ![n] = Q] /\ Q \subseteq queue[n] \cup {q}
    BY DEF EnqueAndRequest
  <1>5. \A m \in Node : \A x \in queue'[m] : x \in queue[m] \/ (m = n /\ x = q)
    BY <1>4 DEF TypeInv
  <1> QED BY <1>2, <1>3, <1>5 DEF Settles

LEMMA OriginateStep ==
  ASSUME TypeInv, NEW n \in Node, NEW d \in Node, Originate(n, d)
  PROVE  \A m, c \in Node : EntryStep(m, c)
  <1> DEFINE q == [src |-> n, dst |-> d, id |-> nsent + 1, copy |-> 0, fwd |-> 0]
  <1>1. CASE UNCHANGED <<rt, queue>>
    BY <1>1, QuietStep DEF Originate
  <1>2. CASE rt[n][d].flags # "UP" /\ EnqueAndRequest(n, q, rt[n][d], net)
    <2>1. q \in Data
      <3>1. nsent < MaxData /\ nsent \in 0 .. MaxData
        BY DEF Originate, TypeInv
      <3>2. nsent + 1 \in 1 .. MaxData /\ 0 \in 0 .. NETWORK_DIAMETER /\ 0 \in Copy
        BY <3>1, ParameterAssumption DEF Copy
      <3> QED BY <3>2 DEF Data
    <2>2. rt[n][d] \in GoodEntry /\ q.dst = d
      BY DEF TypeInv
    <2> HIDE DEF q
    <2>3. /\ \A m, c \in Node : Settles(m, c)
          /\ \A m, c \in Node : rt'[m][c].flags = rt[m][c].flags
      BY <1>2, <2>1, <2>2, EnqueAndRequestStep
    <2>4. UNCHANGED repairs
      BY DEF Originate
    <2> QED BY <2>3, <2>4 DEF EntryStep, StaysTimed
  <1> QED BY <1>1, <1>2 DEF Originate

LEMMA DataRelayedStep ==
  ASSUME TypeInv, NEW p \in net, p.type = "DATA", DataRelayed(p)
  PROVE  \A m, d \in Node : EntryStep(m, d)
  <1> DEFINE q == [src |-> p.src, dst |-> p.dst, id |-> p.id, copy |-> p.copy,
                   fwd |-> p.fwd + 1]
  <1>1. p.to \in Node /\ UNCHANGED <<rt, repairs>>
    BY PacketKinds DEF TypeInv, DataRelayed
  <1>2. CASE UNCHANGED queue
    BY <1>1, <1>2, QuietStep
  <1>3. CASE /\ rt[p.to][p.dst].flags = "IN_REPAIR"
             /\ \E old \in SUBSET queue[p.to] : queue' = [queue EXCEPT ![p.to] = (@ \ old) \cup {q}]
    <2>1. q.dst = p.dst
      OBVIOUS
    <2>2. PICK old \in SUBSET queue[p.to] : queue' = [queue EXCEPT ![p.to] = (@ \ old) \cup {q}]
      BY <1>3
    <2> HIDE DEF q
    <2>3. \A m \in Node : \A x \in queue'[m] : x \in queue[m] \/ (m = p.to /\ x = q)
      BY <1>1, <2>2 DEF TypeInv
    <2> QED BY <1>1, <1>3, <2>1, <2>3 DEF EntryStep, Settles, StaysTimed
  <1> QED BY <1>2, <1>3 DEF DataRelayed

(* The reverse route of recvRequest is up, reset, and released, or as before. *)
LEMMA RecvRequestStep ==
  ASSUME TypeInv, NEW p \in net, p.type = "RREQ", RecvRequest(p)
  PROVE  \A m, d \in Node : EntryStep(m, d)
  <1> DEFINE n == p.to
             rt0 == ReverseRoute(n, p)
             learnt == Fresher(rt[n][p.src], p.srcseq, p.hc)
  <1>1. p \in GoodRREQ /\ n \in Node /\ p.src \in Node /\ p.dst \in Node
    BY PacketKinds DEF TypeInv, GoodRREQ, RREQs
  <1>2. rt0 \in GoodEntry /\ rt[n][p.src] \in GoodEntry /\ rt[n][p.dst] \in GoodEntry
    BY <1>1, ReverseRouteGood DEF TypeInv
  <1>3. /\ learnt => rt0.flags = "UP" /\ ~rt0.req
        /\ ~learnt => rt0 = rt[n][p.src]
    BY <1>2, FlagsOf DEF ReverseRoute
  <1>4. PICK old, sent :
          /\ queue' = [queue EXCEPT ![n] = IF learnt THEN Released(n, p.src, old) ELSE @]
          /\ \/ AnswerOwn(n, p, rt0, sent)
             \/ AnswerKnown(n, p, rt0, sent)
             \/ RelayRequest(n, p, rt0, sent)
    BY DEF RecvRequest
  <1> HIDE DEF learnt, rt0
  <1>5. /\ \A m \in Node : queue'[m] \subseteq queue[m]
        /\ learnt => \A q \in queue'[n] : q.dst # p.src
    BY <1>1, <1>4 DEF TypeInv, Released, Waiting
  <1>6. /\ \A m, d \in Node : m # n \/ d # p.src =>
             rt'[m][d].flags = rt[m][d].flags /\ rt'[m][d].req = rt[m][d].req
        /\ rt'[n][p.src].flags = rt0.flags /\ rt'[n][p.src].req = rt0.req
    <2>1. CASE rt' = [rt EXCEPT ![n][p.src] = rt0]
      BY <1>1, <2>1 DEF TypeInv
    <2>2. CASE rt' = [rt EXCEPT ![n][p.dst] = pc_insert(rt[n][p.dst], rt0.nexthop),
                                ![n][p.src] = pc_insert(rt0, rt[n][p.dst].nexthop)]
      <3> DEFINE f == pc_insert(rt[n][p.dst], rt0.nexthop)
                 g == pc_insert(rt0, rt[n][p.dst].nexthop)
      <3>1. /\ f.flags = rt[n][p.dst].flags /\ f.req = rt[n][p.dst].req
            /\ g.flags = rt0.flags /\ g.req = rt0.req
        BY <1>2, FlagsOf
      <3>2. rt' = [rt EXCEPT ![n][p.dst] = f, ![n][p.src] = g]
        BY <2>2
      <3> HIDE DEF f, g
      <3>3. /\ rt'[n][p.src] = g
            /\ p.dst # p.src => rt'[n][p.dst] = f
            /\ \A m, d \in Node : m # n \/ d \notin {p.src, p.dst} => rt'[m][d] = rt[m][d]
        BY <1>1, <3>2 DEF TypeInv
      <3> QED BY <3>1, <3>3
    <2> QED BY <1>4, <2>1, <2>2 DEF AnswerOwn, AnswerKnown, RelayRequest
  <1>7. UNCHANGED repairs
    BY DEF RecvRequest
  <1>8. \A m, d \in Node : m # n \/ d # p.src => EntryStep(m, d)
    BY <1>5, <1>6, <1>7 DEF EntryStep, Settles, StaysTimed
  <1>9. EntryStep(n, p.src)
    <2>1. CASE learnt
      BY <1>3, <1>5, <1>6, <2>1 DEF EntryStep, Settles, StaysTimed
    <2>2. CASE ~learnt
      BY <1>1, <1>3, <1>5, <1>6, <1>7, <2>2 DEF EntryStep, Settles, StaysTimed
    <2> QED BY <2>1, <2>2
  <1> QED BY <1>1, <1>8, <1>9

LEMMA RecvReplyStep ==
  ASSUME TypeInv, NEW p \in net, p.type = "RREP", RecvReply(p)
  PROVE  \A m, d \in Node : EntryStep(m, d)
  <1> DEFINE n == p.to
             new == rt_update(rt[n][p.dst], p.seq, p.hc, p.from)
             f == IF n # p.daddr /\ rt[n][p.daddr].hops # INFINITY2
                  THEN pc_insert(new, rt[n][p.daddr].nexthop) ELSE new
  <1>1. /\ p \in GoodRREP /\ n \in Node /\ p.dst \in Node /\ p.from \in Node
        /\ p.seq \in Seqno /\ Usable(p.seq) /\ p.hc \in Hops \ {INFINITY2}
    BY PacketKinds DEF TypeInv, GoodRREP, RREPs
  <1>2. rt[n][p.dst] \in GoodEntry
    BY <1>1 DEF TypeInv
  <1>3. f.flags = "UP" /\ ~f.req
    <2>1. new \in GoodEntry /\ new.flags = "UP" /\ ~new.req
      BY <1>1, <1>2, UpdateGood, FlagsOf
    <2> HIDE DEF new
    <2>2. \A v : pc_insert(new, v).flags = new.flags /\ pc_insert(new, v).req = new.req
      BY <2>1, FlagsOf
    <2> QED BY <2>1, <2>2
  <1>4. rt' = [rt EXCEPT ![n][p.dst] = f] /\ UNCHANGED repairs
    BY DEF RecvReply
  <1> HIDE DEF f
  <1>5. /\ rt'[n][p.dst] = f
        /\ \A m, d \in Node : m # n \/ d # p.dst => rt'[m][d] = rt[m][d]
    BY <1>1, <1>4 DEF TypeInv
  <1>6. PICK old : queue' = [queue EXCEPT ![n] = Released(n, p.dst, old)]
    BY DEF RecvReply
  <1>7. /\ \A m \in Node : queue'[m] \subseteq queue[m]
        /\ \A q \in queue'[n] : q.dst # p.dst
    BY <1>1, <1>6 DEF TypeInv, Released, Waiting
  <1> QED BY <1>3, <1>4, <1>5, <1>7 DEF EntryStep, Settles, StaysTimed

LEMMA RecvErrorStep ==
  ASSUME TypeInv, NEW p \in net, p.type = "RERR", RecvError(p)
  PROVE  \A m, d \in Node : EntryStep(m, d)
  <1> DEFINE n == p.to
             f(d) == IF d \in Hit(n, p)
                     THEN pc_clear(rt_down([rt[n][d] EXCEPT !.seqno = p.lost[d]]))
                     ELSE rt[n][d]
  <1>1. p \in RERRs /\ n \in Node
    BY PacketKinds DEF TypeInv
  <1>2. \A d \in Hit(n, p) : d \in Node /\ p.lost[d] \in Seqno
    BY <1>1 DEF Hit, RERRs, Unreachable
  <1>3. \A d \in Node : f(d).flags = "DOWN" \/ f(d) = rt[n][d]
    <2> SUFFICES ASSUME NEW d \in Node, d \in Hit(n, p)
                 PROVE  f(d).flags = "DOWN"
      OBVIOUS
    <2>1. rt[n][d] \in GoodEntry /\ p.lost[d] \in Seqno
      BY <1>1, <1>2 DEF TypeInv
    <2>2. /\ rt_down([rt[n][d] EXCEPT !.seqno = p.lost[d]]) \in GoodEntry
          /\ rt_down([rt[n][d] EXCEPT !.seqno = p.lost[d]]).flags = "DOWN"
      BY <2>1, DownGood, FlagsOf
    <2> QED BY <2>2, FlagsOf
  <1>4. rt' = [rt EXCEPT ![n] = [d \in Node |-> f(d)]] /\ UNCHANGED <<queue, repairs>>
    BY DEF RecvError
  <1> HIDE DEF f
  <1>5. /\ \A d \in Node : rt'[n][d] = f(d)
        /\ \A m, d \in Node : m # n => rt'[m][d] = rt[m][d]
    BY <1>1, <1>4 DEF TypeInv
  <1> QED BY <1>3, <1>4, <1>5 DEF EntryStep, Settles, StaysTimed

(* The repair that starts arms a timer. *)
LEMMA StartRepairStep ==
  ASSUME TypeInv, NEW p \in DATAs, StartRepair(p)
  PROVE  \A m, d \in Node : EntryStep(m, d)
  <1> DEFINE n == p.from
             d == p.dst
             q == [src |-> p.src, dst |-> d, id |-> p.id, copy |-> p.copy, fwd |-> p.fwd]
             e == [rt[n][d] EXCEPT !.flags = "IN_REPAIR"]
  <1>1. p \in DATAs /\ n \in Node /\ d \in Node
    BY DEF DATAs
  <1>2. q \in Data /\ q.dst = d
    BY <1>1 DEF Data, DATAs
  <1>3. e \in GoodEntry /\ e.flags = "IN_REPAIR"
    <2>1. rt[n][d] \in GoodEntry /\ rt[n][d].hops \in Hops
      BY <1>1, EntryFields DEF TypeInv
    <2>2. rt[n][d].hops # INFINITY2
      <3>1. p.fwd \in 0 .. NETWORK_DIAMETER /\ p.fwd > rt[n][d].hops
        BY <1>1 DEF DATAs, StartRepair
      <3> QED BY <2>1, <3>1, ParameterAssumption, TableAssumption DEF Hops
    <2> QED BY <2>1, <2>2, RepairGood, FlagsOf
  <1>4. EnqueAndRequest(n, q, e, net \ {p})
    BY DEF StartRepair
  <1>5. /\ repairs'[n][d] > 0
        /\ \A m, c \in Node : m # n \/ c # d => repairs'[m][c] = repairs[m][c]
    <2>1. repairs' = [repairs EXCEPT ![n][d] = @ + 1] /\ repairs[n][d] \in Nat
      BY <1>1 DEF StartRepair, TypeInv
    <2>2. repairs'[n][d] = repairs[n][d] + 1
      BY <1>1, <2>1 DEF TypeInv
    <2> QED BY <1>1, <2>1, <2>2 DEF TypeInv
  <1> HIDE DEF q, e
  <1>6. /\ \A m, c \in Node : Settles(m, c)
        /\ \A m, c \in Node : m # n \/ c # d => rt'[m][c] = rt[m][c]
    BY <1>1, <1>2, <1>3, <1>4, EnqueAndRequestStep
  <1> QED BY <1>5, <1>6 DEF EntryStep, StaysTimed

LEMMA LinkBrokenStep ==
  ASSUME TypeInv, NEW p \in DATAs, LinkBroken(p)
  PROVE  \A m, d \in Node : EntryStep(m, d)
  <1> DEFINE n == p.from
             gone == ThroughNeighbor(n, p.to)
             f(d) == pc_delete(IF d \in gone THEN Invalidated(rt[n][d]) ELSE rt[n][d], p.to)
  <1>1. n \in Node
    BY DEF DATAs
  <1>2. \A d \in Node : \/ f(d).flags = "DOWN"
                        \/ f(d).flags = rt[n][d].flags /\ f(d).req = rt[n][d].req
    <2> TAKE d \in Node
    <2>1. rt[n][d] \in GoodEntry
      BY <1>1 DEF TypeInv
    <2>2. CASE d \in gone
      <3>1. rt[n][d].hops # INFINITY2
        BY <2>2 DEF ThroughNeighbor
      <3> QED BY <2>1, <2>2, <3>1, InvalidatedGood, InvalidatedDown, FlagsOf
    <2>3. CASE d \notin gone
      BY <2>1, <2>3, FlagsOf
    <2> QED BY <2>2, <2>3
  <1>3. rt' = [rt EXCEPT ![n] = [d \in Node |-> f(d)]] /\ UNCHANGED <<queue, repairs>>
    BY DEF LinkBroken
  <1> HIDE DEF f
  <1>4. /\ \A d \in Node : rt'[n][d] = f(d)
        /\ \A m, d \in Node : m # n => rt'[m][d] = rt[m][d]
    BY <1>1, <1>3 DEF TypeInv
  <1> QED BY <1>2, <1>3, <1>4 DEF EntryStep, Settles, StaysTimed

(* A timer that fires for a repair takes the route down: none is left IN_REPAIR. *)
LEMMA RepairTimerStep ==
  ASSUME TypeInv, NEW n \in Node, NEW d \in Node, RepairTimer(n, d)
  PROVE  \A m, c \in Node : EntryStep(m, c)
  <1> DEFINE f == IF rt[n][d].flags = "UP" THEN rt[n][d] ELSE rt_down(rt[n][d])
  <1>1. rt[n][d] \in GoodEntry
    BY DEF TypeInv
  <1>2. f.flags = "DOWN" \/ (f = rt[n][d] /\ f.flags = "UP")
    BY <1>1, FlagsOf
  <1>3. rt' = [rt EXCEPT ![n][d] = f]
    BY DEF RepairTimer
  <1> HIDE DEF f
  <1>4. /\ rt'[n][d] = f
        /\ \A m, c \in Node : m # n \/ c # d => rt'[m][c] = rt[m][c]
    BY <1>3 DEF TypeInv
  <1>5. /\ UNCHANGED queue
        /\ \A m, c \in Node : m # n \/ c # d => repairs'[m][c] = repairs[m][c]
    BY DEF RepairTimer, TypeInv
  <1> QED BY <1>2, <1>4, <1>5 DEF EntryStep, Settles, StaysTimed

(* rt_purge releases what waits for every route that stays up. *)
LEMMA PurgeStep ==
  ASSUME TypeInv, NEW n \in Node, Purge(n)
  PROVE  \A m, d \in Node : EntryStep(m, d)
  <1>1. PICK expired \in SUBSET UpRoutes(n), asked \in SUBSET WantedRoutes(n) :
          \E dropped, order, ttl, old : PurgeRoutes(n, expired, asked, dropped, order, ttl, old)
    BY DEF Purge
  <1> PICK dropped, order, ttl, old :
        PurgeRoutes(n, expired, asked, dropped, order, ttl, old)
    BY <1>1
  <1> DEFINE f(d) == IF d \in expired THEN Invalidated(rt[n][d])
                     ELSE IF d \in asked THEN [rt[n][d] EXCEPT !.req = TRUE]
                     ELSE rt[n][d]
  <1>2. \A d \in Node : \/ f(d).flags = "DOWN"
                        \/ d \in asked /\ f(d).flags = rt[n][d].flags
                        \/ f(d) = rt[n][d]
    <2> TAKE d \in Node
    <2>1. rt[n][d] \in GoodEntry
      BY DEF TypeInv
    <2>2. CASE d \in expired
      <3>1. rt[n][d].hops # INFINITY2
        BY <2>1, <2>2, EntryFields DEF UpRoutes
      <3> QED BY <2>1, <2>2, <3>1, InvalidatedDown
    <2> QED BY <2>1, <2>2, FlagsOf
  <1>3. \A d \in asked : d \in Node /\ rt[n][d].flags # "UP"
    BY DEF WantedRoutes, UpRoutes
  <1>4. /\ rt' = [rt EXCEPT ![n] = [d \in Node |-> f(d)]]
        /\ \E leave : queue' = [queue EXCEPT ![n] = @ \ (old \cup leave)]
        /\ UNCHANGED repairs
    BY DEF PurgeRoutes
  <1> HIDE DEF f
  <1>5. /\ \A d \in Node : rt'[n][d] = f(d)
        /\ \A m, d \in Node : m # n => rt'[m][d] = rt[m][d]
        /\ \A m \in Node : queue'[m] \subseteq queue[m]
    BY <1>4 DEF TypeInv
  <1> QED BY <1>2, <1>3, <1>4, <1>5 DEF EntryStep, Settles, StaysTimed

LEMMA NextStep ==
  ASSUME TypeIInv, [Next]_vars
  PROVE  \A m, d \in Node : EntryStep(m, d)
  <1> USE DEF TypeIInv
  <1>1. ASSUME NEW f \in Flow, Originate(f[1], f[2])
        PROVE  \A m, d \in Node : EntryStep(m, d)
    <2>1. f[1] \in Node /\ f[2] \in Node
      BY FlowAssumption
    <2> QED BY <1>1, <2>1, OriginateStep
  <1>2. ASSUME NEW p \in net, Receive(p)
        PROVE  \A m, d \in Node : EntryStep(m, d)
    <2>1. CASE DataEnds(p) \/ RequestDiscarded(p) \/ ReplySuppressed(p)
      BY <2>1, QuietStep DEF DataEnds, RequestDiscarded, ReplySuppressed
    <2> QED BY <1>2, <2>1, DataRelayedStep, RecvRequestStep, RecvReplyStep, RecvErrorStep
            DEF Receive
  <1>3. ASSUME NEW p \in net \cup unacked, TransmitFailed(p)
        PROVE  \A m, d \in Node : EntryStep(m, d)
    BY <1>3, HandedBack, StartRepairStep, LinkBrokenStep DEF TransmitFailed
  <1>4. ASSUME NEW n \in Node, NEW d \in Node, RepairTimer(n, d)
        PROVE  \A m, c \in Node : EntryStep(m, c)
    BY <1>4, RepairTimerStep
  <1>5. ASSUME NEW n \in Node, Purge(n) \/ IdPurge(n)
        PROVE  \A m, d \in Node : EntryStep(m, d)
    BY <1>5, PurgeStep, QuietStep DEF IdPurge
  <1>6. CASE UNCHANGED vars
    BY <1>6, QuietStep DEF vars
  <1> QED BY <1>1, <1>2, <1>3, <1>4, <1>5, <1>6, ParameterAssumption DEF Next

EntryInv == TypeIInv /\ NoWaitingWhenUp /\ RepairEnds

LEMMA InitEntry == Init => EntryInv
  BY InitType DEF Init, EntryInv, NoWaitingWhenUp, RepairEnds, FreshEntry

LEMMA NextEntry == EntryInv /\ [Next]_vars => EntryInv'
  BY NextType, NextStep, StepKeeps DEF EntryInv

(* No packet is left behind in the buffer when its route is up, whichever   *)
(* handler brought it up and whatever ran between.                          *)
THEOREM NothingWaitsWhenUp == Spec => []NoWaitingWhenUp
  <1>1. EntryInv => NoWaitingWhenUp
    BY DEF EntryInv
  <1> QED BY <1>1, InitEntry, NextEntry, PTL DEF Spec

(* Every repair under way has a timer that will end it, also when several   *)
(* repairs of one destination overlap and answers come between.             *)
THEOREM RepairsEnd == Spec => []RepairEnds
  <1>1. EntryInv => RepairEnds
    BY DEF EntryInv
  <1> QED BY <1>1, InitEntry, NextEntry, PTL DEF Spec

-----------------------------------------------------------------------------
(* The numbers a packet carries, and how far its owners have counted. *)
Known(p) ==
  /\ p.type = "RREQ" => p.dstseq <= seqno[p.dst] + 1 /\ p.srcseq <= seqno[p.src]
  /\ p.type = "RREP" => p.seq <= seqno[p.dst]
  /\ p.type = "RERR" => \A d \in DOMAIN p.lost : p.lost[d] <= seqno[d] + 1

FreshStep ==
  /\ \A n \in Node : seqno[n] <= seqno'[n]
  /\ \A n, d \in Node : \/ rt'[n][d].seqno = rt[n][d].seqno
                         \/ rt'[n][d].seqno <= seqno'[d] + 1
  /\ \A p \in net' \ net : Known(p)'

LEMMA OwnNumbers ==
  ASSUME TypeInv, NEW n \in Node
  PROVE  seqno[n] \in Nat /\ Usable(seqno[n])
  BY TableAssumption DEF TypeInv, OwnSeqno, Seqno

LEMMA EntryNumbers ==
  ASSUME TypeInv, NEW n \in Node, NEW d \in Node
  PROVE  /\ rt[n][d].seqno \in Nat
         /\ rt[n][d].hops # INFINITY2 => Usable(rt[n][d].seqno)
  <1>1. rt[n][d] \in GoodEntry
    BY DEF TypeInv
  <1>2. \A s \in Seqno : s \in Nat
    BY TableAssumption DEF Seqno
  <1> QED BY <1>1, <1>2, EntryFields

LEMMA PacketNumbers ==
  ASSUME TypeInv, NEW p \in net
  PROVE  /\ p.type = "RREQ" => /\ p.src \in Node /\ p.srcseq \in Nat
                               /\ p.dst \in Node /\ p.dstseq \in Nat
         /\ p.type = "RREP" => p.dst \in Node /\ p.seq \in Nat
         /\ p.type = "RERR" => \A d \in DOMAIN p.lost : d \in Node /\ p.lost[d] \in Nat
  <1>1. \A s \in Seqno : s \in Nat
    BY TableAssumption DEF Seqno
  <1>2. p \in GoodPacket
    BY DEF TypeInv
  <1>3. CASE p.type = "RREQ"
    BY <1>1, <1>2, <1>3, PacketKinds DEF GoodRREQ, RREQs
  <1>4. CASE p.type = "RREP"
    BY <1>1, <1>2, <1>4, PacketKinds DEF GoodRREP, RREPs
  <1>5. CASE p.type = "RERR"
    <2>1. p.lost \in Unreachable
      BY <1>2, <1>5, PacketKinds DEF RERRs
    <2> QED BY <1>1, <1>5, <2>1 DEF Unreachable
  <1> QED BY <1>3, <1>4, <1>5

LEMMA FreshKept ==
  ASSUME TypeInv, TypeInv', OwnerFreshest, FreshStep
  PROVE  OwnerFreshest'
  <1>1. \A n \in Node : /\ seqno[n] \in Nat /\ seqno'[n] \in Nat
                        /\ seqno[n] <= seqno'[n]
    BY OwnNumbers, TableAssumption DEF FreshStep, TypeInv, OwnSeqno, Seqno
  <1>2. \A n, d \in Node : rt'[n][d].seqno <= seqno'[d] + 1
    <2> TAKE n, d \in Node
    <2>1. CASE rt'[n][d].seqno = rt[n][d].seqno
      <3>1. rt[n][d].seqno <= seqno[d] + 1
        BY DEF OwnerFreshest
      <3>2. rt[n][d].seqno \in Nat
        BY EntryNumbers
      <3> QED BY <1>1, <2>1, <3>1, <3>2
    <2> QED BY <2>1 DEF FreshStep
  <1>3. ASSUME NEW p \in net'
        PROVE  Known(p)'
    <2>1. CASE p \in net
      <3>1. Known(p)
        BY <2>1 DEF OwnerFreshest, Known
      <3>2. p.type = "RREQ" => p.dstseq <= seqno'[p.dst] + 1 /\ p.srcseq <= seqno'[p.src]
        BY <1>1, <2>1, <3>1, PacketNumbers DEF Known
      <3>3. p.type = "RREP" => p.seq <= seqno'[p.dst]
        BY <1>1, <2>1, <3>1, PacketNumbers DEF Known
      <3>4. p.type = "RERR" => \A d \in DOMAIN p.lost : p.lost[d] <= seqno'[d] + 1
        BY <1>1, <2>1, <3>1, PacketNumbers DEF Known
      <3> QED BY <3>2, <3>3, <3>4 DEF Known
    <2>2. CASE p \notin net
      BY <1>3, <2>2 DEF FreshStep
    <2> QED BY <2>1, <2>2
  <1> QED BY <1>2, <1>3 DEF OwnerFreshest, Known

(* Two even numbers: one more than the smaller is at most one more than the *)
(* larger, and an even number below an odd one is below its predecessor.    *)
LEMMA EvenBelow ==
  ASSUME NEW a \in Nat, NEW b \in Nat, Usable(a), Usable(b), a <= b + 1
  PROVE  a <= b
  BY DEF Usable

LEMMA FiniteBelow ==
  ASSUME TypeInv, OwnerFreshest, NEW n \in Node, NEW d \in Node,
         rt[n][d].hops # INFINITY2
  PROVE  rt[n][d].seqno <= seqno[d]
  <1>1. /\ rt[n][d].seqno \in Nat /\ Usable(rt[n][d].seqno)
        /\ seqno[d] \in Nat /\ Usable(seqno[d])
    BY EntryNumbers, OwnNumbers
  <1>2. rt[n][d].seqno <= seqno[d] + 1
    BY DEF OwnerFreshest
  <1> QED BY <1>1, <1>2, EvenBelow

LEMMA InvalidatedNumber ==
  ASSUME NEW e \in GoodEntry
  PROVE  /\ Invalidated(e).seqno = e.seqno + 1
         /\ rt_down(e).seqno = e.seqno
         /\ \A s \in Seqno : rt_down([e EXCEPT !.seqno = s]).seqno = s
         /\ \A id : /\ pc_delete(e, id).seqno = e.seqno
                    /\ pc_insert(e, id).seqno = e.seqno
         /\ pc_clear(e).seqno = e.seqno
         /\ \A f : [e EXCEPT !.flags = f].seqno = e.seqno
         /\ [e EXCEPT !.req = TRUE].seqno = e.seqno
         /\ \A s, h, v : rt_update(e, s, h, v).seqno = s
  BY DEF Invalidated, rt_down, pc_delete, pc_insert, pc_clear, rt_update, GoodEntry, Entry

LEMMA QuietFresh ==
  ASSUME TypeInv, UNCHANGED <<seqno, rt>>, \A p \in net' \ net : p.type = "DATA"
  PROVE  FreshStep
  BY OwnNumbers DEF FreshStep, Known

-----------------------------------------------------------------------------
(* What a handler sends is within what the owners have counted. *)
LEMMA ForwardedKnown ==
  ASSUME NEW n, NEW via, NEW Q
  PROVE  \A p \in Forwarded(n, via, Q) : p.type = "DATA" /\ Known(p)'
  BY DEF Forwarded, Known

LEMMA RouteRequestKnown ==
  ASSUME TypeInv, TypeInv', OwnerFreshest, NEW n \in Node, NEW d \in Node,
         NEW k \in Nat, NEW ttl, seqno[n] + 2 * k <= seqno'[n], seqno[d] <= seqno'[d]
  PROVE  \A p \in RouteRequest(n, d, k, ttl) : Known(p)'
  <1>1. rt[n][d].seqno <= seqno'[d] + 1
    <2>1. rt[n][d].seqno \in Nat /\ seqno[d] \in Nat
      BY EntryNumbers, OwnNumbers
    <2>2. seqno'[d] \in Nat
      BY TableAssumption DEF TypeInv, OwnSeqno, Seqno
    <2>3. rt[n][d].seqno <= seqno[d] + 1
      BY DEF OwnerFreshest
    <2> QED BY <2>1, <2>2, <2>3
  <1> QED BY <1>1 DEF RouteRequest, Known

LEMMA RouteErrorKnown ==
  ASSUME NEW n, NEW lost, \A d \in DOMAIN lost : lost[d] <= seqno'[d] + 1
  PROVE  \A p \in RouteError(n, lost) : Known(p)'
  BY DEF RouteError, Known

-----------------------------------------------------------------------------
(* The handlers. *)
LEMMA EnqueAndRequestFresh ==
  ASSUME TypeInv, TypeInv', OwnerFreshest, NEW n \in Node, NEW q \in Data,
         NEW e \in GoodEntry, e.seqno = rt[n][q.dst].seqno,
         NEW sent, sent \subseteq net, EnqueAndRequest(n, q, e, sent)
  PROVE  FreshStep
  <1>1. q.dst \in Node
    BY DEF Data
  <1>2. \A m \in Node : seqno[m] \in Nat /\ seqno'[m] \in Nat
    BY TableAssumption DEF TypeInv, OwnSeqno, Seqno
  <1>3. \A m, d \in Node : rt'[m][d].seqno = rt[m][d].seqno
    <2>1. PICK f : f.seqno = e.seqno /\ rt' = [rt EXCEPT ![n][q.dst] = f]
      BY InvalidatedNumber DEF EnqueAndRequest
    <2> QED BY <1>1, <2>1 DEF TypeInv
  <1>4. CASE net' = sent /\ UNCHANGED seqno
    BY <1>2, <1>3, <1>4 DEF FreshStep
  <1>5. CASE /\ \E ttl \in RingTTL : net' = sent \cup RouteRequest(n, q.dst, 1, ttl)
             /\ seqno' = [seqno EXCEPT ![n] = @ + 2]
    <2>1. seqno'[n] = seqno[n] + 2 * 1 /\ \A m \in Node : seqno[m] <= seqno'[m]
      BY <1>2, <1>5 DEF TypeInv
    <2>2. PICK ttl : net' = sent \cup RouteRequest(n, q.dst, 1, ttl)
      BY <1>5
    <2>3. \A p \in RouteRequest(n, q.dst, 1, ttl) : Known(p)'
      <3>1. seqno[n] + 2 * 1 <= seqno'[n] /\ seqno[q.dst] <= seqno'[q.dst] /\ 1 \in Nat
        BY <1>1, <1>2, <2>1
      <3> QED BY <1>1, <3>1, RouteRequestKnown
    <2> QED BY <1>3, <2>1, <2>2, <2>3 DEF FreshStep
  <1> QED BY <1>4, <1>5 DEF EnqueAndRequest

LEMMA OriginateFresh ==
  ASSUME TypeInv, TypeInv', OwnerFreshest, NEW n \in Node, NEW d \in Node, Originate(n, d)
  PROVE  FreshStep
  <1> DEFINE q == [src |-> n, dst |-> d, id |-> nsent + 1, copy |-> 0, fwd |-> 0]
  <1>1. CASE /\ net' = net \cup Forwarded(n, rt[n][d].nexthop, {q})
             /\ UNCHANGED <<seqno, rt>>
    <2>1. \A p \in net' \ net : p.type = "DATA"
      BY <1>1, ForwardedKnown
    <2> QED BY <1>1, <2>1, QuietFresh
  <1>2. CASE EnqueAndRequest(n, q, rt[n][d], net)
    <2>1. q \in Data
      <3>1. nsent < MaxData /\ nsent \in 0 .. MaxData
        BY DEF Originate, TypeInv
      <3>2. nsent + 1 \in 1 .. MaxData /\ 0 \in 0 .. NETWORK_DIAMETER /\ 0 \in Copy
        BY <3>1, ParameterAssumption DEF Copy
      <3> QED BY <3>2 DEF Data
    <2>2. rt[n][d] \in GoodEntry /\ q.dst = d
      BY DEF TypeInv
    <2> HIDE DEF q
    <2> QED BY <1>2, <2>1, <2>2, EnqueAndRequestFresh
  <1> QED BY <1>1, <1>2 DEF Originate

LEMMA DataRelayedFresh ==
  ASSUME TypeInv, TypeInv', OwnerFreshest, NEW p \in net, p.type = "DATA", DataRelayed(p)
  PROVE  FreshStep
  <1> DEFINE n == p.to
             lost == [d \in {p.dst} |-> rt[n][p.dst].seqno]
  <1>1. n \in Node /\ p.dst \in Node /\ UNCHANGED <<seqno, rt>>
    BY PacketKinds DEF TypeInv, DATAs, DataRelayed
  <1>2. \A x \in RouteError(n, lost) : Known(x)'
    <2>1. rt[n][p.dst].seqno <= seqno'[p.dst] + 1
      BY <1>1 DEF OwnerFreshest
    <2>2. \A d \in DOMAIN lost : lost[d] <= seqno'[d] + 1
      BY <2>1
    <2> HIDE DEF lost
    <2> QED BY <2>2, RouteErrorKnown
  <1>3. PICK via, Q : \/ net' = (net \ {p}) \cup Forwarded(n, via, Q)
                      \/ net' = net \ {p}
                      \/ net' = (net \ {p}) \cup RouteError(n, lost)
    BY DEF DataRelayed
  <1> HIDE DEF lost
  <1>4. \A x \in net' \ net : Known(x)'
    BY <1>2, <1>3, ForwardedKnown
  <1> QED BY <1>1, <1>4, OwnNumbers DEF FreshStep

(* An answer of its own carries the number the destination has just taken. *)
LEMMA RecvRequestFresh ==
  ASSUME TypeInv, TypeInv', OwnerFreshest, NEW p \in net, p.type = "RREQ", RecvRequest(p)
  PROVE  FreshStep
  <1> DEFINE n == p.to
             rt0 == ReverseRoute(n, p)
             e == rt[n][p.dst]
             own == NextEven(Greater(seqno[n], p.dstseq) + 1)
  <1>1. p \in GoodRREQ /\ n \in Node /\ p.src \in Node /\ p.dst \in Node
    BY PacketKinds DEF TypeInv, GoodRREQ, RREQs
  <1>2. /\ p.srcseq \in Nat /\ p.dstseq \in Nat /\ e.seqno \in Nat
        /\ \A m \in Node : seqno[m] \in Nat /\ seqno'[m] \in Nat
    <2>1. p.srcseq \in Nat /\ p.dstseq \in Nat
      BY PacketNumbers
    <2>2. e.seqno \in Nat
      BY <1>1, EntryNumbers
    <2> QED BY <2>1, <2>2, TableAssumption DEF TypeInv, OwnSeqno, Seqno
  <1>3. /\ p.dstseq <= seqno[p.dst] + 1 /\ p.srcseq <= seqno[p.src]
        /\ e.seqno <= seqno[p.dst] + 1
    BY <1>1 DEF OwnerFreshest
  <1>4. rt0 \in GoodEntry /\ (rt0.seqno = rt[n][p.src].seqno \/ rt0.seqno = p.srcseq)
    <2>1. rt[n][p.src] \in GoodEntry
      BY <1>1 DEF TypeInv
    <2> QED BY <1>1, <2>1, ReverseRouteGood, InvalidatedNumber DEF ReverseRoute
  <1>5. PICK old, Q :
          LET sent == (net \ {p}) \cup Forwarded(n, p.from, Q)
          IN \/ AnswerOwn(n, p, rt0, sent)
             \/ AnswerKnown(n, p, rt0, sent)
             \/ RelayRequest(n, p, rt0, sent)
    BY DEF RecvRequest
  <1> DEFINE sent == (net \ {p}) \cup Forwarded(n, p.from, Q)
  <1>6. \A x \in sent \ net : Known(x)'
    BY ForwardedKnown
  <1> HIDE DEF rt0, sent
  <1>7. ASSUME rt' = [rt EXCEPT ![n][p.src] = rt0], \A m \in Node : seqno[m] <= seqno'[m]
        PROVE  \A m, d \in Node : \/ rt'[m][d].seqno = rt[m][d].seqno
                                  \/ rt'[m][d].seqno <= seqno'[d] + 1
    <2>1. /\ rt'[n][p.src] = rt0
          /\ \A m, d \in Node : m # n \/ d # p.src => rt'[m][d] = rt[m][d]
      BY <1>1, <1>7 DEF TypeInv
    <2>2. p.srcseq <= seqno'[p.src] + 1
      BY <1>1, <1>2, <1>3, <1>7
    <2> QED BY <1>4, <2>1, <2>2
  <1>8. CASE AnswerOwn(n, p, rt0, sent)
    <2>1. own \in Nat /\ own >= seqno[n]
      <3>1. PICK g \in Nat : g = Greater(seqno[n], p.dstseq) /\ g >= seqno[n]
        BY <1>1, <1>2 DEF Greater
      <3> QED BY <1>1, <1>2, <3>1 DEF NextEven
    <2> DEFINE reply == RouteReply(n, rt0.nexthop, p.src, n, own, 1)
    <2>2. reply.type = "RREP" /\ reply.dst = n /\ reply.seq = own
      BY DEF RouteReply
    <2>3. /\ seqno' = [seqno EXCEPT ![n] = own] /\ rt' = [rt EXCEPT ![n][p.src] = rt0]
          /\ net' = sent \cup {reply}
      BY <1>8 DEF AnswerOwn
    <2> HIDE DEF own, reply
    <2>4. seqno'[n] = own /\ \A m \in Node : seqno[m] <= seqno'[m]
      BY <1>1, <1>2, <2>1, <2>3 DEF TypeInv
    <2>5. \A x \in {reply} : Known(x)'
      BY <2>1, <2>2, <2>4 DEF Known
    <2> QED BY <1>6, <1>7, <2>3, <2>4, <2>5 DEF FreshStep
  <1>9. CASE AnswerKnown(n, p, rt0, sent)
    <2> DEFINE reply == RouteReply(n, rt0.nexthop, p.src, p.dst, e.seqno, e.hops + 1)
               f == pc_insert(e, rt0.nexthop)
               g == pc_insert(rt0, e.nexthop)
    <2>1. reply.type = "RREP" /\ reply.dst = p.dst /\ reply.seq = e.seqno
      BY DEF RouteReply
    <2>2. /\ UNCHANGED seqno /\ net' = sent \cup {reply} /\ e.hops # INFINITY2
          /\ rt' = [rt EXCEPT ![n][p.dst] = f, ![n][p.src] = g]
      BY <1>9 DEF AnswerKnown, HasFreshRoute
    <2>3. e \in GoodEntry
      BY <1>1 DEF TypeInv
    <2>4. f.seqno = e.seqno /\ g.seqno = rt0.seqno
      BY <1>4, <2>3, InvalidatedNumber
    <2>5. e.seqno <= seqno[p.dst]
      BY <1>1, <2>2, FiniteBelow
    <2> HIDE DEF reply, f, g
    <2>6. \A x \in {reply} : Known(x)'
      BY <2>1, <2>2, <2>5 DEF Known
    <2>7. /\ rt'[n][p.src] = g
          /\ p.dst # p.src => rt'[n][p.dst] = f
          /\ \A m, d \in Node : m # n \/ d \notin {p.src, p.dst} => rt'[m][d] = rt[m][d]
      BY <1>1, <2>2 DEF TypeInv
    <2>8. p.srcseq <= seqno'[p.src] + 1
      BY <1>1, <1>2, <1>3, <2>2
    <2>9. \A m, d \in Node : \/ rt'[m][d].seqno = rt[m][d].seqno
                             \/ rt'[m][d].seqno <= seqno'[d] + 1
      BY <1>4, <2>4, <2>7, <2>8
    <2>10. \A m \in Node : seqno[m] <= seqno'[m]
      BY <1>2, <2>2
    <2> QED BY <1>6, <2>2, <2>6, <2>9, <2>10 DEF FreshStep
  <1>10. CASE RelayRequest(n, p, rt0, sent)
    <2> DEFINE copy(m) == [p EXCEPT !.from = n, !.to = m, !.hc = @ + 1, !.ttl = @ - 1,
                                    !.dstseq = Greater(@, e.seqno)]
    <2>1. /\ UNCHANGED seqno /\ rt' = [rt EXCEPT ![n][p.src] = rt0]
          /\ net' \subseteq sent \cup {copy(m) : m \in Heard(n)}
      BY <1>10 DEF RelayRequest
    <2>2. Greater(p.dstseq, e.seqno) <= seqno[p.dst] + 1
      BY <1>3 DEF Greater
    <2>3. ASSUME NEW x \in {copy(m) : m \in Heard(n)}
          PROVE  Known(x)'
      <3>1. /\ x.type = "RREQ" /\ x.dst = p.dst /\ x.src = p.src
            /\ x.srcseq = p.srcseq /\ x.dstseq = Greater(p.dstseq, e.seqno)
        BY <1>1 DEF GoodRREQ, RREQs
      <3>2. UNCHANGED seqno
        BY <2>1
      <3> HIDE DEF copy, e
      <3> QED BY <1>3, <2>2, <3>1, <3>2 DEF Known
    <2> HIDE DEF copy
    <2>4. \A m \in Node : seqno[m] <= seqno'[m]
      BY <1>2, <2>1
    <2> QED BY <1>6, <1>7, <2>1, <2>3, <2>4 DEF FreshStep
  <1> QED BY <1>5, <1>8, <1>9, <1>10 DEF sent

LEMMA RecvReplyFresh ==
  ASSUME TypeInv, TypeInv', OwnerFreshest, NEW p \in net, p.type = "RREP", RecvReply(p)
  PROVE  FreshStep
  <1> DEFINE n == p.to
             rt0 == rt[n][p.daddr]
             new == rt_update(rt[n][p.dst], p.seq, p.hc, p.from)
             relay == n # p.daddr /\ rt0.hops # INFINITY2
             f == IF relay THEN pc_insert(new, rt0.nexthop) ELSE new
             onward == [p EXCEPT !.from = n, !.to = rt0.nexthop, !.hc = @ + 1,
                                 !.ttl = @ - 1]
  <1>1. /\ p \in GoodRREP /\ n \in Node /\ p.dst \in Node /\ p.from \in Node
        /\ p.seq \in Seqno /\ Usable(p.seq) /\ p.hc \in Hops \ {INFINITY2}
    BY PacketKinds DEF TypeInv, GoodRREP, RREPs
  <1>2. p.seq <= seqno[p.dst] /\ p.seq \in Nat /\ seqno[p.dst] \in Nat
    BY <1>1, OwnNumbers, PacketNumbers DEF OwnerFreshest
  <1>3. f.seqno = p.seq
    <2>1. rt[n][p.dst] \in GoodEntry
      BY <1>1 DEF TypeInv
    <2>2. new \in GoodEntry /\ new.seqno = p.seq
      BY <1>1, <2>1, UpdateGood, InvalidatedNumber
    <2> HIDE DEF new
    <2> QED BY <2>2, InvalidatedNumber
  <1>4. onward.type = "RREP" /\ onward.dst = p.dst /\ onward.seq = p.seq
    BY <1>1 DEF GoodRREP, RREPs
  <1>5. PICK Q : net' \subseteq (net \ {p}) \cup Forwarded(n, p.from, Q) \cup {onward}
    BY DEF RecvReply
  <1>6. rt' = [rt EXCEPT ![n][p.dst] = f] /\ UNCHANGED seqno
    BY DEF RecvReply
  <1> HIDE DEF f, onward
  <1>7. \A x \in {onward} : Known(x)'
    BY <1>2, <1>4, <1>6 DEF Known
  <1>8. /\ rt'[n][p.dst].seqno <= seqno'[p.dst] + 1
        /\ \A m, d \in Node : m # n \/ d # p.dst => rt'[m][d] = rt[m][d]
    <2>1. /\ rt'[n][p.dst] = f
          /\ \A m, d \in Node : m # n \/ d # p.dst => rt'[m][d] = rt[m][d]
      BY <1>1, <1>6 DEF TypeInv
    <2> QED BY <1>2, <1>3, <1>6, <2>1
  <1>9. \A m \in Node : seqno[m] <= seqno'[m]
    BY <1>6, OwnNumbers
  <1> QED BY <1>5, <1>7, <1>8, <1>9, ForwardedKnown DEF FreshStep

LEMMA RecvErrorFresh ==
  ASSUME TypeInv, TypeInv', OwnerFreshest, NEW p \in net, p.type = "RERR", RecvError(p)
  PROVE  FreshStep
  <1> DEFINE n == p.to
             hit == Hit(n, p)
             told == {d \in hit : rt[n][d].pc # {}}
             lost == [d \in told |-> p.lost[d]]
             f(d) == IF d \in hit
                     THEN pc_clear(rt_down([rt[n][d] EXCEPT !.seqno = p.lost[d]]))
                     ELSE rt[n][d]
  <1>1. p \in RERRs /\ n \in Node /\ UNCHANGED seqno
    BY PacketKinds DEF TypeInv, RecvError
  <1>2. \A d \in hit : d \in Node /\ p.lost[d] \in Seqno /\ p.lost[d] <= seqno[d] + 1
    <2>1. \A d \in hit : d \in Node /\ p.lost[d] \in Seqno
      BY <1>1 DEF Hit, RERRs, Unreachable
    <2>2. \A d \in hit : p.lost[d] <= seqno[d] + 1
      BY DEF Hit, OwnerFreshest
    <2> QED BY <2>1, <2>2
  <1>3. \A x \in RouteError(n, lost) : Known(x)'
    <2>1. \A d \in DOMAIN lost : lost[d] <= seqno'[d] + 1
      BY <1>1, <1>2
    <2> HIDE DEF lost
    <2> QED BY <2>1, RouteErrorKnown
  <1>4. \A d \in Node : f(d).seqno = rt[n][d].seqno \/ f(d).seqno <= seqno'[d] + 1
    <2> SUFFICES ASSUME NEW d \in Node, d \in hit
                 PROVE  f(d).seqno = p.lost[d]
      BY <1>1, <1>2
    <2>1. rt[n][d] \in GoodEntry /\ p.lost[d] \in Seqno
      BY <1>1, <1>2 DEF TypeInv
    <2>2. /\ rt_down([rt[n][d] EXCEPT !.seqno = p.lost[d]]) \in GoodEntry
          /\ rt_down([rt[n][d] EXCEPT !.seqno = p.lost[d]]).seqno = p.lost[d]
      BY <2>1, DownGood, InvalidatedNumber
    <2> QED BY <2>2, InvalidatedNumber
  <1>5. /\ rt' = [rt EXCEPT ![n] = [d \in Node |-> f(d)]]
        /\ net' \subseteq net \cup RouteError(n, lost)
    BY DEF RecvError
  <1> HIDE DEF f, lost
  <1>6. /\ \A d \in Node : rt'[n][d] = f(d)
        /\ \A m, d \in Node : m # n => rt'[m][d] = rt[m][d]
    BY <1>1, <1>5 DEF TypeInv
  <1>7. \A m, d \in Node : \/ rt'[m][d].seqno = rt[m][d].seqno
                           \/ rt'[m][d].seqno <= seqno'[d] + 1
    BY <1>4, <1>6
  <1> QED BY <1>1, <1>3, <1>5, <1>7, OwnNumbers DEF FreshStep

LEMMA StartRepairFresh ==
  ASSUME TypeInv, TypeInv', OwnerFreshest, NEW p \in DATAs, StartRepair(p)
  PROVE  FreshStep
  <1> DEFINE n == p.from
             d == p.dst
             q == [src |-> p.src, dst |-> d, id |-> p.id, copy |-> p.copy, fwd |-> p.fwd]
             e == [rt[n][d] EXCEPT !.flags = "IN_REPAIR"]
  <1>1. p \in DATAs /\ n \in Node /\ d \in Node
    BY DEF DATAs
  <1>2. q \in Data /\ q.dst = d
    BY <1>1 DEF Data, DATAs
  <1>3. e \in GoodEntry /\ e.seqno = rt[n][d].seqno
    <2>1. rt[n][d] \in GoodEntry /\ rt[n][d].hops \in Hops
      BY <1>1, EntryFields DEF TypeInv
    <2>2. rt[n][d].hops # INFINITY2
      <3>1. p.fwd \in 0 .. NETWORK_DIAMETER /\ p.fwd > rt[n][d].hops
        BY <1>1 DEF DATAs, StartRepair
      <3> QED BY <2>1, <3>1, ParameterAssumption, TableAssumption DEF Hops
    <2> QED BY <2>1, <2>2, RepairGood, InvalidatedNumber
  <1>4. EnqueAndRequest(n, q, e, net \ {p})
    BY DEF StartRepair
  <1> HIDE DEF q, e
  <1> QED BY <1>1, <1>2, <1>3, <1>4, EnqueAndRequestFresh

(* A route that is invalidated was finite, so its number was even and at    *)
(* most the owner's; counted up it is at most the odd successor.            *)
LEMMA LinkBrokenFresh ==
  ASSUME TypeInv, TypeInv', OwnerFreshest, NEW p \in DATAs, LinkBroken(p)
  PROVE  FreshStep
  <1> DEFINE n == p.from
             gone == ThroughNeighbor(n, p.to)
             lost == [d \in gone |-> rt[n][d].seqno + 1]
             f(d) == pc_delete(IF d \in gone THEN Invalidated(rt[n][d]) ELSE rt[n][d], p.to)
  <1>1. n \in Node
    BY DEF DATAs
  <1>2. \A m \in Node : /\ seqno[m] \in Nat /\ seqno'[m] \in Nat
                        /\ seqno[m] <= seqno'[m]
    <2>1. \A m \in Node : seqno[m] \in Nat /\ seqno'[m] \in Nat
      BY TableAssumption DEF TypeInv, OwnSeqno, Seqno
    <2>2. seqno' = [seqno EXCEPT ![n] = @ + 2]
      BY DEF LinkBroken
    <2> QED BY <1>1, <2>1, <2>2 DEF TypeInv
  <1>3. \A d \in gone : /\ d \in Node /\ rt[n][d].hops # INFINITY2
                        /\ rt[n][d].seqno + 1 <= seqno'[d] + 1
    <2> TAKE d \in gone
    <2>1. d \in Node /\ rt[n][d].hops # INFINITY2
      BY DEF ThroughNeighbor
    <2>2. rt[n][d].seqno <= seqno[d] /\ rt[n][d].seqno \in Nat
      BY <1>1, <2>1, FiniteBelow, EntryNumbers
    <2> QED BY <1>2, <2>1, <2>2
  <1>4. \A x \in RouteError(n, lost) : Known(x)'
    <2>1. \A d \in DOMAIN lost : lost[d] <= seqno'[d] + 1
      BY <1>3
    <2> HIDE DEF lost
    <2> QED BY <2>1, RouteErrorKnown
  <1>5. \A d \in Node : f(d).seqno = rt[n][d].seqno \/ f(d).seqno <= seqno'[d] + 1
    <2> TAKE d \in Node
    <2>1. rt[n][d] \in GoodEntry
      BY <1>1 DEF TypeInv
    <2>2. CASE d \in gone
      <3>1. Invalidated(rt[n][d]) \in GoodEntry
        BY <1>3, <2>1, <2>2, InvalidatedGood
      <3>2. Invalidated(rt[n][d]).seqno = rt[n][d].seqno + 1
        BY <2>1, InvalidatedNumber
      <3>3. f(d).seqno = Invalidated(rt[n][d]).seqno
        BY <2>2, <3>1, InvalidatedNumber
      <3> QED BY <1>3, <2>2, <3>2, <3>3
    <2>3. CASE d \notin gone
      BY <2>1, <2>3, InvalidatedNumber
    <2> QED BY <2>2, <2>3
  <1>6. /\ rt' = [rt EXCEPT ![n] = [d \in Node |-> f(d)]]
        /\ net' \subseteq net \cup RouteError(n, lost)
    BY DEF LinkBroken
  <1> HIDE DEF f, lost
  <1>7. /\ \A d \in Node : rt'[n][d] = f(d)
        /\ \A m, d \in Node : m # n => rt'[m][d] = rt[m][d]
    BY <1>1, <1>6 DEF TypeInv
  <1>8. \A m, d \in Node : \/ rt'[m][d].seqno = rt[m][d].seqno
                           \/ rt'[m][d].seqno <= seqno'[d] + 1
    BY <1>5, <1>7
  <1> QED BY <1>2, <1>4, <1>6, <1>8 DEF FreshStep

LEMMA RepairTimerFresh ==
  ASSUME TypeInv, TypeInv', OwnerFreshest, NEW n \in Node, NEW d \in Node, RepairTimer(n, d)
  PROVE  FreshStep
  <1> DEFINE f == IF rt[n][d].flags = "UP" THEN rt[n][d] ELSE rt_down(rt[n][d])
  <1>1. f.seqno = rt[n][d].seqno
    <2>1. rt[n][d] \in GoodEntry
      BY DEF TypeInv
    <2> QED BY <2>1, InvalidatedNumber
  <1>2. rt' = [rt EXCEPT ![n][d] = f] /\ UNCHANGED <<seqno, net>>
    BY DEF RepairTimer
  <1> HIDE DEF f
  <1>3. \A m, c \in Node : rt'[m][c].seqno = rt[m][c].seqno
    BY <1>1, <1>2 DEF TypeInv
  <1> QED BY <1>2, <1>3, OwnNumbers DEF FreshStep

(* The k-th request of one rt_purge carries the owner's number after k      *)
(* increments, at most what it ends up with.                                *)
LEMMA PurgeFresh ==
  ASSUME TypeInv, TypeInv', OwnerFreshest, NEW n \in Node, Purge(n)
  PROVE  FreshStep
  <1>1. PICK expired \in SUBSET UpRoutes(n), asked \in SUBSET WantedRoutes(n) :
          \E dropped \in SUBSET (WantedRoutes(n) \ asked),
             order \in Injection(asked, 1 .. Cardinality(asked)), ttl \in [asked -> RingTTL] :
          \E old \in IF UpRoutes(n) \cup dropped = {} THEN {{}} ELSE SUBSET queue[n] :
            PurgeRoutes(n, expired, asked, dropped, order, ttl, old)
    BY DEF Purge
  <1> DEFINE k == Cardinality(asked)
  <1>2. PICK order \in Injection(asked, 1 .. k) : \E dropped, ttl, old :
          PurgeRoutes(n, expired, asked, dropped, order, ttl, old)
    BY <1>1
  <1> PICK dropped, ttl, old : PurgeRoutes(n, expired, asked, dropped, order, ttl, old)
    BY <1>2
  <1>3. asked \subseteq Node /\ expired \subseteq Node /\ expired \subseteq UpRoutes(n)
    BY DEF WantedRoutes, UpRoutes
  <1>4. k \in Nat
    BY <1>3, NodeAssumption, FS_Subset, FS_CardinalityType
  <1>5. \A d \in asked : order[d] \in 1 .. k
    BY <1>2 DEF Injection
  <1>6. seqno' = [seqno EXCEPT ![n] = @ + 2 * k]
    BY DEF PurgeRoutes, k
  <1> HIDE DEF k
  <1>7. /\ seqno'[n] = seqno[n] + 2 * k
        /\ \A m \in Node : /\ seqno[m] \in Nat /\ seqno'[m] \in Nat
                            /\ seqno[m] <= seqno'[m]
    <2>1. \A m \in Node : seqno[m] \in Nat /\ seqno'[m] \in Nat
      BY TableAssumption DEF TypeInv, OwnSeqno, Seqno
    <2>2. /\ seqno'[n] = seqno[n] + 2 * k
          /\ \A m \in Node : m # n => seqno'[m] = seqno[m]
      BY <1>6 DEF TypeInv
    <2> QED BY <1>4, <2>1, <2>2
  <1>8. ASSUME NEW x \in PurgeSends(n, UpRoutes(n) \ expired, asked, order, ttl, old)
        PROVE  Known(x)'
    <2>1. CASE \E d : x \in Forwarded(n, rt[n][d].nexthop, Waiting(n, d) \ old)
      BY <2>1, ForwardedKnown
    <2>2. CASE \E d \in asked : x \in RouteRequest(n, d, order[d], ttl[d])
      <3>1. PICK d \in asked : x \in RouteRequest(n, d, order[d], ttl[d])
        BY <2>2
      <3>2. order[d] \in Nat /\ seqno[n] + 2 * order[d] <= seqno'[n]
        <4>1. order[d] \in Nat /\ order[d] <= k
          BY <1>4, <1>5
        <4> QED BY <1>4, <1>7, <4>1
      <3>3. d \in Node /\ seqno[d] <= seqno'[d]
        BY <1>3, <1>7
      <3> QED BY <3>1, <3>2, <3>3, RouteRequestKnown
    <2> QED BY <2>1, <2>2 DEF PurgeSends
  <1> DEFINE f(d) == IF d \in expired THEN Invalidated(rt[n][d])
                     ELSE IF d \in asked THEN [rt[n][d] EXCEPT !.req = TRUE]
                     ELSE rt[n][d]
  <1>9. \A d \in Node : f(d).seqno = rt[n][d].seqno \/ f(d).seqno <= seqno'[d] + 1
    <2> TAKE d \in Node
    <2>1. rt[n][d] \in GoodEntry
      BY DEF TypeInv
    <2>2. CASE d \in expired
      <3>1. rt[n][d].hops # INFINITY2
        BY <1>3, <2>1, <2>2, EntryFields DEF UpRoutes
      <3>2. rt[n][d].seqno <= seqno[d] /\ rt[n][d].seqno \in Nat
        BY <3>1, FiniteBelow, EntryNumbers
      <3>3. f(d).seqno = rt[n][d].seqno + 1
        BY <2>1, <2>2, InvalidatedNumber
      <3> HIDE DEF f
      <3> QED BY <1>7, <3>2, <3>3
    <2>3. CASE d \notin expired
      BY <2>1, <2>3, InvalidatedNumber
    <2> QED BY <2>2, <2>3
  <1>10. /\ rt' = [rt EXCEPT ![n] = [d \in Node |-> f(d)]]
         /\ net' = net \cup PurgeSends(n, UpRoutes(n) \ expired, asked, order, ttl, old)
    BY DEF PurgeRoutes
  <1> HIDE DEF f
  <1>11. /\ \A d \in Node : rt'[n][d] = f(d)
         /\ \A m, d \in Node : m # n => rt'[m][d] = rt[m][d]
    BY <1>10 DEF TypeInv
  <1>12. \A m, d \in Node : \/ rt'[m][d].seqno = rt[m][d].seqno
                            \/ rt'[m][d].seqno <= seqno'[d] + 1
    BY <1>9, <1>11
  <1> QED BY <1>7, <1>8, <1>10, <1>12 DEF FreshStep

LEMMA NextFresh ==
  ASSUME TypeIInv, TypeInv', OwnerFreshest, [Next]_vars
  PROVE  FreshStep
  <1> USE DEF TypeIInv
  <1>1. ASSUME NEW f \in Flow, Originate(f[1], f[2])
        PROVE  FreshStep
    <2>1. f[1] \in Node /\ f[2] \in Node
      BY FlowAssumption
    <2> QED BY <1>1, <2>1, OriginateFresh
  <1>2. ASSUME NEW p \in net, Receive(p)
        PROVE  FreshStep
    <2>1. CASE DataEnds(p) \/ RequestDiscarded(p) \/ ReplySuppressed(p)
      BY <2>1, QuietFresh DEF DataEnds, RequestDiscarded, ReplySuppressed
    <2> QED BY <1>2, <2>1, DataRelayedFresh, RecvRequestFresh, RecvReplyFresh, RecvErrorFresh
            DEF Receive
  <1>3. ASSUME NEW p \in net \cup unacked, TransmitFailed(p)
        PROVE  FreshStep
    BY <1>3, HandedBack, StartRepairFresh, LinkBrokenFresh DEF TransmitFailed
  <1>4. ASSUME NEW n \in Node, NEW d \in Node, RepairTimer(n, d)
        PROVE  FreshStep
    BY <1>4, RepairTimerFresh
  <1>5. ASSUME NEW n \in Node, Purge(n) \/ IdPurge(n)
        PROVE  FreshStep
    BY <1>5, PurgeFresh, QuietFresh DEF IdPurge
  <1>6. CASE UNCHANGED vars
    BY <1>6, QuietFresh DEF vars
  <1> QED BY <1>1, <1>2, <1>3, <1>4, <1>5, <1>6, ParameterAssumption DEF Next

NumberInv == TypeIInv /\ OwnerFreshest

LEMMA InitNumber == Init => NumberInv
  <1>1. 2 \in Nat /\ 0 <= 2 + 1
    OBVIOUS
  <1> QED BY <1>1, InitType DEF Init, NumberInv, OwnerFreshest, FreshEntry

LEMMA NextNumber == NumberInv /\ [Next]_vars => NumberInv'
  BY NextType, NextFresh, FreshKept DEF NumberInv, TypeIInv

(* Nobody, in a table or in a packet however old, knows a destination by a  *)
(* number beyond the odd successor of its own: an answer of its own is      *)
(* fresher than everything that is known of it.                             *)
THEOREM NumbersAreTheOwners == Spec => []OwnerFreshest
  <1>1. NumberInv => OwnerFreshest
    BY DEF NumberInv
  <1> QED BY <1>1, InitNumber, NextNumber, PTL DEF Spec

-----------------------------------------------------------------------------
(* The copies of packets are told apart by the pair <<id, copy>>.  Those    *)
(* the agents have are in flight or in a buffer; no two of them share a     *)
(* pair (Unique), and lost acknowledgements bound the pairs (CopyNumbers).  *)
DataIn(X) == {p \in X : p.type = "DATA"}
Is(x, i, c) == x.id = i /\ x.copy = c

Out(i, c) ==
  \/ \E p \in DataIn(net) : Is(p, i, c)
  \/ \E n \in Node : \E q \in queue[n] : Is(q, i, c)

Unique ==
  /\ \A p, x \in DataIn(net) : Is(p, x.id, x.copy) => p = x
  /\ \A n, m \in Node : \A q \in queue[n], r \in queue[m] :
       Is(q, r.id, r.copy) => n = m /\ q = r
  /\ \A p \in DataIn(net), n \in Node : \A q \in queue[n] : ~Is(p, q.id, q.copy)

(* Without local repair only originals are out.  What the MAC still holds   *)
(* is a copy that nobody else has.                                          *)
CopyNumbers ==
  /\ \A i, c : Out(i, c) =>
       i <= nsent /\ c <= lostacks[i] /\ (LocalRepair \/ c = 0)
  /\ \A u \in unacked :
       u.id <= nsent /\ u.copy <= lostacks[u.id] /\ ~Out(u.id, u.copy)
  /\ \A u, v \in unacked : Is(u, v.id, v.copy) => u = v

CopyIInv == TypeIInv /\ Unique /\ CopyNumbers

NothingNew == \A i, c : Out(i, c)' => Out(i, c)

-----------------------------------------------------------------------------
(* A handler either lets packets out of one buffer, each over one route, or *)
(* brings in one copy, in one place, that it was given or has just          *)
(* numbered: ReleaseStep and AcceptStep.                                    *)

(* What n lets out of its buffer is no longer there; F says over which route *)
(* each packet leaves.                                                       *)
ReleaseStep ==
  /\ \A m \in Node : queue'[m] \subseteq queue[m]
  /\ \E n \in Node : \E F :
       \A x \in DataIn(net') :
         x \in net \/ \E q \in queue[n] \ queue'[n] : x = F[q] /\ Is(x, q.id, q.copy)

(* The copy <<i, c>>, nowhere in a buffer and out of the network if it was  *)
(* there, is put either into the network, as y, or into the buffer of n.    *)
AcceptStep(i, c) ==
  /\ \A m \in Node : \A q \in queue[m] : ~Is(q, i, c)
  /\ \/ /\ \A m \in Node : queue'[m] \subseteq queue[m]
        /\ \E y : /\ Is(y, i, c)
                  /\ \A x \in DataIn(net') : (x \in net /\ ~Is(x, i, c)) \/ x = y
     \/ /\ \A x \in DataIn(net') : x \in net /\ ~Is(x, i, c)
        /\ \E n, r : /\ Is(r, i, c)
                     /\ \A m \in Node : \A q \in queue'[m] :
                          q \in queue[m] \/ (m = n /\ q = r)

LEMMA ReleaseKeeps ==
  ASSUME Unique, ReleaseStep
  PROVE  Unique' /\ NothingNew
  <1>1. PICK n \in Node : \E F :
          \A x \in DataIn(net') :
            x \in net \/ \E q \in queue[n] \ queue'[n] : x = F[q] /\ Is(x, q.id, q.copy)
    BY DEF ReleaseStep
  <1>2. PICK F : \A x \in DataIn(net') :
          x \in net \/ \E q \in queue[n] \ queue'[n] : x = F[q] /\ Is(x, q.id, q.copy)
    BY <1>1
  <1>3. \A x \in DataIn(net') : x \in DataIn(net) \/
          \E q \in queue[n] : q \notin queue'[n] /\ x = F[q] /\ Is(x, q.id, q.copy)
    BY <1>2 DEF DataIn
  <1>4. \A m \in Node : \A q \in queue'[m] : q \in queue[m]
    BY DEF ReleaseStep
  <1>5. \A p, x \in DataIn(net') : Is(p, x.id, x.copy) => p = x
    BY <1>3 DEF Unique, Is
  <1>6. \A p \in DataIn(net'), m \in Node : \A q \in queue'[m] : ~Is(p, q.id, q.copy)
    BY <1>3, <1>4 DEF Unique, Is
  <1>7. \A k, m \in Node : \A q \in queue'[k], r \in queue'[m] :
          Is(q, r.id, r.copy) => k = m /\ q = r
    BY <1>4 DEF Unique
  <1>8. NothingNew
    <2> SUFFICES ASSUME NEW i, NEW c, Out(i, c)' PROVE Out(i, c)
      BY DEF NothingNew
    <2>1. CASE \E x \in DataIn(net') : Is(x, i, c)
      BY <1>3, <2>1 DEF Out, Is
    <2>2. CASE \E m \in Node : \E q \in queue'[m] : Is(q, i, c)
      BY <1>4, <2>2 DEF Out
    <2> QED BY <2>1, <2>2 DEF Out, DataIn, Is
  <1> QED BY <1>5, <1>6, <1>7, <1>8 DEF Unique, DataIn, Is

LEMMA AcceptKeeps ==
  ASSUME Unique, NEW i, NEW c, AcceptStep(i, c)
  PROVE  Unique' /\ \A j, k : Out(j, k)' => Out(j, k) \/ (j = i /\ k = c)
  <1>1. \A m \in Node : \A q \in queue[m] : ~Is(q, i, c)
    BY DEF AcceptStep
  <1>2. \A x \in DataIn(net') : x \in net => x \in DataIn(net)
    BY DEF DataIn
  <1>3. CASE /\ \A m \in Node : queue'[m] \subseteq queue[m]
             /\ \E y : /\ Is(y, i, c)
                       /\ \A x \in DataIn(net') : (x \in net /\ ~Is(x, i, c)) \/ x = y
    <2>1. PICK y : Is(y, i, c) /\ \A x \in DataIn(net') : (x \in net /\ ~Is(x, i, c)) \/ x = y
      BY <1>3
    <2>2. \A x \in DataIn(net') : (x \in DataIn(net) /\ ~Is(x, i, c)) \/ (x = y /\ Is(x, i, c))
      BY <1>2, <2>1
    <2>3. \A m \in Node : \A q \in queue'[m] : q \in queue[m]
      BY <1>3
    <2>4. \A p, x \in DataIn(net') : Is(p, x.id, x.copy) => p = x
      BY <2>2 DEF Unique, Is
    <2>5. \A p \in DataIn(net'), m \in Node : \A q \in queue'[m] : ~Is(p, q.id, q.copy)
      BY <1>1, <2>2, <2>3 DEF Unique, Is
    <2>6. \A k, m \in Node : \A q \in queue'[k], r \in queue'[m] :
            Is(q, r.id, r.copy) => k = m /\ q = r
      BY <2>3 DEF Unique
    <2>7. \A j, k : Out(j, k)' => Out(j, k) \/ (j = i /\ k = c)
      BY <2>2, <2>3 DEF Out, DataIn, Is
    <2> QED BY <2>4, <2>5, <2>6, <2>7 DEF Unique, DataIn, Is
  <1>4. CASE /\ \A x \in DataIn(net') : x \in net /\ ~Is(x, i, c)
             /\ \E n, r : /\ Is(r, i, c)
                          /\ \A m \in Node : \A q \in queue'[m] :
                               q \in queue[m] \/ (m = n /\ q = r)
    <2>1. PICK n, r : /\ Is(r, i, c)
                      /\ \A m \in Node : \A q \in queue'[m] :
                           q \in queue[m] \/ (m = n /\ q = r)
      BY <1>4
    <2>2. \A x \in DataIn(net') : x \in DataIn(net) /\ ~Is(x, i, c)
      BY <1>2, <1>4
    <2>3. \A m \in Node : \A q \in queue'[m] :
            (q \in queue[m] /\ ~Is(q, i, c)) \/ (m = n /\ q = r /\ Is(q, i, c))
      BY <1>1, <2>1
    <2>4. \A p, x \in DataIn(net') : Is(p, x.id, x.copy) => p = x
      BY <2>2 DEF Unique
    <2>5. \A p \in DataIn(net'), m \in Node : \A q \in queue'[m] : ~Is(p, q.id, q.copy)
      BY <2>2, <2>3 DEF Unique, Is
    <2>6. \A k, m \in Node : \A q \in queue'[k], t \in queue'[m] :
            Is(q, t.id, t.copy) => k = m /\ q = t
      BY <2>3 DEF Unique, Is
    <2>7. \A j, k : Out(j, k)' => Out(j, k) \/ (j = i /\ k = c)
      BY <2>2, <2>3 DEF Out, DataIn, Is
    <2> QED BY <2>4, <2>5, <2>6, <2>7 DEF Unique, DataIn, Is
  <1> QED BY <1>3, <1>4 DEF AcceptStep

-----------------------------------------------------------------------------
(* What the transmission routines send, as copies of data packets. *)
Sent(n, via, q) ==
  [type |-> "DATA", from |-> n, to |-> via, src |-> q.src, dst |-> q.dst,
   id |-> q.id, copy |-> q.copy, fwd |-> q.fwd]

LEMMA ForwardedCopies ==
  ASSUME NEW n, NEW via, NEW Q
  PROVE  \A x \in Forwarded(n, via, Q) :
           \E q \in Q : x = Sent(n, via, q) /\ Is(x, q.id, q.copy) /\ x.type = "DATA"
  BY DEF Forwarded, Sent, Is

LEMMA NoData ==
  /\ \A n, d, k, ttl : \A x \in RouteRequest(n, d, k, ttl) : x.type = "RREQ"
  /\ \A n, via, r, d, s, h : RouteReply(n, via, r, d, s, h).type = "RREP"
  /\ \A n, lost : \A x \in RouteError(n, lost) : x.type = "RERR"
  BY DEF RouteRequest, RouteReply, RouteError

LEMMA QuietRelease ==
  ASSUME UNCHANGED queue, \A x \in net' : x.type = "DATA" => x \in net
  PROVE  ReleaseStep
  <1>1. \A x \in DataIn(net') : x \in net
    BY DEF DataIn
  <1> QED BY <1>1, TableAssumption DEF ReleaseStep

(* n lets go of the packets of its buffer that wait for d, over via. *)
LEMMA OverOneRoute ==
  ASSUME TypeInv, NEW n \in Node, NEW d, NEW via, NEW old,
         queue' = [queue EXCEPT ![n] = Released(n, d, old)],
         \A x \in net' : x.type = "DATA" =>
           x \in net \/ x \in Forwarded(n, via, Waiting(n, d) \ old)
  PROVE  ReleaseStep
  <1> DEFINE F == [q \in queue[n] |-> Sent(n, via, q)]
  <1>1. /\ \A m \in Node : queue'[m] \subseteq queue[m]
        /\ queue'[n] = Released(n, d, old)
    BY DEF TypeInv, Released
  <1>2. ASSUME NEW x \in DataIn(net')
        PROVE  x \in net \/ \E q \in queue[n] \ queue'[n] : x = F[q] /\ Is(x, q.id, q.copy)
    <2>1. CASE x \in Forwarded(n, via, Waiting(n, d) \ old)
      <3>1. PICK q \in Waiting(n, d) \ old : x = Sent(n, via, q) /\ Is(x, q.id, q.copy)
        BY <2>1, ForwardedCopies
      <3>2. q \in queue[n] \ queue'[n]
        BY <1>1 DEF Released, Waiting
      <3> QED BY <3>1, <3>2
    <2> QED BY <2>1 DEF DataIn
  <1> HIDE DEF F
  <1> QED BY <1>1, <1>2 DEF ReleaseStep

-----------------------------------------------------------------------------
(* The handlers. *)
LEMMA EnqueAndRequestAccepts ==
  ASSUME TypeInv, NEW n \in Node, NEW q, NEW e, NEW sent,
         EnqueAndRequest(n, q, e, sent)
  PROVE  /\ \A m \in Node : \A x \in queue'[m] : x \in queue[m] \/ (m = n /\ x = q)
         /\ \A x \in net' : x.type = "DATA" => x \in sent
  <1>1. PICK Q : queue' = [queue EXCEPT ![n] = Q] /\ Q \subseteq queue[n] \cup {q}
    BY DEF EnqueAndRequest
  <1>2. \A x \in net' : x.type = "DATA" => x \in sent
    BY NoData DEF EnqueAndRequest
  <1>3. \A m \in Node : \A x \in queue'[m] : x \in queue[m] \/ (m = n /\ x = q)
    BY <1>1 DEF TypeInv
  <1> QED BY <1>2, <1>3

LEMMA OriginateCopies ==
  ASSUME TypeInv, CopyNumbers, NEW n \in Node, NEW d \in Node, Originate(n, d)
  PROVE  AcceptStep(nsent + 1, 0)
  <1> DEFINE i == nsent + 1
             q == [src |-> n, dst |-> d, id |-> i, copy |-> 0, fwd |-> 0]
  <1>1. ~Out(i, 0)
    <2>1. nsent \in Nat
      BY ParameterAssumption DEF TypeInv
    <2>2. Out(i, 0) => i <= nsent
      BY DEF CopyNumbers
    <2> QED BY <2>1, <2>2
  <1>2. /\ \A p \in DataIn(net) : ~Is(p, i, 0)
        /\ \A m \in Node : \A x \in queue[m] : ~Is(x, i, 0)
    BY <1>1 DEF Out
  <1>3. CASE /\ net' = net \cup Forwarded(n, rt[n][d].nexthop, {q})
             /\ UNCHANGED queue
    <2> DEFINE y == Sent(n, rt[n][d].nexthop, q)
    <2>1. Is(y, i, 0)
      BY DEF Sent, Is
    <2>2. \A x \in Forwarded(n, rt[n][d].nexthop, {q}) : x = y
      <3> HIDE DEF q
      <3> QED BY ForwardedCopies
    <2> HIDE DEF y, q
    <2>3. \A x \in DataIn(net') : (x \in net /\ ~Is(x, i, 0)) \/ x = y
      BY <1>2, <1>3, <2>2 DEF DataIn
    <2>4. \A m \in Node : queue'[m] \subseteq queue[m]
      BY <1>3
    <2> QED BY <1>2, <2>1, <2>3, <2>4 DEF AcceptStep
  <1>4. CASE EnqueAndRequest(n, q, rt[n][d], net)
    <2>1. Is(q, i, 0)
      BY DEF Is
    <2> HIDE DEF q
    <2>2. \A x \in DataIn(net') : x \in net /\ ~Is(x, i, 0)
      BY <1>2, <1>4, EnqueAndRequestAccepts DEF DataIn
    <2>3. \A m \in Node : \A x \in queue'[m] : x \in queue[m] \/ (m = n /\ x = q)
      BY <1>4, EnqueAndRequestAccepts
    <2> QED BY <1>2, <2>1, <2>2, <2>3 DEF AcceptStep
  <1> QED BY <1>3, <1>4 DEF Originate

(* The pair of a packet that a handler has taken from the network, or that  *)
(* the MAC hands back and nobody else has, is free.                         *)
LEMMA Taken ==
  ASSUME TypeInv, Unique, NEW p \in DATAs, p \in net \/ ~Out(p.id, p.copy)
  PROVE  /\ \A x \in DataIn(net) : x = p \/ ~Is(x, p.id, p.copy)
         /\ \A m \in Node : \A q \in queue[m] : ~Is(q, p.id, p.copy)
  <1>1. CASE p \in net
    <2>1. p \in DataIn(net)
      BY <1>1 DEF DataIn, DATAs
    <2> QED BY <2>1 DEF Unique, Is
  <1>2. CASE ~Out(p.id, p.copy)
    BY <1>2 DEF Out
  <1> QED BY <1>1, <1>2

LEMMA DataRelayedCopies ==
  ASSUME TypeInv, Unique, NEW p \in net, p.type = "DATA", DataRelayed(p)
  PROVE  AcceptStep(p.id, p.copy) \/ ReleaseStep
  <1> DEFINE n == p.to
             via == rt[n][p.dst].nexthop
             q == [src |-> p.src, dst |-> p.dst, id |-> p.id, copy |-> p.copy,
                   fwd |-> p.fwd + 1]
             y == Sent(n, via, q)
  <1>1. n \in Node /\ p \in DATAs
    BY PacketKinds DEF TypeInv
  <1>2. Is(q, p.id, p.copy) /\ Is(y, p.id, p.copy)
    BY DEF Sent, Is
  <1>3. CASE net' = (net \ {p}) \cup Forwarded(n, via, {q}) /\ UNCHANGED queue
    <2>1. \A x \in Forwarded(n, via, {q}) : x = y
      <3> HIDE DEF q
      <3> QED BY ForwardedCopies
    <2> HIDE DEF y, q
    <2>2. \A x \in DataIn(net') : (x \in net /\ ~Is(x, p.id, p.copy)) \/ x = y
      BY <1>1, <1>3, <2>1, Taken DEF DataIn
    <2> QED BY <1>1, <1>2, <1>3, <2>2, Taken DEF AcceptStep
  <1>4. CASE /\ \E old \in SUBSET queue[n] :
                  queue' = [queue EXCEPT ![n] = (@ \ old) \cup {q}]
             /\ net' = net \ {p}
    <2> HIDE DEF q
    <2>1. \A x \in DataIn(net') : x \in net /\ ~Is(x, p.id, p.copy)
      BY <1>1, <1>4, Taken DEF DataIn
    <2>2. \A m \in Node : \A x \in queue'[m] : x \in queue[m] \/ (m = n /\ x = q)
      BY <1>1, <1>4 DEF TypeInv
    <2> QED BY <1>1, <1>2, <2>1, <2>2, Taken DEF AcceptStep
  <1>5. CASE /\ UNCHANGED queue
             /\ \E lost : net' = (net \ {p}) \cup RouteError(n, lost)
    BY <1>5, NoData, QuietRelease
  <1> QED BY <1>3, <1>4, <1>5 DEF DataRelayed

LEMMA RecvRequestCopies ==
  ASSUME TypeInv, NEW p \in net, p.type = "RREQ", RecvRequest(p)
  PROVE  ReleaseStep
  <1> DEFINE n == p.to
             rt0 == ReverseRoute(n, p)
             learnt == Fresher(rt[n][p.src], p.srcseq, p.hc)
             go(old) == IF learnt THEN Waiting(n, p.src) \ old ELSE {}
             sent(old) == (net \ {p}) \cup Forwarded(n, p.from, go(old))
  <1>1. n \in Node
    BY PacketKinds DEF TypeInv
  <1>2. PICK old :
          /\ queue' = [queue EXCEPT ![n] = IF learnt THEN Released(n, p.src, old) ELSE @]
          /\ \/ AnswerOwn(n, p, rt0, sent(old))
             \/ AnswerKnown(n, p, rt0, sent(old))
             \/ RelayRequest(n, p, rt0, sent(old))
    BY DEF RecvRequest
  <1>3. \A x \in net' : x.type = "DATA" => x \in sent(old)
    <2>1. p \in RREQs
      BY PacketKinds DEF TypeInv, GoodRREQ
    <2>2. \A m : [p EXCEPT !.from = n, !.to = m, !.hc = @ + 1, !.ttl = @ - 1,
                   !.dstseq = Greater(@, rt[n][p.dst].seqno)].type = "RREQ"
      BY <2>1 DEF RREQs
    <2> HIDE DEF sent, rt0
    <2>3. CASE AnswerOwn(n, p, rt0, sent(old))
      BY <2>3, NoData DEF AnswerOwn
    <2>4. CASE AnswerKnown(n, p, rt0, sent(old))
      BY <2>4, NoData DEF AnswerKnown
    <2>5. CASE RelayRequest(n, p, rt0, sent(old))
      BY <2>2, <2>5 DEF RelayRequest
    <2> QED BY <1>2, <2>3, <2>4, <2>5
  <1>4. CASE learnt
    BY <1>1, <1>2, <1>3, <1>4, OverOneRoute
  <1>5. CASE ~learnt
    <2>1. UNCHANGED queue
      BY <1>1, <1>2, <1>5 DEF TypeInv
    <2>2. Forwarded(n, p.from, {}) = {}
      BY DEF Forwarded
    <2> QED BY <1>1, <1>3, <1>5, <2>1, <2>2, QuietRelease
  <1> QED BY <1>4, <1>5

LEMMA RecvReplyCopies ==
  ASSUME TypeInv, NEW p \in net, p.type = "RREP", RecvReply(p)
  PROVE  ReleaseStep
  <1> DEFINE n == p.to
             onward == [p EXCEPT !.from = n, !.to = rt[n][p.daddr].nexthop, !.hc = @ + 1,
                                 !.ttl = @ - 1]
  <1>1. n \in Node
    BY PacketKinds DEF TypeInv
  <1>2. onward.type = "RREP"
    BY PacketKinds DEF TypeInv, GoodRREP, RREPs
  <1>3. PICK old :
          /\ queue' = [queue EXCEPT ![n] = Released(n, p.dst, old)]
          /\ net' \subseteq (net \ {p}) \cup Forwarded(n, p.from, Waiting(n, p.dst) \ old)
                            \cup {onward}
    BY DEF RecvReply
  <1> HIDE DEF onward
  <1>4. \A x \in net' : x.type = "DATA" =>
          x \in net \/ x \in Forwarded(n, p.from, Waiting(n, p.dst) \ old)
    BY <1>2, <1>3
  <1> QED BY <1>1, <1>3, <1>4, OverOneRoute

LEMMA StartRepairCopies ==
  ASSUME TypeInv, Unique, NEW p \in DATAs, p \in net \/ ~Out(p.id, p.copy), StartRepair(p)
  PROVE  AcceptStep(p.id, p.copy)
  <1> DEFINE n == p.from
             q == [src |-> p.src, dst |-> p.dst, id |-> p.id, copy |-> p.copy, fwd |-> p.fwd]
             e == [rt[n][p.dst] EXCEPT !.flags = "IN_REPAIR"]
  <1>1. n \in Node
    BY DEF DATAs
  <1>2. EnqueAndRequest(n, q, e, net \ {p})
    BY DEF StartRepair
  <1>3. Is(q, p.id, p.copy)
    BY DEF Is
  <1> HIDE DEF q, e
  <1>4. \A x \in DataIn(net') : x \in net /\ ~Is(x, p.id, p.copy)
    BY <1>1, <1>2, EnqueAndRequestAccepts, Taken DEF DataIn
  <1>5. \A m \in Node : \A x \in queue'[m] : x \in queue[m] \/ (m = n /\ x = q)
    BY <1>1, <1>2, EnqueAndRequestAccepts
  <1> QED BY <1>3, <1>4, <1>5, Taken DEF AcceptStep

(* rt_purge lets the packets for each valid route go over that route. *)
LEMMA PurgeCopies ==
  ASSUME TypeInv, NEW n \in Node, Purge(n)
  PROVE  ReleaseStep
  <1>1. PICK expired \in SUBSET UpRoutes(n), asked \in SUBSET WantedRoutes(n) :
          \E dropped, order, ttl, old : PurgeRoutes(n, expired, asked, dropped, order, ttl, old)
    BY DEF Purge
  <1> PICK dropped, order, ttl, old :
        PurgeRoutes(n, expired, asked, dropped, order, ttl, old)
    BY <1>1
  <1> DEFINE valid == UpRoutes(n) \ expired
             leave == {q \in queue[n] : q.dst \in expired \cup valid \cup dropped}
             F == [q \in queue[n] |-> Sent(n, rt[n][q.dst].nexthop, q)]
  <1>2. /\ queue' = [queue EXCEPT ![n] = @ \ (old \cup leave)]
        /\ net' = net \cup PurgeSends(n, valid, asked, order, ttl, old)
    BY DEF PurgeRoutes
  <1>3. /\ \A m \in Node : queue'[m] \subseteq queue[m]
        /\ queue'[n] = queue[n] \ (old \cup leave)
    BY <1>2 DEF TypeInv
  <1>4. ASSUME NEW x \in DataIn(net')
        PROVE  x \in net \/ \E q \in queue[n] \ queue'[n] : x = F[q] /\ Is(x, q.id, q.copy)
    <2>1. \/ x \in net
          \/ \E d \in valid : x \in Forwarded(n, rt[n][d].nexthop, Waiting(n, d) \ old)
          \/ \E d \in asked : x \in RouteRequest(n, d, order[d], ttl[d])
      BY <1>2 DEF PurgeSends, DataIn
    <2>2. CASE \E d \in valid : x \in Forwarded(n, rt[n][d].nexthop, Waiting(n, d) \ old)
      <3>1. PICK d \in valid : x \in Forwarded(n, rt[n][d].nexthop, Waiting(n, d) \ old)
        BY <2>2
      <3>2. PICK q \in Waiting(n, d) \ old : x = Sent(n, rt[n][d].nexthop, q) /\ Is(x, q.id, q.copy)
        BY <3>1, ForwardedCopies
      <3>3. q \in queue[n] /\ q.dst = d /\ q \in leave
        BY <3>1 DEF Waiting
      <3>4. q \in queue[n] \ queue'[n]
        BY <1>3, <3>3
      <3> QED BY <3>2, <3>3, <3>4
    <2>3. CASE \E d \in asked : x \in RouteRequest(n, d, order[d], ttl[d])
      BY <2>3, NoData DEF DataIn
    <2> QED BY <2>1, <2>2, <2>3
  <1> HIDE DEF F, leave, valid
  <1> QED BY <1>3, <1>4 DEF ReleaseStep

(* Receiving adds no copy: what a relay accepts it took from the network. *)
LEMMA ReceiveCopies ==
  ASSUME TypeInv, Unique, NEW p \in net, Receive(p)
  PROVE  Unique' /\ NothingNew
  <1>1. CASE DataEnds(p) \/ RequestDiscarded(p) \/ ReplySuppressed(p)
    BY <1>1, QuietRelease, ReleaseKeeps DEF DataEnds, RequestDiscarded, ReplySuppressed
  <1>2. CASE RecvError(p)
    BY <1>2, QuietRelease, NoData, ReleaseKeeps DEF RecvError
  <1>3. CASE p.type = "DATA" /\ DataRelayed(p)
    <2>1. CASE ReleaseStep
      BY <2>1, ReleaseKeeps
    <2>2. CASE AcceptStep(p.id, p.copy)
      <3>1. Out(p.id, p.copy)
        BY <1>3 DEF Out, DataIn, Is
      <3> QED BY <2>2, <3>1, AcceptKeeps DEF NothingNew
    <2> QED BY <1>3, <2>1, <2>2, DataRelayedCopies
  <1>4. CASE p.type = "RREQ" /\ RecvRequest(p)
    BY <1>4, RecvRequestCopies, ReleaseKeeps
  <1>5. CASE p.type = "RREP" /\ RecvReply(p)
    BY <1>5, RecvReplyCopies, ReleaseKeeps
  <1> QED BY <1>1, <1>2, <1>3, <1>4, <1>5 DEF Receive

LEMMA TransmitFailedCopies ==
  ASSUME CopyIInv, NEW p \in net \cup unacked, TransmitFailed(p)
  PROVE  /\ Unique'
         /\ \A i, c : Out(i, c)' =>
              Out(i, c) \/ (LocalRepair /\ i = p.id /\ c = p.copy)
  <1>1. TypeInv /\ Unique /\ p \in DATAs
    BY HandedBack DEF CopyIInv, TypeIInv, TransmitFailed
  <1>2. CASE LinkBroken(p)
    BY <1>1, <1>2, QuietRelease, NoData, ReleaseKeeps DEF LinkBroken, NothingNew
  <1>3. CASE StartRepair(p)
    <2>1. p \in net \/ ~Out(p.id, p.copy)
      BY DEF CopyIInv, CopyNumbers
    <2>2. LocalRepair
      BY <1>3 DEF StartRepair
    <2> QED BY <1>1, <1>3, <2>1, <2>2, StartRepairCopies, AcceptKeeps
  <1> QED BY <1>2, <1>3 DEF TransmitFailed

-----------------------------------------------------------------------------
(* Where the pairs come from: originating a packet makes <<nsent + 1, 0>>,  *)
(* a lost acknowledgement the next copy, which the MAC holds, and a repair  *)
(* puts that one into a buffer.                                             *)
LEMMA PairType ==
  ASSUME TypeIInv
  PROVE  /\ nsent \in Nat
         /\ \A i, c : Out(i, c) => i \in 1 .. MaxData /\ i \in Nat /\ c \in Nat
         /\ \A u \in unacked : u.id \in 1 .. MaxData /\ u.id \in Nat /\ u.copy \in Nat
         /\ \A i \in 1 .. MaxData : lostacks[i] \in Nat
  <1>1. nsent \in Nat
    BY ParameterAssumption DEF TypeIInv, TypeInv
  <1>2. \A i \in 1 .. MaxData : lostacks[i] \in Nat
    BY ParameterAssumption DEF TypeIInv, MacInv, Copy
  <1>3. \A u \in DATAs : u.id \in 1 .. MaxData /\ u.id \in Nat /\ u.copy \in Nat
    BY ParameterAssumption DEF DATAs, Copy
  <1>4. \A q \in Data : q.id \in 1 .. MaxData /\ q.id \in Nat /\ q.copy \in Nat
    BY ParameterAssumption DEF Data, Copy
  <1>5. \A p \in DataIn(net) : p \in DATAs
    BY PacketKinds DEF DataIn, TypeIInv, TypeInv
  <1>6. \A n \in Node : \A q \in queue[n] : q \in Data
    BY DEF TypeIInv, TypeInv
  <1>7. \A u \in unacked : u \in DATAs
    BY DEF TypeIInv, MacInv
  <1> QED BY <1>1, <1>2, <1>3, <1>4, <1>5, <1>6, <1>7 DEF Out, Is

LEMMA NothingNewNumbers ==
  ASSUME CopyNumbers, NothingNew, UNCHANGED <<mac, nsent>>
  PROVE  CopyNumbers'
  <1>1. lostacks' = lostacks /\ unacked' = unacked /\ nsent' = nsent
    BY DEF mac
  <1> QED BY <1>1 DEF CopyNumbers, NothingNew

LEMMA OriginateNumbers ==
  ASSUME CopyIInv, UNCHANGED mac, nsent' = nsent + 1, nsent + 1 \in 1 .. MaxData,
         \A i, c : Out(i, c)' => Out(i, c) \/ (i = nsent + 1 /\ c = 0)
  PROVE  CopyNumbers'
  <1>1. lostacks' = lostacks /\ unacked' = unacked
    BY DEF mac
  <1>2. nsent \in Nat /\ lostacks[nsent + 1] \in Nat
    BY PairType DEF CopyIInv
  <1>3. ASSUME NEW i, NEW c, Out(i, c)'
        PROVE  i <= nsent' /\ c <= lostacks'[i] /\ (LocalRepair \/ c = 0)
    <2>1. CASE Out(i, c)
      <3>1. i \in Nat /\ i <= nsent /\ c <= lostacks[i] /\ (LocalRepair \/ c = 0)
        BY <2>1, PairType DEF CopyIInv, CopyNumbers
      <3> QED BY <1>1, <1>2, <3>1
    <2>2. CASE i = nsent + 1 /\ c = 0
      BY <1>1, <1>2, <2>2
    <2> QED BY <1>3, <2>1, <2>2
  <1>4. ASSUME NEW u \in unacked'
        PROVE  u.id <= nsent' /\ u.copy <= lostacks'[u.id] /\ ~Out(u.id, u.copy)'
    <2>1. u.id \in Nat /\ u.id <= nsent /\ u.copy <= lostacks[u.id] /\ ~Out(u.id, u.copy)
      BY <1>1, <1>4, PairType DEF CopyIInv, CopyNumbers
    <2>2. u.id # nsent + 1 /\ u.id <= nsent'
      BY <1>2, <2>1
    <2> QED BY <1>1, <2>1, <2>2
  <1>5. \A u, v \in unacked' : Is(u, v.id, v.copy) => u = v
    BY <1>1 DEF CopyIInv, CopyNumbers
  <1> QED BY <1>3, <1>4, <1>5 DEF CopyNumbers

LEMMA AckLostNumbers ==
  ASSUME CopyIInv, NothingNew, NEW p \in net, AckLost(p), nsent' = nsent
  PROVE  CopyNumbers'
  <1> PICK k : k = lostacks[p.id] + 1
    OBVIOUS
  <1> DEFINE new == [p EXCEPT !.copy = k]
  <1>1. p \in DataIn(net) /\ p \in DATAs
    BY PacketKinds DEF AckLost, DataIn, CopyIInv, TypeIInv, TypeInv
  <1>2. p.id \in 1 .. MaxData /\ lostacks[p.id] \in Nat
    BY <1>1, PairType DEF CopyIInv, DATAs
  <1>3. new.id = p.id /\ new.copy = k
    BY <1>1 DEF DATAs
  <1>4. unacked' = unacked \cup {new}
    BY DEF AckLost
  <1> HIDE DEF new
  <1>5. lostacks' = [lostacks EXCEPT ![p.id] = k]
    BY DEF AckLost
  <1>6. lostacks \in [1 .. MaxData -> Copy]
    BY DEF CopyIInv, TypeIInv, MacInv
  <1>7. \A i \in 1 .. MaxData : lostacks'[i] = IF i = p.id THEN k ELSE lostacks[i]
    BY <1>5, <1>6
  <1>8. \A i \in 1 .. MaxData : \A c \in Nat : c <= lostacks[i] => c <= lostacks'[i]
    <2> SUFFICES ASSUME NEW i \in 1 .. MaxData, NEW c \in Nat, c <= lostacks[i]
                 PROVE  c <= lostacks'[i]
      OBVIOUS
    <2>1. lostacks[i] \in Nat
      BY PairType DEF CopyIInv
    <2> QED BY <1>2, <1>7, <2>1
  <1>9. p.id <= nsent
    BY <1>1 DEF CopyIInv, CopyNumbers, Out, Is
  <1>10. ASSUME NEW i, NEW c, Out(i, c)'
         PROVE  i <= nsent' /\ c <= lostacks'[i] /\ (LocalRepair \/ c = 0)
    <2>1. Out(i, c)
      BY <1>10 DEF NothingNew
    <2>2. /\ i \in 1 .. MaxData /\ c \in Nat
          /\ i <= nsent /\ c <= lostacks[i] /\ (LocalRepair \/ c = 0)
      BY <2>1, PairType DEF CopyIInv, CopyNumbers
    <2> QED BY <1>8, <2>2
  <1>11. ~Out(p.id, k) /\ \A u \in unacked : u.id = p.id => u.copy # k
    <2>1. Out(p.id, k) => k <= lostacks[p.id]
      BY DEF CopyIInv, CopyNumbers
    <2>2. \A u \in unacked : u.id = p.id => u.copy <= lostacks[p.id]
      BY DEF CopyIInv, CopyNumbers
    <2> QED BY <1>2, <2>1, <2>2
  <1>12. ASSUME NEW u \in unacked'
         PROVE  u.id <= nsent' /\ u.copy <= lostacks'[u.id] /\ ~Out(u.id, u.copy)'
    <2>1. CASE u \in unacked
      <3>1. /\ u.id \in 1 .. MaxData /\ u.copy \in Nat
            /\ u.id <= nsent /\ u.copy <= lostacks[u.id] /\ ~Out(u.id, u.copy)
        BY <2>1, PairType DEF CopyIInv, CopyNumbers
      <3> QED BY <1>8, <3>1 DEF NothingNew
    <2>2. CASE u = new
      <3>1. u.copy <= lostacks'[u.id]
        BY <1>2, <1>3, <1>7, <2>2
      <3>2. ~Out(p.id, k)'
        BY <1>11 DEF NothingNew
      <3> QED BY <1>3, <1>9, <2>2, <3>1, <3>2
    <2> QED BY <1>4, <1>12, <2>1, <2>2
  <1>13. ASSUME NEW u \in unacked', NEW v \in unacked', Is(u, v.id, v.copy)
         PROVE  u = v
    <2>1. CASE u \in unacked /\ v \in unacked
      BY <1>13, <2>1 DEF CopyIInv, CopyNumbers
    <2>2. CASE u = new \/ v = new
      BY <1>3, <1>4, <1>11, <1>13, <2>2 DEF Is
    <2> QED BY <1>4, <1>13, <2>1, <2>2
  <1> QED BY <1>10, <1>12, <1>13 DEF CopyNumbers

LEMMA TransmitFailedNumbers ==
  ASSUME CopyIInv, NEW p \in net \cup unacked, TransmitFailed(p)
  PROVE  CopyNumbers'
  <1>1. /\ unacked' = unacked \ {p} /\ lostacks' = lostacks /\ nsent' = nsent
        /\ p \in unacked \/ p \in DataIn(net)
    BY DEF TransmitFailed, StartRepair, LinkBroken, DataIn
  <1>2. \A i, c : Out(i, c)' => Out(i, c) \/ (LocalRepair /\ i = p.id /\ c = p.copy)
    BY TransmitFailedCopies
  <1>3. p.id <= nsent /\ p.copy <= lostacks[p.id]
    BY <1>1 DEF CopyIInv, CopyNumbers, Out, Is
  <1>4. \A i, c : Out(i, c)' =>
          i <= nsent' /\ c <= lostacks'[i] /\ (LocalRepair \/ c = 0)
    BY <1>1, <1>2, <1>3 DEF CopyIInv, CopyNumbers
  <1>5. ASSUME NEW u \in unacked', Out(u.id, u.copy)'
        PROVE  FALSE
    <2>1. u \in unacked /\ u # p /\ ~Out(u.id, u.copy)
      BY <1>1, <1>5 DEF CopyIInv, CopyNumbers
    <2>2. u.id = p.id /\ u.copy = p.copy
      BY <1>2, <1>5, <2>1
    <2> QED BY <1>1, <2>1, <2>2 DEF CopyIInv, CopyNumbers, Out, Is
  <1>6. \A u \in unacked' :
          u.id <= nsent' /\ u.copy <= lostacks'[u.id] /\ ~Out(u.id, u.copy)'
    BY <1>1, <1>5 DEF CopyIInv, CopyNumbers
  <1>7. \A u, v \in unacked' : Is(u, v.id, v.copy) => u = v
    BY <1>1 DEF CopyIInv, CopyNumbers
  <1> QED BY <1>4, <1>6, <1>7 DEF CopyNumbers

LEMMA NextCopies ==
  ASSUME CopyIInv, [Next]_vars
  PROVE  Unique' /\ CopyNumbers'
  <1> USE DEF CopyIInv
  <1>1. ASSUME NEW f \in Flow, Originate(f[1], f[2])
        PROVE  Unique' /\ CopyNumbers'
    <2>1. f[1] \in Node /\ f[2] \in Node
      BY FlowAssumption
    <2>2. AcceptStep(nsent + 1, 0)
      BY <1>1, <2>1, OriginateCopies DEF TypeIInv
    <2>3. UNCHANGED mac /\ nsent' = nsent + 1 /\ nsent < MaxData
      BY <1>1 DEF Originate
    <2>4. nsent + 1 \in 1 .. MaxData
      BY <2>3, PairType, ParameterAssumption
    <2>5. Unique' /\ \A i, c : Out(i, c)' => Out(i, c) \/ (i = nsent + 1 /\ c = 0)
      BY <2>2, AcceptKeeps
    <2> QED BY <2>3, <2>4, <2>5, OriginateNumbers
  <1>2. ASSUME NEW p \in net, Receive(p)
        PROVE  Unique' /\ CopyNumbers'
    <2>1. Unique' /\ NothingNew
      BY <1>2, ReceiveCopies DEF TypeIInv
    <2>2. nsent' = nsent
      BY <1>2 DEF Receive, DataEnds, DataRelayed, RequestDiscarded, RecvRequest,
                  ReplySuppressed, RecvReply, RecvError
    <2>3. UNCHANGED mac \/ AckLost(p)
      BY <1>2 DEF Receive
    <2> QED BY <2>1, <2>2, <2>3, NothingNewNumbers, AckLostNumbers
  <1>3. ASSUME NEW p \in net \cup unacked, TransmitFailed(p)
        PROVE  Unique' /\ CopyNumbers'
    BY <1>3, TransmitFailedCopies, TransmitFailedNumbers
  <1>4. ASSUME ReleaseStep, UNCHANGED <<mac, nsent>>
        PROVE  Unique' /\ CopyNumbers'
    BY <1>4, ReleaseKeeps, NothingNewNumbers
  <1>5. ASSUME NEW n \in Node, NEW d \in Node, RepairTimer(n, d)
        PROVE  Unique' /\ CopyNumbers'
    BY <1>4, <1>5, QuietRelease DEF RepairTimer
  <1>6. ASSUME NEW n \in Node, Purge(n)
        PROVE  Unique' /\ CopyNumbers'
    <2>1. PICK expired, asked, dropped, order, ttl, old :
            PurgeRoutes(n, expired, asked, dropped, order, ttl, old)
      BY <1>6 DEF Purge
    <2>2. UNCHANGED <<mac, nsent>>
      BY <2>1 DEF PurgeRoutes
    <2> QED BY <1>4, <1>6, <2>2, PurgeCopies DEF TypeIInv
  <1>7. ASSUME NEW n \in Node, IdPurge(n)
        PROVE  Unique' /\ CopyNumbers'
    BY <1>4, <1>7, QuietRelease DEF IdPurge
  <1>8. CASE UNCHANGED vars
    BY <1>4, <1>8, QuietRelease DEF vars
  <1> QED BY <1>1, <1>2, <1>3, <1>5, <1>6, <1>7, <1>8, ParameterAssumption DEF Next

LEMMA InitCopies == Init => CopyIInv
  <1> SUFFICES ASSUME Init PROVE CopyIInv
    OBVIOUS
  <1>1. DataIn(net) = {} /\ unacked = {} /\ \A n \in Node : queue[n] = {}
    BY DEF Init, DataIn
  <1> QED BY <1>1, InitType DEF CopyIInv, Unique, CopyNumbers, Out

LEMMA NextCopyInv == CopyIInv /\ [Next]_vars => CopyIInv'
  BY NextType, NextCopies DEF CopyIInv

-----------------------------------------------------------------------------
(* As many members as numbers, when no two share one. *)
LEMMA Numbered ==
  ASSUME NEW S, NEW F, NEW T, IsFiniteSet(T), \A x \in S : F[x] \in T,
         \A x, y \in S : F[x] = F[y] => x = y
  PROVE  /\ Cardinality(S) \in Nat
         /\ Cardinality(S) <= Cardinality({F[x] : x \in S})
  <1> DEFINE N == {F[x] : x \in S}
             G == [x \in S |-> F[x]]
  <1>1. IsFiniteSet(N) /\ Cardinality(N) \in Nat
    <2>1. N \subseteq T
      OBVIOUS
    <2> HIDE DEF N
    <2> QED BY <2>1, FS_Subset, FS_CardinalityType
  <1>2. G \in Injection(S, N)
    BY DEF Injection, IsInjective
  <1>3. IsFiniteSet(S) /\ Cardinality(S) <= Cardinality(N)
    BY <1>1, <1>2, FS_Injection
  <1> QED BY <1>3, FS_CardinalityType

LEMMA CopyInvBounded == CopyIInv => CopiesBounded
  <1> SUFFICES ASSUME CopyIInv, NEW i \in 1 .. MaxData
               PROVE  LET flying == {p \in net : p.type = "DATA" /\ p.id = i}
                          held == {h \in Node \X Data : h[2] \in queue[h[1]] /\ h[2].id = i}
                      IN Cardinality(flying) + Cardinality(held)
                           <= IF LocalRepair THEN 1 + lostacks[i] ELSE 1
    BY DEF CopiesBounded
  <1> DEFINE flying == {p \in net : p.type = "DATA" /\ p.id = i}
             held == {h \in Node \X Data : h[2] \in queue[h[1]] /\ h[2].id = i}
             top == IF LocalRepair THEN lostacks[i] ELSE 0
             F == [p \in flying |-> p.copy]
             H == [h \in held |-> h[2].copy]
             C == {F[p] : p \in flying}
             D == {H[h] : h \in held}
  <1>1. top \in Nat /\ lostacks[i] \in Nat
    BY PairType DEF CopyIInv
  <1>2. \A p \in flying : p.copy \in 0 .. top
    <2> SUFFICES ASSUME NEW p \in flying PROVE p.copy \in 0 .. top
      OBVIOUS
    <2>1. Out(i, p.copy)
      BY DEF Out, DataIn, Is
    <2>2. p.copy \in Nat /\ p.copy <= lostacks[i] /\ (LocalRepair \/ p.copy = 0)
      BY <2>1, PairType DEF CopyIInv, CopyNumbers
    <2> QED BY <1>1, <2>2
  <1>3. \A h \in held : h[2].copy \in 0 .. top
    <2> SUFFICES ASSUME NEW h \in held PROVE h[2].copy \in 0 .. top
      OBVIOUS
    <2>1. Out(i, h[2].copy)
      BY DEF Out, Is
    <2>2. h[2].copy \in Nat /\ h[2].copy <= lostacks[i] /\ (LocalRepair \/ h[2].copy = 0)
      BY <2>1, PairType DEF CopyIInv, CopyNumbers
    <2> QED BY <1>1, <2>2
  <1>4. \A p, x \in flying : p.copy = x.copy => p = x
    BY DEF CopyIInv, Unique, DataIn, Is
  <1>5. ASSUME NEW h \in held, NEW k \in held, h[2].copy = k[2].copy
        PROVE  h = k
    <2>1. h[1] = k[1] /\ h[2] = k[2]
      BY <1>5 DEF CopyIInv, Unique, Is
    <2> QED BY <2>1
  <1>6. \A p \in flying, h \in held : p.copy # h[2].copy
    BY DEF CopyIInv, Unique, DataIn, Is
  <1>7. IsFiniteSet(0 .. top) /\ Cardinality(0 .. top) = top + 1
    <2> HIDE DEF top
    <2>1. 0 \in Int /\ top \in Int /\ ~(0 > top) /\ top - 0 + 1 = top + 1
      BY <1>1
    <2>2. Cardinality(0 .. top) = IF 0 > top THEN 0 ELSE top - 0 + 1
      BY <2>1, FS_Interval
    <2>3. IsFiniteSet(0 .. top)
      BY <2>1, FS_Interval
    <2> QED BY <2>1, <2>2, <2>3
  <1>8. C \subseteq 0 .. top /\ D \subseteq 0 .. top /\ C \cap D = {}
    <2> HIDE DEF flying, held, top
    <2> QED BY <1>2, <1>3, <1>6
  <1>9. Cardinality(flying) \in Nat /\ Cardinality(flying) <= Cardinality(C)
    <2>1. /\ \A p \in flying : F[p] \in 0 .. top
          /\ \A p, x \in flying : F[p] = F[x] => p = x
      <3> HIDE DEF flying, top
      <3> QED BY <1>2, <1>4
    <2> HIDE DEF flying, F, top
    <2> QED BY <1>7, <2>1, Numbered
  <1>10. Cardinality(held) \in Nat /\ Cardinality(held) <= Cardinality(D)
    <2>1. /\ \A h \in held : H[h] \in 0 .. top
          /\ \A h, k \in held : H[h] = H[k] => h = k
      <3> HIDE DEF held, top
      <3> QED BY <1>3, <1>5
    <2> HIDE DEF held, H, top
    <2> QED BY <1>7, <2>1, Numbered
  <1>11. Cardinality(C) \in Nat /\ Cardinality(D) \in Nat
         /\ Cardinality(C) + Cardinality(D) <= top + 1
    <2> HIDE DEF C, D, top
    <2>1. IsFiniteSet(C) /\ IsFiniteSet(D)
      BY <1>7, <1>8, FS_Subset
    <2>2. /\ IsFiniteSet(C \cup D) /\ Cardinality(C \cap D) = 0
          /\ Cardinality(C \cup D) = Cardinality(C) + Cardinality(D) - Cardinality(C \cap D)
      BY <1>8, <2>1, FS_Union, FS_EmptySet
    <2>3. Cardinality(C \cup D) <= top + 1
      BY <1>7, <1>8, FS_Subset
    <2>4. Cardinality(C) \in Nat /\ Cardinality(D) \in Nat /\ Cardinality(C \cup D) \in Nat
      BY <2>1, <2>2, FS_CardinalityType
    <2> QED BY <1>1, <2>2, <2>3, <2>4
  <1> HIDE DEF flying, held, C, D, F, H
  <1>12. Cardinality(flying) + Cardinality(held) <= top + 1
    <2> HIDE DEF top
    <2> QED BY <1>1, <1>9, <1>10, <1>11
  <1>13. top + 1 = IF LocalRepair THEN 1 + lostacks[i] ELSE 1
    BY <1>1
  <1> QED BY <1>12, <1>13 DEF flying, held

(* The agents never have more copies of a data packet than one, plus, with  *)
(* local repair, one for each acknowledgement lost: buffering, releasing    *)
(* over a new route, purging and the failure of a transmission that did not *)
(* arrive make none, and without local repair what the MAC hands back is    *)
(* dropped.                                                                 *)
THEOREM DataCopiesBounded == Spec => []CopiesBounded
  BY InitCopies, NextCopyInv, CopyInvBounded, PTL DEF Spec
=============================================================================
