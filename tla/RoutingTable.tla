---------------------------- MODULE RoutingTable ----------------------------
(***************************************************************************)
(* One route entry (class aodv_rt_entry) and the operations on it that are *)
(* pure: construction, update, invalidation and the freshness test that   *)
(* every handler of aodv.cc applies before it accepts a route.             *)
(*                                                                         *)
(* Entries are created on demand by rt_add and never deleted (rt_delete    *)
(* has no caller).  A destination without an entry behaves in every        *)
(* handler as one whose entry is freshly built, so a table is a total      *)
(* function from destinations to entries.                                  *)
(***************************************************************************)
EXTENDS Naturals

CONSTANTS
  Node,       \* the addresses of the simulated nodes
  Addr0,      \* address 0: a node, and what rt_nexthop holds when there is none
  INFINITY2,  \* the hop count of an invalid route (0xff)
  MaxSeqno    \* bound: owners' sequence numbers stop here, no u_int32_t wraps

ASSUME TableAssumption ==
  /\ Addr0 \in Node
  /\ INFINITY2 \in Nat \ {0}
  /\ MaxSeqno \in Nat /\ MaxSeqno % 2 = 0 /\ MaxSeqno >= 2

Flag  == {"DOWN", "UP", "IN_REPAIR"}
\* An owner's number stays even and at most MaxSeqno; an invalidated entry
\* holds the odd successor of one.
Seqno == 0 .. MaxSeqno + 1
Hops  == 1 .. INFINITY2

\* req stands for rt_req_timeout > 0: a route request was sent (or given up)
\* since the soft state was last reset.
Entry == [seqno : Seqno, hops : Hops, flags : Flag, nexthop : Node,
          pc : SUBSET Node, req : BOOLEAN]

FreshEntry == [seqno |-> 0, hops |-> INFINITY2, flags |-> "DOWN",
               nexthop |-> Addr0, pc |-> {}, req |-> FALSE]

-----------------------------------------------------------------------------
(* Mutants of the operators below: what a slip in the code would make them. *)
FresherByHops(e, seq, hc) == seq > e.seqno \/ hc < e.hops
InvalidatedKeepsSeqno(e) ==
  [e EXCEPT !.hops = INFINITY2, !.flags = "DOWN", !.nexthop = Addr0]
rt_downKeepsHops(e) ==
  IF e.flags = "DOWN" THEN e ELSE [e EXCEPT !.flags = "DOWN", !.nexthop = Addr0]
-----------------------------------------------------------------------------
(* The test both recvRequest and recvReply make: newer, or as new and shorter. *)
Fresher(e, seq, hc) == seq > e.seqno \/ (seq = e.seqno /\ hc < e.hops)

(* rt_update, with the reset of the request state both its callers make    *)
(* next.  recvRequest resets only when rt_req_timeout > 0, which is all    *)
(* that req records.                                                       *)
rt_update(e, seq, hc, via) ==
  [e EXCEPT !.seqno = seq, !.hops = hc, !.flags = "UP", !.nexthop = via,
            !.req = FALSE]

(* rt_down leaves the sequence number, the precursors and the request state. *)
rt_down(e) ==
  IF e.flags = "DOWN" THEN e
  ELSE [e EXCEPT !.hops = INFINITY2, !.flags = "DOWN", !.nexthop = Addr0]

(* handle_link_failure and rt_purge count the invalidation first. *)
Invalidated(e) == rt_down([e EXCEPT !.seqno = @ + 1])

pc_insert(e, id) == [e EXCEPT !.pc = @ \cup {id}]
pc_delete(e, id) == [e EXCEPT !.pc = @ \ {id}]
pc_clear(e)      == [e EXCEPT !.pc = {}]
=============================================================================
