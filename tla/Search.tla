------------------------------- MODULE Search -------------------------------
(***************************************************************************)
(* The requests a node sends for a destination: they are spaced ("We are   *)
(* very conservative about sending out route requests", as sendRequest     *)
(* says), rings come before network-wide searches, of which there are      *)
(* MaxWide, and then the node rests.  What it does for one destination     *)
(* does not depend on the others.                                          *)
(***************************************************************************)
EXTENDS Naturals

CONSTANTS
  Dst,               \* the destinations
  MaxWide,           \* network-wide searches in a row
  MAX_RREQ_TIMEOUT   \* the longest wait between two requests, and the rest

VARIABLES
  phase,  \* "idle", "searching", or "resting" after searching in vain
  wide,   \* network-wide searches so far
  wait    \* time that has to pass before the next request

Becomes(d, p, n, w) == phase'[d] = p /\ wide'[d] = n /\ wait'[d] = w

Init ==
  /\ phase = [d \in Dst |-> "idle"]
  /\ wide = [d \in Dst |-> 0]
  /\ wait = [d \in Dst |-> 0]

Ring(d) ==
  /\ wait[d] = 0 /\ wide[d] = 0 /\ phase[d] # "resting"
  /\ \E w \in 1 .. MAX_RREQ_TIMEOUT : Becomes(d, "searching", 0, w)

NetworkWide(d) ==
  /\ wait[d] = 0 /\ wide[d] < MaxWide
  /\ \E w \in 1 .. MAX_RREQ_TIMEOUT : Becomes(d, "searching", wide[d] + 1, w)

Rest(d) ==
  /\ wait[d] = 0 /\ wide[d] = MaxWide
  /\ Becomes(d, "resting", 0, MAX_RREQ_TIMEOUT)

\* A route turned up: all is forgotten.
Found(d) == Becomes(d, "idle", 0, 0)

Passes(d) == wait[d] > 0 /\ Becomes(d, phase[d], wide[d], wait[d] - 1)

Same(d) == Becomes(d, phase[d], wide[d], wait[d])

Next == \A d \in Dst :
  Ring(d) \/ NetworkWide(d) \/ Rest(d) \/ Found(d) \/ Passes(d) \/ Same(d)

Spec == Init /\ [][Next]_<<phase, wide, wait>>
=============================================================================
