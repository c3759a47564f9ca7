-------------------------- MODULE MCRouteDiscovery --------------------------
(* One destination and the packets for it, for TLC. *)
EXTENDS RouteDiscovery

CONSTANTS A, P1, P2

OneDst == <<A>>
ToOne == [p \in Packet |-> A]
=============================================================================
