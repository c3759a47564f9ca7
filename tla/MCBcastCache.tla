---------------------------- MODULE MCBcastCache ----------------------------
(* Requests of others and one of the node's own, for TLC. *)
EXTENDS BcastCache

CONSTANTS R1, R2, R3
=============================================================================
