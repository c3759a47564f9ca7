----------------------------- MODULE MCNeighbors -----------------------------
(* Two neighbours and a route through one of them; a tick is 0.25 s. *)
EXTENDS Neighbors

CONSTANTS N1, N2, D
=============================================================================
