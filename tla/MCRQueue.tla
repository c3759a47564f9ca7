------------------------------ MODULE MCRQueue ------------------------------
(* Four packets for two destinations, and room for three. *)
EXTENDS RQueue

CONSTANTS P1, P2, P3, P4, A, B

MCPacket == {P1, P2, P3, P4}
MCDst == [p \in MCPacket |-> IF p \in {P1, P3} THEN A ELSE B]
=============================================================================
