--------------------------- MODULE MCGatewayEdge ---------------------------
(* GatewayEdge for TLC: the names of the requests.                         *)
EXTENDS GatewayEdge

CONSTANTS r1, r2, r3, health
=============================================================================
