------------------------- MODULE MCGatewayCallback -------------------------
(* GatewayCallback for TLC: two tool calls beside two of the triage client. *)
EXTENDS GatewayCallback, TLC

CONSTANTS k1, k2, q1, q2

MCCalls == {k1, k2}
MCAsks == {q1, q2}
=============================================================================
