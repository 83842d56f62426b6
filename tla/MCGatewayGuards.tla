-------------------------- MODULE MCGatewayGuards --------------------------
(* GatewayGuards for TLC: one profile for two agents, two trackers for three sources. *)
EXTENDS GatewayGuards, TLC

CONSTANTS a1, a2, s1, s2, s3, t1, t2

MCAgents == {a1, a2}
MCSources == {s1, s2, s3}
MCTasks == {t1, t2}
=============================================================================
