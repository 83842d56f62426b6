--------------------------- MODULE MCAgentRuntime ---------------------------
(* AgentRuntime for TLC: two requests with one workflow id, one thread. *)
EXTENDS AgentRuntime, TLC

CONSTANTS r1, r2, w1

MCRuns == {r1, r2}
MCWorkflows == {w1}
MCWorkflowOf == r1 :> w1 @@ r2 :> w1
=============================================================================
