------------------------- MODULE MCGatewayPipeline -------------------------
(* GatewayPipeline for TLC: one agent, two requests that carry one id and  *)
(* use one tool, and a third that uses a tool with a prerequisite.         *)
EXTENDS GatewayPipeline, TLC

CONSTANTS r1, r2, r3, i1, i2, i3, agent, fetch, send

MCIdOf    == (r1 :> i1) @@ (r2 :> i1) @@ (r3 :> i2)
MCAgentOf == (r1 :> agent) @@ (r2 :> agent) @@ (r3 :> agent)
MCToolOf  == (r1 :> fetch) @@ (r2 :> fetch) @@ (r3 :> send)
MCPrereqs == (fetch :> {}) @@ (send :> {fetch})
MCMentions == (fetch :> {fetch}) @@ (send :> {send})

\* Three requests with ids of their own that call the same tool.
MCOwnIdOf   == (r1 :> i1) @@ (r2 :> i2) @@ (r3 :> i3)
MCOneToolOf == [r \in {r1, r2, r3} |-> fetch]

\* r1 and r2 differ in nothing but their names.
Symmetric == Permutations({r1, r2})

\* What the future of a state, and the properties of GatewayPipeline.cfg, depend on: no
\* action reads why a request was decided, nor the clock read for step 5 after step 5.
View ==
    <<now, faults, setup, pc, watch, redisVars, memVars, history,
      {r \in Requests : reason[r] = "duplicate"},
      [r \in Requests |-> IF pc[r] = "agentRate" THEN stamp[r] ELSE 0]>>
=============================================================================
