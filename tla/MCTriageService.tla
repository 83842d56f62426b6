-------------------------- MODULE MCTriageService --------------------------
(* TriageService for TLC: two requests of one agent to /execute, and one   *)
(* to /triage that claims a role the agent does not have.                  *)
EXTENDS TriageService, TLC

CONSTANTS r1, r2, r3, agent, chat

MCEntry == [r \in Requests |-> IF r = r3 THEN "triage" ELSE "execute"]
MCAgentOf == [r \in Requests |-> agent]
MCSessionOf == [r \in Requests |-> chat]
MCToolOf == [r \in Requests |-> "web_search"]
MCRawOf == [r \in Requests |-> IF r = r3 THEN "y" ELSE "x"]
\* Nothing similar, and a hit of 1.0 that is false one time in ten.
MCRagHits == {<<0, 0>>, <<10000, 1000>>}
NoBaseline == <<>>

\* r1 and r2 differ in nothing but their names.
Symmetric == Permutations({r1, r2})

\* What the future of a state, and the properties of TriageService.cfg, depend on: no
\* action reads the stream, nor what the stages found once a request is done.
View ==
    <<now, faults, pc, limits, reply, opened, session, rate, calls, callsExpire, agentSession,
      agentExpire, counters, decisions, ledger, rated, budgeted, denied, told,
      [r \in {q \in Requests : pc[q] # "done"} |-> <<drift[r], arrived[r], signals[r], usage[r]>>]>>
=============================================================================
