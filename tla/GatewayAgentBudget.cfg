\* No fault: three calls of one agent and tool within one second.
SPECIFICATION Spec
CONSTANTS
    r1 = r1  r2 = r2  r3 = r3
    i1 = i1  i2 = i2  i3 = i3
    agent = agent  fetch = fetch  send = send
    Requests = {r1, r2, r3}
    Ids = {i1, i2, i3}
    Agents = {agent}
    Tools = {fetch, send}
    IdOf <- MCOwnIdOf
    AgentOf <- MCAgentOf
    ToolOf <- MCOneToolOf
    Prereqs <- MCPrereqs
    Mentions <- MCMentions
    GlobalLimit = 3
    GlobalWindow = 1
    ReplayTTL = 1
    AgentLimit = 2
    AgentWindow = 1
    MaxTime = 2
    MaxFaults = 0
INVARIANT
    AgentBudget
