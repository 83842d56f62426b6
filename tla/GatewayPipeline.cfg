\* Three concurrent requests, Redis calls that fail or are retried once.
SPECIFICATION Spec
CONSTANTS
    r1 = r1  r2 = r2  r3 = r3
    i1 = i1  i2 = i2  i3 = i3
    agent = agent  fetch = fetch  send = send
    Requests = {r1, r2, r3}
    Ids = {i1, i2}
    Agents = {agent}
    Tools = {fetch, send}
    IdOf <- MCIdOf
    AgentOf <- MCAgentOf
    ToolOf <- MCToolOf
    Prereqs <- MCPrereqs
    Mentions <- MCMentions
    GlobalLimit = 2
    GlobalWindow = 2
    ReplayTTL = 2
    AgentLimit = 1
    AgentWindow = 1
    MaxTime = 3
    MaxFaults = 1
INVARIANTS
    TypeOK
    ReplayPerStore
    SequenceJustified
    GlobalBudget
PROPERTIES
    FreshNotDuplicate
SYMMETRY Symmetric
VIEW View
