CONSTANTS
    r1 = r1
    r2 = r2
    r3 = r3
    agent = agent
    chat = chat
    Requests = {r1, r2, r3}
    Agents = {agent}
    Sessions = {chat}
    Entry <- MCEntry
    AgentOf <- MCAgentOf
    SessionOf <- MCSessionOf
    ToolOf <- MCToolOf
    RawOf <- MCRawOf
    Refused = {r3}
    Baseline <- NoBaseline
    SigScores = {0, 9000, 10000}
    RagHits <- MCRagHits
    RateLimit = 1
    RateWindow = 2
    CallBudget = 1
    BudgetWindow = 2
    LogMax = 1
    StreamMax = 2
    SessionTTL = 2
    MaxTime = 3
    MaxFaults = 1
SPECIFICATION Spec
INVARIANTS TypeOK RateBound BudgetBound SessionKept AuditTrail HardBlocks
SYMMETRY Symmetric
VIEW View
