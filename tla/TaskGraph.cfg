CONSTANTS
    w1 = w1
    Workflows = {w1}
    Graphs <- MCGraphs
SPECIFICATION FairSpec
INVARIANTS TypeOK FailClosed ReportComplete TruthfulStatus
PROPERTIES KeepsPromise EventuallyAnswered
