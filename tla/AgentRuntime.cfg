SPECIFICATION Spec
CONSTANTS
    r1 = r1
    r2 = r2
    w1 = w1
    Runs <- MCRuns
    Workflows <- MCWorkflows
    WorkflowOf <- MCWorkflowOf
    Showing = {r1}
    Workers = 1
INVARIANTS
    TypeOK
    PassedOnWord
    
    RecordsAgree
PROPERTY WorkflowEnds
\* Every request answered, nothing is left to do.
CHECK_DEADLOCK FALSE
