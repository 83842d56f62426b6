SPECIFICATION Spec
CONSTANTS
    k1 = k1
    k2 = k2
    q1 = q1
    q2 = q2
    Calls <- MCCalls
    Asks <- MCAsks
INVARIANTS
    TypeOK
    CountsAgree
    AnswerIsOurs
PROPERTY StartupEnds
\* The process ends.
CHECK_DEADLOCK FALSE
