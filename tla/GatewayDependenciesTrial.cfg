SPECIFICATION Spec
CONSTANTS
    c1 = c1
    c2 = c2
    Callers <- MCCallers
    Uses <- MCUses
    NoOne = NoOne
    FailureThreshold = 2
    RecoveryTimeout = 2
    HalfOpenMaxCalls = 1
    CallTime = 1
    HoldTime = 2
PROPERTY TrialAlwaysEnds
