SPECIFICATION GuardsSpec
CONSTANTS
    a1 = a1
    a2 = a2
    s1 = s1
    s2 = s2
    s3 = s3
    t1 = t1
    t2 = t2
    Agents <- MCAgents
    Tools = {"read", "send"}
    Tasks <- MCTasks
    MaxTrackedAgents = 1
    MinRequests = 2
    FocusAfter = 2
    SpikeAfter = 3
    MaxRequests = 4
    Sources <- MCSources
    MaxTrackedSources = 2
    RateThreshold = 1
    Window = 2
    MaxTime = 3
    MaxFailures = 3
    NoTask = NoTask
PROPERTIES
    LockAnswers
CHECK_DEADLOCK FALSE
