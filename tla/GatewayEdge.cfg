\* Three requests for two slots, and one to an excluded path.
SPECIFICATION FairSpec
CONSTANTS
    r1 = r1  r2 = r2  r3 = r3  health = health
    Requests = {r1, r2, r3, health}
    Excluded = {health}
    MaxActive = 2
    MinTime = 1
    Timeout = 2
INVARIANTS TypeOK WorkBounded
PROPERTIES EventuallyAnswered
