SPECIFICATION FairSpec
CONSTANTS
    Readings = {p1}
    Sources = {s1}
    Types = {1}
    Values = {0, 1}
    Seed <- MCSeed
    LIMIT_COUNT = 0
    PageLimit = 2
    PerRun = 1
    Interval = 2
    InitialDelay = 1
    MaxDelay = 1
    MaxTime = 3
    MaxRestarts = 0
    Requests = {r1}
INVARIANTS ReadingsScannedInTime
PROPERTIES ChecksEnd
CHECK_DEADLOCK FALSE
