SPECIFICATION Spec
CONSTANTS
    Readings = {p1, p2}
    Sources = {s1}
    Types = {1, 2}
    Values = {0, 1}
    Seed <- MCSeed
    LIMIT_COUNT = 1
    PageLimit = 2
    PerRun = 1
    Interval = 1
    InitialDelay = 1
    MaxDelay = 0
    MaxTime = 1
    MaxRestarts = 0
    Requests = {}
INVARIANTS JudgedOverSomeLimit
CHECK_DEADLOCK FALSE
