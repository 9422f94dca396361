SPECIFICATION Spec
CONSTANTS
    Readings = {p1, p2}
    Sources = {s1}
    Types = {1}
    Values = {0, 1}
    Seed <- MCNoTypes
    LIMIT_COUNT = 1
    PageLimit = 2
    PerRun = 1
    Interval = 1
    InitialDelay = 1
    MaxDelay = 0
    MaxTime = 2
    MaxRestarts = 1
    Requests = {}
INVARIANTS TypeOK WarnedOnEvidence ReadingsScannedInTime NoticesAndWarningsAgree
SYMMETRY Symmetric
CHECK_DEADLOCK FALSE
