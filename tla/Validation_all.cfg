SPECIFICATION CheckFairSpec
CONSTANTS
    m = m
    n = n
    Storers = {m, n}
    FirstNodes = {m}
    Unusable = {m}
    Nothing = Nothing
    Wrong = Wrong
    MaxChecks = 2
    MaxRegistrations = 1
CHECK_DEADLOCK FALSE
INVARIANTS
    MapClean
    ReportHasTarget
PROPERTIES
    ChecksEnd
