SPECIFICATION Spec
CONSTANTS
    d1 = d1
    direct = direct
    k1 = k1
    k2 = k2
    r1 = r1
    r2 = r2
    s1 = s1
    Keys = {k1, k2}
    Sessions = {s1}
    Requests = {r1, r2}
    Direct = direct
    Calls <- TwoCalls
    Deliveries = {d1}
    Limit = 1
    InterestSize = 1
    MaxBlocks = 2
INVARIANTS
    Tracked
PROPERTIES
    CallsEnd
    BlocksReach
    LiveTold
CHECK_DEADLOCK FALSE
