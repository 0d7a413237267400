SPECIFICATION Spec
CONSTANTS
    c1 = c1
    s1 = s1
    s2 = s2
    p1 = p1
    p2 = p2
    Cids = {c1}
    Sessions = {s1, s2}
    Peers = {p1, p2}
    LosesBlocks = TRUE
    MaxAsks = 3
    MaxConns = 2
    MaxDials = 2
    MaxFaults = 2

INVARIANTS
    ListsTrack
    ToldAll
PROPERTIES
    WantsReach
    CancelsReach
CHECK_DEADLOCK FALSE
