SPECIFICATION Spec
CONSTANTS
    k1 = k1
    k2 = k2
    c1 = c1
    c2 = c2
    Keys = {k1, k2}
    Clients = {c1, c2}
    Setups <- EachSetup
    ArcSize = 1
    QueryFails = FALSE
    MaxFaults = 1
SYMMETRY Symmetry
INVARIANTS
    BloomConclusive
PROPERTY ImplementsMap
CHECK_DEADLOCK FALSE
