\* The ARC cache with calls that overlap: a late note is kept after a write (violated).
SPECIFICATION Spec
CONSTANTS
    k1 = k1
    k2 = k2
    c1 = c1
    c2 = c2
    Keys = {k1, k2}
    Clients = {c1, c2}
    Setups <- ArcSetups
    ArcSize = 1
    QueryFails = FALSE
    MaxFaults = 0
SYMMETRY Symmetry
INVARIANT ArcConclusive
CHECK_DEADLOCK FALSE
