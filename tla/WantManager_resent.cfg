SPECIFICATION TickSpec
CONSTANTS
    c1 = c1
    s1 = s1
    p1 = p1
    Cids = {c1}
    Sessions = {s1}
    Peers = {p1}
    LosesBlocks = TRUE
    MaxAsks = 1
    MaxConns = 1
    MaxDials = 1
    MaxFaults = 1
PROPERTY Resent
CHECK_DEADLOCK FALSE
