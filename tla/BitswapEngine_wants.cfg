SPECIFICATION FairSpec
CONSTANTS
    a = a
    b = b
    x = x
    y = y
    w1 = w1
    w2 = w2
    Peers = {a, b}
    Blocks = {x, y}
    Workers = {w1, w2}
    Nothing = Nothing
    Stores <- MCStores
    Rewants = FALSE
    Deletes = {x}
    MaxMessages = 3
    MaxPuts = 1
INVARIANTS
    StartedOnce
    RequestsCounted
    WantQueued
PROPERTIES
    WantsServed
