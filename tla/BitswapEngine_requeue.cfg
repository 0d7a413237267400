\* A peer may ask again for a block while its cancelled task is still queued.
SPECIFICATION Spec
CONSTANTS
    a = a
    b = b
    x = x
    y = y
    w1 = w1
    w2 = w2
    Peers = {a, b}
    Blocks = {x, y}
    Workers = {w1}
    Nothing = Nothing
    Stores <- MCStores
    Rewants = TRUE
    Deletes = {}
    MaxMessages = 4
    MaxPuts = 0
INVARIANTS
    WantQueued
