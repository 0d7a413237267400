\* One check, one registration: a provider that registers before the initiator lists itself.
SPECIFICATION CheckSpec
CONSTANTS
    m = m
    n = n
    Storers = {m, n}
    FirstNodes = {m}
    Unusable = {}
    Nothing = Nothing
    Wrong = Wrong
    MaxChecks = 1
    MaxRegistrations = 1
CHECK_DEADLOCK FALSE
PROPERTY AllAsked
