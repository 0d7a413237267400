SPECIFICATION FairSpec
CONSTANTS
  d1 = d1
  d2 = d2
  c1 = c1
  c2 = c2
  v0 = v0
  v1 = v1
  v2 = v2
  None = None
  Daemons = {d1}
  Initers = {}
  Commands = {c1, c2}
  Kinds <- MCInit
  Vals = {v0, v1, v2}
  Default = v0
  Typed = v1
  Fresh = TRUE
  MaxStarts = 1
  Hurts = {"crash"}
  MaxHurts = 1
PROPERTIES InitRecovers
CHECK_DEADLOCK FALSE
