SPECIFICATION Spec
CONSTANTS
  p1 = p1
  p2 = p2
  p3 = p3
  a = a
  b = b
  c = c
  x = x
  y = y
  None = None
  Ops = {p1, p2, p3}
  Plans <- MCPlans
  Names = {a, b, c}
  Dirs = {x, y}
  Dir <- MCDir
  Present = {a, c}
INVARIANTS NamesApart
PROPERTIES FlushHeals CommandsEnd
CHECK_DEADLOCK FALSE
