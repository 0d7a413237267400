SPECIFICATION Spec
CONSTANTS
  n1 = n1
  n2 = n2
  n3 = n3
  n4 = n4
  root1 = root1
  q1 = q1
  q2 = q2
  Nodes = {n1, n2, n3}
  Files = {root1}
  Pingers = {q1, q2}
  Attempts = 2
  Copies = 2
  Starts <- MCStarts
  MaxFaults = 1
  MaxWalks = 2
INVARIANTS RecordAgrees UploadedCopies
PROPERTIES Rehomed
CHECK_DEADLOCK FALSE
