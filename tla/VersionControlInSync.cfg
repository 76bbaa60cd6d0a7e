SPECIFICATION MCSpec
CONSTANTS
  f1 = f1
  a = a
  b = b
  w1 = w1
  r1 = r1
  Flow = {f1}
  Content = {a, b}
  Worker = {w1}
  Replica = {r1}
  None = None
  MaxCommits = 5
  MaxOps = 0
  MaxFaults = 0
INVARIANTS
  InSync
CHECK_DEADLOCK FALSE
