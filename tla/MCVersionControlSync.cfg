SPECIFICATION MCFairSpec
CONSTANTS
  f1 = f1
  a = a
  b = b
  w1 = w1
  w2 = w2
  r1 = r1
  r2 = r2
  Flow = {f1}
  Content = {a, b}
  Worker = {w1, w2}
  Replica = {r1, r2}
  None = None
  MaxCommits = 3
  MaxOps = 1
  MaxFaults = 1
INVARIANTS
  OneHolder
  TokensNameTheirVersion
  ConfigNamesAVersion
PROPERTIES
  PushLosesNothing
  PositionReachesHead
CHECK_DEADLOCK FALSE
VIEW MCView
