SPECIFICATION FairSpec
CONSTANTS
  p1 = p1
  p2 = p2
  Proc = {p1, p2}
  Worker = {1, 2, 3, 4}
  NoProc = NoProc
  FirstKinds = {"pending"}
  MaxDeliveries = 1
  MaxPauses = 1
  MaxCrashes = 1
  MaxCancels = 1
  MaxSweeps = 2
INVARIANTS
  FirstSegmentAlone
  HeartbeatWhileExecuting
PROPERTIES
  RunIsSettled
  ParkedRunIsResumed
  CancelReachesNodes
CHECK_DEADLOCK FALSE
