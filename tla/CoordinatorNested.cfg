SPECIFICATION CoordinatorSpec
CONSTANTS
  Node <- NestedNode
  Handle <- MCHandle
  NoHandle = NoHandle
  Edge <- NestedEdge
  Concurrency = 2
  Starts = {}
  None = None
  Trigger = {}
  ActiveTriggers = {None}
  Targets = {"s0", "s1"}
  MayFail = {"c0", "s0", "j"}
  MaySkip = {"a", "j"}
  MaySubmit = {"s0"}
INVARIANTS
  SuccessMeansDone
  Inv
PROPERTIES
  SkippedNeverRuns
CHECK_DEADLOCK FALSE
