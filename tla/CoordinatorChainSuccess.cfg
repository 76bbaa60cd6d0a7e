SPECIFICATION CoordinatorFairSpec
CONSTANTS
  Node <- ChainNode
  Handle <- MCHandle
  NoHandle = NoHandle
  Edge <- ChainEdge
  Concurrency = 2
  Starts = {}
  None = None
  Trigger = {}
  ActiveTriggers = {None}
  Targets = {}
  MayFail = {}
  MaySkip = {}
  MaySubmit = {"b1", "b2"}
INVARIANTS
  SuccessMeansDone
CHECK_DEADLOCK FALSE
