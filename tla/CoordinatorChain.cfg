SPECIFICATION CoordinatorFairSpec
CONSTANTS
  Node <- ChainNode
  Handle <- MCHandle
  NoHandle = NoHandle
  Edge <- ChainEdge
  Concurrency = 2
  Starts = {}
  None = None
  Trigger = {}
  ActiveTriggers = {None}
  Targets = {"b2"}
  MayFail = {"b1", "l"}
  MaySkip = {}
  MaySubmit = {"b1", "b2"}
INVARIANTS
  ExecutedOncePerRun
PROPERTIES
  OutputsSurvive
  RunEnds
CHECK_DEADLOCK FALSE
