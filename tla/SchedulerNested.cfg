SPECIFICATION FairSpec
CONSTANTS
  Node <- NestedNode
  Handle <- MCHandle
  NoHandle = NoHandle
  Edge <- NestedEdge
  Concurrency = 2
  Starts <- NestedStarts
  None = None
INVARIANTS
  InputsAvailable
  RunXorSkipped
  NothingLeftBehind
PROPERTIES
  RunReturns
  ImplementsFlowExecution
CHECK_DEADLOCK FALSE
