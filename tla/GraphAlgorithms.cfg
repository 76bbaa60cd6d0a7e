SPECIFICATION Spec
CONSTANTS
  Node <- MCNode
  Handle = {"else"}
  NoHandle = NoHandle
  Drawable <- MCDrawable
INVARIANTS
  CascadeIsLeast
  CyclesAreFound
  PathIsUpstream
PROPERTIES
  OperationsReturn
CHECK_DEADLOCK FALSE
