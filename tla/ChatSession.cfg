SPECIFICATION FairSpec
CONSTANTS
  c1 = c1
  c2 = c2
  Client = {c1, c2}
  MaxBuffered = 2
  MaxEvents = 4
INVARIANTS
  InOrder
  NothingElseMissed
PROPERTIES
  SubscriptionsEnd
CHECK_DEADLOCK FALSE
