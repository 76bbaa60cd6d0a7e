SPECIFICATION Spec
CONSTANTS
  t1 = t1
  o1 = o1
  o2 = o2
  w1 = w1
  w2 = w2
  Trigger = {t1}
  Op = {o1, o2}
  Worker = {w1, w2}
  MaxMinute = 2
  MaxEdits = 1
SYMMETRY Symmetry
INVARIANTS
  RefreshTakesEffect
  NoneUnscheduled
  OncePerMinute
PROPERTIES
  NoMinuteMissed
CHECK_DEADLOCK FALSE
