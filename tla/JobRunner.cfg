SPECIFICATION FairSpec
CONSTANTS
  j1 = j1
  j2 = j2
  j3 = j3
  j4 = j4
  k1 = k1
  NoJob = NoJob
  NoKey = NoKey
  Job <- MCJob
  Key = {k1}
  KeyOf <- MCKeyOf
  Delay <- MCDelay
  MaxAttempts <- MCMaxAttempts
  Handled <- MCHandled
  TTL = 1
  MaxClock = 1
INVARIANTS
  OneHolder
  OncePerKey
PROPERTIES
  JobsSettle
  KeepsPromise
CHECK_DEADLOCK FALSE
