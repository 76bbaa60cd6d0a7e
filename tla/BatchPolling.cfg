SPECIFICATION FairSpec
CONSTANTS
  j1 = j1
  j2 = j2
  p1 = p1
  p2 = p2
  Job = {j1, j2}
  Poll = {p1, p2}
  ChunkSize = 1
  MaxErrors = 1
  MaxCrashes = 1
INVARIANTS
  CompletedHasResponse
  RunGetsTheVerdict
PROPERTIES
  SubmittedJobsEnd
CHECK_DEADLOCK FALSE
