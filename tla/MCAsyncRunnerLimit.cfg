SPECIFICATION Spec
CONSTANTS
  j1 = j1
  j2 = j2
  j3 = j3
  s1 = s1
  NoJob = NoJob
  Jobs <- MCJobs
  Syncs <- MCSyncs
  MaxSize = 1
  Capacity = 1
  MaxStarts = 1
INVARIANTS
  JobsWithinLimit
CHECK_DEADLOCK FALSE
