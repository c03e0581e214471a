SPECIFICATION FairSpec
CONSTANTS
  r1 = r1
  r2 = r2
  w1 = w1
  w2 = w2
  w3 = w3
  Requests <- MCRequests
  Workers <- MCWorkers
  Capacity = 2
INVARIANTS
  TypeOK
  WithinCapacity
  NoLostWakeup
PROPERTIES
  RefinesSemaphore
  WorkerServed
CHECK_DEADLOCK TRUE
