SPECIFICATION FairSpec
CONSTANTS
  j1 = j1
  j2 = j2
  j3 = j3
  s1 = s1
  NoJob = NoJob
  Jobs <- MCJobs
  Syncs <- MCSyncs
  MaxSize = 2
  Capacity = 1
  MaxStarts = 2
INVARIANTS
  TypeOK
  ReservationLedger
  PutNeverFull
  AcceptedOnce
  SlotHasOwner
PROPERTIES
  AcceptedSettles
  ReservationReturns
CHECK_DEADLOCK FALSE
