SPECIFICATION FairSpec
CONSTANTS
  j1 = j1
  j2 = j2
  certify = certify
  NoJob = NoJob
  Jobs <- MCJobs
  Rigs <- MCRigs
  RigOf <- MCRigOf
  MaxTests = 1
  MaxCrashes = 1
INVARIANTS
  TypeOK
  NoneLeftRunning
  PassHasReport
  OwnReportWhenAlone
PROPERTIES
  RigStepEnds
CHECK_DEADLOCK FALSE
