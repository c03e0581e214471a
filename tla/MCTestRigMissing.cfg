SPECIFICATION Spec
CONSTANTS
  j1 = j1
  j2 = j2
  certify = certify
  NoJob = NoJob
  Jobs <- MCJobs
  Rigs <- MCRigs
  RigOf <- MCRigOf
  MaxTests = 1
  MaxCrashes = 1
INVARIANTS
  MissingReportFails
CHECK_DEADLOCK FALSE
