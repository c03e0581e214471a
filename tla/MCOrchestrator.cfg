SPECIFICATION FairSpec
CONSTANTS
  r1 = r1
  s1 = s1
  s2 = s2
  a1 = a1
  Runs <- MCRuns
  PlanOf <- MCPlan
  Jobs <- SyncAndAsync
  AsyncJobs <- MCAsync
  RunOf <- ForSyncAndAsync
  MaxCrashes = 2
  MaxFaults = 1
INVARIANTS
  TypeOK
  EvidenceConsistent
  RunStatusHasEvidence
  StaleHasOwner
  MirrorsWhenAlone
PROPERTIES
  EvidenceFrozen
  RefinesLifecycle
  PlannedSettles
CHECK_DEADLOCK FALSE
