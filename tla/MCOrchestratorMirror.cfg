SPECIFICATION Spec
CONSTANTS
  r1 = r1
  s1 = s1
  s2 = s2
  a1 = a1
  Runs <- MCRuns
  PlanOf <- MCPlan
  Jobs <- TwoSync
  AsyncJobs <- NoAsync
  RunOf <- ForTwoSync
  MaxCrashes = 0
  MaxFaults = 0
INVARIANTS
  RunMirrorsLatest
CHECK_DEADLOCK FALSE
