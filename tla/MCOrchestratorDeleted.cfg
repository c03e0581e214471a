SPECIFICATION Spec
CONSTANTS
  r1 = r1
  s1 = s1
  s2 = s2
  a1 = a1
  Runs <- MCRuns
  PlanOf <- MCPlan
  Jobs <- OneAsync
  AsyncJobs <- MCAsync
  RunOf <- ForOneAsync
  MaxCrashes = 0
  MaxFaults = 0
INVARIANTS
  DeletedStaysDeleted
CHECK_DEADLOCK FALSE
