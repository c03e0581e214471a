SPECIFICATION FairSpec
CONSTANTS
  MaxRetries = 2
  MaxModules = 2
INVARIANTS
  TypeOK
  NothingCreatedTwice
  OneUnknownAtMost
  VerdictRestsOnSuite
PROPERTIES
  StepEnds
CHECK_DEADLOCK FALSE
