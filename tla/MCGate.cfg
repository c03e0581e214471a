SPECIFICATION Spec
CONSTANTS
  Grain = 10
  Runs <- MCRuns
  Answers <- MCAnswers
  Statuses = {"PASSED", "FAILED"}
INVARIANTS
  TypeOK
  VerdictDeserved
  PassNeedsEvidence
  ExitTellsVerdict
  ImprovementNeverFails
  ReportAgrees
CHECK_DEADLOCK FALSE
