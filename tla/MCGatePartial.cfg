SPECIFICATION Spec
CONSTANTS
  Grain = 10
  Runs <- MCRuns
  Answers <- MCAnswers
  Statuses = {"PASSED", "FAILED"}
INVARIANTS
  NoPassFromPartialEvidence
CHECK_DEADLOCK FALSE
