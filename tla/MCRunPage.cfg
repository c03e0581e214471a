SPECIFICATION FairSpec
CONSTANTS
  Polls = {p1, p2}
  MaxExecutions = 2
INVARIANTS
  TypeOK
  ShowsWhatWasAsked
  HistoryAgrees
PROPERTIES
  PageSettles
CHECK_DEADLOCK FALSE
