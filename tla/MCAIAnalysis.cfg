SPECIFICATION FairSpec
CONSTANTS
  q1 = q1
  q2 = q2
  Questions = {q1, q2}
  MaxRequests = 3
  Results <- MCResults
INVARIANTS
  CancelStopsRuns
  OneDecisionPerVersion
  CurrentVersionAnalysed
PROPERTIES
  DecidedOnAllAnswers
  CancelledRunsStay
  GuidanceIsCleared
  RunsSettle
CHECK_DEADLOCK FALSE
