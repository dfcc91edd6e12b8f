CONSTANTS
  a = a
  b = b
  caller1 = caller1
  Jobs <- MCJobs
  Callers <- MCCallers
  Cases <- MCCases
  MaxServices = 2
  MaxTime = 3
  Backoff <- MCBackoff
  MaxRetries = 1
  StuckAfter = 1
  Workers = 1
SPECIFICATION Spec
INVARIANTS TypeOK MarkersMatchRuns EditsSurvive
CHECK_DEADLOCK FALSE
PROPERTIES SlotsAreKept ChosenMayRun DueJobsRun
