\* Seven requests; a run by hand and two by the runner.
CONSTANTS
  Requests <- AllRequests
  Jobs <- SomeJobs
  Totals <- SomeTotals
  MaxFailures = 2
  MaxRuns = 3
SPECIFICATION Spec
INVARIANTS
  ShownIsThisRun
  NoCardAfterFailure
  LabelTrue
  BestIsBest
  AgreesWithLauncher
\* The last run may have ended.
CHECK_DEADLOCK FALSE
