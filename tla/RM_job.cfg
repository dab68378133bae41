SPECIFICATION FairSpec
CONSTANTS
  N = 2
  MaxTimeouts = 1
  Jobs <- SingleJobs
INVARIANTS RunningUntilOver TablesDrained CompletedBringsAll
PROPERTIES CancelSticks ClientEnds
CHECK_DEADLOCK FALSE
