SPECIFICATION Spec
CONSTANTS
  N = 2
  MaxTimeouts = 1
  Jobs <- ReconnectJobs
INVARIANT ReconnectNeverCrashes
CHECK_DEADLOCK FALSE
