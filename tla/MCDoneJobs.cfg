CONSTANTS
  Jobs = {j1}
  Workers = {w1}
  Attempts = 2
  MaxStalls = 1
  MaxFaults = 1
SPECIFICATION Spec
INVARIANT DoneJobsAreRecorded
CHECK_DEADLOCK FALSE
