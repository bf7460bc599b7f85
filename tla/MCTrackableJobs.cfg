CONSTANTS
  Jobs = {j1, j2}
  Workers = {w1, w2}
  Attempts = 2
  MaxStalls = 1
  MaxFaults = 3
SPECIFICATION Spec
INVARIANTS
  TypeOK
  ProcessingIsWorkedOn
  OutcomeFits
PROPERTIES
  PromiseKept
  ClaimedJobsFinish
CHECK_DEADLOCK FALSE
