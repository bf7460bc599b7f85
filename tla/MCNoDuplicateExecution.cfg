CONSTANTS
  Tasks = {t1}
  Requests = {r1, r2}
  Runs = {x1, x2, x3}
  Reports <- MCReports
  MaxEpochs = 2
  MaxCancels = 2
SPECIFICATION Spec
INVARIANT NoDuplicateExecution
