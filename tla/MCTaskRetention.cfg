CONSTANTS
  a = a
  b = b
  c = c
  Keys = {a, b, c}
  Normalize <- MCNormalize
  MaxSessions = 2
  SessionTimeout = 2
  MaxCompletedTasks = 1
  MaxFailedTasks = 1
  MaxTasks = 2
  MaxTime = 3
  MaxInstances = 3
SPECIFICATION Spec
SYMMETRY KeySymmetry
INVARIANTS
  TypeOK
  CleanupIsThorough
PROPERTIES
  NewestAreKept
  CleanupSparesSessions
CHECK_DEADLOCK FALSE
