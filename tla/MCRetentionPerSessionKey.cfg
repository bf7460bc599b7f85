CONSTANTS
  Keys = {"a", "b", "b."}
  Normalize <- MCNormalize
  MaxSessions = 2
  SessionTimeout = 2
  MaxCompletedTasks = 1
  MaxFailedTasks = 1
  MaxTasks = 2
  MaxTime = 3
  MaxInstances = 3
SPECIFICATION Spec
INVARIANT RetentionPerSessionKey
CHECK_DEADLOCK FALSE
