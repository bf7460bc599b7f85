CONSTANTS
  Keys = {"a", "b"}
  Normalize <- MCNormalize
  MaxSessions = 2
  SessionTimeout = 2
  MaxCompletedTasks = 1
  MaxFailedTasks = 1
  MaxTasks = 2
  MaxTime = 4
  MaxInstances = 3
SPECIFICATION UseSpec
PROPERTY UnusedSessionsExpire
CHECK_DEADLOCK FALSE
