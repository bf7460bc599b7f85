CONSTANTS
  Keys <- MCKeys
  Normalize <- MCNormalize
  IPSessionKey <- MCIPSessionKey
  Users <- MCUsers
  DefaultSession = "u1"
  EnableSessionIsolation = TRUE
  AutoMapSessionByIP = TRUE
  MaxSessions = 2
  SessionTimeout = 2
  MaxTime = 4
  MaxInstances = 3
  Requests = {r1, r2}
  IPs = {ip1}
SPECIFICATION Spec
CHECK_DEADLOCK FALSE
INVARIANTS
  TypeOK
  Isolation
  MapsInStep
PROPERTIES
  SessionsGoForAReason
  OverflowOnlyWithinAMillisecond
  IdleSessionsStartEmpty
  DatabasesNeverReturn
SYMMETRY MCSymmetry
