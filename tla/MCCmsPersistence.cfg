CONSTANTS
  Requests = {r1, r2, r3}
  Rows = {a}
  Item <- MCItem
  TextLength <- MCTextLength
  MaxInstances = 3
  MaxFaults = 1
SPECIFICATION FairSpec
CHECK_DEADLOCK FALSE
INVARIANTS
  TypeOK
  LoneSavesAreWhole
  UnreadableForAReason
PROPERTIES
  BackupKept
  ServesAgain
