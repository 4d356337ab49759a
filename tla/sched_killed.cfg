SPECIFICATION Spec
CONSTANTS
  Scenarios <- Kills
  INTERVAL = 2
  RETENTION = 1
INVARIANT KillIsCounted
CHECK_DEADLOCK FALSE
