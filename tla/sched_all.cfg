SPECIFICATION FairSpec
CONSTANTS
  Scenarios <- All
  INTERVAL = 2
  RETENTION = 1
INVARIANTS NeverForgotten PointsAccounted NoDeadFiring
PROPERTIES FiresOnce IdsNeverReused StartedInTime OneShotFires
CHECK_DEADLOCK FALSE
