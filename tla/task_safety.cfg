SPECIFICATION Spec
CONSTANTS
  t1 = t1 t2 = t2 p1 = p1 p2 = p2
  Tasks = {t1, t2}
  Player <- OnePlayer
  Background = {}
  Scenarios <- Safety
  MAX_RETRIES = 1
  MAX_MAILBOX = 2
INVARIANTS NoMissedWake NoSpuriousWake RestoredBeforeRun SweepAlone
PROPERTIES CancelledEnds EffectsFollowCommit KeepsContract
CHECK_DEADLOCK FALSE
