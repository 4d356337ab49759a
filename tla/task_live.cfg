SPECIFICATION FairSpec
CONSTANTS
  t1 = t1 t2 = t2 p1 = p1 p2 = p2
  Tasks = {t1, t2}
  Player <- TwoPlayers
  Background = {}
  Scenarios <- Live
  MAX_RETRIES = 2
  MAX_MAILBOX = 2
PROPERTIES StopCompletes WakeDelivered CancelHonoured
CHECK_DEADLOCK FALSE
