SPECIFICATION FairSpec
CONSTANTS
  c1 = c1 c2 = c2 e1 = e1 e2 = e2 w1 = w1 s1 = s1
  Committer = {c1, c2}
  Encoder = {e1, e2}
  Waiter = {w1}
  Stopper = {s1}
  ENCODE_QUEUE_CAPACITY = 1
  WRITER_QUEUE_CAPACITY = 1
  MaxVersion = 2
  MayFail = TRUE
INVARIANTS AdmittedHasRoom EachVersionOnce StopHonest StopDrains
PROPERTIES ImplementsDurablePrefix PublishedIsStored RequestAnswered StopReturns
CHECK_DEADLOCK FALSE
