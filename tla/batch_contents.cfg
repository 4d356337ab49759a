SPECIFICATION Spec
CONSTANTS
  t1 = t1 t2 = t2
  Thread = {t1, t2}
  Folded <- Fold
  Scenarios <- Passing
  MAX_RECORDS = 2
  MAX_APPEND_BYTES = 2
  MaxNumber = 5
  MaxRecord = 3
INVARIANTS SequenceCoversStored NextIsFresh StoredIsPublished
CHECK_DEADLOCK FALSE
SYMMETRY Symmetry
