SPECIFICATION Spec
CONSTANTS
  t1 = t1 t2 = t2
  Thread = {t1, t2}
  Folded <- Fold
  Scenarios <- TwoCreators
  MAX_RECORDS = 2
  MAX_APPEND_BYTES = 2
  MaxNumber = 3
  MaxRecord = 3
INVARIANT NextIsFresh
CHECK_DEADLOCK FALSE
SYMMETRY Symmetry
