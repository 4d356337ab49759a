SPECIFICATION Spec
CONSTANTS
  a = a c = c val = val perms = perms defn = defn t1 = t1 t2 = t2
  Thread = {t1, t2}
  Row = {a, c}
  PropVal = {}
  PolicyOf <- NoProps
  Lifetime <- NoProps
  Valued = {}
  Pool = {c}
  Chosen = {a}
  Tracked = {}
  Bit = {1, 2, 3}
  Hash <- RowHash
  SeedTs = 1
  MaxTs = 3
  MAX_BLOOM_SPAN = 1
  MAX_REBASE_ATTEMPTS = 1
PROPERTIES CreateConflictCaught
CHECK_DEADLOCK FALSE
SYMMETRY Symmetry
