SPECIFICATION Spec
CONSTANTS
  a = a c = c val = val perms = perms defn = defn t1 = t1 t2 = t2
  Thread = {t1, t2}
  Row = {a, c}
  PropVal = {}
  PolicyOf <- NoProps
  Lifetime <- NoProps
  Valued = {}
  Pool = {c}
  Chosen = {}
  Tracked = {a}
  Bit = {1, 2, 3}
  Hash <- RowHash
  SeedTs = 1
  MaxTs = 4
  MAX_BLOOM_SPAN = 1
  MAX_REBASE_ATTEMPTS = 1
INVARIANT BloomSound
PROPERTIES NoLostUpdate ConflictIsReal ImplementsSI TrackedReadsCurrent
CHECK_DEADLOCK FALSE
SYMMETRY Symmetry
