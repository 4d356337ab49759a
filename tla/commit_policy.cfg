SPECIFICATION Spec
CONSTANTS
  a = a c = c val = val perms = perms defn = defn t1 = t1 t2 = t2
  Thread = {t1, t2}
  Row = {val, perms, defn}
  PropVal = {val}
  PolicyOf <- PropPolicy
  Lifetime <- PropLifetime
  Valued = {perms}
  Pool = {}
  Chosen = {defn}
  Tracked = {}
  Bit = {1, 2, 3}
  Hash <- PropHash
  SeedTs = 1
  MaxTs = 3
  MAX_BLOOM_SPAN = 1
  MAX_REBASE_ATTEMPTS = 1
PROPERTIES ClobberPolicyCurrent
CHECK_DEADLOCK FALSE
SYMMETRY Symmetry
