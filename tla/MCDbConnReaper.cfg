CONSTANTS
  a = a
  b = b
  c = c
  Metric = {a, b, c}
  Interval <- MCInterval
  InstanceLevel = {c}
  Direct = {b}
  Fragile = {a}
  RoleBound = {b}
  CacheAge = 3
  MaxConns = 2
SPECIFICATION FairSpec
INVARIANTS Isolation NoBeatSkipped
PROPERTIES DegradedForCause DegradedRecovers
