SPECIFICATION MCSpec
CONSTANTS
  Metric = {1, 2, 3}
  Fragile = {2, 3}
  RowCounts = {0, 1, 2}
  CacheLimit = 3
  Precreate = 1
  Retention = 1
  MaxDelay = 1
  LastDay = 2
  MayFail = TRUE
  MayDrop = TRUE
INVARIANTS TypeOK PartitionsReady CopiesAreExact
PROPERTY FlushEnds
CHECK_DEADLOCK FALSE
