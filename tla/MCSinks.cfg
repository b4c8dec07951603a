SPECIFICATION MCSpec
CONSTANTS
  Db = {d1}
  Metric = {m1}
  Unsupported = {}
  PromDb = {}
  Series <- MCSeries
  Writers <- MCWriters
  Scraper = {s1, s2}
  TTL = 1
  MaxTime = 3
  MaxCalls = 2
  None = None
INVARIANTS FailureStaysLocal 
PROPERTIES RemovedVanishes
CHECK_DEADLOCK FALSE
