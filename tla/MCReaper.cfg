CONSTANTS
  Source = {s1, s2, s3}
  Focuses = {{s1, s2}, {s3}, {s2, s3}}
  PromSource = {s2}
  DiscoveredSource = {s3}
  FilteredSource = {s3}
  PresetSource = {s1, s3}
  Server = {v1}
  Config <- TwoConfigs
  NoConfig = NoConfig
  Conn = {o1, o2, o3, o4}
  NoConn = NoConn
  ChanCap = 1
  SweepLimit = 2
  MayShutdown = TRUE
  MaxEvents = 2
  v1 = v1
  v2 = v2
SPECIFICATION MCSpec
INVARIANTS IInv StartedOnce LiveWorkerIsRegistered RegisteredWorkerIsCurrent NoPoolLeak WorkerIsKnownToSinks
PROPERTY StoppedForCause
CHECK_DEADLOCK FALSE
