CONSTANTS
  Source = {s1}
  Focuses = {{s1}}
  PromSource = {}
  DiscoveredSource = {}
  FilteredSource = {s1}
  PresetSource = {s1}
  Server = {v1}
  Config <- OneConfig
  NoConfig = NoConfig
  Conn = {o1, o2}
  NoConn = NoConn
  ChanCap = 1
  SweepLimit = 1
  MayShutdown = FALSE
  MaxEvents = 2
  v1 = v1
  v2 = v2
SPECIFICATION MCFairSpec
PROPERTY FilteredIsMonitoredOnceEligible
