CONSTANTS
  Source = {s1}
  Focuses = {{s1}}
  PromSource = {}
  DiscoveredSource = {s1}
  FilteredSource = {}
  PresetSource = {s1}
  Server = {v1}
  Config <- TwoConfigs
  NoConfig = NoConfig
  Conn = {o1, o2, o3}
  NoConn = NoConn
  ChanCap = 1
  SweepLimit = 1
  MayShutdown = FALSE
  MaxEvents = 2
  v1 = v1
  v2 = v2
SPECIFICATION MCFairSpec
PROPERTIES EventuallyMonitored EventuallyReleased
