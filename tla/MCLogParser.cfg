SPECIFICATION MCSpec
CONSTANTS
  f1 = f1
  f2 = f2
  f3 = f3
  File = {f1, f2, f3}
  None = None
  LineSize = 2
  maxChunkSize = 3
  maxTrackedFiles = 2
  MaxLines = 4
  MaxRotations = 3
  MaxFaults = 1
  MaxOffset = 11
  Severity = {"ERROR", "23505"}
  pgSeverities = {"ERROR"}
  SeverityOf <- MCSeverityOf
INVARIANTS TypeOK CountsConserved EachLineOnce NoFilePassedOver
PROPERTIES EveryFileOpened
CHECK_DEADLOCK FALSE
