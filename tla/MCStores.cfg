SPECIFICATION FairSpec
CONSTANTS
  Client = {c1, c2}
  Metric = {m1, m2}
  Preset = {p1}
  Value = {v1}
  Reference = Reference
  Secret = Secret
  Absent = Absent
  Unreadable = Unreadable
  NoRequest = NoRequest
  None = None
INVARIANTS TypeOK
PROPERTIES CallsAreAtomic EveryRequestAnswered
