SPECIFICATION MCSpec
CONSTANTS
  Obj = {o1, o2}
  Hash = {h1, h2}
  Granted = h1
  Absent = Absent
  NoState = NoState
  MaxChanges = 2
INVARIANTS EventsTellState
PROPERTIES EventsFitView FollowsSnapshots CatchesUp
