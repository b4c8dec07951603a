SPECIFICATION FairSpec
CONSTANTS
  Table = {t1, t2}
  Leaf = {l1, l2, l3}
  Branch = {b1, b2}
  NoTable = NoTable
  MaxAborts = 3
INVARIANTS RowsInOnePlace UpToDateMeansPartitioned
PROPERTIES UpgradeSucceeds
