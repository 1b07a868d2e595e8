SPECIFICATION Spec
CONSTANTS
  n1 = n1
  n2 = n2
  x1 = x1
  x2 = x2
  Nodes = {n1}
  Items = {x1}
  NoRow = NoRow
  Acts = {"play"}
  MaxTime = 3
  MaxChanges = 2
  MaxErrors = 0
PROPERTY HistoryKept
CHECK_DEADLOCK FALSE
