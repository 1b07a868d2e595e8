SPECIFICATION Spec
CONSTANTS
  n1 = n1
  n2 = n2
  x1 = x1
  x2 = x2
  Nodes = {n1, n2}
  Items = {x1}
  NoRow = NoRow
  Acts = {"mark", "unmark", "play", "replay", "watch", "pause", "forget", "link"}
  MaxTime = 3
  MaxChanges = 2
  MaxErrors = 1
INVARIANT SkipIsSafe
PROPERTIES NothingErased UnwatchStands
CHECK_DEADLOCK FALSE
SYMMETRY Symmetry
