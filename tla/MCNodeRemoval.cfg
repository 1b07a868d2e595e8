SPECIFICATION Spec
CONSTANTS
  r1 = r1
  r2 = r2
  x1 = x1
  x2 = x2
  Nodes <- ThreeNodes
  Founders <- TwoNodes
  NoNode = 0
  Packages = {p1}
  NoPackage = NoPackage
  Recipe <- TwoRecipes
  NoRecipe = NoRecipe
  Removals = {r1}
  Rounds = 3
  Faults = {"drop"}
  MaxFaults = 1
INVARIANTS NothingStranded ReadyBytesAtOwner
PROPERTY DownloadsAreNotCut
CHECK_DEADLOCK FALSE
VIEW Unhistorical
