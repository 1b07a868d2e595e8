SPECIFICATION HalfwaySpec
CONSTANTS
  r1 = r1
  r2 = r2
  x1 = x1
  x2 = x2
  Nodes <- ThreeNodes
  Founders <- ThreeNodes
  NoNode = 0
  Packages = {p1}
  NoPackage = NoPackage
  Recipe <- TwoRecipes
  NoRecipe = NoRecipe
  Removals = {r1}
  Rounds = 2
  Faults = {"drop", "reply", "store"}
  MaxFaults = 1
INVARIANT RemovalIsWhole
CHECK_DEADLOCK FALSE
