SPECIFICATION FairSpec
CONSTANTS
  r1 = r1  r2 = r2  k1 = k1  k2 = k2  v1 = v1
  Recipes <- OneRecipe
  NumPackages = 1
  RecipeOf <- SameFilm
  UserOf <- OneUser
  Keepers = {}
  Viewers = {}
  MaxFence = 1
  Faults = {}
  MaxCrashes = 0
PROPERTY QueueMoves
