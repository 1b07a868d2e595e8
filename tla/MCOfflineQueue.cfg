SPECIFICATION FairSpec
CONSTANTS
  r1 = r1  r2 = r2  k1 = k1  k2 = k2  v1 = v1
  Recipes <- OneRecipe
  NumPackages = 2
  RecipeOf <- SameFilm
  UserOf <- TwoUsers
  Keepers = {}
  Viewers = {}
  MaxFence = 0
  Faults = {"encoder","source","switch","release","expiry","store"}
  MaxCrashes = 1
INVARIANTS PreparingIsOwned ReadyIsServed
PROPERTY QueueMovesUnlessClaimed
