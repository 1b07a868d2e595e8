SPECIFICATION Spec
CONSTANTS
  r1 = r1  r2 = r2  k1 = k1  k2 = k2  v1 = v1
  Recipes <- OneRecipe
  NumPackages = 1
  RecipeOf <- SameFilm
  UserOf <- OneUser
  Keepers = {k1}
  Viewers = {v1}
  MaxFence = 1
  Faults = {"source","age","release","lease"}
  MaxCrashes = 0
INVARIANT PlainReadersKeepTheirBytes
