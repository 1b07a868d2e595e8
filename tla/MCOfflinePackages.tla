------------------------- MODULE MCOfflinePackages -------------------------
(* The instances of OfflinePackages that TLC checks.                       *)
EXTENDS OfflinePackages, TLC

CONSTANTS r1, r2, k1, k2, v1

OneRecipe == {r1}
TwoRecipes == {r1, r2}

(* Packages of one film; the third is of another one.                      *)
SameFilm == [p \in Packages |-> IF p = 3 THEN r2 ELSE r1]
OneUser == [p \in Packages |-> "ann"]
TwoUsers == [p \in Packages |-> IF p = 1 THEN "ann" ELSE "bob"]
=============================================================================
