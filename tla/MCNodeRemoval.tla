---------------------------- MODULE MCNodeRemoval ----------------------------
EXTENDS NodeRemoval, TLC

CONSTANTS r1, r2, x1, x2

TwoNodes   == {1, 2}
ThreeNodes == {1, 2, 3}
FourNodes  == {1, 2, 3, 4}
TwoRecipes == [n \in Nodes |-> IF n = 1 THEN x1 ELSE x2]

(* The state without the record of how fresh an answer is, which no step reads *)
(* and only MovedOnFreshProof looks at.                                        *)
Unhistorical ==
  <<package, probe, look, work, bytes, transfers, late,
    voters, removed, up, call, faults>>
=============================================================================
