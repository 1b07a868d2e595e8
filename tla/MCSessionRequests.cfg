SPECIFICATION SessionFairSpec
CONSTANTS
  Creates = {"c1", "c2", "c3"}
  Callers = {"u1"}
  Keys = {"k1", "k2"}
  Players = {"phone", "tv"}
  Scenes <- MainScenes
  Faults = {"encoder", "wedge", "refuse", "spawn", "capacity", "abandon", "stop"}
INVARIANT RetiredIsQuiet
PROPERTIES ReplayFindsItsSession VerdictsAreTrue StallIsNoticed EndedIsReleased CreateEnds
CHECK_DEADLOCK FALSE
