SPECIFICATION Spec
CONSTANTS
  Keys = {k1, k2}
  Requests = {r1, r2}
  Entries = {e1, e2}
  NoEntry = NoEntry
  SweepAt = 1
  MaxAttempts = 2
  MaxBeats = 3
  MaxMoves = 1
SYMMETRY Symmetry
INVARIANTS PendingIsServed OneEntryPerKey DrainLeavesNothing
PROPERTIES StaleBeatNeverLands AcceptedBeatAccounted
CHECK_DEADLOCK FALSE
