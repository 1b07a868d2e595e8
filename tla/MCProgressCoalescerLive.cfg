SPECIFICATION FairSpec
CONSTANTS
  Keys = {k1}
  Requests = {r1}
  Entries = {e1}
  NoEntry = NoEntry
  SweepAt = 1
  MaxAttempts = 2
  MaxBeats = 3
  MaxMoves = 1
PROPERTY PendingEnds
CHECK_DEADLOCK FALSE
