SPECIFICATION FairSpec
CONSTANTS
  Requests = {r1, r2}
  Tasks = {t1}
  MaxPending = 2
  MaxGrants = 1
  Faults = {}
CHECK_DEADLOCK FALSE
PROPERTY NeverDropped
