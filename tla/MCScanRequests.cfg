SPECIFICATION FairSpec
CONSTANTS
  Requests = {r1, r2}
  Tasks = {t1, t2}
  MaxPending = 1
  MaxGrants = 2
  Faults = {"store", "abandon"}
CHECK_DEADLOCK FALSE
INVARIANT PendingIsServed
PROPERTY PendingIsAnswered
