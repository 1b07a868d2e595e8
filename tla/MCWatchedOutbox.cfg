SPECIFICATION OutboxFairSpec
CONSTANTS
  n1 = n1
  n2 = n2
  Rows = {1, 2}
  Posters <- TwoNodes
  Claim = 3
  Batch = 2
  Timeout = 2
  BackOff <- OneBackOff
  OutboxFaults = {"crash", "store", "admin"}
  MaxOutboxFaults = 1
INVARIANT ClaimHasOneHolder
PROPERTIES LedgerSpec EveryNotificationEnds
