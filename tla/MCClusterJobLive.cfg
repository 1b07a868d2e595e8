SPECIFICATION FairSpec
CONSTANTS
  n1 = n1
  n2 = n2
  j1 = j1
  j2 = j2
  Nobody = Nobody
  Nodes <- OneNode
  Jobs <- OneJob
  NodeOf <- OnlySlot
  MaxCounter = 3
  MaxTime = 2
  TTL = 2
PROPERTIES
  JobEnds
CHECK_DEADLOCK FALSE
