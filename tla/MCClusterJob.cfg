SPECIFICATION Spec
CONSTANTS
  n1 = n1
  n2 = n2
  j1 = j1
  j2 = j2
  Nobody = Nobody
  Nodes <- OneNode
  Jobs <- TwoJobs
  NodeOf <- SameNode
  MaxCounter = 3
  MaxTime = 2
  TTL = 2
INVARIANTS
  SingleCurrentOwner
  NoSelfStalePublication
PROPERTIES
  PublisherSpec
CHECK_DEADLOCK FALSE
