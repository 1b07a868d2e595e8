SPECIFICATION FairSpec
CONSTANTS
  w1 = w1  w2 = w2  HostA = HostA  HostB = HostB
  Writes <- OneWrite
  InstanceId = InstanceId
  Admitted = Admitted
  Hosts <- OneHost
  Loopback = Loopback
  Unset = Unset
  NoAddress = NoAddress
  MaxFaults = 1
  MaxChanges = 1
  Faults = {"crash", "lone"}
PROPERTY OneStore
