SPECIFICATION FairSpec
CONSTANTS
  s1 = s1  s2 = s2  p1 = p1  p2 = p2
  Starts <- TwoStarts
  Producers <- TwoProducers
  Wanted <- AnyEncoder
  Pool <- OnePoolEach
  Threads <- Weights
  HwMax = 1
  SwBudget = 2
INVARIANTS HardwareWithinCap OnlyForceOvercommits EncodersArePaidFor ViewersEncodeAlone
PROPERTIES NoHandoffGap ProducersYield
