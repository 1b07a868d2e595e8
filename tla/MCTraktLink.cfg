SPECIFICATION LinkSpec
CONSTANTS
  c1 = c1
  c2 = c2
  c3 = c3
  Callers <- ThreeCallers
  MaxToken = 4
  MaxFaults = 2
  Faults = {"lost", "store"}
SYMMETRY Symmetry
PROPERTY LiveTokenIsKept
CHECK_DEADLOCK FALSE
