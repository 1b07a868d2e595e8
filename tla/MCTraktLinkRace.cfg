SPECIFICATION LinkSpec
CONSTANTS
  c1 = c1
  c2 = c2
  c3 = c3
  Callers <- TwoCallers
  MaxToken = 4
  MaxFaults = 2
  Faults = {}
SYMMETRY Symmetry
PROPERTY DropsNoRotatedLink
CHECK_DEADLOCK FALSE
