SPECIFICATION Spec
CONSTANTS
  NDims = 2
  Lat <- MCPair
  Layout = "simdifiable"
  Coverage <- MCEvenOdd
  Fields = {1, 2}
  Script <- MCScript
INVARIANTS
  HaloHoldsNeighbours
CHECK_DEADLOCK FALSE
