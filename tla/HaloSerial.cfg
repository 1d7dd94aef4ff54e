SPECIFICATION Spec
CONSTANTS
  NDims = 2
  Lat <- MCSerialRing
  Layout = "serial"
  Coverage <- MCEven
  Fields = {1, 2}
  Script <- MCScript
INVARIANTS
  HaloHoldsNeighbours
CHECK_DEADLOCK FALSE
