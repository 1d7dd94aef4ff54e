SPECIFICATION FairSpec
CONSTANTS
  NDims = 2
  Lat <- MCRing
  Layout = "simdifiable"
  Coverage <- MCEven
  Fields = {1, 2}
  Script <- MCScript
INVARIANTS
  HaloHoldsNeighbours
  NothingLeftOver
PROPERTIES
  AllReturn
CHECK_DEADLOCK FALSE
