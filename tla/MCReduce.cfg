SPECIFICATION FairSpec
CONSTANTS
  ReducedSizes <- MCReducedSizes
INVARIANTS
  CountedOnce
  IterationsApart
  IsTheSum
PROPERTIES
  Terminates
CHECK_DEADLOCK FALSE
