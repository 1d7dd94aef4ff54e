SPECIFICATION FairSpec
CONSTANTS
  Ranks = {0, 1, 2}
  Paths <- MCPaths
  MaxTime = 1
  Environments <- MCEnvironments
  MaxOps = 2
INVARIANTS
  TurnsInOrder
  CollectivesAgree
  MeasuredWhereMasterPassed
PROPERTIES
  AllEnd
CHECK_DEADLOCK FALSE
