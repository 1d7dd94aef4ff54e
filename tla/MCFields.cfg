SPECIFICATION FairSpec
CONSTANTS
  Ranks = {0, 1}
  Neighbours <- MCNeighbours
  Printing = {0}
  Owners = {"a","b","c"}
  Views = {"v"}
  MaxOps = 4
  MaxLead = 3
INVARIANTS
  RanksAgree
  UpdatedHaloIsCurrent
  RoomForHalo
PROPERTIES
  UpdatesReturn
CHECK_DEADLOCK FALSE
