SPECIFICATION Spec
CONSTANTS
  Threads = {0, 1, 2}
  Master = 0
  NoThread = 99
  RankPrints = TRUE
  Levels = {0, 1}
  verbosityLv = 0
  MaxLines = 2
  MaxScopes = 2
  MaxRegions = 2
  INVARIANT LockHasLine
CHECK_DEADLOCK FALSE
