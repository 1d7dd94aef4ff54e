SPECIFICATION FairSpec
CONSTANTS
  Threads = {0, 1, 2}
  Master = 0
  NoThread = 99
  RankPrints = TRUE
  Levels = {0}
  verbosityLv = 0
  MaxLines = 2
  MaxScopes = 2
  MaxRegions = 2
INVARIANTS
  LockMatchesLine
  LinesWhole
PROPERTIES
  AllJoin
CHECK_DEADLOCK FALSE
