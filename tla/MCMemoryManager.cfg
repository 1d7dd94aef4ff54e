SPECIFICATION Spec
CONSTANTS
  Ptr <- MCPtr
  Sizes <- MCSizes
  Alignments <- MCAlignments
  DefaultAlignment = 32
  DeviceBuild = FALSE
  MaxAlloc = 4
  MaxReused = 3
INVARIANTS
  OneOwner
  EveryBlockRecorded
  TotalsMatchMaps
  AlignmentHonoured
  CacheEmptyWhenDisabled
  NothingLeftAfterFinalize
PROPERTIES
  ImplementsAllocator
CHECK_DEADLOCK FALSE
