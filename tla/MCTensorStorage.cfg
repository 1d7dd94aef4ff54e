SPECIFICATION TSpec
CONSTANTS
  Ptr <- MCPtr
  Sizes <- MCSizes
  Alignments <- MCAlignments
  DefaultAlignment = 32
  DeviceBuild = FALSE
  MaxAlloc = 3
  MaxReused = 1
  Tensor = {t1, t2, t3}
  Values = {v1, v2}
  NoPtr = NoPtr
  Nothing = Nothing
SYMMETRY Symmetry
INVARIANTS
  StorageOfOne
  ReadsAsMeant
  RoomForSizes
CHECK_DEADLOCK FALSE
