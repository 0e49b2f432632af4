\* A row committed between the two SELECTs of a run is exported twice.
SPECIFICATION Spec
CONSTANTS
  MaxTime = 3
  ChunkSize = 2
  InOrder = TRUE
  CopyPresent = TRUE
  MayRebuild = FALSE
  MaxFaults = 0
INVARIANTS NoDuplicate
CHECK_DEADLOCK FALSE
