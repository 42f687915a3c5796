SPECIFICATION Spec
CONSTANTS
  a = a
  b = b
  c = c
  None = None
  Acquirers <- LoneAcquirer
  Posters <- TwoPosters
  Batches <- FullBatches
  InitVal = 1
  MaxCalls = 3
  MaxSpurious = 0
PROPERTY IdealSpec
CHECK_DEADLOCK FALSE
