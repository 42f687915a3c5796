SPECIFICATION FairSpec
CONSTANTS
  a = a
  b = b
  c = c
  None = None
  Acquirers <- TwoThreads
  Posters <- TwoPosters
  Batches <- SomeBatches
  InitVal = 0
  MaxCalls = 2
  MaxSpurious = 1
INVARIANT Conservation
INVARIANT NoStrandedPost
PROPERTY AtomicSpec
PROPERTY CallsSettle
CHECK_DEADLOCK FALSE
