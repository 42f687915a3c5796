SPECIFICATION FairSpec
CONSTANTS
  w1 = w1
  w2 = w2
  w3 = w3
  Main = Main
  None = None
  Workers <- TwoWorkers
  Submitters <- NoWorkers
  MaxTasks = 1
  MaxSpurious = 0
  MaxFailed = 0
PROPERTY DestroyReturns
CHECK_DEADLOCK FALSE
