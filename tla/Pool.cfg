SPECIFICATION FairSpec
CONSTANTS
  w1 = w1
  w2 = w2
  w3 = w3
  Main = Main
  None = None
  Workers <- ThreeWorkers
  Submitters <- OneWorker
  MaxTasks = 3
  MaxSpurious = 1
  MaxFailed = 3
INVARIANT FifoDispatch
INVARIANT PermitPerTask
INVARIANT OverAdmissionBounded
INVARIANT NoUseAfterFree
PROPERTY TasksRunUnlessOvertaken
PROPERTY DestroyReturnsUnlessOvertaken
CHECK_DEADLOCK FALSE
