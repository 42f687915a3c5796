SPECIFICATION WaitsSpec
CONSTANTS
  f1 = f1
  f2 = f2
  f3 = f3
  NoFd = NoFd
  Fds <- ThreeFds
  MaxHandlers = 2
  MayAdd = TRUE
  MayRemove = TRUE
  MayClose = TRUE
  Signals = TRUE
  t1 = t1
  t2 = t2
  None = None
  Threads <- TwoThreads
  Second = 3
  Nanos = {1, 2, 3}
  Secs = {1}
  MaxTime = 5
INVARIANT TypeOK
PROPERTY ReadyServed
PROPERTY CalledOnceOnData
INVARIANT Exclusion
PROPERTY TimedReturns
INVARIANT WaitsAsAsked
CHECK_DEADLOCK FALSE
