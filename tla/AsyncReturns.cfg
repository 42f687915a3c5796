SPECIFICATION AsyncSpec
CONSTANTS
  f1 = f1
  f2 = f2
  NoFd = NoFd
  Fds <- TwoFds
  MaxHandlers = 2
  MayAdd = FALSE
  MayRemove = TRUE
  MayClose = TRUE
  Signals = FALSE
INVARIANT OnlyReturnsOnFalse
CHECK_DEADLOCK FALSE
