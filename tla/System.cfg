SPECIFICATION SystemSpec
CONSTANTS
  x = x
  y = y
  p1 = p1
  p2 = p2
  p3 = p3
  Nobody = Nobody
  Messages <- OneMessage
  Payloads <- TwoPayloads
  Parties <- ThreeParties
  BuffSize = 2
  Backlog = 1
  MaxFds = 2
  MaxConns = 1
  MaxSent = 3
  MaxMail = 3
  name = name
  Hole = Hole
  NoFile = NoFile
  Paths <- OnePath
  Data <- TwoData
  MaxTable = 2
  MaxLen = 2
  WholeFile <- AllCalls
  Short = TRUE
  Others = TRUE
  t1 = t1
  t2 = t2
  Callers <- TwoThreads
  Calls <- AllKinds
INVARIANT FailureTold
PROPERTY IsStream
INVARIANT ClientHasSockets
INVARIANT AnswersOneSender
INVARIANT WholeFileExact
INVARIANT FileFailureTold
PROPERTY AppendsOnly
PROPERTY DescriptorsKept
INVARIANT Reported
INVARIANT ExitTellsError
CHECK_DEADLOCK FALSE
