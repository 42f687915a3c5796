SPECIFICATION FilesSpec
CONSTANTS
  name = name
  x = x
  y = y
  Hole = Hole
  NoFile = NoFile
  Paths <- OnePath
  Data <- TwoData
  MaxTable = 2
  MaxLen = 2
  WholeFile <- AllCalls
  Short = FALSE
  Others = FALSE
INVARIANT AllReadIsNoError
CHECK_DEADLOCK FALSE
