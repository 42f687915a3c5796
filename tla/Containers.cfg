SPECIFICATION AnySpec
CONSTANTS
  v = v
  w = w
  h1 = h1
  h2 = h2
  h3 = h3
  n1 = n1
  n2 = n2
  n3 = n3
  n4 = n4
  n5 = n5
  x = x
  y = y
  Garbage = Garbage
  Names <- TwoVectors
  Handles <- ThreeHandles
  MaxCap = 4
  Null = Null
  Void = Void
  Failed = Failed
  Addr <- FiveNodes
  Data <- TwoData
INVARIANT DestructedOnce
PROPERTY LostByMoveOnly
PROPERTY OnlyStableEraseOverruns
INVARIANT WellLinked
PROPERTY IsList
CHECK_DEADLOCK FALSE
SYMMETRY AnyName
VIEW UsedCells
