SPECIFICATION AnySpec
CONSTANTS
  n1 = n1
  n2 = n2
  b1 = b1
  b2 = b2
  b3 = b3
  x = x
  y = y
  Nul = Nul
  Garbage = Garbage
  Null = Null
  Names <- TwoStrings
  Block <- ThreeBlocks
  Texts <- TwoTexts
  MaxCap = 2
  Alphabets <- NumbersAndWords
  MaxLen = 4
  Delimiter = ";"
  Digit <- Digits
  ToLower <- LowerA
  Width = 4
  Flags = {"v"}
  Valued = {"t", "u"}
  Unknown = "?"
  Default <- Defaults
  Values <- Ports
  True <- TrueText
  End = "NUL"
  ArgLen = 4
  MaxItems = 3
INVARIANT EachBlockOwned
INVARIANT ParsesArgs
PROPERTY ImplementsText
PROPERTY StaysInMemory
PROPERTY ViewsSurvive
PROPERTY UnchopUndoes
INVARIANT CutsText
INVARIANT ReadsAsText
CHECK_DEADLOCK FALSE
SYMMETRY AnyName
VIEW WithoutHistory
