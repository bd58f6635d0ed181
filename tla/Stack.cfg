SPECIFICATION StackSpec
CONSTANTS
  BinSize = 4
  CapInit = 4
  Values = {a, b}
  None = None
  Junk = Junk
  MaxLen = 17
INVARIANT LaidOut
PROPERTY ImplementsLifo
