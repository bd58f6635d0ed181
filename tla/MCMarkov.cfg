CONSTANTS
  Levels = {1, 2}
  Words <- MCWords
  Weights = {0, 1, 6}
  MaxAdds = 2
  CountMax = 24
  MaxWord = 6
  Width = 8
  MaxBound = 40
SPECIFICATION Spec
INVARIANT TablesSound
INVARIANT NeverLost
INVARIANT Unbiased
INVARIANT OverrunNeedsCycle
PROPERTY ImplementsChain
CHECK_DEADLOCK FALSE
