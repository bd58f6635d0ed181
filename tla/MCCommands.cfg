CONSTANTS
  Lines <- MCLines
  Options <- MCOptions
  MaxLines = 1
  MaxOptions = 3
  Files <- MCFiles
  Paths <- MCPaths
  Defaults <- MCDefaults
SPECIFICATION FairSpec
INVARIANT LastWins
INVARIANT NothingDangles
 
PROPERTY RunEnds
CHECK_DEADLOCK FALSE
