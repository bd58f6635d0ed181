CONSTANTS
  Sources <- MCSources
  MaxLength = 44
  Word = 64
  Alphabets <- MCAlphabets
  Limits = {0}
  DepthLimits = {1, 2, 3}
  Buffers <- MCBuffers
  Wordlists <- MCWordlists
SPECIFICATION FairPassgen
INVARIANT AcceptsPatterns
INVARIANT Derived
INVARIANT EntropyCounts
INVARIANT FailsForCause
INVARIANT StaysInside
PROPERTY Ends
CHECK_DEADLOCK FALSE
