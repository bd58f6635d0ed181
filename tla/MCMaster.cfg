CONSTANTS
  WordBytes = 8
  BlockWords = 2
  OffsetMax = 32
  Passphrases = {0, 1, 8, 37}
  Domains = {0, 11, 16, 24}
  Tokens = {0, 3, 33}
  Configs <- MCConfigs
  WordMax = 64
  Refresh = 3
  BlockSize = 4
  LowMax = 3
  Sizes = {8, 9, 11, 14}
  Positions = {0, 5, 8, 15}
  Length = 46
  BufSize = 8
SPECIFICATION Spec
INVARIANT HashesWhole
INVARIANT ReferencesReady
INVARIANT IndexedAsChosen
PROPERTY ImplementsStream
CHECK_DEADLOCK FALSE
