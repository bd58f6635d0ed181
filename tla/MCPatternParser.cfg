CONSTANTS
  Alphabets <- MCAlphabets
  Limits = {0, 3}
  Word = 16
SPECIFICATION Spec
INVARIANT TreeSound
INVARIANT DepthLimited
INVARIANT ModifierApart
INVARIANT Choosable
PROPERTY BehindFrozen
CHECK_DEADLOCK FALSE
