CONSTANTS
  Bytes <- MCBytes
  MaxBytes = 5
  Rooms = {1, 2}
  Texts <- MCTexts
  OutLens = {3, 12}
  SizeMax = 32
SPECIFICATION Spec
INVARIANT DecodesExactly
INVARIANT EncodesWithin
CHECK_DEADLOCK FALSE
