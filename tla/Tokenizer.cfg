CONSTANTS
  Input = {49, 65, 102, 110, 117, 123, 124, 125, 92, 228}
  MaxInput = 11
SPECIFICATION Spec
INVARIANT Decodes
INVARIANT EscapeUnforgeable
CHECK_DEADLOCK FALSE
