CONSTANTS
  BufSize = 4
  Requests = {1, 2, 3, 4, 5}
  Supplies = {2, 4, 11, 14}
  Garbage = Garbage
SPECIFICATION Spec
INVARIANT NoByteTwice
CHECK_DEADLOCK FALSE
