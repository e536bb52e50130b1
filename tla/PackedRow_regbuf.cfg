SPECIFICATION Spec
CONSTANTS
  Widths = {1, 2, 3, 7, 8, 11, 13, 14, 16, 17, 31}
  Lengths = {1, 33, 64}
INVARIANTS RegbufReadsCodes
CHECK_DEADLOCK FALSE
