SPECIFICATION Spec
CONSTANTS
  Sessions = {s1, s2}
  MaxF = 3
INVARIANT UniqueNumbers
CHECK_DEADLOCK FALSE
