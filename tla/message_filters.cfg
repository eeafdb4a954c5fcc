SPECIFICATION FilterSpec
CONSTANTS
  Filter = {a, b, c}
  MaxPassChanges = 3
  SelfRemoval = "any"
INVARIANT FiltersSeeMessageOnce
CHECK_DEADLOCK FALSE
