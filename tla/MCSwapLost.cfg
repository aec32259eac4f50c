CONSTANTS
  N = 3
  MaxSwaps = 1
SPECIFICATION Spec
INVARIANT MasterPublished
CHECK_DEADLOCK FALSE
