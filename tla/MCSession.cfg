CONSTANTS
  N = 3
  MaxSwaps = 2
SPECIFICATION FairSpec
INVARIANT SlotsDistinct
INVARIANT LayoutCurrent
INVARIANT SeenIsCurrent
PROPERTY SwapsShorten
PROPERTY ConfigArrives
PROPERTY SwapEnds
CHECK_DEADLOCK FALSE
