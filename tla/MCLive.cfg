CONSTANTS
  N = 2
  Points <- OnePoint
  FaultKinds <- Deaths
  MaxFaults = 1
  Keys <- TwoKeys
  Routes <- Mixed
  RingCap = 2
  AcceptForeign = FALSE
  WheelDelta = 9
  MaxCount = 1
  Sources <- Hardware
  MouseKinds <- NoMouse
SPECIFICATION FairSpec
PROPERTY CopiesConverge
PROPERTY PlansEnd
CHECK_DEADLOCK FALSE
