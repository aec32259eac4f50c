CONSTANTS
  N = 2
  Points <- OnePoint
  FaultKinds <- NoFaults
  MaxFaults = 1
  Keys <- SwapKeys
  Routes <- WithSwap
  RingCap = 2
  AcceptForeign = FALSE
  WheelDelta = 9
  MaxCount = 1
  Sources <- Hardware
  MouseKinds <- NoMouse
SPECIFICATION Spec
INVARIANT HotkeysHidden
CHECK_DEADLOCK FALSE
