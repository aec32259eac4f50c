CONSTANTS
  N = 2
  Points <- OnePoint
  FaultKinds <- NoFaults
  MaxFaults = 1
  Keys <- TwoKeys
  Routes <- OneBinding
  RingCap = 2
  AcceptForeign = FALSE
  WheelDelta = 9
  MaxCount = 1
  Sources <- Hardware
  MouseKinds <- NoMouse
SPECIFICATION Spec
INVARIANT ReassertsPhysicalKeys
CHECK_DEADLOCK FALSE
