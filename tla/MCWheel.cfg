CONSTANTS
  N = 2
  Points <- OnePoint
  FaultKinds <- NoFaults
  MaxFaults = 1
  Keys <- OneKey
  Routes <- Mirroring
  RingCap = 2
  AcceptForeign = FALSE
  WheelDelta = 9
  MaxCount = 1
  Sources <- Hardware
  MouseKinds <- Wheel
SPECIFICATION Spec
INVARIANT CursorOnMaster
CHECK_DEADLOCK FALSE
