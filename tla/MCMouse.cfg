CONSTANTS
  N = 2
  Points <- OnePoint
  FaultKinds <- NotSwitch
  MaxFaults = 1
  Keys <- OneKey
  Routes <- Mirroring
  RingCap = 2
  AcceptForeign = FALSE
  WheelDelta = 9
  MaxCount = 1
  Sources <- Hardware
  MouseKinds <- Button
SPECIFICATION Spec
INVARIANT CursorReturned
INVARIANT ButtonsMirrored
CHECK_DEADLOCK FALSE
PROPERTY PlansShorten
