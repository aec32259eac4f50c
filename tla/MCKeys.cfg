CONSTANTS
  N = 3
  Points <- OnePoint
  FaultKinds <- Fails
  MaxFaults = 1
  Keys <- TwoKeys
  Routes <- OneBinding
  RingCap = 2
  AcceptForeign = FALSE
  WheelDelta = 9
  MaxCount = 1
  Sources <- AllSources
  MouseKinds <- NoMouse
SPECIFICATION Spec
INVARIANT TypeOK
INVARIANT CopiesAgree
INVARIANT NoFeedback
INVARIANT InjectHitsTarget
INVARIANT HeldKeysSurvive
INVARIANT NoLostWakeup
INVARIANT StrandedIsCounted
CHECK_DEADLOCK FALSE
