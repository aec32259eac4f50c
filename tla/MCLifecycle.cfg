CONSTANTS
  Launches = 1
  Adoptions = 1
  RingCap = 2
SPECIFICATION FairSpec
INVARIANT TypeOK
INVARIANT NoSuspendedClient
INVARIANT KilledWithUs
INVARIANT ExitRestores
INVARIANT WaitsAreAnswered
PROPERTY ShutdownEnds
CHECK_DEADLOCK FALSE
