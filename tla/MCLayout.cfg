CONSTANTS
  MaxInstances = 5
  Areas <- SomeAreas
  Specs <- SomeSpecs
  AbsMax = 37
  BucketUs = 10
  Buckets = 3
  NoMin = 99
  Samples <- SomeLatencies
  MaxSamples = 5
SPECIFICATION Spec
INVARIANT TypeOK
INVARIANT SlotsCompact
INVARIANT GridTiles
INVARIANT PipTiles
INVARIANT EveryoneVisible
INVARIANT ClickLandsInside
INVARIANT ClickKeepsPlace
INVARIANT AbsExact
INVARIANT PercentilesAreRanks
CHECK_DEADLOCK FALSE
