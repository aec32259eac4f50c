CONSTANTS
  e1 = e1
  e2 = e2
  NoEvent = NoEvent
  Event <- MCEvent
  Capacity = 2
  Laps = 3
SPECIFICATION FairSpec
INVARIANT TypeOK
INVARIANT CountersInOrder
INVARIANT PublishedWritten
INVARIANT NoSlotRace
PROPERTY RefinesQueue
