CONSTANTS
  ws = ws
  js = js
  c1 = c1
  c2 = c2
  c3 = c3
  c4 = c4
  Main = Main
  NULL = NULL
  Producers <- MCProducers
  Cells <- MCCells
  MaxSent = 2
  Capacity = 2
SPECIFICATION FairSpec
CHECK_DEADLOCK FALSE
INVARIANTS
  ListWellFormed
  NothingLeaks
  DequeueNeverEmpty
  UnlockedSizeIsALowerBound
  LatestListIntact
PROPERTIES
  DeliveredInOrder
  ImplementsChannel
  EventuallyTaken
