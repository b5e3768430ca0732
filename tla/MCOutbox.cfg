SPECIFICATION FairSpec
CONSTANTS
  e1 = e1
  e2 = e2
  e3 = e3
  d1 = d1
  d2 = d2
  Keys <- MCKeys
  Dispatchers <- MCDispatchers
  BatchLimit = 2
  MaxRetry = 1
  MaxFaults = 1
INVARIANTS
  TypeOK
PROPERTIES
  ImplementsDelivery
  PublishedIsTaken
CHECK_DEADLOCK FALSE
