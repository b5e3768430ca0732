SPECIFICATION FairSpec
CONSTANTS
  MaxRevision = 3
  BatchLimit = 1
  MaxReloads = 3
  MaxMoves = 2
  MaxFaults = 1
PROPERTIES
  LostAccessIsNoticed
CHECK_DEADLOCK FALSE
