SPECIFICATION FairSpec
CONSTANTS
  MaxRevision = 3
  BatchLimit = 1
  MaxReloads = 3
  MaxMoves = 2
  MaxFaults = 2
INVARIANTS
  ShowsWhatIsAuthorized
  ExtrasAreNotOlder
  NothingIsSkipped
PROPERTIES
  ShownCatchesUp
  LiveStreamsAreRechecked
CHECK_DEADLOCK FALSE
