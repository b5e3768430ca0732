SPECIFICATION FairSpec
CONSTANTS
  u1 = u1
  i1 = i1
  q1 = q1
  q2 = q2
  s1 = s1
  s2 = s2
  null = null
  Users = {u1}
  Installations = {i1}
  Requests = {q1, q2}
  Sources = {s1,s2}
  FirstAt <- MCFirstAt
  Pulls = {s1}
  Commit <- MCCommit
  FindingCount = 1
  MaxChanges = 1
  None = null
  MaxRetry = 1
  MaxDocs = 1
  MaxAt = 3
  MaxMoves = 1
  MaxFaults = 1
INVARIANTS
  LatestIsNewest
  RevokedStaysOut
  RepairsAreRecorded
PROPERTIES
  RequestsSettle
  HistoryRepairsNothing
CHECK_DEADLOCK FALSE
