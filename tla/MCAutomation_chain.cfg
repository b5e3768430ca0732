SPECIFICATION Spec
CONSTANTS
  r1 = r1
  r2 = r2
  r3 = r3
  w1 = w1
  w2 = w2
  Runs <- MCRuns3
  Workers <- MCWorkers1
  Policies <- MCChains
  RequestKeys = {1}
  Findings = {1}
  Snapshots = {1}
  MaxAttempts = 1
  MaxRetry = 0
  MaxRounds = 2
  MaxBudget = 2
  MaxRevision = 2
  MaxPage = 1
  MaxVersion = 1
  MaxMonth = 1
  MaxChanges = 0
  MaxFaults = 0
  MaxRoots = 2
INVARIANTS
  ChainsAreBounded
  NoSelfTrigger
  OneBatchPerRevision
  BatchFollowsItsInput
CHECK_DEADLOCK FALSE
