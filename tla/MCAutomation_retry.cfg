SPECIFICATION Spec
CONSTANTS
  r1 = r1
  r2 = r2
  r3 = r3
  w1 = w1
  w2 = w2
  Runs <- MCRuns2
  Workers <- MCWorkers1
  Policies <- MCSchedule
  RequestKeys = {1}
  Findings = {}
  Snapshots = {1}
  MaxAttempts = 2
  MaxRetry = 1
  MaxRounds = 2
  MaxBudget = 2
  MaxRevision = 1
  MaxPage = 1
  MaxVersion = 1
  MaxMonth = 1
  MaxChanges = 0
  MaxFaults = 0
  MaxRoots = 1
INVARIANTS
  QueuedIsCovered
CHECK_DEADLOCK FALSE
