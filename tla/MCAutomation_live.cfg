SPECIFICATION FairSpec
CONSTANTS
  r1 = r1
  r2 = r2
  r3 = r3
  w1 = w1
  w2 = w2
  Runs <- MCRuns1
  Workers <- MCWorkers1
  Policies <- MCBudget
  RequestKeys = {1}
  Findings = {}
  Snapshots = {1}
  MaxAttempts = 2
  MaxRetry = 1
  MaxRounds = 2
  MaxBudget = 2
  MaxRevision = 1
  MaxPage = 2
  MaxVersion = 2
  MaxMonth = 2
  MaxChanges = 0
  MaxFaults = 1
  MaxRoots = 1
INVARIANTS
  UsageIsExact
  RunsAreCovered
PROPERTIES
  RunsSettle
CHECK_DEADLOCK FALSE
