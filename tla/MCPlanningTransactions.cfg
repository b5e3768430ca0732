SPECIFICATION FairSpec
CONSTANTS
  t1 = t1
  t2 = t2
  r1 = r1
  k1 = k1
  v1 = v1
  null = null
  Items = {1, 2}
  Existing = {1}
  Txs = {t1, t2}
  Runs = {r1}
  Keys = {k1}
  Values = {v1}
  None = null
  Active = {"change", "delete", "attach", "remark", "commit", "undo"}
  MaxRevision = 3
INVARIANTS
  DecisionsStillHold
  DeadlocksAreMixed
PROPERTIES
  EveryoneEnds
  UndoTakesBackItsOwn
  ImplementsAtomicPlanning
CHECK_DEADLOCK FALSE
