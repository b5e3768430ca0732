SPECIFICATION Spec
CONSTANTS
  u = u
  v = v
  h = h
  p = p
  q = q
  Workspace = Workspace
  Users = {u, v}
  Hooks = {h}
  Projects = {p, q}
  Keys <- MCKeys
  MaxRetry = 1
  MaxMoves = 2
CHECK_DEADLOCK FALSE
INVARIANTS
  NobodyIsForgotten
  ScopeCoversObject
  ExportEnds
PROPERTIES
  RecordedIsFinal
  EventsSettle
