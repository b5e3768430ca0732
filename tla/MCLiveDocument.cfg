SPECIFICATION Spec
CONSTANTS
  a = a
  b = b
  None = None
  Clients <- MCClients
  MaxPieces = 2
  MaxMoves = 1
PROPERTIES
  NothingIsOverwritten
  EditsAreKept
  InvalidationsAreDue
  InvalidatedEnds
  NobodyStaysBehind
