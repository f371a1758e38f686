SPECIFICATION Spec
CONSTANTS
  None = None
  Replicas = {i1, i2}
  Points = {p1, p2}
  MaxRecords = 3
  MaxMoves = 2
CHECK_DEADLOCK FALSE
INVARIANTS
  CommittedIsAccounted
  NormalizedIsStored
  
PROPERTIES
  RecordsHandled
