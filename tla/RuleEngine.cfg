SPECIFICATION Spec
CONSTANTS
  None = None
  Rules = {r1}
  Admins = {a1}
  Replicas = {i1, i2}
  Values = {1}
  Thresholds = {0}
  Cooldowns = {1}
  MaxReadings = 1
  MaxTime = 1
  MaxMoves = 1
INVARIANTS
  CommittedIsEvaluated
  
PROPERTIES
  DisabledRulesLeave
  ReadingsEvaluated
