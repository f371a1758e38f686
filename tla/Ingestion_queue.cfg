SPECIFICATION Spec
CONSTANTS
  None = None
  Calls = {q1}
  Points = {p1, p2}
  MaxAttempts = 2
CHECK_DEADLOCK FALSE
INVARIANT
  QueuedIsSaved
