SPECIFICATION Spec
CONSTANTS
  None = None
  Notifications = {n1, n2}
  MaxEvents = 2
  MaxRestarts = 1
INVARIANT
  SkippedWillBeRetried
