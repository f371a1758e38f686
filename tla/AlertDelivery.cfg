SPECIFICATION Spec
CONSTANTS
  None = None
  Notifications = {n1, n2}
  MaxEvents = 2
  MaxRestarts = 2
INVARIANTS
  CommittedIsNotified
  
PROPERTIES
  ReadStaysRead
  AlertsHandled
  
