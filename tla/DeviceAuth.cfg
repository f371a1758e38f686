SPECIFICATION Spec
CONSTANTS
  d1 = d1
  k1 = k1
  c1 = c1
  None = None
  Devices = {d1, d2}
  Channels = {c1}
  Keys = {k1, k2}
  Requests = {r1}
  Admins = {a1, a2}
  InitialKey <- MCInitialKey
  InitialOwner <- MCInitialOwner
INVARIANTS
  
  NeverMisattributed
PROPERTIES
  BumpInvalidates
  DeletedForGood
  ImplementsGate
  RevocationTakesEffect
