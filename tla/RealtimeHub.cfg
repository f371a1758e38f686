CONSTANTS
  Sockets = {ws}
  Streams = {sse}
  Channels = {ch}
  Subs = {s1, s2}
  SendBuffer = 2
  ConnBuffer = 1
  MaxBroadcasts = 3
SPECIFICATION FairSpec
INVARIANTS
  NoPanic
  InOrder
  NothingLeftBehind
PROPERTIES
  ConsumerGoesOn
  HandlerReturns
CHECK_DEADLOCK FALSE
