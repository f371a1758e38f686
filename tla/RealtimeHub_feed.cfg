CONSTANTS
  Sockets = {ws}
  Streams = {sse}
  Channels = {ch1, ch2}
  Subs = {s1, s2}
  SendBuffer = 2
  ConnBuffer = 1
  MaxBroadcasts = 3
SPECIFICATION Spec
PROPERTIES
  ImplementsFeed
CHECK_DEADLOCK FALSE
