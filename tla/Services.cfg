SPECIFICATION Spec
CONSTANTS
  None = None
  Handlers = {h1, h2}
  Orgs = {o1, o2}
  Spaces = {w1, w2}
  Keys = {k1}
  OrgKeys = {x1}
  Users = {u1}
  o1 = o1
  Home <- AllInOne
  Slugs = {slug1, slug2}
  Roles = {viewer, editor}
  Requests = {q1, q2}
  Emails = {e1, e2}
  FirstOrg = home
  MaxRestarts = 1
  OtherEvents = {garbled}
  Garbled = garbled
  MaxOthers = 1
  Ids = {c1}
  Days = {1, 7}
  DefaultDays = 90
  Streams = {s1}
  StorageKeys = {rec1, rec2}
  Statuses = {pending, live}
  Pending = pending
  Calls = {d1}
  Points = {p1, p2}
  MaxAttempts = 3
CHECK_DEADLOCK FALSE
INVARIANTS
  RowsHaveParents
  
  CommittedIsAudited
  
  RecordingFollowsRow
  CreatedIsLogged
PROPERTIES
  RegistrationsAudited
