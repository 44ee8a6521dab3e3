SPECIFICATION Spec
CONSTANTS
  Request = {r1, r2, r3}
  Faults = {"outage", "crash"}
  Contact = {c1}
  Worker = {w1, w2}
  Rule <- MCRule
  Filter <- MCFilter
  NoFilter = NoFilter
  NodeList <- MCNodeList
  NodeId = {1, 2, 3}
  Stranger = 0
  WorkflowGraph = {g1, g2}
  NoGraph = NoGraph
  Tenant = {a, b}
  NoSelector = NoSelector
  NoOne = NoOne
  MaxAttempts = 2
  Invitee = {e1, e2}
  MaxMembers = 2
  MaxVersion = 3
  k1 = k1
  k2 = k2
  WriteKey = {k1, k2}
  RateLimit <- MCRateLimit
  Resource = {"segment"}
  ResourceLimit <- MCResourceLimit
  Email = {m1, m2, m3}
  ContactLimit = 2
SYMMETRY Symmetry
INVARIANTS
  TypeOK
  SegmentConverges
  VerdictRight
  RunsWhatIsStored
  SendingIsOwned
  ChargedOnce
  OneCustomer
  LockoutExact
  OldLinksDead
  InvitesBounded
  PublishedIsFrozen
  EventsAccounted
  PlanLimitHeld
CHECK_DEADLOCK FALSE
