SPECIFICATION Spec
CONSTANTS
  Request = {r1, r2, r3}
  MaxSessions = 1
  Horizon = 2
  Outdated = FALSE
  Faults = {}
INVARIANT FamilyKilled
CHECK_DEADLOCK FALSE
