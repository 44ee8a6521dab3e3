SPECIFICATION Spec
CONSTANTS
  Request = {r1, r2, r3}
  MaxSessions = 1
  Horizon = 2
  Outdated = TRUE
  Faults = {"crash"}
SYMMETRY Symmetric
INVARIANTS TypeOK OneChain EndedIsDenied OldPasswordOut
PROPERTIES EndedForGood CapEnforced
CHECK_DEADLOCK FALSE
