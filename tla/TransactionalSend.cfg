SPECIFICATION Spec
CONSTANTS
  Request = {r1, r2, r3}
  Body = {b1, b2}
  Limit = 1
  Infinity = Infinity
  None = None
  MaxExpiries = 1
  Faults = {"overlap", "outage", "nack", "timeout", "crash"}
SYMMETRY Symmetric
INVARIANTS TypeOK AcceptedIsReal NoRequeue OneBody SnapshotFresh QuotaBound
CHECK_DEADLOCK FALSE
