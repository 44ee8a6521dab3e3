SPECIFICATION Spec
CONSTANTS
  Request = {r1, r2}
  Body = {b1}
  Limit = 2
  Infinity = Infinity
  None = None
  MaxExpiries = 0
  Faults = {"outage"}
INVARIANT Idempotent
CHECK_DEADLOCK FALSE
