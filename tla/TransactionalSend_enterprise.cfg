SPECIFICATION Spec
CONSTANTS
  Request = {r1, r2}
  Body = {b1}
  Limit = Infinity
  Infinity = Infinity
  None = None
  MaxExpiries = 0
  Faults = {}
INVARIANT EnterpriseUnlimited
CHECK_DEADLOCK FALSE
