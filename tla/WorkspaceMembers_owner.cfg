SPECIFICATION Spec
CONSTANTS
  User = {u1, u2}
  NoUser = NoUser
  Request = {r1, r2}
  MaxVersion = 2
  Faults = {}
INVARIANT LastOwnerStays
CHECK_DEADLOCK FALSE
