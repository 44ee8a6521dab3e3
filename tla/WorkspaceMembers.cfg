SPECIFICATION Spec
CONSTANTS
  User = {u1, u2, u3}
  NoUser = NoUser
  Request = {r1, r2, r3}
  MaxVersion = 2
  Faults = {"outage", "crash"}
SYMMETRY Symmetric
INVARIANTS TypeOK OneOwner OwnerRecorded CacheFresh
CHECK_DEADLOCK FALSE
