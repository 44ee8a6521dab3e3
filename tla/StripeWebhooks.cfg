SPECIFICATION Spec
CONSTANTS
  Handler = {h1, h2}
  Caller = {c1}
  Plan = {starter, pro}
  MaxEvents = 3
  Faults = {"overlap", "fail", "outage", "crash", "old"}
SYMMETRY Symmetric
INVARIANTS TypeOK AtMostOnce AckedIsHandled Converges
CHECK_DEADLOCK FALSE
