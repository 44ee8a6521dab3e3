SPECIFICATION Spec
CONSTANTS
  Campaign = {c1, c2}
  Request = {r1, r2, r3, r4}
  Content = {good, bad}
  Sendable = {good}
  WithSegment = {good}
  MaxPerMonth = 1
  Faults = {}
SYMMETRY Symmetric
INVARIANT MonthlyLimit
CHECK_DEADLOCK FALSE
