SPECIFICATION Spec
CONSTANTS
  Handler = {h1}
  Caller = {}
  Plan = {starter}
  MaxEvents = 1
  Faults = {"fail"}
INVARIANT FailedIsRetried
CHECK_DEADLOCK FALSE
