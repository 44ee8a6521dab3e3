SPECIFICATION FairSpec
CONSTANTS
  Campaign = {c1}
  Request = {r1, r2, r3, r4}
  Content = {good, bad}
  Sendable = {good}
  WithSegment = {good}
  MaxPerMonth = 1
  Faults = {"crash", "nack", "timeout"}
INVARIANTS TypeOK OneWinner VettedSend UsageBacked SendingIsServed
PROPERTIES LifecycleSpec SendingEnds
CHECK_DEADLOCK FALSE
