SPECIFICATION FairSpec
CONSTANTS
  c1 = c1
  c2 = c2
  c3 = c3
  Chars = {c1, c2}
  Period = 1
  FirstPeriod = 2
  Horizon = 5
  Meddling = FALSE
INVARIANTS
  NoDanglingEntry
  AwakeStaysRegistered
PROPERTIES
  OneTickPerPeriod
  PendingTicks
