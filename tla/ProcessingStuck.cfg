SPECIFICATION FairSpec
CONSTANTS
  d1 = d1
  r1 = r1
  r2 = r2
  c1 = c1
  c2 = c2
  Doc = {d1}
  Run = {r1}
  Call = {c1}
  MaxRetries = 2
  PostAttempts = 2
  OneTrigger = TRUE
  MaxFaults = 1
PROPERTIES
  InterruptedStepsRecover
CHECK_DEADLOCK FALSE
