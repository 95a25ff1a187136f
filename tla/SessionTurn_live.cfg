SPECIFICATION FairSpec
CONSTANTS
  m1 = m1
  m2 = m2
  Calls = {c1}
  Primary = m1
  Chain <- WithPrimary
  None = None
  OnWatchdog = TRUE
  MaxSteps = 2
  MaxAttempts = 1
  MaxInputs = 2
  MaxRuns = 0
INVARIANT InboxServed
PROPERTY DrainEnds
CHECK_DEADLOCK FALSE
