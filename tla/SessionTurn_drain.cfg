SPECIFICATION Spec
CONSTANTS
  m1 = m1
  m2 = m2
  Calls = {c1, c2}
  Primary = m1
  Chain <- OneEntry
  None = None
  OnWatchdog = TRUE
  MaxSteps = 2
  MaxAttempts = 2
  MaxInputs = 1
  MaxRuns = 1
SYMMETRY Symmetry
INVARIANT AnsweredAtDispatch
INVARIANT EffectIsVisible
INVARIANT DispatchesBounded
PROPERTY RepeatsLeaveNothing
PROPERTY DeclineHalts
CHECK_DEADLOCK FALSE
