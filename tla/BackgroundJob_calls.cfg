SPECIFICATION FairSpec
CONSTANTS
  c1 = c1
  c2 = c2
  Callers = {c1, c2}
  MaxStarts = 2
  MaxExtends = 1
INVARIANT WorkInOrder
INVARIANT CompletesWithLast
PROPERTY OutcomeStands
PROPERTY EveryoneHears
CHECK_DEADLOCK FALSE
