SPECIFICATION FairSpec
CONSTANTS
  p1 = p1
  Aggs = {a1}
  Ids = {e1, e2}
  Bodies = {b1}
  Owners = {}
  None = None
  Fibers = {f1, f2}
  Tails = {t1}
  Subs = {}
  Procs = {p1}
  Home <- HomeOne
  Capacity = 1
  MaxSeq = 1
  MaxOpens = 2
INVARIANT TailKeepsUp
PROPERTY TailCatchesUp
CHECK_DEADLOCK FALSE
