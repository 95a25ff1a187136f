SPECIFICATION Spec
CONSTANTS
  p1 = p1
  Aggs = {a1}
  Ids = {e1, e2, e3}
  Bodies = {b1}
  Owners = {o1, o2}
  None = None
  Fibers = {f1, f2}
  Tails = {}
  Subs = {s1}
  Procs = {p1}
  Home <- HomeOne
  Capacity = 1
  MaxSeq = 2
  MaxOpens = 1
SYMMETRY Symmetry
INVARIANT NoSilentGap
INVARIANT ViewIsLog
CHECK_DEADLOCK FALSE
