SPECIFICATION FairSpec
CONSTANTS
  a = a
  b = b
  l = l
  Hub = Hub
  Remotes = {a, b}
  Homes = {Hub, a}
  Locals = {l}
  Project = Project
  None = None
  Same = Same
  MaxWrites = 1
  MaxWarps = 2
  MaxFaults = 1
INVARIANTS OnePlace WarpIsWhole
PROPERTIES OnlyOwnerIsHeard CatchesUp
CHECK_DEADLOCK FALSE
