SPECIFICATION Spec
CONSTANTS
  p1 = p1
  p2 = p2
  Procs = {p1, p2}
  Mortal = {p1, p2}
  None = None
  MaxBoots = 2
  MaxClaims = 4
  MaxStalls = 0
  ProcIdentity = TRUE
  Impatient = FALSE
PROPERTY NoBlindRedispatch
