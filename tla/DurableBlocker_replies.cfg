SPECIFICATION Spec
CONSTANTS
  r1 = r1
  r2 = r2
  r3 = r3
  x = x
  y = y
  here = here
  there = there
  h = h
  t = t
  Requests = {r1, r2}
  Sessions = {x}
  Services = {h, t}
  Locations = {here, there}
  c1 = c1
  c2 = c2
  Clients = {c1, c2}
  e = e
  Editors = {e}
  None = None
  Of <- Owner
  At <- Where
  Created <- Start
  MaxUpsets = 2
SYMMETRY Symmetry
INVARIANT RowsAtHome
 
PROPERTY ImplementsDecision
CHECK_DEADLOCK FALSE
