SPECIFICATION Spec
CONSTANTS
  p1 = p1
  p2 = p2
  p3 = p3
  Slot = {p1, p2, p3}
  initproc = p1
  CPU = {c1, c2}
  c1 = c1
  c2 = c2
  None = None
  NPAGE = 24
  PGSIZE = 2
  WRAP = 16
  MAXPG = 4
  NARG = 1
  GROW <- MCGrow
  END <- MCEnd
INVARIANTS
  PagesConserved
  SizeMapped
  SatpLive
SYMMETRY MCSymmetry
CHECK_DEADLOCK FALSE
