SPECIFICATION Spec
CONSTANTS
  p1 = p1
  p2 = p2
  p3 = p3
  Proc = {p1, p2}
  NBUF = 3
  NBUCKETS = 3
  Block = {0, 1, 2, 3, 4}
  None = None
INVARIANTS NoCircle
CHECK_DEADLOCK FALSE
