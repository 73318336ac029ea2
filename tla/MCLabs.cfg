SPECIFICATION LabsSpec
CONSTANTS
  p1 = p1
  p2 = p2
  p3 = p3
  pa1 = pa1
  pa2 = pa2
  None = None
  Proc = {p1, p2, p3}
  NBUF = 3
  NBUCKETS = 2
  Block = {0, 1, 2, 3}
  Off = Off
SYMMETRY Symmetry
INVARIANTS
  ShellRight
  NoHang
  OutputExact
  SpaceConserved
  CacheRight
PROPERTIES
  IsByteFile
CHECK_DEADLOCK FALSE
