SPECIFICATION Spec
CONSTANTS
  p1 = p1
  p2 = p2
  b1 = b1
  b2 = b2
  b3 = b3
  b4 = b4
  v1 = v1
  v2 = v2
  Proc = {p1}
  Block = {b1, b2}
  Value = {v1, v2}
  MAXOPBLOCKS = 2
  OPBLOCKS = 1
  LOGSIZE = 3
  nlog = 3
  RefMod = 8
  NotCached = NotCached
  Invalid = Invalid
  Nobody = Nobody
SYMMETRY Symmetry
PROPERTIES
  AtomicCommit
