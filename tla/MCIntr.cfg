SPECIFICATION IntrSpec
CONSTANTS
  p1 = p1
  p2 = p2
  b1 = b1
  b2 = b2
  b3 = b3
  Reader = {p1, p2}
  INPUT_BUF = 2
  TX_SIZE = 2
  None = None
  NHART = 2
  Proc = {p1, p2}
  UINT = 3
  MAXUPC = 2
  Ticks = {2}
  Buf = {b1, b2, b3}
  NUM = 8
SYMMETRY Symmetry
INVARIANTS
  ReadersWake
  TransmitRight
  TrapRight
  DescRight
  ServedRight
PROPERTIES
  LineDiscipline
  ComesBack
CHECK_DEADLOCK FALSE
