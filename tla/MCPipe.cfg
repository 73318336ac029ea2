SPECIFICATION FairSpec
CONSTANTS
  r1 = r1
  w1 = w1
  w2 = w2
  b1 = b1
  b2 = b2
  Reader = {r1}
  Writer = {w1, w2}
  Byte = {b1, b2}
  PIPESIZE = 2
  UINT = 4
  SIZES = {3}
  VICTIMS = {r1, w1}
  None = None

INVARIANTS NoMissedWakeup NoUseAfterFree
PROPERTIES IsFifo ClosedEndNoticed
CHECK_DEADLOCK FALSE
