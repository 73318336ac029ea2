SPECIFICATION LiveSpec
CONSTANTS
  b1 = b1
  b2 = b2
  b3 = b3
  Buf = {b1, b2, b3}
  NUM = 8
  p1 = p1
  p2 = p2
  v1 = v1
  c1 = c1
  None = None
  NotCached = NotCached
  Invalid = Invalid
PROPERTIES
  WaitersGoOn
  RunnableRuns
