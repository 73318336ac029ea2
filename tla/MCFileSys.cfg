SPECIFICATION Spec
CONSTANTS
  p1 = p1
  p2 = p2
  None = None
  Proc = {p1, p2}
  initproc = p1
  NINO = 3
  NINODE = 3
  OTHERS = 1
  NFILE = 1
  NOFILE = 2
  Name = {"a", "b"}
  MAXLINK = 3
  CRASH = TRUE
  CALLS <- MCCalls
CONSTRAINT ToTheEnd
INVARIANTS
  RefsRight
  LinksExact
  NoLostInode
  CallsGoOn
CHECK_DEADLOCK FALSE
