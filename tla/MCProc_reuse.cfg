SPECIFICATION Spec
CONSTANTS
  NPROC = 4
  MAXPID = 5
  KILL = {}
  NOMEM = FALSE
  None = None
INVARIANTS
  NoLockCycle
CHECK_DEADLOCK FALSE
