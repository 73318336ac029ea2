SPECIFICATION FairSpec
CONSTANTS
  NPROC = 3
  MAXPID = 4
  KILL = {0, 1, 2, 3, 4}
  NOMEM = TRUE
  None = None
INVARIANTS
  NoCycleUnlessStale
  ParentAlive
  NoLostWakeup
  FreedWhenGone
PROPERTIES
  KilledExits
CHECK_DEADLOCK FALSE
