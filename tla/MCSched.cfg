SPECIFICATION Spec
CONSTANTS
  c1 = c1
  c2 = c2
  CPU = {c1, c2}
  NPROC = 3
  KILLS = TRUE
  None = None
SYMMETRY Symmetry
INVARIANTS InterruptsRight Exclusive NoMissedWakeup
