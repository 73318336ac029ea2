------------------------------- MODULE MCIntr -------------------------------
(***************************************************************************)
(* An instance of Intr for TLC: rings of two characters, which wrap and    *)
(* fill, two readers, two harts, two processes, a clock that wraps after   *)
(* three ticks, and three requests for the eight descriptors of the disk.  *)
(***************************************************************************)
EXTENDS Intr, TLC

CONSTANTS p1, p2, b1, b2, b3

ASSUME ConsoleConstants /\ K!TrapConstants /\ D!VirtioConstants

Symmetry == Permutations({p1, p2})
=============================================================================
