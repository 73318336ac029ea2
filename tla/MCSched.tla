------------------------------ MODULE MCSched ------------------------------
(* Small instances of Sched for TLC.                                       *)
EXTENDS Sched, TLC

CONSTANTS c1, c2

Symmetry == Permutations(CPU)
=============================================================================
