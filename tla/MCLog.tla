------------------------------- MODULE MCLog -------------------------------
(* Small instances of Log for TLC.                                         *)
EXTENDS LogInv, TLC

CONSTANTS p1, p2, b1, b2, b3, b4, v1, v2

Symmetry == Permutations(Proc) \cup Permutations(Block) \cup Permutations(Value)
============================================================================
