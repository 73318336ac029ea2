---------------------------- MODULE MCHashBcache ----------------------------
(* Small instances of HashBcache for TLC.                                  *)
EXTENDS HashBcache

CONSTANTS p1, p2, p3

Symmetry == Permutations(Proc)
=============================================================================
