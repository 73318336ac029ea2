-------------------------------- MODULE MCVm --------------------------------
(* An instance of Vm for TLC: two CPUs, three processes of at most four pages. *)
EXTENDS Vm, TLC

CONSTANTS p1, p2, p3, c1, c2

MCSymmetry == Permutations({p2, p3}) \cup Permutations(CPU)
MCGrow == {3, -1, -7}
MCEnd == {0, 1, 3}
=============================================================================
