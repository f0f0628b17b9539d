------------------------------- MODULE MCWork -------------------------------
(* Work on small instances.                                                *)
EXTENDS Work, TLC

CONSTANTS r1, r2, m1, m2, m3

Symmetry == Permutations(Replica)
=============================================================================
