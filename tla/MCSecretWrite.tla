---------------------------- MODULE MCSecretWrite ---------------------------
(***************************************************************************)
(* Two commands at a time, two attempts and two items.                     *)
(***************************************************************************)
EXTENDS SecretWrite, TLC

CONSTANTS p1, p2, i1, i2, t1, t2

Symmetry == Permutations(Procs) \cup Permutations(Items) \cup Permutations(Attempts)
=============================================================================
