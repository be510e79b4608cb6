---------------------------- MODULE MCCliSession ----------------------------
(***************************************************************************)
(* Two commands at a time on two accounts.                                 *)
(***************************************************************************)
EXTENDS CliSession, TLC

CONSTANTS p1, p2, c1, c2

Symmetry == Permutations(Procs) \cup Permutations(Clients)
=============================================================================
