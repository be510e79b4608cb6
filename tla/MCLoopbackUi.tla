---------------------------- MODULE MCLoopbackUi ----------------------------
(***************************************************************************)
(* A small instance of LoopbackUi for TLC: two connections, two requests   *)
(* and room for one launch and one browser session of each role, so that   *)
(* every table is at its limit; one review file cannot be removed.         *)
(***************************************************************************)
EXTENDS LoopbackUi, TLC

Symmetry == Permutations(Workers) \cup Permutations(Requests)
=============================================================================
