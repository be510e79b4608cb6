---------------------------- MODULE MCCompanion -----------------------------
(***************************************************************************)
(* A bounded instance of Companion: two connections, one administrator and *)
(* a second device that may be enrolled.                                   *)
(***************************************************************************)
EXTENDS Companion, TLC

CONSTANT k1

MCKeys == [d \in Devices |-> IF d \in InitialDevices THEN k1 ELSE NoKey]

Symmetry == Permutations(Threads)
=============================================================================
