----------------------- MODULE MCProviderApplication -----------------------
(***************************************************************************)
(* Small instances of ProviderApplication: an agent's request and a human  *)
(* producer's, so that both the release and the write race revocation.     *)
(***************************************************************************)
EXTENDS ProviderApplication, TLC

CONSTANTS r1, r2, a1, c1, c2

MCOwnerOf == [r \in Requests |-> IF r = r1 THEN a1 ELSE Human]

ControllerSymmetry == Permutations(Controllers)
=============================================================================
