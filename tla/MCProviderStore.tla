-------------------------- MODULE MCProviderStore --------------------------
(***************************************************************************)
(* A small instance of ProviderStore for TLC: two requests of an agent or  *)
(* the human create an item at one destination, and a reconciliation may   *)
(* name either of two items.                                               *)
(***************************************************************************)
EXTENDS ProviderStore, TLC

CONSTANTS d1, img

MCLabelOf == [a \in Agents |-> "label"]
MCOpOf == [v \in Revisions |-> "op"]
MCImageOf == [v \in Revisions |-> img]
MCCreateOf == [v \in Revisions |-> d1]

Symmetry == Permutations(Requests) \cup Permutations(Nonces) \cup Permutations(Items)
=============================================================================
