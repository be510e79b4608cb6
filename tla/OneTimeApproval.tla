-------------------------- MODULE OneTimeApproval --------------------------
(***************************************************************************)
(* What an approval promises the human who gives it, and all it promises:  *)
(* a request is approved at most once, an approval is spent at most once,  *)
(* what was approved is used only while it is spent and at most once, and  *)
(* a request that ended never comes back.  How locks, cancellations,       *)
(* crashes, failed writes and threads interleave is not visible here.      *)
(*                                                                         *)
(* One step may move several requests: a lock ends all of them, and a      *)
(* decision on one also expires the others that are past their deadline.   *)
(***************************************************************************)
EXTENDS Naturals

CONSTANT Requests

VARIABLES
    phase,      \* where each request is
    uses        \* how often each approval was used

abstract == <<phase, uses>>

Phases == {"None", "Pending", "Approved", "Spent", "Ended"}

Moves ==
    {<<"None", "Pending">>, <<"None", "Ended">>,
     <<"Pending", "Approved">>, <<"Pending", "Ended">>,
     <<"Approved", "Spent">>, <<"Approved", "Ended">>,
     <<"Spent", "Ended">>}

Stays(r) == phase'[r] = phase[r] /\ uses'[r] = uses[r]
Moved(r) == <<phase[r], phase'[r]>> \in Moves /\ uses'[r] = uses[r]
Used(r) ==
    /\ phase[r] = "Spent" /\ phase'[r] = "Spent"
    /\ uses[r] = 0 /\ uses'[r] = 1

Init ==
    /\ phase = [r \in Requests |-> "None"]
    /\ uses = [r \in Requests |-> 0]

Next ==
    /\ phase' \in [Requests -> Phases] /\ uses' \in [Requests -> Nat]
    /\ \A r \in Requests : Stays(r) \/ Moved(r) \/ Used(r)

Spec == Init /\ [][Next]_abstract
=============================================================================
