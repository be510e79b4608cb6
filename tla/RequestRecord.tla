--------------------------- MODULE RequestRecord ---------------------------
(***************************************************************************)
(* One durable access request of the provider: the immutable facts it was  *)
(* created with, its lifecycle status, its one-time execution claim, the   *)
(* receipt of the secret write it may perform and its redacted audit.      *)
(* RequestRecord::transition is the only way a status changes, and         *)
(* DirectRecord::validate is run on every record at every read and every   *)
(* write of the store; both are operators here, so that TLC evaluates them *)
(* and TLAPS reasons about them.                                           *)
(*                                                                         *)
(* Data abstractions. Digests, reviews, labels and times are functions of  *)
(* the immutable facts or are never compared across records; they are left *)
(* out.  An approval binding is a function of fields nothing rewrites, so  *)
(* `approval' keeps its presence only.  Records of the two older formats   *)
(* (legacy one-time texts, LegacyUnknown events) are not modelled, nor is  *)
(* the failure ExecutionRejected, which the provider never records.        *)
(***************************************************************************)
EXTENDS Integers, Sequences

CONSTANTS
    Agents,         \* paired requester agents, by public key
    Human,          \* the owner of requests made at the local terminal
    Nonces,         \* nonces of signed submissions and status queries
    NoNonce,
    Revisions,      \* policy revisions (digests of whole operation policies)
    NoRevision,
    Destinations,   \* server and vault destination of a create effect
    NoDestination,
    CreateOf,       \* the create effect of a policy revision, if it has one
    Items,          \* vault item identifiers the backend may return
    NoItem

ASSUME OwnerAssumption == Human \notin Agents
ASSUME NonceAssumption == NoNonce \notin Nonces
ASSUME ItemAssumption == NoItem \notin Items
ASSUME DestinationAssumption == NoDestination \notin Destinations
ASSUME RevisionAssumption ==
    /\ NoRevision \notin Revisions
    /\ CreateOf \in [Revisions -> Destinations \cup {NoDestination}]

-----------------------------------------------------------------------------
(* Statuses.  DirectStatus::Failed { reason } is one status per reason.    *)

FailedStatus == {"FailedUnavailable", "FailedNonzero", "FailedSignaled", "FailedLost"}
DirectStatus ==
    {"Pending", "Approved", "Running", "Denied", "Expired", "Completed"} \cup FailedStatus
is_terminal(status) == status \in {"Denied", "Expired", "Completed"} \cup FailedStatus
is_unexecuted(status) == status \in {"Pending", "Approved", "Running"}

DecisionOutcome ==
    {"Invalidated", "Recovered", "Approved", "Denied", "Expired",
     "ReviewUnavailable", "ExecutionUnavailable"}
HistoryOutcome ==
    {"Submitted", "Approved", "Denied", "Expired", "ReviewUnavailable", "Invalidated",
     "ExecutionStarted", "Succeeded", "ExecutionNonzero", "ExecutionSignaled",
     "ExecutionUnavailable", "Recovered", "ObservationLost", "Reconciled"}

WriteStatus == {"Failed", "Uncertain", "CreatedUnverified", "Verified"}
NoReceipt == [item |-> NoItem, status |-> "None"]
WriteReceipt == [item : Items \cup {NoItem}, status : WriteStatus \cup {"None"}]
HistoryEvent == [outcome : HistoryOutcome, status : DirectStatus, receipt : WriteReceipt]

DirectRecord ==
    [status   : DirectStatus \cup {"Unused"},
     owner    : Agents \cup {Human},
     nonce    : Nonces \cup {NoNonce},
     revision : Revisions \cup {NoRevision},
     epoch    : Nat,
     approval : BOOLEAN,
     claimed  : BOOLEAN,
     receipt  : WriteReceipt,
     audit    : Seq(HistoryEvent)]

(* An identifier no request has been given yet.                            *)
Unused ==
    [status |-> "Unused", owner |-> Human, nonce |-> NoNonce, revision |-> NoRevision,
     epoch |-> 0, approval |-> FALSE, claimed |-> FALSE, receipt |-> NoReceipt,
     audit |-> << >>]
used(r) == r.status # "Unused"
Destination(r) == IF r.revision \in Revisions THEN CreateOf[r.revision] ELSE NoDestination

-----------------------------------------------------------------------------
(* HistoryEvent::snapshot and history::outcome.                            *)

snapshot(r, outcome, status) == [outcome |-> outcome, status |-> status, receipt |-> r.receipt]

outcome_of(next, decision) ==
    CASE next = "Approved" -> "Approved"
      [] next = "Denied" -> "Denied"
      [] next = "Running" -> "ExecutionStarted"
      [] next = "Completed" -> "Succeeded"
      [] next = "FailedNonzero" -> "ExecutionNonzero"
      [] next = "FailedSignaled" -> "ExecutionSignaled"
      [] next = "FailedUnavailable" ->
            (IF decision = "Recovered" THEN "Recovered" ELSE "ExecutionUnavailable")
      [] next = "FailedLost" ->
            (IF decision = "Recovered" THEN "Recovered" ELSE "ObservationLost")
      [] next = "Expired" ->
            (IF decision \in {"ReviewUnavailable", "ExecutionUnavailable",
                              "Invalidated", "Recovered"}
             THEN decision ELSE "Expired")
      [] OTHER -> "Submitted"

(* The edges of the lifecycle.                                             *)
Edges ==
    ({"Pending"} \X {"Approved", "Denied", "Expired"})
        \cup ({"Approved"} \X {"Expired", "Running"})
        \cup ({"Running"} \X ({"Completed"} \cup FailedStatus))
legal(r, next) ==
    \/ <<r.status, next>> \in Edges
    \/ r.claimed /\ r.status = "Approved" /\ next \in FailedStatus

(* Mutant: a request that ends forgets the nonce it was submitted with.    *)
transition_forgets_nonce(r, next, decision) ==
    [r EXCEPT
        !.status = next,
        !.nonce = IF is_terminal(next) THEN NoNonce ELSE @,
        !.approval = (next = "Approved") \/ (@ /\ ~is_terminal(next)),
        !.audit = Append(@, snapshot(r, outcome_of(next, decision), next))]

transition(r, next, decision) ==
    [r EXCEPT
        !.status = next,
        !.approval = (next = "Approved") \/ (@ /\ ~is_terminal(next)),
        !.audit = Append(@, snapshot(r, outcome_of(next, decision), next))]

(* The record create_owned pushes.                                         *)
fresh_record(owner, nonce, revision, epoch) ==
    [status |-> "Pending", owner |-> owner, nonce |-> nonce, revision |-> revision,
     epoch |-> epoch, approval |-> FALSE, claimed |-> FALSE, receipt |-> NoReceipt,
     audit |-> << [outcome |-> "Submitted", status |-> "Pending", receipt |-> NoReceipt] >>]

-----------------------------------------------------------------------------
(* DirectRecord::validate.                                                 *)

valid_receipt(r) ==
    r.receipt # NoReceipt =>
        /\ Destination(r) # NoDestination
        /\ r.claimed
        /\ r.receipt.status # "None"
        /\ r.receipt.status \in {"Verified", "CreatedUnverified"} => r.receipt.item # NoItem

consistent_outcome(e) ==
    \/ e.outcome = "Reconciled" /\ is_terminal(e.status)
    \/ <<e.outcome, e.status>> \in
            {<<"Submitted", "Pending">>, <<"Approved", "Approved">>, <<"Denied", "Denied">>,
             <<"Expired", "Expired">>, <<"ReviewUnavailable", "Expired">>,
             <<"Invalidated", "Expired">>, <<"ExecutionStarted", "Running">>,
             <<"Succeeded", "Completed">>, <<"ExecutionNonzero", "FailedNonzero">>,
             <<"ExecutionSignaled", "FailedSignaled">>,
             <<"ExecutionUnavailable", "Expired">>,
             <<"ExecutionUnavailable", "FailedUnavailable">>,
             <<"Recovered", "Expired">>, <<"Recovered", "FailedUnavailable">>,
             <<"Recovered", "FailedLost">>, <<"ObservationLost", "FailedLost">>}

(* An event keeps the receipt of its time; the item it names never changes. *)
matches_record(e, r) ==
    /\ consistent_outcome(e)
    /\ e.receipt # NoReceipt =>
            /\ r.receipt # NoReceipt
            /\ e.receipt.item # NoItem => r.receipt.item = e.receipt.item

(* What may follow what in an audit.                                       *)
Follows ==
    ({"Pending"} \X {"Approved", "Denied", "Expired"})
        \cup ({"Approved"} \X ({"Running", "Expired"} \cup FailedStatus))
        \cup ({"Running"} \X ({"Completed"} \cup FailedStatus))

(* Mutant: no room is left for the reconciliation event.                   *)
short_audit == 4

MaxAudit == 5

(* Mutant: the receipt a terminal event recorded may change afterwards.    *)
validate_history_unsealed(r) ==
    /\ Len(r.audit) \in 1..MaxAudit
    /\ \A i \in 1..Len(r.audit) : matches_record(r.audit[i], r)
    /\ r.audit[Len(r.audit)].status = r.status

validate_history(r) ==
    /\ Len(r.audit) \in 1..MaxAudit
    /\ r.audit[1].outcome = "Submitted"
    /\ \A i \in 1..Len(r.audit) :
            /\ matches_record(r.audit[i], r)
            /\ \/ r.claimed
               \/ r.audit[i].status \notin {"Running", "Completed"} \cup FailedStatus
               \/ r.audit[i].outcome = "Recovered"
    /\ \A i \in 2..Len(r.audit) :
            \/ /\ r.audit[i].outcome = "Reconciled"
               /\ is_terminal(r.audit[i - 1].status)
               /\ r.audit[i].status = r.audit[i - 1].status
            \/ <<r.audit[i - 1].status, r.audit[i].status>> \in Follows
    /\ r.audit[Len(r.audit)].status = r.status
    /\ is_terminal(r.status) => r.audit[Len(r.audit)].receipt = r.receipt

validate_record(r, epoch) ==
    /\ valid_receipt(r)
    /\ r.nonce # NoNonce => r.owner # Human
    /\ r.status \in {"Approved", "Running"} => r.approval
    /\ validate_history(r)
    /\ r.epoch <= epoch

(* Consumed replay marker of a signed submission: scoped to its binding.   *)
replay_digest(r) == <<r.owner, r.nonce>>
=============================================================================
