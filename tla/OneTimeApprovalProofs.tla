----------------------- MODULE OneTimeApprovalProofs -----------------------
(***************************************************************************)
(* ProviderStore implements OneTimeApproval, and nothing the store itself  *)
(* validates can keep it from ending authority, for every value of the     *)
(* constants.                                                              *)
(*                                                                         *)
(* Both rest on what one step can do to one record (Evolution), which is   *)
(* read off the actions once, and on what is lawful of a record at rest    *)
(* (Lawful), which Evolution preserves.                                    *)
(***************************************************************************)
EXTENDS ProviderStoreProofs

-----------------------------------------------------------------------------
(* One record, one step.                                                   *)

(* A claim follows a decision, a Running record is claimed, and the start  *)
(* of an execution is in the audit only of a record that got that far.     *)
Lawful(r) ==
    /\ r.claimed => r.status \notin {"Unused", "Pending"}
    /\ r.status = "Running" => r.claimed
    /\ execution_recorded(r) => r.status \notin {"Unused", "Pending", "Approved"}

(* What the operations of the store make of a record.                      *)
Evolution(r, s) ==
    \/ s = r
    \/ \E next \in DirectStatus, decision \in DecisionOutcome :
            /\ legal(r, next) /\ (next = "Running" => r.claimed)
            /\ s = transition(r, next, decision)
    \/ r.status = "Approved" /\ s = [r EXCEPT !.claimed = TRUE]
    \/ \E receipt \in WriteReceipt : s = [r EXCEPT !.receipt = receipt]
    \/ \E item \in Items : is_terminal(r.status) /\ s = reconciled(r, item)
    \/ /\ r = Unused
       /\ \E owner \in Agents \cup {Human}, nonce \in Nonces \cup {NoNonce},
             revision \in Revisions, epoch \in Nat :
             s = fresh_record(owner, nonce, revision, epoch)

(* The transitions of the sweeps and of expiry.                            *)
LEMMA ExpiryEvolution ==
    ASSUME NEW r \in DirectRecord, unclaimed(r), NEW decision \in DecisionOutcome
    PROVE  Evolution(r, transition(r, "Expired", decision))
<1>1. legal(r, "Expired") /\ "Expired" \in DirectStatus
  BY DEF legal, Edges, unclaimed, DirectStatus
<1> QED
  BY <1>1 DEF Evolution

LEMMA InvalidationEvolution ==
    ASSUME NEW r \in DirectRecord, NEW recovered \in BOOLEAN, Lawful(r), swept(r, recovered)
    PROVE  /\ Evolution(r, invalidated_request(r, recovered))
           /\ legal(r, invalidated_request(r, recovered).status)
<1> DEFINE next == IF r.status = "Running" \/ r.claimed THEN "FailedLost" ELSE "Expired"
           decision == IF recovered THEN "Recovered" ELSE "Invalidated"
<1>1. next \in DirectStatus /\ decision \in DecisionOutcome /\ next # "Running"
  BY DEF DirectStatus, FailedStatus, DecisionOutcome
<1>2. legal(r, next)
  BY DEF legal, Edges, swept, is_unexecuted, Lawful, FailedStatus
<1>3. invalidated_request(r, recovered) = transition(r, next, decision)
  BY DEF invalidated_request
<1> HIDE DEF next, decision
<1>4. transition(r, next, decision).status = next
  BY <1>1, TransitionType
<1> QED
  BY <1>1, <1>2, <1>3, <1>4 DEF Evolution

(* Replacing one record moves that one and no other.                       *)
LEMMA PutEvolution ==
    ASSUME FileOK, NEW p \in Requests, NEW r, Evolution(state.requests[p], r),
           write_state(put(p, r)), NEW q \in Requests
    PROVE  Evolution(state.requests[q], state'.requests[q])
<1>1. state' = state \/ state' = put(p, r)
  BY WriteState
<1>2. state' = put(p, r) => state'.requests = [state.requests EXCEPT ![p] = r]
  BY DEF put, FileOK, ProviderState
<1>3. state.requests \in [Requests -> DirectRecord]
  BY DEF FileOK, ProviderState
<1>4. CASE state'.requests[q] = state.requests[q]
  BY <1>4 DEF Evolution
<1>5. CASE q = p /\ state'.requests[q] = r
  BY <1>5
<1> QED
  BY <1>1, <1>2, <1>3, <1>4, <1>5

(* What decisions and executions make of the record they are about.        *)
LEMMA DecidingEvolution ==
    ASSUME FileOK, NEW q \in Requests, Deciding
    PROVE  Evolution(state.requests[q], state'.requests[q])
<1>1. state \in ProviderState /\ state.requests \in [Requests -> DirectRecord]
  BY DEF FileOK, ProviderState
<1>2. state.lifecycle_epoch \in Nat
  BY <1>1 DEF ProviderState
<1>3. {"Approved", "Denied", "Expired"} \subseteq DirectStatus
  BY DEF DirectStatus
<1>4. {"Approved", "Denied", "Expired", "ReviewUnavailable", "ExecutionUnavailable"}
          \subseteq DecisionOutcome
  BY DEF DecisionOutcome
<1>5. ASSUME NEW p \in Requests, NEW v \in Revisions, create_direct(p, v)
      PROVE  Evolution(state.requests[q], state'.requests[q])
  <2>1. Evolution(state.requests[p], fresh_record(Human, NoNonce, v, state.lifecycle_epoch))
    BY <1>2, <1>5 DEF create_direct, Evolution
  <2> QED
    BY <1>5, <2>1, PutEvolution DEF create_direct
<1>6. ASSUME NEW p \in Requests, NEW a \in Agents, NEW n \in Nonces, NEW v \in Revisions,
             create_signed(p, a, n, v)
      PROVE  Evolution(state.requests[q], state'.requests[q])
  <2>1. Evolution(state.requests[p], fresh_record(a, n, v, state.lifecycle_epoch))
    BY <1>2, <1>6 DEF create_signed, Evolution
  <2> QED
    BY <1>6, <2>1, PutEvolution DEF create_signed, write_marked
<1>7. ASSUME NEW p \in Requests, NEW a \in Agents, NEW n \in Nonces, consume_status_query(p, a, n)
      PROVE  Evolution(state.requests[q], state'.requests[q])
  <2> DEFINE new == [state EXCEPT !.query_replay_markers = @ \cup {<<a, n>>}]
  <2>1. write_state(new) /\ new.requests = state.requests
    BY <1>1, <1>7 DEF consume_status_query, write_marked, ProviderState
  <2> HIDE DEF new
  <2>2. state'.requests = state.requests
    BY <2>1, WriteState
  <2> QED
    BY <2>2 DEF Evolution
<1>8. ASSUME NEW elapsed \in SUBSET Requests, expire_direct(elapsed)
      PROVE  Evolution(state.requests[q], state'.requests[q])
  <2>1. expired_state(state, elapsed).requests[q] =
            IF q \in elapsed /\ unclaimed(state.requests[q])
            THEN transition(state.requests[q], "Expired", "Expired") ELSE state.requests[q]
    BY <1>1 DEF expired_state, ProviderState
  <2>2. Evolution(state.requests[q], expired_state(state, elapsed).requests[q])
    <3>1. CASE q \in elapsed /\ unclaimed(state.requests[q])
      BY <1>1, <1>4, <2>1, <3>1, ExpiryEvolution
    <3>2. CASE ~(q \in elapsed /\ unclaimed(state.requests[q]))
      BY <2>1, <3>2 DEF Evolution
    <3> QED
      BY <3>1, <3>2
  <2>3. state' = state \/ state' = expired_state(state, elapsed)
    BY <1>8, WriteState DEF expire_direct
  <2>4. Evolution(state.requests[q], state.requests[q])
    BY DEF Evolution
  <2> QED
    BY <2>2, <2>3, <2>4
<1>9. ASSUME NEW p \in Requests, NEW next \in {"Approved", "Denied", "Expired"},
             NEW decision \in {"Approved", "Denied", "ReviewUnavailable"},
             state.requests[p].status = "Pending",
             write_state(put(p, transition(state.requests[p], next, decision)))
      PROVE  Evolution(state.requests[q], state'.requests[q])
  <2>1. legal(state.requests[p], next)
    BY <1>9 DEF legal, Edges
  <2>2. Evolution(state.requests[p], transition(state.requests[p], next, decision))
    BY <1>3, <1>4, <1>9, <2>1 DEF Evolution
  <2> QED
    BY <1>9, <2>2, PutEvolution
<1>10. ASSUME NEW p \in Requests, cancel_unclaimed_execution(p)
       PROVE  Evolution(state.requests[q], state'.requests[q])
  <2>1. unclaimed(state.requests[p])
    BY <1>10 DEF cancel_unclaimed_execution, unclaimed
  <2>2. Evolution(state.requests[p],
                  transition(state.requests[p], "Expired", "ExecutionUnavailable"))
    BY <1>1, <1>4, <2>1, ExpiryEvolution
  <2> QED
    BY <1>10, <2>2, PutEvolution DEF cancel_unclaimed_execution
<1>11. ASSUME NEW p \in Requests, fail_direct_launch(p)
       PROVE  Evolution(state.requests[q], state'.requests[q])
  BY <1>9, <1>11 DEF fail_direct_launch
<1>12. ASSUME NEW p \in Requests, NEW next \in {"Approved", "Denied"}, decide_direct(p, next)
       PROVE  Evolution(state.requests[q], state'.requests[q])
  BY <1>9, <1>12 DEF decide_direct, prepare_direct
<1> QED
  BY <1>5, <1>6, <1>7, <1>8, <1>10, <1>11, <1>12 DEF Deciding

LEMMA ExecutingEvolution ==
    ASSUME FileOK, NEW q \in Requests, Executing
    PROVE  Evolution(state.requests[q], state'.requests[q])
<1>1. state \in ProviderState /\ state.requests \in [Requests -> DirectRecord]
  BY DEF FileOK, ProviderState
<1>2. ASSUME NEW p \in Requests, claim_execution(p)
      PROVE  Evolution(state.requests[q], state'.requests[q])
  <2>1. Evolution(state.requests[p], [state.requests[p] EXCEPT !.claimed = TRUE])
    BY <1>2 DEF claim_execution, Evolution
  <2> QED
    BY <1>2, <2>1, PutEvolution DEF claim_execution
<1>3. ASSUME NEW p \in Requests, execution_started(p)
      PROVE  Evolution(state.requests[q], state'.requests[q])
  <2>1. legal(state.requests[p], "Running") /\ state.requests[p].claimed
    BY <1>3 DEF execution_started, legal, Edges
  <2>2. "Running" \in DirectStatus /\ "Approved" \in DecisionOutcome
    BY DEF DirectStatus, DecisionOutcome
  <2>3. Evolution(state.requests[p], transition(state.requests[p], "Running", "Approved"))
    BY <2>1, <2>2 DEF Evolution
  <2> QED
    BY <1>3, <2>3, PutEvolution DEF execution_started
<1>4. ASSUME NEW p \in Requests, NEW receipt \in WriteReceipt,
             write_state(put(p, [state.requests[p] EXCEPT !.receipt = receipt]))
      PROVE  Evolution(state.requests[q], state'.requests[q])
  <2>1. Evolution(state.requests[p], [state.requests[p] EXCEPT !.receipt = receipt])
    BY DEF Evolution
  <2> QED
    BY <1>4, <2>1, PutEvolution
<1>5. ASSUME NEW p \in Requests, begin_write(p)
      PROVE  Evolution(state.requests[q], state'.requests[q])
  <2>1. [item |-> NoItem, status |-> "Uncertain"] \in WriteReceipt
    BY DEF WriteReceipt, WriteStatus
  <2> QED
    BY <1>4, <1>5, <2>1 DEF begin_write
<1>6. ASSUME NEW p \in Requests, NEW receipt \in WriteResults(state.requests[p].receipt),
             record_write(p, receipt)
      PROVE  Evolution(state.requests[q], state'.requests[q])
  <2>1. receipt \in WriteReceipt
    BY <1>1, WriteResultsType
  <2> QED
    BY <1>4, <1>6, <2>1 DEF record_write
<1>7. ASSUME NEW p \in Requests, NEW status \in {"Completed"} \cup FailedStatus, NEW cleanup,
             finish_execution(p, status, cleanup)
      PROVE  Evolution(state.requests[q], state'.requests[q])
  <2> DEFINE decision == IF status = "Completed" THEN "Approved" ELSE "ExecutionUnavailable"
  <2>1. legal(state.requests[p], status) /\ status # "Running"
    BY <1>7 DEF finish_execution, legal, Edges, FailedStatus
  <2>2. status \in DirectStatus /\ decision \in DecisionOutcome
    BY DEF DirectStatus, DecisionOutcome
  <2>3. write_state(put(p, transition(state.requests[p], status, decision)))
    BY <1>7 DEF finish_execution
  <2> HIDE DEF decision
  <2>4. Evolution(state.requests[p], transition(state.requests[p], status, decision))
    BY <2>1, <2>2 DEF Evolution
  <2> QED
    BY <2>3, <2>4, PutEvolution
<1>8. ASSUME NEW p \in Requests, NEW item \in Items, reconcile_write(p, item)
      PROVE  Evolution(state.requests[q], state'.requests[q])
  <2>1. Evolution(state.requests[p], reconciled(state.requests[p], item))
    BY <1>8 DEF reconcile_write, Evolution
  <2> QED
    BY <1>8, <2>1, PutEvolution DEF reconcile_write
<1> QED
  BY <1>2, <1>3, <1>5, <1>6, <1>7, <1>8 DEF Executing

(* Every step of the store evolves every record.                           *)
LEMMA StepEvolution ==
    ASSUME FileOK, NEW q \in Requests, Lawful(state.requests[q]), [Next]_vars
    PROVE  Evolution(state.requests[q], state'.requests[q])
<1>1. state \in ProviderState /\ state.requests \in [Requests -> DirectRecord]
  BY DEF FileOK, ProviderState
<1>2. ASSUME state'.requests = state.requests
      PROVE  Evolution(state.requests[q], state'.requests[q])
  BY <1>2 DEF Evolution
<1>3. CASE UNCHANGED vars \/ Crash
  BY <1>2, <1>3 DEF vars, Crash
<1>4. CASE Registry
  <2>1. ASSUME NEW new, write_state(new), new.requests = state.requests
        PROVE  state'.requests = state.requests
    BY <2>1, WriteState
  <2>2. ASSUME NEW a \in Agents, pair_agent(a) PROVE state'.requests = state.requests
    BY <1>1, <2>1, <2>2 DEF pair_agent, ProviderState
  <2>3. ASSUME NEW image \in Images, register_image(image) PROVE state'.requests = state.requests
    BY <1>1, <2>1, <2>3 DEF register_image, ProviderState
  <2>4. ASSUME NEW v \in Revisions, provision_operation(v) PROVE state'.requests = state.requests
    BY <1>1, <2>1, <2>4 DEF provision_operation, ProviderState
  <2>5. ASSUME NEW a \in Agents, revoke_agent(a)
        PROVE  Evolution(state.requests[q], state'.requests[q])
    <3>1. revoked_state(state, a).requests[q] =
              IF state.requests[q].owner = a /\ unclaimed(state.requests[q])
              THEN transition(state.requests[q], "Expired", "Invalidated")
              ELSE state.requests[q]
      BY <1>1 DEF revoked_state, ProviderState
    <3>2. "Invalidated" \in DecisionOutcome
      BY DEF DecisionOutcome
    <3>3. Evolution(state.requests[q], revoked_state(state, a).requests[q])
      <4>1. CASE state.requests[q].owner = a /\ unclaimed(state.requests[q])
        BY <1>1, <3>1, <3>2, <4>1, ExpiryEvolution
      <4>2. CASE ~(state.requests[q].owner = a /\ unclaimed(state.requests[q]))
        BY <3>1, <4>2 DEF Evolution
      <4> QED
        BY <4>1, <4>2
    <3>4. state' = state \/ state' = revoked_state(state, a)
      BY <2>5, WriteState DEF revoke_agent
    <3> QED
      BY <1>2, <3>3, <3>4
  <2> QED
    BY <1>2, <1>4, <2>2, <2>3, <2>4, <2>5 DEF Registry
<1>5. ASSUME NEW recovered \in BOOLEAN,
             state' = state \/ state' = invalidated_state(state, recovered)
      PROVE  Evolution(state.requests[q], state'.requests[q])
  <2>1. invalidated_state(state, recovered).requests[q] =
            IF swept(state.requests[q], recovered)
            THEN invalidated_request(state.requests[q], recovered) ELSE state.requests[q]
    BY <1>1 DEF invalidated_state, ProviderState
  <2>2. Evolution(state.requests[q], invalidated_state(state, recovered).requests[q])
    <3>1. CASE swept(state.requests[q], recovered)
      BY <1>1, <2>1, <3>1, InvalidationEvolution
    <3>2. CASE ~swept(state.requests[q], recovered)
      BY <2>1, <3>2 DEF Evolution
    <3> QED
      BY <3>1, <3>2
  <2> QED
    BY <1>2, <1>5, <2>2
<1>6. CASE lock
  BY <1>5, <1>6, WriteState DEF lock
<1>7. CASE start
  BY <1>5, <1>7 DEF start
<1> QED
  BY <1>3, <1>4, <1>6, <1>7, DecidingEvolution, ExecutingEvolution DEF Next


-----------------------------------------------------------------------------
(* The refinement.                                                         *)

(* The refinement mapping of one record.                                   *)
PhaseOf(r) ==
    CASE r.status = "Unused" -> "None"
      [] is_terminal(r.status) -> "Ended"
      [] is_unexecuted(r.status) /\ r.claimed -> "Spent"
      [] OTHER -> r.status
UsesOf(r) == IF execution_recorded(r) THEN 1 ELSE 0

(* An event adds a start to the audit exactly when it is one.              *)
LEMMA AppendRecords ==
    ASSUME NEW r \in DirectRecord, NEW s \in DirectRecord, NEW e \in HistoryEvent,
           s.audit = Append(r.audit, e)
    PROVE  execution_recorded(s) <=> (execution_recorded(r) \/ e.outcome = "ExecutionStarted")
<1>1. r.audit \in Seq(HistoryEvent)
  BY DEF DirectRecord
<1>2. /\ Len(r.audit) \in Nat /\ Len(s.audit) = Len(r.audit) + 1
      /\ s.audit[Len(r.audit) + 1] = e
      /\ \A i \in 1..Len(r.audit) : s.audit[i] = r.audit[i]
  BY <1>1, AppendProperties, LenProperties
<1> QED
  BY <1>2 DEF execution_recorded

(* What a transition makes of the record, as the mapping sees it.          *)
LEMMA TransitionMapped ==
    ASSUME NEW r \in DirectRecord, NEW next \in DirectStatus, NEW decision \in DecisionOutcome
    PROVE  LET s == transition(r, next, decision) IN
           /\ s.status = next /\ s.claimed = r.claimed
           /\ execution_recorded(s) <=> (execution_recorded(r) \/ next = "Running")
<1> DEFINE s == transition(r, next, decision)
           e == snapshot(r, outcome_of(next, decision), next)
<1>1. s \in DirectRecord /\ s.status = next
  BY TransitionType
<1>2. s.claimed = r.claimed /\ s.audit = Append(r.audit, e)
  BY DEF transition, DirectRecord
<1>3. outcome_of(next, decision) \in HistoryOutcome
  BY DEF outcome_of, HistoryOutcome, DirectStatus, DecisionOutcome, FailedStatus
<1>4. outcome_of(next, decision) = "ExecutionStarted" <=> next = "Running"
  BY DEF outcome_of, DirectStatus, DecisionOutcome, FailedStatus
<1>5. e \in HistoryEvent /\ e.outcome = outcome_of(next, decision)
  BY <1>3 DEF snapshot, HistoryEvent, DirectRecord
<1> HIDE DEF s, e
<1>6. execution_recorded(s) <=> (execution_recorded(r) \/ next = "Running")
  BY <1>1, <1>2, <1>4, <1>5, AppendRecords
<1> QED
  BY <1>1, <1>2, <1>6 DEF s

(* An evolution keeps a record lawful and is, in the abstract, a stutter,  *)
(* a move or the one use of a spent approval.                              *)
LEMMA EvolutionRefines ==
    ASSUME NEW r \in DirectRecord, NEW s \in DirectRecord, Lawful(r), Evolution(r, s)
    PROVE  /\ Lawful(s)
           /\ \/ PhaseOf(s) = PhaseOf(r) /\ UsesOf(s) = UsesOf(r)
              \/ <<PhaseOf(r), PhaseOf(s)>> \in Approval!Moves /\ UsesOf(s) = UsesOf(r)
              \/ /\ PhaseOf(r) = "Spent" /\ PhaseOf(s) = "Spent"
                 /\ UsesOf(r) = 0 /\ UsesOf(s) = 1
<1> DEFINE Kept == PhaseOf(s) = PhaseOf(r) /\ UsesOf(s) = UsesOf(r)
           Progress == <<PhaseOf(r), PhaseOf(s)>> \in Approval!Moves /\ UsesOf(s) = UsesOf(r)
<1>1. ASSUME s.status = r.status, s.claimed = r.claimed,
             execution_recorded(s) <=> execution_recorded(r)
      PROVE  Lawful(s) /\ Kept
  BY <1>1 DEF Lawful, PhaseOf, UsesOf
<1>2. CASE s = r
  BY <1>1, <1>2
<1>3. ASSUME NEW next \in DirectStatus, NEW decision \in DecisionOutcome,
             legal(r, next), next = "Running" => r.claimed, s = transition(r, next, decision)
      PROVE  /\ Lawful(s)
             /\ Progress \/ (/\ PhaseOf(r) = "Spent" /\ PhaseOf(s) = "Spent"
                             /\ UsesOf(r) = 0 /\ UsesOf(s) = 1)
  <2>1. /\ s.status = next /\ s.claimed = r.claimed
        /\ execution_recorded(s) <=> (execution_recorded(r) \/ next = "Running")
    BY <1>3, TransitionMapped
  <2>2. CASE next = "Running"
    <3>1. r.claimed /\ r.status = "Approved"
      BY <1>3, <2>2 DEF legal, Edges, FailedStatus
    <3>2. ~execution_recorded(r) /\ execution_recorded(s)
      BY <2>1, <2>2, <3>1 DEF Lawful
    <3>3. PhaseOf(r) = "Spent" /\ PhaseOf(s) = "Spent"
      BY <2>1, <2>2, <3>1 DEF PhaseOf, is_terminal, is_unexecuted, FailedStatus
    <3>4. Lawful(s)
      BY <2>1, <2>2, <3>1 DEF Lawful
    <3> QED
      BY <3>2, <3>3, <3>4 DEF UsesOf
  <2>3. CASE next = "Approved"
    <3>1. r.status = "Pending" /\ ~r.claimed
      BY <1>3, <2>3 DEF legal, Edges, FailedStatus, Lawful
    <3>2. PhaseOf(r) = "Pending" /\ PhaseOf(s) = "Approved"
      BY <2>1, <2>3, <3>1 DEF PhaseOf, is_terminal, is_unexecuted, FailedStatus
    <3>3. Lawful(s) /\ UsesOf(s) = UsesOf(r)
      BY <2>1, <2>3, <3>1 DEF Lawful, UsesOf
    <3> QED
      BY <3>2, <3>3 DEF Approval!Moves
  <2>4. CASE next \notin {"Running", "Approved"}
    <3>1. is_terminal(next) /\ r.status \in {"Pending", "Approved", "Running"}
      BY <1>3, <2>4 DEF legal, Edges, is_terminal
    <3>2. PhaseOf(s) = "Ended" /\ PhaseOf(r) \in {"Pending", "Approved", "Spent"}
      <4>0. next # "Unused" /\ is_terminal(s.status) /\ s.status = next
        BY <2>1, <3>1 DEF is_terminal, FailedStatus
      <4>1. PhaseOf(s) = "Ended"
        BY <4>0 DEF PhaseOf, is_terminal, is_unexecuted, FailedStatus
      <4>2. PhaseOf(r) \in {"Pending", "Approved", "Spent"}
        BY <3>1 DEF PhaseOf, is_terminal, is_unexecuted, FailedStatus, Lawful
      <4> QED
        BY <4>1, <4>2
    <3>3. Lawful(s) /\ UsesOf(s) = UsesOf(r)
      BY <2>1, <2>4, <3>1 DEF Lawful, UsesOf, is_terminal, FailedStatus
    <3> QED
      BY <3>2, <3>3 DEF Approval!Moves
  <2> QED
    BY <2>2, <2>3, <2>4
<1>4. CASE r.status = "Approved" /\ s = [r EXCEPT !.claimed = TRUE]
  <2>1. s.status = "Approved" /\ s.claimed = TRUE /\ s.audit = r.audit
    BY <1>4 DEF DirectRecord
  <2>2. execution_recorded(s) <=> execution_recorded(r)
    BY <2>1 DEF execution_recorded
  <2>3. ~execution_recorded(r)
    BY <1>4 DEF Lawful
  <2>4. Lawful(s)
    BY <2>1, <2>2, <2>3 DEF Lawful
  <2>5. PhaseOf(s) = "Spent" /\ UsesOf(s) = UsesOf(r)
    BY <2>1, <2>2 DEF PhaseOf, UsesOf, is_terminal, is_unexecuted, FailedStatus
  <2>6. PhaseOf(r) \in {"Approved", "Spent"}
    BY <1>4 DEF PhaseOf, is_terminal, is_unexecuted, FailedStatus
  <2> QED
    BY <2>4, <2>5, <2>6 DEF Approval!Moves
<1>5. CASE \E receipt \in WriteReceipt : s = [r EXCEPT !.receipt = receipt]
  <2>1. s.status = r.status /\ s.claimed = r.claimed /\ s.audit = r.audit
    BY <1>5 DEF DirectRecord
  <2> QED
    BY <1>1, <2>1 DEF execution_recorded
<1>6. ASSUME NEW item \in Items, s = reconciled(r, item)
      PROVE  Lawful(s) /\ Kept
  <2> DEFINE receipt == [item |-> item,
                         status |-> IF r.receipt.status = "Verified" THEN "Verified"
                                    ELSE "CreatedUnverified"]
             e == [outcome |-> "Reconciled", status |-> r.status, receipt |-> receipt]
  <2>1. s.status = r.status /\ s.claimed = r.claimed /\ s.audit = Append(r.audit, e)
    BY <1>6 DEF reconciled, snapshot, DirectRecord
  <2>2. \A i \in 1..Len(s.audit) : i <= Len(r.audit) \/ i = Len(r.audit) + 1
    BY <2>1, AppendProperties, LenProperties DEF DirectRecord
  <2>3. Len(r.audit) \in Nat /\ Len(s.audit) = Len(r.audit) + 1 /\ s.audit[Len(r.audit) + 1] = e
    BY <2>1, AppendProperties, LenProperties DEF DirectRecord
  <2>4. \A i \in 1..Len(r.audit) : s.audit[i] = r.audit[i]
    BY <2>1, AppendProperties, LenProperties DEF DirectRecord
  <2>5. e.outcome # "ExecutionStarted"
    OBVIOUS
  <2> HIDE DEF e
  <2>6. execution_recorded(s) <=> execution_recorded(r)
    BY <2>2, <2>3, <2>4, <2>5 DEF execution_recorded
  <2> QED
    BY <1>1, <2>1, <2>6
<1>7. ASSUME r = Unused,
             NEW owner \in Agents \cup {Human}, NEW nonce \in Nonces \cup {NoNonce},
             NEW revision \in Revisions, NEW epoch \in Nat,
             s = fresh_record(owner, nonce, revision, epoch)
      PROVE  Lawful(s) /\ Progress
  <2>1. /\ s.status = "Pending" /\ s.claimed = FALSE /\ Len(s.audit) = 1
        /\ s.audit[1].outcome = "Submitted"
    BY <1>7 DEF fresh_record
  <2>2. ~execution_recorded(s)
    BY <2>1 DEF execution_recorded
  <2>3. ~execution_recorded(r)
    BY <1>7 DEF execution_recorded, Unused
  <2>4. PhaseOf(r) = "None"
    <3>1. r.status = "Unused" /\ ~is_terminal(r.status) /\ r.claimed = FALSE
      BY <1>7 DEF Unused, is_terminal, FailedStatus
    <3> QED
      BY <3>1 DEF PhaseOf, is_unexecuted
  <2>5. PhaseOf(s) = "Pending"
    BY <2>1 DEF PhaseOf, is_terminal, is_unexecuted, FailedStatus
  <2> QED
    BY <2>1, <2>2, <2>3, <2>4, <2>5 DEF Lawful, UsesOf, Approval!Moves
<1> QED
  BY <1>2, <1>3, <1>4, <1>5, <1>6, <1>7 DEF Evolution

(* Every record of the file is lawful.                                     *)
AllLawful == \A p \in Requests : Lawful(state.requests[p])

LEMMA InitLawful == Init => AllLawful
<1>1. Lawful(Unused)
  BY DEF Lawful, Unused, execution_recorded
<1> QED
  BY <1>1 DEF Init, initial, AllLawful

LEMMA StepLawful ==
    ASSUME TypeOK, TypeOK', AllLawful, [Next]_vars
    PROVE  AllLawful'
<1> SUFFICES ASSUME NEW q \in Requests PROVE Lawful(state'.requests[q])
  BY DEF AllLawful
<1>1. FileOK /\ Lawful(state.requests[q])
  BY DEF TypeOK, FileOK, AllLawful
<1>2. state.requests[q] \in DirectRecord /\ state'.requests[q] \in DirectRecord
  BY DEF TypeOK, ProviderState
<1> QED
  BY <1>1, <1>2, StepEvolution, EvolutionRefines

THEOREM RecordsLawful == Spec => []AllLawful
<1>1. TypeOK /\ TypeOK' /\ AllLawful /\ [Next]_vars => AllLawful'
  BY StepLawful
<1> QED
  BY <1>1, InitLawful, TypeCorrect, PTL DEF Spec

(* ProviderStore implements OneTimeApproval: whatever the locks, crashes,  *)
(* recoveries, failed directory syncs and expiries, no request is approved *)
(* or started twice and none that ended comes back.  Each step moves every *)
(* record along Evolution, which is a stutter, a move of the abstract      *)
(* lifecycle or the single use of a spent approval.                        *)
THEOREM OneTime == Spec => ImplementsOneTimeApproval
<1> DEFINE phase == [p \in Requests |-> PhaseOf(state.requests[p])]
           uses == [p \in Requests |-> UsesOf(state.requests[p])]
<1>1. Init => Approval!Init
  <2>1. ~execution_recorded(Unused) /\ Unused.status = "Unused"
    BY DEF execution_recorded, Unused
  <2>2. ~is_terminal("Unused") /\ ~is_unexecuted("Unused")
    BY DEF is_terminal, is_unexecuted, FailedStatus
  <2> QED
    BY <2>1, <2>2 DEF Init, initial, Approval!Init
<1>2. TypeOK /\ TypeOK' /\ AllLawful /\ [Next]_vars => [Approval!Next]_(Approval!abstract)
  <2> SUFFICES ASSUME TypeOK, TypeOK', AllLawful, [Next]_vars
               PROVE  Approval!Next
    OBVIOUS
  <2>1. ASSUME NEW q \in Requests
        PROVE  /\ Lawful(state'.requests[q])
               /\ PhaseOf(state'.requests[q]) \in Approval!Phases
               /\ UsesOf(state'.requests[q]) \in Nat
               /\ \/ /\ PhaseOf(state'.requests[q]) = PhaseOf(state.requests[q])
                     /\ UsesOf(state'.requests[q]) = UsesOf(state.requests[q])
                  \/ /\ <<PhaseOf(state.requests[q]), PhaseOf(state'.requests[q])>> \in Approval!Moves
                     /\ UsesOf(state'.requests[q]) = UsesOf(state.requests[q])
                  \/ /\ PhaseOf(state.requests[q]) = "Spent"
                     /\ PhaseOf(state'.requests[q]) = "Spent"
                     /\ UsesOf(state.requests[q]) = 0 /\ UsesOf(state'.requests[q]) = 1
    <3>1. FileOK /\ Lawful(state.requests[q])
      BY DEF TypeOK, FileOK, AllLawful
    <3>2. state.requests[q] \in DirectRecord /\ state'.requests[q] \in DirectRecord
      BY DEF TypeOK, ProviderState
    <3>3. Evolution(state.requests[q], state'.requests[q])
      BY <3>1, StepEvolution
    <3>4. Lawful(state'.requests[q])
      BY <3>1, <3>2, <3>3, EvolutionRefines
    <3>5. ASSUME NEW r \in DirectRecord, Lawful(r)
          PROVE  PhaseOf(r) \in Approval!Phases /\ UsesOf(r) \in Nat
      BY <3>5 DEF PhaseOf, UsesOf, Approval!Phases, Lawful, DirectRecord, DirectStatus,
         is_terminal, is_unexecuted, FailedStatus
    <3>6. PhaseOf(state'.requests[q]) \in Approval!Phases /\ UsesOf(state'.requests[q]) \in Nat
      BY <3>2, <3>4, <3>5
    <3> QED
      BY <3>1, <3>2, <3>3, <3>4, <3>6, EvolutionRefines
  <2>2. ASSUME NEW q \in Requests
        PROVE  Approval!Stays(q) \/ Approval!Moved(q) \/ Approval!Used(q)
    <3>1. CASE /\ PhaseOf(state'.requests[q]) = PhaseOf(state.requests[q])
               /\ UsesOf(state'.requests[q]) = UsesOf(state.requests[q])
      <4>1. Approval!Stays(q)
        BY <3>1, Zenon DEF Approval!Stays, PhaseOf, UsesOf
      <4> QED
        BY <4>1
    <3>2. CASE /\ <<PhaseOf(state.requests[q]), PhaseOf(state'.requests[q])>> \in Approval!Moves
               /\ UsesOf(state'.requests[q]) = UsesOf(state.requests[q])
      <4>1. Approval!Moved(q)
        BY <3>2 DEF Approval!Moved, Approval!Moves, PhaseOf, UsesOf
      <4> QED
        BY <4>1
    <3>3. CASE /\ PhaseOf(state.requests[q]) = "Spent"
               /\ PhaseOf(state'.requests[q]) = "Spent"
               /\ UsesOf(state.requests[q]) = 0 /\ UsesOf(state'.requests[q]) = 1
      <4>1. Approval!Used(q)
        BY <3>3, Zenon DEF Approval!Used, PhaseOf, UsesOf
      <4> QED
        BY <4>1
    <3> QED
      BY <2>1, <3>1, <3>2, <3>3
  <2>3. /\ [p \in Requests |-> PhaseOf(state'.requests[p])] \in [Requests -> Approval!Phases]
        /\ [p \in Requests |-> UsesOf(state'.requests[p])] \in [Requests -> Nat]
    BY <2>1
  <2> QED
    BY <2>2, <2>3, Zenon DEF Approval!Next, PhaseOf, UsesOf
<1> QED
  BY <1>1, <1>2, TypeCorrect, RecordsLawful, PTL DEF Spec, ImplementsOneTimeApproval, Approval!Spec

-----------------------------------------------------------------------------
(* Ending authority is never refused.                                      *)

(* An event after the first is a reconciliation of an ended request or     *)
(* follows an edge of the lifecycle, so its status tells where it stands:  *)
(* a status that is still open leaves room for an ending, and an ending    *)
(* leaves room for a reconciliation (MaxAudit).                            *)
LEMMA AuditRoom ==
    ASSUME NEW r \in DirectRecord, validate_history(r)
    PROVE  /\ Len(r.audit) \in Nat /\ Len(r.audit) >= 1
           /\ is_unexecuted(r.status) => Len(r.audit) <= 3
           /\ is_terminal(r.status) /\ ~is_reconciled(r) => Len(r.audit) <= 4
<1> DEFINE n == Len(r.audit)
           S(i) == r.audit[i].status
           R(i) == r.audit[i].outcome = "Reconciled"
<1>1. n \in 1..5 /\ n \in Nat
  BY DEF validate_history, MaxAudit
<1>2. S(1) = "Pending" /\ ~R(1)
  <2>1. r.audit[1].outcome = "Submitted" /\ consistent_outcome(r.audit[1])
    BY <1>1 DEF validate_history, matches_record
  <2> QED
    BY <2>1 DEF consistent_outcome
<1>3. ASSUME NEW i \in 2..n
      PROVE  \/ R(i) /\ is_terminal(S(i))
             \/ <<S(i - 1), S(i)>> \in Follows
  BY <1>1 DEF validate_history
<1>4. S(n) = r.status /\ (is_reconciled(r) <=> r.audit # << >> /\ R(n))
  BY DEF validate_history, is_reconciled
<1>5. r.audit # << >>
  <2>1. Len(<< >>) = 0
    OBVIOUS
  <2> HIDE DEF n
  <2>2. n # 0
    BY <1>1
  <2>3. Len(r.audit) # 0
    BY <2>2 DEF n
  <2> QED
    BY <2>1, <2>3, Zenon
<1> HIDE DEF n, S, R
<1>6. ASSUME NEW i \in 1..n, S(i) = "Pending" PROVE i = 1
  <2>1. i \in 2..n \/ i = 1
    BY <1>1
  <2>2. ~is_terminal(S(i)) /\ \A x : <<x, S(i)>> \notin Follows
    BY <1>6 DEF Follows, FailedStatus, is_terminal
  <2> QED
    BY <1>3, <2>1, <2>2
<1>7. ASSUME NEW i \in 1..n, S(i) = "Approved" PROVE i = 2
  <2>1. i \in 2..n /\ i - 1 \in 1..n
    BY <1>1, <1>2, <1>7
  <2>2. S(i - 1) = "Pending"
    BY <1>3, <1>7, <2>1 DEF Follows, FailedStatus, is_terminal
  <2>3. i - 1 = 1
    BY <1>6, <2>1, <2>2
  <2> QED
    BY <2>1, <2>3
<1>8. ASSUME NEW i \in 1..n, S(i) = "Running" PROVE i = 3
  <2>1. i \in 2..n /\ i - 1 \in 1..n
    BY <1>1, <1>2, <1>8
  <2>2. S(i - 1) = "Approved"
    BY <1>3, <1>8, <2>1 DEF Follows, FailedStatus, is_terminal
  <2>3. i - 1 = 2
    BY <1>7, <2>1, <2>2
  <2> QED
    BY <2>1, <2>3
<1>9. ASSUME NEW i \in 1..n, is_terminal(S(i)), ~R(i) PROVE i <= 4
  <2>1. i \in 2..n /\ i - 1 \in 1..n
    BY <1>1, <1>2, <1>9 DEF is_terminal, FailedStatus
  <2>2. S(i - 1) \in {"Pending", "Approved", "Running"}
    BY <1>3, <1>9, <2>1 DEF Follows
  <2>3. i - 1 \in {1, 2, 3}
    BY <1>6, <1>7, <1>8, <2>1, <2>2
  <2> QED
    BY <2>1, <2>3
<1>10. n \in 1..n
  BY <1>1
<1>11. is_unexecuted(r.status) => n <= 3
  BY <1>1, <1>4, <1>6, <1>7, <1>8, <1>10 DEF is_unexecuted
<1>12. is_terminal(r.status) /\ ~is_reconciled(r) => n <= 4
  BY <1>4, <1>5, <1>9, <1>10
<1>13. n >= 1
  BY <1>1
<1> QED
  BY <1>1, <1>11, <1>12, <1>13 DEF n

(* Every outcome an ending records is one the audit accepts of its status. *)
LEMMA EndingOutcome ==
    ASSUME NEW r, NEW next, is_terminal(next), NEW decision \in DecisionOutcome
    PROVE  /\ consistent_outcome(snapshot(r, outcome_of(next, decision), next))
           /\ outcome_of(next, decision) \in HistoryOutcome
<1> DEFINE o == outcome_of(next, decision)
<1>1. snapshot(r, o, next).outcome = o /\ snapshot(r, o, next).status = next
  BY DEF snapshot
<1>2. \/ next = "Denied" /\ o = "Denied"
      \/ next = "Completed" /\ o = "Succeeded"
      \/ next = "FailedNonzero" /\ o = "ExecutionNonzero"
      \/ next = "FailedSignaled" /\ o = "ExecutionSignaled"
      \/ next = "FailedUnavailable" /\ o \in {"Recovered", "ExecutionUnavailable"}
      \/ next = "FailedLost" /\ o \in {"Recovered", "ObservationLost"}
      \/ /\ next = "Expired"
         /\ o \in {"ReviewUnavailable", "ExecutionUnavailable", "Invalidated", "Recovered", "Expired"}
  BY DEF is_terminal, FailedStatus, outcome_of, DecisionOutcome
<1> HIDE DEF o
<1>3. consistent_outcome(snapshot(r, o, next))
  BY <1>1, <1>2 DEF consistent_outcome
<1>4. o \in HistoryOutcome
  BY <1>2 DEF HistoryOutcome
<1> QED
  BY <1>3, <1>4 DEF o

(* A record with one more event validates its history if it did before, if *)
(* there is room and if the event fits what was last.                      *)
LEMMA LongerHistory ==
    ASSUME NEW r \in DirectRecord, NEW s \in DirectRecord, NEW e \in HistoryEvent,
           validate_history(r), Len(r.audit) < MaxAudit,
           s.audit = Append(r.audit, e), s.claimed = r.claimed,
           \A i \in 1..Len(r.audit) : matches_record(r.audit[i], r) => matches_record(r.audit[i], s),
           matches_record(e, s), is_terminal(e.status), e.status = s.status,
           e.receipt = s.receipt,
           r.claimed \/ e.status \notin {"Completed"} \cup FailedStatus,
           \/ <<r.status, e.status>> \in Follows
           \/ e.outcome = "Reconciled" /\ e.status = r.status
    PROVE  validate_history(s)
<1> DEFINE n == Len(r.audit)
           m == Len(s.audit)
<1>1. r.audit \in Seq(HistoryEvent)
  BY DEF DirectRecord
<1>2. /\ n \in Nat /\ m = n + 1 /\ s.audit[n + 1] = e
      /\ \A i \in 1..n : s.audit[i] = r.audit[i]
  BY <1>1, AppendProperties, LenProperties
<1>3. n \in 1..4
  <2>1. n \in 1..5 /\ n < 5
    BY DEF validate_history, MaxAudit
  <2> HIDE DEF n
  <2> QED
    BY <2>1
<1>4. m \in 1..MaxAudit
  BY <1>2, <1>3 DEF MaxAudit
<1>5. s.audit[1].outcome = "Submitted"
  BY <1>2, <1>3 DEF validate_history
<1>6. ASSUME NEW i \in 1..m
      PROVE  /\ matches_record(s.audit[i], s)
             /\ \/ s.claimed
                \/ s.audit[i].status \notin {"Running", "Completed"} \cup FailedStatus
                \/ s.audit[i].outcome = "Recovered"
  <2>1. CASE i \in 1..n
    BY <1>2, <2>1 DEF validate_history
  <2>2. CASE i = n + 1
    BY <1>2, <2>2 DEF is_terminal, FailedStatus
  <2> QED
    BY <1>2, <2>1, <2>2
<1>7. ASSUME NEW i \in 2..m
      PROVE  \/ /\ s.audit[i].outcome = "Reconciled"
                /\ is_terminal(s.audit[i - 1].status)
                /\ s.audit[i].status = s.audit[i - 1].status
             \/ <<s.audit[i - 1].status, s.audit[i].status>> \in Follows
  <2>1. CASE i \in 2..n
    <3>1. s.audit[i] = r.audit[i] /\ s.audit[i - 1] = r.audit[i - 1]
      BY <1>2, <2>1
    <3> QED
      BY <2>1, <3>1 DEF validate_history
  <2>2. CASE i = n + 1
    <3>1. s.audit[i] = e /\ s.audit[i - 1] = r.audit[n] /\ r.audit[n].status = r.status
      BY <1>2, <1>3, <2>2 DEF validate_history
    <3> QED
      BY <3>1
  <2> QED
    BY <1>2, <2>1, <2>2
<1>8. s.audit[m].status = s.status /\ s.audit[m].receipt = s.receipt
  BY <1>2
<1> QED
  BY <1>4, <1>5, <1>6, <1>7, <1>8 DEF validate_history

(* A legal ending of a record that validates validates, at the same or a   *)
(* later epoch.                                                            *)
LEMMA EndingValid ==
    ASSUME NEW r \in DirectRecord, NEW epoch \in Nat, NEW later \in Nat, epoch <= later,
           validate_record(r, epoch),
           NEW next \in DirectStatus, is_terminal(next), legal(r, next),
           next \in FailedStatus \cup {"Completed"} => r.claimed,
           NEW decision \in DecisionOutcome
    PROVE  validate_record(transition(r, next, decision), later)
<1> DEFINE s == transition(r, next, decision)
           e == snapshot(r, outcome_of(next, decision), next)
<1>1. s \in DirectRecord /\ s.status = next
  BY TransitionType
<1>2. /\ s.claimed = r.claimed /\ s.receipt = r.receipt /\ s.audit = Append(r.audit, e)
      /\ s.owner = r.owner /\ s.nonce = r.nonce /\ s.revision = r.revision /\ s.epoch = r.epoch
  BY DEF transition, DirectRecord
<1>3. consistent_outcome(e) /\ outcome_of(next, decision) \in HistoryOutcome
  BY EndingOutcome
<1>4. e.status = next /\ e.receipt = r.receipt /\ e \in HistoryEvent
  BY <1>3 DEF snapshot, HistoryEvent, DirectRecord
<1>5. validate_history(r)
  BY DEF validate_record
<1>6. <<r.status, next>> \in Follows /\ is_unexecuted(r.status)
  BY DEF legal, Edges, Follows, is_terminal, is_unexecuted, FailedStatus
<1>7. Len(r.audit) < MaxAudit
  BY <1>5, <1>6, AuditRoom DEF MaxAudit
<1> HIDE DEF e, s
<1>8. \A i \in 1..Len(r.audit) : matches_record(r.audit[i], r) => matches_record(r.audit[i], s)
  BY <1>2 DEF matches_record
<1>9. matches_record(e, s)
  BY <1>2, <1>3, <1>4 DEF matches_record
<1>10. validate_history(s)
  BY <1>1, <1>2, <1>4, <1>5, <1>6, <1>7, <1>8, <1>9, LongerHistory
<1>11. valid_receipt(s)
  BY <1>2 DEF validate_record, valid_receipt, Destination
<1>12. s.status \notin {"Approved", "Running"}
  BY <1>1 DEF is_terminal, FailedStatus
<1>13. s.epoch <= later
  <2>1. r.epoch \in Nat /\ r.epoch <= epoch
    BY DEF validate_record, DirectRecord
  <2> QED
    BY <1>2, <2>1
<1>14. s.nonce # NoNonce => s.owner # Human
  BY <1>2 DEF validate_record
<1> QED
  BY <1>10, <1>11, <1>12, <1>13, <1>14 DEF validate_record, s

(* The reconciliation of an ended write validates.                         *)
LEMMA ReconciliationValid ==
    ASSUME NEW r \in DirectRecord, NEW epoch \in Nat, validate_record(r, epoch),
           is_terminal(r.status), r.receipt # NoReceipt, ~is_reconciled(r),
           NEW item \in Items, r.receipt.item \in {NoItem, item}
    PROVE  /\ validate_record(reconciled(r, item), epoch)
           /\ reconciled(r, item).owner = r.owner /\ reconciled(r, item).nonce = r.nonce
           /\ reconciled(r, item).status = r.status
<1> DEFINE receipt == [item |-> item,
                       status |-> IF r.receipt.status = "Verified" THEN "Verified"
                                  ELSE "CreatedUnverified"]
           e == [outcome |-> "Reconciled", status |-> r.status, receipt |-> receipt]
           s == reconciled(r, item)
<1>1. /\ s.status = r.status /\ s.claimed = r.claimed /\ s.audit = Append(r.audit, e)
      /\ s.receipt = receipt
      /\ s.owner = r.owner /\ s.nonce = r.nonce /\ s.revision = r.revision /\ s.epoch = r.epoch
      /\ s.approval = r.approval
  BY DEF reconciled, snapshot, DirectRecord
<1>2. s \in DirectRecord
  BY ReconciledType
<1>3. receipt \in WriteReceipt /\ receipt.item = item /\ item # NoItem
      /\ receipt.status \in {"Verified", "CreatedUnverified"}
  BY ItemAssumption DEF WriteReceipt, WriteStatus
<1>4. e \in HistoryEvent /\ e.outcome = "Reconciled" /\ e.status = r.status /\ e.receipt = receipt
  <2>1. r.status \in DirectStatus
    BY DEF DirectRecord, is_terminal, FailedStatus
  <2> QED
    BY <1>3, <2>1 DEF HistoryEvent, HistoryOutcome
<1> HIDE DEF receipt, e, s
<1>5. receipt # NoReceipt
  BY <1>3 DEF NoReceipt
<1>6. valid_receipt(r) /\ validate_history(r)
  BY DEF validate_record
<1>7. r.claimed /\ Destination(r) # NoDestination
  BY <1>6 DEF valid_receipt
<1>8. valid_receipt(s)
  BY <1>1, <1>3, <1>7 DEF valid_receipt, Destination
<1>9. Len(r.audit) < MaxAudit
  BY <1>6, AuditRoom DEF MaxAudit
<1>10. \A i \in 1..Len(r.audit) : matches_record(r.audit[i], r) => matches_record(r.audit[i], s)
  BY <1>1, <1>3, <1>5 DEF matches_record
<1>11. matches_record(e, s)
  BY <1>1, <1>4, <1>5 DEF matches_record, consistent_outcome
<1>12. validate_history(s)
  BY <1>1, <1>2, <1>4, <1>6, <1>7, <1>9, <1>10, <1>11, LongerHistory
<1> QED
  BY <1>1, <1>8, <1>12 DEF validate_record, s

(* A new file that ends requests of a valid one validates: what the        *)
(* registry, the operations and the replay markers need is kept, and only  *)
(* the records are left to check.                                          *)
LEMMA SweptFileValid ==
    ASSUME FileOK, validate(state), NEW new,
           validate_registry(new), new.operations = state.operations,
           new.approved_images = state.approved_images,
           new.query_replay_markers = state.query_replay_markers,
           \A a \in Agents : new.pairings[a] = "None" => state.pairings[a] = "None",
           \A p \in Requests :
                /\ used(new.requests[p]) <=> used(state.requests[p])
                /\ new.requests[p].owner = state.requests[p].owner
                /\ new.requests[p].nonce = state.requests[p].nonce,
           \A p \in Requests : used(state.requests[p]) =>
                /\ validate_record(new.requests[p], new.lifecycle_epoch)
                /\ unclaimed(new.requests[p]) => new.requests[p].epoch = new.lifecycle_epoch
    PROVE  validate(new)
<1>1. validate_operations(new)
  BY DEF validate, validate_operations
<1>2. validate_replay(new)
  <2> SUFFICES ASSUME NEW p \in Requests, used(new.requests[p]), new.requests[p].nonce # NoNonce
               PROVE  /\ replay_digest(new.requests[p]) \notin new.query_replay_markers
                      /\ \A q \in Requests \ {p} : used(new.requests[q]) =>
                            replay_digest(new.requests[q]) # replay_digest(new.requests[p])
    BY DEF validate_replay
  <2>1. /\ replay_digest(state.requests[p]) \notin state.query_replay_markers
        /\ \A q \in Requests \ {p} : used(state.requests[q]) =>
                replay_digest(state.requests[q]) # replay_digest(state.requests[p])
    BY DEF validate, validate_replay
  <2>2. \A q \in Requests : replay_digest(new.requests[q]) = replay_digest(state.requests[q])
    BY DEF replay_digest
  <2> QED
    BY <2>1, <2>2
<1>3. ASSUME NEW p \in Requests PROVE validate_request(new, new.requests[p])
  <2> SUFFICES ASSUME used(state.requests[p])
               PROVE  new.requests[p].owner # Human => new.pairings[new.requests[p].owner] # "None"
    BY DEF validate_request
  <2>1. state.requests[p].owner # Human => state.pairings[state.requests[p].owner] # "None"
    BY DEF validate, validate_request
  <2>2. state.requests[p].owner \in Agents \cup {Human}
    BY DEF FileOK, ProviderState, DirectRecord
  <2> QED
    BY <2>1, <2>2
<1> QED
  BY <1>1, <1>2, <1>3 DEF validate

(* One record ends by a legal transition: what the sweeps need of it.      *)
LEMMA EndedRecord ==
    ASSUME NEW r \in DirectRecord, NEW epoch \in Nat, NEW later \in Nat, epoch <= later,
           validate_record(r, epoch),
           NEW next \in DirectStatus, is_terminal(next), legal(r, next),
           next \in FailedStatus \cup {"Completed"} => r.claimed,
           NEW decision \in DecisionOutcome
    PROVE  LET s == transition(r, next, decision) IN
           /\ used(r) /\ used(s) /\ s.owner = r.owner /\ s.nonce = r.nonce
           /\ ~unclaimed(s) /\ validate_record(s, later)
<1>1. r.status # "Unused" /\ next # "Unused" /\ next \notin {"Pending", "Approved"}
  BY DEF legal, Edges, is_terminal, FailedStatus
<1> QED
  BY <1>1, TransitionType, EndingValid DEF used, unclaimed

(* A later epoch is no objection to a record.                              *)
LEMMA LaterEpoch ==
    ASSUME NEW r \in DirectRecord, NEW epoch \in Nat, NEW later \in Nat, epoch <= later,
           validate_record(r, epoch)
    PROVE  validate_record(r, later)
<1>1. r.epoch \in Nat /\ r.epoch <= epoch
  BY DEF DirectRecord, validate_record
<1>2. r.epoch <= later
  BY <1>1
<1> QED
  BY <1>2 DEF validate_record

(* Lock and recovery.                                                      *)
LEMMA InvalidationAccepted ==
    ASSUME FileOK, FileValidates, AllLawful, NEW recovered \in BOOLEAN
    PROVE  /\ \A p \in Requests : swept(state.requests[p], recovered) =>
                legal(state.requests[p], invalidated_request(state.requests[p], recovered).status)
           /\ validate(invalidated_state(state, recovered))
<1> DEFINE new == invalidated_state(state, recovered)
           now == state.lifecycle_epoch
<1>1. /\ state \in ProviderState /\ state.requests \in [Requests -> DirectRecord]
      /\ now \in Nat /\ now + 1 \in Nat /\ now <= now + 1
  BY DEF FileOK, ProviderState
<1>2. \A p \in Requests : swept(state.requests[p], recovered) =>
          legal(state.requests[p], invalidated_request(state.requests[p], recovered).status)
  BY <1>1, InvalidationEvolution DEF AllLawful
<1>3. /\ new.lifecycle_epoch = now + 1 /\ new.pairings = state.pairings
      /\ new.agent_audit = state.agent_audit /\ new.operations = state.operations
      /\ new.approved_images = state.approved_images
      /\ new.query_replay_markers = state.query_replay_markers
  BY <1>1 DEF invalidated_state, ProviderState
<1>4. \A p \in Requests : new.requests[p] =
          IF swept(state.requests[p], recovered)
          THEN invalidated_request(state.requests[p], recovered) ELSE state.requests[p]
  BY <1>1 DEF invalidated_state, ProviderState
<1> HIDE DEF new
<1>5. validate_registry(new)
  BY <1>3 DEF FileValidates, validate, validate_registry
<1>6. ASSUME NEW p \in Requests
      PROVE  /\ used(new.requests[p]) <=> used(state.requests[p])
             /\ new.requests[p].owner = state.requests[p].owner
             /\ new.requests[p].nonce = state.requests[p].nonce
             /\ used(state.requests[p]) =>
                    /\ validate_record(new.requests[p], now + 1)
                    /\ ~unclaimed(new.requests[p])
  <2> DEFINE r == state.requests[p]
             next == IF r.status = "Running" \/ r.claimed THEN "FailedLost" ELSE "Expired"
             decision == IF recovered THEN "Recovered" ELSE "Invalidated"
  <2>1. r \in DirectRecord /\ Lawful(r) /\ (used(r) => validate_record(r, now))
    BY <1>1 DEF AllLawful, FileValidates, validate, validate_request
  <2>2. CASE swept(r, recovered)
    <3>1. new.requests[p] = transition(r, next, decision)
      BY <1>4, <2>2 DEF invalidated_request
    <3>2. /\ next \in DirectStatus /\ is_terminal(next) /\ decision \in DecisionOutcome
          /\ next \in FailedStatus \cup {"Completed"} => r.claimed
      BY <2>1 DEF DirectStatus, is_terminal, FailedStatus, DecisionOutcome, Lawful
    <3>3. legal(r, next)
      <4>1. invalidated_request(r, recovered).status = next
        BY <2>1, <3>2, TransitionType DEF invalidated_request
      <4> QED
        BY <1>2, <2>2, <4>1
    <3>4. used(r)
      BY <2>2 DEF swept, is_unexecuted, used
    <3> HIDE DEF next, decision, r
    <3>5. /\ used(transition(r, next, decision))
          /\ transition(r, next, decision).owner = r.owner
          /\ transition(r, next, decision).nonce = r.nonce
          /\ ~unclaimed(transition(r, next, decision))
          /\ validate_record(transition(r, next, decision), now + 1)
      BY <1>1, <2>1, <3>2, <3>3, <3>4, EndedRecord
    <3> QED
      BY <3>1, <3>4, <3>5 DEF r
  <2>3. CASE ~swept(r, recovered)
    <3>1. new.requests[p] = r
      BY <1>4, <2>3
    <3>2. ~unclaimed(r)
      BY <2>3 DEF swept, unclaimed, is_unexecuted
    <3>3. used(r) => validate_record(r, now + 1)
      BY <1>1, <2>1, LaterEpoch
    <3> QED
      BY <3>1, <3>2, <3>3
  <2> QED
    BY <2>2, <2>3
<1>7. validate(new)
  BY <1>3, <1>5, <1>6, SweptFileValid DEF FileValidates
<1> QED
  BY <1>2, <1>7 DEF new

(* A sweep that expires some of the unclaimed requests at the same epoch.  *)
LEMMA ExpiringSweep ==
    ASSUME FileOK, FileValidates, NEW new, NEW ending \in SUBSET Requests,
           NEW decision \in DecisionOutcome,
           \A p \in ending : unclaimed(state.requests[p]),
           \A p \in Requests : new.requests[p] =
                IF p \in ending THEN transition(state.requests[p], "Expired", decision)
                ELSE state.requests[p],
           new.lifecycle_epoch = state.lifecycle_epoch, new.operations = state.operations,
           new.approved_images = state.approved_images,
           new.query_replay_markers = state.query_replay_markers,
           \A a \in Agents : new.pairings[a] = "None" => state.pairings[a] = "None",
           validate_registry(new)
    PROVE  validate(new)
<1> DEFINE now == state.lifecycle_epoch
<1>1. state.requests \in [Requests -> DirectRecord] /\ now \in Nat /\ now <= now
  BY DEF FileOK, ProviderState
<1>2. ASSUME NEW p \in Requests
      PROVE  /\ used(new.requests[p]) <=> used(state.requests[p])
             /\ new.requests[p].owner = state.requests[p].owner
             /\ new.requests[p].nonce = state.requests[p].nonce
             /\ used(state.requests[p]) =>
                    /\ validate_record(new.requests[p], now)
                    /\ unclaimed(new.requests[p]) => new.requests[p].epoch = now
  <2> DEFINE r == state.requests[p]
  <2>1. /\ r \in DirectRecord
        /\ used(r) => validate_record(r, now) /\ (unclaimed(r) => r.epoch = now)
    BY <1>1 DEF FileValidates, validate, validate_request
  <2>2. CASE p \in ending
    <3>1. used(r) /\ legal(r, "Expired") /\ "Expired" \in DirectStatus /\ is_terminal("Expired")
          /\ "Expired" \notin FailedStatus \cup {"Completed"}
      BY <2>2 DEF unclaimed, used, legal, Edges, DirectStatus, is_terminal, FailedStatus
    <3> HIDE DEF r
    <3>2. /\ used(transition(r, "Expired", decision))
          /\ transition(r, "Expired", decision).owner = r.owner
          /\ transition(r, "Expired", decision).nonce = r.nonce
          /\ ~unclaimed(transition(r, "Expired", decision))
          /\ validate_record(transition(r, "Expired", decision), now)
      BY <1>1, <2>1, <3>1, EndedRecord
    <3>3. new.requests[p] = transition(r, "Expired", decision)
      BY <2>2 DEF r
    <3> QED
      BY <3>1, <3>2, <3>3 DEF r
  <2>3. CASE p \notin ending
    BY <2>1, <2>3
  <2> QED
    BY <2>2, <2>3
<1> QED
  BY <1>2, SweptFileValid DEF FileValidates

(* Revocation.                                                             *)
LEMMA RevocationAccepted ==
    ASSUME FileOK, FileValidates, NEW a \in Agents, state.pairings[a] = "Enabled"
    PROVE  validate(revoked_state(state, a))
<1> DEFINE new == revoked_state(state, a)
           ending == {p \in Requests : state.requests[p].owner = a /\ unclaimed(state.requests[p])}
<1>1. state \in ProviderState
  BY DEF FileOK
<1>2. /\ new.lifecycle_epoch = state.lifecycle_epoch /\ new.operations = state.operations
      /\ new.approved_images = state.approved_images
      /\ new.query_replay_markers = state.query_replay_markers
      /\ new.pairings = [state.pairings EXCEPT ![a] = "Revoked"]
      /\ new.agent_audit = [state.agent_audit EXCEPT ![a] = Append(state.agent_audit[a], "Revoked")]
  BY <1>1 DEF revoked_state, ProviderState
<1>3. \A p \in Requests : new.requests[p] =
          IF p \in ending THEN transition(state.requests[p], "Expired", "Invalidated")
          ELSE state.requests[p]
  BY <1>1 DEF revoked_state, ProviderState
<1>4. /\ state.pairings \in [Agents -> {"None", "Enabled", "Revoked"}]
      /\ DOMAIN state.agent_audit = Agents
  BY <1>1 DEF ProviderState
<1>5. validate_registry(state)
  BY DEF FileValidates, validate
<1> HIDE DEF new
<1>6. \A b \in Agents : new.pairings[b] = IF b = a THEN "Revoked" ELSE state.pairings[b]
  BY <1>2, <1>4
<1>7. \A b \in Agents : new.agent_audit[b] =
          IF b = a THEN Append(state.agent_audit[a], "Revoked") ELSE state.agent_audit[b]
  BY <1>2, <1>4
<1>8. Append(state.agent_audit[a], "Revoked") = ExpectedAudit("Revoked")
  <2>1. state.agent_audit[a] = <<"Paired">>
    BY <1>5 DEF validate_registry, ExpectedAudit
  <2>2. ExpectedAudit("Revoked") = <<"Paired", "Revoked">>
    BY DEF ExpectedAudit
  <2>3. Append(<<"Paired">>, "Revoked") = <<"Paired", "Revoked">>
    <3> DEFINE T == {"Paired", "Revoked"}
               long == Append(<<"Paired">>, "Revoked")
    <3>1. <<"Paired">> \in Seq(T) /\ Len(<<"Paired">>) = 1 /\ <<"Paired">>[1] = "Paired"
      OBVIOUS
    <3>2. <<"Paired", "Revoked">> \in Seq(T) /\ Len(<<"Paired", "Revoked">>) = 2
      OBVIOUS
    <3>3. long \in Seq(T) /\ Len(long) = 2 /\ long[1] = "Paired" /\ long[2] = "Revoked"
      BY <3>1, AppendProperties
    <3>4. \A i \in 1..2 : long[i] = <<"Paired", "Revoked">>[i]
      BY <3>3
    <3> HIDE DEF long, T
    <3> QED
      BY <3>2, <3>3, <3>4, SeqEqual DEF long
  <2> QED
    BY <2>1, <2>2, <2>3
<1>9. validate_registry(new)
  <2>1. \A b \in Agents : new.agent_audit[b] = ExpectedAudit(new.pairings[b])
    BY <1>5, <1>6, <1>7, <1>8 DEF validate_registry
  <2>2. \A b, c \in Agents :
            (new.pairings[b] = "Enabled" /\ new.pairings[c] = "Enabled"
                /\ LabelOf[b] = LabelOf[c]) => b = c
    BY <1>5, <1>6 DEF validate_registry
  <2> QED
    BY <2>1, <2>2 DEF validate_registry
<1>10. \A b \in Agents : new.pairings[b] = "None" => state.pairings[b] = "None"
  BY <1>6
<1>11. "Invalidated" \in DecisionOutcome /\ ending \in SUBSET Requests
       /\ \A p \in ending : unclaimed(state.requests[p])
  BY DEF DecisionOutcome
<1> HIDE DEF ending
<1>12. validate(new)
  BY <1>2, <1>3, <1>9, <1>10, <1>11, ExpiringSweep
<1> QED
  BY <1>12 DEF new

(* Expiry.                                                                 *)
LEMMA ExpiryAccepted ==
    ASSUME FileOK, FileValidates, NEW elapsed \in SUBSET Requests
    PROVE  validate(expired_state(state, elapsed))
<1> DEFINE new == expired_state(state, elapsed)
           ending == {p \in Requests : p \in elapsed /\ unclaimed(state.requests[p])}
<1>1. state \in ProviderState
  BY DEF FileOK
<1>2. /\ new.lifecycle_epoch = state.lifecycle_epoch /\ new.operations = state.operations
      /\ new.approved_images = state.approved_images
      /\ new.query_replay_markers = state.query_replay_markers
      /\ new.pairings = state.pairings /\ new.agent_audit = state.agent_audit
  BY <1>1 DEF expired_state, ProviderState
<1>3. \A p \in Requests : new.requests[p] =
          IF p \in ending THEN transition(state.requests[p], "Expired", "Expired")
          ELSE state.requests[p]
  BY <1>1 DEF expired_state, ProviderState
<1> HIDE DEF new
<1>4. validate_registry(new)
  BY <1>2 DEF FileValidates, validate, validate_registry
<1>5. "Expired" \in DecisionOutcome /\ ending \in SUBSET Requests
      /\ \A p \in ending : unclaimed(state.requests[p])
  BY DEF DecisionOutcome
<1> HIDE DEF ending
<1>6. validate(new)
  BY <1>2, <1>3, <1>4, <1>5, ExpiringSweep
<1> QED
  BY <1>6 DEF new

(* Replacing one record by one that validates and is not unclaimed.        *)
LEMMA PutAccepted ==
    ASSUME FileOK, FileValidates, NEW p \in Requests, NEW s,
           used(state.requests[p]), used(s), s.owner = state.requests[p].owner,
           s.nonce = state.requests[p].nonce, ~unclaimed(s),
           validate_record(s, state.lifecycle_epoch)
    PROVE  validate(put(p, s))
<1> DEFINE new == put(p, s)
<1>1. state \in ProviderState /\ state.requests \in [Requests -> DirectRecord]
  BY DEF FileOK, ProviderState
<1>2. /\ new.lifecycle_epoch = state.lifecycle_epoch /\ new.operations = state.operations
      /\ new.approved_images = state.approved_images
      /\ new.query_replay_markers = state.query_replay_markers
      /\ new.pairings = state.pairings /\ new.agent_audit = state.agent_audit
      /\ new.requests = [state.requests EXCEPT ![p] = s]
  BY <1>1 DEF put, ProviderState
<1> HIDE DEF new
<1>3. \A q \in Requests : new.requests[q] = IF q = p THEN s ELSE state.requests[q]
  BY <1>1, <1>2
<1>4. validate_registry(new)
  BY <1>2 DEF FileValidates, validate, validate_registry
<1>5. ASSUME NEW q \in Requests
      PROVE  /\ used(new.requests[q]) <=> used(state.requests[q])
             /\ new.requests[q].owner = state.requests[q].owner
             /\ new.requests[q].nonce = state.requests[q].nonce
             /\ used(state.requests[q]) =>
                    /\ validate_record(new.requests[q], state.lifecycle_epoch)
                    /\ unclaimed(new.requests[q]) =>
                            new.requests[q].epoch = state.lifecycle_epoch
  <2>1. CASE q = p
    BY <1>3, <2>1
  <2>2. CASE q # p
    BY <1>3, <2>2 DEF FileValidates, validate, validate_request
  <2> QED
    BY <2>1, <2>2
<1>6. validate(new)
  BY <1>2, <1>4, <1>5, SweptFileValid DEF FileValidates
<1> QED
  BY <1>6 DEF new

(* The store never refuses to end authority: lock, start-up recovery,      *)
(* revocation, expiry, the failure of a claimed execution and the          *)
(* reconciliation of a write all lead from every reachable file to one     *)
(* that validates, however often and in whatever order they are called.    *)
THEOREM EndingNeverRefused == Spec => []EndingIsNeverRefused
<1>1. TypeOK /\ FileValidates /\ AllLawful => EndingIsNeverRefused
  <2> SUFFICES ASSUME TypeOK, FileValidates, AllLawful
               PROVE  EndingIsNeverRefused
    OBVIOUS
  <2>1. FileOK
    BY DEF TypeOK, FileOK
  <2>2. ASSUME NEW p \in Requests, state.requests[p].claimed,
               is_unexecuted(state.requests[p].status)
        PROVE  /\ legal(state.requests[p], "FailedUnavailable")
               /\ validate(put(p, transition(state.requests[p], "FailedUnavailable",
                                             "ExecutionUnavailable")))
    <3> DEFINE r == state.requests[p]
               s == transition(r, "FailedUnavailable", "ExecutionUnavailable")
    <3>1. r \in DirectRecord /\ used(r) /\ state.lifecycle_epoch \in Nat
          /\ state.lifecycle_epoch <= state.lifecycle_epoch
      BY <2>1, <2>2 DEF FileOK, ProviderState, used, is_unexecuted
    <3>2. validate_record(r, state.lifecycle_epoch)
      BY <3>1 DEF FileValidates, validate, validate_request
    <3>3. r.status \in {"Approved", "Running"}
      BY <2>2 DEF AllLawful, Lawful, is_unexecuted
    <3>4. legal(r, "FailedUnavailable")
      BY <2>2, <3>3 DEF legal, Edges, FailedStatus
    <3>5. /\ "FailedUnavailable" \in DirectStatus /\ is_terminal("FailedUnavailable")
          /\ "ExecutionUnavailable" \in DecisionOutcome /\ r.claimed
      BY <2>2 DEF DirectStatus, is_terminal, FailedStatus, DecisionOutcome
    <3> HIDE DEF r
    <3>6. /\ used(s) /\ s.owner = r.owner /\ s.nonce = r.nonce
          /\ ~unclaimed(s) /\ validate_record(s, state.lifecycle_epoch)
      BY <3>1, <3>2, <3>4, <3>5, EndedRecord
    <3> HIDE DEF s
    <3>7. validate(put(p, s))
      BY <2>1, <3>1, <3>6, PutAccepted DEF r
    <3> QED
      BY <3>4, <3>7 DEF r, s
  <2>3. ASSUME NEW p \in Requests, NEW item \in Items,
               is_terminal(state.requests[p].status), state.requests[p].receipt # NoReceipt,
               ~is_reconciled(state.requests[p]),
               state.requests[p].receipt.item \in {NoItem, item}
        PROVE  validate(put(p, reconciled(state.requests[p], item)))
    <3> DEFINE r == state.requests[p]
               s == reconciled(r, item)
    <3>1. r \in DirectRecord /\ used(r) /\ state.lifecycle_epoch \in Nat
      BY <2>1, <2>3 DEF FileOK, ProviderState, used, is_terminal, FailedStatus
    <3>2. validate_record(r, state.lifecycle_epoch)
      BY <3>1 DEF FileValidates, validate, validate_request
    <3>3. /\ validate_record(s, state.lifecycle_epoch)
          /\ s.owner = r.owner /\ s.nonce = r.nonce /\ s.status = r.status
      BY <2>3, <3>1, <3>2, ReconciliationValid
    <3> HIDE DEF s
    <3>4. used(s) /\ ~unclaimed(s)
      BY <2>3, <3>3 DEF used, unclaimed, is_terminal, FailedStatus
    <3>5. validate(put(p, s))
      BY <2>1, <3>1, <3>3, <3>4, PutAccepted
    <3> QED
      BY <3>5 DEF s
  <2> QED
    BY <2>1, <2>2, <2>3, InvalidationAccepted, RevocationAccepted, ExpiryAccepted
       DEF EndingIsNeverRefused
<1> QED
  BY <1>1, TypeCorrect, FileAlwaysValidates, RecordsLawful, PTL
=============================================================================
