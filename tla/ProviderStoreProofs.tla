------------------------ MODULE ProviderStoreProofs ------------------------
(***************************************************************************)
(* Theorems about ProviderStore, for every set of agents, requests,        *)
(* nonces, revisions and items and every value of MaxEpoch.                *)
(***************************************************************************)
EXTENDS ProviderStore, SequenceTheorems, TLAPS

-----------------------------------------------------------------------------
(* What the record operators return.                                       *)

(* HistoryEvent::snapshot returns an event.                                *)
LEMMA SnapshotType ==
    ASSUME NEW r \in DirectRecord, NEW outcome \in HistoryOutcome, NEW status \in DirectStatus
    PROVE  snapshot(r, outcome, status) \in HistoryEvent
BY DEF snapshot, HistoryEvent, DirectRecord

(* history::outcome is total: every decision has an outcome to record.     *)
LEMMA OutcomeType ==
    ASSUME NEW next \in DirectStatus, NEW decision \in DecisionOutcome
    PROVE  outcome_of(next, decision) \in HistoryOutcome
BY DEF outcome_of, HistoryOutcome, DirectStatus, FailedStatus, DecisionOutcome

(* RequestRecord::transition changes the status, the approval and the      *)
(* audit, and nothing else: neither the claim nor the receipt nor who asked. *)
LEMMA TransitionType ==
    ASSUME NEW r \in DirectRecord, NEW next \in DirectStatus, NEW decision \in DecisionOutcome
    PROVE  LET s == transition(r, next, decision) IN
           /\ s \in DirectRecord
           /\ s.status = next
           /\ s.owner = r.owner /\ s.nonce = r.nonce /\ s.revision = r.revision
           /\ s.claimed = r.claimed /\ s.receipt = r.receipt
<1> DEFINE e == snapshot(r, outcome_of(next, decision), next)
<1>1. e \in HistoryEvent
  BY SnapshotType, OutcomeType
<1>2. Append(r.audit, e) \in Seq(HistoryEvent)
  BY <1>1 DEF DirectRecord
<1>3. transition(r, next, decision) =
        [r EXCEPT !.status = next,
                  !.approval = (next = "Approved") \/ (r.approval /\ ~is_terminal(next)),
                  !.audit = Append(r.audit, e)]
  BY DEF transition, DirectRecord
<1>4. ((next = "Approved") \/ (r.approval /\ ~is_terminal(next))) \in BOOLEAN
  OBVIOUS
<1> HIDE DEF e
<1> QED
  BY <1>2, <1>3, <1>4 DEF DirectRecord

(* create_owned pushes a pending, unclaimed record without a receipt.      *)
LEMMA FreshType ==
    \A owner \in Agents \cup {Human}, nonce \in Nonces \cup {NoNonce},
       revision \in Revisions \cup {NoRevision}, epoch \in Nat :
        /\ fresh_record(owner, nonce, revision, epoch) \in DirectRecord
        /\ fresh_record(owner, nonce, revision, epoch).owner = owner
        /\ fresh_record(owner, nonce, revision, epoch).nonce = nonce
        /\ fresh_record(owner, nonce, revision, epoch).receipt = NoReceipt
        /\ used(fresh_record(owner, nonce, revision, epoch))
<1> TAKE owner \in Agents \cup {Human}, nonce \in Nonces \cup {NoNonce},
         revision \in Revisions \cup {NoRevision}, epoch \in Nat
<1> DEFINE e == [outcome |-> "Submitted", status |-> "Pending", receipt |-> NoReceipt]
<1>1. e \in HistoryEvent
  BY DEF HistoryEvent, HistoryOutcome, DirectStatus, WriteReceipt, NoReceipt
<1>2. <<e>> \in Seq(HistoryEvent)
  BY <1>1
<1>3. fresh_record(owner, nonce, revision, epoch) =
        [status |-> "Pending", owner |-> owner, nonce |-> nonce, revision |-> revision,
         epoch |-> epoch, approval |-> FALSE, claimed |-> FALSE, receipt |-> NoReceipt,
         audit |-> <<e>>]
  BY DEF fresh_record
<1> HIDE DEF e
<1> QED
  BY <1>2, <1>3 DEF DirectRecord, DirectStatus, WriteReceipt, NoReceipt, used

(* An unused identifier is a record too.                                   *)
LEMMA UnusedType == Unused \in DirectRecord
<1>1. << >> \in Seq(HistoryEvent)
  OBVIOUS
<1> QED
  BY <1>1 DEF Unused, DirectRecord, WriteReceipt, NoReceipt

(* What the receipt-changing operations leave of the record.               *)
LEMMA ReceiptType ==
    ASSUME NEW r \in DirectRecord, NEW receipt \in WriteReceipt
    PROVE  [r EXCEPT !.receipt = receipt] \in DirectRecord
BY DEF DirectRecord

(* run_execution only ever records a well-formed receipt.                  *)
LEMMA WriteResultsType ==
    ASSUME NEW r \in DirectRecord, NEW receipt \in WriteResults(r.receipt)
    PROVE  receipt \in WriteReceipt /\ receipt # NoReceipt
<1>1. r.receipt \in WriteReceipt
  BY DEF DirectRecord
<1>2. CASE r.receipt = [item |-> NoItem, status |-> "Uncertain"]
  BY <1>2 DEF WriteResults, WriteReceipt, WriteStatus, NoReceipt
<1>3. CASE /\ r.receipt # [item |-> NoItem, status |-> "Uncertain"]
           /\ r.receipt.status = "CreatedUnverified"
  BY <1>1, <1>3 DEF WriteResults, WriteReceipt, WriteStatus, NoReceipt
<1>4. CASE /\ r.receipt # [item |-> NoItem, status |-> "Uncertain"]
           /\ r.receipt.status # "CreatedUnverified"
  BY <1>4 DEF WriteResults
<1> QED
  BY <1>2, <1>3, <1>4

(* A reconciliation names an item, adds an event and changes nothing else. *)
LEMMA ReconciledType ==
    ASSUME NEW r \in DirectRecord, is_terminal(r.status), NEW item \in Items
    PROVE  LET s == reconciled(r, item) IN
           /\ s \in DirectRecord
           /\ s.status = r.status /\ s.claimed = r.claimed
           /\ s.owner = r.owner /\ s.nonce = r.nonce /\ s.revision = r.revision
           /\ s.receipt.item = item /\ s.receipt # NoReceipt
<1> DEFINE receipt == [item |-> item, status |-> IF r.receipt.status = "Verified" THEN "Verified"
                                                 ELSE "CreatedUnverified"]
           next == [r EXCEPT !.receipt = receipt]
           e == snapshot(next, "Reconciled", r.status)
<1>1. receipt \in WriteReceipt /\ receipt # NoReceipt /\ receipt.item = item
  BY DEF WriteReceipt, WriteStatus, NoReceipt
<1>2. next \in DirectRecord /\ next.audit = r.audit
  BY <1>1, ReceiptType DEF DirectRecord
<1>3. r.status \in DirectStatus
  BY DEF is_terminal, DirectStatus
<1>4. e \in HistoryEvent
  BY <1>2, <1>3, SnapshotType DEF HistoryOutcome
<1>5. Append(next.audit, e) \in Seq(HistoryEvent)
  BY <1>2, <1>4 DEF DirectRecord
<1>6. reconciled(r, item) = [next EXCEPT !.audit = Append(next.audit, e)]
  BY <1>2 DEF reconciled
<1>7. /\ next.status = r.status /\ next.claimed = r.claimed /\ next.receipt = receipt
      /\ next.owner = r.owner /\ next.nonce = r.nonce /\ next.revision = r.revision
  BY DEF DirectRecord
<1> HIDE DEF e, next, receipt
<1> QED
  BY <1>1, <1>2, <1>5, <1>6, <1>7 DEF DirectRecord

(* invalidate ends every request it touches.                               *)
LEMMA InvalidatedType ==
    ASSUME NEW r \in DirectRecord, NEW recovered \in BOOLEAN
    PROVE  LET s == invalidated_request(r, recovered) IN
           /\ s \in DirectRecord
           /\ is_terminal(s.status)
           /\ s.owner = r.owner /\ s.nonce = r.nonce /\ s.revision = r.revision
           /\ s.claimed = r.claimed /\ s.receipt = r.receipt
<1> DEFINE next == IF r.status = "Running" \/ r.claimed THEN "FailedLost" ELSE "Expired"
           decision == IF recovered THEN "Recovered" ELSE "Invalidated"
<1>1. next \in DirectStatus /\ is_terminal(next) /\ decision \in DecisionOutcome
  BY DEF DirectStatus, FailedStatus, is_terminal, DecisionOutcome
<1>2. invalidated_request(r, recovered) = transition(r, next, decision)
  BY DEF invalidated_request
<1> HIDE DEF next, decision
<1> QED
  BY <1>1, <1>2, TransitionType

-----------------------------------------------------------------------------
(* What one step may do to the file.                                       *)

(* write_state leaves the old file or a new one that validated.            *)
LEMMA WriteState ==
    ASSUME NEW new, write_state(new)
    PROVE  /\ state' = state \/ (state' = new /\ validate(new))
           /\ poisoned \in BOOLEAN => poisoned' \in BOOLEAN
           /\ up' = up
BY DEF write_state

(* Replacing one record keeps the rest of the state.                       *)
LEMMA PutType ==
    ASSUME state \in ProviderState, NEW p \in Requests, NEW r \in DirectRecord
    PROVE  /\ put(p, r) \in ProviderState
           /\ put(p, r).requests = [state.requests EXCEPT ![p] = r]
           /\ put(p, r).lifecycle_epoch = state.lifecycle_epoch
           /\ put(p, r).pairings = state.pairings
           /\ put(p, r).query_replay_markers = state.query_replay_markers
BY DEF put, ProviderState

(* A record that keeps who asked for what, its claim and its attempt, and  *)
(* that was not given back to the unclaimed ones.                          *)
Evolves(r, s) ==
    /\ s.owner = r.owner /\ s.nonce = r.nonce /\ s.revision = r.revision
    /\ used(r) => used(s)
    /\ r.receipt # NoReceipt => s.receipt # NoReceipt
    /\ unclaimed(s) => unclaimed(r)

(* No record attempts a write, no agent becomes revoked.                   *)
Ordinary ==
    /\ \A p \in Requests :
            /\ Evolves(state.requests[p], state'.requests[p])
            /\ state'.requests[p].receipt # NoReceipt => state.requests[p].receipt # NoReceipt
    /\ \A a \in Agents : state'.pairings[a] = "Revoked" => state.pairings[a] = "Revoked"
    /\ state.query_replay_markers \subseteq state'.query_replay_markers

(* One agent becomes revoked, and nothing of it stays unclaimed.           *)
Revokes(a) ==
    /\ \A p \in Requests :
            /\ Evolves(state.requests[p], state'.requests[p])
            /\ state'.requests[p].receipt # NoReceipt => state.requests[p].receipt # NoReceipt
            /\ state'.requests[p].owner = a => ~unclaimed(state'.requests[p])
    /\ \A b \in Agents \ {a} : state'.pairings[b] = state.pairings[b]
    /\ state'.query_replay_markers = state.query_replay_markers

(* One identifier is given to a request of the human or a current agent.   *)
Creates(p) ==
    /\ state.requests[p] = Unused
    /\ \A q \in Requests \ {p} : state'.requests[q] = state.requests[q]
    /\ state'.requests[p].receipt = NoReceipt
    /\ agent_current(state'.requests[p].owner)
    /\ state'.requests[p].owner \in Agents \cup {Human}
    /\ state'.pairings = state.pairings
    /\ state'.query_replay_markers = state.query_replay_markers

(* One claimed request attempts its write, at a destination nobody tried.  *)
Attempts(p) ==
    /\ Evolves(state.requests[p], state'.requests[p])
    /\ \A q \in Requests \ {p} :
            /\ state'.requests[q] = state.requests[q]
            /\ state.requests[q].receipt # NoReceipt
                    => Destination(state.requests[q]) # Destination(state.requests[p])
    /\ state'.pairings = state.pairings
    /\ state'.query_replay_markers = state.query_replay_markers

Shape ==
    \/ Ordinary
    \/ \E a \in Agents : Revokes(a)
    \/ \E p \in Requests : Creates(p) \/ Attempts(p)

(* A step that leaves the file alone is ordinary.                          *)
LEMMA UnchangedIsOrdinary == state' = state => Ordinary
BY DEF Ordinary, Evolves

(* Replacing one record by an evolution of it is ordinary.                 *)
LEMMA PutIsOrdinary ==
    ASSUME state \in ProviderState, NEW p \in Requests, NEW r \in DirectRecord,
           Evolves(state.requests[p], r),
           r.receipt # NoReceipt => state.requests[p].receipt # NoReceipt,
           write_state(put(p, r))
    PROVE  Ordinary /\ state' \in ProviderState
                    /\ state'.lifecycle_epoch = state.lifecycle_epoch
<1>1. CASE state' = state
  BY <1>1, UnchangedIsOrdinary
<1>2. CASE state' = put(p, r)
  <2>1. /\ state'.requests = [state.requests EXCEPT ![p] = r]
        /\ state'.pairings = state.pairings
        /\ state'.query_replay_markers = state.query_replay_markers
        /\ state' \in ProviderState
        /\ state'.lifecycle_epoch = state.lifecycle_epoch
    BY <1>2, PutType
  <2>2. state.requests \in [Requests -> DirectRecord]
    BY DEF ProviderState
  <2>3. ASSUME NEW q \in Requests
        PROVE  /\ Evolves(state.requests[q], state'.requests[q])
               /\ state'.requests[q].receipt # NoReceipt => state.requests[q].receipt # NoReceipt
    <3>1. CASE q = p
      BY <2>1, <2>2, <3>1
    <3>2. CASE q # p
      BY <2>1, <2>2, <3>2 DEF Evolves
    <3> QED
      BY <3>1, <3>2
  <2> QED
    BY <2>1, <2>3 DEF Ordinary
<1> QED
  BY <1>1, <1>2, WriteState

(* Every transition out of an unclaimed or a claimed status is an          *)
(* evolution, as long as it does not lead back to an unclaimed one.        *)
LEMMA TransitionEvolves ==
    ASSUME NEW r \in DirectRecord, NEW next \in DirectStatus, NEW decision \in DecisionOutcome,
           r.status \in {"Pending", "Approved"} \/ next \notin {"Pending", "Approved"}
    PROVE  LET s == transition(r, next, decision) IN
           /\ s \in DirectRecord /\ Evolves(r, s) /\ s.receipt = r.receipt /\ s.status = next
<1>1. "Unused" \notin DirectStatus
  BY DEF DirectStatus, FailedStatus
<1> QED
  BY <1>1, TransitionType DEF Evolves, unclaimed, used

-----------------------------------------------------------------------------
(* Every action of the store has one of these shapes.                      *)

FileOK == state \in ProviderState /\ state.lifecycle_epoch <= MaxEpoch

(* Pairing, images, operations and status queries leave the requests alone. *)
LEMMA RegistryShape ==
    ASSUME FileOK,
           NEW new \in ProviderState, write_state(new),
           new.requests = state.requests,
           new.lifecycle_epoch = state.lifecycle_epoch,
           \A a \in Agents : new.pairings[a] = "Revoked" => state.pairings[a] = "Revoked",
           state.query_replay_markers \subseteq new.query_replay_markers
    PROVE  Ordinary /\ FileOK'
<1>1. CASE state' = state
  BY <1>1, UnchangedIsOrdinary DEF FileOK
<1>2. CASE state' = new
  BY <1>2 DEF FileOK, Ordinary, Evolves
<1> QED
  BY <1>1, <1>2, WriteState

(* A sweep that ends some unclaimed requests, and touches no others unless *)
(* it ends them, is ordinary.                                              *)
LEMMA SweepShape ==
    ASSUME FileOK,
           NEW new \in ProviderState, state' = state \/ state' = new,
           new.lifecycle_epoch <= MaxEpoch,
           new.pairings = state.pairings,
           new.query_replay_markers = state.query_replay_markers,
           \A p \in Requests :
                /\ Evolves(state.requests[p], new.requests[p])
                /\ new.requests[p].receipt = state.requests[p].receipt
    PROVE  Ordinary /\ FileOK'
<1>1. CASE state' = state
  BY <1>1, UnchangedIsOrdinary DEF FileOK
<1>2. CASE state' = new
  BY <1>2 DEF FileOK, Ordinary
<1> QED
  BY <1>1, <1>2

(* Pairing (Provider::pair_agent) leaves every request alone.              *)
LEMMA PairShape ==
    ASSUME FileOK, NEW a \in Agents, pair_agent(a)
    PROVE  Ordinary /\ FileOK'
<1> DEFINE new == [state EXCEPT !.pairings[a] = "Enabled",
                                !.agent_audit[a] = Append(@, "Paired")]
<1>1. state \in ProviderState
  BY DEF FileOK
<1>2. Append(state.agent_audit[a], "Paired") \in Seq({"Paired", "Revoked"})
  BY <1>1 DEF ProviderState
<1>3. /\ new \in ProviderState /\ new.requests = state.requests
      /\ new.lifecycle_epoch = state.lifecycle_epoch
      /\ new.pairings = [state.pairings EXCEPT ![a] = "Enabled"]
      /\ new.query_replay_markers = state.query_replay_markers
  BY <1>1, <1>2 DEF ProviderState
<1>4. \A b \in Agents : new.pairings[b] = "Revoked" => state.pairings[b] = "Revoked"
  BY <1>1, <1>3 DEF ProviderState
<1>5. write_state(new)
  BY DEF pair_agent
<1> HIDE DEF new
<1> QED
  BY <1>3, <1>4, <1>5, RegistryShape

(* Registering an image (register_image) leaves every request alone.       *)
LEMMA ImageShape ==
    ASSUME FileOK, NEW image \in Images, register_image(image)
    PROVE  Ordinary /\ FileOK'
<1> DEFINE new == [state EXCEPT !.approved_images = @ \cup {image}]
<1>1. /\ new \in ProviderState /\ new.requests = state.requests
      /\ new.lifecycle_epoch = state.lifecycle_epoch /\ new.pairings = state.pairings
      /\ new.query_replay_markers = state.query_replay_markers
  BY DEF ProviderState, FileOK
<1>2. write_state(new)
  BY DEF register_image
<1> HIDE DEF new
<1> QED
  BY <1>1, <1>2, RegistryShape

(* Provisioning (upsert_operation_guarded) leaves every request alone.     *)
LEMMA ProvisionShape ==
    ASSUME FileOK, NEW v \in Revisions, provision_operation(v)
    PROVE  Ordinary /\ FileOK'
<1> DEFINE new == [state EXCEPT !.operations = {w \in @ : OpOf[w] # OpOf[v]} \cup {v}]
<1>1. /\ new \in ProviderState /\ new.requests = state.requests
      /\ new.lifecycle_epoch = state.lifecycle_epoch /\ new.pairings = state.pairings
      /\ new.query_replay_markers = state.query_replay_markers
  BY DEF ProviderState, FileOK
<1>2. write_state(new)
  BY DEF provision_operation
<1> HIDE DEF new
<1> QED
  BY <1>1, <1>2, RegistryShape

(* A status query (consume_status_query) adds a marker and nothing else.   *)
LEMMA QueryShape ==
    ASSUME FileOK, NEW p \in Requests, NEW a \in Agents, NEW n \in Nonces,
           consume_status_query(p, a, n)
    PROVE  Ordinary /\ FileOK'
<1> DEFINE new == [state EXCEPT !.query_replay_markers = @ \cup {<<a, n>>}]
<1>0. /\ state \in ProviderState
      /\ state.query_replay_markers \cup {<<a, n>>} \in SUBSET (Agents \X Nonces)
  BY DEF ProviderState, FileOK
<1>1. /\ new \in ProviderState /\ new.requests = state.requests
      /\ new.lifecycle_epoch = state.lifecycle_epoch /\ new.pairings = state.pairings
      /\ state.query_replay_markers \subseteq new.query_replay_markers
  BY <1>0 DEF ProviderState
<1>2. write_state(new)
  BY DEF consume_status_query, write_marked
<1> HIDE DEF new
<1> QED
  BY <1>1, <1>2, RegistryShape

(* Revocation sweeps what the agent left unclaimed.                        *)
LEMMA RevokeShape ==
    ASSUME FileOK, NEW a \in Agents, revoke_agent(a)
    PROVE  (Ordinary \/ Revokes(a)) /\ FileOK'
<1> DEFINE swept_request(p) == IF state.requests[p].owner = a /\ unclaimed(state.requests[p])
                               THEN transition(state.requests[p], "Expired", "Invalidated")
                               ELSE state.requests[p]
           new == revoked_state(state, a)
<1>1. state \in ProviderState /\ state.requests \in [Requests -> DirectRecord]
  BY DEF FileOK, ProviderState
<1>2. ASSUME NEW p \in Requests
      PROVE  /\ swept_request(p) \in DirectRecord
             /\ Evolves(state.requests[p], swept_request(p))
             /\ swept_request(p).receipt = state.requests[p].receipt
             /\ swept_request(p).owner = a => ~unclaimed(swept_request(p))
  <2>1. CASE state.requests[p].owner = a /\ unclaimed(state.requests[p])
    <3>1. "Expired" \in DirectStatus /\ "Invalidated" \in DecisionOutcome
      BY DEF DirectStatus, DecisionOutcome
    <3>2. swept_request(p) = transition(state.requests[p], "Expired", "Invalidated")
      BY <2>1
    <3> HIDE DEF swept_request
    <3> QED
      BY <1>1, <2>1, <3>1, <3>2, TransitionEvolves DEF unclaimed
  <2>2. CASE ~(state.requests[p].owner = a /\ unclaimed(state.requests[p]))
    BY <1>1, <2>2 DEF Evolves
  <2> QED
    BY <2>1, <2>2
<1> DEFINE pairings == [state.pairings EXCEPT ![a] = "Revoked"]
           audit == [state.agent_audit EXCEPT ![a] = Append(state.agent_audit[a], "Revoked")]
           requests == [p \in Requests |-> swept_request(p)]
<1>3. Append(state.agent_audit[a], "Revoked") \in Seq({"Paired", "Revoked"})
  BY <1>1 DEF ProviderState
<1>4. new = [state EXCEPT !.pairings = pairings, !.agent_audit = audit, !.requests = requests]
  BY <1>1 DEF revoked_state, ProviderState
<1>5. /\ pairings \in [Agents -> {"None", "Enabled", "Revoked"}]
      /\ \A b \in Agents \ {a} : pairings[b] = state.pairings[b]
      /\ audit \in [Agents -> Seq({"Paired", "Revoked"})]
  BY <1>1, <1>3 DEF ProviderState
<1> HIDE DEF swept_request, new
<1>6. requests \in [Requests -> DirectRecord] /\ \A p \in Requests : requests[p] = swept_request(p)
  BY <1>2
<1> HIDE DEF pairings, audit, requests
<1>10. /\ new \in ProviderState
       /\ new.requests = requests /\ new.pairings = pairings
       /\ new.query_replay_markers = state.query_replay_markers
       /\ new.lifecycle_epoch = state.lifecycle_epoch
  BY <1>1, <1>4, <1>5, <1>6 DEF ProviderState
<1>7. write_state(new)
  BY DEF revoke_agent, new
<1>8. CASE state' = state
  BY <1>8, UnchangedIsOrdinary DEF FileOK
<1>9. CASE state' = new
  <2>1. Revokes(a)
    BY <1>2, <1>5, <1>6, <1>9, <1>10 DEF Revokes
  <2> QED
    BY <1>9, <1>10, <2>1 DEF FileOK
<1> QED
  BY <1>7, <1>8, <1>9, WriteState

(* Both ways of creating a request give an unused identifier to an owner   *)
(* who may ask.                                                            *)
LEMMA CreateShape ==
    ASSUME FileOK, NEW p \in Requests, NEW owner \in Agents \cup {Human},
           NEW nonce \in Nonces \cup {NoNonce}, NEW v \in Revisions,
           state.requests[p] = Unused, agent_current(owner),
           write_state(put(p, fresh_record(owner, nonce, v, state.lifecycle_epoch)))
    PROVE  (Ordinary \/ Creates(p)) /\ FileOK'
<1> DEFINE r == fresh_record(owner, nonce, v, state.lifecycle_epoch)
<1>1. state \in ProviderState /\ state.requests \in [Requests -> DirectRecord]
  BY DEF FileOK, ProviderState
<1>2. state.lifecycle_epoch \in Nat /\ v \in Revisions \cup {NoRevision}
  BY <1>1 DEF ProviderState
<1>3. r \in DirectRecord /\ r.owner = owner /\ r.receipt = NoReceipt
  BY <1>2, FreshType
<1> HIDE DEF r
<1>4. CASE state' = state
  BY <1>4, UnchangedIsOrdinary DEF FileOK
<1>5. CASE state' = put(p, r)
  <2>1. /\ state'.requests = [state.requests EXCEPT ![p] = r]
        /\ state' \in ProviderState
        /\ state'.lifecycle_epoch = state.lifecycle_epoch
        /\ state'.pairings = state.pairings
        /\ state'.query_replay_markers = state.query_replay_markers
    BY <1>1, <1>3, <1>5, PutType
  <2>2. state'.requests[p] = r /\ \A q \in Requests \ {p} : state'.requests[q] = state.requests[q]
    BY <1>1, <2>1
  <2> QED
    BY <1>3, <2>1, <2>2 DEF Creates, FileOK
<1> QED
  BY <1>4, <1>5, WriteState DEF r

(* A request from the local terminal (create_direct) is a creation.        *)
LEMMA CreateDirectShape ==
    ASSUME FileOK, NEW p \in Requests, NEW v \in Revisions, create_direct(p, v)
    PROVE  (Ordinary \/ Creates(p)) /\ FileOK'
<1>1. agent_current(Human)
  BY DEF agent_current
<1> QED
  BY <1>1, CreateShape DEF create_direct

(* An agent's submission (create_signed) is a creation with its nonce.     *)
LEMMA CreateSignedShape ==
    ASSUME FileOK, NEW p \in Requests, NEW a \in Agents, NEW n \in Nonces, NEW v \in Revisions,
           create_signed(p, a, n, v)
    PROVE  (Ordinary \/ Creates(p)) /\ FileOK'
BY CreateShape DEF create_signed, write_marked

(* One record moves by a transition.                                       *)
LEMMA MoveShape ==
    ASSUME FileOK, NEW p \in Requests, NEW next \in DirectStatus, NEW decision \in DecisionOutcome,
           \/ state.requests[p].status \in {"Pending", "Approved"}
           \/ next \notin {"Pending", "Approved"},
           write_state(put(p, transition(state.requests[p], next, decision)))
    PROVE  Ordinary /\ FileOK'
<1> DEFINE r == transition(state.requests[p], next, decision)
<1>1. state \in ProviderState /\ state.requests[p] \in DirectRecord
  BY DEF FileOK, ProviderState
<1>2. /\ r \in DirectRecord /\ Evolves(state.requests[p], r)
      /\ r.receipt = state.requests[p].receipt
  BY <1>1, TransitionEvolves
<1> HIDE DEF r
<1>3. write_state(put(p, r))
  BY DEF r
<1> QED
  BY <1>1, <1>2, <1>3, PutIsOrdinary DEF FileOK

(* A review that does not open (fail_direct_launch) ends one request.      *)
LEMMA LaunchFailureShape ==
    ASSUME FileOK, NEW p \in Requests, fail_direct_launch(p) \/ cancel_unclaimed_execution(p)
    PROVE  Ordinary /\ FileOK'
<1>1. /\ "Expired" \in DirectStatus
      /\ "ReviewUnavailable" \in DecisionOutcome /\ "ExecutionUnavailable" \in DecisionOutcome
  BY DEF DirectStatus, DecisionOutcome
<1> QED
  BY <1>1, MoveShape DEF fail_direct_launch, cancel_unclaimed_execution

(* A decision (decide_direct) moves one pending request.                   *)
LEMMA DecideShape ==
    ASSUME FileOK, NEW p \in Requests, NEW next \in {"Approved", "Denied"},
           decide_direct(p, next)
    PROVE  Ordinary /\ FileOK'
<1>1. next \in DirectStatus /\ next \in DecisionOutcome
  BY DEF DirectStatus, DecisionOutcome
<1>2. state.requests[p].status = "Pending"
  BY DEF decide_direct, prepare_direct
<1> QED
  BY <1>1, <1>2, MoveShape DEF decide_direct

(* execution_started moves one claimed request.                            *)
LEMMA StartedShape ==
    ASSUME FileOK, NEW p \in Requests, execution_started(p)
    PROVE  Ordinary /\ FileOK'
<1>1. "Running" \in DirectStatus /\ "Approved" \in DecisionOutcome
  BY DEF DirectStatus, DecisionOutcome
<1> QED
  BY <1>1, MoveShape DEF execution_started

(* finish_execution ends one claimed request.                              *)
LEMMA FinishShape ==
    ASSUME FileOK, NEW p \in Requests, NEW status, NEW cleanup,
           finish_execution(p, status, cleanup)
    PROVE  Ordinary /\ FileOK'
<1> DEFINE decision == IF status = "Completed" THEN "Approved" ELSE "ExecutionUnavailable"
<1>1. status \in DirectStatus /\ status \notin {"Pending", "Approved"}
  BY DEF finish_execution, DirectStatus, FailedStatus
<1>2. decision \in DecisionOutcome
  BY DEF DecisionOutcome
<1>3. write_state(put(p, transition(state.requests[p], status, decision)))
  BY DEF finish_execution
<1> HIDE DEF decision
<1> QED
  BY <1>1, <1>2, <1>3, MoveShape

(* claim_execution sets the claim of one request and nothing else.         *)
LEMMA ClaimShape ==
    ASSUME FileOK, NEW p \in Requests, claim_execution(p)
    PROVE  Ordinary /\ FileOK'
<1> DEFINE r == [state.requests[p] EXCEPT !.claimed = TRUE]
<1>1. state \in ProviderState /\ state.requests[p] \in DirectRecord
  BY DEF FileOK, ProviderState
<1>2. /\ r \in DirectRecord /\ Evolves(state.requests[p], r)
      /\ r.receipt = state.requests[p].receipt
  BY <1>1 DEF DirectRecord, Evolves, used, unclaimed
<1>3. write_state(put(p, r))
  BY DEF claim_execution
<1> HIDE DEF r
<1> QED
  BY <1>1, <1>2, <1>3, PutIsOrdinary DEF FileOK

(* record_write replaces a receipt that already exists.                    *)
LEMMA RecordWriteShape ==
    ASSUME FileOK, NEW p \in Requests, NEW receipt \in WriteResults(state.requests[p].receipt),
           record_write(p, receipt)
    PROVE  Ordinary /\ FileOK'
<1> DEFINE r == [state.requests[p] EXCEPT !.receipt = receipt]
<1>1. state \in ProviderState /\ state.requests[p] \in DirectRecord
  BY DEF FileOK, ProviderState
<1>2. receipt \in WriteReceipt /\ receipt # NoReceipt
  BY <1>1, WriteResultsType
<1>3. r \in DirectRecord /\ Evolves(state.requests[p], r)
  BY <1>1, <1>2 DEF DirectRecord, Evolves, used, unclaimed
<1>4. write_state(put(p, r)) /\ state.requests[p].receipt # NoReceipt
  BY DEF record_write
<1> HIDE DEF r
<1> QED
  BY <1>1, <1>3, <1>4, PutIsOrdinary DEF FileOK

(* reconcile_write completes a receipt that already exists.                *)
LEMMA ReconcileShape ==
    ASSUME FileOK, NEW p \in Requests, NEW item \in Items, reconcile_write(p, item)
    PROVE  Ordinary /\ FileOK'
<1> DEFINE r == reconciled(state.requests[p], item)
<1>1. /\ state \in ProviderState /\ state.requests[p] \in DirectRecord
      /\ is_terminal(state.requests[p].status)
  BY DEF FileOK, ProviderState, reconcile_write
<1>2. r \in DirectRecord /\ Evolves(state.requests[p], r)
  BY <1>1, ReconciledType DEF Evolves, used, unclaimed
<1>3. write_state(put(p, r)) /\ state.requests[p].receipt # NoReceipt
  BY DEF reconcile_write
<1> HIDE DEF r
<1> QED
  BY <1>1, <1>2, <1>3, PutIsOrdinary DEF FileOK

(* begin_write is the one step that gives a request its receipt.           *)
LEMMA BeginWriteShape ==
    ASSUME FileOK, NEW p \in Requests, begin_write(p)
    PROVE  (Ordinary \/ Attempts(p)) /\ FileOK'
<1> DEFINE receipt == [item |-> NoItem, status |-> "Uncertain"]
           r == [state.requests[p] EXCEPT !.receipt = receipt]
<1>1. state \in ProviderState /\ state.requests \in [Requests -> DirectRecord]
  BY DEF FileOK, ProviderState
<1>2. receipt \in WriteReceipt /\ receipt # NoReceipt
  BY DEF WriteReceipt, WriteStatus, NoReceipt
<1>3. r \in DirectRecord /\ Evolves(state.requests[p], r)
  BY <1>1, <1>2 DEF DirectRecord, Evolves, used, unclaimed
<1>4. /\ write_state(put(p, r))
      /\ \A q \in Requests \ {p} : state.requests[q].receipt # NoReceipt
                => Destination(state.requests[q]) # Destination(state.requests[p])
  BY DEF begin_write
<1> HIDE DEF r
<1>5. CASE state' = state
  BY <1>5, UnchangedIsOrdinary DEF FileOK
<1>6. CASE state' = put(p, r)
  <2>1. /\ state'.requests = [state.requests EXCEPT ![p] = r]
        /\ state' \in ProviderState
        /\ state'.lifecycle_epoch = state.lifecycle_epoch
        /\ state'.pairings = state.pairings
        /\ state'.query_replay_markers = state.query_replay_markers
    BY <1>1, <1>3, <1>6, PutType
  <2>2. state'.requests[p] = r /\ \A q \in Requests \ {p} : state'.requests[q] = state.requests[q]
    BY <1>1, <2>1
  <2> QED
    BY <1>3, <1>4, <2>1, <2>2 DEF Attempts, FileOK
<1> QED
  BY <1>4, <1>5, <1>6, WriteState

(* Expiry ends unclaimed requests only.                                    *)
LEMMA ExpireShape ==
    ASSUME FileOK, NEW elapsed \in SUBSET Requests, expire_direct(elapsed)
    PROVE  Ordinary /\ FileOK'
<1> DEFINE swept_request(p) == IF p \in elapsed /\ unclaimed(state.requests[p])
                               THEN transition(state.requests[p], "Expired", "Expired")
                               ELSE state.requests[p]
           requests == [p \in Requests |-> swept_request(p)]
           new == expired_state(state, elapsed)
<1>1. state \in ProviderState /\ state.requests \in [Requests -> DirectRecord]
  BY DEF FileOK, ProviderState
<1>2. ASSUME NEW p \in Requests
      PROVE  /\ swept_request(p) \in DirectRecord
             /\ Evolves(state.requests[p], swept_request(p))
             /\ swept_request(p).receipt = state.requests[p].receipt
  <2>1. CASE p \in elapsed /\ unclaimed(state.requests[p])
    <3>1. "Expired" \in DirectStatus /\ "Expired" \in DecisionOutcome
      BY DEF DirectStatus, DecisionOutcome
    <3>2. swept_request(p) = transition(state.requests[p], "Expired", "Expired")
      BY <2>1
    <3> HIDE DEF swept_request
    <3> QED
      BY <1>1, <3>1, <3>2, TransitionEvolves
  <2>2. CASE ~(p \in elapsed /\ unclaimed(state.requests[p]))
    BY <1>1, <2>2 DEF Evolves
  <2> QED
    BY <2>1, <2>2
<1>3. new = [state EXCEPT !.requests = requests]
  BY DEF expired_state
<1>4. write_state(new)
  BY DEF expire_direct
<1> HIDE DEF swept_request, new
<1>5. requests \in [Requests -> DirectRecord] /\ \A p \in Requests : requests[p] = swept_request(p)
  BY <1>2
<1> HIDE DEF requests
<1>6. /\ new \in ProviderState /\ new.requests = requests
      /\ new.lifecycle_epoch = state.lifecycle_epoch /\ new.pairings = state.pairings
      /\ new.query_replay_markers = state.query_replay_markers
  BY <1>1, <1>3, <1>5 DEF ProviderState
<1>7. state' = state \/ state' = new
  BY <1>4, WriteState
<1>8. new.lifecycle_epoch <= MaxEpoch
  BY <1>6 DEF FileOK
<1> QED
  BY <1>2, <1>5, <1>6, <1>7, <1>8, SweepShape

(* A lock ends unclaimed requests, recovery ends all that had not ended;   *)
(* both count the lifecycle epoch up by one.                               *)
LEMMA InvalidateShape ==
    ASSUME FileOK, NEW recovered \in BOOLEAN, state.lifecycle_epoch < MaxEpoch,
           state' = state \/ state' = invalidated_state(state, recovered)
    PROVE  Ordinary /\ FileOK'
<1> DEFINE swept_request(p) == IF swept(state.requests[p], recovered)
                               THEN invalidated_request(state.requests[p], recovered)
                               ELSE state.requests[p]
           requests == [p \in Requests |-> swept_request(p)]
           epoch == state.lifecycle_epoch + 1
           new == invalidated_state(state, recovered)
<1>1. state \in ProviderState /\ state.requests \in [Requests -> DirectRecord]
  BY DEF FileOK, ProviderState
<1>2. ASSUME NEW p \in Requests
      PROVE  /\ swept_request(p) \in DirectRecord
             /\ Evolves(state.requests[p], swept_request(p))
             /\ swept_request(p).receipt = state.requests[p].receipt
  <2>1. CASE swept(state.requests[p], recovered)
    <3>1. swept_request(p) = invalidated_request(state.requests[p], recovered)
      BY <2>1
    <3>2. \A status \in DirectStatus \cup {"Unused"} : is_terminal(status) =>
                status \notin {"Unused", "Pending", "Approved"}
      BY DEF is_terminal, FailedStatus
    <3> HIDE DEF swept_request
    <3>3. /\ swept_request(p) \in DirectRecord /\ is_terminal(swept_request(p).status)
          /\ swept_request(p).owner = state.requests[p].owner
          /\ swept_request(p).nonce = state.requests[p].nonce
          /\ swept_request(p).revision = state.requests[p].revision
          /\ swept_request(p).receipt = state.requests[p].receipt
      BY <1>1, <3>1, InvalidatedType
    <3>4. swept_request(p).status \notin {"Unused", "Pending", "Approved"}
      BY <3>2, <3>3 DEF DirectRecord
    <3> QED
      BY <3>3, <3>4 DEF Evolves, used, unclaimed
  <2>2. CASE ~swept(state.requests[p], recovered)
    BY <1>1, <2>2 DEF Evolves
  <2> QED
    BY <2>1, <2>2
<1>3. new = [state EXCEPT !.lifecycle_epoch = epoch, !.requests = requests]
  BY <1>1 DEF invalidated_state, ProviderState
<1> HIDE DEF swept_request
<1>5. requests \in [Requests -> DirectRecord] /\ \A p \in Requests : requests[p] = swept_request(p)
  BY <1>2
<1>6. epoch \in Nat /\ epoch <= MaxEpoch
  BY <1>1, EpochAssumption DEF ProviderState
<1> HIDE DEF requests, new, epoch
<1>7. /\ new \in ProviderState /\ new.requests = requests
      /\ new.lifecycle_epoch <= MaxEpoch /\ new.pairings = state.pairings
      /\ new.query_replay_markers = state.query_replay_markers
  BY <1>1, <1>3, <1>5, <1>6 DEF ProviderState
<1>8. state' = state \/ state' = new
  BY DEF new
<1> QED
  BY <1>2, <1>5, <1>7, <1>8, SweepShape

(* Every step has a shape and keeps the file well typed.                   *)
LEMMA StepShape == FileOK /\ [Next]_vars => Shape /\ FileOK'
<1> SUFFICES ASSUME FileOK, [Next]_vars
             PROVE  Shape /\ FileOK'
  OBVIOUS
<1>1. CASE UNCHANGED vars
  BY <1>1, UnchangedIsOrdinary DEF vars, Shape, FileOK
<1>2. CASE Registry
  BY <1>2, PairShape, RevokeShape, ImageShape, ProvisionShape DEF Registry, Shape
<1>3. CASE Deciding
  BY <1>3, CreateDirectShape, CreateSignedShape, QueryShape, ExpireShape, LaunchFailureShape,
     DecideShape DEF Deciding, Shape
<1>4. CASE Executing
  BY <1>4, ClaimShape, StartedShape, BeginWriteShape, RecordWriteShape, FinishShape,
     ReconcileShape DEF Executing, Shape
<1>5. CASE lock
  <2>1. /\ state.lifecycle_epoch < MaxEpoch
        /\ state' = state \/ state' = invalidated_state(state, FALSE)
    BY <1>5, WriteState DEF lock
  <2> QED
    BY <2>1, InvalidateShape DEF Shape
<1>6. CASE Crash
  BY <1>6, UnchangedIsOrdinary DEF Crash, Shape, FileOK
<1>7. CASE start
  <2>1. /\ state.lifecycle_epoch < MaxEpoch
        /\ state' = state \/ state' = invalidated_state(state, TRUE)
    BY <1>7 DEF start
  <2> QED
    BY <2>1, InvalidateShape DEF Shape
<1> QED
  BY <1>1, <1>2, <1>3, <1>4, <1>5, <1>6, <1>7 DEF Next

-----------------------------------------------------------------------------
(* The invariants.                                                         *)

(* A new installation's state file (ProviderState::initial) is well typed. *)
LEMMA InitFile == Init => FileOK
<1>1. << >> \in Seq({"Paired", "Revoked"})
  OBVIOUS
<1>2. initial \in ProviderState /\ initial.lifecycle_epoch = 0
  BY <1>1, UnusedType DEF initial, ProviderState
<1> QED
  BY <1>2, EpochAssumption DEF Init, FileOK

(* A marker is accepted only by a write that put it in the file.           *)
LEMMA AcceptedMarker ==
    ASSUME FileOK, [Next]_vars
    PROVE  \/ consumed' = consumed
           \/ \E a \in Agents, n \in Nonces :
                /\ consumed' = consumed \cup {<<a, n>>}
                /\ marker_seen(<<a, n>>)'
<1>1. CASE UNCHANGED vars
  BY <1>1 DEF vars
<1>2. CASE Registry
  BY <1>2 DEF Registry, pair_agent, revoke_agent, register_image, provision_operation
<1>3. ASSUME NEW p \in Requests, NEW a \in Agents, NEW n \in Nonces, NEW v \in Revisions,
             create_signed(p, a, n, v), consumed' # consumed
      PROVE  consumed' = consumed \cup {<<a, n>>} /\ marker_seen(<<a, n>>)'
  <2> DEFINE r == fresh_record(a, n, v, state.lifecycle_epoch)
  <2>1. consumed' = consumed \cup {<<a, n>>} /\ state' = put(p, r)
    BY <1>3 DEF create_signed, write_marked, write_state
  <2>2. /\ state \in ProviderState /\ state.requests \in [Requests -> DirectRecord]
        /\ state.lifecycle_epoch \in Nat
    BY DEF FileOK, ProviderState
  <2>3. r \in DirectRecord /\ r.owner = a /\ r.nonce = n /\ used(r)
    BY <2>2, FreshType
  <2> HIDE DEF r
  <2>4. state'.requests[p] = r
    BY <2>1, <2>2, <2>3, PutType
  <2> QED
    BY <2>1, <2>3, <2>4 DEF marker_seen, replay_digest
<1>4. ASSUME NEW p \in Requests, NEW a \in Agents, NEW n \in Nonces,
             consume_status_query(p, a, n), consumed' # consumed
      PROVE  consumed' = consumed \cup {<<a, n>>} /\ marker_seen(<<a, n>>)'
  <2>1. /\ consumed' = consumed \cup {<<a, n>>}
        /\ state' = [state EXCEPT !.query_replay_markers = @ \cup {<<a, n>>}]
    BY <1>4 DEF consume_status_query, write_marked, write_state
  <2>2. <<a, n>> \in state'.query_replay_markers
    BY <2>1 DEF FileOK, ProviderState
  <2> QED
    BY <2>1, <2>2 DEF marker_seen
<1>5. CASE Deciding
  BY <1>3, <1>4, <1>5 DEF Deciding, create_direct, expire_direct, fail_direct_launch,
     cancel_unclaimed_execution, decide_direct
<1>6. CASE Executing
  BY <1>6 DEF Executing, claim_execution, execution_started, begin_write, record_write,
     finish_execution, reconcile_write
<1>7. CASE lock \/ Crash \/ start
  BY <1>7 DEF lock, Crash, start
<1> QED
  BY <1>1, <1>2, <1>5, <1>6, <1>7 DEF Next

(* The state file, the poison flag and the replay markers keep their types, *)
(* and the lifecycle epoch never passes MaxEpoch: every increment is        *)
(* checked (provider_store.rs invalidate).                                  *)
THEOREM TypeCorrect == Spec => []TypeOK
<1>1. Init => TypeOK
  BY InitFile DEF Init, FileOK, TypeOK
<1>2. TypeOK /\ [Next]_vars => TypeOK'
  <2> SUFFICES ASSUME TypeOK, [Next]_vars
               PROVE  TypeOK'
    OBVIOUS
  <2>1. FileOK'
    BY StepShape DEF TypeOK, FileOK
  <2>2. poisoned' \in BOOLEAN /\ up' \in BOOLEAN
    <3>1. \A new : write_state(new) => poisoned' \in BOOLEAN /\ up' \in BOOLEAN
      BY DEF write_state, TypeOK
    <3>2. CASE UNCHANGED vars
      BY <3>2 DEF vars, TypeOK
    <3>3. CASE Registry
      BY <3>1, <3>3 DEF Registry, pair_agent, revoke_agent, register_image, provision_operation
    <3>4. CASE Deciding
      BY <3>1, <3>4 DEF Deciding, create_direct, create_signed, consume_status_query, write_marked,
         expire_direct, fail_direct_launch, cancel_unclaimed_execution, decide_direct
    <3>5. CASE Executing
      BY <3>1, <3>5 DEF Executing, claim_execution, execution_started, begin_write, record_write,
         finish_execution, reconcile_write
    <3>6. CASE lock \/ Crash \/ start
      BY <3>1, <3>6 DEF lock, Crash, start, TypeOK
    <3> QED
      BY <3>2, <3>3, <3>4, <3>5, <3>6 DEF Next
  <2>3. consumed' \subseteq Agents \X Nonces
    <3>1. FileOK /\ consumed \subseteq Agents \X Nonces
      BY DEF TypeOK, FileOK
    <3>2. \/ consumed' = consumed
          \/ \E a \in Agents, n \in Nonces : consumed' = consumed \cup {<<a, n>>}
      BY <3>1, AcceptedMarker
    <3> QED
      BY <3>1, <3>2
  <2> QED
    BY <2>1, <2>2, <2>3 DEF TypeOK, FileOK
<1> QED
  BY <1>1, <1>2, PTL DEF Spec

(* No unclaimed request of a revoked agent exists, at any time after its   *)
(* revocation, in any later process.                                       *)
THEOREM RevokedHoldNothing == Spec => []RevokedAgentHoldsNothing
<1>1. Init => RevokedAgentHoldsNothing
  BY DEF Init, initial, RevokedAgentHoldsNothing
<1>2. TypeOK /\ RevokedAgentHoldsNothing /\ [Next]_vars => RevokedAgentHoldsNothing'
  <2> SUFFICES ASSUME TypeOK, RevokedAgentHoldsNothing, [Next]_vars,
                      NEW p \in Requests, NEW a \in Agents,
                      state'.pairings[a] = "Revoked", state'.requests[p].owner = a
               PROVE  ~unclaimed(state'.requests[p])
    BY DEF RevokedAgentHoldsNothing
  <2>1. Shape
    BY StepShape DEF TypeOK, FileOK
  <2>2. CASE Ordinary
    BY <2>2 DEF Ordinary, Evolves, RevokedAgentHoldsNothing
  <2>3. ASSUME NEW b \in Agents, Revokes(b)
        PROVE  ~unclaimed(state'.requests[p])
    <3>1. CASE a = b
      BY <2>3, <3>1 DEF Revokes
    <3>2. CASE a # b
      BY <2>3, <3>2 DEF Revokes, Evolves, RevokedAgentHoldsNothing
    <3> QED
      BY <3>1, <3>2
  <2>4. ASSUME NEW q \in Requests, Creates(q)
        PROVE  ~unclaimed(state'.requests[p])
    <3>1. CASE p = q
      BY <2>4, <3>1, OwnerAssumption DEF Creates, agent_current
    <3>2. CASE p # q
      BY <2>4, <3>2 DEF Creates, RevokedAgentHoldsNothing
    <3> QED
      BY <3>1, <3>2
  <2>5. ASSUME NEW q \in Requests, Attempts(q)
        PROVE  ~unclaimed(state'.requests[p])
    <3>1. CASE p = q
      BY <2>5, <3>1 DEF Attempts, Evolves, RevokedAgentHoldsNothing
    <3>2. CASE p # q
      BY <2>5, <3>2 DEF Attempts, RevokedAgentHoldsNothing
    <3> QED
      BY <3>1, <3>2
  <2> QED
    BY <2>1, <2>2, <2>3, <2>4, <2>5 DEF Shape
<1> QED
  BY <1>1, <1>2, TypeCorrect, PTL DEF Spec

(* Two requests never attempt a write at the same destination, whatever    *)
(* became of the first attempt (provider.rs begin_write).                  *)
THEOREM OneAttempt == Spec => []OneAttemptPerDestination
<1>1. Init => OneAttemptPerDestination
  BY DEF Init, initial, OneAttemptPerDestination, Unused
<1>2. TypeOK /\ OneAttemptPerDestination /\ [Next]_vars => OneAttemptPerDestination'
  <2> SUFFICES ASSUME TypeOK, OneAttemptPerDestination, [Next]_vars,
                      NEW p \in Requests, NEW q \in Requests, p # q,
                      state'.requests[p].receipt # NoReceipt,
                      state'.requests[q].receipt # NoReceipt
               PROVE  Destination(state'.requests[p]) # Destination(state'.requests[q])
    BY DEF OneAttemptPerDestination
  <2>1. Shape
    BY StepShape DEF TypeOK, FileOK
  <2>2. \A r, s : Evolves(r, s) => Destination(r) = Destination(s)
    BY DEF Evolves, Destination
  <2>3. CASE Ordinary
    BY <2>2, <2>3 DEF Ordinary, OneAttemptPerDestination
  <2>4. ASSUME NEW a \in Agents, Revokes(a)
        PROVE  Destination(state'.requests[p]) # Destination(state'.requests[q])
    BY <2>2, <2>4 DEF Revokes, OneAttemptPerDestination
  <2>5. ASSUME NEW c \in Requests, Creates(c)
        PROVE  Destination(state'.requests[p]) # Destination(state'.requests[q])
    BY <2>5 DEF Creates, OneAttemptPerDestination
  <2>6. ASSUME NEW c \in Requests, Attempts(c)
        PROVE  Destination(state'.requests[p]) # Destination(state'.requests[q])
    BY <2>2, <2>6 DEF Attempts, OneAttemptPerDestination
  <2> QED
    BY <2>1, <2>3, <2>4, <2>5, <2>6 DEF Shape
<1> QED
  BY <1>1, <1>2, TypeCorrect, PTL DEF Spec

(* The marker of an accepted submission or status query stays in the file  *)
(* for good: neither the end of its request nor a crash frees its nonce.   *)
THEOREM NonceSpent == Spec => []AcceptedNonceStaysSpent
<1>1. Init => AcceptedNonceStaysSpent
  BY DEF Init, AcceptedNonceStaysSpent
<1>2. TypeOK /\ AcceptedNonceStaysSpent /\ [Next]_vars => AcceptedNonceStaysSpent'
  <2> SUFFICES ASSUME TypeOK, AcceptedNonceStaysSpent, [Next]_vars
               PROVE  AcceptedNonceStaysSpent'
    OBVIOUS
  <2>1. Shape /\ FileOK
    BY StepShape DEF TypeOK, FileOK
  <2>2. ASSUME NEW marker, marker_seen(marker)
        PROVE  marker_seen(marker)'
    <3>1. CASE marker \in state.query_replay_markers
      BY <2>1, <3>1 DEF Shape, Ordinary, Revokes, Creates, Attempts, marker_seen
    <3>2. ASSUME NEW p \in Requests, used(state.requests[p]),
                 replay_digest(state.requests[p]) = marker
          PROVE  marker_seen(marker)'
      <4>1. used(state'.requests[p]) /\ replay_digest(state'.requests[p]) = marker
        <5>1. CASE Ordinary
          BY <3>2, <5>1 DEF Ordinary, Evolves, replay_digest
        <5>2. CASE \E a \in Agents : Revokes(a)
          BY <3>2, <5>2 DEF Revokes, Evolves, replay_digest
        <5>3. ASSUME NEW c \in Requests, Creates(c)
              PROVE  used(state'.requests[p]) /\ replay_digest(state'.requests[p]) = marker
          BY <3>2, <5>3 DEF Creates, used, Unused
        <5>4. ASSUME NEW c \in Requests, Attempts(c)
              PROVE  used(state'.requests[p]) /\ replay_digest(state'.requests[p]) = marker
          <6>1. CASE c = p
            BY <3>2, <5>4, <6>1 DEF Attempts, Evolves, replay_digest
          <6>2. CASE c # p
            BY <3>2, <5>4, <6>2 DEF Attempts
          <6> QED
            BY <6>1, <6>2
        <5> QED
          BY <2>1, <5>1, <5>2, <5>3, <5>4 DEF Shape
      <4> QED
        BY <4>1 DEF marker_seen
    <3> QED
      BY <2>2, <3>1, <3>2 DEF marker_seen
  <2> QED
    BY <2>1, <2>2, AcceptedMarker DEF AcceptedNonceStaysSpent
<1> QED
  BY <1>1, <1>2, TypeCorrect, PTL DEF Spec

(* The file validates in every state, so that no read of this process or   *)
(* of a later one refuses it: every replacement was validated first.       *)
THEOREM FileAlwaysValidates == Spec => []FileValidates
<1>1. Init => FileValidates
  BY DEF Init, initial, FileValidates, validate, validate_registry, ExpectedAudit,
     validate_operations, validate_replay, validate_request, used, Unused
<1>2. FileValidates /\ [Next]_vars => FileValidates'
  <2> SUFFICES ASSUME FileValidates, [Next]_vars
               PROVE  FileValidates'
    OBVIOUS
  <2>1. ASSUME NEW new, state' = state \/ (state' = new /\ validate(new))
        PROVE  FileValidates'
    <3>1. CASE state' = state
      BY <3>1 DEF FileValidates, validate, validate_registry, validate_operations,
         validate_replay, validate_request
    <3>2. CASE state' = new /\ validate(new)
      BY <3>2 DEF FileValidates, validate, validate_registry, validate_operations,
         validate_replay, validate_request
    <3> QED
      BY <2>1, <3>1, <3>2
  <2>2. \A new : write_state(new) => FileValidates'
    BY <2>1, WriteState
  <2>3. CASE UNCHANGED vars
    BY <2>1, <2>3 DEF vars
  <2>4. CASE Registry
    BY <2>2, <2>4 DEF Registry, pair_agent, revoke_agent, register_image, provision_operation
  <2>5. CASE Deciding
    BY <2>2, <2>5 DEF Deciding, create_direct, create_signed, consume_status_query, write_marked,
       expire_direct, fail_direct_launch, cancel_unclaimed_execution, decide_direct
  <2>6. CASE Executing
    BY <2>2, <2>6 DEF Executing, claim_execution, execution_started, begin_write, record_write,
       finish_execution, reconcile_write
  <2>7. CASE lock \/ Crash
    BY <2>1, <2>2, <2>7 DEF lock, Crash
  <2>8. CASE start
    BY <2>1, <2>8 DEF start
  <2> QED
    BY <2>3, <2>4, <2>5, <2>6, <2>7, <2>8 DEF Next
<1> QED
  BY <1>1, <1>2, PTL DEF Spec

-----------------------------------------------------------------------------
(* Terminal requests.                                                      *)

(* Appending an event keeps the audit as a prefix and puts the event last. *)
LEMMA AppendKeepsPrefix ==
    ASSUME NEW audit \in Seq(HistoryEvent), NEW e \in HistoryEvent
    PROVE  LET longer == Append(audit, e) IN
           /\ longer # << >> /\ longer[Len(longer)] = e
           /\ SubSeq(longer, 1, Len(audit)) = audit
<1> DEFINE longer == Append(audit, e)
<1>1. /\ longer \in Seq(HistoryEvent) /\ Len(audit) \in Nat
      /\ Len(longer) = Len(audit) + 1 /\ longer[Len(audit) + 1] = e
      /\ \A i \in 1..Len(audit) : longer[i] = audit[i] /\ audit[i] \in HistoryEvent
  BY LenProperties
<1> HIDE DEF longer
<1>2. /\ SubSeq(longer, 1, Len(audit)) \in Seq(HistoryEvent)
      /\ Len(SubSeq(longer, 1, Len(audit))) = Len(audit)
      /\ \A i \in 1..Len(audit) : SubSeq(longer, 1, Len(audit))[i] = audit[i]
  BY <1>1, SubSeqProperties
<1>3. SubSeq(longer, 1, Len(audit)) = audit
  BY <1>2, SeqEqual
<1>4. longer # << >>
  BY <1>1
<1> QED
  BY <1>1, <1>3, <1>4 DEF longer

(* Replacing a record that has not ended disturbs none that has.           *)
LEMMA PutKeepsTerminal ==
    ASSUME FileOK, NEW p \in Requests, NEW r, ~is_terminal(state.requests[p].status),
           write_state(put(p, r)), NEW q \in Requests
    PROVE  FinalStep(q)
<1>1. state' = state \/ state' = put(p, r)
  BY WriteState
<1>2. state' = put(p, r) => state'.requests = [state.requests EXCEPT ![p] = r]
  BY DEF put, FileOK, ProviderState
<1>3. q # p => state'.requests[q] = state.requests[q]
  BY <1>1, <1>2 DEF FileOK, ProviderState
<1> QED
  BY <1>3 DEF FinalStep

(* A step that replaces a terminal record by itself is final.              *)
LEMMA SameIsFinal ==
    ASSUME NEW q \in Requests,
           is_terminal(state.requests[q].status) => state'.requests[q] = state.requests[q]
    PROVE  FinalStep(q)
BY DEF FinalStep

(* record_write takes no status into account, but validation does: the     *)
(* terminal event froze the receipt.                                       *)
LEMMA RecordWriteFinal ==
    ASSUME FileOK, FileValidates, NEW p \in Requests,
           NEW receipt \in WriteResults(state.requests[p].receipt),
           record_write(p, receipt), NEW q \in Requests
    PROVE  FinalStep(q)
<1> DEFINE r == state.requests[p]
           s == [r EXCEPT !.receipt = receipt]
<1>1. /\ state \in ProviderState /\ state.requests \in [Requests -> DirectRecord]
      /\ r \in DirectRecord
  BY DEF FileOK, ProviderState
<1>2. CASE ~is_terminal(r.status)
  BY <1>2, PutKeepsTerminal DEF record_write
<1>3. CASE state' = state
  BY <1>3, SameIsFinal
<1>4. CASE is_terminal(r.status) /\ state' = put(p, s) /\ validate(put(p, s))
  <2>1. receipt \in WriteReceipt
    BY <1>1, WriteResultsType
  <2>2. s \in DirectRecord /\ s.status = r.status /\ s.audit = r.audit /\ s.receipt = receipt
    BY <1>1, <2>1 DEF DirectRecord
  <2>3. used(r) /\ used(s)
    BY <1>4, <2>2 DEF used, is_terminal, FailedStatus
  <2> HIDE DEF r, s
  <2>4. put(p, s).requests = [state.requests EXCEPT ![p] = s]
    BY <1>1, <2>2, PutType
  <2>5. put(p, s).requests[p] = s
    BY <1>1, <2>4
  <2>6. validate_history(s)
    BY <1>4, <2>3, <2>5 DEF validate, validate_request, validate_record
  <2>7. validate_history(r)
    BY <2>3 DEF FileValidates, validate, validate_request, validate_record, r
  <2>8. receipt = r.receipt
    BY <1>4, <2>2, <2>6, <2>7 DEF validate_history
  <2>9. s = r
    BY <1>1, <2>8 DEF DirectRecord, s
  <2> QED
    BY <1>1, <1>4, <2>4, <2>9, SameIsFinal DEF r
<1> QED
  BY <1>2, <1>3, <1>4, WriteState DEF record_write

(* The reconciliation is the one thing that may still happen.              *)
LEMMA ReconcileFinal ==
    ASSUME FileOK, NEW p \in Requests, NEW item \in Items, reconcile_write(p, item),
           NEW q \in Requests
    PROVE  FinalStep(q)
<1> DEFINE r == state.requests[p]
           s == reconciled(r, item)
<1>1. /\ state \in ProviderState /\ state.requests \in [Requests -> DirectRecord]
      /\ r \in DirectRecord /\ is_terminal(r.status) /\ ~is_reconciled(r)
      /\ r.receipt.item \in {NoItem, item}
  BY DEF FileOK, ProviderState, reconcile_write
<1>2. s \in DirectRecord /\ s.status = r.status /\ s.receipt.item = item
  BY <1>1, ReconciledType
<1>3. PICK e \in HistoryEvent : e.outcome = "Reconciled" /\ s.audit = Append(r.audit, e)
  <2> DEFINE receipt == [item |-> item,
                         status |-> IF r.receipt.status = "Verified" THEN "Verified"
                                    ELSE "CreatedUnverified"]
             next == [r EXCEPT !.receipt = receipt]
             e == snapshot(next, "Reconciled", r.status)
  <2>1. receipt \in WriteReceipt
    BY DEF WriteReceipt, WriteStatus
  <2>2. next \in DirectRecord /\ next.audit = r.audit
    BY <1>1, <2>1 DEF DirectRecord
  <2>3. r.status \in DirectStatus
    BY <1>1 DEF is_terminal, DirectStatus
  <2>4. e \in HistoryEvent /\ e.outcome = "Reconciled"
    BY <2>2, <2>3, SnapshotType DEF HistoryOutcome, snapshot
  <2>5. s = [next EXCEPT !.audit = Append(next.audit, e)]
    BY <2>2 DEF reconciled
  <2> HIDE DEF e, next
  <2>6. s.audit = Append(r.audit, e)
    BY <2>2, <2>5 DEF DirectRecord
  <2> QED
    BY <2>4, <2>6
<1> HIDE DEF r, s
<1>4. r.audit \in Seq(HistoryEvent)
  BY <1>1 DEF DirectRecord
<1>5. is_reconciled(s) /\ SubSeq(s.audit, 1, Len(r.audit)) = r.audit
  BY <1>3, <1>4, AppendKeepsPrefix DEF is_reconciled
<1>6. CASE state' = state
  BY <1>6, SameIsFinal
<1>7. CASE state' = put(p, s)
  <2>1. state'.requests = [state.requests EXCEPT ![p] = s]
    BY <1>1, <1>2, <1>7, PutType
  <2>2. CASE q = p
    <3>1. state'.requests[q] = s /\ state.requests[q] = r
      BY <1>1, <2>1, <2>2 DEF r
    <3> QED
      BY <1>1, <1>2, <1>5, <3>1 DEF FinalStep
  <2>3. CASE q # p
    BY <1>1, <2>1, <2>3, SameIsFinal
  <2> QED
    BY <2>2, <2>3
<1> QED
  BY <1>6, <1>7, WriteState DEF reconcile_write, r, s

(* A terminal request is final: its status, its audit and a named item     *)
(* never change again; only the one reconciliation event may follow.       *)
THEOREM TerminalFinal == Spec => TerminalIsFinal
<1>1. TypeOK /\ FileValidates /\ [Next]_vars => \A q \in Requests : FinalStep(q)
  <2> SUFFICES ASSUME TypeOK, FileValidates, [Next]_vars, NEW q \in Requests
               PROVE  FinalStep(q)
    OBVIOUS
  <2>1. FileOK /\ state.requests \in [Requests -> DirectRecord]
    BY DEF TypeOK, FileOK, ProviderState
  <2>2. \A status : is_terminal(status) =>
            status \notin {"Unused", "Pending", "Approved", "Running"}
    BY DEF is_terminal, FailedStatus
  <2>3. \A p \in Requests : \A r :
            ~is_terminal(state.requests[p].status) /\ write_state(put(p, r)) => FinalStep(q)
    BY <2>1, PutKeepsTerminal
  <2>4. CASE UNCHANGED vars
    BY <2>4, SameIsFinal DEF vars
  <2>5. CASE Registry
    <3>1. ASSUME NEW new, write_state(new), new.requests = state.requests
          PROVE  FinalStep(q)
      BY <3>1, WriteState, SameIsFinal
    <3>2. ASSUME NEW a \in Agents, pair_agent(a)
          PROVE  FinalStep(q)
      BY <2>1, <3>1, <3>2 DEF pair_agent, FileOK, ProviderState
    <3>3. ASSUME NEW a \in Agents, revoke_agent(a)
          PROVE  FinalStep(q)
      <4>1. revoked_state(state, a).requests[q] =
                IF state.requests[q].owner = a /\ unclaimed(state.requests[q])
                THEN transition(state.requests[q], "Expired", "Invalidated")
                ELSE state.requests[q]
        BY <2>1 DEF revoked_state, FileOK, ProviderState
      <4>2. is_terminal(state.requests[q].status)
                => revoked_state(state, a).requests[q] = state.requests[q]
        BY <2>2, <4>1 DEF unclaimed
      <4> QED
        BY <3>3, <4>2, WriteState, SameIsFinal DEF revoke_agent
    <3>4. ASSUME NEW image \in Images, register_image(image)
          PROVE  FinalStep(q)
      BY <2>1, <3>1, <3>4 DEF register_image, FileOK, ProviderState
    <3>5. ASSUME NEW v \in Revisions, provision_operation(v)
          PROVE  FinalStep(q)
      BY <2>1, <3>1, <3>5 DEF provision_operation, FileOK, ProviderState
    <3> QED
      BY <2>5, <3>2, <3>3, <3>4, <3>5 DEF Registry
  <2>6. CASE Deciding
    <3>1. ASSUME NEW p \in Requests, state.requests[p] = Unused, NEW r, write_state(put(p, r))
          PROVE  FinalStep(q)
      BY <2>2, <2>3, <3>1 DEF Unused
    <3>2. ASSUME NEW p \in Requests, NEW a \in Agents, NEW n \in Nonces,
                 consume_status_query(p, a, n)
          PROVE  FinalStep(q)
      <4> DEFINE new == [state EXCEPT !.query_replay_markers = @ \cup {<<a, n>>}]
      <4>1. write_state(new) /\ new.requests = state.requests
        BY <2>1, <3>2 DEF consume_status_query, write_marked, FileOK, ProviderState
      <4> HIDE DEF new
      <4> QED
        BY <4>1, WriteState, SameIsFinal
    <3>3. ASSUME NEW elapsed \in SUBSET Requests, expire_direct(elapsed)
          PROVE  FinalStep(q)
      <4>1. expired_state(state, elapsed).requests[q] =
                IF q \in elapsed /\ unclaimed(state.requests[q])
                THEN transition(state.requests[q], "Expired", "Expired")
                ELSE state.requests[q]
        BY <2>1 DEF expired_state, FileOK, ProviderState
      <4>2. is_terminal(state.requests[q].status)
                => expired_state(state, elapsed).requests[q] = state.requests[q]
        BY <2>2, <4>1 DEF unclaimed
      <4> QED
        BY <3>3, <4>2, WriteState, SameIsFinal DEF expire_direct
    <3>4. ASSUME NEW p \in Requests, fail_direct_launch(p) \/ cancel_unclaimed_execution(p)
          PROVE  FinalStep(q)
      BY <2>2, <2>3, <3>4 DEF fail_direct_launch, cancel_unclaimed_execution
    <3>5. ASSUME NEW p \in Requests, NEW next, decide_direct(p, next)
          PROVE  FinalStep(q)
      BY <2>2, <2>3, <3>5 DEF decide_direct, prepare_direct
    <3>6. ASSUME NEW p \in Requests, NEW v \in Revisions, create_direct(p, v)
          PROVE  FinalStep(q)
      BY <3>1, <3>6 DEF create_direct
    <3>7. ASSUME NEW p \in Requests, NEW a \in Agents, NEW n \in Nonces, NEW v \in Revisions,
                 create_signed(p, a, n, v)
          PROVE  FinalStep(q)
      BY <3>1, <3>7 DEF create_signed, write_marked
    <3> QED
      BY <2>6, <3>2, <3>3, <3>4, <3>5, <3>6, <3>7 DEF Deciding
  <2>7. CASE Executing
    <3>1. ASSUME NEW p \in Requests,
                 claim_execution(p) \/ execution_started(p) \/ begin_write(p)
          PROVE  FinalStep(q)
      BY <2>2, <2>3, <3>1 DEF claim_execution, execution_started, begin_write
    <3>2. ASSUME NEW p \in Requests, NEW status, NEW cleanup, finish_execution(p, status, cleanup)
          PROVE  FinalStep(q)
      BY <2>2, <2>3, <3>2 DEF finish_execution
    <3> QED
      BY <2>1, <2>7, <3>1, <3>2, RecordWriteFinal, ReconcileFinal DEF Executing
  <2>8. ASSUME NEW recovered \in BOOLEAN,
               state' = state \/ state' = invalidated_state(state, recovered)
        PROVE  FinalStep(q)
    <3>1. invalidated_state(state, recovered).requests[q] =
              IF swept(state.requests[q], recovered)
              THEN invalidated_request(state.requests[q], recovered) ELSE state.requests[q]
      BY <2>1 DEF invalidated_state, FileOK, ProviderState
    <3>2. is_terminal(state.requests[q].status)
              => invalidated_state(state, recovered).requests[q] = state.requests[q]
      BY <2>2, <3>1 DEF swept, is_unexecuted
    <3> QED
      BY <2>8, <3>2, SameIsFinal
  <2>9. CASE lock
    BY <2>8, <2>9, WriteState DEF lock
  <2>10. CASE Crash
    BY <2>10, SameIsFinal DEF Crash
  <2>11. CASE start
    BY <2>8, <2>11 DEF start
  <2> QED
    BY <2>4, <2>5, <2>6, <2>7, <2>9, <2>10, <2>11 DEF Next
<1>2. TypeOK /\ FileValidates /\ [Next]_vars => [\A p \in Requests : FinalStep(p)]_vars
  BY <1>1
<1> QED
  BY <1>2, TypeCorrect, FileAlwaysValidates, PTL DEF Spec, TerminalIsFinal
=============================================================================
