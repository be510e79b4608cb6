--------------------------- MODULE ProviderStore ---------------------------
(***************************************************************************)
(* The provider's durable state and every operation of `Provider' on it.   *)
(* Each operation reads the state file, validates it, computes a new       *)
(* state, validates that too and replaces the file by rename.  The writer  *)
(* of the file is exclusive, so one operation is one step here; what can   *)
(* go wrong is the replacement (write_state_guarded) and the process       *)
(* (Crash), in between any two operations.                                 *)
(*                                                                         *)
(* The write of a state has four outcomes.  It fails before the rename, or *)
(* the still_authorized guard refuses it: the file is as it was, which is  *)
(* a step that changes nothing.  It succeeds.  Or the directory sync fails *)
(* (or the guard refuses) after the rename: the store is poisoned, refuses *)
(* every later read and write of this process, and the next process may    *)
(* find either file.                                                       *)
(***************************************************************************)
EXTENDS RequestRecord

CONSTANTS
    Requests,       \* request identifiers RequestId::new_random may draw
    LabelOf,        \* the label an agent is paired under
    Images,         \* approved execution images
    OpOf,           \* the operation a policy revision is a revision of
    ImageOf,        \* the image a policy revision names
    MaxEpoch        \* where checked_add refuses (u64::MAX in the code)

ASSUME EpochAssumption == MaxEpoch \in Nat
ASSUME PolicyAssumption == ImageOf \in [Revisions -> Images]

VARIABLES
    state,          \* ProviderState, the contents of the state file
    poisoned,       \* ProviderStore.poisoned of the running process
    up,             \* a process holds the writer lock and has recovered
    consumed        \* history: the replay markers the provider ever accepted

vars == <<state, poisoned, up, consumed>>

ProviderState ==
    [lifecycle_epoch      : Nat,
     pairings             : [Agents -> {"None", "Enabled", "Revoked"}],
     agent_audit          : [Agents -> Seq({"Paired", "Revoked"})],
     query_replay_markers : SUBSET (Agents \X Nonces),
     approved_images      : SUBSET Images,
     operations           : SUBSET Revisions,
     requests             : [Requests -> DirectRecord]]

initial ==
    [lifecycle_epoch      |-> 0,
     pairings             |-> [a \in Agents |-> "None"],
     agent_audit          |-> [a \in Agents |-> << >>],
     query_replay_markers |-> {},
     approved_images      |-> {},
     operations           |-> {},
     requests             |-> [id \in Requests |-> Unused]]

-----------------------------------------------------------------------------
(* validate_for_owner: the conditions every read and write checks.         *)

(* The audit of one binding, which validate_registry derives its status from. *)
ExpectedAudit(status) ==
    CASE status = "None" -> << >>
      [] status = "Enabled" -> <<"Paired">>
      [] status = "Revoked" -> <<"Paired", "Revoked">>

validate_registry(s) ==
    /\ \A a, b \in Agents :
            (s.pairings[a] = "Enabled" /\ s.pairings[b] = "Enabled"
                /\ LabelOf[a] = LabelOf[b]) => a = b
    /\ \A a \in Agents : s.agent_audit[a] = ExpectedAudit(s.pairings[a])

validate_operations(s) ==
    /\ \A v, w \in s.operations : OpOf[v] = OpOf[w] => v = w
    /\ \A v \in s.operations : ImageOf[v] \in s.approved_images

validate_replay(s) ==
    \A p \in Requests : LET r == s.requests[p] IN
        used(r) /\ r.nonce # NoNonce =>
            /\ replay_digest(r) \notin s.query_replay_markers
            /\ \A q \in Requests \ {p} :
                    used(s.requests[q]) => replay_digest(s.requests[q]) # replay_digest(r)

(* Unclaimed authority belongs to the current lifecycle epoch.             *)
unclaimed(r) == r.status \in {"Pending", "Approved"} /\ ~r.claimed

validate_request(s, r) ==
    used(r) =>
        /\ r.owner # Human => s.pairings[r.owner] # "None"
        /\ validate_record(r, s.lifecycle_epoch)
        /\ unclaimed(r) => r.epoch = s.lifecycle_epoch

validate(s) ==
    /\ validate_registry(s)
    /\ validate_operations(s)
    /\ validate_replay(s)
    /\ \A p \in Requests : validate_request(s, s.requests[p])

-----------------------------------------------------------------------------
(* Reading and replacing the file.                                         *)

healthy == up /\ ~poisoned

write_state(new) ==
    /\ healthy
    /\ IF validate(new)
       THEN \/ state' = new /\ UNCHANGED poisoned
            \/ state' \in {state, new} /\ poisoned' = TRUE
       ELSE FALSE
    /\ UNCHANGED up

(* A write that accepts a replay marker, when the caller is told so.       *)
write_marked(new, marker) ==
    /\ write_state(new)
    /\ consumed' = IF poisoned' THEN consumed ELSE consumed \cup {marker}

put(p, r) == [state EXCEPT !.requests[p] = r]

agent_current(owner) == owner # Human => state.pairings[owner] = "Enabled"

marker_seen(marker) ==
    \/ marker \in state.query_replay_markers
    \/ \E p \in Requests : used(state.requests[p]) /\ replay_digest(state.requests[p]) = marker

-----------------------------------------------------------------------------
(* Agent registry and provisioning.                                        *)

pair_agent(a) ==
    /\ state.pairings[a] = "None"
    /\ \A b \in Agents : state.pairings[b] = "Enabled" => LabelOf[b] # LabelOf[a]
    /\ write_state([state EXCEPT !.pairings[a] = "Enabled",
                                 !.agent_audit[a] = Append(@, "Paired")])
    /\ UNCHANGED consumed

(* Mutant: the sweep of a revocation overlooks approved requests.          *)
revoked_state_pending_only(s, a) ==
    [s EXCEPT
        !.pairings[a] = "Revoked",
        !.agent_audit[a] = Append(@, "Revoked"),
        !.requests = [p \in Requests |->
            IF s.requests[p].owner = a /\ s.requests[p].status = "Pending"
            THEN transition(s.requests[p], "Expired", "Invalidated")
            ELSE s.requests[p]]]

(* Revocation ends every request of the agent that no execution claimed.   *)
revoked_state(s, a) ==
    [s EXCEPT
        !.pairings[a] = "Revoked",
        !.agent_audit[a] = Append(@, "Revoked"),
        !.requests = [p \in Requests |->
            IF s.requests[p].owner = a /\ unclaimed(s.requests[p])
            THEN transition(s.requests[p], "Expired", "Invalidated")
            ELSE s.requests[p]]]

revoke_agent(a) ==
    /\ state.pairings[a] = "Enabled"
    /\ write_state(revoked_state(state, a))
    /\ UNCHANGED consumed

register_image(image) ==
    /\ image \notin state.approved_images
    /\ write_state([state EXCEPT !.approved_images = @ \cup {image}])
    /\ UNCHANGED consumed

(* upsert_operation_guarded: the operation's previous revision is replaced. *)
provision_operation(v) ==
    /\ ImageOf[v] \in state.approved_images
    /\ write_state([state EXCEPT
            !.operations = {w \in @ : OpOf[w] # OpOf[v]} \cup {v}])
    /\ UNCHANGED consumed

-----------------------------------------------------------------------------
(* Requests until they are decided.                                        *)

create_direct(p, v) ==
    /\ state.requests[p] = Unused
    /\ v \in state.operations
    /\ write_state(put(p, fresh_record(Human, NoNonce, v, state.lifecycle_epoch)))
    /\ UNCHANGED consumed

create_signed(p, a, n, v) ==
    /\ state.requests[p] = Unused
    /\ agent_current(a)
    /\ ~marker_seen(<<a, n>>)
    /\ v \in state.operations
    /\ write_marked(put(p, fresh_record(a, n, v, state.lifecycle_epoch)), <<a, n>>)

consume_status_query(p, a, n) ==
    /\ agent_current(a)
    /\ used(state.requests[p]) /\ state.requests[p].owner = a
    /\ ~marker_seen(<<a, n>>)
    /\ write_marked([state EXCEPT !.query_replay_markers = @ \cup {<<a, n>>}], <<a, n>>)

(* The requests in `elapsed' are past their deadline, or have none.        *)
expired_state(s, elapsed) ==
    [s EXCEPT !.requests = [p \in Requests |->
        IF p \in elapsed /\ unclaimed(s.requests[p])
        THEN transition(s.requests[p], "Expired", "Expired")
        ELSE s.requests[p]]]

expire_direct(elapsed) ==
    /\ \E p \in elapsed : unclaimed(state.requests[p])
    /\ write_state(expired_state(state, elapsed))
    /\ UNCHANGED consumed

fail_direct_launch(p) ==
    /\ state.requests[p].status = "Pending"
    /\ write_state(put(p, transition(state.requests[p], "Expired", "ReviewUnavailable")))
    /\ UNCHANGED consumed

(* prepare_direct, which decide_direct repeats before it decides.          *)
prepare_direct(p) ==
    /\ used(state.requests[p])
    /\ agent_current(state.requests[p].owner)
    /\ state.requests[p].status = "Pending"
    /\ state.requests[p].epoch = state.lifecycle_epoch
    /\ state.requests[p].revision \in state.operations

decide_direct(p, next) ==
    /\ next \in {"Approved", "Denied"}
    /\ prepare_direct(p)
    /\ write_state(put(p, transition(state.requests[p], next, next)))
    /\ UNCHANGED consumed

cancel_unclaimed_execution(p) ==
    /\ state.requests[p].status = "Approved" /\ ~state.requests[p].claimed
    /\ write_state(put(p, transition(state.requests[p], "Expired", "ExecutionUnavailable")))
    /\ UNCHANGED consumed

-----------------------------------------------------------------------------
(* The claimed execution.                                                  *)

(* Mutant: the claim already records Running, before any helper ran.       *)
claim_runs(p) ==
    /\ used(state.requests[p])
    /\ agent_current(state.requests[p].owner)
    /\ state.requests[p].status = "Approved" /\ ~state.requests[p].claimed
    /\ state.requests[p].epoch = state.lifecycle_epoch /\ state.requests[p].approval
    /\ write_state(put(p, transition([state.requests[p] EXCEPT !.claimed = TRUE],
                                     "Running", "Approved")))
    /\ UNCHANGED consumed

claim_execution(p) ==
    /\ used(state.requests[p])
    /\ agent_current(state.requests[p].owner)
    /\ state.requests[p].status = "Approved" /\ ~state.requests[p].claimed
    /\ state.requests[p].epoch = state.lifecycle_epoch /\ state.requests[p].approval
    /\ write_state(put(p, [state.requests[p] EXCEPT !.claimed = TRUE]))
    /\ UNCHANGED consumed

execution_started(p) ==
    /\ state.requests[p].claimed /\ state.requests[p].approval
    /\ state.requests[p].status = "Approved"
    /\ write_state(put(p, transition(state.requests[p], "Running", "Approved")))
    /\ UNCHANGED consumed

(* Mutant: an earlier attempt at the destination is not looked for.        *)
begin_write_blind(p) ==
    LET r == state.requests[p] IN
    /\ r.claimed /\ r.approval /\ r.status = "Running" /\ r.receipt = NoReceipt
    /\ Destination(r) # NoDestination
    /\ write_state(put(p, [r EXCEPT !.receipt = [item |-> NoItem, status |-> "Uncertain"]]))
    /\ UNCHANGED consumed

(* Persisted before the POST: the attempt, not its result.                 *)
begin_write(p) ==
    LET r == state.requests[p] IN
    /\ r.claimed /\ r.approval /\ r.status = "Running" /\ r.receipt = NoReceipt
    /\ Destination(r) # NoDestination
    /\ \A q \in Requests \ {p} :
            state.requests[q].receipt # NoReceipt
                => Destination(state.requests[q]) # Destination(r)
    /\ write_state(put(p, [r EXCEPT !.receipt = [item |-> NoItem, status |-> "Uncertain"]]))
    /\ UNCHANGED consumed

(* What run_execution records of the POST: an item and then its            *)
(* verification, or a refusal that names none.                             *)
WriteResults(old) ==
    CASE old = [item |-> NoItem, status |-> "Uncertain"] ->
            [item : Items, status : {"CreatedUnverified"}]
                \cup [item : {NoItem}, status : {"Failed", "Uncertain"}]
      [] old.status = "CreatedUnverified" -> {[old EXCEPT !.status = "Verified"]}
      [] OTHER -> {}

record_write(p, receipt) ==
    LET r == state.requests[p] IN
    /\ r.receipt # NoReceipt
    /\ r.receipt.item # NoItem => receipt.item = r.receipt.item
    /\ write_state(put(p, [r EXCEPT !.receipt = receipt]))
    /\ UNCHANGED consumed

finish_execution(p, status, cleanup) ==
    LET r == state.requests[p] IN
    /\ cleanup # "Uncertain"
    /\ status \in {"Completed"} \cup FailedStatus
    /\ r.claimed /\ r.approval /\ r.status \in {"Approved", "Running"}
    /\ ~(r.status = "Running" /\ cleanup = "NotStarted")
    /\ status = "Completed" => cleanup \in {"Reaped", "Detached"} /\ r.status = "Running"
    /\ write_state(put(p, transition(r, status,
            IF status = "Completed" THEN "Approved" ELSE "ExecutionUnavailable")))
    /\ UNCHANGED consumed

(* The administrator names the item a terminal request turned out to write. *)
reconciled(r, item) ==
    LET receipt == [item |-> item,
                    status |-> IF r.receipt.status = "Verified" THEN "Verified"
                               ELSE "CreatedUnverified"]
        next == [r EXCEPT !.receipt = receipt]
    IN  [next EXCEPT !.audit = Append(@, snapshot(next, "Reconciled", r.status))]

is_reconciled(r) == r.audit # << >> /\ r.audit[Len(r.audit)].outcome = "Reconciled"

reconcile_write(p, item) ==
    LET r == state.requests[p] IN
    /\ is_terminal(r.status)
    /\ r.receipt # NoReceipt
    /\ r.receipt.item \in {NoItem, item}
    /\ ~is_reconciled(r)
    /\ write_state(put(p, reconciled(r, item)))
    /\ UNCHANGED consumed

-----------------------------------------------------------------------------
(* Lock, crash and recovery.                                               *)

swept(r, recovered) ==
    is_unexecuted(r.status) /\ (recovered \/ ~(r.claimed \/ r.status = "Running"))

invalidated_request(r, recovered) ==
    transition(r,
        IF r.status = "Running" \/ r.claimed THEN "FailedLost" ELSE "Expired",
        IF recovered THEN "Recovered" ELSE "Invalidated")

invalidated_state(s, recovered) ==
    [s EXCEPT
        !.lifecycle_epoch = @ + 1,
        !.requests = [p \in Requests |->
            IF swept(s.requests[p], recovered)
            THEN invalidated_request(s.requests[p], recovered)
            ELSE s.requests[p]]]

(* Mutant: the epoch is incremented without checked_add.                   *)
lock_unchecked == write_state(invalidated_state(state, FALSE)) /\ UNCHANGED consumed

lock ==
    /\ state.lifecycle_epoch < MaxEpoch
    /\ write_state(invalidated_state(state, FALSE))
    /\ UNCHANGED consumed

Crash ==
    /\ up
    /\ up' = FALSE /\ poisoned' = FALSE
    /\ UNCHANGED <<state, consumed>>

(* start_with_cleanup: read, invalidate_recovered, and only then serve.    *)
start ==
    /\ ~up
    /\ state.lifecycle_epoch < MaxEpoch
    /\ LET new == invalidated_state(state, TRUE) IN
        IF validate(state) /\ validate(new)
        THEN \/ state' = new /\ up' = TRUE
             \/ state' \in {state, new} /\ up' = FALSE
        ELSE FALSE
    /\ UNCHANGED <<poisoned, consumed>>

-----------------------------------------------------------------------------
CleanupEvidence == {"NotStarted", "Reaped", "Detached", "Uncertain"}

Init ==
    /\ state = initial
    /\ poisoned = FALSE
    /\ up = FALSE
    /\ consumed = {}

Registry ==
    \/ \E a \in Agents : pair_agent(a) \/ revoke_agent(a)
    \/ \E image \in Images : register_image(image)
    \/ \E v \in Revisions : provision_operation(v)

Deciding ==
    \/ \E p \in Requests, v \in Revisions : create_direct(p, v)
    \/ \E p \in Requests, a \in Agents, n \in Nonces, v \in Revisions :
            create_signed(p, a, n, v)
    \/ \E p \in Requests, a \in Agents, n \in Nonces : consume_status_query(p, a, n)
    \/ \E elapsed \in SUBSET Requests : expire_direct(elapsed)
    \/ \E p \in Requests : fail_direct_launch(p) \/ cancel_unclaimed_execution(p)
    \/ \E p \in Requests, next \in {"Approved", "Denied"} : decide_direct(p, next)

Executing ==
    \/ \E p \in Requests : claim_execution(p) \/ execution_started(p) \/ begin_write(p)
    \/ \E p \in Requests : \E receipt \in WriteResults(state.requests[p].receipt) :
            record_write(p, receipt)
    \/ \E p \in Requests, status \in {"Completed"} \cup FailedStatus,
            cleanup \in CleanupEvidence : finish_execution(p, status, cleanup)
    \/ \E p \in Requests, item \in Items : reconcile_write(p, item)

Next == Registry \/ Deciding \/ Executing \/ lock \/ Crash \/ start

Spec == Init /\ [][Next]_vars

-----------------------------------------------------------------------------
(* Properties.                                                             *)

(* The durable state has its type, and the lifecycle epoch never passes the *)
(* value at which checked_add refuses to count (provider_store.rs invalidate). *)
TypeOK ==
    /\ state \in ProviderState
    /\ state.lifecycle_epoch <= MaxEpoch
    /\ poisoned \in BOOLEAN /\ up \in BOOLEAN
    /\ consumed \subseteq Agents \X Nonces

(* Every read of the state file validates it, so a file that does not      *)
(* validate locks the owner out for good: no later lock, recovery or start *)
(* can replace it.  The file always validates (read_state), whatever the   *)
(* crashes and the failed directory syncs.                                 *)
FileValidates == validate(state)

(* The operations that END authority are never refused by the store's own  *)
(* validation: from every reachable state, lock, start-up recovery, expiry, *)
(* revocation and the failure of a claimed execution are legal transitions *)
(* to a state that validates (the audit has room, the receipts and epochs  *)
(* agree), and so does the reconciliation of a write.                      *)
EndingIsNeverRefused ==
    /\ \A recovered \in BOOLEAN :
        /\ \A p \in Requests : swept(state.requests[p], recovered) =>
                legal(state.requests[p], invalidated_request(state.requests[p], recovered).status)
        /\ validate(invalidated_state(state, recovered))
    /\ \A a \in Agents : state.pairings[a] = "Enabled" => validate(revoked_state(state, a))
    /\ \A elapsed \in SUBSET Requests : validate(expired_state(state, elapsed))
    /\ \A p \in Requests : LET r == state.requests[p] IN
        /\ r.claimed /\ is_unexecuted(r.status) =>
                /\ legal(r, "FailedUnavailable")
                /\ validate(put(p, transition(r, "FailedUnavailable", "ExecutionUnavailable")))
        /\ \A item \in Items :
                is_terminal(r.status) /\ r.receipt # NoReceipt /\ ~is_reconciled(r)
                    /\ r.receipt.item \in {NoItem, item} => validate(put(p, reconciled(r, item)))

(* Once revoke_agent has replaced the file, no unclaimed request of the    *)
(* agent is pending or approved, then or ever after: the sweep leaves none *)
(* behind and nothing the agent submitted can be decided or claimed again. *)
RevokedAgentHoldsNothing ==
    \A p \in Requests, a \in Agents :
        state.pairings[a] = "Revoked" /\ state.requests[p].owner = a
            => ~unclaimed(state.requests[p])

(* "no prior attempt for the destination can be replayed" (begin_write):   *)
(* two requests that ever attempted a write never share a destination.     *)
OneAttemptPerDestination ==
    \A p, q \in Requests :
        /\ state.requests[p].receipt # NoReceipt
        /\ state.requests[q].receipt # NoReceipt
        /\ Destination(state.requests[p]) = Destination(state.requests[q])
        => p = q

(* A nonce the provider accepted stays spent through every terminal status, *)
(* crash and recovery: its marker is still in the file, so that neither a  *)
(* submission nor a status query can use it a second time.                 *)
AcceptedNonceStaysSpent == \A marker \in consumed : marker_seen(marker)

(* A terminal request is final: nothing changes it but the one             *)
(* reconciliation event, which keeps its status and, if the write named an *)
(* item, that item.                                                        *)
FinalStep(p) ==
    LET r == state.requests[p] IN
    is_terminal(r.status) /\ state'.requests[p] # r =>
        /\ ~is_reconciled(r) /\ is_reconciled(state'.requests[p])
        /\ state'.requests[p].status = r.status
        /\ SubSeq(state'.requests[p].audit, 1, Len(r.audit)) = r.audit
        /\ r.receipt.item # NoItem => state'.requests[p].receipt.item = r.receipt.item
TerminalIsFinal == [][\A p \in Requests : FinalStep(p)]_vars

(* The durable records implement the one-time approval, where a use is the *)
(* execution_started that follows a claim: no crash, recovery, lock, failed *)
(* directory sync or expiry lets a request be approved or started twice.   *)
execution_recorded(r) == \E i \in 1..Len(r.audit) : r.audit[i].outcome = "ExecutionStarted"
Approval == INSTANCE OneTimeApproval WITH
    phase <- [p \in Requests |-> LET r == state.requests[p] IN
                CASE r.status = "Unused" -> "None"
                  [] is_terminal(r.status) -> "Ended"
                  [] is_unexecuted(r.status) /\ r.claimed -> "Spent"
                  [] OTHER -> r.status],
    uses <- [p \in Requests |-> IF execution_recorded(state.requests[p]) THEN 1 ELSE 0]
ImplementsOneTimeApproval == Approval!Spec
=============================================================================
