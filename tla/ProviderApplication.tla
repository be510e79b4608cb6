------------------------ MODULE ProviderApplication ------------------------
(***************************************************************************)
(* The provider process: one execution worker, the threads that lock,      *)
(* cancel and revoke, the human's desk (unlock, submit, approve, poll) and *)
(* time, over the durable store of ProviderStore.                          *)
(*                                                                         *)
(* Two mutexes order them: `gate' guards Authority (the session and the    *)
(* store) and may be held across slow backend calls; `release_gate' is     *)
(* short and guards only the publication of a revocation against the one   *)
(* instant at which a consumer is released or a secret is posted.  The     *)
(* question is whether a lock, cancel or revoke that has returned can      *)
(* still be followed by a release, whatever the interleaving, and whether  *)
(* it always returns.                                                      *)
(*                                                                         *)
(* Abstractions.  Counters compared only for equality are kept as the      *)
(* truth of that equality: `current' (a record's lifecycle_epoch is the    *)
(* store's), w.stale (revocation_epoch moved since the worker loaded it),  *)
(* `published' (it moved since the session began), `prepared' (approvals   *)
(* of the current generation).  A deadline is Live until it Elapses, in    *)
(* any order.  Audit, receipts and replay are ProviderStore's; a terminal  *)
(* status other than Completed is "Ended" here.                            *)
(***************************************************************************)
EXTENDS Integers, Sequences, FiniteSets

CONSTANTS
    Requests,       \* request identifiers
    Agents,         \* paired agents
    Human,
    OwnerOf,        \* who submits a request
    Producers,      \* requests whose policy has a create effect
    Controllers,    \* threads that lock, cancel or revoke
    QueueCapacity,  \* EXECUTION_QUEUE_CAPACITY
    Faults          \* whether store writes, backend clears and crashes happen

ASSUME OwnerAssumption == Human \notin Agents /\ OwnerOf \in [Requests -> Agents \cup {Human}]
ASSUME ProducerAssumption == Producers \subseteq Requests
ASSUME CapacityAssumption == QueueCapacity \in Nat \ {0}
ASSUME FaultsAssumption == Faults \in BOOLEAN
ASSUME ControllerAssumption == Controllers \cap {"free", "worker"} = {}

VARIABLES
    store,              \* durable: requests, write attempts, revoked agents
    poisoned,           \* ProviderStore.poisoned
    auth,               \* Authority: session, cleanup_failed, limits, prepared
    gate, release_gate, \* who holds each mutex across steps
    closing,            \* admission closed for the rest of the process
    cleanup_uncertain,
    published,          \* revocation_epoch # session_epoch
    denied,             \* agents whose token is set
    executions,         \* registered executions
    cancel,             \* executions whose cancel flag is set
    undispatched, queue, \* approved but not yet sent, and the worker's channel
    w,                  \* the worker: pc, request, stale, elapsed, report
    ctl,                \* the controllers: pc, op, subject, affected, ok
    consumer,           \* what runs outside the provider for a request
    released, posted,   \* history: consumers released, secrets posted
    settled             \* history: requests a returned cancel, lock or revoke covers

durable == <<store, poisoned>>
flags == <<closing, cleanup_uncertain, published, denied>>
work == <<executions, cancel, undispatched, queue>>
world == <<consumer, released, posted, settled>>
vars == <<durable, auth, gate, release_gate, flags, work, w, ctl, world>>

Free == "free"
Worker == "worker"

-----------------------------------------------------------------------------
(* The durable store, as ProviderStore promises it.                        *)

Unclaimed(q) == q.status \in {"Pending", "Approved"} /\ ~q.claimed
Executing(q) == q.claimed /\ q.status \in {"Approved", "Running"}
Terminal(q) == q.status \in {"Completed", "Ended"}
ended(q) == [q EXCEPT !.status = "Ended", !.current = FALSE]
set_request(r, q) == [store EXCEPT !.requests[r] = q]

(* Provider::lock: a new lifecycle epoch, unclaimed requests expire.       *)
lock_store(s) ==
    [s EXCEPT !.requests = [r \in Requests |->
        IF Unclaimed(s.requests[r]) THEN ended(s.requests[r])
        ELSE [s.requests[r] EXCEPT !.current = FALSE]]]

(* expire_direct: unclaimed requests whose deadline is gone or elapsed.    *)
expire_store(s, limits) ==
    [s EXCEPT !.requests = [r \in Requests |->
        IF Unclaimed(s.requests[r]) /\ limits[r] # "Live" THEN ended(s.requests[r])
        ELSE s.requests[r]]]

(* Mutant: recovery hands a claimed approval back.                         *)
recover_store_revives(s) ==
    [s EXCEPT !.requests = [r \in Requests |-> [s.requests[r] EXCEPT !.claimed = FALSE]]]

(* invalidate_recovered of the next process.                               *)
recover_store(s) ==
    [s EXCEPT !.requests = [r \in Requests |->
        IF s.requests[r].status \in {"Pending", "Approved", "Running"}
        THEN ended(s.requests[r]) ELSE [s.requests[r] EXCEPT !.current = FALSE]]]

(* write_state_guarded succeeds, or it fails and the caller knows no more. *)
wrote(new) == ~poisoned /\ store' = new /\ UNCHANGED poisoned
write_failed(new) ==
    \/ poisoned /\ UNCHANGED durable
    \/ Faults /\ ~poisoned /\ store' = store /\ poisoned' \in BOOLEAN
    \/ Faults /\ ~poisoned /\ store' = new /\ poisoned' = TRUE
(* The guard of the write refuses after the rename: authority lapsed in    *)
(* between, with no fault at all, and the store is poisoned.               *)
lapsed(new) == ~poisoned /\ store' = new /\ poisoned' = TRUE

agent_enabled(r) == OwnerOf[r] # Human => OwnerOf[r] \notin store.revoked
token_live(r) == OwnerOf[r] # Human => OwnerOf[r] \notin denied

-----------------------------------------------------------------------------
(* Authority, under the gate.                                              *)

cleared(failed) ==
    [session |-> "None", cleanup_failed |-> failed,
     limits |-> [r \in Requests |-> "None"], prepared |-> {}]

(* revoke: memory first, then the backend and the store, either may fail.  *)
revoke_done == auth' = cleared(FALSE) /\ wrote(lock_store(store))
revoke_failed ==
    /\ auth' = cleared(TRUE)
    /\ \/ Faults /\ wrote(lock_store(store))
       \/ write_failed(lock_store(store))
revoke == revoke_done \/ revoke_failed

admitted == ~closing /\ auth.session = "Live"

live_limits == [r \in Requests |-> IF auth.limits[r] = "Live" THEN "Live" ELSE "None"]

expire_requests ==
    \/ /\ wrote(expire_store(store, auth.limits))
       /\ auth' = [auth EXCEPT !.limits = live_limits]
    \/ write_failed(expire_store(store, auth.limits)) /\ UNCHANGED auth

(* What admit and execution_live leave behind when they refuse.            *)
admit_refused ==
    IF closing \/ auth.session = "Elapsed" THEN revoke ELSE UNCHANGED <<durable, auth>>
execution_refused(r) ==
    IF admitted /\ token_live(r) /\ auth.limits[r] # "Live" THEN expire_requests
    ELSE admit_refused

execution_live(r) == admitted /\ token_live(r) /\ auth.limits[r] = "Live"
execution_live_current(r) == execution_live(r) /\ ~w.stale

(* execution_delivery: the approval as the store has it now.               *)
execution_delivery(r, statuses) ==
    /\ ~poisoned /\ agent_enabled(r)
    /\ store.requests[r].current /\ store.requests[r].status \in statuses

(* ApplicationExecution, the worker's control handle.                      *)
live_fast(r) ==
    /\ r \notin cancel /\ token_live(r)
    /\ ~closing /\ ~w.stale /\ ~w.elapsed
execution_matches(r) ==
    /\ ~poisoned /\ agent_enabled(r)
    /\ store.requests[r].current /\ Executing(store.requests[r])
live(r) == live_fast(r) /\ gate = Free /\ execution_matches(r)
not_live(r) == ~live_fast(r) \/ (gate = Free /\ ~execution_matches(r))

close_admission == release_gate = Free /\ closing' = TRUE

-----------------------------------------------------------------------------
(* The desk: handlers that hold the gate for one step.                     *)

desk == UNCHANGED <<gate, release_gate, cleanup_uncertain, denied, executions, cancel, w, ctl,
                    world>>

(* ApprovalAuthenticator::authenticate: a new session revokes the old one. *)
authenticate ==
    /\ gate = Free /\ ~closing /\ ~auth.cleanup_failed
    /\ \/ /\ wrote(lock_store(store))
          /\ auth' = [cleared(FALSE) EXCEPT !.session = "Live"]
          /\ published' = FALSE
       \/ revoke /\ UNCHANGED published
    /\ desk /\ UNCHANGED <<closing, undispatched, queue>>

(* status and every other handler that only admits and expires; also every *)
(* submission, preparation or decision that admission refuses.             *)
poll ==
    /\ gate = Free
    /\ IF admitted THEN expire_requests
       ELSE IF closing \/ auth.session = "Elapsed" THEN revoke ELSE expire_requests
    /\ desk /\ UNCHANGED <<closing, published, undispatched, queue>>

(* submit_owned by the human, submit_signed by an agent; the review may    *)
(* fail to open (fail_direct_launch).                                      *)
submit(r) ==
    /\ gate = Free /\ admitted
    /\ store.requests[r].status = "None"
    /\ OwnerOf[r] # Human =>
            ~published /\ release_gate = Free /\ token_live(r) /\ agent_enabled(r)
    /\ LET new == expire_store(set_request(r,
                    [status |-> "Pending", claimed |-> FALSE, current |-> TRUE]),
                    [auth.limits EXCEPT ![r] = "Live"])
           unopened == [new EXCEPT !.requests[r] = ended(@)]
           recorded == auth' = [auth EXCEPT !.limits = [live_limits EXCEPT ![r] = "Live"]]
       IN  \/ (wrote(new) \/ wrote(unopened)) /\ recorded /\ UNCHANGED closing
           \/ (write_failed(new) \/ lapsed(new)) /\ close_admission /\ UNCHANGED auth
           \/ /\ Faults /\ ~poisoned /\ store' \in {new, unopened} /\ poisoned' = TRUE
              /\ recorded /\ closing' = (OwnerOf[r] # Human)
    /\ desk /\ UNCHANGED <<published, undispatched, queue>>

prepare_approval(r) ==
    /\ gate = Free /\ admitted /\ token_live(r)
    /\ store.requests[r].status = "Pending" /\ store.requests[r].current
    /\ agent_enabled(r) /\ auth.limits[r] = "Live"
    /\ wrote(expire_store(store, auth.limits))
    /\ auth' = [auth EXCEPT !.prepared = @ \cup {r}, !.limits = live_limits]
    /\ desk /\ UNCHANGED <<closing, published, undispatched, queue>>

(* commit_decision, after the password or biometric check of the prepared  *)
(* approval, which holds no lock.  A failed write closes admission and     *)
(* revokes the session in the same handler.                                *)
commit_decision(r, next) ==
    /\ gate = Free /\ admitted /\ r \in auth.prepared
    /\ OwnerOf[r] # Human => release_gate = Free
    /\ token_live(r) /\ agent_enabled(r) /\ auth.limits[r] = "Live"
    /\ store.requests[r].status = "Pending" /\ store.requests[r].current
    /\ LET new == expire_store(set_request(r, IF next = "Approved"
                        THEN [store.requests[r] EXCEPT !.status = "Approved"]
                        ELSE ended(store.requests[r])), auth.limits)
       IN  \/ /\ wrote(new)
              /\ auth' = [auth EXCEPT !.prepared = @ \ {r}, !.limits = live_limits]
              /\ undispatched' = IF next = "Approved" THEN undispatched \cup {r}
                                 ELSE undispatched
              /\ UNCHANGED closing
           \/ /\ \/ (write_failed(new) \/ lapsed(new)) /\ poisoned' /\ auth' = cleared(TRUE)
                 \/ Faults /\ ~poisoned /\ revoke
              /\ close_admission /\ UNCHANGED undispatched
    /\ desk /\ UNCHANGED <<published, queue>>

(* Mutant: the channel to the worker is unbounded.                         *)
dispatch_unbounded(r) ==
    /\ r \in undispatched
    /\ undispatched' = undispatched \ {r} /\ queue' = Append(queue, r)
    /\ desk /\ UNCHANGED <<durable, auth, published, closing>>

(* Dispatch::dispatch; a full queue closes admission.                      *)
dispatch(r) ==
    /\ r \in undispatched
    /\ undispatched' = undispatched \ {r}
    /\ \/ Len(queue) < QueueCapacity /\ queue' = Append(queue, r) /\ UNCHANGED closing
       \/ Len(queue) >= QueueCapacity /\ close_admission /\ UNCHANGED queue
    /\ desk /\ UNCHANGED <<durable, auth, published>>

-----------------------------------------------------------------------------
(* Controllers: lock, shutdown, cancel_execution, revoke_agent.            *)

IdleCtl == [pc |-> "idle", op |-> "none", subject |-> Human, affected |-> {}, ok |-> TRUE]
step(c, pc) == ctl' = [ctl EXCEPT ![c].pc = pc]
return(c) == ctl' = [ctl EXCEPT ![c] = IdleCtl]
steady == UNCHANGED <<undispatched, queue, consumer, released, posted>>

(* Which registered executions a controller waits for.                     *)
awaited(c) == IF ctl[c].op = "lock" THEN executions ELSE executions \cap ctl[c].affected

(* The requests whose authority has ended once the operation returns Ok.   *)
promised(c) ==
    IF ctl[c].op = "revoke" THEN {r \in Requests : OwnerOf[r] = ctl[c].subject}
    ELSE ctl[c].affected

call_lock(c) ==
    /\ ctl[c].pc = "idle"
    /\ ctl' = [ctl EXCEPT ![c] = [IdleCtl EXCEPT !.pc = "publish", !.op = "lock"]]
    /\ UNCHANGED <<durable, auth, gate, release_gate, flags, executions, cancel, w, settled>>
    /\ steady

(* shutdown closes admission before it locks.                              *)
call_shutdown(c) ==
    /\ ctl[c].pc = "idle" /\ close_admission
    /\ ctl' = [ctl EXCEPT ![c] = [IdleCtl EXCEPT !.pc = "publish", !.op = "lock"]]
    /\ UNCHANGED <<durable, auth, gate, release_gate, cleanup_uncertain, published, denied,
                   executions, cancel, w, settled>>
    /\ steady

publish_lock(c) ==
    /\ ctl[c].pc = "publish" /\ release_gate = Free
    /\ published' = TRUE
    /\ w' = [w EXCEPT !.stale = w.pc # "idle"]
    /\ step(c, "revoke")
    /\ UNCHANGED <<durable, auth, gate, release_gate, closing, cleanup_uncertain, denied,
                   executions, cancel, settled>>
    /\ steady

lock_revokes(c) ==
    /\ ctl[c].pc = "revoke" /\ gate = Free
    /\ \E done \in BOOLEAN :
        /\ IF done THEN revoke_done ELSE revoke_failed
        /\ ctl' = [ctl EXCEPT ![c].pc = "await", ![c].ok = done,
                    ![c].affected = {r \in Requests : store.requests[r].status # "None"}]
    /\ UNCHANGED <<gate, release_gate, flags, executions, cancel, w, settled>>
    /\ steady

(* First look: an execution already registered is only flagged.            *)
call_cancel(c, r) ==
    /\ ctl[c].pc = "idle" /\ release_gate = Free
    /\ cancel' = cancel \cup ({r} \cap executions)
    /\ ctl' = [ctl EXCEPT ![c] = [IdleCtl EXCEPT
                    !.pc = IF r \in executions THEN "await" ELSE "cancel_gate",
                    !.op = "cancel", !.subject = r, !.affected = {r}]]
    /\ UNCHANGED <<durable, auth, gate, release_gate, flags, executions, w, settled>>
    /\ steady

cancel_takes_gate(c) ==
    /\ ctl[c].pc = "cancel_gate" /\ gate = Free
    /\ gate' = c
    /\ step(c, "cancel_recheck")
    /\ UNCHANGED <<durable, auth, release_gate, flags, executions, cancel, w, settled>>
    /\ steady

(* Mutant: a cancellation of an unclaimed approval is not persisted.       *)
cancel_rechecks_memory_only(c) ==
    /\ ctl[c].pc = "cancel_recheck" /\ release_gate = Free
    /\ gate' = Free
    /\ cancel' = cancel \cup {ctl[c].subject} /\ step(c, "await")
    /\ UNCHANGED <<durable, closing, auth, release_gate, cleanup_uncertain, published, denied,
                   executions, w, settled>>
    /\ steady

(* Second look, under both mutexes: claimed meanwhile, or still unclaimed. *)
cancel_rechecks(c) ==
    /\ ctl[c].pc = "cancel_recheck" /\ release_gate = Free
    /\ gate' = Free
    /\ LET r == ctl[c].subject
           unclaimed == store.requests[r].status = "Approved" /\ ~store.requests[r].claimed
           new == set_request(r, ended(store.requests[r]))
       IN  \/ /\ r \in executions
              /\ cancel' = cancel \cup {r} /\ step(c, "await")
              /\ UNCHANGED <<durable, closing>>
           \/ /\ r \notin executions /\ unclaimed /\ wrote(new)
              /\ step(c, "await") /\ UNCHANGED <<cancel, closing>>
           \/ /\ r \notin executions /\ (unclaimed \/ poisoned) /\ write_failed(new)
              /\ closing' = TRUE /\ return(c) /\ UNCHANGED cancel
           \/ /\ r \notin executions /\ ~unclaimed /\ ~poisoned
              /\ return(c) /\ UNCHANGED <<durable, cancel, closing>>
    /\ UNCHANGED <<auth, release_gate, cleanup_uncertain, published, denied, executions, w,
                   settled>>
    /\ steady

(* The token is denied before the gate is waited for.                      *)
call_revoke(c, a) ==
    /\ ctl[c].pc = "idle" /\ release_gate = Free
    /\ denied' = denied \cup {a}
    /\ ctl' = [ctl EXCEPT ![c] = [IdleCtl EXCEPT
                    !.pc = "revoke_store", !.op = "revoke", !.subject = a]]
    /\ UNCHANGED <<durable, auth, gate, release_gate, closing, cleanup_uncertain, published,
                   executions, cancel, w, settled>>
    /\ steady

(* Mutant: the agent's running executions are waited for, not cancelled.   *)
revoke_store_unflagged(c) ==
    /\ ctl[c].pc = "revoke_store" /\ gate = Free
    /\ wrote([store EXCEPT !.revoked = @ \cup {ctl[c].subject}])
    /\ ctl' = [ctl EXCEPT ![c].pc = "await",
                    ![c].affected = {r \in executions : OwnerOf[r] = ctl[c].subject}]
    /\ UNCHANGED <<closing, cancel, auth, gate, release_gate, cleanup_uncertain, published,
                   denied, executions, w, settled>>
    /\ steady

(* The executions registered now are the ones flagged and waited for.      *)
revoke_store(c) ==
    /\ ctl[c].pc = "revoke_store" /\ gate = Free
    /\ LET a == ctl[c].subject
           affected == {r \in executions : OwnerOf[r] = a}
           new == [store EXCEPT
                    !.revoked = @ \cup {a},
                    !.requests = [r \in Requests |->
                        IF OwnerOf[r] = a /\ Unclaimed(@[r]) THEN ended(@[r]) ELSE @[r]]]
       IN  /\ \E done \in BOOLEAN :
                /\ IF done THEN wrote(new) /\ UNCHANGED closing
                   ELSE write_failed(new) /\ close_admission
                /\ ctl' = [ctl EXCEPT ![c].pc = "await", ![c].ok = done,
                                      ![c].affected = affected]
           /\ cancel' = cancel \cup affected
    /\ UNCHANGED <<auth, gate, release_gate, cleanup_uncertain, published, denied, executions, w,
                   settled>>
    /\ steady

(* await_cleanup and await_agent_cleanup return.                           *)
await_done(c) ==
    /\ ctl[c].pc = "await" /\ awaited(c) = {}
    /\ LET uncertain == cleanup_uncertain \/ (ctl[c].op = "revoke" /\ closing) IN
        /\ IF uncertain THEN close_admission ELSE UNCHANGED closing
        /\ settled' = IF ctl[c].ok /\ ~uncertain THEN settled \cup promised(c) ELSE settled
    /\ return(c)
    /\ UNCHANGED <<durable, auth, gate, release_gate, cleanup_uncertain, published, denied,
                   executions, cancel, w>>
    /\ steady

(* ... or the 20 seconds pass.                                             *)
await_times_out(c) ==
    /\ ctl[c].pc = "await" /\ awaited(c) # {}
    /\ close_admission
    /\ return(c)
    /\ UNCHANGED <<durable, auth, gate, release_gate, cleanup_uncertain, published, denied,
                   executions, cancel, w, settled>>
    /\ steady

-----------------------------------------------------------------------------
(* The worker: run_execution and the supervisor it drives.                 *)

IdleWorker == [pc |-> "idle", r |-> Human, stale |-> FALSE, elapsed |-> FALSE,
               report |-> "none"]
goto(pc) == w' = [w EXCEPT !.pc = pc]
reported(report) == w' = [w EXCEPT !.pc = "finish", !.report = report]

calm == UNCHANGED <<cleanup_uncertain, published, denied, undispatched, ctl, settled>>
idle_world == UNCHANGED <<consumer, released, posted>>

(* Receive an identifier and load revocation_epoch, before any mutex.      *)
take ==
    /\ w.pc = "idle" /\ queue # << >>
    /\ queue' = Tail(queue)
    /\ w' = [IdleWorker EXCEPT !.pc = "enter", !.r = Head(queue)]
    /\ UNCHANGED <<durable, auth, gate, release_gate, closing, executions, cancel>>
    /\ calm /\ idle_world

(* ProcessSupervisor::available is false: the request is dropped.          *)
take_unavailable ==
    /\ w.pc = "idle" /\ queue # << >> /\ Faults
    /\ queue' = Tail(queue) /\ close_admission
    /\ UNCHANGED <<durable, auth, gate, release_gate, executions, cancel, w>>
    /\ calm /\ idle_world

enter ==
    /\ w.pc = "enter" /\ gate = Free
    /\ \/ /\ execution_live_current(w.r)
          /\ gate' = Worker /\ goto("claim") /\ UNCHANGED <<durable, auth>>
       \/ /\ ~execution_live_current(w.r)
          /\ execution_refused(w.r) /\ w' = IdleWorker /\ UNCHANGED gate
    /\ UNCHANGED <<release_gate, closing, executions, cancel, queue>>
    /\ calm /\ idle_world

(* claim_execution under the gate, an agent's under release_gate too.  Its *)
(* guard is checked before the rename ...                                  *)
claim_live(r) == token_live(r) /\ ~closing /\ ~w.stale /\ ~w.elapsed
claimable(r) ==
    /\ ~poisoned /\ agent_enabled(r) /\ claim_live(r)
    /\ store.requests[r].status = "Approved" /\ ~store.requests[r].claimed
    /\ store.requests[r].current
claim_holds(r) == OwnerOf[r] # Human

claim ==
    /\ w.pc = "claim"
    /\ claim_holds(w.r) => release_gate = Free
    /\ \/ /\ claimable(w.r) /\ goto("claim_sync")
          /\ release_gate' = IF claim_holds(w.r) THEN Worker ELSE release_gate
          /\ UNCHANGED gate
       \/ /\ ~claimable(w.r) \/ Faults
          /\ gate' = Free /\ w' = IdleWorker /\ UNCHANGED release_gate
    /\ UNCHANGED <<durable, auth, closing, executions, cancel, queue>>
    /\ calm /\ idle_world

(* Mutant: the execution is claimed but not registered.                    *)
claim_synced_unregistered ==
    /\ w.pc = "claim_sync"
    /\ gate' = Free /\ release_gate' = IF claim_holds(w.r) THEN Free ELSE release_gate
    /\ wrote(set_request(w.r, [store.requests[w.r] EXCEPT !.claimed = TRUE]))
    /\ goto("prepare")
    /\ UNCHANGED <<auth, closing, executions, cancel, queue>>
    /\ calm /\ idle_world

(* ... and after it: the claim stands and the execution is registered, or  *)
(* the store is poisoned and nobody is told.                               *)
claim_synced ==
    /\ w.pc = "claim_sync"
    /\ gate' = Free /\ release_gate' = IF claim_holds(w.r) THEN Free ELSE release_gate
    /\ LET new == set_request(w.r, [store.requests[w.r] EXCEPT !.claimed = TRUE]) IN
        \/ /\ claim_live(w.r) /\ wrote(new)
           /\ executions' = executions \cup {w.r} /\ cancel' = cancel \ {w.r}
           /\ goto("prepare")
        \/ /\ ~claim_live(w.r) \/ Faults
           /\ store' \in {store, new} /\ poisoned' = TRUE
           /\ w' = IdleWorker /\ UNCHANGED <<executions, cancel>>
    /\ UNCHANGED <<auth, closing, queue>>
    /\ calm /\ idle_world

(* The image is prepared with no mutex held, then the backend resolves the *)
(* credentials with the gate held across its calls.                        *)
prepare ==
    /\ w.pc = "prepare" /\ gate = Free
    /\ \/ /\ execution_live_current(w.r) /\ execution_delivery(w.r, {"Approved"})
          /\ gate' = Worker /\ goto("resolve") /\ UNCHANGED <<durable, auth>>
       \/ /\ execution_refused(w.r) /\ ~execution_live_current(w.r)
          /\ reported("not_started") /\ UNCHANGED gate
       \/ reported("not_started") /\ UNCHANGED <<durable, auth, gate>>
    /\ UNCHANGED <<release_gate, closing, executions, cancel, queue>>
    /\ calm /\ idle_world

resolve ==
    /\ w.pc = "resolve"
    /\ gate' = Free
    /\ \/ /\ execution_live_current(w.r) /\ execution_delivery(w.r, {"Approved"})
          /\ goto("launch") /\ UNCHANGED <<durable, auth>>
       \/ /\ ~execution_live_current(w.r) /\ execution_refused(w.r)
          /\ reported("not_started")
       \/ reported("not_started") /\ UNCHANGED <<durable, auth>>
    /\ UNCHANGED <<release_gate, closing, executions, cancel, queue>>
    /\ calm /\ idle_world

(* supervisor execute: lease, helper, transfer, until the helper is ready. *)
launch ==
    /\ w.pc = "launch"
    /\ \/ live(w.r) /\ goto("ready") /\ consumer' = [consumer EXCEPT ![w.r] = "Helper"]
       \/ reported("not_started") /\ UNCHANGED consumer
    /\ UNCHANGED <<durable, auth, gate, release_gate, closing, executions, cancel, queue,
                   released, posted>>
    /\ calm

(* The supervisor gives up before release; closing the channel ends the    *)
(* helper.  A lost service manager closes admission.                       *)
unreleased == reported("failed") /\ consumer' = [consumer EXCEPT ![w.r] = "None"]

abandon ==
    /\ w.pc = "ready" /\ unreleased
    /\ UNCHANGED closing \/ (Faults /\ close_admission)
    /\ UNCHANGED <<durable, auth, gate, release_gate, executions, cancel, queue,
                   released, posted>>
    /\ calm

(* release: authority under the gate ...                                   *)
release_checks ==
    /\ w.pc = "ready" /\ gate = Free
    /\ \/ /\ execution_live_current(w.r)
          /\ execution_delivery(w.r, {"Approved", "Running"}) /\ store.requests[w.r].claimed
          /\ gate' = Worker /\ goto("release_gate") /\ UNCHANGED <<durable, auth, consumer>>
       \/ /\ ~execution_live_current(w.r) /\ execution_refused(w.r)
          /\ unreleased /\ UNCHANGED gate
    /\ UNCHANGED <<release_gate, closing, executions, cancel, queue, released, posted>>
    /\ calm

(* Mutant: the flags are not read again under release_gate.                *)
release_takes_gate_blindly ==
    /\ w.pc = "release_gate" /\ release_gate = Free
    /\ release_gate' = Worker /\ goto("deliver")
    /\ UNCHANGED <<gate, consumer, durable, auth, closing, executions, cancel, queue,
                   released, posted>>
    /\ calm

(* ... then the revocation flags under release_gate ...                    *)
release_takes_gate ==
    /\ w.pc = "release_gate" /\ release_gate = Free
    /\ IF live_fast(w.r)
       THEN release_gate' = Worker /\ goto("deliver") /\ UNCHANGED <<gate, consumer>>
       ELSE gate' = Free /\ unreleased /\ UNCHANGED release_gate
    /\ UNCHANGED <<durable, auth, closing, executions, cancel, queue, released, posted>>
    /\ calm

(* ... and the helper is told to run the consumer.                         *)
deliver ==
    /\ w.pc = "deliver"
    /\ gate' = Free /\ release_gate' = Free
    /\ \/ /\ goto("observe")
          /\ consumer' = [consumer EXCEPT ![w.r] = "Running"]
          /\ released' = [released EXCEPT ![w.r] = @ + 1]
       \/ unreleased /\ UNCHANGED released
    /\ UNCHANGED <<durable, auth, closing, executions, cancel, queue, posted>>
    /\ calm

(* The helper confirms the exec: the record becomes Running.               *)
started ==
    /\ w.pc = "observe" /\ gate = Free /\ store.requests[w.r].status = "Approved"
    /\ LET new == set_request(w.r, [store.requests[w.r] EXCEPT !.status = "Running"]) IN
        \/ wrote(new) /\ UNCHANGED <<closing, w>>
        \/ write_failed(new) /\ close_admission /\ reported("lost")
    /\ UNCHANGED <<auth, gate, release_gate, executions, cancel, queue>>
    /\ calm /\ idle_world

(* The consumer's outcome; its unit may or may not be gone by then.        *)
observe_exit ==
    /\ w.pc = "observe" /\ store.requests[w.r].status = "Running" /\ consumer[w.r] = "Exited"
    /\ \E report \in {"zero", "zero_detached", "nonzero"} :
            w' = [w EXCEPT !.pc = IF report = "zero" /\ w.r \in Producers
                                  THEN "write" ELSE "finish",
                           !.report = IF report = "zero_detached" /\ w.r \in Producers
                                      THEN "failed" ELSE report]
    /\ UNCHANGED <<durable, auth, gate, release_gate, closing, executions, cancel, queue>>
    /\ calm /\ idle_world

(* Mutant: the supervisor watches the consumer only.                       *)
observation_lost_deaf ==
    /\ w.pc = "observe" /\ Faults
    /\ reported("lost") \/ reported("uncertain")
    /\ UNCHANGED <<durable, auth, gate, release_gate, closing, executions, cancel, queue>>
    /\ calm /\ idle_world

(* Authority ended, or the channel broke: observation stops, the consumer  *)
(* is never signalled.                                                     *)
observation_lost ==
    /\ w.pc = "observe"
    /\ \/ not_live(w.r) /\ reported("lost")
       \/ Faults /\ (reported("lost") \/ reported("uncertain"))
    /\ UNCHANGED <<durable, auth, gate, release_gate, closing, executions, cancel, queue>>
    /\ calm /\ idle_world

(* A producer's output is written to the vault: the attempt is persisted,  *)
(* then the POST is guarded like a release.                                *)
write ==
    /\ w.pc = "write" /\ gate = Free
    /\ LET new == [store EXCEPT !.attempts = @ \cup {w.r}] IN
        \/ /\ live_fast(w.r) /\ execution_live_current(w.r) /\ execution_matches(w.r)
           /\ \/ wrote(new) /\ gate' = Worker /\ goto("post_gate")
              \/ write_failed(new) /\ reported("failed") /\ UNCHANGED gate
           /\ UNCHANGED auth
        \/ /\ live(w.r) /\ ~execution_live_current(w.r) /\ execution_refused(w.r)
           /\ reported("failed") /\ UNCHANGED gate
        \/ reported("failed") /\ UNCHANGED <<durable, auth, gate>>
    /\ UNCHANGED <<release_gate, closing, executions, cancel, queue>>
    /\ calm /\ idle_world

(* Mutant: the flags are not read again before the POST.                   *)
post_takes_gate_blindly ==
    /\ w.pc = "post_gate" /\ release_gate = Free
    /\ release_gate' = Worker /\ goto("post")
    /\ UNCHANGED <<gate, durable, auth, closing, executions, cancel, queue>>
    /\ calm /\ idle_world

post_takes_gate ==
    /\ w.pc = "post_gate" /\ release_gate = Free
    /\ IF live_fast(w.r)
       THEN release_gate' = Worker /\ goto("post") /\ UNCHANGED gate
       ELSE gate' = Free /\ reported("failed") /\ UNCHANGED release_gate
    /\ UNCHANGED <<durable, auth, closing, executions, cancel, queue>>
    /\ calm /\ idle_world

(* create_secret, then record_write and the verification it allows.        *)
post ==
    /\ w.pc = "post"
    /\ gate' = Free /\ release_gate' = Free
    /\ \/ /\ posted' = [posted EXCEPT ![w.r] = @ + 1]
          /\ \/ UNCHANGED durable /\ (reported("zero") \/ reported("failed"))
             \/ write_failed(store) /\ reported("failed")
       \/ UNCHANGED <<durable, posted>> /\ reported("failed")
    /\ UNCHANGED <<auth, closing, executions, cancel, queue, consumer, released>>
    /\ calm

(* The report is weighed under release_gate ...                            *)
finish ==
    /\ w.pc = "finish" /\ release_gate = Free
    /\ IF w.report = "uncertain"
       THEN closing' = TRUE /\ cleanup_uncertain' = TRUE /\ goto("deregister")
       ELSE UNCHANGED <<closing, cleanup_uncertain>> /\ goto("settle")
    /\ UNCHANGED <<durable, auth, gate, release_gate, published, denied, work, ctl, world>>

(* Mutant: a failure to record the outcome is ignored.                     *)
settle_ignores_failure ==
    /\ w.pc = "settle" /\ gate = Free
    /\ \/ wrote(set_request(w.r, ended(store.requests[w.r])))
       \/ write_failed(store)
    /\ goto("deregister")
    /\ UNCHANGED <<auth, closing, gate, release_gate, cleanup_uncertain, published, denied, work,
                   ctl, world>>

(* ... and finish_execution runs under the gate, with or without a live    *)
(* session; when it fails the process fails closed.                        *)
settle ==
    /\ w.pc = "settle" /\ gate = Free
    /\ LET q == store.requests[w.r]
           completed == w.report \in {"zero", "zero_detached"}
           allowed == /\ ~poisoned /\ Executing(q)
                      /\ completed => q.status = "Running"
                      /\ w.report = "not_started" => q.status # "Running"
           new == set_request(w.r, IF completed THEN [ended(q) EXCEPT !.status = "Completed"]
                                   ELSE ended(q))
       IN  \/ allowed /\ wrote(new) /\ UNCHANGED <<auth, closing>>
           \/ /\ closing' = TRUE
              /\ \/ write_failed(new) /\ poisoned' /\ auth' = cleared(TRUE)
                 \/ (Faults \/ ~allowed) /\ ~poisoned /\ revoke
    /\ goto("deregister")
    /\ UNCHANGED <<gate, release_gate, cleanup_uncertain, published, denied, work, ctl, world>>

(* Mutant: an execution that was lost stays registered.                    *)
deregister_leaks ==
    /\ w.pc = "deregister"
    /\ executions' = IF w.report = "lost" THEN executions ELSE executions \ {w.r}
    /\ w' = IdleWorker
    /\ UNCHANGED <<durable, auth, gate, release_gate, closing, cancel, queue>>
    /\ calm /\ idle_world

deregister ==
    /\ w.pc = "deregister"
    /\ executions' = executions \ {w.r}
    /\ w' = IdleWorker
    /\ UNCHANGED <<durable, auth, gate, release_gate, closing, cancel, queue>>
    /\ calm /\ idle_world

-----------------------------------------------------------------------------
(* Time, the consumer and crashes.                                         *)

env == UNCHANGED <<gate, release_gate, flags, work, ctl>>
claimed_pc == w.pc \notin {"idle", "enter"}

session_elapses ==
    /\ auth.session = "Live"
    /\ auth' = [auth EXCEPT !.session = "Elapsed"]
    /\ w' = [w EXCEPT !.elapsed = @ \/ (claimed_pc /\ store.requests[w.r].current)]
    /\ env /\ UNCHANGED <<durable, world>>

request_elapses(r) ==
    /\ auth.limits[r] = "Live"
    /\ auth' = [auth EXCEPT !.limits[r] = "Elapsed"]
    /\ w' = [w EXCEPT !.elapsed = @ \/ (claimed_pc /\ w.r = r)]
    /\ env /\ UNCHANGED <<durable, world>>

(* The deadline the worker captured outlives the session it came from.     *)
captured_deadline_elapses ==
    /\ claimed_pc /\ auth.limits[w.r] = "None" /\ ~w.elapsed
    /\ w' = [w EXCEPT !.elapsed = TRUE]
    /\ env /\ UNCHANGED <<durable, auth, world>>

consumer_exits(r) ==
    /\ consumer[r] = "Running"
    /\ consumer' = [consumer EXCEPT ![r] = "Exited"]
    /\ env /\ UNCHANGED <<durable, auth, w, released, posted, settled>>

(* The process dies and its successor recovers: memory is gone, a helper   *)
(* that was not released exits, a released consumer runs on.               *)
crash ==
    /\ Faults
    /\ store' = recover_store(store) /\ poisoned' = FALSE
    /\ auth' = cleared(FALSE)
    /\ gate' = Free /\ release_gate' = Free
    /\ closing' = FALSE /\ cleanup_uncertain' = FALSE /\ published' = TRUE
    /\ denied' = store.revoked
    /\ executions' = {} /\ cancel' = {} /\ undispatched' = {} /\ queue' = << >>
    /\ w' = IdleWorker /\ ctl' = [c \in Controllers |-> IdleCtl]
    /\ consumer' = [r \in Requests |-> IF consumer[r] = "Helper" THEN "None" ELSE consumer[r]]
    /\ UNCHANGED <<released, posted, settled>>

-----------------------------------------------------------------------------
Init ==
    /\ store = [requests |-> [r \in Requests |->
                    [status |-> "None", claimed |-> FALSE, current |-> FALSE]],
                attempts |-> {}, revoked |-> {}]
    /\ poisoned = FALSE
    /\ auth = cleared(FALSE)
    /\ gate = Free /\ release_gate = Free
    /\ closing = FALSE /\ cleanup_uncertain = FALSE /\ published = TRUE /\ denied = {}
    /\ executions = {} /\ cancel = {} /\ undispatched = {} /\ queue = << >>
    /\ w = IdleWorker /\ ctl = [c \in Controllers |-> IdleCtl]
    /\ consumer = [r \in Requests |-> "None"]
    /\ released = [r \in Requests |-> 0] /\ posted = [r \in Requests |-> 0]
    /\ settled = {}

Desk ==
    \/ authenticate \/ poll
    \/ \E r \in Requests : submit(r) \/ prepare_approval(r)
    \/ \E r \in Requests, next \in {"Approved", "Denied"} : commit_decision(r, next)

Dispatching == \E r \in Requests : dispatch(r)

Working ==
    \/ take \/ take_unavailable \/ enter \/ claim \/ claim_synced \/ prepare \/ resolve
    \/ launch \/ abandon \/ release_checks \/ release_takes_gate \/ deliver
    \/ started \/ observe_exit \/ observation_lost
    \/ write \/ post_takes_gate \/ post \/ finish \/ settle \/ deregister

Calling(c) ==
    \/ call_lock(c) \/ call_shutdown(c)
    \/ \E r \in Requests : call_cancel(c, r)
    \/ \E a \in Agents : call_revoke(c, a)

Controlling(c) ==
    \/ publish_lock(c) \/ lock_revokes(c)
    \/ cancel_takes_gate(c) \/ cancel_rechecks(c)
    \/ revoke_store(c) \/ await_done(c)

Environment ==
    \/ session_elapses \/ captured_deadline_elapses \/ crash
    \/ \E r \in Requests : request_elapses(r) \/ consumer_exits(r)
    \/ \E c \in Controllers : await_times_out(c)

Next ==
    \/ Desk \/ Dispatching \/ Working \/ Environment
    \/ \E c \in Controllers : Calling(c) \/ Controlling(c)

Spec == Init /\ [][Next]_vars

(* The threads keep running; nothing obliges the human, time, a consumer   *)
(* or a fault to act.  std::sync::Mutex is not fair, so a waiter could     *)
(* starve behind commands that arrive forever: they are assumed to stop.   *)
CommandsStop == <>[][\A c \in Controllers : ~Calling(c)]_vars

FairSpec ==
    /\ Spec
    /\ WF_vars(Working) /\ WF_vars(Dispatching)
    /\ \A c \in Controllers : WF_vars(Controlling(c))
    /\ CommandsStop

-----------------------------------------------------------------------------
(* Properties.                                                             *)

(* The application state has its type.                                     *)
TypeOK ==
    /\ store \in [requests : [Requests -> [status : {"None", "Pending", "Approved", "Running",
                                                    "Completed", "Ended"},
                                           claimed : BOOLEAN, current : BOOLEAN]],
                   attempts : SUBSET Requests, revoked : SUBSET Agents]
    /\ auth \in [session : {"None", "Live", "Elapsed"}, cleanup_failed : BOOLEAN,
                  limits : [Requests -> {"None", "Live", "Elapsed"}],
                  prepared : SUBSET Requests]
    /\ {poisoned, closing, cleanup_uncertain, published} \subseteq BOOLEAN
    /\ gate \in {Free, Worker} \cup Controllers /\ release_gate \in {Free, Worker}
    /\ denied \subseteq Agents
    /\ executions \subseteq Requests /\ cancel \subseteq Requests
    /\ undispatched \subseteq Requests /\ queue \in Seq(Requests) /\ Len(queue) <= QueueCapacity
    /\ consumer \in [Requests -> {"None", "Helper", "Running", "Exited"}]
    /\ released \in [Requests -> Nat] /\ posted \in [Requests -> Nat]
    /\ settled \subseteq Requests

(* Whatever the threads do, they implement the one-time approval: a consumer *)
(* is released only while its claimed approval has not ended, and once.    *)
Approval == INSTANCE OneTimeApproval WITH
    phase <- [r \in Requests |->
                CASE Terminal(store.requests[r]) -> "Ended"
                  [] Executing(store.requests[r]) -> "Spent"
                  [] OTHER -> store.requests[r].status],
    uses <- released
ImplementsOneTimeApproval == Approval!Spec

\* What each of the next three properties asks of one step.
QuietStep == \A r \in settled : released'[r] = released[r] /\ posted'[r] = posted[r]
ReleaseStep ==
    \A r \in Requests : released'[r] # released[r] =>
        /\ ~closing /\ auth.session # "None" /\ auth.limits[r] # "None"
        /\ store.requests[r].claimed /\ store.requests[r].current
        /\ r \in executions \ cancel
        /\ token_live(r) /\ ~w.stale
PostStep ==
    \A r \in Requests : posted'[r] # posted[r] =>
        /\ posted[r] = 0 /\ r \in store.attempts /\ r \in executions \ cancel
        /\ ~closing /\ token_live(r) /\ ~w.stale
        /\ store.requests[r].status = "Running"

(* Once cancel_execution, lock or revoke_agent has returned Ok, no consumer *)
(* of a request it covers is released and no secret of it is posted, ever: *)
(* not by a worker that was already past its checks, nor after a crash.    *)
SettledStaysQuiet == [][QuietStep]_vars

(* At the very step that releases a consumer the authority still holds:    *)
(* the session is live, admission is open, the approval is the current     *)
(* epoch's and claimed, its agent's token is not denied, it is not         *)
(* cancelled, and no lock was published since the worker began.            *)
ReleaseIsAuthorized == [][ReleaseStep]_vars

(* The irreversible write is guarded like the release, its attempt is      *)
(* durable before it (begin_write precedes create_secret) and it is the    *)
(* only one of its approval.                                               *)
PostIsAuthorized == [][PostStep]_vars

(* A claimed request that is not terminal is the one the worker is busy    *)
(* with and is registered, so that a cancel or lock can find it; otherwise *)
(* the process has failed closed (admission closed or the store poisoned)  *)
(* and only recovery can end it.                                           *)
NoOrphanedClaim ==
    \A r \in Requests : Executing(store.requests[r]) =>
        (r = w.r /\ r \in executions) \/ closing \/ poisoned

(* "No matching claim can appear after this snapshot because its token was *)
(* irreversibly denied" (revoke_agent_checked): when the revocation waits, *)
(* every registered execution of the agent is one it flagged.              *)
RevocationSeesEveryClaim ==
    \A c \in Controllers : ctl[c].op = "revoke" /\ ctl[c].pc = "await" =>
        \A r \in executions : OwnerOf[r] = ctl[c].subject => r \in cancel

(* A lock, cancel or revocation returns, without its 20-second timeout and *)
(* even if the consumer never exits: the worker notices that its authority *)
(* ended, detaches and deregisters.  A lock that a new session overtakes   *)
(* is the exception: it waits for every execution, the new session's too.  *)
ControllersReturn ==
    \A c \in Controllers :
        ctl[c].pc # "idle" ~>
            \/ ctl[c].pc = "idle"
            \/ ctl[c].op = "lock" /\ ctl[c].pc = "await" /\ auth.session # "None"

(* "Lock or cancellation stops its descendants", the review tells the human *)
(* (direct_request.rs ONE_TIME): once one has returned Ok, no consumer of  *)
(* a request it covers is still running.                                   *)
LockStopsDescendants == \A r \in settled : consumer[r] # "Running"

(* The worker never stays on an execution whose authority has ended.       *)
DeadExecutionEnds ==
    \A r \in Requests : (w.r = r /\ ~live_fast(r)) ~> w.r # r
=============================================================================
