-------------------------- MODULE SupervisedLaunch --------------------------
(***************************************************************************)
(* One protected execution outside the provider's memory: the worker's     *)
(* `execute` (supervisor.rs), the lease files and transient systemd unit   *)
(* behind it (manager.rs), the SEQPACKET bridge and the helper at its      *)
(* other end (bridge.rs), the one-signature SSH agent polled by the same   *)
(* thread (ssh_agent.rs) and its public files (ssh_material.rs).           *)
(*                                                                         *)
(* The worker runs launches one at a time.  Helpers, consumers and their   *)
(* descendants outlive it: nothing in the code ever signals a consumer,    *)
(* and a restarted provider knows them only by lease files and unit names. *)
(***************************************************************************)
EXTENDS Naturals, Sequences, FiniteSets, TLC

CONSTANTS Launches,     \* executions, each with its own random unit name
          Ssh,          \* the launches that authenticate through the agent
          Forking,      \* the launches whose program starts a descendant
          MaxFaults     \* bound on crashes, kills, timeouts, failed calls

ASSUME LaunchAssumption ==
    /\ Ssh \subseteq Launches
    /\ Forking \subseteq Launches
    /\ MaxFaults \in Nat

VARIABLES
    faults,      \* faults so far
    \* provider process
    daemon,      \* "down", "leases" and "material" (recovering), "up"
    healthy,     \* SystemdProcessSupervisor::healthy
    \* worker thread
    pc, err,     \* its step and the result so far
    sent,        \* `released`: RELEASE is on its way to the helper
    report,      \* the Supervision it returned
    \* authority (ExecutionControl)
    live, started,
    \* runtime directory
    staging, leases, sockets,
    \* user manager and processes
    unit, helper, consumer, descendant, status,
    \* bridge
    chan, inbox, outbox,
    \* SSH authentication
    agent, signed, material, endpoint

provider == <<daemon, healthy>>
worker == <<pc, err, sent, report>>
authority == <<live, started>>
files == <<staging, leases, sockets>>
processes == <<unit, helper, consumer, descendant, status>>
bridge == <<chan, inbox, outbox>>
ssh == <<agent, signed, material, endpoint>>
vars == <<faults, provider, worker, authority, files, processes, bridge, ssh>>

Outcomes == {"ZERO", "OTHER"}
\* Cancelled is told as ExecutionFailed: the two promise the same.
Errors == {"ExecutionFailed", "ManagerUnavailable", "UnitCollision"}
Blank == [outcome |-> "none", cleanup |-> "none", reaped |-> FALSE]
\* The agent before bind and after close: no listener, no key, no peer.
Closed == [open |-> FALSE, key |-> FALSE, recipient |-> FALSE, bound |-> FALSE]
Files == {"dir", "pending", "known_hosts", "agent.json"}
Removal == "known_hosts" :> 1 @@ "pending" :> 2 @@ "agent.json" :> 3 @@ "dir" :> 4

-----------------------------------------------------------------------------
(* Observations *)

in_cgroup(l) ==
    \/ helper[l] \notin {"none", "gone"}
    \/ consumer[l] \in {"forked", "trapped", "running"}
    \/ descendant[l]

\* A consumer or something it started is still there.
alive(l) ==
    \/ consumer[l] \in {"forked", "trapped", "running"}
    \/ descendant[l]

\* The unit of that name answers the ownership contract, or there is none.
owned(l) == unit[l] # "stranger"

\* Mutant: the helper's exit is taken for the end of everything it started.
unused_without_helper(l) == owned(l) /\ helper[l] \in {"none", "gone"}

\* A unit whose job has not run yet is inactive too.
unused(l) == owned(l) /\ unit[l] # "active" /\ ~in_cgroup(l)

working(l) == pc[l] \notin {"queued", "done", "lost"}

\* An SSH launch still has its material to finalize.
after(l) == IF l \in Ssh THEN "finalize" ELSE "done"

goto(l, s) == pc' = [pc EXCEPT ![l] = s]

fail(l, e) ==
    /\ goto(l, "close")
    /\ err' = [err EXCEPT ![l] = e]
    /\ UNCHANGED <<sent, report>>

\* The Supervision is returned: what the worker knew goes with its frame and
\* the authority, good for this execution only, is not asked again.
answer(l, result, cleanup, reaped) ==
    /\ report' = [report EXCEPT ![l] =
           [outcome |-> result, cleanup |-> cleanup, reaped |-> reaped]]
    /\ err' = [err EXCEPT ![l] = "none"]
    /\ sent' = [sent EXCEPT ![l] = FALSE]
    /\ live' = [live EXCEPT ![l] = FALSE]

-----------------------------------------------------------------------------
(* SSH material and agent, before and after the launch *)

\* Mutant: a second worker does not wait for the first.
begin_concurrent(l) ==
    /\ daemon = "up" /\ pc[l] = "queued"
    /\ goto(l, IF l \in Ssh THEN "prepare" ELSE "execute")
    /\ UNCHANGED <<provider, err, sent, report, authority, files, processes, bridge, ssh>>

begin(l) ==
    /\ daemon = "up" /\ pc[l] = "queued"
    /\ \A m \in Launches : ~working(m)
    /\ goto(l, IF l \in Ssh THEN "prepare" ELSE "execute")
    /\ UNCHANGED <<provider, err, sent, report, authority, files, processes, bridge, ssh>>

\* mkdir, then the endpoint, then the two files, and the record of them last.
prepare(l) ==
    /\ daemon = "up" /\ pc[l] = "prepare" /\ material[l] # Files
    /\ IF material[l] = {"dir"} /\ ~agent[l].open
       THEN /\ agent' = [agent EXCEPT ![l].open = TRUE]
            /\ endpoint' = endpoint \cup {l}
            /\ UNCHANGED material
       ELSE /\ material' = [material EXCEPT ![l] = @ \cup
                   {<<"dir", "pending", "known_hosts", "agent.json">>[Cardinality(@) + 1]}]
            /\ UNCHANGED <<agent, endpoint>>
    /\ UNCHANGED <<provider, worker, authority, files, processes, bridge, signed>>

install(l) ==
    /\ daemon = "up" /\ pc[l] = "prepare" /\ material[l] = Files
    /\ agent' = [agent EXCEPT ![l].key = TRUE]
    /\ goto(l, "execute")
    /\ UNCHANGED <<provider, err, sent, report, authority, files, processes, bridge,
                   signed, material, endpoint>>

\* Before the endpoint is bound there is no Material to finalize: the empty
\* directory stays behind.
prepare_fails(l) ==
    /\ daemon = "up" /\ pc[l] = "prepare"
    /\ goto(l, IF agent[l].open THEN "finalize" ELSE "done")
    /\ answer(l, "ExecutionFailed", "NotStarted", FALSE)
    /\ UNCHANGED <<provider, started, files, processes, bridge, ssh>>

\* Agent::close: the endpoint is unlinked and key, peer and listener dropped.
close_agent(l) ==
    /\ agent' = [agent EXCEPT ![l] = Closed]
    /\ endpoint' = endpoint \ {l}

\* cleanup: known_hosts, pending, agent.json and the directory, in that order.
remove_next(l) ==
    LET f == CHOOSE f \in material[l] :
                 \A g \in material[l] : Removal[f] <= Removal[g]
    IN material' = [material EXCEPT ![l] = @ \ {f}]

\* Mutant: the agent is closed once the files are gone.
finalize_files_first(l) ==
    /\ daemon = "up" /\ pc[l] = "finalize"
    /\ IF material[l] = {}
       THEN close_agent(l) /\ goto(l, "done") /\ UNCHANGED material
       ELSE remove_next(l) /\ UNCHANGED <<pc, agent, endpoint>>
    /\ UNCHANGED <<provider, err, sent, report, authority, files, processes, bridge, signed>>

\* Material::finalize: the agent is closed before the first file goes.
finalize(l) ==
    /\ daemon = "up" /\ pc[l] = "finalize"
    /\ close_agent(l)
    /\ IF material[l] = {}
       THEN goto(l, "done") /\ UNCHANGED material
       ELSE remove_next(l) /\ UNCHANGED pc
    /\ UNCHANGED <<provider, err, sent, report, authority, files, processes, bridge, signed>>

\* A failed removal ends finalization with CleanupUncertain.
finalize_fails(l) ==
    /\ daemon = "up" /\ pc[l] = "finalize" /\ material[l] # {}
    /\ close_agent(l)
    /\ goto(l, "done")
    /\ UNCHANGED <<provider, err, sent, report, authority, files, processes, bridge,
                   signed, material>>

-----------------------------------------------------------------------------
(* The worker: execute *)

\* healthy, live, connect, provider, name; then the listener's socket.
execute(l) ==
    /\ daemon = "up" /\ pc[l] = "execute"
    /\ healthy /\ live[l]
    /\ sockets' = sockets \cup {l}
    /\ goto(l, "record")
    /\ UNCHANGED <<provider, err, sent, report, authority, staging, leases, processes, bridge, ssh>>

not_started(l, e) ==
    /\ daemon = "up" /\ pc[l] = "execute"
    /\ goto(l, after(l))
    /\ answer(l, e, "NotStarted", FALSE)
    /\ UNCHANGED <<provider, started, files, processes, bridge, ssh>>

refused(l) == ~(healthy /\ live[l]) /\ not_started(l, "ExecutionFailed")

\* No manager, no name, no socket.
unavailable(l) == healthy /\ live[l] /\ not_started(l, "ManagerUnavailable")

\* Config::record: a synced staging file, its hard link, and the unlink.
record(l) ==
    /\ daemon = "up"
    /\ \/ pc[l] = "record" /\ staging' = staging \cup {l} /\ UNCHANGED leases /\ goto(l, "publish")
       \/ pc[l] = "publish" /\ leases' = leases \cup {l} /\ UNCHANGED staging /\ goto(l, "unstage")
       \/ pc[l] = "unstage" /\ staging' = staging \ {l} /\ UNCHANGED leases /\ goto(l, "start")
    /\ UNCHANGED <<provider, err, sent, report, authority, sockets, processes, bridge, ssh>>

\* The staging file is removed on every path, if it can be; a published lease
\* stays.
record_fails(l) ==
    /\ daemon = "up" /\ pc[l] \in {"record", "publish", "unstage"}
    /\ staging' \in {staging \ {l}, staging \cup {l}} /\ sockets' = sockets \ {l}
    /\ goto(l, after(l))
    /\ answer(l, "ManagerUnavailable", "NotStarted", FALSE)
    /\ UNCHANGED <<provider, started, leases, processes, bridge, ssh>>

\* The authority ended: seen at every check before release and while observing.
cancelled(l) ==
    /\ daemon = "up" /\ ~live[l]
    /\ pc[l] \in {"start", "accept", "send", "ready", "release", "observe"}
    /\ fail(l, "ExecutionFailed")
    /\ UNCHANGED <<provider, authority, files, processes, bridge, ssh>>

\* StartTransientUnit accepted: systemd owes the unit its job.
start(l) ==
    /\ daemon = "up" /\ pc[l] = "start" /\ live[l]
    /\ unit' = [unit EXCEPT ![l] = "job"]
    /\ goto(l, "job")
    /\ UNCHANGED <<provider, err, sent, report, authority, files, helper, consumer,
                   descendant, status, bridge, ssh>>

\* The random name belongs to a unit the provider did not create.
start_collides(l) ==
    /\ daemon = "up" /\ pc[l] = "start" /\ live[l]
    /\ unit' = [unit EXCEPT ![l] = "stranger"]
    /\ fail(l, "UnitCollision")
    /\ UNCHANGED <<provider, authority, files, helper, consumer, descendant, status, bridge, ssh>>

\* The call times out; systemd may process it all the same, later.
start_lost(l) ==
    /\ daemon = "up" /\ pc[l] = "start" /\ live[l]
    /\ unit' \in {unit, [unit EXCEPT ![l] = "job"]}
    /\ fail(l, "ManagerUnavailable")
    /\ UNCHANGED <<provider, authority, files, helper, consumer, descendant, status, bridge, ssh>>

\* The manager answers that this helper, in this cgroup, is the unit's process.
helper_checked(l) == unit[l] = "active" /\ helper[l] \notin {"none", "gone"}

wait_job(l) ==
    /\ daemon = "up" /\ pc[l] = "job" /\ helper_checked(l)
    /\ goto(l, "accept")
    /\ UNCHANGED <<provider, err, sent, report, authority, files, processes, bridge, ssh>>

accept(l) ==
    /\ daemon = "up" /\ pc[l] = "accept" /\ helper[l] = "connected"
    /\ chan' = [chan EXCEPT ![l] = "Connected"]
    /\ goto(l, "send")
    /\ UNCHANGED <<provider, err, sent, report, authority, files, processes, inbox, outbox, ssh>>

send(l) ==
    /\ daemon = "up" /\ pc[l] = "send" /\ helper_checked(l) /\ live[l]
    /\ outbox' = [outbox EXCEPT ![l] = Append(@, "TRANSFER")]
    /\ chan' = [chan EXCEPT ![l] = "Transferred"]
    /\ goto(l, "ready")
    /\ UNCHANGED <<provider, err, sent, report, authority, files, processes, inbox, ssh>>

ready(l) ==
    /\ daemon = "up" /\ pc[l] = "ready"
    /\ inbox[l] # <<>> /\ Head(inbox[l]) = "READY" /\ chan[l] = "Transferred"
    /\ chan' = [chan EXCEPT ![l] = "Ready"]
    /\ inbox' = [inbox EXCEPT ![l] = Tail(@)]
    /\ goto(l, "release")
    /\ UNCHANGED <<provider, err, sent, report, authority, files, processes, outbox, ssh>>

launch_fails(l, e) ==
    /\ daemon = "up"
    /\ pc[l] \in {"job", "accept", "send", "ready", "release"}
    /\ fail(l, e)
    /\ UNCHANGED <<provider, authority, files, processes, bridge, ssh>>

\* The job failed, or the helper is gone before its release.
helper_lost(l) ==
    /\ unit[l] = "none" \/ helper[l] = "gone"
    /\ launch_fails(l, "ExecutionFailed")

\* A deadline passed, or the manager does not answer.
launch_times_out(l) ==
    \E e \in {"ExecutionFailed", "ManagerUnavailable"} : launch_fails(l, e)

\* control.release: the authority cannot end between its check and the packet.
release(l) ==
    /\ daemon = "up" /\ pc[l] = "release" /\ helper_checked(l)
    /\ live[l] /\ chan[l] = "Ready"
    /\ outbox' = [outbox EXCEPT ![l] = Append(@, "RELEASE")]
    /\ chan' = [chan EXCEPT ![l] = "Released"]
    /\ sent' = [sent EXCEPT ![l] = TRUE]
    /\ goto(l, "observe")
    /\ UNCHANGED <<provider, err, report, authority, files, processes, inbox, ssh>>

-----------------------------------------------------------------------------
(* The worker: observing a released launch *)

\* ExecConfirmed: started() is recorded and the agent learns its recipient,
\* or the first fails, or the second does.
exec_confirmed(l) ==
    /\ daemon = "up" /\ pc[l] = "observe" /\ chan[l] = "Released"
    /\ inbox[l] # <<>> /\ Head(inbox[l]) = "EXEC"
    /\ inbox' = [inbox EXCEPT ![l] = Tail(@)]
    /\ chan' = [chan EXCEPT ![l] = "Executed"]
    /\ \/ /\ started' = [started EXCEPT ![l] = TRUE]
          /\ agent' = [agent EXCEPT ![l].recipient = agent[l].open]
          /\ UNCHANGED worker
       \/ fail(l, "ExecutionFailed") /\ UNCHANGED <<started, agent>>
       \/ /\ l \in Ssh /\ started' = [started EXCEPT ![l] = TRUE]
          /\ fail(l, "ExecutionFailed") /\ UNCHANGED agent
    /\ UNCHANGED <<provider, live, files, processes, outbox, signed, material, endpoint>>

outcome(l) ==
    /\ daemon = "up" /\ pc[l] = "observe" /\ chan[l] = "Executed"
    /\ inbox[l] # <<>> /\ Head(inbox[l]) \in Outcomes
    /\ inbox' = [inbox EXCEPT ![l] = Tail(@)]
    /\ chan' = [chan EXCEPT ![l] = "Outcome"]
    /\ fail(l, Head(inbox[l]))
    /\ UNCHANGED <<provider, authority, files, processes, outbox, ssh>>

helper_failed(l) ==
    /\ daemon = "up" /\ pc[l] \in {"ready", "observe"}
    /\ inbox[l] # <<>> /\ Head(inbox[l]) = "FAILED"
    /\ inbox' = [inbox EXCEPT ![l] = Tail(@)]
    /\ chan' = [chan EXCEPT ![l] = "Failed"]
    /\ fail(l, "ExecutionFailed")
    /\ UNCHANGED <<provider, authority, files, processes, outbox, ssh>>

\* The helper's end is closed and everything it said is read.
end_of_file(l) ==
    /\ daemon = "up" /\ pc[l] = "observe"
    /\ inbox[l] = <<>> /\ helper[l] = "gone"
    /\ fail(l, "ExecutionFailed")
    /\ UNCHANGED <<provider, authority, files, processes, bridge, ssh>>

\* Exec was not confirmed in time, or the user manager no longer vouches for
\* the provider.
observation_fails(l) ==
    /\ daemon = "up" /\ pc[l] = "observe"
    /\ \/ chan[l] = "Released" /\ fail(l, "ExecutionFailed")
       \/ fail(l, "ManagerUnavailable")
    /\ UNCHANGED <<provider, authority, files, processes, bridge, ssh>>

-----------------------------------------------------------------------------
(* Agent::poll, one bounded step of the observing thread *)

polling(l) == daemon = "up" /\ pc[l] = "observe" /\ chan[l] = "Executed" /\ agent[l].open

recipient_alive(l) == agent[l].recipient /\ consumer[l] = "running"

\* Authority or recipient gone, a deadline, EOF, a bad frame or too many.
agent_closes(l) ==
    /\ polling(l)
    /\ close_agent(l)
    /\ UNCHANGED <<provider, worker, authority, files, processes, bridge, signed, material>>

\* accept fails, or its stream cannot be set up: execute ends, and closes the
\* agent if poll has not.
agent_fails(l) ==
    /\ polling(l) /\ live[l] /\ recipient_alive(l) /\ ~agent[l].bound
    /\ close_agent(l) \/ UNCHANGED <<agent, endpoint>>
    /\ fail(l, "ExecutionFailed")
    /\ UNCHANGED <<provider, authority, files, processes, bridge, signed, material>>

\* Only the exec-confirmed consumer is let in; its session is bound once.
agent_serves(l) ==
    /\ polling(l) /\ live[l] /\ recipient_alive(l)
    /\ ~agent[l].bound /\ agent' = [agent EXCEPT ![l].bound = TRUE]
    /\ UNCHANGED <<provider, worker, authority, files, processes, bridge,
                   signed, material, endpoint>>

\* answer(): the signature is made; it is not sent before the release gate.
agent_signs(l) ==
    /\ polling(l) /\ live[l] /\ recipient_alive(l)
    /\ agent[l].key /\ agent[l].bound
    /\ goto(l, "signing")
    /\ UNCHANGED <<provider, err, sent, report, authority, files, processes, bridge, ssh>>

\* Mutant: the check made when the request was read is good enough.
may_sign_unchecked(l) == recipient_alive(l)

may_sign(l) == live[l] /\ recipient_alive(l)

\* Under control.release, which is held until the bytes are written: authority
\* and recipient are looked at once more.
signature_cleared(l) ==
    /\ daemon = "up" /\ pc[l] = "signing" /\ may_sign(l)
    /\ goto(l, "writing")
    /\ UNCHANGED <<provider, err, sent, report, authority, files, processes, bridge, ssh>>

\* A partial write spends the key like a full one; the consumer may be gone.
signature_sent(l) ==
    /\ daemon = "up" /\ pc[l] = "writing"
    /\ signed' = [signed EXCEPT ![l] = @ + 1]
    /\ close_agent(l)
    /\ \/ goto(l, "observe") /\ UNCHANGED <<err, sent, report>>
       \/ fail(l, "ExecutionFailed")
    /\ UNCHANGED <<provider, authority, files, processes, bridge, material>>

signature_refused(l) ==
    /\ daemon = "up" /\ pc[l] = "signing" /\ ~may_sign(l)
    /\ close_agent(l)
    /\ fail(l, "ExecutionFailed")
    /\ UNCHANGED <<provider, authority, files, processes, bridge, signed, material>>

-----------------------------------------------------------------------------
(* The worker: closing and reporting *)

\* Config::forget: the unlink fails, or the sync after it, or neither.
forget(l) ==
    \/ leases' = leases \ {l} /\ healthy' \in {healthy, FALSE}
    \/ UNCHANGED leases /\ healthy' = FALSE

\* A name collision never started anything: the lease is simply withdrawn.
collision(l) ==
    /\ daemon = "up" /\ pc[l] = "close" /\ err[l] = "UnitCollision"
    /\ close_agent(l)
    /\ forget(l)
    /\ sockets' = sockets \ {l}
    /\ answer(l, "UnitCollision", "NotStarted", FALSE)
    /\ goto(l, after(l))
    /\ UNCHANGED <<daemon, started, staging, processes, bridge,
                   signed, material>>

\* The agent first, then a last look for REAPED, then channel and listener:
\* a helper that has not received RELEASE sees the end of file.
close(l) ==
    /\ daemon = "up" /\ pc[l] = "close" /\ err[l] # "UnitCollision"
    /\ close_agent(l)
    /\ healthy' = (healthy /\ err[l] # "ManagerUnavailable")
    /\ report' = [report EXCEPT ![l].reaped =
           /\ inbox[l] # <<>> /\ Head(inbox[l]) = "REAPED"
           /\ chan[l] \in {"Outcome", "Failed"}]
    /\ chan' = [chan EXCEPT ![l] = "closed"]
    /\ inbox' = [inbox EXCEPT ![l] = <<>>]
    /\ sockets' = sockets \ {l}
    /\ goto(l, "unused")
    /\ UNCHANGED <<daemon, err, sent, authority, staging, leases, processes,
                   outbox, signed, material>>

\* Mutant: the error is passed on as it is.
verdict_as_seen(l) == err[l]

\* After RELEASE an error only says that nobody watched the end.
verdict(l) == IF sent[l] /\ err[l] \in Errors THEN "ObservationLost" ELSE err[l]

reclaimed(l) ==
    /\ daemon = "up" /\ pc[l] = "unused" /\ unused(l)
    /\ forget(l)
    /\ answer(l, verdict(l), "Reaped", report[l].reaped)
    /\ goto(l, after(l))
    /\ UNCHANGED <<daemon, started, staging, sockets, processes,
                   bridge, ssh>>

\* Mutant: the deadline is taken for evidence.
detached_as_reaped(l) ==
    /\ daemon = "up" /\ pc[l] = "unused"
    /\ answer(l, verdict(l), "Reaped", report[l].reaped)
    /\ goto(l, after(l))
    /\ UNCHANGED <<provider, started, files, processes, bridge, ssh>>

detached(l) ==
    /\ daemon = "up" /\ pc[l] = "unused"
    /\ answer(l, verdict(l), "Detached", report[l].reaped)
    /\ goto(l, after(l))
    /\ UNCHANGED <<provider, started, files, processes, bridge, ssh>>

-----------------------------------------------------------------------------
(* The helper: helper_session, report_exec_and_reap, reap_all *)

\* What no helper step touches.
provider_side == <<provider, worker, authority, files, chan, ssh>>

tell(l, code) ==
    inbox' = IF chan[l] = "closed" THEN inbox ELSE [inbox EXCEPT ![l] = Append(@, code)]

helper_to(l, s) == helper' = [helper EXCEPT ![l] = s]

\* Its socket closes with what it had not read; a traced child is detached
\* and resumes, and init inherits the rest.
helper_leaves(l) ==
    /\ helper_to(l, "gone")
    /\ outbox' = [outbox EXCEPT ![l] = <<>>]
    /\ consumer' = [consumer EXCEPT ![l] =
           CASE @ = "trapped" -> "running" [] @ = "exited" -> "reaped" [] OTHER -> @]
    /\ UNCHANGED <<provider_side, unit, descendant, status>>

listening(l) == daemon = "up" /\ l \in sockets /\ working(l)

connect(l) ==
    /\ helper[l] = "started" /\ listening(l)
    /\ helper_to(l, "connected")
    /\ UNCHANGED <<provider_side, unit, consumer, descendant, status, inbox, outbox>>

\* TRANSFER is parsed and answered by READY while the provider is there.
transfer(l) ==
    /\ helper[l] = "connected" /\ chan[l] # "closed"
    /\ outbox[l] # <<>> /\ Head(outbox[l]) = "TRANSFER"
    /\ outbox' = [outbox EXCEPT ![l] = Tail(@)]
    /\ tell(l, "READY") /\ helper_to(l, "ready")
    /\ UNCHANGED <<provider_side, unit, consumer, descendant, status>>

\* RELEASE counts even if the provider has hung up behind it.
released(l) ==
    /\ helper[l] = "ready"
    /\ outbox[l] # <<>> /\ Head(outbox[l]) = "RELEASE"
    /\ outbox' = [outbox EXCEPT ![l] = Tail(@)]
    /\ helper_to(l, "released")
    /\ UNCHANGED <<provider_side, unit, consumer, descendant, status, inbox>>

fork(l) ==
    /\ helper[l] = "released"
    /\ helper_to(l, "tracing")
    /\ consumer' = [consumer EXCEPT ![l] = "forked"]
    /\ UNCHANGED <<provider_side, unit, descendant, status, inbox, outbox>>

\* trace_exec: the trapped child and the closed pipe prove the exec.
traced(l) ==
    /\ helper[l] = "tracing" /\ consumer[l] = "trapped"
    /\ tell(l, "EXEC") /\ helper_to(l, "reaping")
    /\ consumer' = [consumer EXCEPT ![l] = "running"]
    /\ UNCHANGED <<provider_side, unit, descendant, status, outbox>>

\* The child ended, or stopped for another signal, before its exec.
untraced(l) ==
    /\ helper[l] = "tracing" /\ consumer[l] \in {"forked", "exited"}
    /\ tell(l, "FAILED") /\ helper_to(l, "unconfirmed")
    /\ UNCHANGED <<provider_side, unit, consumer, descendant, status, outbox>>

\* Nobody listens, or the provider hung up and nothing it sent is unread.
hung_up(l) ==
    /\ \/ helper[l] = "started" /\ ~listening(l)
       \/ /\ helper[l] \in {"connected", "ready"}
          /\ outbox[l] = <<>> \/ (helper[l] = "connected" /\ chan[l] = "closed")
          /\ ~listening(l)
    /\ helper_leaves(l)
    /\ UNCHANGED inbox

\* Handshake timeout, stop signal, or a failing system call: no fork, no
\* pidfd, no detach, no wait.
session_fails(l) ==
    /\ helper[l] \notin {"none", "started", "gone"}
    /\ tell(l, "FAILED") /\ helper_leaves(l)

reap(l) ==
    /\ helper[l] \in {"reaping", "unconfirmed"} /\ consumer[l] = "exited"
    /\ consumer' = [consumer EXCEPT ![l] = "reaped"]
    /\ IF helper[l] = "reaping" THEN tell(l, status[l]) ELSE UNCHANGED inbox
    /\ UNCHANGED <<provider_side, unit, helper, descendant, status, outbox>>

\* No children left, adopted descendants included: the helper is a subreaper.
reap_all(l) ==
    /\ helper[l] \in {"reaping", "unconfirmed"}
    /\ consumer[l] = "reaped" /\ ~descendant[l]
    /\ tell(l, "REAPED") /\ helper_leaves(l)

-----------------------------------------------------------------------------
(* Environment: user manager, consumer, authority *)

\* The job runs (perhaps long after the provider stopped waiting) or fails.
job_runs(l) ==
    /\ unit[l] = "job"
    /\ \/ unit' = [unit EXCEPT ![l] = "active"] /\ helper_to(l, "started")
       \/ unit' = [unit EXCEPT ![l] = "none"] /\ UNCHANGED helper
    /\ UNCHANGED <<provider_side, consumer, descendant, status, inbox, outbox>>

\* ExitType=cgroup: the unit lasts as long as anything it started.
unit_collected(l) ==
    /\ unit[l] = "active" /\ ~in_cgroup(l)
    /\ unit' = [unit EXCEPT ![l] = "none"]
    /\ UNCHANGED <<provider_side, helper, consumer, descendant, status, inbox, outbox>>

\* Killed at any point.
helper_dies(l) ==
    /\ helper[l] \notin {"none", "gone"}
    /\ helper_leaves(l)
    /\ UNCHANGED inbox

\* The child's own steps: exec under the tracer or without it, or child_fail.
consumer_steps(l) ==
    /\ \/ /\ consumer[l] = "forked"
          /\ consumer' = [consumer EXCEPT ![l] =
                 IF helper[l] = "tracing" THEN "trapped" ELSE "running"]
          /\ UNCHANGED <<descendant, status>>
       \/ /\ consumer[l] \in {"forked", "running"}
          /\ IF helper[l] = "gone"
             THEN consumer' = [consumer EXCEPT ![l] = "reaped"] /\ UNCHANGED status
             ELSE /\ consumer' = [consumer EXCEPT ![l] = "exited"]
                  /\ \E s \in Outcomes : status' = [status EXCEPT ![l] = s]
          /\ UNCHANGED descendant
       \/ /\ (l \in Forking /\ consumer[l] = "running") \/ descendant[l]
          /\ descendant' = [descendant EXCEPT ![l] = ~@]
          /\ UNCHANGED <<consumer, status>>
    /\ UNCHANGED <<provider_side, unit, helper, inbox, outbox>>

\* Lock, cancel, revocation or expiry, under the release gate; the gate is not
\* free while a signature is written.
end_authority(l) ==
    /\ live[l] /\ working(l) /\ pc[l] # "writing"
    /\ live' = [live EXCEPT ![l] = FALSE]
    /\ UNCHANGED <<provider, worker, started, files, processes, bridge, ssh>>

-----------------------------------------------------------------------------
(* Crash and recovery, under the provider's writer lock *)

\* Memory and descriptors go; files, units and processes stay.
crash ==
    /\ daemon # "down"
    /\ daemon' = "down"
    /\ pc' = [l \in Launches |-> IF working(l) THEN "lost" ELSE pc[l]]
    /\ err' = [l \in Launches |-> IF working(l) THEN "none" ELSE err[l]]
    /\ sent' = [l \in Launches |-> sent[l] /\ ~working(l)]
    /\ live' = [l \in Launches |-> live[l] /\ ~working(l)]
    /\ chan' = [l \in Launches |-> IF working(l) THEN "closed" ELSE chan[l]]
    /\ inbox' = [l \in Launches |-> <<>>]
    /\ agent' = [l \in Launches |-> Closed]
    /\ UNCHANGED <<healthy, report, started, files, processes, outbox,
                   signed, material, endpoint>>

\* Owned staging files go; a unit without a lease is adopted.
recover_leases ==
    /\ daemon = "down"
    /\ staging' = {}
    /\ leases' = leases \cup {l \in Launches : owned(l) /\ unit[l] = "active"}
    /\ daemon' = "leases"
    /\ UNCHANGED <<healthy, worker, authority, sockets, processes, bridge, ssh>>

\* A lease is forgotten, with its socket, only when its unit is seen unused.
forget_unused ==
    /\ daemon = "leases"
    /\ \E idle \in SUBSET {l \in leases : unused(l)} :
           leases' = leases \ idle /\ sockets' = sockets \ idle
    /\ daemon' = "material"
    /\ UNCHANGED <<healthy, worker, authority, staging, processes, bridge, ssh>>

\* Only a directory with its record is reclaimed: the dead endpoint, the files,
\* the record, the directory.  It may stop anywhere, and a later recovery goes
\* on where it stopped, except that a directory without its record stays.
recover_agent(l) ==
    /\ daemon = "material" /\ "agent.json" \in material[l]
    /\ IF l \in endpoint
       THEN endpoint' = endpoint \ {l} /\ UNCHANGED material
       ELSE /\ \/ remove_next(l)
               \/ material[l] = {"agent.json", "dir"} /\ material' = [material EXCEPT ![l] = {}]
            /\ UNCHANGED endpoint
    /\ UNCHANGED <<provider, worker, authority, files, processes, bridge, agent, signed>>

\* Residual directories do not keep the provider from starting.
recovered ==
    /\ daemon = "material"
    /\ daemon' = "up" /\ healthy' = TRUE
    /\ UNCHANGED <<worker, authority, files, processes, bridge, ssh>>

-----------------------------------------------------------------------------
Init ==
    /\ daemon = "up" /\ healthy = TRUE /\ faults = 0
    /\ pc = [l \in Launches |-> "queued"]
    /\ err = [l \in Launches |-> "none"]
    /\ sent = [l \in Launches |-> FALSE]
    /\ report = [l \in Launches |-> Blank]
    /\ live = [l \in Launches |-> TRUE]
    /\ started = [l \in Launches |-> FALSE]
    /\ staging = {} /\ leases = {} /\ sockets = {}
    /\ unit = [l \in Launches |-> "none"]
    /\ helper = [l \in Launches |-> "none"]
    /\ consumer = [l \in Launches |-> "none"]
    /\ descendant = [l \in Launches |-> FALSE]
    /\ status = [l \in Launches |-> "none"]
    /\ chan = [l \in Launches |-> "none"]
    /\ inbox = [l \in Launches |-> <<>>]
    /\ outbox = [l \in Launches |-> <<>>]
    /\ agent = [l \in Launches |-> Closed]
    /\ signed = [l \in Launches |-> 0]
    /\ material = [l \in Launches |-> {}]
    /\ endpoint = {}

WorkerStep(l) ==
    \/ begin(l) \/ prepare(l) \/ install(l) \/ finalize(l)
    \/ execute(l) \/ refused(l) \/ record(l) \/ cancelled(l) \/ start(l) \/ start_lost(l)
    \/ wait_job(l) \/ accept(l) \/ send(l) \/ ready(l) \/ helper_lost(l) \/ release(l)
    \/ exec_confirmed(l) \/ outcome(l) \/ helper_failed(l) \/ end_of_file(l)
    \/ agent_closes(l) \/ agent_serves(l) \/ agent_signs(l)
    \/ signature_cleared(l) \/ signature_sent(l) \/ signature_refused(l)
    \/ collision(l) \/ close(l) \/ reclaimed(l) \/ detached(l)

HelperStep(l) ==
    \/ connect(l) \/ transfer(l) \/ released(l) \/ hung_up(l)
    \/ fork(l) \/ traced(l) \/ untraced(l) \/ reap(l) \/ reap_all(l)

Environment(l) ==
    job_runs(l) \/ unit_collected(l) \/ consumer_steps(l) \/ end_authority(l)

Recovery ==
    \/ recover_leases \/ forget_unused \/ recovered
    \/ \E l \in Launches : recover_agent(l)

Fault ==
    \/ crash
    \/ \E l \in Launches :
          \/ prepare_fails(l) \/ finalize_fails(l) \/ unavailable(l) \/ record_fails(l)
          \/ start_collides(l) \/ launch_times_out(l)
          \/ observation_fails(l) \/ agent_fails(l) \/ session_fails(l) \/ helper_dies(l)

Next ==
    \/ /\ \/ \E l \in Launches : WorkerStep(l) \/ HelperStep(l) \/ Environment(l)
          \/ Recovery
       /\ UNCHANGED faults
    \/ faults < MaxFaults /\ Fault /\ faults' = faults + 1

Spec == Init /\ [][Next]_vars

-----------------------------------------------------------------------------
(* Properties *)

(* What the worker, the manager, the bridge and the agent keep.            *)
TypeOK ==
    /\ daemon \in {"down", "leases", "material", "up"}
    /\ healthy \in BOOLEAN /\ faults \in 0..MaxFaults
    /\ pc \in [Launches -> {"queued", "prepare", "execute", "record", "publish",
           "unstage", "start", "job", "accept", "send", "ready", "release", "observe",
           "signing", "writing", "close", "unused", "finalize", "done", "lost"}]
    /\ Cardinality({l \in Launches : working(l)}) <= 1
    /\ err \in [Launches -> Errors \cup Outcomes \cup {"none"}]
    /\ sent \in [Launches -> BOOLEAN]
    /\ report \in [Launches ->
           [outcome : Errors \cup Outcomes \cup {"none", "ObservationLost"},
            cleanup : {"none", "NotStarted", "Reaped", "Detached"}, reaped : BOOLEAN]]
    /\ live \in [Launches -> BOOLEAN] /\ started \in [Launches -> BOOLEAN]
    /\ staging \subseteq Launches /\ leases \subseteq Launches /\ sockets \subseteq Launches
    /\ unit \in [Launches -> {"none", "job", "active", "stranger"}]
    /\ helper \in [Launches -> {"none", "started", "connected", "ready", "released",
           "tracing", "reaping", "unconfirmed", "gone"}]
    /\ consumer \in [Launches -> {"none", "forked", "trapped", "running", "exited", "reaped"}]
    /\ descendant \in [Launches -> BOOLEAN]
    /\ status \in [Launches -> Outcomes \cup {"none"}]
    /\ chan \in [Launches -> {"none", "Connected", "Transferred", "Ready", "Released",
           "Executed", "Outcome", "Failed", "closed"}]
    /\ \A l \in Launches : Len(inbox[l]) <= 3 /\ Len(outbox[l]) <= 2
    /\ agent \in [Launches -> [open : BOOLEAN, key : BOOLEAN, recipient : BOOLEAN,
           bound : BOOLEAN]]
    /\ signed \in [Launches -> 0..1]
    /\ material \in [Launches -> SUBSET Files]
    /\ endpoint \subseteq Launches

(* Whatever a launch started is on record: as long as the consumer or a    *)
(* descendant lives, its lease is published, through cancellation, helper  *)
(* death, provider crashes and recovery (manager.rs record/forget/recover).*)
LeaseCoversConsumer == \A l \in Launches : alive(l) => l \in leases

(* Positive evidence is true and stays true: once the worker has reported  *)
(* NotStarted no consumer ever exists, and after Reaped, or the helper's   *)
(* own REAPED, neither the consumer nor a descendant is there, even when a *)
(* late job brings up the unit (supervisor.rs, CleanupEvidence).           *)
ReapedMeansGone == \A l \in Launches :
    /\ report[l].cleanup = "NotStarted" => consumer[l] = "none"
    /\ report[l].cleanup = "Reaped" \/ report[l].reaped => ~alive(l)

(* The reported result is what happened: an exit status only if this very  *)
(* consumer exited with it after its start was recorded, and an error other*)
(* than ObservationLost only if no consumer was or will be started.        *)
ReportIsTrue == \A l \in Launches :
    /\ report[l].outcome \in Outcomes => started[l] /\ status[l] = report[l].outcome
    /\ report[l].outcome \in Errors => consumer[l] = "none"

\* What the next property asks of one step.
SigningStep ==
    \A l \in Launches :
        /\ signed'[l] # signed[l] => signed[l] = 0 /\ live[l] /\ started[l] /\ pc[l] = "writing"
        /\ pc'[l] = "writing" /\ pc[l] # "writing" => consumer[l] = "running"

(* The one signature of an SSH launch leaves the agent while the authority *)
(* is live, for the consumer whose exec was confirmed and recorded and that*)
(* was running when the gate was last taken, and never twice, a partial    *)
(* write included (ssh_agent.rs poll).                                     *)
SignatureIsAuthorized == [][SigningStep]_vars

(* While the agent holds the key, everything ssh was pointed at is there,  *)
(* the endpoint and the files: neither finalization nor recovery takes the *)
(* host pin from under a key that could still sign (ssh_material.rs        *)
(* finalize, recover).                                                     *)
MaterialServesAgent == \A l \in Launches :
    agent[l].key => material[l] = Files /\ l \in endpoint

=============================================================================
