# A TLA+ model of the vaultwarden-cli access provider

`vaultwarden-cli` is a command-line client for a Vaultwarden server that has grown a
second, larger half: a local **access provider** (`vaultwarden-accessd`). The provider
holds an unlocked vault session for one human owner and lets the owner, or a paired agent,
run one *protected execution* of a provisioned operation with a credential of the vault,
after the owner has approved exactly that request. An approval is good for one execution;
a lock, a cancellation or a revocation ends it. What makes this code hard is that the
promise has to hold across threads, failed file writes, lost processes and a human who
changes his mind at any moment. This project models that promise and checks it.

All paths below are relative to the repository (the Rust crate is `src/src/`).

## The system

| Component | State it keeps | Operations | What makes it correct |
|---|---|---|---|
| Request records (`access/direct_request.rs`, `access/history.rs`) | status, owner, nonce, revision, epoch, approval, claim, write receipt, audit of at most five events | `transition`, `validate`, history events | a status changes only along legal edges; the audit tells the true story; a terminal record is final |
| Provider store (`access/provider_store.rs`) | the state file, `poisoned`, the writer lock | `read_state`, `write_state_guarded`, `invalidate_unexecuted`, `invalidate_recovered` | every state on disk validates; after a failure past the rename nothing more is read or written |
| Provider operations (`access/provider.rs`, `access/agent_binding.rs`) | (the store's) | pair, revoke, provision, create, decide, claim, start, begin/record write, finish, cancel, reconcile | revoked agents hold nothing; nonces are spent once; one write attempt per destination |
| Provider application (`access/application.rs`) | `Authority` (session, deadlines, generation) under `gate`; `release_gate`, `closing`, `revocation_epoch`, agent tokens, `executions` with their cancel flags | authenticate, submit, prepare/commit decision, run_execution, lock, cancel_execution, revoke_agent, shutdown | a returned lock, cancel or revoke is never followed by a release; every claim is supervised or the process fails closed; the three calls return |
| Worker queue and supervisor (`adapters/supervisor.rs`) | bounded channel, helper, consumer | dispatch, launch, release, observe, cleanup evidence | an approved request is never parked unseen; a dead execution is left |
| Supervisor manager (`adapters/supervisor/manager.rs`), helper bridge (`adapters/supervisor/bridge.rs`) | lease files, units, one channel per launch; helper, consumer and its descendants | record, start, transfer, release, trace, reap, recover, forget | whatever was started has a lease; *reaped* and *not started* are true; a reported outcome is this consumer's |
| Companion decisions and management (`adapters/companion.rs`, `adapters/companion/management.rs`, `adapters/companion_identity.rs`) | tickets, attempts, device registry, action journal; the mutexes `authentication` and `identity_commit` | review, decide, unlock, enrol, revoke, reconcile | a ticket is used once; re-enrolment or key revocation wins; an unfinished revocation fences delivery; the registry can always be read again |
| Secret creation by the CLI (`commands.rs`, `write_journal.rs`, `secret_storage.rs`) | one journal per destination | create, reconcile | one attempt per destination, whatever is sent is on record, a receipt is never retargeted |
| SSH agent and material (`adapters/ssh_agent.rs`, `adapters/ssh_material.rs`) | endpoint, key, one signature, public files and their record | prepare, install, sign, close, finalize, recover | one signature per approval while its authority lives; the host pin lasts as long as the key |
| Loopback UI (`adapters/loopback_ui.rs`) | the UI mutex with browser sessions of two roles, the broker with its one-use launches and their files, connection threads, `stop` | launch, exchange, unlock, lock, approve, deny, prune, serve, shutdown | a browser decides only in the session of its launch; a capability on disk is a live one; when `serve` returns everything is locked and joined; its mutexes never form a circle |
| Sockets, agent wait | worker pools, deadlines | framing, dispatch to the application | bounded; nothing decided outside the application |
| CLI session (`commands.rs`, `config.rs`) | config.json, keys.json, tokens.json, keyring entries, refresh lock; one process per command | login, unlock, lock, logout, token refresh | a lock removes the keys from both stores; a token goes to the server that issued it; it is refreshed once |
| Crypto, policy parsing, the reading CLI commands, macOS twins, companion app | local files, HTTP | pure encodings, one read at a time | (nothing shared) |

**How they interact.** A submission (human terminal or signed by an agent) enters the
application under `gate`, which writes a Pending record through `Provider` and
`ProviderStore`. The loopback UI or the companion prepares the approval, checks the
password *without holding any lock*, and commits. An approval is sent to the bounded
queue; one worker thread claims it durably, registers it in `executions`, prepares the
image, resolves credentials (slow, under `gate`), starts a helper, and releases the
consumer under `gate` and `release_gate`. It then observes the consumer until it exits or
the authority ends; a *producer* request ends with one POST of the output to the vault.
`lock`, `cancel_execution` and `revoke_agent` publish first (an epoch, a cancel flag, a
denied token) under `release_gate`, then take `gate` and write, then wait on a condition
variable until the worker has deregistered, 20 s at most.

The *companion* is a second way in: a paired desktop application reviews, decides, unlocks
and manages devices over its own socket, with up to eight threads that share ticket tables
and two mutexes. The *CLI* shares the vault account but not the provider: its commands are
separate processes that meet only in the configuration directory, the keyring and on the
server.

**Where it is hard.** The 40 hazards in `PROJECT.json` name the lines: checks made under
one lock and used under another; commands racing the release and the POST; writes that
fail after the rename; a crash between any two of claim, release, start, post and finish;
audits and queues at their limit; waits that must end; processes and leases that outlive
the provider; files that two commands read and write without a lock.

## The modules

| Module | Models | Role |
|---|---|---|
| `RequestRecord` | `direct_request.rs`, `history.rs` | constants, the record type, `transition`, `validate` as operators |
| `ProviderStore` | `provider_store.rs`, `provider.rs`, `agent_binding.rs` | the durable state machine, one action per operation, crash and recovery |
| `OneTimeApproval` | what an approval promises | abstract specification, implemented by `ProviderStore` and by `ProviderApplication` |
| `ProviderApplication` | `application.rs`, the queue and supervisor as `run_execution` sees them | threads, mutexes, time, consumers, faults |
| `SupervisedLaunch` | `supervisor.rs` (`execute`), `manager.rs`, `bridge.rs`, `ssh_agent.rs`, `ssh_material.rs` | what a launch leaves outside the provider: lease, unit, helper, consumer, signature, files |
| `Companion` | `companion.rs`, `companion_identity.rs`, `companion/management.rs` | threads, tickets, mutexes, registry and journal with failing writes, crash, fence, offline console |
| `LoopbackUi` | `loopback_ui.rs`, with what `application.rs` does for it, and its part of `vaultwarden-accessd.rs` | launches and their files, browser sessions, three mutexes, connection threads, serving loop, shutdown, crash |
| `CliSession` | `commands.rs`, `config.rs` | the session commands as concurrent processes over shared files and keyring |
| `SecretWrite` | `commands.rs` (`create_secret`, `reconcile_secret`), `write_journal.rs`, `secret_storage.rs` | the attempt journal against crashes, lost answers and other clients |
| `MC*` | | constant values and symmetry for TLC |
| `ProviderStoreProofs`, `OneTimeApprovalProofs` | | theorems about `ProviderStore`; the second has the refinement |
| `ProviderApplicationProofs` | | theorems about `ProviderApplication`, the refinement included |
| `SupervisedLaunchProofs`, `CompanionProofs`, `LoopbackUiProofs`, `CliSessionProofs`, `SecretWriteProofs` | | theorems about the module each is named after |

### RequestRecord and ProviderStore

`state` is the contents of the state file (`ProviderState`), `poisoned` the flag of the
running process, `up` says that a process holds the writer lock and has recovered;
`consumed` is history (every replay marker ever accepted). The in-memory copy
`Provider.state` is written but never read for a decision, so it does not appear.

The writer lock makes an operation of `Provider` atomic with respect to other processes
and `gate` does so for threads, so each operation is one step: it reads, validates,
computes, validates and replaces the file. What is *not* atomic is the replacement.
`write_state` has the outcomes of `write_state_guarded`: nothing happened (failed before
the rename), replaced, or replaced-or-not and poisoned (the directory sync failed, or the
guard refused after the rename). A poisoned store refuses everything until the process
ends; `Crash` and `start` (recovery: `invalidate_recovered`) follow.

Data that no property tells apart is left out: digests, labels of reviews, times,
redacted texts. An approval binding is a function of immutable facts of the record, so
only its presence is kept. Records of the two older formats and the failure
`ExecutionRejected`, which the provider never records, are not modelled. Deadlines are
nondeterministic (`expire_direct` takes any set of elapsed requests). Two points a reader
may not expect are the code's: a `Failed` or `Uncertain` receipt still blocks its
destination, and `record_write` looks at no status, so that only the validation of the
audit keeps a terminal record from being changed.

### ProviderApplication

`gate` and `release_gate` hold their owner across steps wherever the code holds them
across something another thread can interleave with; short critical sections are single
steps that require the mutex to be free. The lock order is gate, release_gate, executions
on every path. `executions` is the registry map and `cancel` the flags of its entries.
Counters that are only compared for equality are kept as that comparison: `current`,
`w.stale`, `published`, `prepared` (see the module's header). `consumer` is what runs
outside the provider; `released`, `posted` and `settled` are history variables for the
properties.

* The worker is one thread: `take`, `enter`, `claim`, `claim_synced`, `prepare`,
  `resolve`, `launch`, `release_checks`, `release_takes_gate`, `deliver`, `started`,
  `observe_exit` or `observation_lost`, `write`, `post_takes_gate`, `post`, `finish`,
  `settle`, `deregister`; `abandon` is the early return of every stage.
* Agent claims are made under `release_gate`, human claims are not (`claim_holds`).
* `lapsed` is the guard of a claim refusing *after* the rename: it poisons the store
  without any fault of the disk.
* A controller is a thread in `lock`, `shutdown`, `cancel_execution` or `revoke_agent`:
  publish, take the gate and write, wait, return or time out.
* `poll` stands for every handler that only admits and expires. `submit` folds the
  re-acquisition of `release_gate` by a signed submission into one step (`gate` is held
  throughout). `post` merges `create_secret`, `record_write` and verification: `gate` is
  held from the check to the record.
* With `Faults`, store writes, the backend's `clear`, the worker's dependencies and the
  supervisor may fail, and the process may crash at any step. A missing `ExecConfirmed`
  is a lost observation. `CleanupEvidence::Uncertain` is never produced by the production
  supervisor, but the port allows it and the application handles it, so it is modelled.

### SupervisedLaunch

ProviderApplication sees a launch as release, observation and one report. This module is
the inside of it: `execute` of the one worker thread (`pc`, `err`, `sent`), the runtime
directory (`staging`, `leases`, `sockets`), the user manager's `unit`, the `helper` with
its `consumer` and a `descendant`, the two directions of the channel (`inbox`, `outbox`),
and the SSH `agent` with its `endpoint` and `material`. `live` is the authority
(`ExecutionControl::live`), which lock, cancel or expiry may end at any step; `report` is
the `Supervision` returned.

* `record` is three steps (staging file, hard link, unlink), as a crash between them
  leaves different files; when it fails the staging file is removed, if it can be.
  `forget` unlinks a lease and syncs: either may fail, so the lease may be gone and the
  provider unhealthy all the same. `start` may be accepted, collide with a foreign unit, or lose
  its reply, after which the job may still run (`job_runs`).
* The helper forks only after RELEASE, and RELEASE counts even if the provider has hung up
  behind it. A child whose tracer dies resumes; nothing ever signals a consumer.
* `exec_confirmed` has the failures of `started()` and of the missing recipient after it;
  `agent_fails` is an accept error, which ends `execute`.
* A signature is made (`agent_signs`), cleared under the release gate
  (`signature_cleared`: authority and recipient once more) and written
  (`signature_sent`). The gate is held from the second to the third, so the authority
  cannot end in between; the consumer may die, which is why `SignatureIsAuthorized` asks
  for a running consumer at the clearing and for live authority up to the write.
* `reclaimed` and `detached` are the two ends of the wait for `unused`; `verdict` turns
  any error after the release into `ObservationLost`.
* `crash` drops the provider's memory and descriptors; recovery (`recover_leases`,
  `forget_unused`, `recover_agent`, `recovered`) runs before admission. `recover_agent`
  removes endpoint, files, record and directory one at a time and may stop after each.

`Cancelled` is merged with `ExecutionFailed` (no property tells them apart). SSH peers
other than the recipient are dropped without effect, so they are left out. Three facts a
reader may want, none of them contradicting a checked property:
`ssh_material.rs:312` says that a partial cleanup can resume after a restart, but a crash
before `agent.json` is written, or after it is removed and before the directory is, leaves
a directory under `ssh/agents` that `recover_agent` never reclaims, and the owner's
`recover_stopped` then fails each time; start-up ignores that result
(`supervisor.rs:114`) although `docs/access-mvp.md:785` has residuals make new SSH
requests unavailable; and `recover_strict` succeeds with a live unit.

### Companion

A thread of `th` serves one connection at a time: `dispatch` takes the ticket out of its
table (`consume`), then the command tries the authentication slot `auth` (never waits),
authenticates without a lock, waits for `commit` (`identity_commit`), checks again and
takes effect. Registry and journal are files replaced by a rename; `persist_fails` and
`save_fails` are the two outcomes of a failed write. `begun` remembers which actions have
denied their target anything. Time is `ticket_expires` and `deadline_passes`. The
provider behind it is reduced to admission, session, generation, epoch, one request and
the agents' revocation.

The registry keeps its two kinds of audit entries as two counts: `audit` grows with
identities, and `key_audit` is cut back to its limit by `biometric_audit`. The version
number of the file is left out: `serialize` sets it on every write to what the content
asks for, which is what `valid_biometric` compares it with.

* A revocation writes its intent (`commit_revoke`, or `intent_lost` when that write
  fails), revokes (`revoke_durably`, `revoke_uncertain`) and records the outcome. A new
  process reads the journal first (`recovery_fence`) and closes admission if any action is
  unsettled. `reconcile_begin`, `reconcile_mutate` and `reconcile_mark` are the owner's
  offline command, which may stop after any of its writes.
* An approval whose dispatch to the worker fails closes admission (`dispatch_failed`), a
  step after its commit and with both mutexes released: other threads run in between.
* `enroll`, `grant_administrator` and `revoke` are the console commands that need the
  provider stopped.

The model also shows: `reconcile_stopped` appends its intent before it knows that the
target exists (`management.rs:995`), so a mistyped target leaves an action that nothing can
settle and admission closed on every start; the journal's 128 actions are never pruned;
and since the authentication slot already excludes key changes during an approval, the
second look of an approval under `identity_commit` is defence in depth; a denial holds no
slot and rests on it.

### LoopbackUi

Without a companion the human approves in a browser. A submission that reaches the broker
writes a private file with a one-use capability and asks the desktop to open it; the
browser exchanges the capability for a session (cookie and proof) of the authority's
current `generation` and decides with it. Three mutexes meet: the UI's (`ui`), held by a
connection thread while it handles a request but not while a password is verified; the
provider's `gate`, taken by every call of the application; and the broker's, which a
submission enters with the gate held and keeps, with it, while the desktop opens the file
(`sub`). `gate_free` and `broker_free` say what that leaves to the others.

* Each call of the application is one step, so a handler is as many steps as it makes
  calls: `exchange_take`, `exchange_status`, `exchange_grant`; `authorize`, `prepare`,
  `password`, `reauthorize`, `commit` (a denial goes from `prepare` to `commit` with the UI
  locked). In between, other threads lock, unlock, expire or close.
* `revoke_from` moves the generation on first and may then fail, with or without the
  records having been ended. `admit` ends an open session once admission is closed; the
  further revocations that later calls make are left out, as no session opens any more.
* The serving loop is `prune_begins`, `prune`, `prune_ends`, `accept`, `overload`,
  `loop_ends`, `early_lock`, `join`, `final_lock`. One turn of it is a step; a thread that
  has finished is a free place; a connection that finds `stop` set, or sends nothing in
  time, is a `turn_away`.
* `drop` is the end of a `RequestLaunch`: its file is removed, unless `remove_file` fails,
  which the code ignores. `left` is history: the files that stayed. Their capability is
  dead, `NoStrayCapability` says so, and `ReturnedMeansLocked` allows them only.
* `crash` keeps the records and the files; `start` recovers the records and `bind` discards
  the review files.
* Cookies, proofs and capabilities are 256 random bits: a session is its number, a
  capability its request. `born` is history: the generation in which the exchange found its
  request pending.

The model shows that a request session is not tied to the request it was launched for: it
may decide any pending request of its generation. That is the code's intent (a launch that
finds a current session of its browser hands out that session again), so
`DecisionIsFromItsLaunch` speaks of the provider session and not of the request.

### CliSession and SecretWrite

Each command is a process: `pc`, `cmd` and its `Config` in memory (`mem`). The files are
absent, torn between truncation and write, or hold a value; the keyring may go away and
come back (`keyring_service`), and any process may be killed (`crash`), which frees its
file lock. An account's server and email are named by the client alone. `redeemed`,
`lost`, `locked`, `disturbed`, `leaving` and `loggedOut` are history.

`TokenGoesToItsIssuer` and `RefreshedOnce` are conditional on a keyring that answers
throughout (`steady`): `tokens.json` is not kept per account, so with the fallback a reload
can pick up another account's token. A lock into which an unlock runs is exempt from
`LockHolds` (`disturbed`): the two commands simply overlap. A torn `config.json` is
reached, but nothing is claimed of it.

`SecretWrite` models one destination. `begin` is the no-clobber creation of the journal
file; a POST creates the item and answers, or its answer is lost (`post_lost`), or it is
refused. `verify` and `reconcile_check` apply `check_sync` and `check_item` to what the
server then holds; `edit_item` and `edit_folder` are other clients of the vault. `made`
and `bound` are history.

## Runs

| Run | Instance | States | Shows |
|---|---|---|---|
| `store` | 2 requests, 1 agent, 2 nonces, 1 revision, 2 items, epoch up to 2 | 262,802 | two requests compete for nonces and one destination through every failure, revocation and reconciliation |
| `application` | one producer request of an agent, 2 controllers, faults | 1,104,513 | lock, cancel and revoke against the worker, against each other, against faults and crashes |
| `two_requests` | an agent's request and the human's producer, 1 controller, queue of 1 | 2,646,565 | the queue at its limit, claims that overlap, guard lapses, without faults |
| `liveness` | one request, 2 controllers, `FairSpec` | 244,570 | controllers return and the worker leaves dead executions |
| `cli_session` | 2 processes, 2 accounts, 3 commands, 3 tokens each, 1 change of the keyring | 270,000 | concurrent commands, outages, kills, expiring tokens |
| `secret_write` | 2 processes, 2 attempts, 2 items, 2 edits by others | 375,000 | creation and reconciliation against each other, kills, lost answers |
| `companion` | 2 threads, 2 devices, 1 agent, 2 keys, 2 tickets issued, 2 starts, 1 unlock; all tables at their limit | 2,529,524 | decisions, key changes and revocations racing, failing writes, crash, offline commands |
| `loopback` | 2 connections, 2 requests, 1 launch and 1 session of each role at a time, 4 generations, 3 sessions drawn, 1 file that stays, faults | 2,076,001 | exchanges, unlocks, locks and decisions against submissions, expiry, shutdown and crash |
| `launch` | an SSH launch and a forking launch, 1 fault | 2,152,464 | every step of a launch with a crash, kill, timeout or failed call at any of them |
| `lock_stops_descendants` | expected violation | | finding 1 |
| `logout_clears` | expected violation | | finding 2 |
| `never_retargeted` | expected violation | | finding 3 |

**Properties.** In `ProviderStore`: `EndingIsNeverRefused` (the operations that end
authority are never refused by the store's own validation, so the owner is never locked
out), `RevokedAgentHoldsNothing`, `OneAttemptPerDestination`, `AcceptedNonceStaysSpent`,
`TerminalIsFinal`, `ImplementsOneTimeApproval`. In `ProviderApplication`:
`SettledStaysQuiet` (after a returned lock, cancel or revoke nothing it covers is released
or posted), `ReleaseIsAuthorized`, `PostIsAuthorized`, `NoOrphanedClaim`,
`RevocationSeesEveryClaim`, `ImplementsOneTimeApproval`, and the liveness properties
`ControllersReturn` and `DeadExecutionEnds`. In `SupervisedLaunch`: `LeaseCoversConsumer`,
`ReapedMeansGone` (evidence once reported stays true even if a late job brings up the unit),
`ReportIsTrue`, `SignatureIsAuthorized`, `MaterialServesAgent`. In `Companion`:
`RegistryReadable`, `DecisionIsCurrent`, `RevocationFence` (once a revocation has denied
anything, the provider admits work only if it is durable), `ReceiptIsTrue`,
`TicketSpentOnce`, `NoThreadStuck` (unlock takes the two mutexes in the opposite order;
every thread that is not idle can take a step, unless it waits for `identity_commit`). In
`LoopbackUi`: `DecisionIsFromItsLaunch`, `NoStrayCapability`, `ReturnedMeansLocked`,
`NothingStuck`. In `CliSession`: `LockHolds`, `TokenGoesToItsIssuer`, `RefreshedOnce`. In `SecretWrite`:
`CreatedOnce`, `NothingSentUnrecorded`, `VerifiedIsOwnItem`. Each is broken by a mutant of the code it is
about: the `*_blindly`, `*_unchecked`, `*_unregistered`, `*_leaks` ... definitions in the
modules are these mutants and appear in no action otherwise.

**Bounds.** `MaxEpoch` plays `u64::MAX`: 2 allows a start and a lock, and the refusal at
the end is reached. Two requests are what a competition for a nonce, a destination, the
queue or the worker takes; two controllers what two concurrent commands take. What the one
agent and the one revision of `store` leave out (label reuse, an operation provisioned
again) is covered by the theorems about `ProviderStore`, which hold for all of them. `QueueCapacity` 1 makes
the queue overflow with two requests. Histories are bounded without a bound in the model:
a request has a finite life and the identifiers are few. In `cli_session` three commands
are what it takes to log in, use or lock, and race a third; the token bound lets a token be
refreshed twice. In `companion` two tickets and two starts give one revocation against one
decision and a restart after a crash; retired keys, actions and tickets are limited to one
so that every limit is reached, and the key audit starts one short of its two. In `loopback` four generations are a start, an unlock, its
end and a second unlock (a session may outlive the generation it was drawn in), three
draws a provider session, a request session and its rotation; one launch and one session
of a role at a time put both tables at their limit, and two connections make a third one
an overload. One file that cannot
be removed (`MaxLeft`) leaves the other request's for the launch that follows. In `launch` one fault per behaviour is enough to separate
any two steps, and the second launch runs after it, with the leases of the first still
there. Deadlock is not checked because
the system may really stop: every request over and the last epoch used, or the process
failed closed.

**Symmetry** is used only for safety, over sets whose elements the definitions treat
alike; the liveness run has none.

**Fairness.** `FairSpec` assumes weak fairness of the worker thread, of the dispatching
thread and of each controller's own steps: they are OS threads in straight-line code whose
waits are on mutexes and on a condition variable. Nothing obliges the human, a deadline,
the consumer or a fault: `ControllersReturn` holds even when the consumer never exits,
because the observation loop re-checks its authority. Since `std::sync::Mutex` is not fair,
a waiter could starve behind commands that arrive forever; `CommandsStop` assumes that
they stop eventually. One exception is part of the property: `lock` waits for *every*
registered execution, so a session that begins after it was published can hold it until
its timeout.

## Findings

1. *"Lock or cancellation stops its descendants"* (`src/access/direct_request.rs:704`, in
   every review the human sees). A lock or cancel detaches and never signals a consumer
   (`src/adapters/supervisor.rs:273`), as `docs/access-mvp.md:409` says. Run
   `lock_stops_descendants` shows a consumer still running after the lock returned.
2. *"Logout completely (clears all saved data)"* (`README.md:280`; likewise
   `src/commands.rs:350`, `src/config.rs:964`). `Config::clear` sets `client_id` to `None`
   (`src/config.rs:972`) before it deletes the keyring entries that are found by it, so
   the vault keys and tokens of the account survive in the keyring. Run `logout_clears`.
3. *"cannot retarget a receipt"* (`src/commands.rs:2542`; `docs/secret-storage.md:190-194`).
   `reconcile_secret` saves the journal it read before its requests to the server, and
   nothing orders it with `create_secret`: a receipt bound meanwhile is bound again to
   another item, and its Verified status is lost. Run `never_retargeted`.

A comment, for completeness: `src/access/application.rs:1386` says that a lock racing an
admission makes it stale. That is true of a lock that publishes after the load on line 1389
only; one published just before leaves the execution fresh. `SettledStaysQuiet` still
holds, as the lock then ends and awaits it.

## Proofs

Every theorem is about the module's `Spec` and holds for every value of its constants.

| Module | Theorem | States |
|---|---|---|
| `ProviderStoreProofs` | `TypeCorrect` | `[]TypeOK`, the epoch bound included |
| | `RevokedHoldNothing` | `[]RevokedAgentHoldsNothing` |
| | `OneAttempt` | `[]OneAttemptPerDestination` |
| | `NonceSpent` | `[]AcceptedNonceStaysSpent` |
| | `FileAlwaysValidates` | `[]FileValidates`: every state that ever reaches the disk passes the validation of every read |
| | `TerminalFinal` | `TerminalIsFinal` |
| `OneTimeApprovalProofs` | `OneTime` | `ImplementsOneTimeApproval`: the store refines `OneTimeApproval` |
| | `EndingNeverRefused` | `[]EndingIsNeverRefused` |
| `ProviderApplicationProofs` | `TypeCorrect` | `[]TypeOK`, the queue's capacity included |
| | `NoOrphans` | `[]NoOrphanedClaim` |
| | `RevocationComplete` | `[]RevocationSeesEveryClaim` |
| | `SettledQuiet` | `SettledStaysQuiet` |
| | `ReleaseAuthorized` | `ReleaseIsAuthorized` |
| | `PostAuthorized` | `PostIsAuthorized` |
| | `OneTime` | `ImplementsOneTimeApproval`: the process refines `OneTimeApproval` |
| `SupervisedLaunchProofs` | `TypeCorrect` | `[]TypeOK`: one launch at a time, bounded packets in the bridge |
| | `ConsumersLeased` | `[]LeaseCoversConsumer` |
| | `EvidenceHolds` | `[]ReapedMeansGone` |
| | `ReportsTrue` | `[]ReportIsTrue` |
| | `MaterialKept` | `[]MaterialServesAgent` |
| | `SignaturesAuthorized` | `SignatureIsAuthorized` |
| `CompanionProofs` | `TypeCorrect` | `[]TypeOK`: the journal on disk is one that `read_journal` accepts |
| | `AlwaysReadable` | `[]RegistryReadable` |
| | `SpentOnce` | `[]TicketSpentOnce` |
| | `FenceHolds` | `[]RevocationFence` |
| | `ReceiptsTrue` | `[]ReceiptIsTrue` |
| | `DecisionsCurrent` | `DecisionIsCurrent` |
| | `HolderAtWork` | `[]HolderNeverWaits`: whoever is waited for is being served and waits for nobody |
| `LoopbackUiProofs` | `TypeCorrect` | `[]TypeOK` |
| | `DecisionsFromLaunch` | `DecisionIsFromItsLaunch` |
| | `NoStray` | `[]NoStrayCapability` |
| | `ReturnsLocked` | `[]ReturnedMeansLocked` |
| `CliSessionProofs` | `TypeCorrect` | `[]TypeOK`: the refresh lock is held exactly from reload to save |
| | `LockedStaysLocked` | `[]LockHolds` |
| | `TokenStaysHome` | `[]TokenGoesToItsIssuer` |
| | `RefreshOnce` | `[]RefreshedOnce` |
| `SecretWriteProofs` | `TypeCorrect` | `[]TypeOK` |
| | `NeverReplayed` | `[]CreatedOnce` |
| | `AlwaysRecorded` | `[]NothingSentUnrecorded` |
| | `VerifiedOwnItem` | `[]VerifiedIsOwnItem` |

**Assumptions.** The named `ASSUME`s of the modules, which TLC evaluates in every run:
sentinels (`Human`, `NoNonce`, `NoItem`, `NoClient`, `Free`, `Absent`, `Torn` ...) are
outside their sets, policy functions have their domains, bounds are natural numbers.
Nothing is assumed of how many agents, requests, threads, processes, launches or faults
there are, but that the companion's devices are finitely many.

**ProviderStore.** With twenty actions, each of which may have a failing write, a direct
induction would repeat every case for every invariant. Instead each action is first shown
to have one of a few *shapes*: records evolve along legal transitions only (`Ordinary`),
an agent is revoked together with its unclaimed requests (`Revokes`), a fresh record
appears under an unused identifier for an enabled owner (`Creates`), or one record gets a
receipt after the destination check (`Attempts`); one lemma per action, combined in
`StepShape`. The invariants are then proved against the shapes. None of them is
inductive alone: each needs `TypeOK`; `RevokedAgentHoldsNothing` needs that a revoked
binding is never enabled again and that `Creates` requires an enabled one;
`AcceptedNonceStaysSpent` needs that a record keeps owner and nonce. `TerminalIsFinal`
needs `FileValidates`: `record_write` has no status guard, and it is the validation of the
new state, together with the fact that the terminal event has frozen the receipt, that
refuses a late result.

**OneTimeApproval.** `Evolution` lists what a step can make of one record, and
`StepEvolution` shows that every step of the store evolves every record. The invariant is
`Lawful`: a claim follows the decision, a Running record is claimed, and the start of an
execution is in the audit only of a record that got that far. `EvolutionRefines` shows that
an evolution keeps a record lawful and is, under the refinement mapping, a stutter, a move
or the one use. `EndingIsNeverRefused` follows from `TypeOK`, `FileValidates` and
`Lawful`: since each event of a valid audit but the reconciliation follows an edge of the
lifecycle, an open record has at most three events and an ended one that is not reconciled
at most four (`AuditRoom`), so the fifth place is always there for the event that is added.
The proof needs no induction over the audit, only its first three places.

**ProviderApplication.** One inductive invariant, `IInv`, gives all seven theorems.
`Mutexes` says who holds `gate` and `release_gate` at which step; `Registered` and
`Claimed` tie the worker's step to `executions` and to its record; `Authorized` is what the
worker has checked and not yet used (the session and the epoch from `release_checks` on,
the flags from `release_takes_gate` on); `Once` puts every release and every POST into the
past of its claim; `Achieved` is what a controller has made true by the time it waits, and
`Quiet` what stays of it when it has returned: the request is not registered, and it is
claimed, ended or its agent's for good. `Authorized` alone is not inductive, nor is
`SettledStaysQuiet` true of a single step without `Quiet`: a request may be settled before
it is claimed, and only the denied token or the ended record keeps the worker from it.
The steps fall into three kinds, each with its frame lemma: those of everybody but the
worker (`Apart`), which may touch the store or the session only while the worker does not
hold `gate`, and close, deny, cancel or publish only while it does not hold `release_gate`
(or, for the flags of `revoke_store`, `gate`); those of the worker with an execution
registered (`WorkerMove`, `PlainMove`); and those without (`ClaimlessMove`). The claim and
the crash stand alone. Each step also moves every record along `RecordStep`, which
`PhaseSteps` maps to a stutter or a move of `OneTimeApproval`.

**SupervisedLaunch.** All state but `daemon`, `healthy` and `faults` belongs to one launch,
so the invariant is a predicate `Inv(l)` of one launch, and a step of one launch leaves
that of another alone (`Same`, `Local`). `Inv` has seven parts: which step of the worker
goes with which file (`Control`); what exists for each state of the helper, and that
whatever was let in has a lease (`Lineage`); that nothing has been released before RELEASE
was sent (`NotReleased`); what REAPED promises while it is still in the channel
(`Evidence`); where an exit status is on its way to the report (`Results`); how many
packets can be under way (`Backlog`); and the order in which key, files and endpoint appear
and disappear (`Key`). The messages under way make the difference: none of the five
invariants is inductive without a statement about the channel.

**Companion.** `CInv` says what a thread holds at each step: a revocation holds
`identity_commit` from its intent to its outcome, and its entry in the journal stays
as it announced it; the console runs only while the daemon does not. `IdInv` (ticket
numbers are drawn once) gives `TicketSpentOnce`, `FInv` (`OutcomeTrue`: what a thread is
about to put on the receipt is true; `MarkTrue`, the same of the console) gives
`RevocationFence` and `ReceiptIsTrue` together: each needs the other, since a receipt may
reopen admission.

`HolderAtWork` is the part of deadlock freedom the prover reaches: a waiting thread waits
for another one that is at work and waits for nobody, so there is no circle.

**LoopbackUi.** The inductive invariant `UInv` is `Types /\ Control /\ Down /\ Current /\
Files /\ Shut`. `Control` says which step a thread holds the UI mutex at; `Down` that a
process that is not up holds nothing. `Current` is the heart of `DecisionIsFromItsLaunch`:
while the authority is open, a thread past its status check, a request session and a thread
about to commit that carry the current generation all go back to an exchange of that very
generation. It is inductive for a reason that is easy to miss in the code: only an unlock
opens a session, an unlock needs the UI mutex, and an exchange holds it from its status
check to its grant, so that the generation in which the request was found pending cannot be
closed and another one *opened* before the session is drawn; and an unlock always moves the
generation on, so that a session drawn while nothing was open is never current again.
`Files` counts every review file once, with the broker, in one thread's hands or left; it needs
that a request is submitted once. `Shut` says what is final at each stage of the
shutdown: after `early_lock` nothing is open and no submission is admitted, so a gate that
is free afterwards has left no submission in the broker.

**CliSession.** `TInv` ties the step of every process to its command, to its configuration
in memory and to the file lock. `LockHolds` needs that a lock between its two deletions has
emptied the keyring entry (`KeysGone`). The two token properties are invariants only while
the keyring answers: `Fresh` says that a token is stored under the account it was issued to,
that one on its way is new, and that what the keyring holds is unspent or its successor is
being brought by the holder of the lock.

**SecretWrite.** `IInv` says that every command past `begin` works on the one published
attempt (`OneJournal`), that one command at most is about to send and nothing was sent
before it (`OneSender`), and that `Failed` is recorded, or about to be, only if nothing was
sent (`FailedIsTrue`). `CreatedOnce` rests on the no-clobber creation alone: a command that
is killed and run again finds the journal and never reaches `post`.

Each inductive invariant was checked with TLC before it was proved, that of
`SupervisedLaunch` also with five faults. One definition changed for the proofs: the
refinement mapping of `ProviderStore` gave an ended and claimed request two phases
(overlapping cases, of which TLC takes the first); they are now exclusive.

**Only model-checked.** The liveness properties `ControllersReturn` and `DeadExecutionEnds`
and the deadlock properties `NoThreadStuck` and `NothingStuck` (fairness and `ENABLED` are
outside the prover). The `TypeOK` of `CliSession`, `SecretWrite` and `LoopbackUi` and
`HolderNeverWaits` are proved and not in a run: a proof covers every instance.
The findings are counterexamples and need no proof.

## Not modelled

Cryptography, parsing, encodings and digests (pure data); HTTP, TLS and the keyring's
inside; request parsing, cookie syntax and the page of the loopback UI; the transports (`human_socket.rs`, `unix_socket.rs`, `agent_wait.rs`), whose
every effect is a call of the application; file-descriptor and executable checks; the CLI
commands that only read (`list`, `get`, `run`, selection, TOTP); the macOS supervisor
(`adapters/native`), a different design with a reaper process; the companion application,
mostly generated bindings around the protocol modelled in `Companion`. Much of the
repository's Rust is test code inside the same files, and a source snapshot is kept under
`docs/`; neither is behaviour to model. `PROJECT.json` lists each part with its status.

## Plan

1. *(done)* `RequestRecord`, `ProviderStore`, `OneTimeApproval`, their runs and theorems.
2. *(done)* `ProviderApplication` against the same abstract specification.
3. *(done)* `SecretWrite` and `CliSession`.
4. *(done)* `Companion`: decisions and management in one module, since they share the
   mutexes and the registry.
5. *(done)* `SupervisedLaunch`: manager, bridge, SSH agent and material together, since one
   thread drives them all.
6. *(done)* `LoopbackUi`: launches, browser sessions, serving loop and shutdown.
7. *(done)* Proofs about every component module: `ProviderStore` and `ProviderApplication`
   with their refinements of `OneTimeApproval`, `SupervisedLaunch`, `Companion`,
   `LoopbackUi`, `CliSession` and `SecretWrite`.
8. Later: the macOS reaper where its control differs.
