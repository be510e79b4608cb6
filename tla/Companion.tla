------------------------------ MODULE Companion -----------------------------
(***************************************************************************)
(* The companion endpoint of the provider: decision tickets and decisions  *)
(* (companion.rs), the enrolled devices and their biometric keys           *)
(* (companion_identity.rs), and remote management with its action journal, *)
(* recovery fence and offline reconciliation (companion/management.rs).    *)
(*                                                                         *)
(* Up to eight connections are served by threads of their own.  They share *)
(* the ticket tables, the authentication mutex (only ever tried), the      *)
(* identity_commit mutex (waited for), and two files, each replaced by a   *)
(* rename: the registry and the journal.  The process may be killed at any *)
(* step, and a write may fail with or without having landed.               *)
(*                                                                         *)
(* The provider behind it is reduced to what its calls depend on: whether  *)
(* admission is closed, the session with its generation and revocation     *)
(* epoch, one request, and the agents' in-memory and durable revocation.   *)
(***************************************************************************)
EXTENDS Naturals, FiniteSets, Sequences

CONSTANTS
    Threads, Nobody, Devices, NoDevice, Agents, Keys, NoKey,
    MaxIdentities, MaxTickets, MaxRetired, MaxKeyAudit, MaxActions,
    InitialDevices,   \* enrolled as administrators at first,
    InitialKeys,      \* their keys,
    InitialKeyAudit,  \* and the entries about keys in the audit log
    MaxIssued,        \* tickets issued
    MaxStarts,        \* times the daemon is started
    MaxUnlocks,       \* unlock commands
    Faults            \* whether writes may fail

ASSUME NoneAssumption ==
    Nobody \notin Threads /\ NoDevice \notin Devices \cup Agents /\ NoKey \notin Keys
ASSUME DeviceAssumption == InitialDevices \subseteq Devices /\ Agents \cap Devices = {}
ASSUME BoundAssumption ==
    {MaxIdentities, MaxTickets, MaxRetired, MaxKeyAudit, MaxActions, MaxIssued, MaxStarts, MaxUnlocks}
        \subseteq Nat
ASSUME KeyAssumption ==
    /\ InitialKeys \in [Devices -> Keys \cup {NoKey}]
    /\ \A d \in Devices : InitialKeys[d] # NoKey =>
          d \in InitialDevices /\ \A e \in Devices \ {d} : InitialKeys[e] # InitialKeys[d]
    /\ IsFiniteSet(Devices) /\ Cardinality(InitialDevices) <= MaxIdentities
    /\ InitialKeyAudit \in 0..MaxKeyAudit
ASSUME FaultAssumption == Faults \in BOOLEAN

VARIABLES
    registry,   \* companion-identities.json
    agents,     \* agents durably revoked
    journal,    \* companion-management-actions.json
    up, offline, \* the daemon runs; what the owner's console is doing
    closing, failed, session, gen, epoch, denied, \* the daemon's memory
    request, by, \* the request, and who decided it with which key
    tickets, th, auth, commit, \* tables, threads and the two mutexes
    begun,      \* history: actions that have denied their target something
    count       \* bounds: tickets, starts, unlocks

disk == <<registry, agents, journal>>
app == <<closing, failed, session, gen, epoch, denied>>
decision == <<request, by>>
service == <<tickets, auth, commit>>
vars == <<disk, up, offline, app, decision, service, th, begun, count>>

Targets == Devices \cup Agents
Ticket == [kind : {"decision", "identity", "enroll", "revoke_key"}, actor : Devices,
           target : Targets, gen : Nat, epoch : Nat, fresh : BOOLEAN, id : Nat]
Blank == [kind |-> "decision", actor |-> NoDevice, target |-> NoDevice,
          gen |-> 0, epoch |-> 0, fresh |-> FALSE, id |-> 0]
Idle == [pc |-> "idle", cmd |-> "none", ticket |-> Blank, key |-> NoKey,
         action |-> 0, revocation |-> "Pending", cleanup |-> "Pending"]
Commands == {"approve", "approve_key", "deny", "revoke", "enroll", "revoke_key"}

-----------------------------------------------------------------------------
(* The registry.                                                           *)

key_ids(r) == {r.key[d] : d \in r.enabled} \ {NoKey}

(* Mutant: the key of a revoked device stays on file.                      *)
retire_biometric_keeps(r, d) == r

(* retire_biometric, and trim_touch_id_housekeeping of the write after it. *)
retire_biometric(r, d) ==
    IF r.key[d] = NoKey THEN r
    ELSE LET all == Append(r.retired, r.key[d]) IN
         [r EXCEPT !.key[d] = NoKey,
                   !.retired = IF Len(all) > MaxRetired THEN Tail(all) ELSE all]

(* biometric_audit: one more entry about a key, the oldest goes.           *)
biometric_audit(n) == IF n < MaxKeyAudit THEN n + 1 ELSE n

(* enroll_biometric_online.                                                *)
may_enroll_key(r, d, k) ==
    d \in r.enabled /\ k \notin key_ids(r) /\ \A n \in DOMAIN r.retired : r.retired[n] # k
with_key(r, d, k) ==
    [retire_biometric(r, d) EXCEPT !.key[d] = k, !.key_audit = biometric_audit(@)]

(* revoke_biometric_online.                                                *)
without_key(r, d) ==
    IF r.key[d] = NoKey THEN r
    ELSE [retire_biometric(r, d) EXCEPT !.key_audit = biometric_audit(@)]

(* revoke_online, and the console's revoke.                                *)
with_revoked(r, d) ==
    IF d \in r.revoked THEN r
    ELSE [retire_biometric(r, d) EXCEPT !.enabled = @ \ {d}, !.revoked = @ \cup {d},
              !.administrators = @ \ {d}, !.audit = @ + 1]

(* grant_administrator.                                                    *)
with_administrator(r, d) ==
    IF d \in r.administrators THEN r
    ELSE [r EXCEPT !.administrators = @ \cup {d}, !.audit = @ + 1]

(* What registry() accepts when it reads the file back.  (The version of   *)
(* the format is left out: serialize sets it from the content on every     *)
(* write, to the one that valid_biometric asks for.)                       *)
registry_valid(r) ==
    /\ r.enabled \cap r.revoked = {}
    /\ Cardinality(r.enabled \cup r.revoked) <= MaxIdentities
    /\ r.administrators \subseteq r.enabled
    /\ r.audit <= 2 * MaxIdentities /\ r.key_audit <= MaxKeyAudit
    /\ Len(r.retired) <= MaxRetired
    /\ \A d \in Devices : r.key[d] # NoKey =>
          /\ d \in r.enabled
          /\ \A e \in Devices \ {d} : r.key[e] # r.key[d]
          /\ \A n \in DOMAIN r.retired : r.retired[n] # r.key[d]
    /\ \A m, n \in DOMAIN r.retired : r.retired[m] = r.retired[n] => m = n

(* persist_registry: a failure is reported with or without the rename.     *)
persist_registry(r) == registry' = r
persist_fails(r) == Faults /\ registry' \in {registry, r}

(* save_journal, likewise.                                                 *)
save_journal(j) == journal' = j
save_fails(j) == Faults /\ journal' \in {journal, j}

settled(a) ==
    \/ a.reconciled
    \/ a.revocation = "Recorded" /\ a.cleanup = "Complete"
    \/ a.revocation = "NotRecorded" /\ a.cleanup = "NotApplicable"

target_revoked(x) == x \in registry.revoked \/ x \in agents

-----------------------------------------------------------------------------
(* Authority.                                                              *)

authorized(d) == ~failed /\ d \in registry.enabled
administrator(d) == d \in registry.administrators
admitted == ~closing
live(d) == up /\ authorized(d)

finish(w) == th' = [th EXCEPT ![w] = Idle]
release(w) ==
    /\ auth' = (IF auth = w THEN Nobody ELSE auth)
    /\ commit' = (IF commit = w THEN Nobody ELSE commit)
end(w) == finish(w) /\ release(w)
at(w, l) == up /\ th[w].pc = l
goto(w, l) == th' = [th EXCEPT ![w].pc = l]

start(w, kind, t) ==
    /\ th[w].pc = "idle"
    /\ th' = [th EXCEPT ![w] = [Idle EXCEPT !.cmd = kind, !.ticket = t,
                !.pc = IF kind \in {"approve", "approve_key", "deny"} THEN "prepare"
                       ELSE IF kind = "unlock" THEN "unlock" ELSE "authenticate"]]

(* Authority::revoke: the session ends, and the open request with it.      *)
end_session ==
    /\ session' = "locked"
    /\ gen' = gen + 1
    /\ request' = IF request = "Pending" THEN "Ended" ELSE request
    /\ UNCHANGED by

-----------------------------------------------------------------------------
(* Tickets.  They are good for 55 seconds, unguessable, and of the session *)
(* generation they were made in.  (While admission is closed every one of  *)
(* these calls also ends the session once more, so a ticket made then is   *)
(* stale before it can be used: left out.)                                 *)

may_issue == count.tickets < MaxIssued   \* bound

issue(kept, kind, d, x) ==
    /\ tickets' = kept \cup {[kind |-> kind, actor |-> d, target |-> x, gen |-> gen,
                              epoch |-> epoch, fresh |-> TRUE, id |-> count.tickets + 1]}
    /\ count' = [count EXCEPT !.tickets = @ + 1]
    /\ UNCHANGED <<disk, up, offline, app, decision, th, auth, commit, begun>>

(* review: a new ticket for the request replaces the device's earlier one. *)
review(d) ==
    LET kept == {t \in tickets : ~(t.kind = "decision" /\ t.actor = d)} IN
    /\ may_issue /\ live(d) /\ admitted /\ request = "Pending"
    /\ Cardinality({t \in kept : t.kind = "decision"}) < MaxTickets
    /\ issue(kept, "decision", d, d)

identity_prepare(d, x) ==
    /\ may_issue /\ live(d) /\ administrator(d) /\ admitted
    /\ x \in registry.enabled \/ (x \in Agents /\ x \notin agents)
    /\ Cardinality({t \in tickets : t.kind = "identity"}) < MaxTickets
    /\ issue(tickets, "identity", d, x)

permitted(op, d, x) == x = d \/ (op = "revoke_key" /\ administrator(d))

(* BiometricPrepare: one outstanding ticket for each device and operation. *)
biometric_prepare(d, op, x) ==
    /\ may_issue /\ live(d) /\ admitted /\ permitted(op, d, x) /\ x \in registry.enabled
    /\ issue({t \in tickets : ~(t.kind = op /\ t.actor = d)}, op, d, x)

(* The 55 seconds pass, for a ticket in a table or one already in hand.    *)
ticket_expires(t) ==
    /\ t \in tickets /\ tickets' = tickets \ {t}
    /\ UNCHANGED <<disk, up, offline, app, decision, th, auth, commit, begun, count>>

deadline_passes(w) ==
    /\ th[w].ticket.fresh
    /\ th' = [th EXCEPT ![w].ticket.fresh = FALSE]
    /\ UNCHANGED <<disk, up, offline, app, decision, service, begun, count>>

(* Mutant: the ticket stays in the table.                                  *)
consume_keeps(t) == t \in tickets /\ UNCHANGED tickets

(* State::consume, take_ticket: whatever follows, the ticket is gone.      *)
consume(t) == t \in tickets /\ tickets' = tickets \ {t}

(* A command arrives with its ticket.  Management commands compare the     *)
(* generation at once, a decision in companion_prepare.                    *)
dispatch(w, kind, t) ==
    /\ live(t.actor) /\ th[w].pc = "idle"
    /\ CASE t.kind = "decision" -> kind \in {"approve", "approve_key", "deny"}
         [] t.kind = "identity" -> kind = "revoke" /\ administrator(t.actor)
         [] t.kind = "enroll" -> kind = "enroll"
         [] t.kind = "revoke_key" -> kind = "revoke_key" /\ permitted(kind, t.actor, t.target)
    /\ consume(t)
    /\ IF t.kind = "decision" \/ (admitted /\ t.gen = gen)
       THEN start(w, kind, t)
       ELSE UNCHANGED th
    /\ UNCHANGED <<disk, up, offline, app, decision, auth, commit, begun, count>>

unlock(w, d) ==
    /\ count.unlocks < MaxUnlocks /\ live(d)
    /\ start(w, "unlock", [Blank EXCEPT !.actor = d])
    /\ count' = [count EXCEPT !.unlocks = @ + 1]
    /\ UNCHANGED <<disk, up, offline, app, decision, service, begun>>

-----------------------------------------------------------------------------
(* Authentication and decisions.                                           *)

(* companion_prepare: the same review under the same generation.           *)
prepare(w) ==
    /\ at(w, "prepare")
    /\ IF admitted /\ session = "unlocked" /\ request = "Pending" /\ th[w].ticket.gen = gen
       THEN goto(w, IF th[w].cmd = "deny" THEN "commit" ELSE "authenticate")
       ELSE finish(w)
    /\ UNCHANGED <<disk, up, offline, app, decision, service, begun, count>>

(* The command is refused: the slot is taken (it is only tried), the       *)
(* limiter of five attempts a minute says no, or the password or the proof *)
(* is wrong.                                                               *)
refused(w) ==
    /\ at(w, "authenticate")
    /\ end(w)
    /\ UNCHANGED <<disk, up, offline, app, decision, tickets, begun, count>>

(* The password is right, or the proof verifies under the key on file now. *)
(* The slot is kept to the end of the command.                             *)
authenticate(w) ==
    LET proof == th[w].cmd = "approve_key"
        key == registry.key[th[w].ticket.actor] IN
    /\ at(w, "authenticate") /\ auth = Nobody
    /\ proof => key # NoKey
    /\ auth' = w
    /\ th' = [th EXCEPT ![w].pc = "commit", ![w].key = IF proof THEN key ELSE NoKey]
    /\ UNCHANGED <<disk, up, offline, app, decision, tickets, commit, begun, count>>

(* Mutant: admission is looked at when the decision is prepared only.      *)
decidable_prepared(t) == t.fresh /\ t.gen = gen /\ request = "Pending"

(* commit_decision: the session the ticket was made in still admits.       *)
decidable(t) == admitted /\ t.fresh /\ t.gen = gen /\ request = "Pending"

decide(status, w) ==
    /\ request' = status
    /\ by' = [device |-> th[w].ticket.actor, key |-> th[w].key]

commit_deny(w) ==
    /\ at(w, "commit") /\ commit = Nobody /\ th[w].cmd = "deny"
    /\ IF authorized(th[w].ticket.actor) /\ decidable(th[w].ticket)
       THEN decide("Denied", w) ELSE UNCHANGED decision
    /\ end(w)
    /\ UNCHANGED <<disk, up, offline, app, tickets, begun, count>>

(* Under identity_commit: the device, the deadline and the key once more.  *)
approve_entitled(w) ==
    LET t == th[w].ticket IN
    /\ authorized(t.actor) /\ t.fresh
    /\ th[w].key # NoKey => registry.key[t.actor] = th[w].key

(* commit_approval; then the mutexes are let go of, and the request is     *)
(* dispatched to the worker ...                                            *)
commit_approve(w) ==
    /\ at(w, "commit") /\ commit = Nobody /\ th[w].cmd \in {"approve", "approve_key"}
    /\ IF approve_entitled(w) /\ decidable(th[w].ticket)
       THEN /\ decide("Approved", w)
            /\ end(w) \/ (Faults /\ goto(w, "dispatch") /\ release(w))
       ELSE end(w) /\ UNCHANGED decision
    /\ UNCHANGED <<disk, up, offline, app, tickets, begun, count>>

(* ... and when that fails, admission closes, with no mutex held.          *)
dispatch_failed(w) ==
    /\ at(w, "dispatch")
    /\ closing' = TRUE
    /\ end(w)
    /\ UNCHANGED <<disk, up, offline, failed, session, gen, epoch, denied, decision, tickets, begun, count>>

(* Unlock takes the mutexes in the other order: it waits for               *)
(* identity_commit, and only tries the authentication slot.                *)
unlock_gate(w) ==
    /\ at(w, "unlock") /\ commit = Nobody
    /\ IF authorized(th[w].ticket.actor)
       THEN goto(w, "unlock_slot") /\ commit' = w
       ELSE finish(w) /\ UNCHANGED commit
    /\ UNCHANGED <<disk, up, offline, app, decision, tickets, auth, begun, count>>

(* Mutant: unlock waits for the slot.                                      *)
unlock_refused_waits(w) == FALSE

(* The slot is taken or the limiter says no.                               *)
unlock_refused(w) ==
    /\ at(w, "unlock_slot")
    /\ end(w)
    /\ UNCHANGED <<disk, up, offline, app, decision, tickets, begun, count>>

(* ApprovalAuthenticator::authenticate: the old session ends first; after  *)
(* a failure the session ends once more.                                   *)
unlock_slot(w) ==
    /\ at(w, "unlock_slot") /\ auth = Nobody
    /\ admitted
    /\ \/ session' = "unlocked" /\ gen' = gen + 1
       \/ session' = "locked" /\ gen' = gen + 2
    /\ request' = (IF request = "Pending" THEN "Ended" ELSE request)
    /\ end(w)
    /\ UNCHANGED <<disk, up, offline, closing, failed, epoch, denied, by, tickets, begun, count>>

-----------------------------------------------------------------------------
(* Keys of the approval clients.                                           *)

(* recheck, under identity_commit.                                         *)
recheck(t) ==
    /\ authorized(t.actor) /\ t.fresh /\ admitted
    /\ t.gen = gen /\ t.epoch = epoch
    /\ t.target \in registry.enabled

write_registry(w, allowed, r) ==
    /\ IF allowed THEN persist_registry(r) \/ persist_fails(r) ELSE UNCHANGED registry
    /\ end(w)
    /\ UNCHANGED <<agents, journal, up, offline, app, decision, tickets, begun, count>>

commit_enroll(w, k) ==
    LET t == th[w].ticket IN
    /\ at(w, "commit") /\ commit = Nobody /\ th[w].cmd = "enroll"
    /\ write_registry(w, recheck(t) /\ may_enroll_key(registry, t.actor, k),
                      with_key(registry, t.actor, k))

commit_revoke_key(w) ==
    LET t == th[w].ticket IN
    /\ at(w, "commit") /\ commit = Nobody /\ th[w].cmd = "revoke_key"
    /\ write_registry(w, recheck(t) /\ permitted("revoke_key", t.actor, t.target),
                      without_key(registry, t.target))

-----------------------------------------------------------------------------
(* Remote revocation of a device or an agent.                              *)

Pending(x) == [target |-> x, revocation |-> "Pending", cleanup |-> "Pending",
               reconciled |-> FALSE]

may_revoke(t) ==
    /\ authorized(t.actor) /\ administrator(t.actor) /\ t.fresh /\ admitted
    /\ t.gen = gen /\ t.epoch = epoch
    /\ t.target \in registry.enabled \/ (t.target \in Agents /\ t.target \notin agents)
    /\ Len(journal) < MaxActions

(* Mutant: the failure to save the intent is ignored.                      *)
intent_lost_ignored(w) ==
    /\ Faults
    /\ th' = [th EXCEPT ![w].pc = "mutate", ![w].action = Len(journal) + 1]
    /\ commit' = w /\ UNCHANGED <<journal, auth>>

(* The intent could not be saved: nothing has happened, the command ends.  *)
intent_lost(w) ==
    /\ save_fails(Append(journal, Pending(th[w].ticket.target)))
    /\ end(w)

(* The intent is durable before anything is denied.                        *)
commit_revoke(w) ==
    /\ at(w, "commit") /\ commit = Nobody /\ th[w].cmd = "revoke"
    /\ \/ ~may_revoke(th[w].ticket) /\ end(w) /\ UNCHANGED journal
       \/ /\ may_revoke(th[w].ticket)
          /\ save_journal(Append(journal, Pending(th[w].ticket.target)))
          /\ th' = [th EXCEPT ![w].pc = "mutate", ![w].action = Len(journal) + 1]
          /\ commit' = w /\ UNCHANGED auth
       \/ may_revoke(th[w].ticket) /\ intent_lost(w)
    /\ UNCHANGED <<registry, agents, up, offline, app, decision, tickets, begun, count>>

outcome(w, revocation, cleanup) ==
    th' = [th EXCEPT ![w].pc = "record", ![w].revocation = revocation, ![w].cleanup = cleanup]

(* Mutant: the cleanup of an action that never began is left as it was.    *)
not_started_keeps(w) ==
    /\ at(w, "mutate")
    /\ outcome(w, "NotRecorded", th[w].cleanup)
    /\ UNCHANGED <<disk, up, offline, app, decision, service, begun, count>>

(* NotStarted: the gate is busy, or the authority has moved on.            *)
not_started(w) ==
    /\ at(w, "mutate")
    /\ outcome(w, "NotRecorded", "NotApplicable")
    /\ UNCHANGED <<disk, up, offline, app, decision, service, begun, count>>

(* management_retire ends the session for everyone; revoke_agent_checked   *)
(* denies the agent's token.  Both then wait for executions to stop, and   *)
(* close admission when that remains uncertain.                            *)
mutate(w) ==
    LET t == th[w].ticket IN
    /\ at(w, "mutate")
    /\ t.gen = gen /\ t.epoch = epoch /\ t.fresh
    /\ IF t.target \in Agents
       THEN /\ t.target \notin denied /\ denied' = denied \cup {t.target}
            /\ UNCHANGED <<session, gen, epoch, decision>>
       ELSE end_session /\ epoch' = epoch + 1 /\ UNCHANGED denied
    /\ begun' = begun \cup {<<th[w].action, t.target>>}
    /\ \E complete \in BOOLEAN :
          /\ th' = [th EXCEPT ![w].pc = "registry",
                              ![w].cleanup = IF complete THEN "Complete" ELSE "Unknown"]
          /\ closing' \in (IF complete THEN {closing} ELSE {closing, TRUE})
    /\ UNCHANGED <<disk, up, offline, failed, service, count>>

(* revoke_online, or the provider's revoke_agent.                          *)
durable(x) ==
    IF x \in Agents THEN agents' = agents \cup {x} /\ UNCHANGED registry
    ELSE persist_registry(with_revoked(registry, x)) /\ UNCHANGED agents

revoke_durably(w) ==
    /\ at(w, "registry")
    /\ durable(th[w].ticket.target)
    /\ outcome(w, "Recorded", th[w].cleanup)
    /\ UNCHANGED <<journal, up, offline, app, decision, service, begun, count>>

(* The write failed, landed or not: the service fails closed.              *)
revoke_uncertain(w) ==
    /\ at(w, "registry") /\ Faults
    /\ durable(th[w].ticket.target) \/ UNCHANGED <<registry, agents>>
    /\ outcome(w, "Unknown", "Unknown")
    /\ closing' = TRUE
    /\ failed' = (failed \/ th[w].ticket.target \in Devices)
    /\ UNCHANGED <<journal, up, offline, session, gen, epoch, denied, decision, service, begun, count>>

(* The outcome is saved; when that fails the service fails closed.         *)
record(w) ==
    LET done == [journal EXCEPT ![th[w].action].revocation = th[w].revocation,
                                ![th[w].action].cleanup = th[w].cleanup] IN
    /\ at(w, "record")
    /\ \/ save_journal(done) /\ UNCHANGED <<closing, failed>>
       \/ save_fails(done) /\ closing' = TRUE /\ failed' = TRUE
    /\ end(w)
    /\ UNCHANGED <<registry, agents, up, offline, session, gen, epoch, denied, decision,
                   tickets, begun, count>>

-----------------------------------------------------------------------------
(* The rest of the daemon.                                                 *)

(* An agent asks for a secret.                                             *)
create_request ==
    /\ up /\ admitted /\ session = "unlocked" /\ request = "None"
    /\ request' = "Pending"
    /\ UNCHANGED <<disk, up, offline, app, by, service, th, begun, count>>

(* The owner locks at the machine, or the session's deadline passes.       *)
lock ==
    /\ up /\ session = "unlocked"
    /\ epoch' \in {epoch, epoch + 1}
    /\ end_session
    /\ UNCHANGED <<disk, up, offline, closing, failed, denied, service, th, begun, count>>

(* The process stops or is killed: its memory is gone.                     *)
crash ==
    /\ up /\ up' = FALSE
    /\ closing' = FALSE /\ failed' = FALSE /\ session' = "locked"
    /\ gen' = 0 /\ epoch' = 0 /\ denied' = {}
    /\ tickets' = {} /\ auth' = Nobody /\ commit' = Nobody
    /\ th' = [w \in Threads |-> Idle]
    /\ UNCHANGED <<disk, offline, decision, begun, count>>

(* Mutant: only an outcome known to be uncertain closes admission.         *)
recovery_fence_unknown == \E n \in DOMAIN journal : journal[n].revocation = "Unknown"
                                                    /\ ~journal[n].reconciled

(* enforce_recovery_fence, before any transport is served.                 *)
recovery_fence == \E n \in DOMAIN journal : ~settled(journal[n])

start_daemon ==
    /\ ~up /\ offline.pc = "idle" /\ count.starts < MaxStarts
    /\ up' = TRUE
    /\ closing' = recovery_fence
    /\ request' = (IF request = "Pending" THEN "Ended" ELSE request)
    /\ count' = [count EXCEPT !.starts = @ + 1]
    /\ UNCHANGED <<disk, offline, failed, session, gen, epoch, denied, by, service, th, begun>>

-----------------------------------------------------------------------------
(* The owner's console.  Every command takes the provider's writer lock,   *)
(* so none runs while the daemon does.                                     *)

stopped == ~up /\ offline.pc = "idle"
console(r) ==
    /\ stopped
    /\ persist_registry(r) \/ persist_fails(r)
    /\ UNCHANGED <<agents, journal, up, offline, app, decision, service, th, begun, count>>

enroll(d) ==
    /\ d \notin registry.enabled \cup registry.revoked
    /\ Cardinality(registry.enabled \cup registry.revoked) < MaxIdentities
    /\ console([registry EXCEPT !.enabled = @ \cup {d}])

grant_administrator(d) ==
    d \in registry.enabled /\ console(with_administrator(registry, d))

revoke(d) ==
    d \in registry.enabled \cup registry.revoked /\ console(with_revoked(registry, d))

(* reconcile_stopped: an existing action, or one the owner supplies, which *)
(* is made durable as unknown history first.                               *)
reconcile_begin(n, x) ==
    /\ stopped
    /\ IF n \in DOMAIN journal
       THEN journal[n].target = x /\ UNCHANGED journal
       ELSE /\ n = Len(journal) + 1 /\ n <= MaxActions
            /\ save_journal(Append(journal, [Pending(x) EXCEPT !.revocation = "Unknown",
                                                               !.cleanup = "Unknown"]))
    /\ offline' = [pc |-> "mutate", n |-> n]
    /\ UNCHANGED <<registry, agents, up, app, decision, service, th, begun, count>>

known(x) == x \in Agents \cup registry.enabled \cup registry.revoked

reconcile_mutate ==
    LET x == journal[offline.n].target IN
    /\ offline.pc = "mutate" /\ known(x)
    /\ durable(x)
    /\ offline' = [offline EXCEPT !.pc = "mark"]
    /\ UNCHANGED <<journal, up, app, decision, service, th, begun, count>>

reconcile_mark ==
    /\ offline.pc = "mark"
    /\ save_journal([journal EXCEPT ![offline.n].reconciled = TRUE])
    /\ offline' = [pc |-> "idle", n |-> 0]
    /\ UNCHANGED <<registry, agents, up, app, decision, service, th, begun, count>>

(* The console's command fails or is killed between two writes.            *)
reconcile_stops ==
    /\ offline.pc # "idle"
    /\ offline' = [pc |-> "idle", n |-> 0]
    /\ UNCHANGED <<disk, up, app, decision, service, th, begun, count>>

-----------------------------------------------------------------------------
Init ==
    /\ registry = [enabled |-> InitialDevices, revoked |-> {}, administrators |-> InitialDevices,
                   audit |-> Cardinality(InitialDevices), key_audit |-> InitialKeyAudit,
                   key |-> InitialKeys, retired |-> <<>>]
    /\ agents = {} /\ journal = <<>>
    /\ up = FALSE /\ offline = [pc |-> "idle", n |-> 0]
    /\ closing = FALSE /\ failed = FALSE /\ session = "locked"
    /\ gen = 0 /\ epoch = 0 /\ denied = {}
    /\ request = "None" /\ by = [device |-> NoDevice, key |-> NoKey]
    /\ tickets = {} /\ auth = Nobody /\ commit = Nobody
    /\ th = [w \in Threads |-> Idle]
    /\ begun = {} /\ count = [tickets |-> 0, starts |-> 0, unlocks |-> 0]

(* What a thread that serves a command does next.                          *)
step(w) ==
    \/ prepare(w) \/ refused(w) \/ authenticate(w)
    \/ commit_deny(w) \/ commit_approve(w) \/ dispatch_failed(w)
    \/ unlock_gate(w) \/ unlock_refused(w) \/ unlock_slot(w)
    \/ \E k \in Keys : commit_enroll(w, k)
    \/ commit_revoke_key(w)
    \/ commit_revoke(w) \/ not_started(w) \/ mutate(w)
    \/ revoke_durably(w) \/ revoke_uncertain(w) \/ record(w)

Next ==
    \/ \E d \in Devices : review(d)
    \/ \E d \in Devices, x \in Targets : identity_prepare(d, x)
    \/ \E d \in Devices, op \in {"enroll", "revoke_key"}, x \in Devices : biometric_prepare(d, op, x)
    \/ \E t \in tickets : ticket_expires(t)
    \/ \E w \in Threads : deadline_passes(w)
    \/ \E w \in Threads, kind \in Commands, t \in tickets : dispatch(w, kind, t)
    \/ \E w \in Threads, d \in Devices : unlock(w, d)
    \/ \E w \in Threads : step(w)
    \/ create_request \/ lock \/ crash \/ start_daemon
    \/ \E d \in Devices : enroll(d) \/ grant_administrator(d) \/ revoke(d)
    \/ \E n \in 1..MaxActions, x \in Targets : reconcile_begin(n, x)
    \/ reconcile_mutate \/ reconcile_mark \/ reconcile_stops

Spec == Init /\ [][Next]_vars

-----------------------------------------------------------------------------
Registry ==
    [enabled : SUBSET Devices, revoked : SUBSET Devices, administrators : SUBSET Devices,
     audit : Nat, key_audit : Nat, key : [Devices -> Keys \cup {NoKey}], retired : Seq(Keys)]

(* The pairs of outcome and cleanup that read_journal accepts.             *)
Action ==
    {a \in [target : Targets, revocation : {"Pending", "NotRecorded", "Recorded", "Unknown"},
            cleanup : {"Pending", "NotApplicable", "Complete", "Unknown"}, reconciled : BOOLEAN] :
        <<a.revocation, a.cleanup>> \in
            {<<"Pending", "Pending">>, <<"Pending", "Unknown">>, <<"NotRecorded", "NotApplicable">>,
             <<"Recorded", "Complete">>, <<"Recorded", "Unknown">>, <<"Unknown", "Unknown">>}}

(* Types; the journal on disk is one that read_journal accepts.            *)
TypeOK ==
    /\ registry \in Registry /\ agents \in SUBSET Agents
    /\ Len(journal) <= MaxActions /\ \A n \in DOMAIN journal : journal[n] \in Action
    /\ up \in BOOLEAN /\ offline.pc \in {"idle", "mutate", "mark"} /\ offline.n \in 0..Len(journal)
    /\ {closing, failed} \subseteq BOOLEAN /\ session \in {"locked", "unlocked"}
    /\ {gen, epoch} \subseteq Nat /\ denied \in SUBSET Agents
    /\ request \in {"None", "Pending", "Approved", "Denied", "Ended"}
    /\ by \in [device : Devices \cup {NoDevice}, key : Keys \cup {NoKey}]
    /\ tickets \subseteq Ticket
    /\ {auth, commit} \subseteq Threads \cup {Nobody}

(* Whatever sequence of enrolments, key changes, grants and revocations is *)
(* written, with failing writes in between, registry() reads the file      *)
(* back: a file it refused would shut out every device, the daemon and the *)
(* owner's own console commands.                                           *)
RegistryReadable == registry_valid(registry)

(* What the next property asks of one step.                                *)
CurrentStep ==
    request' # request /\ request' \in {"Approved", "Denied"} =>
        /\ by'.device \in registry.enabled /\ ~failed
        /\ session = "unlocked" /\ ~closing
        /\ \E w \in Threads : /\ th[w].pc = "commit" /\ th'[w].pc # "commit"
                              /\ th[w].ticket.actor = by'.device /\ th[w].ticket.gen = gen
        /\ by'.key # NoKey => registry.key[by'.device] = by'.key

(* A decision takes effect only while its device is enrolled, admission is *)
(* open, and the session it reviewed the request in lasts; whatever was    *)
(* locked, unlocked, closed or revoked between the review, the preparation *)
(* and the commit, and although a denial is under no authentication slot.  *)
(* With a biometric proof, it takes effect under the key on file.          *)
DecisionIsCurrent == [][CurrentStep]_vars

(* Once a revocation has denied its target anything, the provider admits   *)
(* work only when the target is revoked durably or that very command still *)
(* runs: neither a failed write, nor a crash, nor a restart brings the     *)
(* target back.                                                            *)
RevocationFence ==
    up /\ ~closing =>
        \A b \in begun :
            \/ target_revoked(b[2])
            \/ commit # Nobody /\ th[commit].action = b[1]

(* A receipt never lies: a recorded or reconciled revocation is durable, a *)
(* revocation that is not recorded never began, and every one that began   *)
(* has its receipt.                                                        *)
ReceiptIsTrue ==
    /\ \A n \in DOMAIN journal :
          /\ journal[n].revocation = "Recorded" \/ journal[n].reconciled
                => target_revoked(journal[n].target)
          /\ journal[n].revocation = "NotRecorded" => <<n, journal[n].target>> \notin begun
    /\ \A b \in begun : b[1] \in DOMAIN journal /\ journal[b[1]].target = b[2]

(* A ticket drives one command: it is in no table and with no other thread *)
(* once a thread serves it, whether that command is then refused or not.   *)
TicketSpentOnce ==
    \A w \in Threads : th[w].ticket.id # 0 =>
        /\ \A t \in tickets : t.id # th[w].ticket.id
        /\ \A v \in Threads \ {w} : th[v].ticket.id # th[w].ticket.id

(* w waits for identity_commit: the only lock a command ever waits for.    *)
waits(w) == th[w].pc \in {"commit", "unlock"} /\ commit # Nobody

(* Approvals and management take the authentication slot and then wait for *)
(* identity_commit; unlock holds identity_commit and then wants the slot.  *)
(* Still every command that is being served, and does not wait for         *)
(* identity_commit, can go on by itself, the holder of that lock included. *)
NoThreadStuck ==
    \A w \in Threads : th[w].pc # "idle" /\ ~waits(w) => ENABLED step(w)

(* Whoever is waited for is a command that is being served and waits for   *)
(* no lock itself: identity_commit is never left behind by a command that  *)
(* ended, was refused, or was lost in a crash, and nobody queues behind    *)
(* somebody in a queue.                                                    *)
HolderNeverWaits ==
    \A w \in Threads : waits(w) =>
        /\ commit \in Threads \ {w}
        /\ th[commit].pc # "idle" /\ ~waits(commit)
=============================================================================
