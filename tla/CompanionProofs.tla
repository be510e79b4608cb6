--------------------------- MODULE CompanionProofs --------------------------
(***************************************************************************)
(* Theorems about Companion, for every number of connections, devices,     *)
(* agents and keys, every limit of the tables and the journal, and with or *)
(* without failing writes.                                                 *)
(***************************************************************************)
EXTENDS Companion, FiniteSetTheorems, SequenceTheorems, TLAPS

-----------------------------------------------------------------------------
(* The inductive invariant of the control state.                           *)

AnyTicket == [kind : {"decision", "identity", "enroll", "revoke_key"}, actor : Devices \cup {NoDevice},
              target : Targets \cup {NoDevice}, gen : Nat, epoch : Nat, fresh : BOOLEAN, id : Nat]
Revocation == {"Pending", "NotRecorded", "Recorded", "Unknown"}
Cleanup == {"Pending", "NotApplicable", "Complete", "Unknown"}
Steps == {"idle", "prepare", "authenticate", "commit", "dispatch", "unlock", "unlock_slot",
          "mutate", "registry", "record"}
Thread == [pc : Steps, cmd : Commands \cup {"none", "unlock"}, ticket : AnyTicket,
           key : Keys \cup {NoKey}, action : Nat, revocation : Revocation, cleanup : Cleanup]

DiskTypes ==
    /\ registry \in Registry /\ agents \in SUBSET Agents
    /\ journal \in Seq(Action) /\ Len(journal) <= MaxActions
    /\ offline \in [pc : {"idle", "mutate", "mark"}, n : Nat] /\ offline.n <= Len(journal)

Flags == up \in BOOLEAN /\ closing \in BOOLEAN /\ failed \in BOOLEAN

MemoryTypes ==
    /\ session \in {"locked", "unlocked"}
    /\ gen \in Nat /\ epoch \in Nat /\ denied \in SUBSET Agents
    /\ request \in {"None", "Pending", "Approved", "Denied", "Ended"}
    /\ by \in [device : Devices \cup {NoDevice}, key : Keys \cup {NoKey}]

ServiceTypes ==
    /\ tickets \subseteq Ticket
    /\ auth \in Threads \cup {Nobody} /\ commit \in Threads \cup {Nobody}
    /\ th \in [Threads -> Thread]
    /\ count \in [tickets : Nat, starts : Nat, unlocks : Nat]

Types == DiskTypes /\ Flags /\ MemoryTypes /\ ServiceTypes

(* w has a revocation under way, announced in the journal.                 *)
Revoking(w) == th[w].pc \in {"mutate", "registry", "record"}

(* What a thread holds at each step: a revocation holds identity_commit    *)
(* from its intent to its outcome, and its entry stays as it announced it. *)
Control(w) ==
    /\ th[w].pc = "idle" => th[w] = Idle
    /\ th[w].pc \notin {"idle", "unlock", "unlock_slot"} => th[w].cmd \in Commands /\ th[w].ticket \in Ticket
    /\ th[w].pc \in {"unlock", "unlock_slot"} => th[w].cmd = "unlock" /\ th[w].ticket.id = 0
    /\ Revoking(w) => /\ commit = w /\ th[w].action \in 1..Len(journal)
                      /\ journal[th[w].action] = Pending(th[w].ticket.target)
    /\ ~Revoking(w) => th[w].action = 0
    /\ commit = w => Revoking(w) \/ th[w].pc = "unlock_slot"
    /\ th[w].pc = "registry" => th[w].cleanup \in {"Complete", "Unknown"}
    /\ th[w].pc = "record" => <<th[w].revocation, th[w].cleanup>> \in
            {<<"NotRecorded", "NotApplicable">>, <<"Recorded", "Complete">>,
             <<"Recorded", "Unknown">>, <<"Unknown", "Unknown">>}
    /\ th[w].key # NoKey => th[w].cmd = "approve_key"

(* The daemon and the owner's console exclude each other.                  *)
Exclusion ==
    /\ ~up => commit = Nobody /\ \A w \in Threads : th[w] = Idle
    /\ up => offline.pc = "idle"
    /\ offline.pc # "idle" => offline.n \in 1..Len(journal)

CInv == Types /\ Exclusion /\ \A w \in Threads : Control(w)

-----------------------------------------------------------------------------
(* Nobody else's commit reaches the target of a revocation under way.      *)
TargetEnrolled ==
    \A w \in Threads : th[w].pc \in {"mutate", "registry"} => th[w].ticket.target \in Agents \cup registry.enabled

(* Ticket numbers are drawn once.                                          *)
IdInv ==
    /\ \A t \in tickets : t.id \in 1..count.tickets
    /\ \A w \in Threads : th[w].ticket.id <= count.tickets
    /\ \A t, u \in tickets : t.id = u.id => t = u
    /\ TicketSpentOnce

(* What a thread is about to put on the receipt.                           *)
OutcomeTrue ==
    \A w \in Threads :
        /\ th[w].pc = "mutate" \/ (th[w].pc = "record" /\ th[w].revocation = "NotRecorded")
                => \A b \in begun : b[1] # th[w].action
        /\ th[w].pc = "record" /\ th[w].revocation = "Recorded" => target_revoked(th[w].ticket.target)
        /\ th[w].pc = "record" /\ th[w].revocation = "Unknown" => closing

MarkTrue == offline.pc = "mark" => target_revoked(journal[offline.n].target)

BegunPairs == \A b \in begun : b = <<b[1], b[2]>>

FInv == RevocationFence /\ ReceiptIsTrue /\ OutcomeTrue /\ MarkTrue /\ BegunPairs

(* A request is open only in a session.                                    *)
OpenInSession == up /\ request = "Pending" => session = "unlocked"
-----------------------------------------------------------------------------
(* The registry's operators.                                               *)

(* retire_biometric takes the key of d off the file and leaves everyone    *)
(* else's, and the enrolments, as they are.                                *)
LEMMA RetireType ==
    ASSUME NEW r \in Registry, NEW d \in Devices
    PROVE  /\ retire_biometric(r, d) \in Registry
           /\ retire_biometric(r, d).enabled = r.enabled
           /\ retire_biometric(r, d).revoked = r.revoked
           /\ retire_biometric(r, d).administrators = r.administrators
           /\ retire_biometric(r, d).audit = r.audit
           /\ retire_biometric(r, d).key_audit = r.key_audit
           /\ retire_biometric(r, d).key = [r.key EXCEPT ![d] = NoKey]
<1>0. /\ r = [enabled |-> r.enabled, revoked |-> r.revoked, administrators |-> r.administrators,
              audit |-> r.audit, key_audit |-> r.key_audit, key |-> r.key, retired |-> r.retired]
      /\ r.key \in [Devices -> Keys \cup {NoKey}] /\ r.retired \in Seq(Keys)
  BY DEF Registry
<1>1. CASE r.key[d] = NoKey
  <2>1. r.key = [r.key EXCEPT ![d] = NoKey]
    BY <1>0, <1>1
  <2> QED
    BY <1>1, <2>1 DEF retire_biometric
<1>2. CASE r.key[d] # NoKey
  <2> DEFINE all == Append(r.retired, r.key[d])
             kept == IF Len(all) > MaxRetired THEN Tail(all) ELSE all
             key == [r.key EXCEPT ![d] = NoKey]
  <2>1. r.key[d] \in Keys
    BY <1>0, <1>2
  <2>2. all \in Seq(Keys) /\ all # <<>>
    BY <1>0, <2>1, AppendProperties
  <2>3. kept \in Seq(Keys)
    <3> HIDE DEF all
    <3>1. Tail(all) \in Seq(Keys)
      BY <2>2, HeadTailProperties
    <3> QED
      BY <2>2, <3>1
  <2>4. key \in [Devices -> Keys \cup {NoKey}]
    BY <1>0
  <2>5. retire_biometric(r, d) = [[r EXCEPT !.key = key] EXCEPT !.retired = kept]
    BY <1>2 DEF retire_biometric
  <2> HIDE DEF all, kept, key
  <2>6. retire_biometric(r, d) =
            [enabled |-> r.enabled, revoked |-> r.revoked, administrators |-> r.administrators,
             audit |-> r.audit, key_audit |-> r.key_audit, key |-> key, retired |-> kept]
    BY <1>0, <2>5
  <2>7. retire_biometric(r, d) \in Registry
    BY <2>3, <2>4, <2>6 DEF Registry
  <2> QED
    BY <2>6, <2>7 DEF key
<1> QED
  BY <1>1, <1>2

(* The entries about keys stay within their limit.                         *)
LEMMA AuditCount ==
    ASSUME NEW n \in Nat
    PROVE  biometric_audit(n) \in Nat /\ (n <= MaxKeyAudit => biometric_audit(n) <= MaxKeyAudit)
  BY BoundAssumption DEF biometric_audit

LEMMA WithKeyType ==
    ASSUME NEW r \in Registry, NEW d \in Devices, NEW k \in Keys
    PROVE  /\ with_key(r, d, k) \in Registry
           /\ with_key(r, d, k).enabled = r.enabled
           /\ with_key(r, d, k).revoked = r.revoked
           /\ with_key(r, d, k).administrators = r.administrators
           /\ with_key(r, d, k).audit = r.audit
           /\ with_key(r, d, k).key_audit = biometric_audit(r.key_audit)
           /\ with_key(r, d, k).key = [r.key EXCEPT ![d] = k]
           /\ with_key(r, d, k).retired = retire_biometric(r, d).retired
<1> DEFINE q == retire_biometric(r, d)
<1>1. q \in Registry
  BY RetireType
<1>2. with_key(r, d, k) = [[q EXCEPT !.key = [q.key EXCEPT ![d] = k]]
                              EXCEPT !.key_audit = biometric_audit(q.key_audit)]
  BY <1>1 DEF with_key, Registry
<1>3. q.key = [r.key EXCEPT ![d] = NoKey] /\ r.key \in [Devices -> Keys \cup {NoKey}]
  BY RetireType DEF Registry
<1>4. [q.key EXCEPT ![d] = k] = [r.key EXCEPT ![d] = k]
  BY <1>3
<1>5. q.enabled = r.enabled /\ q.revoked = r.revoked /\ q.administrators = r.administrators
      /\ q.audit = r.audit /\ q.key_audit = r.key_audit
  BY RetireType
<1>6. [r.key EXCEPT ![d] = k] \in [Devices -> Keys \cup {NoKey}]
  BY <1>3
<1> HIDE DEF q
<1>7. with_key(r, d, k) =
          [enabled |-> q.enabled, revoked |-> q.revoked, administrators |-> q.administrators,
           audit |-> q.audit, key_audit |-> biometric_audit(q.key_audit),
           key |-> [r.key EXCEPT ![d] = k], retired |-> q.retired]
  BY <1>1, <1>2, <1>4 DEF Registry
<1>8. with_key(r, d, k) \in Registry
  <2>1. biometric_audit(q.key_audit) \in Nat
    BY <1>1, AuditCount DEF Registry
  <2> QED
    BY <1>1, <1>6, <1>7, <2>1 DEF Registry
<1> QED
  BY <1>5, <1>7, <1>8 DEF q

LEMMA WithoutKeyType ==
    ASSUME NEW r \in Registry, NEW d \in Devices, r.key[d] # NoKey
    PROVE  /\ without_key(r, d) \in Registry
           /\ without_key(r, d).enabled = r.enabled
           /\ without_key(r, d).revoked = r.revoked
           /\ without_key(r, d).administrators = r.administrators
           /\ without_key(r, d).audit = r.audit
           /\ without_key(r, d).key_audit = biometric_audit(r.key_audit)
           /\ without_key(r, d).key = retire_biometric(r, d).key
           /\ without_key(r, d).retired = retire_biometric(r, d).retired
<1> DEFINE q == retire_biometric(r, d)
<1>1. q \in Registry
  BY RetireType
<1>2. without_key(r, d) = [q EXCEPT !.key_audit = biometric_audit(q.key_audit)]
  BY <1>1 DEF without_key, Registry
<1>3. q.enabled = r.enabled /\ q.revoked = r.revoked /\ q.administrators = r.administrators
      /\ q.audit = r.audit /\ q.key_audit = r.key_audit
  BY RetireType
<1> HIDE DEF q
<1>4. without_key(r, d) =
          [enabled |-> q.enabled, revoked |-> q.revoked, administrators |-> q.administrators,
           audit |-> q.audit, key_audit |-> biometric_audit(q.key_audit),
           key |-> q.key, retired |-> q.retired]
  BY <1>1, <1>2 DEF Registry
<1>5. without_key(r, d) \in Registry
  <2>1. biometric_audit(q.key_audit) \in Nat
    BY <1>1, AuditCount DEF Registry
  <2> QED
    BY <1>1, <1>4, <2>1 DEF Registry
<1> QED
  BY <1>3, <1>4, <1>5 DEF q

(* A revoked device keeps neither its enrolment, nor its office, nor its   *)
(* key, and the revocation is one audit entry.                             *)
LEMMA WithRevokedType ==
    ASSUME NEW r \in Registry, NEW d \in Devices, d \notin r.revoked
    PROVE  /\ with_revoked(r, d) \in Registry
           /\ with_revoked(r, d).enabled = r.enabled \ {d}
           /\ with_revoked(r, d).revoked = r.revoked \cup {d}
           /\ with_revoked(r, d).administrators = r.administrators \ {d}
           /\ with_revoked(r, d).audit = r.audit + 1
           /\ with_revoked(r, d).key_audit = r.key_audit
           /\ with_revoked(r, d).key = [r.key EXCEPT ![d] = NoKey]
           /\ with_revoked(r, d).retired = retire_biometric(r, d).retired
<1> DEFINE q == retire_biometric(r, d)
<1>1. q \in Registry
  BY RetireType
<1>2. with_revoked(r, d) = [[[[q EXCEPT !.enabled = q.enabled \ {d}]
                                 EXCEPT !.revoked = q.revoked \cup {d}]
                                 EXCEPT !.administrators = q.administrators \ {d}]
                                 EXCEPT !.audit = q.audit + 1]
  BY <1>1 DEF with_revoked, Registry
<1>3. q.enabled = r.enabled /\ q.revoked = r.revoked /\ q.administrators = r.administrators
      /\ q.audit = r.audit /\ q.key_audit = r.key_audit /\ q.key = [r.key EXCEPT ![d] = NoKey]
  BY RetireType
<1> HIDE DEF q
<1>4. with_revoked(r, d) =
          [enabled |-> q.enabled \ {d}, revoked |-> q.revoked \cup {d},
           administrators |-> q.administrators \ {d},
           audit |-> q.audit + 1, key_audit |-> q.key_audit, key |-> q.key, retired |-> q.retired]
  BY <1>1, <1>2 DEF Registry
<1>5. with_revoked(r, d) \in Registry
  BY <1>1, <1>4 DEF Registry
<1> QED
  BY <1>3, <1>4, <1>5 DEF q

LEMMA WithAdministratorType ==
    ASSUME NEW r \in Registry, NEW d \in Devices, d \notin r.administrators
    PROVE  /\ with_administrator(r, d) \in Registry
           /\ with_administrator(r, d).enabled = r.enabled
           /\ with_administrator(r, d).revoked = r.revoked
           /\ with_administrator(r, d).administrators = r.administrators \cup {d}
           /\ with_administrator(r, d).audit = r.audit + 1
           /\ with_administrator(r, d).key_audit = r.key_audit
           /\ with_administrator(r, d).key = r.key
           /\ with_administrator(r, d).retired = r.retired
<1>1. with_administrator(r, d) = [[r EXCEPT !.administrators = r.administrators \cup {d}]
                                     EXCEPT !.audit = r.audit + 1]
  BY DEF with_administrator, Registry
<1>2. with_administrator(r, d) =
          [enabled |-> r.enabled, revoked |-> r.revoked,
           administrators |-> r.administrators \cup {d},
           audit |-> r.audit + 1, key_audit |-> r.key_audit, key |-> r.key, retired |-> r.retired]
  BY <1>1 DEF Registry
<1>3. with_administrator(r, d) \in Registry
  BY <1>2 DEF Registry
<1> QED
  BY <1>2, <1>3

LEMMA EnrolledType ==
    ASSUME NEW r \in Registry, NEW d \in Devices
    PROVE  [r EXCEPT !.enabled = @ \cup {d}] =
               [enabled |-> r.enabled \cup {d}, revoked |-> r.revoked,
                administrators |-> r.administrators, audit |-> r.audit, key_audit |-> r.key_audit, key |-> r.key,
                retired |-> r.retired]
           /\ [r EXCEPT !.enabled = @ \cup {d}] \in Registry
<1>0. r = [enabled |-> r.enabled, revoked |-> r.revoked, administrators |-> r.administrators,
           audit |-> r.audit, key_audit |-> r.key_audit, key |-> r.key, retired |-> r.retired]
  BY DEF Registry
<1>1. [r EXCEPT !.enabled = @ \cup {d}] =
               [enabled |-> r.enabled \cup {d}, revoked |-> r.revoked,
                administrators |-> r.administrators, audit |-> r.audit, key_audit |-> r.key_audit, key |-> r.key,
                retired |-> r.retired]
  BY <1>0
<1>2. r.enabled \in SUBSET Devices /\ r.revoked \in SUBSET Devices /\ r.audit \in Nat
      /\ r.key_audit \in Nat /\ r.administrators \in SUBSET Devices
      /\ r.key \in [Devices -> Keys \cup {NoKey}] /\ r.retired \in Seq(Keys)
  BY DEF Registry
<1>3. [r EXCEPT !.enabled = @ \cup {d}] \in Registry
  BY <1>1, <1>2 DEF Registry
<1> QED
  BY <1>1, <1>3
-----------------------------------------------------------------------------
(* The control state is invariant.                                         *)

LEMMA IdleType == Idle \in Thread /\ Blank \in AnyTicket
<1>1. Blank \in AnyTicket
  BY DEF Blank, AnyTicket
<1> QED
  BY <1>1 DEF Idle, Thread, Steps, Revocation, Cleanup

LEMMA ControlInit == Init => CInv
<1> SUFFICES ASSUME Init PROVE CInv
  OBVIOUS
<1>1. DiskTypes
  <2>1. Cardinality(InitialDevices) \in Nat
    BY KeyAssumption, DeviceAssumption, FS_Subset, FS_CardinalityType
  <2>2. registry \in Registry
    <3>1. <<>> \in Seq(Keys)
      OBVIOUS
    <3>2. InitialKeyAudit \in Nat
      BY KeyAssumption, BoundAssumption
    <3> QED
      BY <2>1, <3>1, <3>2, KeyAssumption, DeviceAssumption DEF Init, Registry
  <2>3. journal \in Seq(Action) /\ Len(journal) = 0
    BY DEF Init
  <2> QED
    BY <2>2, <2>3, BoundAssumption DEF Init, DiskTypes
<1>2. Flags
  BY Zenon DEF Init, Flags
<1>3. MemoryTypes
  BY DEF Init, MemoryTypes
<1>4. ServiceTypes
  BY IdleType DEF Init, ServiceTypes
<1>5. Exclusion
  BY DEF Init, Exclusion
<1>6. ASSUME NEW w \in Threads PROVE Control(w)
  <2>1. th[w] = Idle /\ commit = Nobody
    BY DEF Init
  <2> QED
    BY <2>1, NoneAssumption DEF Control, Idle, Revoking
<1> QED
  BY <1>1, <1>2, <1>3, <1>4, <1>5, <1>6 DEF CInv, Types

(* A step of w leaves the other threads alone, and their mutex too.        *)
Others(w) ==
    \A v \in Threads \ {w} : th'[v] = th[v] /\ (commit' = v <=> commit = v)

LEMMA OneThread ==
    ASSUME CInv, NEW w \in Threads, Types', Exclusion', Others(w), Control(w)',
           journal' = journal \/ \A v \in Threads \ {w} : ~Revoking(v)
    PROVE  CInv'
<1>1. ASSUME NEW v \in Threads \ {w} PROVE Control(v)'
  <2>1. Control(v) /\ th'[v] = th[v] /\ (commit' = v <=> commit = v)
    BY DEF CInv, Others
  <2>2. CASE journal' = journal
    BY <2>1, <2>2 DEF Control, Revoking
  <2>3. CASE ~Revoking(v)
    BY <2>1, <2>3 DEF Control, Revoking
  <2> QED
    BY <2>2, <2>3
<1> QED
  BY <1>1 DEF CInv

(* Putting a record in a thread's place.                                   *)
LEMMA ThreadPut ==
    ASSUME th \in [Threads -> Thread], NEW w \in Threads, NEW r \in Thread, th' = [th EXCEPT ![w] = r]
    PROVE  th' \in [Threads -> Thread] /\ th'[w] = r /\ \A v \in Threads \ {w} : th'[v] = th[v]
  OBVIOUS

(* The thread w is done: it has let go of everything.                      *)
LEMMA Ended ==
    ASSUME CInv, NEW w \in Threads, end(w)
    PROVE  /\ th' \in [Threads -> Thread]
           /\ th'[w] = Idle /\ \A v \in Threads \ {w} : th'[v] = th[v]
           /\ auth' \in Threads \cup {Nobody} /\ commit' \in Threads \cup {Nobody}
           /\ Others(w) /\ Control(w)'
<1>1. th \in [Threads -> Thread] /\ auth \in Threads \cup {Nobody} /\ commit \in Threads \cup {Nobody}
  BY DEF CInv, Types, ServiceTypes
<1>2. th' \in [Threads -> Thread] /\ th'[w] = Idle /\ \A v \in Threads \ {w} : th'[v] = th[v]
  BY <1>1, ThreadPut, IdleType DEF end, finish
<1>3. auth' \in Threads \cup {Nobody} /\ commit' \in Threads \cup {Nobody}
  BY <1>1 DEF end, release
<1>4. commit' # w /\ \A v \in Threads \ {w} : commit' = v <=> commit = v
  BY <1>1, NoneAssumption DEF end, release
<1>5. Control(w)'
  BY <1>2, <1>4 DEF Control, Idle, Revoking
<1> QED
  BY <1>2, <1>3, <1>4, <1>5 DEF Others

(* When nobody holds identity_commit no revocation is under way.           *)
LEMMA NobodyRevokes ==
    ASSUME CInv, NEW w \in Threads \cup {Nobody}, commit = w
    PROVE  \A v \in Threads \ {w} : ~Revoking(v)
  BY NoneAssumption DEF CInv, Control

(* A command that ends and leaves the console and the journal alone.       *)
LEMMA EndsControl ==
    ASSUME CInv, NEW w \in Threads, end(w), up, up' = up, offline' = offline, journal' = journal,
           registry' \in Registry, agents' = agents, Flags', MemoryTypes',
           tickets' = tickets, count' = count
    PROVE  CInv'
<1>1. DiskTypes'
  BY DEF CInv, Types, DiskTypes
<1>2. ServiceTypes'
  BY Ended DEF CInv, Types, ServiceTypes
<1>3. Exclusion'
  BY DEF CInv, Exclusion
<1> QED
  BY <1>1, <1>2, <1>3, Ended, OneThread DEF Types

(* The registry is written: every outcome of the write is a registry.      *)
LEMMA WrittenType ==
    ASSUME registry \in Registry, NEW r \in Registry,
           persist_registry(r) \/ persist_fails(r) \/ UNCHANGED registry
    PROVE  registry' \in Registry
  BY DEF persist_registry, persist_fails

LEMMA DurableType ==
    ASSUME DiskTypes, NEW x \in Targets, durable(x)
    PROVE  registry' \in Registry /\ agents' \in SUBSET Agents
<1>1. CASE x \in Agents
  BY <1>1 DEF durable, DiskTypes
<1>2. CASE x \notin Agents
  <2>1. x \in Devices
    BY <1>2 DEF Targets
  <2>2. with_revoked(registry, x) \in Registry
    BY <2>1, WithRevokedType DEF DiskTypes, with_revoked
  <2> QED
    BY <1>2, <2>2 DEF durable, persist_registry, DiskTypes
<1> QED
  BY <1>1, <1>2

(* A thread that goes on, and takes or keeps its mutexes.                  *)
LEMMA GoesOn ==
    ASSUME CInv, NEW w \in Threads, NEW r \in Thread, th' = [th EXCEPT ![w] = r],
           up, up' = up, offline' = offline, journal' = journal,
           registry' \in Registry, agents' \in SUBSET Agents, Flags', MemoryTypes',
           tickets' \subseteq tickets, count' = count,
           auth' \in {auth, w, Nobody}, commit' = commit \/ (commit = Nobody /\ commit' = w),
           Control(w)'
    PROVE  CInv'
<1>1. DiskTypes'
  BY DEF CInv, Types, DiskTypes
<1>2. ServiceTypes /\ Flags
  BY DEF CInv, Types
<1>3. th' \in [Threads -> Thread] /\ th'[w] = r /\ \A v \in Threads \ {w} : th'[v] = th[v]
  BY <1>2, ThreadPut DEF ServiceTypes
<1>4. ServiceTypes'
  BY <1>2, <1>3 DEF ServiceTypes
<1>5. Exclusion'
  BY DEF CInv, Exclusion
<1>6. Others(w)
  BY <1>3, NoneAssumption DEF Others
<1> QED
  BY <1>1, <1>4, <1>5, <1>6, OneThread DEF Types

(* The fields of a thread after several of them are assigned.             *)
WithKey(t, k) ==
    [[t EXCEPT !.pc = "commit"] EXCEPT !.key = k]

LEMMA KeyPut ==
    ASSUME NEW t \in Thread, NEW k \in Keys \cup {NoKey}
    PROVE  /\ WithKey(t, k) \in Thread
           /\ WithKey(t, k).pc = "commit"
           /\ WithKey(t, k).cmd = t.cmd
           /\ WithKey(t, k).ticket = t.ticket
           /\ WithKey(t, k).key = k
           /\ WithKey(t, k).action = t.action
           /\ WithKey(t, k).revocation = t.revocation
           /\ WithKey(t, k).cleanup = t.cleanup
  BY DEF WithKey, Thread, Steps

WithAction(t, n) ==
    [[t EXCEPT !.pc = "mutate"] EXCEPT !.action = n]

LEMMA ActionPut ==
    ASSUME NEW t \in Thread, NEW n \in Nat
    PROVE  /\ WithAction(t, n) \in Thread
           /\ WithAction(t, n).pc = "mutate"
           /\ WithAction(t, n).cmd = t.cmd
           /\ WithAction(t, n).ticket = t.ticket
           /\ WithAction(t, n).key = t.key
           /\ WithAction(t, n).action = n
           /\ WithAction(t, n).revocation = t.revocation
           /\ WithAction(t, n).cleanup = t.cleanup
  BY DEF WithAction, Thread, Steps

WithCleanup(t, c) ==
    [[t EXCEPT !.pc = "registry"] EXCEPT !.cleanup = c]

LEMMA CleanupPut ==
    ASSUME NEW t \in Thread, NEW c \in Cleanup
    PROVE  /\ WithCleanup(t, c) \in Thread
           /\ WithCleanup(t, c).pc = "registry"
           /\ WithCleanup(t, c).cmd = t.cmd
           /\ WithCleanup(t, c).ticket = t.ticket
           /\ WithCleanup(t, c).key = t.key
           /\ WithCleanup(t, c).action = t.action
           /\ WithCleanup(t, c).revocation = t.revocation
           /\ WithCleanup(t, c).cleanup = c
  BY DEF WithCleanup, Thread, Steps

WithOutcome(t, r, c) ==
    [[[t EXCEPT !.pc = "record"] EXCEPT !.revocation = r] EXCEPT !.cleanup = c]

LEMMA OutcomePut ==
    ASSUME NEW t \in Thread, NEW r \in Revocation, NEW c \in Cleanup
    PROVE  /\ WithOutcome(t, r, c) \in Thread
           /\ WithOutcome(t, r, c).pc = "record"
           /\ WithOutcome(t, r, c).cmd = t.cmd
           /\ WithOutcome(t, r, c).ticket = t.ticket
           /\ WithOutcome(t, r, c).key = t.key
           /\ WithOutcome(t, r, c).action = t.action
           /\ WithOutcome(t, r, c).revocation = r
           /\ WithOutcome(t, r, c).cleanup = c
  BY DEF WithOutcome, Thread, Steps

(* The commands of approval clients and decisions.                         *)
LEMMA DecidingControl ==
    ASSUME CInv, NEW w \in Threads,
           \/ prepare(w) \/ refused(w) \/ authenticate(w) \/ commit_deny(w) \/ commit_approve(w)
           \/ dispatch_failed(w) \/ unlock_gate(w) \/ unlock_refused(w) \/ unlock_slot(w)
           \/ (\E k \in Keys : commit_enroll(w, k)) \/ commit_revoke_key(w)
    PROVE  CInv'
<1>0. /\ DiskTypes /\ Flags /\ MemoryTypes /\ ServiceTypes /\ Control(w)
      /\ th[w] \in Thread /\ registry \in Registry /\ agents \in SUBSET Agents
      /\ up \in BOOLEAN
  BY DEF CInv, Types, ServiceTypes, DiskTypes, Flags
<1>1. ASSUME prepare(w) PROVE CInv'
  <2>1. /\ Flags' /\ MemoryTypes' /\ up /\ up' = up /\ offline' = offline /\ journal' = journal
        /\ registry' = registry /\ agents' = agents /\ tickets' = tickets /\ count' = count
        /\ auth' = auth /\ commit' = commit /\ th[w].pc = "prepare"
    BY <1>0, <1>1 DEF prepare, at, disk, app, decision, service, Flags, MemoryTypes
  <2>2. CASE goto(w, "commit")
    <3>1. th' = [th EXCEPT ![w] = [th[w] EXCEPT !.pc = "commit"]]
      BY <2>2 DEF goto
    <3>2. [th[w] EXCEPT !.pc = "commit"] \in Thread
      BY <1>0 DEF Thread, Steps
    <3>3. th'[w] = [th[w] EXCEPT !.pc = "commit"]
      BY <1>0, <3>1 DEF ServiceTypes
    <3>4. Control(w)'
      BY <1>0, <2>1, <3>3 DEF Control, Revoking, Thread
    <3> QED
      BY <1>0, <2>1, <3>1, <3>2, <3>4, GoesOn
  <2>3. CASE goto(w, "authenticate")
    <3>1. th' = [th EXCEPT ![w] = [th[w] EXCEPT !.pc = "authenticate"]]
      BY <2>3 DEF goto
    <3>2. [th[w] EXCEPT !.pc = "authenticate"] \in Thread
      BY <1>0 DEF Thread, Steps
    <3>3. th'[w] = [th[w] EXCEPT !.pc = "authenticate"]
      BY <1>0, <3>1 DEF ServiceTypes
    <3>4. Control(w)'
      BY <1>0, <2>1, <3>3 DEF Control, Revoking, Thread
    <3> QED
      BY <1>0, <2>1, <3>1, <3>2, <3>4, GoesOn
  <2>4. CASE finish(w)
    <3>1. th' = [th EXCEPT ![w] = Idle]
      BY <2>4 DEF finish
    <3>2. th'[w] = Idle
      BY <1>0, <3>1 DEF ServiceTypes
    <3>3. Control(w)'
      BY <1>0, <2>1, <3>2 DEF Control, Revoking, Idle
    <3> QED
      BY <1>0, <2>1, <3>1, <3>3, IdleType, GoesOn
  <2> QED
    BY <1>1, <2>2, <2>3, <2>4 DEF prepare
<1>2. ASSUME refused(w) \/ unlock_refused(w) PROVE CInv'
  <2>1. end(w) /\ up /\ UNCHANGED <<disk, up, offline, app, decision, tickets, begun, count>>
    BY <1>2 DEF refused, unlock_refused, at
  <2>2. Flags' /\ MemoryTypes'
    BY <1>0, <2>1 DEF Flags, MemoryTypes, app, decision
  <2> QED
    BY <1>0, <2>1, <2>2, EndsControl DEF disk
<1>3. ASSUME authenticate(w) PROVE CInv'
  <2> DEFINE k == IF th[w].cmd = "approve_key" THEN registry.key[th[w].ticket.actor] ELSE NoKey
             r == WithKey(th[w], k)
  <2>1. /\ Flags' /\ MemoryTypes' /\ up /\ up' = up /\ offline' = offline /\ journal' = journal
        /\ registry' = registry /\ agents' = agents /\ tickets' = tickets /\ count' = count
        /\ auth' = w /\ commit' = commit /\ th[w].pc = "authenticate"
    BY <1>0, <1>3 DEF authenticate, at, disk, app, decision, Flags, MemoryTypes
  <2>2. k \in Keys \cup {NoKey}
    <3>1. th[w].ticket.actor \in Devices
      BY <1>0, <2>1 DEF Control, Ticket
    <3> QED
      BY <1>0, <3>1 DEF Registry
  <2>3. th' = [th EXCEPT ![w] = r]
    BY <1>3 DEF authenticate, WithKey
  <2>4. k # NoKey => th[w].cmd = "approve_key"
    OBVIOUS
  <2> HIDE DEF k
  <2>5. /\ r.pc = "commit" /\ r.cmd = th[w].cmd /\ r.ticket = th[w].ticket /\ r.key = k
        /\ r.action = th[w].action /\ r \in Thread
    BY <1>0, <2>2, KeyPut
  <2>7. th'[w] = r
    BY <1>0, <2>3 DEF ServiceTypes
  <2> HIDE DEF r
  <2>8. Control(w)'
    BY <1>0, <2>1, <2>4, <2>5, <2>7 DEF Control, Revoking
  <2> QED
    BY <1>0, <2>1, <2>3, <2>5, <2>8, GoesOn
<1>4. ASSUME commit_deny(w) PROVE CInv'
  <2>1. end(w) /\ up /\ UNCHANGED <<disk, up, offline, app, tickets, begun, count>>
    BY <1>4 DEF commit_deny, at
  <2>2. Flags'
    BY <1>0, <2>1 DEF Flags, app
  <2>3. MemoryTypes'
    <3>1. th[w].ticket \in AnyTicket /\ th[w].key \in Keys \cup {NoKey}
      BY <1>0 DEF Thread
    <3>2. th[w].ticket.actor \in Devices \cup {NoDevice}
      BY <3>1 DEF AnyTicket
    <3> QED
      BY <1>0, <1>4, <2>1, <3>1, <3>2 DEF MemoryTypes, app, decision, decide, commit_deny
  <2> QED
    BY <1>0, <2>1, <2>2, <2>3, EndsControl DEF disk
<1>5. ASSUME commit_approve(w) PROVE CInv'
  <2>1. /\ up /\ th[w].pc = "commit" /\ commit = Nobody
        /\ end(w) \/ (goto(w, "dispatch") /\ release(w))
        /\ UNCHANGED <<disk, up, offline, app, tickets, begun, count>>
    BY <1>5 DEF commit_approve, at
  <2>3. Flags'
    BY <1>0, <2>1 DEF Flags, app
  <2>4. MemoryTypes'
    <3>1. th[w].ticket \in AnyTicket /\ th[w].key \in Keys \cup {NoKey}
      BY <1>0 DEF Thread
    <3>2. th[w].ticket.actor \in Devices \cup {NoDevice}
      BY <3>1 DEF AnyTicket
    <3>3. \/ request' = request /\ by' = by
          \/ request' = "Approved" /\ by' = [device |-> th[w].ticket.actor, key |-> th[w].key]
      BY <1>5 DEF decision, decide, commit_approve
    <3> QED
      BY <1>0, <2>1, <3>1, <3>2, <3>3 DEF MemoryTypes, app
  <2>5. CASE end(w)
    BY <1>0, <2>1, <2>3, <2>4, <2>5, EndsControl DEF disk
  <2>6. CASE goto(w, "dispatch") /\ release(w)
    <3>1. th' = [th EXCEPT ![w] = [th[w] EXCEPT !.pc = "dispatch"]]
      BY <2>6 DEF goto
    <3>2. [th[w] EXCEPT !.pc = "dispatch"] \in Thread
      BY <1>0 DEF Thread, Steps
    <3>3. th'[w] = [th[w] EXCEPT !.pc = "dispatch"]
      BY <1>0, <3>1 DEF ServiceTypes
    <3>4. auth' \in {auth, Nobody} /\ commit' = commit
      BY <2>1, <2>6 DEF release
    <3>5. Control(w)'
      BY <1>0, <2>1, <3>3, <3>4 DEF Control, Revoking, Thread
    <3> QED
      BY <1>0, <2>1, <2>3, <2>4, <3>1, <3>2, <3>4, <3>5, GoesOn DEF disk
  <2> QED
    BY <2>1, <2>5, <2>6
<1>11. ASSUME dispatch_failed(w) PROVE CInv'
  <2>1. /\ end(w) /\ up /\ closing' = TRUE
        /\ UNCHANGED <<disk, up, offline, failed, session, gen, epoch, denied, decision, tickets, begun, count>>
    BY <1>11 DEF dispatch_failed, at
  <2>2. Flags'
    BY <1>0, <2>1 DEF Flags
  <2>3. MemoryTypes'
    BY <1>0, <2>1 DEF MemoryTypes, decision
  <2> QED
    BY <1>0, <2>1, <2>2, <2>3, EndsControl DEF disk
<1>6. ASSUME unlock_gate(w) PROVE CInv'
  <2>1. /\ Flags' /\ MemoryTypes' /\ up /\ up' = up /\ offline' = offline /\ journal' = journal
        /\ registry' = registry /\ agents' = agents /\ tickets' = tickets /\ count' = count
        /\ auth' = auth /\ th[w].pc = "unlock" /\ commit = Nobody
    BY <1>0, <1>6 DEF unlock_gate, at, disk, app, decision, Flags, MemoryTypes
  <2>2. CASE goto(w, "unlock_slot") /\ commit' = w
    <3>1. th' = [th EXCEPT ![w] = [th[w] EXCEPT !.pc = "unlock_slot"]]
      BY <2>2 DEF goto
    <3>2. [th[w] EXCEPT !.pc = "unlock_slot"] \in Thread
      BY <1>0 DEF Thread, Steps
    <3>3. th'[w] = [th[w] EXCEPT !.pc = "unlock_slot"]
      BY <1>0, <3>1 DEF ServiceTypes
    <3>4. Control(w)'
      BY <1>0, <2>1, <3>3 DEF Control, Revoking, Thread
    <3> QED
      BY <1>0, <2>1, <2>2, <3>1, <3>2, <3>4, GoesOn
  <2>3. CASE finish(w) /\ commit' = commit
    <3>1. th' = [th EXCEPT ![w] = Idle]
      BY <2>3 DEF finish
    <3>2. th'[w] = Idle
      BY <1>0, <3>1 DEF ServiceTypes
    <3>3. Control(w)'
      BY <1>0, <2>1, <2>3, <3>2, NoneAssumption DEF Control, Revoking, Idle
    <3> QED
      BY <1>0, <2>1, <2>3, <3>1, <3>3, IdleType, GoesOn
  <2> QED
    BY <1>6, <2>2, <2>3 DEF unlock_gate
<1>7. ASSUME unlock_slot(w) PROVE CInv'
  <2>1. end(w) /\ up
        /\ UNCHANGED <<disk, up, offline, closing, failed, epoch, denied, by, tickets, begun, count>>
    BY <1>7 DEF unlock_slot, at
  <2>2. Flags'
    BY <1>0, <2>1 DEF Flags
  <2>3. MemoryTypes'
    BY <1>0, <1>7, <2>1 DEF MemoryTypes, unlock_slot
  <2> QED
    BY <1>0, <2>1, <2>2, <2>3, EndsControl DEF disk
<1>8. ASSUME NEW allowed, NEW r \in Registry, write_registry(w, allowed, r), up PROVE CInv'
  <2>1. end(w) /\ UNCHANGED <<agents, journal, up, offline, app, decision, tickets, begun, count>>
    BY <1>8 DEF write_registry
  <2>2. registry' \in Registry
    BY <1>0, <1>8, WrittenType DEF write_registry
  <2>3. Flags' /\ MemoryTypes'
    BY <1>0, <2>1 DEF Flags, MemoryTypes, app, decision
  <2> QED
    BY <1>0, <1>8, <2>1, <2>2, <2>3, EndsControl
<1>9. ASSUME NEW k \in Keys, commit_enroll(w, k) PROVE CInv'
  <2>1. up /\ th[w].pc = "commit"
    BY <1>9 DEF commit_enroll, at
  <2>2. th[w].ticket.actor \in Devices
    BY <1>0, <2>1 DEF Control, Ticket
  <2>3. with_key(registry, th[w].ticket.actor, k) \in Registry
    BY <1>0, <2>2, WithKeyType
  <2> QED
    BY <1>8, <1>9, <2>1, <2>3 DEF commit_enroll
<1>10. ASSUME commit_revoke_key(w) PROVE CInv'
  <2>1. up /\ th[w].pc = "commit" /\ commit = Nobody
    BY <1>10 DEF commit_revoke_key, at
  <2> DEFINE ok == recheck(th[w].ticket)
                   /\ permitted("revoke_key", th[w].ticket.actor, th[w].ticket.target)
             r == without_key(registry, th[w].ticket.target)
  <2>2. write_registry(w, ok, r)
    BY <1>10 DEF commit_revoke_key
  <2>3. CASE ok
    <3>1. th[w].ticket.target \in Devices
      BY <1>0, <2>3 DEF recheck, Registry
    <3>2. r \in Registry
      BY <1>0, <3>1, WithoutKeyType DEF without_key
    <3> QED
      BY <1>8, <2>1, <2>2, <3>2
  <2>4. CASE ~ok
    <3>1. write_registry(w, ok, registry)
      BY <2>2, <2>4 DEF write_registry
    <3> QED
      BY <1>0, <1>8, <2>1, <3>1
  <2> QED
    BY <2>3, <2>4
<1> QED
  BY <1>1, <1>2, <1>3, <1>4, <1>5, <1>6, <1>7, <1>9, <1>10, <1>11

(* The entry of an action, as announced and as recorded.                   *)
LEMMA PendingType == \A x \in Targets : Pending(x) \in Action
  BY DEF Pending, Action

RecordedJournal(w) ==
    [journal EXCEPT ![th[w].action].revocation = th[w].revocation,
                    ![th[w].action].cleanup = th[w].cleanup]

LEMMA RecordPut ==
    ASSUME CInv, NEW w \in Threads, th[w].pc = "record"
    PROVE  /\ RecordedJournal(w) \in Seq(Action)
           /\ Len(RecordedJournal(w)) = Len(journal)
           /\ \A j \in 1..Len(journal) : RecordedJournal(w)[j].target = journal[j].target
           /\ \A j \in 1..Len(journal) \ {th[w].action} : RecordedJournal(w)[j] = journal[j]
           /\ RecordedJournal(w)[th[w].action].revocation = th[w].revocation
           /\ RecordedJournal(w)[th[w].action].cleanup = th[w].cleanup
           /\ RecordedJournal(w)[th[w].action].reconciled = FALSE
<1> DEFINE i == th[w].action
           x == th[w].ticket.target
           e == [[journal[i] EXCEPT !.revocation = th[w].revocation]
                             EXCEPT !.cleanup = th[w].cleanup]
<1>1. /\ i \in 1..Len(journal) /\ journal[i] = Pending(x) /\ journal \in Seq(Action)
      /\ th[w].ticket \in Ticket
      /\ <<th[w].revocation, th[w].cleanup>> \in
            {<<"NotRecorded", "NotApplicable">>, <<"Recorded", "Complete">>,
             <<"Recorded", "Unknown">>, <<"Unknown", "Unknown">>}
  BY DEF CInv, Control, Revoking, Types, DiskTypes
<1>2. journal[i] \in Action
  BY <1>1
<1>3. /\ e.target = journal[i].target /\ e.revocation = th[w].revocation
      /\ e.cleanup = th[w].cleanup /\ e.reconciled = FALSE
  BY <1>1, <1>2 DEF Action, Pending
<1>4. e \in Action
  BY <1>1, <1>2, <1>3 DEF Action
<1>5. RecordedJournal(w) = [journal EXCEPT ![i] = e]
  BY <1>1 DEF RecordedJournal
<1> HIDE DEF e
<1>6. /\ RecordedJournal(w) \in Seq(Action) /\ Len(RecordedJournal(w)) = Len(journal)
      /\ \A j \in 1..Len(journal) : RecordedJournal(w)[j] = IF j = i THEN e ELSE journal[j]
  BY <1>1, <1>4, <1>5, ExceptSeq
<1> QED
  BY <1>1, <1>3, <1>6

(* The steps of a remote revocation.                                       *)
LEMMA RevokingControl ==
    ASSUME CInv, NEW w \in Threads,
           commit_revoke(w) \/ not_started(w) \/ mutate(w) \/ revoke_durably(w)
              \/ revoke_uncertain(w) \/ record(w)
    PROVE  CInv'
<1>0. /\ DiskTypes /\ Flags /\ MemoryTypes /\ ServiceTypes /\ Control(w)
      /\ th[w] \in Thread /\ registry \in Registry /\ agents \in SUBSET Agents
      /\ journal \in Seq(Action) /\ Len(journal) \in Nat /\ MaxActions \in Nat
      /\ up \in BOOLEAN
  BY BoundAssumption DEF CInv, Types, ServiceTypes, DiskTypes, Flags
<1>1. ASSUME commit_revoke(w) PROVE CInv'
  <2>1. /\ Flags' /\ MemoryTypes' /\ up /\ up' = up /\ offline' = offline
        /\ registry' = registry /\ agents' = agents /\ tickets' = tickets /\ count' = count
        /\ th[w].pc = "commit" /\ commit = Nobody
    BY <1>0, <1>1 DEF commit_revoke, at, app, decision, Flags, MemoryTypes
  <2>2. th[w].ticket.target \in Targets /\ Pending(th[w].ticket.target) \in Action
    BY <1>0, <2>1, PendingType DEF Control, Ticket
  <2> DEFINE e == Pending(th[w].ticket.target)
             more == Append(journal, e)
  <2>3. /\ more \in Seq(Action) /\ Len(more) = Len(journal) + 1 /\ more[Len(journal) + 1] = e
    <3> HIDE DEF e
    <3> QED
      BY <1>0, <2>2, AppendProperties DEF e
  <2>4. \A v \in Threads \ {w} : ~Revoking(v)
    BY <2>1, NobodyRevokes, NoneAssumption
  <2>5. Exclusion'
    <3>1. offline.pc = "idle"
      BY <2>1 DEF CInv, Exclusion
    <3> QED
      BY <2>1, <3>1 DEF Exclusion
  <2>6. CASE end(w) /\ (journal' = journal \/ (journal' = more /\ may_revoke(th[w].ticket)))
    <3>1. journal' \in Seq(Action) /\ Len(journal') <= MaxActions /\ Len(journal') >= Len(journal)
      <4> HIDE DEF more
      <4> QED
        BY <1>0, <2>3, <2>6 DEF DiskTypes, may_revoke
    <3>2. DiskTypes'
      BY <1>0, <2>1, <3>1 DEF DiskTypes
    <3>3. ServiceTypes'
      BY <1>0, <2>1, <2>6, Ended DEF ServiceTypes
    <3> QED
      BY <2>1, <2>4, <2>5, <2>6, <3>2, <3>3, Ended, OneThread DEF Types
  <2>7. CASE /\ may_revoke(th[w].ticket) /\ save_journal(more)
             /\ th' = [th EXCEPT ![w].pc = "mutate", ![w].action = Len(journal) + 1]
             /\ commit' = w /\ UNCHANGED auth
    <3> DEFINE r == WithAction(th[w], Len(journal) + 1)
    <3>1. th' = [th EXCEPT ![w] = r]
      BY <2>7 DEF WithAction
    <3>2. /\ r.pc = "mutate" /\ r.cmd = th[w].cmd /\ r.ticket = th[w].ticket /\ r.key = th[w].key
          /\ r.action = Len(journal) + 1 /\ r \in Thread
      BY <1>0, ActionPut
    <3>3. th' \in [Threads -> Thread] /\ th'[w] = r /\ \A v \in Threads \ {w} : th'[v] = th[v]
      <4> HIDE DEF r
      <4> QED
        BY <1>0, <3>1, <3>2, ThreadPut DEF ServiceTypes
    <3>4. journal' = more /\ Len(journal') <= MaxActions
      <4> HIDE DEF more
      <4> QED
        BY <1>0, <2>3, <2>7 DEF save_journal, may_revoke
    <3>5. Control(w)'
      <4> HIDE DEF r, more
      <4> QED
        BY <1>0, <2>1, <2>3, <2>7, <3>2, <3>3, <3>4 DEF Control, Revoking
    <3>6. DiskTypes'
      <4> HIDE DEF more
      <4> QED
        BY <1>0, <2>1, <2>3, <3>4 DEF DiskTypes
    <3>7. ServiceTypes'
      BY <1>0, <2>1, <2>7, <3>3 DEF ServiceTypes
    <3>8. Others(w)
      BY <2>1, <2>7, <3>3, NoneAssumption DEF Others
    <3> QED
      BY <2>1, <2>4, <2>5, <3>5, <3>6, <3>7, <3>8, OneThread DEF Types
  <2> QED
    BY <1>1, <2>6, <2>7 DEF commit_revoke, intent_lost, save_fails
<1>2. ASSUME NEW a \in Revocation, NEW c \in Cleanup, outcome(w, a, c), Revoking(w),
             th[w].pc # "record",
             <<a, c>> \in {<<"NotRecorded", "NotApplicable">>, <<"Recorded", "Complete">>,
                           <<"Recorded", "Unknown">>, <<"Unknown", "Unknown">>},
             up, up' = up, offline' = offline, journal' = journal,
             registry' \in Registry, agents' \in SUBSET Agents, Flags', MemoryTypes',
             tickets' = tickets, count' = count, auth' = auth, commit' = commit
      PROVE  CInv'
  <2> DEFINE r == WithOutcome(th[w], a, c)
  <2>1. th' = [th EXCEPT ![w] = r]
    BY <1>2 DEF outcome, WithOutcome
  <2>2. /\ r.pc = "record" /\ r.cmd = th[w].cmd /\ r.ticket = th[w].ticket /\ r.key = th[w].key
        /\ r.action = th[w].action /\ r.revocation = a /\ r.cleanup = c /\ r \in Thread
    BY <1>0, <1>2, OutcomePut
  <2> HIDE DEF r
  <2>3. th'[w] = r
    BY <1>0, <2>1 DEF ServiceTypes
  <2>4. Control(w)'
    BY <1>0, <1>2, <2>2, <2>3 DEF Control, Revoking
  <2> QED
    BY <1>0, <1>2, <2>1, <2>2, <2>4, GoesOn
<1>3. ASSUME not_started(w) PROVE CInv'
  <2>1. /\ outcome(w, "NotRecorded", "NotApplicable") /\ up /\ th[w].pc = "mutate"
        /\ UNCHANGED <<disk, up, offline, app, decision, service, begun, count>>
    BY <1>3 DEF not_started, at
  <2>2. Flags' /\ MemoryTypes'
    BY <1>0, <2>1 DEF Flags, MemoryTypes, app, decision
  <2>3. registry' = registry /\ agents' = agents /\ journal' = journal /\ up' = up
        /\ tickets' = tickets /\ auth' = auth /\ commit' = commit /\ offline' = offline /\ count' = count
    BY <2>1 DEF disk, service
  <2>4. "NotRecorded" \in Revocation /\ "NotApplicable" \in Cleanup
    BY DEF Revocation, Cleanup
  <2> QED
    BY <1>0, <1>2, <2>1, <2>2, <2>3, <2>4 DEF Revoking
<1>4. ASSUME mutate(w) PROVE CInv'
  <2>1. /\ up /\ th[w].pc = "mutate"
        /\ UNCHANGED <<disk, up, offline, failed, service, count>>
    BY <1>4 DEF mutate, at
  <2>2. PICK complete \in BOOLEAN :
          /\ th' = [th EXCEPT ![w].pc = "registry",
                              ![w].cleanup = IF complete THEN "Complete" ELSE "Unknown"]
          /\ closing' \in (IF complete THEN {closing} ELSE {closing, TRUE})
    BY <1>4 DEF mutate
  <2> DEFINE c == IF complete THEN "Complete" ELSE "Unknown"
             r == WithCleanup(th[w], c)
  <2>3. c \in {"Complete", "Unknown"} /\ c \in Cleanup
    BY DEF Cleanup
  <2>4. th' = [th EXCEPT ![w] = r]
    BY <2>2 DEF WithCleanup
  <2> HIDE DEF c
  <2>5. /\ r.pc = "registry" /\ r.cmd = th[w].cmd /\ r.ticket = th[w].ticket /\ r.key = th[w].key
        /\ r.action = th[w].action /\ r.cleanup = c /\ r \in Thread
    BY <1>0, <2>3, CleanupPut
  <2> HIDE DEF r
  <2>6. th'[w] = r
    BY <1>0, <2>4 DEF ServiceTypes
  <2>7. Flags'
    <3>1. closing' \in {closing, TRUE}
      BY <2>2
    <3> QED
      BY <1>0, <2>1, <3>1 DEF Flags
  <2>8. MemoryTypes'
    BY <1>0, <1>4, <2>1 DEF MemoryTypes, mutate, end_session, decision
  <2>9. registry' = registry /\ agents' = agents /\ journal' = journal
        /\ tickets' = tickets /\ auth' = auth /\ commit' = commit
    BY <2>1 DEF disk, service
  <2>10. Control(w)'
    BY <1>0, <2>1, <2>3, <2>5, <2>6, <2>9 DEF Control, Revoking
  <2> QED
    BY <1>0, <2>1, <2>4, <2>5, <2>7, <2>8, <2>9, <2>10, GoesOn
<1>5. ASSUME revoke_durably(w) PROVE CInv'
  <2>1. /\ outcome(w, "Recorded", th[w].cleanup) /\ up /\ th[w].pc = "registry"
        /\ durable(th[w].ticket.target)
        /\ UNCHANGED <<journal, up, offline, app, decision, service, begun, count>>
    BY <1>5 DEF revoke_durably, at
  <2>2. Flags' /\ MemoryTypes'
    BY <1>0, <2>1 DEF Flags, MemoryTypes, app, decision
  <2>3. tickets' = tickets /\ auth' = auth /\ commit' = commit
    BY <2>1 DEF service
  <2>4. th[w].ticket.target \in Targets
    BY <1>0, <2>1 DEF Control, Ticket
  <2>5. registry' \in Registry /\ agents' \in SUBSET Agents
    BY <1>0, <2>1, <2>4, DurableType
  <2>6. "Recorded" \in Revocation /\ th[w].cleanup \in Cleanup /\ th[w].cleanup \in {"Complete", "Unknown"}
    BY <1>0, <2>1 DEF Revocation, Cleanup, Control
  <2> QED
    BY <1>0, <1>2, <2>1, <2>2, <2>3, <2>5, <2>6 DEF Revoking
<1>6. ASSUME revoke_uncertain(w) PROVE CInv'
  <2>1. /\ outcome(w, "Unknown", "Unknown") /\ up /\ th[w].pc = "registry"
        /\ durable(th[w].ticket.target) \/ UNCHANGED <<registry, agents>>
        /\ UNCHANGED <<journal, up, offline, session, gen, epoch, denied, decision, service, begun, count>>
    BY <1>6 DEF revoke_uncertain, at
  <2>2. MemoryTypes'
    BY <1>0, <2>1 DEF MemoryTypes, decision
  <2>3. Flags'
    <3>1. closing' = TRUE /\ failed' = (failed \/ th[w].ticket.target \in Devices) /\ up' = up
      BY <1>6 DEF revoke_uncertain
    <3> QED
      BY Zenon, <1>0, <3>1 DEF Flags
  <2>4. tickets' = tickets /\ auth' = auth /\ commit' = commit
    BY <2>1 DEF service
  <2>5. th[w].ticket.target \in Targets
    BY <1>0, <2>1 DEF Control, Ticket
  <2>6. registry' \in Registry /\ agents' \in SUBSET Agents
    BY <1>0, <2>1, <2>5, DurableType
  <2>7. "Unknown" \in Revocation /\ "Unknown" \in Cleanup
    BY DEF Revocation, Cleanup
  <2> QED
    BY <1>0, <1>2, <2>1, <2>2, <2>3, <2>4, <2>6, <2>7 DEF Revoking
<1>7. ASSUME record(w) PROVE CInv'
  <2>1. /\ up /\ th[w].pc = "record" /\ end(w) /\ registry' = registry /\ agents' = agents
        /\ up' = up /\ offline' = offline /\ tickets' = tickets /\ count' = count
        /\ UNCHANGED <<session, gen, epoch, denied, decision>>
    BY <1>7 DEF record, at
  <2>2. MemoryTypes'
    BY <1>0, <2>1 DEF MemoryTypes, decision
  <2>3. Flags'
    <3>1. closing' \in {closing, TRUE} /\ failed' \in {failed, TRUE}
      BY <1>7 DEF record
    <3> QED
      BY <1>0, <2>1, <3>1 DEF Flags
  <2>4. journal' \in {journal, RecordedJournal(w)}
    BY <1>7 DEF record, save_journal, save_fails, RecordedJournal
  <2>5. journal' \in Seq(Action) /\ Len(journal') = Len(journal)
    <3>1. RecordedJournal(w) \in Seq(Action) /\ Len(RecordedJournal(w)) = Len(journal)
      BY <2>1, RecordPut
    <3> QED
      BY <1>0, <2>4, <3>1
  <2>6. DiskTypes'
    BY <1>0, <2>1, <2>5 DEF DiskTypes
  <2>7. ServiceTypes'
    BY <1>0, <2>1, Ended DEF ServiceTypes
  <2>8. Exclusion'
    <3>1. offline.pc = "idle"
      BY <2>1 DEF CInv, Exclusion
    <3> QED
      BY <2>1, <3>1 DEF Exclusion
  <2>9. commit = w
    BY <1>0, <2>1 DEF Control, Revoking
  <2>10. \A v \in Threads \ {w} : ~Revoking(v)
    BY <2>9, NobodyRevokes
  <2> QED
    BY <2>1, <2>2, <2>3, <2>6, <2>7, <2>8, <2>10, Ended, OneThread DEF Types
<1> QED
  BY <1>1, <1>3, <1>4, <1>5, <1>6, <1>7

(* Tickets: only their table and the count of them change.                 *)
LEMMA TicketControl ==
    ASSUME CInv, NEW kept \in SUBSET tickets, NEW kind \in {"decision", "identity", "enroll", "revoke_key"},
           NEW d \in Devices, NEW x \in Targets, issue(kept, kind, d, x)
    PROVE  CInv'
<1> DEFINE t == [kind |-> kind, actor |-> d, target |-> x, gen |-> gen,
                 epoch |-> epoch, fresh |-> TRUE, id |-> count.tickets + 1]
<1>0. /\ DiskTypes /\ Flags /\ MemoryTypes /\ ServiceTypes
      /\ UNCHANGED <<disk, up, offline, app, decision, th, auth, commit, begun>>
  BY DEF CInv, Types, issue
<1>1. t \in Ticket
  BY <1>0 DEF Ticket, MemoryTypes, ServiceTypes
<1>2. tickets' \subseteq Ticket
  BY <1>0, <1>1 DEF issue, ServiceTypes
<1>3. count' \in [tickets : Nat, starts : Nat, unlocks : Nat]
  BY <1>0 DEF issue, ServiceTypes
<1>4. ServiceTypes'
  BY <1>0, <1>2, <1>3 DEF ServiceTypes
<1>5. DiskTypes' /\ Flags' /\ MemoryTypes'
  BY <1>0 DEF DiskTypes, Flags, MemoryTypes, disk, app, decision
<1>6. Exclusion'
  BY <1>0 DEF CInv, Exclusion, disk
<1>7. ASSUME NEW v \in Threads PROVE Control(v)'
  BY <1>0 DEF CInv, Control, Revoking, disk
<1> QED
  BY <1>4, <1>5, <1>6, <1>7 DEF CInv, Types

(* The rest of what connections do: tickets, deadlines, and commands that  *)
(* arrive.                                                                 *)
LEMMA ArrivingControl ==
    ASSUME CInv,
           \/ \E d \in Devices : review(d)
           \/ \E d \in Devices, x \in Targets : identity_prepare(d, x)
           \/ \E d \in Devices, op \in {"enroll", "revoke_key"}, x \in Devices : biometric_prepare(d, op, x)
           \/ \E t \in tickets : ticket_expires(t)
           \/ \E w \in Threads : deadline_passes(w)
           \/ \E w \in Threads, kind \in Commands, t \in tickets : dispatch(w, kind, t)
           \/ \E w \in Threads, d \in Devices : unlock(w, d)
    PROVE  CInv'
<1>0. /\ DiskTypes /\ Flags /\ MemoryTypes /\ ServiceTypes /\ Exclusion
      /\ registry \in Registry /\ agents \in SUBSET Agents
      /\ up \in BOOLEAN /\ tickets \subseteq Ticket
      /\ \A w \in Threads : th[w] \in Thread /\ Control(w)
  BY DEF CInv, Types, ServiceTypes, DiskTypes, Flags
<1>1. ASSUME NEW d \in Devices, review(d) PROVE CInv'
  <2>1. d \in Targets
    BY DEF Targets
  <2>2. \E kept \in SUBSET tickets : issue(kept, "decision", d, d)
    BY <1>1 DEF review
  <2> QED
    BY <2>1, <2>2, TicketControl
<1>2. ASSUME NEW d \in Devices, NEW x \in Targets, identity_prepare(d, x) PROVE CInv'
  BY <1>2, TicketControl DEF identity_prepare
<1>3. ASSUME NEW d \in Devices, NEW op \in {"enroll", "revoke_key"}, NEW x \in Devices,
             biometric_prepare(d, op, x)
      PROVE CInv'
  <2>1. x \in Targets
    BY DEF Targets
  <2>2. \E kept \in SUBSET tickets : issue(kept, op, d, x)
    BY <1>3 DEF biometric_prepare
  <2> QED
    BY <2>1, <2>2, TicketControl
<1>4. ASSUME NEW t \in tickets, ticket_expires(t) PROVE CInv'
  <2>1. /\ UNCHANGED <<disk, up, offline, app, decision, th, auth, commit, begun, count>>
        /\ tickets' \subseteq tickets
    BY <1>4 DEF ticket_expires
  <2>2. ServiceTypes'
    BY <1>0, <2>1 DEF ServiceTypes
  <2>3. DiskTypes' /\ Flags' /\ MemoryTypes'
    BY <1>0, <2>1 DEF DiskTypes, Flags, MemoryTypes, disk, app, decision
  <2>4. Exclusion'
    BY <1>0, <2>1 DEF Exclusion, disk
  <2>5. ASSUME NEW v \in Threads PROVE Control(v)'
    BY <1>0, <2>1 DEF Control, Revoking, disk
  <2> QED
    BY <2>2, <2>3, <2>4, <2>5 DEF CInv, Types
<1>5. ASSUME NEW w \in Threads, deadline_passes(w) PROVE CInv'
  <2> DEFINE r == [th[w] EXCEPT !.ticket = [th[w].ticket EXCEPT !.fresh = FALSE]]
  <2>1. /\ th[w].ticket.fresh /\ th' = [th EXCEPT ![w] = r]
        /\ UNCHANGED <<disk, up, offline, app, decision, service, begun, count>>
    BY <1>5 DEF deadline_passes
  <2>2. [th[w].ticket EXCEPT !.fresh = FALSE] \in AnyTicket
        /\ (th[w].ticket \in Ticket => [th[w].ticket EXCEPT !.fresh = FALSE] \in Ticket)
        /\ [th[w].ticket EXCEPT !.fresh = FALSE].id = th[w].ticket.id
        /\ [th[w].ticket EXCEPT !.fresh = FALSE].target = th[w].ticket.target
    <3>1. th[w].ticket \in AnyTicket
      BY <1>0 DEF Thread
    <3> QED
      BY <3>1 DEF AnyTicket, Ticket
  <2>3. /\ r \in Thread /\ r.pc = th[w].pc /\ r.cmd = th[w].cmd /\ r.key = th[w].key
        /\ r.action = th[w].action /\ r.revocation = th[w].revocation /\ r.cleanup = th[w].cleanup
        /\ r.ticket = [th[w].ticket EXCEPT !.fresh = FALSE]
    <3>1. th[w] \in Thread
      BY <1>0
    <3> QED
      BY <2>2, <3>1 DEF Thread
  <2>4. th'[w] = r /\ th' \in [Threads -> Thread]
    <3> HIDE DEF r
    <3> QED
      BY <1>0, <2>1, <2>3 DEF ServiceTypes
  <2>5. th[w].pc # "idle"
    BY <1>0, <2>1 DEF Control, Idle, Blank
  <2> HIDE DEF r
  <2>6. Control(w)'
    <3>1. Control(w) /\ journal' = journal /\ commit' = commit
      BY <1>0, <2>1 DEF service, disk
    <3>2. /\ th'[w].pc = th[w].pc /\ th'[w].cmd = th[w].cmd /\ th'[w].key = th[w].key
          /\ th'[w].action = th[w].action /\ th'[w].revocation = th[w].revocation
          /\ th'[w].cleanup = th[w].cleanup
          /\ th'[w].ticket.id = th[w].ticket.id /\ th'[w].ticket.target = th[w].ticket.target
          /\ (th[w].ticket \in Ticket => th'[w].ticket \in Ticket)
      BY <2>2, <2>3, <2>4
    <3> QED
      BY <2>5, <3>1, <3>2 DEF Control, Revoking
  <2>7. Flags' /\ MemoryTypes' /\ DiskTypes'
    BY <1>0, <2>1 DEF Flags, MemoryTypes, DiskTypes, app, decision, disk
  <2>8. ServiceTypes'
    BY <1>0, <2>1, <2>4 DEF ServiceTypes, service
  <2>9. Exclusion'
    <3>1. up
      BY <1>0, <2>5 DEF Exclusion, Idle
    <3> QED
      BY <1>0, <2>1, <3>1 DEF Exclusion
  <2>10. Others(w)
    BY <1>0, <2>1 DEF Others, ServiceTypes, service
  <2> QED
    BY <2>1, <2>6, <2>7, <2>8, <2>9, <2>10, OneThread DEF Types, disk
<1>6. ASSUME NEW w \in Threads, NEW kind \in Commands \cup {"unlock"}, NEW t \in AnyTicket,
             start(w, kind, t), kind = "unlock" => t.id = 0, kind # "unlock" => t \in Ticket,
             up, up' = up, offline' = offline, UNCHANGED <<disk, app, decision, auth, commit>>,
             tickets' \subseteq tickets, count' \in [tickets : Nat, starts : Nat, unlocks : Nat]
      PROVE CInv'
  <2> DEFINE l == IF kind \in {"approve", "approve_key", "deny"} THEN "prepare"
                  ELSE IF kind = "unlock" THEN "unlock" ELSE "authenticate"
             r == [[[Idle EXCEPT !.cmd = kind] EXCEPT !.ticket = t] EXCEPT !.pc = l]
  <2>1. l \in Steps /\ l \in {"prepare", "unlock", "authenticate"} /\ (l = "unlock" <=> kind = "unlock")
    BY DEF Steps
  <2>2. th' = [th EXCEPT ![w] = r] /\ th[w].pc = "idle"
    BY <1>6 DEF start
  <2> HIDE DEF l
  <2>3. /\ r \in Thread /\ r.pc = l /\ r.cmd = kind /\ r.ticket = t /\ r.key = NoKey /\ r.action = 0
        /\ r.revocation = "Pending" /\ r.cleanup = "Pending"
    <3>1. Idle \in Thread /\ Idle.key = NoKey /\ Idle.action = 0 /\ Idle.revocation = "Pending"
          /\ Idle.cleanup = "Pending"
      BY IdleType DEF Idle
    <3> QED
      BY <2>1, <3>1 DEF Thread
  <2>4. th'[w] = r /\ th' \in [Threads -> Thread]
    <3> HIDE DEF r
    <3> QED
      BY <1>0, <2>2, <2>3 DEF ServiceTypes
  <2>5. commit # w
    BY <1>0, <2>2 DEF Control, Revoking
  <2> HIDE DEF r
  <2>6. Control(w)'
    BY <1>0, <1>6, <2>1, <2>3, <2>4, <2>5 DEF Control, Revoking
  <2>7. Flags' /\ MemoryTypes' /\ DiskTypes'
    BY <1>0, <1>6 DEF Flags, MemoryTypes, DiskTypes, app, decision, disk
  <2>8. ServiceTypes'
    BY <1>0, <1>6, <2>4 DEF ServiceTypes
  <2>9. Exclusion'
    BY <1>0, <1>6 DEF Exclusion
  <2>10. Others(w)
    BY <1>0, <1>6, <2>2 DEF Others, ServiceTypes
  <2> QED
    BY <1>6, <2>6, <2>7, <2>8, <2>9, <2>10, OneThread DEF Types, disk
<1>7. ASSUME NEW w \in Threads, NEW kind \in Commands, NEW t \in tickets, dispatch(w, kind, t) PROVE CInv'
  <2>1. /\ up /\ tickets' \subseteq tickets /\ (start(w, kind, t) \/ UNCHANGED th)
        /\ UNCHANGED <<disk, up, offline, app, decision, auth, commit, begun, count>>
    BY <1>7 DEF dispatch, live, consume
  <2>2. t \in Ticket /\ t \in AnyTicket
    BY <1>0 DEF Ticket, AnyTicket
  <2>3. CASE start(w, kind, t)
    <3>1. kind # "unlock" /\ count' = count
      BY <2>1 DEF Commands
    <3>2. count \in [tickets : Nat, starts : Nat, unlocks : Nat]
      BY <1>0 DEF ServiceTypes
    <3> QED
      BY <1>6, <2>1, <2>2, <2>3, <3>1, <3>2
  <2>4. CASE UNCHANGED th
    <3>2. ServiceTypes'
      BY <1>0, <2>1, <2>4 DEF ServiceTypes
    <3>3. DiskTypes' /\ Flags' /\ MemoryTypes'
      BY <1>0, <2>1 DEF DiskTypes, Flags, MemoryTypes, disk, app, decision
    <3>4. Exclusion'
      BY <1>0, <2>1 DEF Exclusion, disk
    <3>5. ASSUME NEW v \in Threads PROVE Control(v)'
      BY <1>0, <2>1, <2>4 DEF Control, Revoking, disk
    <3> QED
      BY <3>2, <3>3, <3>4, <3>5 DEF CInv, Types
  <2> QED
    BY <2>1, <2>3, <2>4
<1>8. ASSUME NEW w \in Threads, NEW d \in Devices, unlock(w, d) PROVE CInv'
  <2> DEFINE t == [Blank EXCEPT !.actor = d]
  <2>1. /\ up /\ start(w, "unlock", t) /\ count' = [count EXCEPT !.unlocks = @ + 1]
        /\ UNCHANGED <<disk, up, offline, app, decision, service, begun>>
    BY <1>8 DEF unlock, live
  <2>2. t \in AnyTicket /\ t.id = 0
    BY IdleType DEF Blank, AnyTicket
  <2>3. count' \in [tickets : Nat, starts : Nat, unlocks : Nat]
    BY <1>0, <2>1 DEF ServiceTypes
  <2>4. UNCHANGED <<tickets, auth, commit>>
    BY <2>1 DEF service
  <2> HIDE DEF t
  <2> QED
    BY <1>6, <2>1, <2>2, <2>3, <2>4
<1> QED
  BY <1>1, <1>2, <1>3, <1>4, <1>5, <1>7, <1>8

(* The daemon's own steps and the owner's console.                         *)
LEMMA DaemonControl ==
    ASSUME CInv,
           \/ create_request \/ lock \/ crash \/ start_daemon
           \/ \E d \in Devices : enroll(d) \/ grant_administrator(d) \/ revoke(d)
           \/ \E n \in 1..MaxActions, x \in Targets : reconcile_begin(n, x)
           \/ reconcile_mutate \/ reconcile_mark \/ reconcile_stops
    PROVE  CInv'
<1>0. /\ DiskTypes /\ Flags /\ MemoryTypes /\ ServiceTypes /\ Exclusion
      /\ registry \in Registry /\ agents \in SUBSET Agents
      /\ journal \in Seq(Action) /\ Len(journal) \in Nat /\ MaxActions \in Nat
      /\ up \in BOOLEAN
      /\ \A w \in Threads : th[w] \in Thread /\ Control(w)
  BY BoundAssumption DEF CInv, Types, ServiceTypes, DiskTypes, Flags
<1>1. ASSUME UNCHANGED <<disk, offline, th, commit>>, UNCHANGED up \/ (up' = TRUE /\ offline.pc = "idle"),
             Flags', MemoryTypes', ServiceTypes'
      PROVE CInv'
  <2>1. DiskTypes'
    BY <1>0, <1>1 DEF DiskTypes, disk
  <2>2. Exclusion'
    BY <1>0, <1>1 DEF Exclusion, disk
  <2>3. ASSUME NEW v \in Threads PROVE Control(v)'
    BY <1>0, <1>1 DEF Control, Revoking, disk
  <2> QED
    BY <1>1, <2>1, <2>2, <2>3 DEF CInv, Types
<1>2. ASSUME create_request PROVE CInv'
  <2>1. request' = "Pending" /\ UNCHANGED <<disk, up, offline, app, by, service, th, begun, count>>
    BY <1>2 DEF create_request
  <2>2. Flags' /\ MemoryTypes' /\ ServiceTypes'
    BY <1>0, <2>1 DEF Flags, MemoryTypes, ServiceTypes, app, service
  <2> QED
    BY <1>1, <2>1, <2>2 DEF service
<1>3. ASSUME lock PROVE CInv'
  <2>1. UNCHANGED <<disk, up, offline, closing, failed, denied, service, th, begun, count>>
    BY <1>3 DEF lock
  <2>2. Flags' /\ ServiceTypes'
    BY <1>0, <2>1 DEF Flags, ServiceTypes, service
  <2>3. MemoryTypes'
    BY <1>0, <1>3, <2>1 DEF MemoryTypes, lock, end_session
  <2> QED
    BY <1>1, <2>1, <2>2, <2>3 DEF service
<1>4. ASSUME crash PROVE CInv'
  <2>1. /\ up /\ ~up' /\ closing' = FALSE /\ failed' = FALSE /\ session' = "locked"
        /\ gen' = 0 /\ epoch' = 0 /\ denied' = {} /\ tickets' = {} /\ auth' = Nobody /\ commit' = Nobody
        /\ th' = [w \in Threads |-> Idle] /\ UNCHANGED <<disk, offline, decision, begun, count>>
    BY <1>4 DEF crash
  <2>2. Flags'
    BY Zenon, <1>4 DEF crash, Flags
  <2>3. MemoryTypes'
    BY <1>0, <2>1 DEF MemoryTypes, decision
  <2>4. ServiceTypes'
    BY <1>0, <2>1, IdleType DEF ServiceTypes
  <2>5. DiskTypes'
    BY <1>0, <2>1 DEF DiskTypes, disk
  <2>6. Exclusion'
    BY <1>0, <2>1 DEF Exclusion, disk
  <2>7. ASSUME NEW w \in Threads PROVE Control(w)'
    <3>1. th'[w] = Idle
      BY <2>1
    <3> QED
      BY <2>1, <3>1, NoneAssumption DEF Control, Idle, Revoking
  <2> QED
    BY <2>2, <2>3, <2>4, <2>5, <2>6, <2>7 DEF CInv, Types
<1>5. ASSUME start_daemon PROVE CInv'
  <2>1. /\ up' = TRUE /\ offline.pc = "idle" /\ closing' = recovery_fence
        /\ request' = (IF request = "Pending" THEN "Ended" ELSE request)
        /\ count' = [count EXCEPT !.starts = @ + 1]
        /\ UNCHANGED <<disk, offline, failed, session, gen, epoch, denied, by, service, th, begun>>
    BY <1>5 DEF start_daemon
  <2>2. recovery_fence \in BOOLEAN
    BY Zenon DEF recovery_fence
  <2>3. Flags'
    BY Zenon, <1>0, <2>1, <2>2 DEF Flags
  <2>4. MemoryTypes'
    BY <1>0, <2>1 DEF MemoryTypes
  <2>5. ServiceTypes'
    BY <1>0, <2>1 DEF ServiceTypes, service
  <2> QED
    BY <1>1, <2>1, <2>3, <2>4, <2>5 DEF service
<1>6. ASSUME ~up, offline.pc \in {"mutate", "mark"} \/ stopped, journal' \in Seq(Action),
             Len(journal') \in Len(journal)..MaxActions,
             offline' \in [pc : {"idle", "mutate", "mark"}, n : Nat],
             offline'.n <= Len(journal'), offline'.pc # "idle" => offline'.n # 0,
             registry' \in Registry, agents' \in SUBSET Agents,
             UNCHANGED <<up, app, decision, service, th, begun, count>>
      PROVE CInv'
  <2>1. DiskTypes'
    BY <1>0, <1>6 DEF DiskTypes
  <2>2. Flags' /\ MemoryTypes' /\ ServiceTypes'
    BY <1>0, <1>6 DEF Flags, MemoryTypes, ServiceTypes, app, decision, service
  <2>3. Exclusion'
    BY <1>0, <1>6 DEF Exclusion, service
  <2>4. ASSUME NEW w \in Threads PROVE Control(w)'
    <3>1. th'[w] = Idle /\ commit' = Nobody
      BY <1>0, <1>6 DEF Exclusion, service
    <3> QED
      BY <3>1, NoneAssumption DEF Control, Idle, Revoking
  <2> QED
    BY <2>1, <2>2, <2>3, <2>4 DEF CInv, Types
<1>7. ASSUME NEW r \in Registry, console(r) PROVE CInv'
  <2>1. /\ stopped /\ ~up /\ (persist_registry(r) \/ persist_fails(r))
        /\ UNCHANGED <<agents, journal, up, offline, app, decision, service, th, begun, count>>
    BY <1>7 DEF console, stopped
  <2>2. registry' \in Registry
    BY <1>0, <2>1, WrittenType
  <2>3. offline \in [pc : {"idle", "mutate", "mark"}, n : Nat] /\ offline.n <= Len(journal)
        /\ Len(journal) <= MaxActions /\ (offline.pc # "idle" => offline.n # 0)
    BY <1>0 DEF DiskTypes, Exclusion
  <2> QED
    BY <1>0, <1>6, <2>1, <2>2, <2>3
<1>8. ASSUME NEW d \in Devices, enroll(d) \/ grant_administrator(d) \/ revoke(d) PROVE CInv'
  <2>1. [registry EXCEPT !.enabled = @ \cup {d}] \in Registry
    BY <1>0, EnrolledType
  <2>2. with_administrator(registry, d) \in Registry
    BY <1>0, WithAdministratorType DEF with_administrator
  <2>3. with_revoked(registry, d) \in Registry
    BY <1>0, WithRevokedType DEF with_revoked
  <2> QED
    BY <1>7, <1>8, <2>1, <2>2, <2>3 DEF enroll, grant_administrator, revoke
<1>9. ASSUME NEW n \in 1..MaxActions, NEW x \in Targets, reconcile_begin(n, x) PROVE CInv'
  <2> DEFINE e == [Pending(x) EXCEPT !.revocation = "Unknown", !.cleanup = "Unknown"]
  <2>1. /\ stopped /\ ~up /\ offline' = [pc |-> "mutate", n |-> n]
        /\ UNCHANGED <<registry, agents, up, app, decision, service, th, begun, count>>
        /\ \/ n \in DOMAIN journal /\ journal' = journal
           \/ n = Len(journal) + 1 /\ journal' = Append(journal, e)
    BY <1>9 DEF reconcile_begin, stopped, save_journal
  <2>2. e \in Action
    <3>1. Pending(x) \in Action
      BY PendingType
    <3> QED
      BY <3>1 DEF Action
  <2> HIDE DEF e
  <2>3. /\ journal' \in Seq(Action) /\ Len(journal') \in Len(journal)..MaxActions /\ n <= Len(journal')
    <3>1. CASE n \in DOMAIN journal /\ journal' = journal
      BY <1>0, <3>1, LenProperties DEF DiskTypes
    <3>2. CASE n = Len(journal) + 1 /\ journal' = Append(journal, e)
      <4>1. Append(journal, e) \in Seq(Action) /\ Len(Append(journal, e)) = Len(journal) + 1
        BY <1>0, <2>2, AppendProperties
      <4> QED
        BY <1>0, <3>2, <4>1
    <3> QED
      BY <2>1, <3>1, <3>2
  <2>4. /\ offline' \in [pc : {"idle", "mutate", "mark"}, n : Nat]
        /\ offline'.n = n
    BY <2>1
  <2> QED
    BY <1>0, <1>6, <2>1, <2>3, <2>4
<1>10. /\ offline \in [pc : {"idle", "mutate", "mark"}, n : Nat] /\ offline.n <= Len(journal)
       /\ Len(journal) <= MaxActions /\ (offline.pc # "idle" => offline.n # 0)
       /\ (offline.pc # "idle" => ~up /\ offline.n \in 1..Len(journal))
  BY <1>0 DEF DiskTypes, Exclusion
<1>11. ASSUME reconcile_mutate PROVE CInv'
  <2>1. /\ offline.pc = "mutate" /\ durable(journal[offline.n].target)
        /\ offline' = [offline EXCEPT !.pc = "mark"]
        /\ UNCHANGED <<journal, up, app, decision, service, th, begun, count>>
    BY <1>11 DEF reconcile_mutate
  <2>2. journal[offline.n].target \in Targets
    <3>1. journal[offline.n] \in Action
      BY <1>0, <1>10, <2>1
    <3> QED
      BY <3>1 DEF Action
  <2>3. registry' \in Registry /\ agents' \in SUBSET Agents
    BY <1>0, <2>1, <2>2, DurableType
  <2>4. offline' \in [pc : {"idle", "mutate", "mark"}, n : Nat] /\ offline'.n = offline.n
    BY <1>10, <2>1
  <2> QED
    BY <1>0, <1>6, <1>10, <2>1, <2>3, <2>4
<1>12. ASSUME reconcile_mark PROVE CInv'
  <2> DEFINE e == [journal[offline.n] EXCEPT !.reconciled = TRUE]
  <2>1. /\ offline.pc = "mark" /\ journal' = [journal EXCEPT ![offline.n] = e]
        /\ offline' = [pc |-> "idle", n |-> 0]
        /\ UNCHANGED <<registry, agents, up, app, decision, service, th, begun, count>>
    BY <1>12 DEF reconcile_mark, save_journal
  <2>2. e \in Action
    <3>1. journal[offline.n] \in Action
      BY <1>0, <1>10, <2>1
    <3> QED
      BY <3>1 DEF Action
  <2> HIDE DEF e
  <2>3. journal' \in Seq(Action) /\ Len(journal') = Len(journal)
    BY <1>0, <1>10, <2>1, <2>2, ExceptSeq
  <2>4. offline' \in [pc : {"idle", "mutate", "mark"}, n : Nat] /\ offline'.n = 0 /\ offline'.pc = "idle"
    BY <2>1
  <2> QED
    BY <1>0, <1>6, <1>10, <2>1, <2>3, <2>4
<1>13. ASSUME reconcile_stops PROVE CInv'
  <2>1. /\ offline.pc # "idle" /\ offline' = [pc |-> "idle", n |-> 0]
        /\ UNCHANGED <<disk, up, app, decision, service, th, begun, count>>
    BY <1>13 DEF reconcile_stops
  <2>2. offline' \in [pc : {"idle", "mutate", "mark"}, n : Nat] /\ offline'.n = 0 /\ offline'.pc = "idle"
    BY <2>1
  <2>3. registry' = registry /\ agents' = agents /\ journal' = journal
    BY <2>1 DEF disk
  <2> QED
    BY <1>0, <1>6, <1>10, <2>1, <2>2, <2>3
<1> QED
  BY <1>2, <1>3, <1>4, <1>5, <1>8, <1>9, <1>11, <1>12, <1>13

LEMMA ControlNext == CInv /\ [Next]_vars => CInv'
<1> SUFFICES ASSUME CInv, [Next]_vars PROVE CInv'
  OBVIOUS
<1>1. CASE UNCHANGED vars
  <2>1. DiskTypes' /\ Flags' /\ MemoryTypes' /\ ServiceTypes'
    BY <1>1 DEF CInv, Types, DiskTypes, Flags, MemoryTypes, ServiceTypes, vars, disk, app, decision, service
  <2>2. Exclusion'
    BY <1>1 DEF CInv, Exclusion, vars, disk, service
  <2>3. ASSUME NEW w \in Threads PROVE Control(w)'
    BY <1>1 DEF CInv, Control, Revoking, vars, disk, service
  <2> QED
    BY <2>1, <2>2, <2>3 DEF CInv, Types
<1>2. ASSUME NEW w \in Threads, step(w) PROVE CInv'
  BY <1>2, DecidingControl, RevokingControl DEF step
<1> QED
  BY <1>1, <1>2, ArrivingControl, DaemonControl DEF Next

(* The whole state keeps its types, and the journal on disk is always one  *)
(* that read_journal accepts.                                              *)
THEOREM TypeCorrect == Spec => []TypeOK
<1>1. CInv => TypeOK
  <2> SUFFICES ASSUME CInv PROVE TypeOK
    OBVIOUS
  <2>0. DiskTypes /\ Flags /\ MemoryTypes /\ ServiceTypes
    BY DEF CInv, Types
  <2>1. Len(journal) \in Nat /\ \A n \in DOMAIN journal : journal[n] \in Action
    BY <2>0, LenProperties DEF DiskTypes
  <2>2. offline.pc \in {"idle", "mutate", "mark"} /\ offline.n \in 0..Len(journal)
    BY <2>0, <2>1 DEF DiskTypes
  <2>3. up \in BOOLEAN /\ {closing, failed} \subseteq BOOLEAN
    BY Zenon, <2>0 DEF Flags
  <2>4. registry \in Registry /\ agents \in SUBSET Agents /\ Len(journal) <= MaxActions
    BY <2>0 DEF DiskTypes
  <2> QED
    BY <2>0, <2>1, <2>2, <2>3, <2>4 DEF MemoryTypes, ServiceTypes, TypeOK
<1> QED
  BY <1>1, ControlInit, ControlNext, PTL DEF Spec

(* The holder of identity_commit is at work on its revocation or its       *)
(* unlock, and waits for nobody: with NoThreadStuck, which says that such  *)
(* a thread can take its step, no set of connections blocks each other.    *)
THEOREM HolderAtWork == Spec => []HolderNeverWaits
<1>1. CInv => HolderNeverWaits
  <2> SUFFICES ASSUME CInv, NEW w \in Threads, waits(w)
               PROVE commit \in Threads \ {w} /\ th[commit].pc # "idle" /\ ~waits(commit)
    BY DEF HolderNeverWaits
  <2>1. commit \in Threads
    BY DEF CInv, Types, ServiceTypes, waits
  <2>2. th[commit].pc \in {"mutate", "registry", "record", "unlock_slot"}
    BY <2>1 DEF CInv, Control, Revoking
  <2>3. th[w].pc \in {"commit", "unlock"}
    BY DEF waits
  <2> QED
    BY <2>1, <2>2, <2>3 DEF waits
<1> QED
  BY <1>1, ControlInit, ControlNext, PTL DEF Spec
-----------------------------------------------------------------------------
(* registry() reads every registry back that the operators make of one it  *)
(* reads back, and the audit log keeps to its bound.                       *)

Sound(r) ==
    registry_valid(r) /\ r.audit <= Cardinality(r.administrators) + 2 * Cardinality(r.revoked)

LEMMA RegistryFinite ==
    ASSUME NEW r \in Registry
    PROVE  /\ IsFiniteSet(r.enabled) /\ IsFiniteSet(r.revoked) /\ IsFiniteSet(r.administrators)
           /\ IsFiniteSet(r.enabled \cup r.revoked)
           /\ Cardinality(r.enabled) \in Nat /\ Cardinality(r.revoked) \in Nat
           /\ Cardinality(r.administrators) \in Nat /\ Cardinality(r.enabled \cup r.revoked) \in Nat
           /\ r.audit \in Nat
<1>1. r.enabled \in SUBSET Devices /\ r.revoked \in SUBSET Devices
      /\ r.administrators \in SUBSET Devices /\ r.audit \in Nat
  BY DEF Registry
<1>2. IsFiniteSet(Devices)
  BY KeyAssumption
<1>3. IsFiniteSet(r.enabled) /\ IsFiniteSet(r.revoked) /\ IsFiniteSet(r.administrators)
      /\ IsFiniteSet(r.enabled \cup r.revoked)
  BY <1>1, <1>2, FS_Subset, FS_Union
<1> QED
  BY <1>1, <1>3, FS_CardinalityType

(* One audit entry for each administrator and two for each revoked device  *)
(* stay within two for each identity.                                      *)
LEMMA AuditFits ==
    ASSUME NEW r \in Registry, r.enabled \cap r.revoked = {}, r.administrators \subseteq r.enabled,
           Cardinality(r.enabled \cup r.revoked) <= MaxIdentities,
           r.audit <= Cardinality(r.administrators) + 2 * Cardinality(r.revoked)
    PROVE  r.audit <= 2 * MaxIdentities
<1>1. Cardinality(r.administrators) <= Cardinality(r.enabled)
  BY RegistryFinite, FS_Subset
<1>2. Cardinality(r.enabled \cup r.revoked) = Cardinality(r.enabled) + Cardinality(r.revoked)
  <2>1. Cardinality({}) = 0
    BY FS_EmptySet
  <2>2. Cardinality(r.enabled \cup r.revoked) =
            Cardinality(r.enabled) + Cardinality(r.revoked) - Cardinality(r.enabled \cap r.revoked)
    BY RegistryFinite, FS_Union
  <2>3. Cardinality(r.enabled \cap r.revoked) = 0
    BY <2>1
  <2>4. Cardinality(r.enabled) \in Nat /\ Cardinality(r.revoked) \in Nat
    BY RegistryFinite
  <2> QED
    BY <2>2, <2>3, <2>4
<1>3. MaxIdentities \in Nat
  BY BoundAssumption
<1> QED
  BY <1>1, <1>2, <1>3, RegistryFinite

(* The list of retired keys: bounded, without repetitions, and with        *)
(* nothing but earlier ones and the one that is retired now.               *)
Distinct(s) == \A m, n \in DOMAIN s : s[m] = s[n] => m = n

WithRetired(s, k) ==
    IF Len(Append(s, k)) > MaxRetired THEN Tail(Append(s, k)) ELSE Append(s, k)

LEMMA RetiredList ==
    ASSUME NEW s \in Seq(Keys), NEW k \in Keys, Distinct(s), \A n \in DOMAIN s : s[n] # k,
           Len(s) <= MaxRetired
    PROVE  /\ Distinct(WithRetired(s, k)) /\ Len(WithRetired(s, k)) <= MaxRetired
           /\ \A n \in DOMAIN WithRetired(s, k) :
                 WithRetired(s, k)[n] = k \/ \E m \in DOMAIN s : WithRetired(s, k)[n] = s[m]
<1> DEFINE a == Append(s, k)
           q == WithRetired(s, k)
<1>0. q = IF Len(a) > MaxRetired THEN Tail(a) ELSE a
  BY DEF WithRetired
<1> HIDE DEF q
<1>1. /\ a \in Seq(Keys) /\ a # <<>> /\ Len(a) = Len(s) + 1 /\ a[Len(s) + 1] = k
      /\ \A n \in 1..Len(s) : a[n] = s[n]
  BY AppendProperties
<1>2. Len(s) \in Nat /\ DOMAIN s = 1..Len(s) /\ MaxRetired \in Nat
  BY LenProperties, BoundAssumption
<1> HIDE DEF a
<1>3. DOMAIN a = 1..Len(s) + 1
  BY <1>1, LenProperties
<1>4. Distinct(a) /\ \A n \in DOMAIN a : a[n] = k \/ \E m \in DOMAIN s : a[n] = s[m]
  <2>1. \A n \in DOMAIN a : n \in 1..Len(s) \/ n = Len(s) + 1
    BY <1>2, <1>3
  <2>2. Distinct(a)
    BY <1>1, <1>2, <2>1 DEF Distinct
  <2> QED
    BY <1>1, <1>2, <2>1, <2>2
<1>5. CASE ~(Len(a) > MaxRetired)
  <2>1. q = a /\ Len(a) <= MaxRetired
    BY <1>0, <1>1, <1>2, <1>5
  <2> QED
    BY <1>4, <2>1 DEF q
<1>6. CASE Len(a) > MaxRetired
  <2>1. q = Tail(a)
    BY <1>0, <1>6
  <2>2. q \in Seq(Keys) /\ Len(q) = Len(s) /\ \A n \in 1..Len(q) : q[n] = a[n + 1]
    <3>1. Tail(a) \in Seq(Keys) /\ Len(Tail(a)) = Len(a) - 1
          /\ \A n \in 1..Len(Tail(a)) : Tail(a)[n] = a[n + 1]
      BY <1>1, HeadTailProperties
    <3>2. Len(a) - 1 = Len(s)
      BY <1>1, <1>2
    <3> QED
      BY <2>1, <3>1, <3>2
  <2>3. DOMAIN q = 1..Len(s)
    BY <2>2, LenProperties
  <2>4. \A n \in DOMAIN q : n + 1 \in DOMAIN a /\ q[n] = a[n + 1] /\ n \in Nat
    <3> SUFFICES ASSUME NEW n \in DOMAIN q PROVE n + 1 \in DOMAIN a /\ q[n] = a[n + 1] /\ n \in Nat
      OBVIOUS
    <3>1. n \in 1..Len(s)
      BY <2>3
    <3>2. n \in Nat /\ n + 1 \in 1..Len(s) + 1
      BY <1>2, <3>1
    <3>3. q[n] = a[n + 1]
      BY <2>2, <3>1
    <3> QED
      BY <1>3, <3>2, <3>3
  <2>5. Distinct(q)
    <3> SUFFICES ASSUME NEW m \in DOMAIN q, NEW n \in DOMAIN q, q[m] = q[n] PROVE m = n
      BY DEF Distinct
    <3>1. a[m + 1] = a[n + 1] /\ m + 1 \in DOMAIN a /\ n + 1 \in DOMAIN a /\ m \in Nat /\ n \in Nat
      BY <2>4
    <3>2. m + 1 = n + 1
      BY <1>4, <3>1 DEF Distinct
    <3> QED
      BY <3>1, <3>2
  <2> QED
    BY <1>4, <2>2, <2>4, <2>5 DEF q
<1> QED
  BY <1>5, <1>6

(* What registry_valid asks of the keys.                                   *)
KeysSound(r) ==
    /\ Len(r.retired) <= MaxRetired /\ Distinct(r.retired)
    /\ \A d \in Devices : r.key[d] # NoKey =>
          /\ d \in r.enabled
          /\ \A e \in Devices \ {d} : r.key[e] # r.key[d]
          /\ \A n \in DOMAIN r.retired : r.retired[n] # r.key[d]

LEMMA SoundParts ==
    ASSUME NEW r \in Registry
    PROVE  Sound(r) <=>
             /\ r.enabled \cap r.revoked = {} /\ Cardinality(r.enabled \cup r.revoked) <= MaxIdentities
             /\ r.administrators \subseteq r.enabled
             /\ r.audit <= Cardinality(r.administrators) + 2 * Cardinality(r.revoked)
             /\ r.key_audit <= MaxKeyAudit /\ KeysSound(r)
  BY AuditFits DEF Sound, registry_valid, KeysSound, Distinct

(* The keys after one has been retired.                                    *)
LEMMA RetireKeys ==
    ASSUME NEW r \in Registry, NEW d \in Devices, KeysSound(r)
    PROVE  LET q == retire_biometric(r, d) IN
           /\ Len(q.retired) <= MaxRetired /\ Distinct(q.retired)
           /\ \A n \in DOMAIN q.retired :
                 \/ q.retired[n] = r.key[d] /\ r.key[d] # NoKey
                 \/ \E m \in DOMAIN r.retired : q.retired[n] = r.retired[m]
<1> DEFINE q == retire_biometric(r, d)
<1>1. CASE r.key[d] = NoKey
  BY <1>1 DEF retire_biometric, KeysSound
<1>2. CASE r.key[d] # NoKey
  <2>1. r.key[d] \in Keys /\ r.retired \in Seq(Keys)
    BY <1>2 DEF Registry
  <2> DEFINE l == WithRetired(r.retired, r.key[d])
  <2>2. q.retired = l
    <3>1. q = [[r EXCEPT !.key = [r.key EXCEPT ![d] = NoKey]] EXCEPT !.retired = l]
      BY <1>2 DEF retire_biometric, WithRetired
    <3> HIDE DEF q, l
    <3> QED
      BY <3>1 DEF Registry
  <2>3. \A n \in DOMAIN r.retired : r.retired[n] # r.key[d]
    BY <1>2 DEF KeysSound
  <2>4. /\ Distinct(l) /\ Len(l) <= MaxRetired
        /\ \A n \in DOMAIN l : l[n] = r.key[d] \/ \E m \in DOMAIN r.retired : l[n] = r.retired[m]
    <3>1. Distinct(r.retired) /\ Len(r.retired) <= MaxRetired
      BY DEF KeysSound
    <3> QED
      BY <2>1, <2>3, <3>1, RetiredList
  <2> HIDE DEF l
  <2> QED
    BY <1>2, <2>2, <2>4
<1> QED
  BY <1>1, <1>2

(* Everyone else's key is neither retired nor touched.                     *)
LEMMA RetireSound ==
    ASSUME NEW r \in Registry, NEW d \in Devices, Sound(r)
    PROVE  Sound(retire_biometric(r, d))
<1> DEFINE q == retire_biometric(r, d)
<1>0. KeysSound(r) /\ r.key \in [Devices -> Keys \cup {NoKey}]
  BY SoundParts DEF Registry
<1>1. /\ q \in Registry /\ q.enabled = r.enabled /\ q.revoked = r.revoked
      /\ q.administrators = r.administrators /\ q.audit = r.audit /\ q.key_audit = r.key_audit
      /\ q.key = [r.key EXCEPT ![d] = NoKey]
  BY RetireType
<1>2. /\ Len(q.retired) <= MaxRetired /\ Distinct(q.retired)
      /\ \A n \in DOMAIN q.retired :
            \/ q.retired[n] = r.key[d] /\ r.key[d] # NoKey
            \/ \E m \in DOMAIN r.retired : q.retired[n] = r.retired[m]
  BY <1>0, RetireKeys
<1> HIDE DEF q
<1>3. \A e \in Devices : q.key[e] # NoKey => e # d /\ q.key[e] = r.key[e]
  BY <1>0, <1>1
<1>4. ASSUME NEW e \in Devices, q.key[e] # NoKey
      PROVE  /\ e \in q.enabled /\ \A f \in Devices \ {e} : q.key[f] # q.key[e]
             /\ \A n \in DOMAIN q.retired : q.retired[n] # q.key[e]
  BY <1>0, <1>1, <1>2, <1>3, <1>4 DEF KeysSound
<1>5. KeysSound(q)
  BY <1>2, <1>4 DEF KeysSound
<1>6. Sound(q)
  BY <1>1, <1>5, SoundParts
<1> QED
  BY <1>6 DEF q

(* One more entry about a key leaves the registry readable.                *)
LEMMA WithoutKeySound ==
    ASSUME NEW r \in Registry, NEW d \in Devices, Sound(r)
    PROVE  Sound(without_key(r, d))
<1>1. CASE r.key[d] = NoKey
  BY <1>1 DEF without_key
<1>2. CASE r.key[d] # NoKey
  <2> DEFINE p == retire_biometric(r, d)
             q == without_key(r, d)
  <2>1. Sound(p) /\ p \in Registry
    BY RetireSound, RetireType
  <2>2. /\ q \in Registry /\ q.enabled = p.enabled /\ q.revoked = p.revoked
        /\ q.administrators = p.administrators /\ q.audit = p.audit
        /\ q.key_audit = biometric_audit(p.key_audit) /\ q.key = p.key /\ q.retired = p.retired
    <3>1. /\ p.enabled = r.enabled /\ p.revoked = r.revoked /\ p.administrators = r.administrators
          /\ p.audit = r.audit /\ p.key_audit = r.key_audit
      BY RetireType
    <3>2. /\ q \in Registry /\ q.enabled = r.enabled /\ q.revoked = r.revoked
          /\ q.administrators = r.administrators /\ q.audit = r.audit
          /\ q.key_audit = biometric_audit(r.key_audit) /\ q.key = p.key /\ q.retired = p.retired
      BY <1>2, WithoutKeyType
    <3> HIDE DEF p, q
    <3> QED
      BY <3>1, <3>2
  <2>3. q.key_audit <= MaxKeyAudit
    <3>1. p.key_audit \in Nat /\ p.key_audit <= MaxKeyAudit
      BY <2>1, SoundParts DEF Registry
    <3> QED
      BY <2>2, <3>1, AuditCount
  <2> HIDE DEF p, q
  <2>4. KeysSound(q)
    BY <2>1, <2>2, SoundParts DEF KeysSound
  <2>5. Sound(q)
    BY <2>1, <2>2, <2>3, <2>4, SoundParts
  <2> QED
    BY <2>5 DEF q
<1> QED
  BY <1>1, <1>2

LEMMA KeySound ==
    ASSUME NEW r \in Registry, NEW d \in Devices, NEW k \in Keys, Sound(r), may_enroll_key(r, d, k)
    PROVE  Sound(with_key(r, d, k))
<1> DEFINE q == with_key(r, d, k)
<1>0. KeysSound(r) /\ r.key \in [Devices -> Keys \cup {NoKey}]
  BY SoundParts DEF Registry
<1>1. /\ q \in Registry /\ q.enabled = r.enabled /\ q.revoked = r.revoked
      /\ q.administrators = r.administrators /\ q.audit = r.audit
      /\ q.key_audit = biometric_audit(r.key_audit)
      /\ q.key = [r.key EXCEPT ![d] = k] /\ q.retired = retire_biometric(r, d).retired
  BY WithKeyType
<1>2. /\ Len(q.retired) <= MaxRetired /\ Distinct(q.retired)
      /\ \A n \in DOMAIN q.retired :
            \/ q.retired[n] = r.key[d] /\ r.key[d] # NoKey
            \/ \E m \in DOMAIN r.retired : q.retired[n] = r.retired[m]
  BY <1>0, <1>1, RetireKeys
<1> HIDE DEF q
<1>3. \A e \in Devices : r.key[e] # k
  BY <1>0, NoneAssumption DEF KeysSound, may_enroll_key, key_ids
<1>4. d \in r.enabled /\ k # NoKey /\ \A m \in DOMAIN r.retired : r.retired[m] # k
  BY NoneAssumption DEF may_enroll_key
<1>5. ASSUME NEW e \in Devices, q.key[e] # NoKey
      PROVE  /\ e \in q.enabled /\ \A f \in Devices \ {e} : q.key[f] # q.key[e]
             /\ \A n \in DOMAIN q.retired : q.retired[n] # q.key[e]
  <2>1. CASE e = d
    BY <1>0, <1>1, <1>2, <1>3, <1>4, <2>1
  <2>2. CASE e # d
    <3>1. q.key[e] = r.key[e]
      BY <1>0, <1>1, <2>2
    <3> QED
      BY <1>0, <1>1, <1>2, <1>3, <1>5, <2>2, <3>1 DEF KeysSound
  <2> QED
    BY <2>1, <2>2
<1>6. KeysSound(q)
  BY <1>2, <1>5 DEF KeysSound
<1>7. q.key_audit <= MaxKeyAudit
  <2>1. r.key_audit \in Nat /\ r.key_audit <= MaxKeyAudit
    BY SoundParts DEF Registry
  <2> QED
    BY <1>1, <2>1, AuditCount
<1>8. Sound(q)
  BY <1>1, <1>6, <1>7, SoundParts
<1> QED
  BY <1>8 DEF q

(* A revocation moves one device, and spends its office and one entry.     *)
LEMMA RevokedSound ==
    ASSUME NEW r \in Registry, NEW d \in r.enabled \cup r.revoked, Sound(r)
    PROVE  Sound(with_revoked(r, d))
<1>0. /\ KeysSound(r) /\ r.key \in [Devices -> Keys \cup {NoKey}] /\ d \in Devices
      /\ r.enabled \cap r.revoked = {} /\ Cardinality(r.enabled \cup r.revoked) <= MaxIdentities
      /\ r.administrators \subseteq r.enabled
      /\ r.audit <= Cardinality(r.administrators) + 2 * Cardinality(r.revoked)
      /\ r.key_audit <= MaxKeyAudit
  BY SoundParts DEF Registry
<1>a. CASE d \in r.revoked
  BY <1>a DEF with_revoked
<1>b. CASE d \notin r.revoked
  <2> DEFINE q == with_revoked(r, d)
  <2>1. /\ q \in Registry /\ q.enabled = r.enabled \ {d} /\ q.revoked = r.revoked \cup {d}
        /\ q.administrators = r.administrators \ {d} /\ q.audit = r.audit + 1
        /\ q.key_audit = r.key_audit
        /\ q.key = [r.key EXCEPT ![d] = NoKey] /\ q.retired = retire_biometric(r, d).retired
    BY <1>0, <1>b, WithRevokedType
  <2>2. /\ Len(q.retired) <= MaxRetired /\ Distinct(q.retired)
        /\ \A n \in DOMAIN q.retired :
              \/ q.retired[n] = r.key[d] /\ r.key[d] # NoKey
              \/ \E m \in DOMAIN r.retired : q.retired[n] = r.retired[m]
    BY <1>0, <2>1, RetireKeys
  <2> HIDE DEF q
  <2>3. \A e \in Devices : q.key[e] # NoKey => e # d /\ q.key[e] = r.key[e]
    BY <1>0, <2>1
  <2>4. ASSUME NEW e \in Devices, q.key[e] # NoKey
        PROVE  /\ e \in q.enabled /\ \A f \in Devices \ {e} : q.key[f] # q.key[e]
               /\ \A n \in DOMAIN q.retired : q.retired[n] # q.key[e]
    BY <1>0, <2>1, <2>2, <2>3, <2>4 DEF KeysSound
  <2>5. KeysSound(q)
    BY <2>2, <2>4 DEF KeysSound
  <2>6. q.enabled \cup q.revoked = r.enabled \cup r.revoked /\ q.enabled \cap q.revoked = {}
        /\ q.administrators \subseteq q.enabled
    BY <1>0, <2>1
  <2>7. Cardinality(q.revoked) = Cardinality(r.revoked) + 1
        /\ Cardinality(q.administrators) >= Cardinality(r.administrators) - 1
    <3>1. /\ IsFiniteSet(r.revoked) /\ IsFiniteSet(r.administrators)
          /\ Cardinality(r.administrators) \in Nat
      BY RegistryFinite
    <3>2. Cardinality(r.revoked \cup {d}) = Cardinality(r.revoked) + 1
      BY <1>b, <3>1, FS_AddElement
    <3>3. Cardinality(r.administrators \ {d}) =
            IF d \in r.administrators THEN Cardinality(r.administrators) - 1
                                      ELSE Cardinality(r.administrators)
      BY <3>1, FS_RemoveElement
    <3> QED
      BY <2>1, <3>1, <3>2, <3>3
  <2>8. q.audit <= Cardinality(q.administrators) + 2 * Cardinality(q.revoked)
    <3>1. /\ r.audit \in Nat /\ Cardinality(r.administrators) \in Nat /\ Cardinality(r.revoked) \in Nat
          /\ Cardinality(q.administrators) \in Nat /\ Cardinality(q.revoked) \in Nat
      BY <2>1, RegistryFinite
    <3> QED
      BY <1>0, <2>1, <2>7, <3>1
  <2>9. Sound(q)
    BY <1>0, <2>1, <2>5, <2>6, <2>8, SoundParts
  <2> QED
    BY <2>9 DEF q
<1> QED
  BY <1>a, <1>b

LEMMA AdministratorSound ==
    ASSUME NEW r \in Registry, NEW d \in r.enabled, Sound(r)
    PROVE  Sound(with_administrator(r, d))
<1>0. /\ KeysSound(r) /\ d \in Devices
      /\ r.enabled \cap r.revoked = {} /\ Cardinality(r.enabled \cup r.revoked) <= MaxIdentities
      /\ r.administrators \subseteq r.enabled
      /\ r.audit <= Cardinality(r.administrators) + 2 * Cardinality(r.revoked)
      /\ r.key_audit <= MaxKeyAudit
  BY SoundParts DEF Registry
<1>a. CASE d \in r.administrators
  BY <1>a DEF with_administrator
<1>b. CASE d \notin r.administrators
  <2> DEFINE q == with_administrator(r, d)
  <2>1. /\ q \in Registry /\ q.enabled = r.enabled /\ q.revoked = r.revoked
        /\ q.administrators = r.administrators \cup {d} /\ q.audit = r.audit + 1
        /\ q.key_audit = r.key_audit
        /\ q.key = r.key /\ q.retired = r.retired
    BY <1>0, <1>b, WithAdministratorType
  <2> HIDE DEF q
  <2>2. Cardinality(q.administrators) = Cardinality(r.administrators) + 1
    BY <1>b, <2>1, RegistryFinite, FS_AddElement
  <2>3. q.audit <= Cardinality(q.administrators) + 2 * Cardinality(q.revoked)
    <3>1. r.audit \in Nat /\ Cardinality(r.administrators) \in Nat /\ Cardinality(r.revoked) \in Nat
      BY RegistryFinite
    <3> QED
      BY <1>0, <2>1, <2>2, <3>1
  <2>4. KeysSound(q)
    BY <1>0, <2>1 DEF KeysSound
  <2>5. Sound(q)
    BY <1>0, <2>1, <2>3, <2>4, SoundParts
  <2> QED
    BY <2>5 DEF q
<1> QED
  BY <1>a, <1>b

LEMMA EnrolledSound ==
    ASSUME NEW r \in Registry, NEW d \in Devices \ (r.enabled \cup r.revoked), Sound(r),
           Cardinality(r.enabled \cup r.revoked) < MaxIdentities
    PROVE  Sound([r EXCEPT !.enabled = @ \cup {d}])
<1>0. /\ KeysSound(r)
      /\ r.enabled \cap r.revoked = {}
      /\ r.administrators \subseteq r.enabled
      /\ r.audit <= Cardinality(r.administrators) + 2 * Cardinality(r.revoked)
      /\ r.key_audit <= MaxKeyAudit
  BY SoundParts
<1> DEFINE q == [r EXCEPT !.enabled = @ \cup {d}]
<1>a. q \in Registry /\ q = [enabled |-> r.enabled \cup {d}, revoked |-> r.revoked,
                             administrators |-> r.administrators, audit |-> r.audit, key_audit |-> r.key_audit, key |-> r.key,
                             retired |-> r.retired]
  BY EnrolledType
<1> HIDE DEF q
<1>1. /\ q \in Registry /\ q.enabled = r.enabled \cup {d} /\ q.revoked = r.revoked
      /\ q.administrators = r.administrators /\ q.audit = r.audit /\ q.key = r.key
      /\ q.retired = r.retired /\ q.key_audit = r.key_audit
  BY <1>a
<1>2. q.enabled \cup q.revoked = (r.enabled \cup r.revoked) \cup {d}
  BY <1>1
<1>3. Cardinality(q.enabled \cup q.revoked) = Cardinality(r.enabled \cup r.revoked) + 1
  <2>1. IsFiniteSet(r.enabled \cup r.revoked)
    BY RegistryFinite
  <2> QED
    BY <1>2, <2>1, FS_AddElement
<1>4. Cardinality(q.enabled \cup q.revoked) <= MaxIdentities
  <2>1. Cardinality(r.enabled \cup r.revoked) \in Nat
    BY RegistryFinite
  <2> QED
    BY <1>3, <2>1, BoundAssumption
<1>5. KeysSound(q)
  BY <1>0, <1>1 DEF KeysSound
<1>6. Sound(q)
  BY <1>0, <1>1, <1>4, <1>5, SoundParts
<1> QED
  BY <1>6 DEF q
-----------------------------------------------------------------------------
(* Most steps touch no revocation: none begins, moves on or ends, nothing  *)
(* is unrevoked, and admission is not opened.                              *)

Quiet ==
    /\ UNCHANGED <<agents, journal, begun, up, offline>>
    /\ closing => closing'
    /\ registry.revoked \subseteq registry'.revoked
    /\ \A v \in Threads : Revoking(v) =>
          /\ commit' = commit
          /\ th'[v].pc = th[v].pc /\ th'[v].action = th[v].action
          /\ th'[v].revocation = th[v].revocation /\ th'[v].ticket.target = th[v].ticket.target
    /\ \A v \in Threads : ~Revoking(v) => ~Revoking(v)'

(* The registry stays one that can be read, and keeps the enrolments.      *)
KeepsRegistry ==
    /\ Sound(registry) => Sound(registry')
    /\ registry.enabled \subseteq registry'.enabled

LEMMA QuietThread ==
    ASSUME CInv, NEW w \in Threads, ~Revoking(w), ~Revoking(w)', Others(w),
           UNCHANGED <<agents, journal, begun, up, offline>>, closing => closing',
           registry.revoked \subseteq registry'.revoked
    PROVE  Quiet
<1>1. ASSUME NEW v \in Threads, v # w
      PROVE  th'[v] = th[v] /\ (Revoking(v) => commit' = commit)
  BY <1>1 DEF Others, CInv, Control
<1>2. ASSUME NEW v \in Threads, Revoking(v)
      PROVE  /\ commit' = commit
             /\ th'[v].pc = th[v].pc /\ th'[v].action = th[v].action
             /\ th'[v].revocation = th[v].revocation /\ th'[v].ticket.target = th[v].ticket.target
  BY <1>1, <1>2
<1>3. ASSUME NEW v \in Threads, ~Revoking(v) PROVE ~Revoking(v)'
  BY <1>1, <1>3 DEF Revoking
<1> QED
  BY <1>2, <1>3 DEF Quiet

LEMMA QuietEnd ==
    ASSUME CInv, NEW w \in Threads, ~Revoking(w), end(w),
           UNCHANGED <<agents, journal, begun, up, offline>>, closing => closing',
           registry.revoked \subseteq registry'.revoked
    PROVE  Quiet
<1>1. Others(w) /\ th'[w] = Idle
  BY Ended
<1>2. ~Revoking(w)'
  BY <1>1 DEF Revoking, Idle
<1> QED
  BY <1>1, <1>2, QuietThread

(* A thread goes on, not into a revocation.                                *)
LEMMA QuietGo ==
    ASSUME CInv, NEW w \in Threads, ~Revoking(w), NEW r, th' = [th EXCEPT ![w] = r],
           r.pc \notin {"mutate", "registry", "record"},
           commit' = commit \/ (commit = Nobody /\ commit' = w),
           UNCHANGED <<registry, agents, journal, begun, up, offline, closing>>
    PROVE  Quiet
<1>1. th'[w] = r /\ Others(w)
  BY NoneAssumption DEF Others, CInv, Types, ServiceTypes
<1>2. ~Revoking(w)'
  BY <1>1 DEF Revoking
<1> QED
  BY <1>1, <1>2, QuietThread

LEMMA QuietDeciding ==
    ASSUME CInv, NEW w \in Threads,
           \/ prepare(w) \/ refused(w) \/ authenticate(w) \/ commit_deny(w) \/ commit_approve(w)
           \/ dispatch_failed(w) \/ unlock_gate(w) \/ unlock_refused(w) \/ unlock_slot(w)
           \/ (\E k \in Keys : commit_enroll(w, k)) \/ commit_revoke_key(w)
    PROVE  Quiet /\ KeepsRegistry
<1>0. th[w] \in Thread /\ Control(w) /\ registry \in Registry
  BY DEF CInv, Types, ServiceTypes, DiskTypes
<1>1. ASSUME prepare(w) PROVE Quiet /\ KeepsRegistry
  <2>1. /\ UNCHANGED <<disk, up, offline, app, decision, service, begun, count>> /\ th[w].pc = "prepare"
        /\ (goto(w, "commit") \/ goto(w, "authenticate") \/ finish(w))
    BY <1>1 DEF prepare, at
  <2>2. UNCHANGED <<registry, agents, journal, begun, up, offline, closing, commit>> /\ ~Revoking(w)
    BY <2>1 DEF disk, app, service, Revoking
  <2>3. \E r \in {[th[w] EXCEPT !.pc = "commit"], [th[w] EXCEPT !.pc = "authenticate"], Idle} :
           th' = [th EXCEPT ![w] = r]
    BY <2>1 DEF goto, finish
  <2>4. \A r \in {[th[w] EXCEPT !.pc = "commit"], [th[w] EXCEPT !.pc = "authenticate"], Idle} :
           r.pc \notin {"mutate", "registry", "record"}
    BY <1>0 DEF Thread, Idle
  <2>5. Quiet
    BY <2>2, <2>3, <2>4, QuietGo
  <2> QED
    BY <2>2, <2>5 DEF KeepsRegistry
<1>2. ASSUME refused(w) \/ unlock_refused(w) PROVE Quiet /\ KeepsRegistry
  <2>1. /\ end(w) /\ UNCHANGED <<disk, up, offline, app, decision, tickets, begun, count>>
        /\ ~Revoking(w)
    BY <1>2 DEF refused, unlock_refused, at, Revoking
  <2>2. UNCHANGED <<registry, agents, journal, begun, up, offline, closing>>
    BY <2>1 DEF disk, app
  <2> QED
    BY <2>1, <2>2, QuietEnd DEF KeepsRegistry
<1>3. ASSUME authenticate(w) PROVE Quiet /\ KeepsRegistry
  <2> DEFINE k == IF th[w].cmd = "approve_key" THEN registry.key[th[w].ticket.actor] ELSE NoKey
             r == WithKey(th[w], k)
  <2>1. th' = [th EXCEPT ![w] = r] /\ ~Revoking(w)
        /\ UNCHANGED <<disk, up, offline, app, decision, tickets, commit, begun, count>>
    BY <1>3 DEF authenticate, at, WithKey, Revoking
  <2>2. r.pc = "commit"
    BY <1>0 DEF WithKey, Thread
  <2>3. UNCHANGED <<registry, agents, journal, begun, up, offline, closing, commit>>
    BY <2>1 DEF disk, app
  <2> HIDE DEF r
  <2>4. Quiet
    BY <2>1, <2>2, <2>3, QuietGo
  <2> QED
    BY <2>3, <2>4 DEF KeepsRegistry
<1>4. ASSUME commit_deny(w) PROVE Quiet /\ KeepsRegistry
  <2>1. end(w) /\ UNCHANGED <<disk, up, offline, app, tickets, begun, count>> /\ ~Revoking(w)
    BY <1>4 DEF commit_deny, at, Revoking
  <2>2. UNCHANGED <<registry, agents, journal, begun, up, offline, closing>>
    BY <2>1 DEF disk, app
  <2> QED
    BY <2>1, <2>2, QuietEnd DEF KeepsRegistry
<1>5. ASSUME commit_approve(w) PROVE Quiet /\ KeepsRegistry
  <2>1. /\ ~Revoking(w) /\ commit = Nobody
        /\ end(w) \/ (goto(w, "dispatch") /\ release(w))
        /\ UNCHANGED <<disk, up, offline, app, tickets, begun, count>>
    BY <1>5 DEF commit_approve, at, Revoking
  <2>2. UNCHANGED <<registry, agents, journal, begun, up, offline, closing>>
    BY <2>1 DEF disk, app
  <2>3. CASE end(w)
    BY <2>1, <2>2, <2>3, QuietEnd DEF KeepsRegistry
  <2>4. CASE goto(w, "dispatch") /\ release(w)
    <3>1. th' = [th EXCEPT ![w] = [th[w] EXCEPT !.pc = "dispatch"]] /\ commit' = commit
      BY <2>1, <2>4 DEF goto, release
    <3>2. [th[w] EXCEPT !.pc = "dispatch"].pc \notin {"mutate", "registry", "record"}
      BY <1>0 DEF Thread
    <3>3. Quiet
      BY <2>1, <2>2, <3>1, <3>2, QuietGo
    <3> QED
      BY <2>2, <3>3 DEF KeepsRegistry
  <2> QED
    BY <2>1, <2>3, <2>4
<1>11. ASSUME dispatch_failed(w) PROVE Quiet /\ KeepsRegistry
  <2>1. /\ end(w) /\ ~Revoking(w) /\ closing' = TRUE
        /\ UNCHANGED <<disk, up, offline, failed, session, gen, epoch, denied, decision, tickets, begun, count>>
    BY <1>11 DEF dispatch_failed, at, Revoking
  <2>2. UNCHANGED <<registry, agents, journal, begun, up, offline>>
    BY <2>1 DEF disk
  <2>3. Quiet
    BY <2>1, <2>2, QuietEnd
  <2> QED
    BY <2>2, <2>3 DEF KeepsRegistry
<1>6. ASSUME unlock_gate(w) PROVE Quiet /\ KeepsRegistry
  <2>1. /\ UNCHANGED <<disk, up, offline, app, decision, tickets, auth, begun, count>>
        /\ th[w].pc = "unlock" /\ commit = Nobody
        /\ \/ goto(w, "unlock_slot") /\ commit' = w
           \/ finish(w) /\ commit' = commit
    BY <1>6 DEF unlock_gate, at
  <2>2. UNCHANGED <<registry, agents, journal, begun, up, offline, closing>> /\ ~Revoking(w)
    BY <2>1 DEF disk, app, Revoking
  <2>3. \E r \in {[th[w] EXCEPT !.pc = "unlock_slot"], Idle} : th' = [th EXCEPT ![w] = r]
    BY <2>1 DEF goto, finish
  <2>4. \A r \in {[th[w] EXCEPT !.pc = "unlock_slot"], Idle} :
           r.pc \notin {"mutate", "registry", "record"}
    BY <1>0 DEF Thread, Idle
  <2>5. Quiet
    BY <2>1, <2>2, <2>3, <2>4, QuietGo
  <2> QED
    BY <2>2, <2>5 DEF KeepsRegistry
<1>7. ASSUME unlock_slot(w) PROVE Quiet /\ KeepsRegistry
  <2>1. /\ end(w) /\ ~Revoking(w)
        /\ UNCHANGED <<disk, up, offline, closing, failed, epoch, denied, by, tickets, begun, count>>
    BY <1>7 DEF unlock_slot, at, Revoking
  <2>2. UNCHANGED <<registry, agents, journal, begun, up, offline, closing>>
    BY <2>1 DEF disk
  <2> QED
    BY <2>1, <2>2, QuietEnd DEF KeepsRegistry
<1>8. ASSUME NEW allowed, NEW r, write_registry(w, allowed, r), th[w].pc = "commit",
             allowed => r.revoked = registry.revoked /\ r.enabled = registry.enabled,
             allowed => (Sound(registry) => Sound(r))
      PROVE  Quiet /\ KeepsRegistry
  <2>1. /\ end(w) /\ ~Revoking(w)
        /\ UNCHANGED <<agents, journal, up, offline, app, decision, tickets, begun, count>>
    BY <1>8 DEF write_registry, Revoking
  <2>2. UNCHANGED registry \/ (allowed /\ registry' = r)
    BY <1>8 DEF write_registry, persist_registry, persist_fails
  <2>3. registry.revoked \subseteq registry'.revoked /\ KeepsRegistry
    BY <1>8, <2>2 DEF KeepsRegistry
  <2>4. closing' = closing
    BY <2>1 DEF app
  <2> QED
    BY <2>1, <2>3, <2>4, QuietEnd
<1>9. ASSUME NEW k \in Keys, commit_enroll(w, k) PROVE Quiet /\ KeepsRegistry
  <2> DEFINE d == th[w].ticket.actor
  <2>1. /\ write_registry(w, recheck(th[w].ticket) /\ may_enroll_key(registry, d, k),
                          with_key(registry, d, k))
        /\ th[w].pc = "commit"
    BY <1>9 DEF commit_enroll, at
  <2>2. d \in Devices
    BY <1>0, <2>1 DEF Control, Ticket
  <2>3. with_key(registry, d, k).revoked = registry.revoked
        /\ with_key(registry, d, k).enabled = registry.enabled
    BY <1>0, <2>2, WithKeyType
  <2>4. may_enroll_key(registry, d, k) => (Sound(registry) => Sound(with_key(registry, d, k)))
    BY <1>0, <2>2, KeySound
  <2> QED
    BY <1>8, <2>1, <2>3, <2>4
<1>10. ASSUME commit_revoke_key(w) PROVE Quiet /\ KeepsRegistry
  <2> DEFINE d == th[w].ticket.target
             ok == recheck(th[w].ticket) /\ permitted("revoke_key", th[w].ticket.actor, d)
  <2>1. write_registry(w, ok, without_key(registry, d)) /\ th[w].pc = "commit"
    BY <1>10 DEF commit_revoke_key, at
  <2>2. ok => d \in Devices
    BY <1>0 DEF recheck, Registry
  <2>3. ok => /\ without_key(registry, d).revoked = registry.revoked
              /\ without_key(registry, d).enabled = registry.enabled
    BY <1>0, <2>2, WithoutKeyType DEF without_key
  <2>4. ok => (Sound(registry) => Sound(without_key(registry, d)))
    BY <1>0, <2>2, WithoutKeySound
  <2> HIDE DEF ok
  <2> QED
    BY <1>8, <2>1, <2>3, <2>4
<1> QED
  BY <1>1, <1>2, <1>3, <1>4, <1>5, <1>6, <1>7, <1>9, <1>10, <1>11

LEMMA QuietUnchanged ==
    ASSUME UNCHANGED <<registry, agents, journal, begun, up, offline, closing, th, commit>>
    PROVE  Quiet /\ KeepsRegistry
  BY DEF Quiet, KeepsRegistry, Revoking

LEMMA QuietArriving ==
    ASSUME CInv,
           \/ \E d \in Devices : review(d)
           \/ \E d \in Devices, x \in Targets : identity_prepare(d, x)
           \/ \E d \in Devices, op \in {"enroll", "revoke_key"}, x \in Devices : biometric_prepare(d, op, x)
           \/ \E t \in tickets : ticket_expires(t)
           \/ \E w \in Threads : deadline_passes(w)
           \/ \E w \in Threads, kind \in Commands, t \in tickets : dispatch(w, kind, t)
           \/ \E w \in Threads, d \in Devices : unlock(w, d)
           \/ create_request \/ lock
    PROVE  Quiet /\ KeepsRegistry
<1>1. ASSUME NEW kept, NEW kind, NEW d, NEW x, issue(kept, kind, d, x) PROVE Quiet /\ KeepsRegistry
  BY <1>1, QuietUnchanged DEF issue, disk, app
<1>2. ASSUME NEW t \in tickets, ticket_expires(t) PROVE Quiet /\ KeepsRegistry
  BY <1>2, QuietUnchanged DEF ticket_expires, disk, app
<1>3. ASSUME create_request PROVE Quiet /\ KeepsRegistry
  BY <1>3, QuietUnchanged DEF create_request, disk, app, service
<1>4. ASSUME lock PROVE Quiet /\ KeepsRegistry
  BY <1>4, QuietUnchanged DEF lock, disk, service
<1>5. ASSUME NEW w \in Threads, deadline_passes(w) PROVE Quiet /\ KeepsRegistry
  <2> DEFINE r == [th[w] EXCEPT !.ticket = [th[w].ticket EXCEPT !.fresh = FALSE]]
  <2>1. /\ th' = [th EXCEPT ![w] = r]
        /\ UNCHANGED <<registry, agents, journal, begun, up, offline, closing, commit>>
    BY <1>5 DEF deadline_passes, disk, app, service
  <2>2. th[w] \in Thread /\ th[w].ticket \in AnyTicket
    BY DEF CInv, Types, ServiceTypes, Thread
  <2>3. [th[w].ticket EXCEPT !.fresh = FALSE].target = th[w].ticket.target
    BY <2>2 DEF AnyTicket
  <2>4. /\ r.pc = th[w].pc /\ r.action = th[w].action /\ r.revocation = th[w].revocation
        /\ r.ticket.target = th[w].ticket.target
    BY <2>2, <2>3 DEF Thread
  <2>5. th'[w] = r /\ \A v \in Threads \ {w} : th'[v] = th[v]
    <3> HIDE DEF r
    <3> QED
      BY <2>1 DEF CInv, Types, ServiceTypes
  <2>6. \A v \in Threads : /\ th'[v].pc = th[v].pc /\ th'[v].action = th[v].action
                           /\ th'[v].revocation = th[v].revocation
                           /\ th'[v].ticket.target = th[v].ticket.target
    <3> HIDE DEF r
    <3> QED
      BY <2>4, <2>5
  <2> QED
    BY <2>1, <2>6 DEF Quiet, KeepsRegistry, Revoking
<1>6. ASSUME NEW w \in Threads, NEW kind, NEW t, start(w, kind, t),
             UNCHANGED <<registry, agents, journal, begun, up, offline, closing, commit>>
      PROVE  Quiet /\ KeepsRegistry
  <2> DEFINE l == IF kind \in {"approve", "approve_key", "deny"} THEN "prepare"
                  ELSE IF kind = "unlock" THEN "unlock" ELSE "authenticate"
             r == [[[Idle EXCEPT !.cmd = kind] EXCEPT !.ticket = t] EXCEPT !.pc = l]
  <2>1. th' = [th EXCEPT ![w] = r] /\ ~Revoking(w)
    BY <1>6 DEF start, Revoking
  <2>2. l \notin {"mutate", "registry", "record"}
    OBVIOUS
  <2> HIDE DEF l
  <2>3. r.pc = l
    BY DEF Idle
  <2> HIDE DEF r
  <2>4. Quiet
    BY <1>6, <2>1, <2>2, <2>3, QuietGo
  <2> QED
    BY <1>6, <2>4 DEF KeepsRegistry
<1>7. ASSUME NEW w \in Threads, NEW kind \in Commands, NEW t \in tickets, dispatch(w, kind, t)
      PROVE Quiet /\ KeepsRegistry
  <2>1. /\ UNCHANGED <<registry, agents, journal, begun, up, offline, closing, commit>>
        /\ (start(w, kind, t) \/ UNCHANGED th)
    BY <1>7 DEF dispatch, disk, app
  <2> QED
    BY <1>6, <2>1, QuietUnchanged
<1>8. ASSUME NEW w \in Threads, NEW d \in Devices, unlock(w, d) PROVE Quiet /\ KeepsRegistry
  <2>1. /\ UNCHANGED <<registry, agents, journal, begun, up, offline, closing, commit>>
        /\ start(w, "unlock", [Blank EXCEPT !.actor = d])
    BY <1>8 DEF unlock, disk, app, service
  <2> QED
    BY <1>6, <2>1
<1> QED
  BY <1>1, <1>2, <1>3, <1>4, <1>5, <1>7, <1>8 DEF review, identity_prepare, biometric_prepare

(* The owner's console writes the registry while no thread runs.           *)
LEMMA QuietConsole ==
    ASSUME CInv, NEW d \in Devices, enroll(d) \/ grant_administrator(d) \/ revoke(d)
    PROVE  Quiet /\ ~up /\ (Sound(registry) => Sound(registry'))
<1>0. registry \in Registry
  BY DEF CInv, Types, DiskTypes
<1>1. ASSUME NEW r, console(r), registry.revoked \subseteq r.revoked, Sound(registry) => Sound(r)
      PROVE  Quiet /\ ~up /\ (Sound(registry) => Sound(registry'))
  <2>1. registry' \in {registry, r} /\ ~up
    BY <1>1 DEF console, stopped, persist_registry, persist_fails
  <2>2. UNCHANGED <<agents, journal, begun, up, offline, closing, th, commit>>
    BY <1>1 DEF console, app, service
  <2>3. registry.revoked \subseteq registry'.revoked /\ (Sound(registry) => Sound(registry'))
    BY <1>1, <2>1
  <2> QED
    BY <2>1, <2>2, <2>3 DEF Quiet, Revoking
<1>2. CASE enroll(d)
  <2> DEFINE r == [registry EXCEPT !.enabled = @ \cup {d}]
  <2>1. console(r) /\ d \in Devices \ (registry.enabled \cup registry.revoked)
        /\ Cardinality(registry.enabled \cup registry.revoked) < MaxIdentities
    BY <1>2 DEF enroll
  <2>2. r.revoked = registry.revoked
    BY <1>0 DEF Registry
  <2>3. Sound(registry) => Sound(r)
    BY <1>0, <2>1, EnrolledSound
  <2> HIDE DEF r
  <2> QED
    BY <1>1, <2>1, <2>2, <2>3
<1>3. CASE grant_administrator(d)
  <2> DEFINE r == with_administrator(registry, d)
  <2>1. console(r) /\ d \in registry.enabled
    BY <1>3 DEF grant_administrator
  <2>2. r.revoked = registry.revoked
    BY <1>0, WithAdministratorType DEF with_administrator
  <2>3. Sound(registry) => Sound(r)
    BY <1>0, <2>1, AdministratorSound
  <2> HIDE DEF r
  <2> QED
    BY <1>1, <2>1, <2>2, <2>3
<1>4. CASE revoke(d)
  <2> DEFINE r == with_revoked(registry, d)
  <2>1. console(r) /\ d \in registry.enabled \cup registry.revoked
    BY <1>4 DEF revoke
  <2>2. registry.revoked \subseteq r.revoked
    <3>1. CASE d \in registry.revoked
      BY <3>1 DEF with_revoked
    <3>2. CASE d \notin registry.revoked
      <4>1. r.revoked = registry.revoked \cup {d}
        BY <1>0, <3>2, WithRevokedType
      <4> HIDE DEF r
      <4> QED
        BY <4>1
    <3> QED
      BY <3>1, <3>2
  <2>3. Sound(registry) => Sound(r)
    BY <1>0, <2>1, RevokedSound
  <2> HIDE DEF r
  <2> QED
    BY <1>1, <2>1, <2>2, <2>3
<1> QED
  BY <1>2, <1>3, <1>4
-----------------------------------------------------------------------------
(* What the steps of a revocation do to their thread.                      *)

LEMMA OutcomeThread ==
    ASSUME CInv, NEW w \in Threads, NEW a \in Revocation, NEW c \in Cleanup, outcome(w, a, c)
    PROVE  /\ th'[w].pc = "record" /\ th'[w].revocation = a /\ th'[w].action = th[w].action
           /\ th'[w].ticket = th[w].ticket /\ \A v \in Threads \ {w} : th'[v] = th[v]
<1> DEFINE r == WithOutcome(th[w], a, c)
<1>0. th \in [Threads -> Thread] /\ th[w] \in Thread
  BY DEF CInv, Types, ServiceTypes
<1>1. th' = [th EXCEPT ![w] = r]
  BY DEF outcome, WithOutcome
<1>2. r.pc = "record" /\ r.revocation = a /\ r.action = th[w].action /\ r.ticket = th[w].ticket
  BY <1>0, OutcomePut
<1> HIDE DEF r
<1> QED
  BY <1>0, <1>1, <1>2

LEMMA MutateThread ==
    ASSUME CInv, NEW w \in Threads, mutate(w)
    PROVE  /\ th'[w].pc = "registry" /\ th'[w].action = th[w].action
           /\ th'[w].ticket = th[w].ticket /\ \A v \in Threads \ {w} : th'[v] = th[v]
<1>0. th \in [Threads -> Thread] /\ th[w] \in Thread
  BY DEF CInv, Types, ServiceTypes
<1>1. PICK complete \in BOOLEAN :
         th' = [th EXCEPT ![w].pc = "registry",
                          ![w].cleanup = IF complete THEN "Complete" ELSE "Unknown"]
  BY DEF mutate
<1> DEFINE c == IF complete THEN "Complete" ELSE "Unknown"
           r == WithCleanup(th[w], c)
<1>2. th' = [th EXCEPT ![w] = r]
  BY <1>1 DEF WithCleanup
<1>3. c \in Cleanup
  BY DEF Cleanup
<1> HIDE DEF c
<1>4. r.pc = "registry" /\ r.action = th[w].action /\ r.ticket = th[w].ticket
  BY <1>0, <1>3, CleanupPut
<1> HIDE DEF r
<1> QED
  BY <1>0, <1>2, <1>4

LEMMA IntentThread ==
    ASSUME CInv, NEW w \in Threads, th' = [th EXCEPT ![w].pc = "mutate", ![w].action = Len(journal) + 1]
    PROVE  /\ th'[w].pc = "mutate" /\ th'[w].action = Len(journal) + 1
           /\ th'[w].ticket = th[w].ticket /\ \A v \in Threads \ {w} : th'[v] = th[v]
<1> DEFINE r == WithAction(th[w], Len(journal) + 1)
<1>0. th \in [Threads -> Thread] /\ th[w] \in Thread /\ Len(journal) \in Nat
  BY LenProperties DEF CInv, Types, ServiceTypes, DiskTypes
<1>1. th' = [th EXCEPT ![w] = r]
  BY DEF WithAction
<1>2. r.pc = "mutate" /\ r.action = Len(journal) + 1 /\ r.ticket = th[w].ticket
  BY <1>0, ActionPut
<1> HIDE DEF r
<1> QED
  BY <1>0, <1>1, <1>2

(* After durable the target is revoked, and nobody is unrevoked.           *)
LEMMA DurableRevokes ==
    ASSUME DiskTypes, NEW x \in Targets, durable(x)
    PROVE  /\ target_revoked(x)'
           /\ registry.revoked \subseteq registry'.revoked /\ agents \subseteq agents'
<1>1. CASE x \in Agents
  BY <1>1 DEF durable, target_revoked
<1>2. CASE x \notin Agents
  <2>1. x \in Devices /\ registry \in Registry
    BY <1>2 DEF Targets, DiskTypes
  <2>2. registry' = with_revoked(registry, x) /\ agents' = agents
    BY <1>2 DEF durable, persist_registry
  <2>3. CASE x \in registry.revoked
    BY <2>2, <2>3 DEF with_revoked, target_revoked
  <2>4. CASE x \notin registry.revoked
    <3>1. registry'.revoked = registry.revoked \cup {x}
      BY <2>1, <2>2, <2>4, WithRevokedType
    <3> QED
      BY <2>2, <3>1 DEF target_revoked
  <2> QED
    BY <2>3, <2>4
<1> QED
  BY <1>1, <1>2

LEMMA DurableSound ==
    ASSUME DiskTypes, Sound(registry), NEW x \in Agents \cup registry.enabled \cup registry.revoked, durable(x)
    PROVE  Sound(registry')
<1>1. CASE x \in Agents
  BY <1>1 DEF durable
<1>2. CASE x \notin Agents
  <2>1. Sound(with_revoked(registry, x))
    BY <1>2, RevokedSound DEF DiskTypes
  <2> QED
    BY <1>2, <2>1 DEF durable, persist_registry
<1> QED
  BY <1>1, <1>2

-----------------------------------------------------------------------------
(* The registry can always be read back.                                   *)

LEMMA ReadableInit == Init => Sound(registry) /\ TargetEnrolled
<1> SUFFICES ASSUME Init PROVE Sound(registry) /\ TargetEnrolled
  OBVIOUS
<1>0. registry \in Registry
  BY ControlInit DEF CInv, Types, DiskTypes
<1>1. /\ registry.enabled = InitialDevices /\ registry.revoked = {}
      /\ registry.administrators = InitialDevices /\ registry.audit = Cardinality(InitialDevices)
      /\ registry.key = InitialKeys /\ registry.retired = <<>> /\ registry.key_audit = InitialKeyAudit
  BY DEF Init
<1>2. Cardinality({}) = 0 /\ Cardinality(InitialDevices) \in Nat /\ Len(registry.retired) = 0
      /\ DOMAIN registry.retired = {} /\ MaxRetired \in Nat
  <2>1. Cardinality({}) = 0
    BY FS_EmptySet
  <2>2. Cardinality(InitialDevices) \in Nat
    BY <1>0, <1>1, RegistryFinite
  <2>3. Len(registry.retired) = 0 /\ DOMAIN registry.retired = {}
    BY <1>1
  <2> QED
    BY <2>1, <2>2, <2>3, BoundAssumption
<1>3. KeysSound(registry)
  BY <1>1, <1>2, KeyAssumption DEF KeysSound, Distinct
<1>4. /\ registry.enabled \cap registry.revoked = {} /\ registry.administrators \subseteq registry.enabled
      /\ registry.enabled \cup registry.revoked = InitialDevices
  BY <1>1
<1>5. Sound(registry)
  <2>1. Cardinality(registry.enabled \cup registry.revoked) <= MaxIdentities
    BY <1>4, KeyAssumption
  <2>2. registry.audit <= Cardinality(registry.administrators) + 2 * Cardinality(registry.revoked)
    BY <1>1, <1>2
  <2>3. registry.key_audit <= MaxKeyAudit
    BY <1>1, KeyAssumption, BoundAssumption
  <2> QED
    BY <1>0, <1>3, <1>4, <2>1, <2>2, <2>3, SoundParts
<1>6. TargetEnrolled
  BY DEF Init, TargetEnrolled, Idle
<1> QED
  BY <1>5, <1>6

LEMMA ReadableNext ==
    CInv /\ Sound(registry) /\ TargetEnrolled /\ [Next]_vars => (Sound(registry) /\ TargetEnrolled)'
<1> SUFFICES ASSUME CInv, Sound(registry), TargetEnrolled, [Next]_vars
             PROVE  (Sound(registry) /\ TargetEnrolled)'
  OBVIOUS
<1> DEFINE Goal == (Sound(registry) /\ TargetEnrolled)'
<1>0. /\ DiskTypes /\ registry \in Registry /\ Exclusion
      /\ \A w \in Threads : th[w] \in Thread /\ Control(w)
      /\ (~up => \A w \in Threads : th[w] = Idle)
  BY DEF CInv, Types, DiskTypes, ServiceTypes, Exclusion
<1>1. ASSUME Quiet, KeepsRegistry PROVE Goal
  <2>1. ASSUME NEW w \in Threads, th'[w].pc \in {"mutate", "registry"}
        PROVE  th'[w].ticket.target \in Agents \cup registry'.enabled
    <3>1. Revoking(w) /\ th'[w].pc = th[w].pc /\ th'[w].ticket.target = th[w].ticket.target
      BY <1>1, <2>1 DEF Quiet, Revoking
    <3> QED
      BY <1>1, <2>1, <3>1 DEF TargetEnrolled, KeepsRegistry
  <2> QED
    BY <1>1, <2>1 DEF TargetEnrolled, KeepsRegistry
<1>2. ASSUME Quiet, ~up, Sound(registry') PROVE Goal
  <2>1. \A w \in Threads : th'[w].pc \notin {"mutate", "registry"}
    BY <1>0, <1>2 DEF Quiet, Revoking, Idle
  <2> QED
    BY <1>2, <2>1 DEF TargetEnrolled
<1>3. ASSUME UNCHANGED registry,
             \A w \in Threads : th'[w].pc \in {"mutate", "registry"} =>
                th'[w].ticket.target \in Agents \cup registry.enabled
      PROVE  Goal
  BY <1>3 DEF TargetEnrolled
<1>4. ASSUME NEW w \in Threads, commit_revoke(w) PROVE Goal
  <2>1. /\ registry' = registry
        /\ \/ end(w)
           \/ /\ may_revoke(th[w].ticket)
              /\ th' = [th EXCEPT ![w].pc = "mutate", ![w].action = Len(journal) + 1]
    BY <1>4 DEF commit_revoke, intent_lost
  <2>2. CASE end(w)
    <3>1. th'[w] = Idle /\ \A v \in Threads \ {w} : th'[v] = th[v]
      BY <2>2, Ended
    <3> QED
      BY <1>3, <2>1, <3>1 DEF TargetEnrolled, Idle
  <2>3. CASE /\ may_revoke(th[w].ticket)
             /\ th' = [th EXCEPT ![w].pc = "mutate", ![w].action = Len(journal) + 1]
    <3>1. th'[w].ticket = th[w].ticket /\ \A v \in Threads \ {w} : th'[v] = th[v]
      BY <2>3, IntentThread
    <3>2. th[w].ticket.target \in Agents \cup registry.enabled
      BY <2>3 DEF may_revoke
    <3> QED
      BY <1>3, <2>1, <3>1, <3>2 DEF TargetEnrolled
  <2> QED
    BY <2>1, <2>2, <2>3
<1>5. ASSUME NEW w \in Threads, not_started(w) PROVE Goal
  <2>1. registry' = registry /\ outcome(w, "NotRecorded", "NotApplicable")
    BY <1>5 DEF not_started, disk
  <2>2. "NotRecorded" \in Revocation /\ "NotApplicable" \in Cleanup
    BY DEF Revocation, Cleanup
  <2>3. th'[w].pc = "record" /\ \A v \in Threads \ {w} : th'[v] = th[v]
    BY <2>1, <2>2, OutcomeThread
  <2> QED
    BY <1>3, <2>1, <2>3 DEF TargetEnrolled
<1>6. ASSUME NEW w \in Threads, mutate(w) PROVE Goal
  <2>1. registry' = registry /\ th[w].pc = "mutate"
    BY <1>6 DEF mutate, disk, at
  <2>2. th'[w].ticket = th[w].ticket /\ \A v \in Threads \ {w} : th'[v] = th[v]
    BY <1>6, MutateThread
  <2> QED
    BY <1>3, <2>1, <2>2 DEF TargetEnrolled
<1>7. ASSUME NEW w \in Threads, th[w].pc = "registry", NEW a \in Revocation, NEW c \in Cleanup,
             outcome(w, a, c), durable(th[w].ticket.target) \/ UNCHANGED registry
      PROVE Goal
  <2>1. th'[w].pc = "record" /\ \A v \in Threads \ {w} : th'[v] = th[v]
    BY <1>7, OutcomeThread
  <2>2. commit = w
    BY <1>0, <1>7 DEF Control, Revoking
  <2>3. \A v \in Threads \ {w} : ~Revoking(v)
    BY <2>2, NobodyRevokes
  <2>4. \A v \in Threads : th'[v].pc \notin {"mutate", "registry"}
    BY <2>1, <2>3 DEF Revoking
  <2>5. th[w].ticket.target \in Agents \cup registry.enabled \cup registry.revoked
    BY <1>7 DEF TargetEnrolled
  <2>6. Sound(registry')
    BY <1>0, <1>7, <2>5, DurableSound
  <2> QED
    BY <2>4, <2>6 DEF TargetEnrolled
<1>8. ASSUME NEW w \in Threads, revoke_durably(w) \/ revoke_uncertain(w) PROVE Goal
  <2>1. th[w].cleanup \in Cleanup /\ "Unknown" \in Cleanup /\ "Recorded" \in Revocation
        /\ "Unknown" \in Revocation
    BY <1>0 DEF Thread, Cleanup, Revocation
  <2> QED
    BY <1>7, <1>8, <2>1 DEF revoke_durably, revoke_uncertain, at
<1>9. ASSUME NEW w \in Threads, record(w) PROVE Goal
  <2>1. registry' = registry /\ end(w)
    BY <1>9 DEF record
  <2>2. th'[w] = Idle /\ \A v \in Threads \ {w} : th'[v] = th[v]
    BY <2>1, Ended
  <2> QED
    BY <1>3, <2>1, <2>2 DEF TargetEnrolled, Idle
<1>10. ASSUME crash PROVE Goal
  <2>1. registry' = registry /\ \A w \in Threads : th'[w] = Idle
    BY <1>10 DEF crash, disk
  <2> QED
    BY <1>3, <2>1 DEF Idle
<1>11. ASSUME UNCHANGED <<registry, th>> PROVE Goal
  BY <1>3, <1>11 DEF TargetEnrolled
<1>12. ASSUME reconcile_mutate PROVE Goal
  <2>1. /\ offline.pc = "mutate" /\ known(journal[offline.n].target) /\ durable(journal[offline.n].target)
        /\ th' = th
    BY <1>12 DEF reconcile_mutate
  <2>2. Sound(registry')
    BY <1>0, <2>1, DurableSound DEF known
  <2>3. \A w \in Threads : th'[w] = Idle
    BY <1>0, <2>1 DEF Exclusion
  <2> QED
    BY <2>2, <2>3 DEF TargetEnrolled, Idle
<1>13. ASSUME UNCHANGED vars \/ start_daemon \/ reconcile_mark \/ reconcile_stops
              \/ \E n \in 1..MaxActions, x \in Targets : reconcile_begin(n, x)
       PROVE Goal
  <2>1. UNCHANGED <<registry, th>>
    BY <1>13 DEF vars, disk, start_daemon, reconcile_begin, reconcile_mark, reconcile_stops
  <2> QED
    BY <1>11, <2>1
<1>14. ASSUME NEW w \in Threads, step(w) PROVE Goal
  BY <1>1, <1>4, <1>5, <1>6, <1>8, <1>9, <1>14, QuietDeciding DEF step
<1>15. ASSUME NEW d \in Devices, enroll(d) \/ grant_administrator(d) \/ revoke(d) PROVE Goal
  BY <1>2, <1>15, QuietConsole
<1> HIDE DEF Goal
<1>16. Goal
  BY <1>1, <1>10, <1>12, <1>13, <1>14, <1>15, QuietArriving DEF Next
<1> QED
  BY <1>16 DEF Goal

(* Whatever sequence of enrolments, key changes, grants and revocations is *)
(* written, by whichever connection and with failing writes in between,    *)
(* registry() reads the file back.                                         *)
THEOREM AlwaysReadable == Spec => []RegistryReadable
<1>1. Sound(registry) => RegistryReadable
  BY DEF Sound, RegistryReadable
<1> QED
  BY <1>1, ControlInit, ControlNext, ReadableInit, ReadableNext, PTL DEF Spec
-----------------------------------------------------------------------------
(* A ticket is spent once.                                                 *)

(* No number appears anywhere it was not before.                           *)
IdsKept ==
    /\ tickets' \subseteq tickets /\ count'.tickets = count.tickets
    /\ \A v \in Threads : th'[v].ticket.id \in {th[v].ticket.id, 0}

LEMMA IdleId == Idle.ticket.id = 0
  BY DEF Idle, Blank

LEMMA StepKeepsIds ==
    ASSUME CInv, NEW w \in Threads, step(w)
    PROVE  IdsKept
<1>0. th \in [Threads -> Thread] /\ th[w] \in Thread
  BY DEF CInv, Types, ServiceTypes
<1>1. tickets' = tickets /\ count' = count
  BY DEF step, prepare, refused, authenticate, commit_deny, commit_approve, dispatch_failed, unlock_gate, unlock_refused,
         unlock_slot, commit_enroll, commit_revoke_key, write_registry, commit_revoke, not_started,
         mutate, revoke_durably, revoke_uncertain, record, service
<1>2. ASSUME \A v \in Threads \ {w} : th'[v] = th[v], th'[w].ticket.id \in {th[w].ticket.id, 0}
      PROVE  IdsKept
  BY <1>1, <1>2 DEF IdsKept
<1>3. ASSUME end(w) \/ finish(w) PROVE IdsKept
  <2>1. th'[w] = Idle /\ \A v \in Threads \ {w} : th'[v] = th[v]
    BY <1>0, <1>3 DEF end, finish
  <2> QED
    BY <1>2, <2>1, IdleId
<1>4. ASSUME NEW l, goto(w, l) PROVE IdsKept
  <2>1. th' = [th EXCEPT ![w] = [th[w] EXCEPT !.pc = l]]
    BY <1>4 DEF goto
  <2>2. th'[w] = [th[w] EXCEPT !.pc = l] /\ \A v \in Threads \ {w} : th'[v] = th[v]
    BY <1>0, <2>1
  <2>3. th'[w].ticket = th[w].ticket
    BY <1>0, <2>2 DEF Thread
  <2> QED
    BY <1>2, <2>2, <2>3
<1>5. ASSUME authenticate(w) PROVE IdsKept
  <2> DEFINE k == IF th[w].cmd = "approve_key" THEN registry.key[th[w].ticket.actor] ELSE NoKey
             r == WithKey(th[w], k)
  <2>1. th' = [th EXCEPT ![w] = r]
    BY <1>5 DEF authenticate, WithKey
  <2>2. r.ticket = th[w].ticket
    BY <1>0 DEF WithKey, Thread
  <2> HIDE DEF r
  <2>3. th'[w] = r /\ \A v \in Threads \ {w} : th'[v] = th[v]
    BY <1>0, <2>1
  <2> QED
    BY <1>2, <2>2, <2>3
<1>6. ASSUME NEW a \in Revocation, NEW c \in Cleanup, outcome(w, a, c) PROVE IdsKept
  BY <1>2, <1>6, OutcomeThread
<1>7. ASSUME mutate(w) PROVE IdsKept
  BY <1>2, <1>7, MutateThread
<1>8. ASSUME commit_revoke(w) PROVE IdsKept
  <2>1. end(w) \/ th' = [th EXCEPT ![w].pc = "mutate", ![w].action = Len(journal) + 1]
    BY <1>8 DEF commit_revoke, intent_lost
  <2>2. CASE th' = [th EXCEPT ![w].pc = "mutate", ![w].action = Len(journal) + 1]
    <3>1. th'[w].ticket = th[w].ticket /\ \A v \in Threads \ {w} : th'[v] = th[v]
      BY <2>2, IntentThread
    <3> QED
      BY <1>2, <3>1
  <2> QED
    BY <1>3, <2>1, <2>2
<1>9. {"NotRecorded", "Recorded", "Unknown"} \subseteq Revocation
      /\ {"NotApplicable", "Unknown", th[w].cleanup} \subseteq Cleanup
  BY <1>0 DEF Revocation, Cleanup, Thread
<1>10. ASSUME not_started(w) \/ revoke_durably(w) \/ revoke_uncertain(w) PROVE IdsKept
  BY <1>6, <1>9, <1>10 DEF not_started, revoke_durably, revoke_uncertain
<1>11. ASSUME prepare(w) \/ unlock_gate(w) PROVE IdsKept
  BY <1>3, <1>4, <1>11 DEF prepare, unlock_gate
<1>12. ASSUME \/ refused(w) \/ commit_deny(w) \/ commit_approve(w) \/ dispatch_failed(w)
              \/ unlock_refused(w) \/ unlock_slot(w)
              \/ (\E k \in Keys : commit_enroll(w, k)) \/ commit_revoke_key(w) \/ record(w)
       PROVE IdsKept
  BY <1>3, <1>4, <1>12 DEF refused, commit_deny, commit_approve, dispatch_failed, unlock_refused, unlock_slot,
         commit_enroll, commit_revoke_key, write_registry, record
<1> QED
  BY <1>5, <1>7, <1>8, <1>10, <1>11, <1>12 DEF step

LEMMA IdsInit == Init => IdInv
  BY IdleId DEF Init, IdInv, TicketSpentOnce

LEMMA IdsNext == CInv /\ IdInv /\ [Next]_vars => IdInv'
<1> SUFFICES ASSUME CInv, IdInv, [Next]_vars PROVE IdInv'
  OBVIOUS
<1>0. /\ th \in [Threads -> Thread] /\ tickets \subseteq Ticket /\ count.tickets \in Nat
      /\ count \in [tickets : Nat, starts : Nat, unlocks : Nat]
      /\ \A t \in tickets : t.id \in Nat
      /\ \A v \in Threads : th[v].ticket.id \in Nat
  BY DEF CInv, Types, ServiceTypes, Ticket, Thread, AnyTicket
<1>1. ASSUME IdsKept PROVE IdInv'
  <2>1. \A t \in tickets' : t.id \in 1..count'.tickets
    BY <1>1 DEF IdsKept, IdInv
  <2>2. \A v \in Threads : th'[v].ticket.id <= count'.tickets
    BY <1>0, <1>1 DEF IdsKept, IdInv
  <2>3. \A t, u \in tickets' : t.id = u.id => t = u
    BY <1>1 DEF IdsKept, IdInv
  <2>4. TicketSpentOnce'
    BY <1>1 DEF IdsKept, IdInv, TicketSpentOnce
  <2> QED
    BY <2>1, <2>2, <2>3, <2>4 DEF IdInv
<1>2. ASSUME NEW kept \in SUBSET tickets, NEW kind, NEW d, NEW x, issue(kept, kind, d, x) PROVE IdInv'
  <2> DEFINE n == count.tickets + 1
             t == [kind |-> kind, actor |-> d, target |-> x, gen |-> gen,
                   epoch |-> epoch, fresh |-> TRUE, id |-> n]
  <2>1. tickets' = kept \cup {t} /\ th' = th /\ count'.tickets = n /\ t.id = n
    BY <1>0, <1>2 DEF issue
  <2>2. \A u \in kept : u.id \in Nat /\ u.id \in 1..count.tickets /\ u.id # n
    BY <1>0 DEF IdInv
  <2>3. \A v \in Threads : th[v].ticket.id \in Nat /\ th[v].ticket.id <= count.tickets /\ th[v].ticket.id # n
    BY <1>0 DEF IdInv
  <2> HIDE DEF t
  <2>4. \A u \in tickets' : u.id \in 1..count'.tickets
    BY <1>0, <2>1, <2>2
  <2>5. \A v \in Threads : th'[v].ticket.id <= count'.tickets
    BY <1>0, <2>1, <2>3
  <2> HIDE DEF n
  <2>6. \A u, y \in tickets' : u.id = y.id => u = y
    BY <2>1, <2>2 DEF IdInv
  <2>7. TicketSpentOnce'
    BY <2>1, <2>2, <2>3 DEF IdInv, TicketSpentOnce
  <2> QED
    BY <2>4, <2>5, <2>6, <2>7 DEF IdInv
<1>3. ASSUME NEW w \in Threads, NEW kind, NEW t, start(w, kind, t)
      PROVE  th'[w].ticket = t /\ \A v \in Threads \ {w} : th'[v] = th[v]
  <2> DEFINE l == IF kind \in {"approve", "approve_key", "deny"} THEN "prepare"
                  ELSE IF kind = "unlock" THEN "unlock" ELSE "authenticate"
             r == [[[Idle EXCEPT !.cmd = kind] EXCEPT !.ticket = t] EXCEPT !.pc = l]
  <2>1. th' = [th EXCEPT ![w] = r]
    BY <1>3 DEF start
  <2> HIDE DEF l
  <2>2. r.ticket = t
    BY DEF Idle
  <2> HIDE DEF r
  <2> QED
    BY <1>0, <2>1, <2>2
<1>4. ASSUME NEW w \in Threads, NEW kind \in Commands, NEW t \in tickets, dispatch(w, kind, t) PROVE IdInv'
  <2>1. tickets' = tickets \ {t} /\ count' = count /\ (start(w, kind, t) \/ UNCHANGED th)
    BY <1>4 DEF dispatch, consume
  <2>2. CASE start(w, kind, t)
    <3>1. th'[w].ticket = t /\ \A v \in Threads \ {w} : th'[v] = th[v]
      BY <1>3, <2>2
    <3>2. \A u \in tickets' : u.id \in 1..count'.tickets
      BY <2>1 DEF IdInv
    <3>3. \A v \in Threads : th'[v].ticket.id <= count'.tickets
      <4>1. t.id \in 1..count.tickets
        BY DEF IdInv
      <4>2. t.id <= count.tickets
        BY <1>0, <4>1
      <4> QED
        BY <2>1, <3>1, <4>2 DEF IdInv
    <3>4. \A u, y \in tickets' : u.id = y.id => u = y
      BY <2>1 DEF IdInv
    <3>5. \A u \in tickets' : u.id # t.id
      BY <2>1 DEF IdInv
    <3>6. \A v \in Threads \ {w} : th[v].ticket.id # 0 => th[v].ticket.id # t.id
      BY DEF IdInv, TicketSpentOnce
    <3>7. t.id # 0
      BY <1>0 DEF IdInv
    <3>8. \A v \in Threads \ {w} : th[v].ticket.id # t.id
      BY <3>6, <3>7
    <3>9. TicketSpentOnce'
      <4> SUFFICES ASSUME NEW v \in Threads, th'[v].ticket.id # 0
                   PROVE  /\ \A u \in tickets' : u.id # th'[v].ticket.id
                          /\ \A y \in Threads \ {v} : th'[y].ticket.id # th'[v].ticket.id
        BY DEF TicketSpentOnce
      <4>1. CASE v = w
        BY <3>1, <3>5, <3>8, <4>1
      <4>2. CASE v # w
        BY <2>1, <3>1, <3>8, <4>2 DEF IdInv, TicketSpentOnce
      <4> QED
        BY <4>1, <4>2
    <3> QED
      BY <3>2, <3>3, <3>4, <3>9 DEF IdInv
  <2>3. CASE UNCHANGED th
    BY <1>1, <2>1, <2>3 DEF IdsKept
  <2> QED
    BY <2>1, <2>2, <2>3
<1>5. ASSUME NEW w \in Threads, NEW d \in Devices, unlock(w, d) PROVE IdInv'
  <2>1. start(w, "unlock", [Blank EXCEPT !.actor = d]) /\ tickets' = tickets
        /\ count' = [count EXCEPT !.unlocks = @ + 1]
    BY <1>5 DEF unlock, service
  <2>2. th'[w].ticket = [Blank EXCEPT !.actor = d] /\ \A v \in Threads \ {w} : th'[v] = th[v]
    BY <1>3, <2>1
  <2>3. th'[w].ticket.id = 0
    BY <2>2 DEF Blank
  <2>4. count'.tickets = count.tickets
    BY <1>0, <2>1
  <2> QED
    BY <1>1, <2>1, <2>2, <2>3, <2>4 DEF IdsKept
<1>6. ASSUME NEW w \in Threads, deadline_passes(w) PROVE IdInv'
  <2> DEFINE r == [th[w] EXCEPT !.ticket = [th[w].ticket EXCEPT !.fresh = FALSE]]
  <2>1. th' = [th EXCEPT ![w] = r] /\ tickets' = tickets /\ count' = count
    BY <1>6 DEF deadline_passes, service
  <2>2. th[w] \in Thread /\ th[w].ticket \in AnyTicket
    BY <1>0 DEF Thread
  <2>3. [th[w].ticket EXCEPT !.fresh = FALSE].id = th[w].ticket.id
    BY <2>2 DEF AnyTicket
  <2>4. r.ticket.id = th[w].ticket.id
    BY <2>2, <2>3 DEF Thread
  <2> HIDE DEF r
  <2>5. th'[w] = r /\ \A v \in Threads \ {w} : th'[v] = th[v]
    BY <1>0, <2>1
  <2> QED
    BY <1>1, <2>1, <2>4, <2>5 DEF IdsKept
<1>7. ASSUME NEW w \in Threads, step(w) PROVE IdInv'
  BY <1>1, <1>7, StepKeepsIds
<1>8. ASSUME UNCHANGED th, tickets' \subseteq tickets, count'.tickets = count.tickets PROVE IdInv'
  BY <1>1, <1>8 DEF IdsKept
<1>9. ASSUME NEW t \in tickets, ticket_expires(t) PROVE IdInv'
  BY <1>8, <1>9 DEF ticket_expires
<1>10. ASSUME crash PROVE IdInv'
  <2>1. tickets' = {} /\ count' = count /\ \A v \in Threads : th'[v] = Idle
    BY <1>10 DEF crash
  <2> QED
    BY <1>1, <2>1, IdleId DEF IdsKept
<1>11. ASSUME start_daemon PROVE IdInv'
  <2>1. count'.tickets = count.tickets /\ th' = th /\ tickets' = tickets
    BY <1>0, <1>11 DEF start_daemon, service
  <2> QED
    BY <1>8, <2>1
<1>12. ASSUME \/ UNCHANGED vars \/ create_request \/ lock
              \/ \E d \in Devices : enroll(d) \/ grant_administrator(d) \/ revoke(d)
              \/ \E n \in 1..MaxActions, x \in Targets : reconcile_begin(n, x)
              \/ reconcile_mutate \/ reconcile_mark \/ reconcile_stops
       PROVE IdInv'
  <2>1. th' = th /\ tickets' = tickets /\ count' = count
    BY <1>12 DEF vars, service, create_request, lock, enroll, grant_administrator, revoke, console,
         reconcile_begin, reconcile_mutate, reconcile_mark, reconcile_stops
  <2> QED
    BY <1>8, <2>1
<1>13. ASSUME \/ \E d \in Devices : review(d)
              \/ \E d \in Devices, x \in Targets : identity_prepare(d, x)
              \/ \E d \in Devices, op \in {"enroll", "revoke_key"}, x \in Devices : biometric_prepare(d, op, x)
       PROVE  IdInv'
  BY <1>2, <1>13 DEF review, identity_prepare, biometric_prepare
<1> QED
  BY <1>4, <1>5, <1>6, <1>7, <1>9, <1>10, <1>11, <1>12, <1>13 DEF Next

(* A ticket drives one command: once a thread serves it, it is in no table *)
(* and with no other thread, whatever becomes of that command.             *)
THEOREM SpentOnce == Spec => []TicketSpentOnce
<1>1. IdInv => TicketSpentOnce
  BY DEF IdInv
<1> QED
  BY <1>1, ControlInit, ControlNext, IdsInit, IdsNext, PTL DEF Spec
-----------------------------------------------------------------------------
(* No revocation is taken back, and no receipt lies.                       *)

LEMMA FenceInit == Init => FInv
  BY DEF Init, FInv, RevocationFence, ReceiptIsTrue, OutcomeTrue, MarkTrue, BegunPairs, Idle

(* Revocations only accumulate.                                            *)
Grows == registry.revoked \subseteq registry'.revoked /\ agents \subseteq agents'

LEMMA GrowsRevoked == Grows => \A x : target_revoked(x) => target_revoked(x)'
  BY DEF Grows, target_revoked

(* The receipts stay true when the entries of old keep what they say.      *)
LEMMA ReceiptsKept ==
    ASSUME FInv, Grows, begun' = begun, DOMAIN journal \subseteq DOMAIN journal',
           \A n \in DOMAIN journal' :
              \/ n \in DOMAIN journal /\ journal'[n] = journal[n]
              \/ n \notin DOMAIN journal /\ journal'[n].revocation \in {"Pending", "Unknown"}
                                         /\ ~journal'[n].reconciled
    PROVE  ReceiptIsTrue'
<1>1. ReceiptIsTrue
  BY DEF FInv
<1>2. ASSUME NEW n \in DOMAIN journal'
      PROVE  /\ journal'[n].revocation = "Recorded" \/ journal'[n].reconciled
                   => target_revoked(journal[n].target)'
             /\ journal'[n].revocation = "NotRecorded" => <<n, journal'[n].target>> \notin begun'
  <2>1. CASE n \in DOMAIN journal /\ journal'[n] = journal[n]
    <3>1. /\ journal[n].revocation = "Recorded" \/ journal[n].reconciled
                   => target_revoked(journal[n].target)
          /\ journal[n].revocation = "NotRecorded" => <<n, journal[n].target>> \notin begun
      BY <1>1, <2>1 DEF ReceiptIsTrue
    <3>2. target_revoked(journal[n].target) => target_revoked(journal[n].target)'
      BY <2>1 DEF Grows, target_revoked
    <3> QED
      BY <2>1, <3>1, <3>2
  <2>2. CASE journal'[n].revocation \in {"Pending", "Unknown"} /\ ~journal'[n].reconciled
    BY <2>2
  <2> QED
    BY <2>1, <2>2
<1>3. ASSUME NEW b \in begun' PROVE b[1] \in DOMAIN journal' /\ journal'[b[1]].target = b[2]
  BY <1>1 DEF ReceiptIsTrue
<1> QED
  BY <1>2, <1>3 DEF ReceiptIsTrue

LEMMA FenceQuiet ==
    ASSUME CInv, FInv, Quiet
    PROVE  FInv'
<1>0. /\ journal \in Seq(Action) /\ DOMAIN journal = 1..Len(journal) /\ Len(journal) \in Nat
      /\ commit \in Threads \cup {Nobody} /\ \A v \in Threads : Control(v)
  BY LenProperties DEF CInv, Types, DiskTypes, ServiceTypes
<1>1. Grows /\ begun' = begun /\ journal' = journal /\ offline' = offline /\ up' = up
  BY DEF Quiet, Grows
<1>2. ReceiptIsTrue'
  BY <1>1, ReceiptsKept
<1>3. RevocationFence'
  <2> SUFFICES ASSUME up', ~closing', NEW b \in begun'
               PROVE  target_revoked(b[2])' \/ (commit' # Nobody /\ th'[commit'].action = b[1])
    BY DEF RevocationFence
  <2>1. up /\ ~closing /\ b \in begun
    BY <1>1 DEF Quiet
  <2>2. CASE target_revoked(b[2])
    BY <1>1, <2>2, GrowsRevoked
  <2>3. CASE commit # Nobody /\ th[commit].action = b[1]
    <3>1. commit \in Threads
      BY <1>0, <2>3
    <3>2. b[1] \in 1..Len(journal)
      BY <1>0, <2>1 DEF FInv, ReceiptIsTrue
    <3>3. th[commit].action # 0
      BY <1>0, <2>3, <3>2
    <3>4. Revoking(commit)
      BY <1>0, <3>1, <3>3 DEF Control
    <3>5. commit' = commit /\ th'[commit].action = th[commit].action
      BY <3>1, <3>4 DEF Quiet
    <3> QED
      BY <2>3, <3>5
  <2> QED
    BY <2>1, <2>2, <2>3 DEF FInv, RevocationFence
<1>4. OutcomeTrue'
  <2> SUFFICES ASSUME NEW w \in Threads
               PROVE  /\ th'[w].pc = "mutate" \/ (th'[w].pc = "record" /\ th'[w].revocation = "NotRecorded")
                            => \A b \in begun' : b[1] # th'[w].action
                      /\ th'[w].pc = "record" /\ th'[w].revocation = "Recorded"
                            => target_revoked(th[w].ticket.target)'
                      /\ th'[w].pc = "record" /\ th'[w].revocation = "Unknown" => closing'
    BY DEF OutcomeTrue
  <2>1. CASE Revoking(w)
    <3>1. /\ th'[w].pc = th[w].pc /\ th'[w].action = th[w].action /\ th'[w].revocation = th[w].revocation
          /\ th'[w].ticket.target = th[w].ticket.target
      BY <2>1 DEF Quiet
    <3>2. /\ th[w].pc = "mutate" \/ (th[w].pc = "record" /\ th[w].revocation = "NotRecorded")
                => \A b \in begun : b[1] # th[w].action
          /\ th[w].pc = "record" /\ th[w].revocation = "Recorded" => target_revoked(th[w].ticket.target)
          /\ th[w].pc = "record" /\ th[w].revocation = "Unknown" => closing
      BY DEF FInv, OutcomeTrue
    <3>3. closing => closing'
      BY DEF Quiet
    <3>4. target_revoked(th[w].ticket.target) => target_revoked(th[w].ticket.target)'
      BY <1>1, <3>1 DEF Grows, target_revoked
    <3> QED
      BY <1>1, <3>1, <3>2, <3>3, <3>4
  <2>2. CASE ~Revoking(w)
    <3>1. th'[w].pc \notin {"mutate", "registry", "record"}
      BY <2>2 DEF Quiet, Revoking
    <3> QED
      BY <3>1
  <2> QED
    BY <2>1, <2>2
<1>5. MarkTrue'
  <2>1. target_revoked(journal[offline.n].target) => target_revoked(journal[offline.n].target)'
    BY <1>1 DEF Grows, target_revoked
  <2> QED
    BY <1>1, <2>1 DEF FInv, MarkTrue
<1>6. BegunPairs'
  BY <1>1 DEF FInv, BegunPairs
<1> QED
  BY <1>2, <1>3, <1>4, <1>5, <1>6 DEF FInv

(* When w is the only thread that revokes, what it holds decides.          *)
LEMMA OutcomeOne ==
    ASSUME NEW w \in Threads,
           \A v \in Threads \ {w} : ~Revoking(v) /\ th'[v] = th[v],
           /\ th'[w].pc = "mutate" \/ (th'[w].pc = "record" /\ th'[w].revocation = "NotRecorded")
                 => \A b \in begun' : b[1] # th'[w].action
           /\ th'[w].pc = "record" /\ th'[w].revocation = "Recorded" => target_revoked(th[w].ticket.target)'
           /\ th'[w].pc = "record" /\ th'[w].revocation = "Unknown" => closing'
    PROVE  OutcomeTrue'
<1>1. \A v \in Threads \ {w} : th'[v].pc \notin {"mutate", "registry", "record"}
  BY DEF Revoking
<1> QED
  BY <1>1 DEF OutcomeTrue

LEMMA FenceRevoking ==
    ASSUME CInv, FInv, NEW w \in Threads,
           commit_revoke(w) \/ not_started(w) \/ mutate(w) \/ revoke_durably(w)
              \/ revoke_uncertain(w) \/ record(w)
    PROVE  FInv'
<1>0. /\ DiskTypes /\ journal \in Seq(Action) /\ DOMAIN journal = 1..Len(journal) /\ Len(journal) \in Nat
      /\ commit \in Threads \cup {Nobody} /\ Control(w) /\ th[w] \in Thread
      /\ RevocationFence /\ ReceiptIsTrue /\ OutcomeTrue /\ MarkTrue /\ BegunPairs
  BY LenProperties DEF CInv, Types, DiskTypes, ServiceTypes, FInv
<1>1. up /\ up' = up /\ offline' = offline /\ offline.pc = "idle"
  <2>1. up /\ up' = up /\ offline' = offline
    BY DEF commit_revoke, not_started, mutate, revoke_durably, revoke_uncertain, record, at
  <2> QED
    BY <2>1 DEF CInv, Exclusion
<1>2. MarkTrue'
  BY <1>1 DEF MarkTrue
<1>3. \A b \in begun : b[1] \in 1..Len(journal) /\ journal[b[1]].target = b[2]
  BY <1>0 DEF ReceiptIsTrue
<1>4. ASSUME commit_revoke(w) PROVE FInv'
  <2>1. /\ th[w].pc = "commit" /\ commit = Nobody
        /\ UNCHANGED <<registry, agents, closing, begun>>
    BY <1>4 DEF commit_revoke, at, app
  <2> DEFINE e == Pending(th[w].ticket.target)
             more == Append(journal, e)
  <2>2. /\ more \in Seq(Action) /\ Len(more) = Len(journal) + 1 /\ more[Len(journal) + 1] = e
        /\ \A n \in 1..Len(journal) : more[n] = journal[n]
    <3>1. th[w].ticket.target \in Targets
      BY <1>0, <2>1 DEF Control, Ticket
    <3>2. e \in Action
      BY <3>1, PendingType
    <3> HIDE DEF e
    <3> QED
      BY <1>0, <3>2, AppendProperties
  <2>3. journal' \in {journal, more}
    BY <1>4 DEF commit_revoke, intent_lost, save_journal, save_fails
  <2>4. Grows
    BY <2>1 DEF Grows
  <2>5. /\ DOMAIN journal \subseteq DOMAIN journal'
        /\ \A n \in DOMAIN journal' :
              \/ n \in DOMAIN journal /\ journal'[n] = journal[n]
              \/ n \notin DOMAIN journal /\ journal'[n].revocation \in {"Pending", "Unknown"}
                                         /\ ~journal'[n].reconciled
    <3>1. e.revocation = "Pending" /\ ~e.reconciled
      BY DEF Pending
    <3> HIDE DEF e, more
    <3>2. CASE journal' = journal
      BY <3>2
    <3>3. CASE journal' = more
      <4>1. DOMAIN more = 1..Len(journal) + 1
        BY <2>2, LenProperties
      <4>2. \A n \in DOMAIN more : n \in 1..Len(journal) \/ n = Len(journal) + 1
        BY <1>0, <4>1
      <4>3. Len(journal) + 1 \notin DOMAIN journal /\ DOMAIN journal \subseteq DOMAIN more
        BY <1>0, <4>1
      <4> QED
        BY <1>0, <2>2, <3>1, <3>3, <4>2, <4>3
    <3> QED
      BY <2>3, <3>2, <3>3
  <2>6. ReceiptIsTrue'
    BY <2>1, <2>4, <2>5, ReceiptsKept
  <2>7. RevocationFence'
    <3> SUFFICES ASSUME up', ~closing', NEW b \in begun' PROVE target_revoked(b[2])'
      BY DEF RevocationFence
    <3>1. target_revoked(b[2])
      BY <1>0, <1>1, <2>1 DEF RevocationFence
    <3> QED
      BY <2>4, <3>1, GrowsRevoked
  <2>8. \A v \in Threads \ {w} : ~Revoking(v)
    BY <2>1, NobodyRevokes, NoneAssumption
  <2>9. CASE end(w)
    <3>1. th'[w] = Idle /\ \A v \in Threads \ {w} : th'[v] = th[v]
      BY <2>9, Ended
    <3>2. th'[w].pc = "idle"
      BY <3>1 DEF Idle
    <3>3. OutcomeTrue'
      BY <2>8, <3>1, <3>2, OutcomeOne
    <3> QED
      BY <1>0, <1>2, <2>1, <2>6, <2>7, <3>3 DEF FInv, BegunPairs
  <2>10. CASE th' = [th EXCEPT ![w].pc = "mutate", ![w].action = Len(journal) + 1]
    <3>1. th'[w].pc = "mutate" /\ th'[w].action = Len(journal) + 1
          /\ \A v \in Threads \ {w} : th'[v] = th[v]
      BY <2>10, IntentThread
    <3>2. \A b \in begun' : b[1] # Len(journal) + 1
      BY <1>0, <1>3, <2>1
    <3>3. OutcomeTrue'
      BY <2>8, <3>1, <3>2, OutcomeOne
    <3> QED
      BY <1>0, <1>2, <2>1, <2>6, <2>7, <3>3 DEF FInv, BegunPairs
  <2> QED
    BY <1>4, <2>9, <2>10 DEF commit_revoke, intent_lost
<1>5. ASSUME Revoking(w)
      PROVE  /\ commit = w /\ w # Nobody /\ \A v \in Threads \ {w} : ~Revoking(v)
             /\ th[w].action \in 1..Len(journal) /\ th[w].ticket.target \in Targets
             /\ journal[th[w].action].target = th[w].ticket.target
             /\ journal[th[w].action].revocation = "Pending" /\ ~journal[th[w].action].reconciled
  <2>1. commit = w /\ th[w].action \in 1..Len(journal) /\ th[w].ticket \in Ticket
        /\ journal[th[w].action] = Pending(th[w].ticket.target)
    BY <1>0, <1>5 DEF Control, Revoking
  <2>2. \A v \in Threads \ {w} : ~Revoking(v)
    BY <2>1, NobodyRevokes
  <2>3. th[w].ticket.target \in Targets
    BY <2>1 DEF Ticket
  <2> QED
    BY <2>1, <2>2, <2>3, NoneAssumption DEF Pending
<1>6. ASSUME Revoking(w), Grows, UNCHANGED <<journal, commit>>, begun' = begun, closing => closing',
             NEW a \in Revocation, NEW c \in Cleanup, outcome(w, a, c),
             a = "NotRecorded" => \A b \in begun : b[1] # th[w].action,
             a = "Recorded" => target_revoked(th[w].ticket.target)', a = "Unknown" => closing'
      PROVE FInv'
  <2>1. /\ th'[w].pc = "record" /\ th'[w].revocation = a /\ th'[w].action = th[w].action
        /\ th'[w].ticket = th[w].ticket /\ \A v \in Threads \ {w} : th'[v] = th[v]
    BY <1>6, OutcomeThread
  <2>2. OutcomeTrue'
    BY <1>5, <1>6, <2>1, OutcomeOne
  <2>3. ReceiptIsTrue'
    BY <1>6, ReceiptsKept
  <2>4. RevocationFence'
    <3> SUFFICES ASSUME up', ~closing', NEW b \in begun'
                 PROVE  target_revoked(b[2])' \/ (commit' # Nobody /\ th'[commit'].action = b[1])
      BY DEF RevocationFence
    <3>1. target_revoked(b[2]) \/ (commit # Nobody /\ th[commit].action = b[1])
      BY <1>0, <1>1, <1>6 DEF RevocationFence
    <3> QED
      BY <1>5, <1>6, <2>1, <3>1, GrowsRevoked
  <2> QED
    BY <1>0, <1>2, <1>6, <2>2, <2>3, <2>4 DEF FInv, BegunPairs
<1>7. ASSUME not_started(w) PROVE FInv'
  <2>1. /\ th[w].pc = "mutate" /\ outcome(w, "NotRecorded", "NotApplicable")
        /\ UNCHANGED <<registry, agents, journal, commit, begun, closing>>
    BY <1>7 DEF not_started, at, disk, app, service
  <2>2. \A b \in begun : b[1] # th[w].action
    BY <1>0, <2>1 DEF OutcomeTrue
  <2>3. Grows /\ Revoking(w)
    BY <2>1 DEF Grows, Revoking
  <2>4. "NotRecorded" \in Revocation /\ "NotApplicable" \in Cleanup
    BY DEF Revocation, Cleanup
  <2> QED
    BY <1>6, <2>1, <2>2, <2>3, <2>4
<1>8. ASSUME mutate(w) PROVE FInv'
  <2> DEFINE new == <<th[w].action, th[w].ticket.target>>
  <2>1. /\ th[w].pc = "mutate" /\ begun' = begun \cup {new}
        /\ UNCHANGED <<registry, agents, journal, commit>>
    BY <1>8 DEF mutate, at, disk, service
  <2>2. closing' \in {closing, TRUE}
    BY <1>8 DEF mutate
  <2>3. Grows /\ Revoking(w)
    BY <2>1 DEF Grows, Revoking
  <2>4. /\ th'[w].pc = "registry" /\ th'[w].action = th[w].action
        /\ th'[w].ticket = th[w].ticket /\ \A v \in Threads \ {w} : th'[v] = th[v]
    BY <1>8, MutateThread
  <2>5. OutcomeTrue'
    BY <1>5, <2>3, <2>4, OutcomeOne
  <2>6. ReceiptIsTrue'
    <3>1. ASSUME NEW n \in DOMAIN journal'
          PROVE  /\ journal'[n].revocation = "Recorded" \/ journal'[n].reconciled
                       => target_revoked(journal[n].target)'
                 /\ journal'[n].revocation = "NotRecorded" => <<n, journal'[n].target>> \notin begun'
      <4>1. /\ journal[n].revocation = "Recorded" \/ journal[n].reconciled
                  => target_revoked(journal[n].target)
            /\ journal[n].revocation = "NotRecorded" => <<n, journal[n].target>> \notin begun
        BY <1>0, <2>1 DEF ReceiptIsTrue
      <4>2. target_revoked(journal[n].target) => target_revoked(journal[n].target)'
        BY <2>1 DEF target_revoked
      <4>3. journal[n].revocation = "NotRecorded" => n # th[w].action
        BY <1>5, <2>3
      <4> QED
        BY <2>1, <4>1, <4>2, <4>3
    <3>2. ASSUME NEW b \in begun' PROVE b[1] \in DOMAIN journal' /\ journal'[b[1]].target = b[2]
      BY <1>0, <1>3, <1>5, <2>1, <2>3
    <3> QED
      BY <3>1, <3>2 DEF ReceiptIsTrue
  <2>7. RevocationFence'
    <3> SUFFICES ASSUME up', ~closing', NEW b \in begun'
                 PROVE  target_revoked(b[2])' \/ (commit' # Nobody /\ th'[commit'].action = b[1])
      BY DEF RevocationFence
    <3>1. commit' = w /\ w # Nobody /\ th'[w].action = th[w].action
      BY <1>5, <2>1, <2>3, <2>4
    <3>2. CASE b = new
      BY <3>1, <3>2
    <3>3. CASE b \in begun
      <4>1. target_revoked(b[2]) \/ (commit # Nobody /\ th[commit].action = b[1])
        BY <1>0, <1>1, <2>2, <3>3 DEF RevocationFence
      <4> QED
        BY <2>1, <2>3, <3>1, <4>1, GrowsRevoked
    <3> QED
      BY <2>1, <3>2, <3>3
  <2>8. BegunPairs'
    BY <1>0, <2>1 DEF BegunPairs
  <2> QED
    BY <1>2, <2>5, <2>6, <2>7, <2>8 DEF FInv
<1>9. ASSUME revoke_durably(w) PROVE FInv'
  <2>1. /\ th[w].pc = "registry" /\ outcome(w, "Recorded", th[w].cleanup) /\ durable(th[w].ticket.target)
        /\ UNCHANGED <<journal, commit, begun, closing>>
    BY <1>9 DEF revoke_durably, at, app, service
  <2>2. Revoking(w) /\ th[w].ticket.target \in Targets
    BY <1>5, <2>1 DEF Revoking
  <2>3. "Recorded" \in Revocation /\ th[w].cleanup \in Cleanup
    BY <1>0 DEF Revocation, Thread
  <2>4. th'[w].ticket = th[w].ticket
    BY <2>1, <2>3, OutcomeThread
  <2>5. Grows /\ target_revoked(th[w].ticket.target)'
    <3> DEFINE x == th[w].ticket.target
    <3>1. x' = x
      BY <2>4
    <3>2. Grows
      BY <1>0, <2>1, <2>2, DurableRevokes DEF Grows
    <3>3. x \in registry'.revoked \/ x \in agents'
      BY <1>0, <2>1, <2>2, DurableRevokes DEF target_revoked
    <3> QED
      BY <3>1, <3>2, <3>3 DEF target_revoked
  <2> QED
    BY <1>6, <2>1, <2>2, <2>3, <2>5
<1>10. ASSUME revoke_uncertain(w) PROVE FInv'
  <2>1. /\ th[w].pc = "registry" /\ outcome(w, "Unknown", "Unknown")
        /\ (durable(th[w].ticket.target) \/ UNCHANGED <<registry, agents>>)
        /\ UNCHANGED <<journal, commit, begun>> /\ closing'
    BY <1>10 DEF revoke_uncertain, at, service
  <2>2. Revoking(w) /\ th[w].ticket.target \in Targets
    BY <1>5, <2>1 DEF Revoking
  <2>3. "Unknown" \in Revocation /\ "Unknown" \in Cleanup
    BY DEF Revocation, Cleanup
  <2>4. Grows
    BY <1>0, <2>1, <2>2, DurableRevokes DEF Grows
  <2> QED
    BY <1>6, <2>1, <2>2, <2>3, <2>4
<1>11. ASSUME record(w) PROVE FInv'
  <2> DEFINE i == th[w].action
  <2>1. /\ th[w].pc = "record" /\ end(w) /\ UNCHANGED <<registry, agents, begun>>
        /\ \/ journal' = RecordedJournal(w) /\ UNCHANGED closing
           \/ journal' \in {journal, RecordedJournal(w)} /\ closing'
    BY <1>11 DEF record, at, save_journal, save_fails, RecordedJournal
  <2>2. Grows /\ Revoking(w)
    BY <2>1 DEF Grows, Revoking
  <2>3. th'[w] = Idle /\ \A v \in Threads \ {w} : th'[v] = th[v]
    BY <2>1, Ended
  <2>4. OutcomeTrue'
    <3>1. th'[w].pc = "idle"
      BY <2>3 DEF Idle
    <3> QED
      BY <1>5, <2>2, <2>3, <3>1, OutcomeOne
  <2>5. /\ th[w].revocation = "NotRecorded" => \A b \in begun : b[1] # i
        /\ th[w].revocation = "Recorded" => target_revoked(th[w].ticket.target)
        /\ th[w].revocation = "Unknown" => closing
        /\ th[w].revocation \in {"NotRecorded", "Recorded", "Unknown"}
    BY <1>0, <2>1 DEF OutcomeTrue, Control
  <2>6. RevocationFence'
    <3> SUFFICES ASSUME up', ~closing', NEW b \in begun' PROVE target_revoked(b[2])'
      BY DEF RevocationFence
    <3>1. ~closing /\ b \in begun
      BY <2>1
    <3>2. target_revoked(b[2]) \/ b[1] = i
      BY <1>0, <1>1, <1>5, <2>2, <3>1 DEF RevocationFence
    <3>3. CASE b[1] = i
      <4>1. th[w].revocation = "Recorded"
        BY <2>5, <3>1, <3>3
      <4>2. b[2] = th[w].ticket.target
        BY <1>3, <1>5, <2>2, <3>1, <3>3
      <4> QED
        BY <2>2, <2>5, <4>1, <4>2, GrowsRevoked
    <3> QED
      BY <2>2, <3>2, <3>3, GrowsRevoked
  <2>7. ReceiptIsTrue'
    <3>1. CASE journal' = journal
      BY <2>1, <2>2, <3>1, ReceiptsKept
    <3>2. CASE journal' = RecordedJournal(w)
      <4> DEFINE q == RecordedJournal(w)
      <4>1. /\ q \in Seq(Action) /\ Len(q) = Len(journal)
            /\ \A j \in 1..Len(journal) : q[j].target = journal[j].target
            /\ \A j \in 1..Len(journal) \ {i} : q[j] = journal[j]
            /\ q[i].revocation = th[w].revocation /\ q[i].reconciled = FALSE
        BY <2>1, RecordPut
      <4>2. DOMAIN q = 1..Len(journal)
        BY <4>1, LenProperties
      <4> HIDE DEF q
      <4>3. ASSUME NEW n \in 1..Len(journal)
            PROVE  /\ q[n].revocation = "Recorded" \/ q[n].reconciled => target_revoked(q[n].target)
                   /\ q[n].revocation = "NotRecorded" => <<n, q[n].target>> \notin begun
        <5>1. CASE n = i
          BY <1>5, <2>2, <2>5, <4>1, <5>1
        <5>2. CASE n # i
          <6>1. q[n] = journal[n]
            BY <4>1, <5>2
          <6> QED
            BY <1>0, <6>1 DEF ReceiptIsTrue
        <5> QED
          BY <5>1, <5>2
      <4>4. journal' = q /\ DOMAIN journal' = 1..Len(journal)
        BY <3>2, <4>2 DEF q
      <4>5. ASSUME NEW n \in DOMAIN journal'
            PROVE  /\ journal'[n].revocation = "Recorded" \/ journal'[n].reconciled
                         => target_revoked(journal[n].target)'
                   /\ journal'[n].revocation = "NotRecorded" => <<n, journal'[n].target>> \notin begun'
        <5>1. target_revoked(q[n].target) => target_revoked(journal[n].target)'
          BY <2>1, <4>4 DEF target_revoked
        <5> QED
          BY <2>1, <4>3, <4>4, <5>1
      <4>6. ASSUME NEW b \in begun' PROVE b[1] \in DOMAIN journal' /\ journal'[b[1]].target = b[2]
        BY <1>3, <2>1, <4>1, <4>4
      <4> QED
        BY <4>5, <4>6 DEF ReceiptIsTrue
    <3> QED
      BY <2>1, <3>1, <3>2
  <2> QED
    BY <1>0, <1>2, <2>1, <2>4, <2>6, <2>7 DEF FInv, BegunPairs
<1> QED
  BY <1>4, <1>7, <1>8, <1>9, <1>10, <1>11

LEMMA FenceDaemon ==
    ASSUME CInv, FInv,
           \/ crash \/ start_daemon
           \/ \E n \in 1..MaxActions, x \in Targets : reconcile_begin(n, x)
           \/ reconcile_mutate \/ reconcile_mark \/ reconcile_stops
    PROVE  FInv'
<1>0. /\ DiskTypes /\ journal \in Seq(Action) /\ DOMAIN journal = 1..Len(journal) /\ Len(journal) \in Nat
      /\ RevocationFence /\ ReceiptIsTrue /\ OutcomeTrue /\ MarkTrue /\ BegunPairs /\ Exclusion
  BY LenProperties DEF CInv, Types, DiskTypes, FInv
<1>1. begun' = begun /\ BegunPairs'
  <2>1. begun' = begun
    BY DEF crash, start_daemon, reconcile_begin, reconcile_mutate, reconcile_mark, reconcile_stops
  <2> QED
    BY <1>0, <2>1 DEF BegunPairs
<1>2. ASSUME ~up', \A w \in Threads : th'[w] = Idle, MarkTrue', ReceiptIsTrue' PROVE FInv'
  <2>1. OutcomeTrue'
    BY <1>2 DEF OutcomeTrue, Idle
  <2>2. RevocationFence'
    BY <1>2 DEF RevocationFence
  <2> QED
    BY <1>1, <1>2, <2>1, <2>2 DEF FInv
<1>3. ASSUME crash PROVE FInv'
  <2>1. /\ up /\ ~up' /\ UNCHANGED <<registry, agents, journal, offline>>
        /\ \A w \in Threads : th'[w] = Idle
    BY <1>3 DEF crash, disk
  <2>2. MarkTrue'
    BY <1>0, <2>1 DEF Exclusion, MarkTrue
  <2>3. ReceiptIsTrue'
    BY <1>1, <2>1, ReceiptsKept DEF Grows
  <2> QED
    BY <1>2, <2>1, <2>2, <2>3
<1>4. ASSUME start_daemon PROVE FInv'
  <2>1. /\ ~up /\ offline.pc = "idle" /\ UNCHANGED <<registry, agents, journal, offline, th>>
        /\ closing' = recovery_fence
    BY <1>4 DEF start_daemon, disk
  <2>2. MarkTrue' /\ ReceiptIsTrue'
    BY <1>1, <2>1, ReceiptsKept DEF MarkTrue, Grows
  <2>3. OutcomeTrue'
    <3>1. \A w \in Threads : th'[w] = Idle
      BY <1>0, <2>1 DEF Exclusion
    <3> QED
      BY <3>1 DEF OutcomeTrue, Idle
  <2>4. RevocationFence'
    <3> SUFFICES ASSUME ~closing', NEW b \in begun' PROVE target_revoked(b[2])'
      BY DEF RevocationFence
    <3>1. b \in begun /\ b[1] \in DOMAIN journal /\ journal[b[1]].target = b[2] /\ b = <<b[1], b[2]>>
      BY <1>0, <1>1 DEF ReceiptIsTrue, BegunPairs
    <3>2. settled(journal[b[1]])
      BY <2>1, <3>1 DEF recovery_fence
    <3>3. journal[b[1]].revocation # "NotRecorded"
      BY <1>0, <3>1 DEF ReceiptIsTrue
    <3>4. journal[b[1]].revocation = "Recorded" \/ journal[b[1]].reconciled
      BY <3>2, <3>3 DEF settled
    <3>5. target_revoked(b[2])
      BY <1>0, <3>1, <3>4 DEF ReceiptIsTrue
    <3> QED
      BY <2>1, <3>5 DEF target_revoked
  <2> QED
    BY <1>1, <2>2, <2>3, <2>4 DEF FInv
<1>5. ASSUME NEW n \in 1..MaxActions, NEW x \in Targets, reconcile_begin(n, x) PROVE FInv'
  <2> DEFINE e == [Pending(x) EXCEPT !.revocation = "Unknown", !.cleanup = "Unknown"]
             more == Append(journal, e)
  <2>1. /\ ~up /\ up' = up /\ offline' = [pc |-> "mutate", n |-> n]
        /\ UNCHANGED <<registry, agents, th>>
        /\ journal' \in {journal, more}
    BY <1>5 DEF reconcile_begin, stopped, save_journal
  <2>2. Pending(x) \in Action
    BY PendingType
  <2>3. e \in Action /\ e.revocation = "Unknown" /\ ~e.reconciled
    <3>1. Pending(x).reconciled = FALSE
      BY DEF Pending
    <3> QED
      BY <2>2, <3>1 DEF Action
  <2> HIDE DEF e
  <2>4. /\ more \in Seq(Action) /\ Len(more) = Len(journal) + 1 /\ more[Len(journal) + 1] = e
        /\ \A m \in 1..Len(journal) : more[m] = journal[m]
    BY <1>0, <2>3, AppendProperties
  <2> HIDE DEF more
  <2>5. /\ DOMAIN journal \subseteq DOMAIN journal'
        /\ \A m \in DOMAIN journal' :
              \/ m \in DOMAIN journal /\ journal'[m] = journal[m]
              \/ m \notin DOMAIN journal /\ journal'[m].revocation \in {"Pending", "Unknown"}
                                         /\ ~journal'[m].reconciled
    <3>1. CASE journal' = journal
      BY <3>1
    <3>2. CASE journal' = more
      <4>1. DOMAIN more = 1..Len(journal) + 1
        BY <2>4, LenProperties
      <4>2. \A m \in DOMAIN more : m \in 1..Len(journal) \/ m = Len(journal) + 1
        BY <1>0, <4>1
      <4>3. Len(journal) + 1 \notin DOMAIN journal /\ DOMAIN journal \subseteq DOMAIN more
        BY <1>0, <4>1
      <4> QED
        BY <1>0, <2>3, <2>4, <3>2, <4>2, <4>3
    <3> QED
      BY <2>1, <3>1, <3>2
  <2>6. ReceiptIsTrue'
    BY <1>1, <2>1, <2>5, ReceiptsKept DEF Grows
  <2>7. MarkTrue'
    BY <2>1 DEF MarkTrue
  <2>8. \A w \in Threads : th'[w] = Idle
    BY <1>0, <2>1 DEF Exclusion
  <2> QED
    BY <1>2, <2>1, <2>6, <2>7, <2>8
<1>6. ASSUME offline.pc # "idle"
      PROVE  ~up /\ offline.n \in 1..Len(journal) /\ \A w \in Threads : th[w] = Idle
  BY <1>0, <1>6 DEF Exclusion
<1>7. ASSUME reconcile_mutate PROVE FInv'
  <2>1. /\ offline.pc = "mutate" /\ durable(journal[offline.n].target)
        /\ offline' = [offline EXCEPT !.pc = "mark"] /\ UNCHANGED <<journal, up, th>>
    BY <1>7 DEF reconcile_mutate
  <2>2. journal[offline.n].target \in Targets
    <3>1. journal[offline.n] \in Action
      BY <1>0, <1>6, <2>1
    <3> QED
      BY <3>1 DEF Action
  <2>3. Grows
    BY <1>0, <2>1, <2>2, DurableRevokes DEF Grows
  <2>4. ReceiptIsTrue'
    BY <1>1, <2>1, <2>3, ReceiptsKept
  <2>5. offline'.n = offline.n
    BY <1>0, <2>1 DEF DiskTypes
  <2>6. MarkTrue'
    <3>1. journal[offline.n].target \in registry'.revoked \/ journal[offline.n].target \in agents'
      <4> DEFINE x == journal[offline.n].target
      <4>1. x \in registry'.revoked \/ x \in agents'
        BY <1>0, <2>1, <2>2, DurableRevokes DEF target_revoked
      <4> QED
        BY <4>1
    <3> QED
      BY <2>1, <2>5, <3>1 DEF MarkTrue, target_revoked
  <2> QED
    BY <1>2, <1>6, <2>1, <2>4, <2>6
<1>8. ASSUME reconcile_mark PROVE FInv'
  <2> DEFINE e == [journal[offline.n] EXCEPT !.reconciled = TRUE]
  <2>1. /\ offline.pc = "mark" /\ journal' = [journal EXCEPT ![offline.n] = e]
        /\ offline' = [pc |-> "idle", n |-> 0] /\ UNCHANGED <<registry, agents, up, th>>
    BY <1>8 DEF reconcile_mark, save_journal
  <2>2. journal[offline.n] \in Action /\ offline.n \in 1..Len(journal)
    BY <1>0, <1>6, <2>1
  <2>3. e \in Action /\ e.target = journal[offline.n].target /\ e.revocation = journal[offline.n].revocation
    BY <2>2 DEF Action
  <2> HIDE DEF e
  <2>4. /\ journal' \in Seq(Action) /\ Len(journal') = Len(journal)
        /\ \A j \in 1..Len(journal) : journal'[j] = IF j = offline.n THEN e ELSE journal[j]
    BY <1>0, <2>1, <2>2, <2>3, ExceptSeq
  <2>5. DOMAIN journal' = 1..Len(journal)
    BY <2>4, LenProperties
  <2>6. \A j \in 1..Len(journal) : /\ journal'[j].target = journal[j].target
                                   /\ journal'[j].revocation = journal[j].revocation
                                   /\ j # offline.n => journal'[j] = journal[j]
    BY <2>3, <2>4
  <2>7. ReceiptIsTrue'
    <3>1. ASSUME NEW n \in DOMAIN journal'
          PROVE  /\ journal'[n].revocation = "Recorded" \/ journal'[n].reconciled
                       => target_revoked(journal[n].target)'
                 /\ journal'[n].revocation = "NotRecorded" => <<n, journal'[n].target>> \notin begun'
      <4>1. n \in 1..Len(journal) /\ journal'[n].target = journal[n].target
            /\ journal'[n].revocation = journal[n].revocation
        BY <2>5, <2>6
      <4>2. target_revoked(journal[n].target) => target_revoked(journal[n].target)'
        BY <2>1, <4>1 DEF target_revoked
      <4>3. CASE n = offline.n
        <5>1. target_revoked(journal[n].target)
          BY <1>0, <2>1, <4>3 DEF MarkTrue
        <5>2. journal[n].revocation = "NotRecorded" => <<n, journal[n].target>> \notin begun
          BY <1>0, <4>1 DEF ReceiptIsTrue
        <5> QED
          BY <1>1, <4>1, <4>2, <5>1, <5>2
      <4>4. CASE n # offline.n
        <5>1. /\ journal[n].revocation = "Recorded" \/ journal[n].reconciled
                    => target_revoked(journal[n].target)
              /\ journal[n].revocation = "NotRecorded" => <<n, journal[n].target>> \notin begun
          BY <1>0, <4>1 DEF ReceiptIsTrue
        <5>2. journal'[n] = journal[n]
          BY <2>6, <4>1, <4>4
        <5> QED
          BY <1>1, <4>1, <4>2, <5>1, <5>2
      <4> QED
        BY <4>3, <4>4
    <3>2. ASSUME NEW b \in begun' PROVE b[1] \in DOMAIN journal' /\ journal'[b[1]].target = b[2]
      <4>1. b[1] \in 1..Len(journal) /\ journal[b[1]].target = b[2]
        BY <1>0, <1>1 DEF ReceiptIsTrue
      <4> QED
        BY <2>5, <2>6, <4>1
    <3> QED
      BY <3>1, <3>2 DEF ReceiptIsTrue
  <2>8. MarkTrue'
    BY <2>1 DEF MarkTrue
  <2> QED
    BY <1>2, <1>6, <2>1, <2>7, <2>8
<1>9. ASSUME reconcile_stops PROVE FInv'
  <2>1. /\ offline.pc # "idle" /\ offline' = [pc |-> "idle", n |-> 0]
        /\ UNCHANGED <<registry, agents, journal, up, th>>
    BY <1>9 DEF reconcile_stops, disk
  <2>2. MarkTrue' /\ ReceiptIsTrue'
    BY <1>1, <2>1, ReceiptsKept DEF MarkTrue, Grows
  <2> QED
    BY <1>2, <1>6, <2>1, <2>2
<1> QED
  BY <1>3, <1>4, <1>5, <1>7, <1>8, <1>9

LEMMA FenceNext == CInv /\ FInv /\ [Next]_vars => FInv'
<1> SUFFICES ASSUME CInv, FInv, [Next]_vars PROVE FInv'
  OBVIOUS
<1>1. CASE UNCHANGED vars
  <2>1. Quiet
    BY <1>1, QuietUnchanged DEF vars, disk, app, service
  <2> QED
    BY <2>1, FenceQuiet
<1>2. ASSUME NEW w \in Threads, step(w) PROVE FInv'
  BY <1>2, QuietDeciding, FenceQuiet, FenceRevoking DEF step
<1> QED
  BY <1>1, <1>2, QuietArriving, QuietConsole, FenceQuiet, FenceDaemon DEF Next

(* Once a revocation has denied its target anything, admission is open     *)
(* only when the target is durably revoked or that very command still      *)
(* runs, whatever fails, crashes or restarts.                              *)
THEOREM FenceHolds == Spec => []RevocationFence
<1>1. FInv => RevocationFence
  BY DEF FInv
<1> QED
  BY <1>1, ControlInit, ControlNext, FenceInit, FenceNext, PTL DEF Spec

(* A recorded or reconciled revocation is durable, one that is not         *)
(* recorded never began, and every one that began has its receipt.         *)
THEOREM ReceiptsTrue == Spec => []ReceiptIsTrue
<1>1. FInv => ReceiptIsTrue
  BY DEF FInv
<1> QED
  BY <1>1, ControlInit, ControlNext, FenceInit, FenceNext, PTL DEF Spec

-----------------------------------------------------------------------------
(* Decisions.                                                              *)

LEMMA OpenInit == Init => OpenInSession
  BY DEF Init, OpenInSession

(* Whatever ends the session ends the request too.                         *)
LEMMA OpenNext == CInv /\ OpenInSession /\ [Next]_vars => OpenInSession'
<1> SUFFICES ASSUME CInv, OpenInSession, [Next]_vars PROVE OpenInSession'
  OBVIOUS
<1>1. ASSUME UNCHANGED <<up, session, request>> PROVE OpenInSession'
  BY <1>1 DEF OpenInSession
<1>2. ASSUME request' # "Pending" \/ ~up' PROVE OpenInSession'
  BY <1>2 DEF OpenInSession
<1>3. CASE UNCHANGED vars
  BY <1>1, <1>3 DEF vars, app, decision
<1>4. ASSUME NEW w \in Threads, step(w) PROVE OpenInSession'
  <2>1. ASSUME commit_deny(w) \/ commit_approve(w) PROVE OpenInSession'
    BY <1>1, <1>2, <2>1 DEF commit_deny, commit_approve, decide, decision, app
  <2>2. ASSUME unlock_slot(w) PROVE OpenInSession'
    BY <1>2, <2>2 DEF unlock_slot
  <2>3. ASSUME mutate(w) PROVE OpenInSession'
    BY <1>1, <1>2, <2>3 DEF mutate, end_session, decision
  <2>4. ASSUME \/ prepare(w) \/ refused(w) \/ authenticate(w) \/ unlock_gate(w) \/ unlock_refused(w)
               \/ not_started(w) \/ commit_revoke(w) \/ revoke_durably(w) \/ revoke_uncertain(w) \/ record(w)
               \/ dispatch_failed(w)
        PROVE  OpenInSession'
    <3>1. UNCHANGED <<up, session, request>>
      BY <2>4 DEF prepare, refused, authenticate, unlock_gate, unlock_refused, not_started, commit_revoke,
           revoke_durably, revoke_uncertain, record, dispatch_failed, app, decision
    <3> QED
      BY <1>1, <3>1
  <2>5. ASSUME (\E k \in Keys : commit_enroll(w, k)) \/ commit_revoke_key(w) PROVE OpenInSession'
    <3>1. UNCHANGED <<up, session, request>>
      BY <2>5 DEF commit_enroll, commit_revoke_key, write_registry, app, decision
    <3> QED
      BY <1>1, <3>1
  <2> QED
    BY <1>4, <2>1, <2>2, <2>3, <2>4, <2>5 DEF step
<1>5. ASSUME create_request PROVE OpenInSession'
  BY <1>5 DEF create_request, OpenInSession, app
<1>6. ASSUME lock \/ crash \/ start_daemon PROVE OpenInSession'
  BY <1>2, <1>6 DEF lock, crash, start_daemon, end_session
<1>7. ASSUME \/ \E d \in Devices : review(d)
             \/ \E d \in Devices, x \in Targets : identity_prepare(d, x)
             \/ \E d \in Devices, op \in {"enroll", "revoke_key"}, x \in Devices : biometric_prepare(d, op, x)
             \/ \E t \in tickets : ticket_expires(t)
             \/ \E w \in Threads : deadline_passes(w)
             \/ \E w \in Threads, kind \in Commands, t \in tickets : dispatch(w, kind, t)
             \/ \E w \in Threads, d \in Devices : unlock(w, d)
             \/ \E d \in Devices : enroll(d) \/ grant_administrator(d) \/ revoke(d)
             \/ \E n \in 1..MaxActions, x \in Targets : reconcile_begin(n, x)
             \/ reconcile_mutate \/ reconcile_mark \/ reconcile_stops
      PROVE  OpenInSession'
  <2>1. UNCHANGED <<up, session, request>>
    BY <1>7 DEF review, identity_prepare, biometric_prepare, issue, ticket_expires, deadline_passes,
         dispatch, unlock, enroll, grant_administrator, revoke, console, reconcile_begin,
         reconcile_mutate, reconcile_mark, reconcile_stops, app, decision
  <2> QED
    BY <1>1, <2>1
<1> QED
  BY <1>3, <1>4, <1>5, <1>6, <1>7 DEF Next

LEMMA DecidesCurrent == CInv /\ OpenInSession /\ [Next]_vars => CurrentStep
<1> SUFFICES ASSUME CInv, OpenInSession, [Next]_vars, request' # request, request' \in {"Approved", "Denied"}
             PROVE  CurrentStep
  BY DEF CurrentStep
<1>1. ASSUME NEW w \in Threads, at(w, "commit"), decide(request', w), end(w) \/ goto(w, "dispatch"),
             authorized(th[w].ticket.actor), decidable(th[w].ticket),
             th[w].key # NoKey => registry.key[th[w].ticket.actor] = th[w].key
      PROVE  CurrentStep
  <2>1. by'.device = th[w].ticket.actor /\ by'.key = th[w].key
    BY <1>1 DEF decide
  <2>2. up /\ request = "Pending" /\ ~closing /\ th[w].ticket.gen = gen /\ th[w].pc = "commit"
    BY <1>1 DEF at, decidable, admitted
  <2>3. session = "unlocked"
    BY <2>2 DEF OpenInSession
  <2>4. th[w].ticket.actor \in registry.enabled /\ ~failed
    BY <1>1 DEF authorized
  <2>5. th'[w].pc # "commit"
    <3>1. th \in [Threads -> Thread] /\ th[w] \in Thread
      BY DEF CInv, Types, ServiceTypes
    <3>2. CASE end(w)
      BY <3>1, <3>2 DEF end, finish, Idle
    <3>3. CASE goto(w, "dispatch")
      BY <3>1, <3>3 DEF goto, Thread
    <3> QED
      BY <1>1, <3>2, <3>3
  <2> QED
    BY <1>1, <2>1, <2>2, <2>3, <2>4, <2>5 DEF CurrentStep
<1>2. ASSUME NEW w \in Threads, commit_deny(w) PROVE CurrentStep
  <2>1. /\ at(w, "commit") /\ th[w].cmd = "deny" /\ end(w)
        /\ authorized(th[w].ticket.actor) /\ decidable(th[w].ticket) /\ decide("Denied", w)
    BY <1>2 DEF commit_deny, decision
  <2>2. th[w].key = NoKey
    BY <2>1 DEF CInv, Control
  <2>3. decide(request', w)
    BY <2>1 DEF decide
  <2> QED
    BY <1>1, <2>1, <2>2, <2>3
<1>3. ASSUME NEW w \in Threads, commit_approve(w) PROVE CurrentStep
  <2>1. /\ at(w, "commit") /\ (end(w) \/ goto(w, "dispatch"))
        /\ approve_entitled(w) /\ decidable(th[w].ticket) /\ decide("Approved", w)
    BY <1>3 DEF commit_approve, decision
  <2>2. authorized(th[w].ticket.actor)
        /\ (th[w].key # NoKey => registry.key[th[w].ticket.actor] = th[w].key)
    BY <2>1 DEF approve_entitled
  <2>3. decide(request', w)
    BY <2>1 DEF decide
  <2> QED
    BY <1>1, <2>1, <2>2, <2>3
<1>4. ASSUME NEW w \in Threads, step(w) PROVE CurrentStep
  <2>1. ASSUME unlock_slot(w) \/ mutate(w) PROVE CurrentStep
    BY <2>1 DEF unlock_slot, mutate, end_session, decision
  <2>2. ASSUME \/ prepare(w) \/ refused(w) \/ authenticate(w) \/ unlock_gate(w) \/ unlock_refused(w)
               \/ not_started(w) \/ commit_revoke(w) \/ revoke_durably(w) \/ revoke_uncertain(w) \/ record(w)
               \/ dispatch_failed(w)
        PROVE  CurrentStep
    BY <2>2 DEF prepare, refused, authenticate, unlock_gate, unlock_refused, not_started, commit_revoke,
         revoke_durably, revoke_uncertain, record, dispatch_failed, decision
  <2>3. ASSUME (\E k \in Keys : commit_enroll(w, k)) \/ commit_revoke_key(w) PROVE CurrentStep
    BY <2>3 DEF commit_enroll, commit_revoke_key, write_registry, decision
  <2> QED
    BY <1>2, <1>3, <1>4, <2>1, <2>2, <2>3 DEF step
<1>5. ASSUME \/ UNCHANGED vars \/ create_request \/ lock \/ crash \/ start_daemon
             \/ \E d \in Devices : review(d)
             \/ \E d \in Devices, x \in Targets : identity_prepare(d, x)
             \/ \E d \in Devices, op \in {"enroll", "revoke_key"}, x \in Devices : biometric_prepare(d, op, x)
             \/ \E t \in tickets : ticket_expires(t)
             \/ \E w \in Threads : deadline_passes(w)
             \/ \E w \in Threads, kind \in Commands, t \in tickets : dispatch(w, kind, t)
             \/ \E w \in Threads, d \in Devices : unlock(w, d)
             \/ \E d \in Devices : enroll(d) \/ grant_administrator(d) \/ revoke(d)
             \/ \E n \in 1..MaxActions, x \in Targets : reconcile_begin(n, x)
             \/ reconcile_mutate \/ reconcile_mark \/ reconcile_stops
      PROVE  CurrentStep
  <2>1. request' \in {request, "Pending", "Ended"}
    BY <1>5 DEF vars, create_request, lock, crash, start_daemon, end_session,
         review, identity_prepare, biometric_prepare, issue, ticket_expires, deadline_passes,
         dispatch, unlock, enroll, grant_administrator, revoke, console, reconcile_begin,
         reconcile_mutate, reconcile_mark, reconcile_stops, decision
  <2> QED
    BY <2>1
<1> QED
  BY <1>4, <1>5 DEF Next

(* A decision takes effect only while its device is enrolled, in the       *)
(* session it reviewed the request in, and under the key on file then.     *)
THEOREM DecisionsCurrent == Spec => DecisionIsCurrent
<1>1. CInv /\ OpenInSession /\ [Next]_vars => [CurrentStep]_vars
  BY DecidesCurrent
<1> QED
  BY <1>1, ControlInit, ControlNext, OpenInit, OpenNext, PTL DEF Spec, DecisionIsCurrent
=============================================================================
