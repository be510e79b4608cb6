---------------------- MODULE ProviderApplicationProofs ----------------------
(***************************************************************************)
(* Theorems about ProviderApplication, for every set of requests, agents   *)
(* and controllers, every queue and with or without faults.                *)
(*                                                                         *)
(* The threads are kept apart by the two mutexes.  What the worker checks  *)
(* under the gate stays true until it gives the gate back, because nobody  *)
(* else touches the store or the session meanwhile; what it reads under    *)
(* release_gate stays true until the release, because whoever closes       *)
(* admission, denies, cancels or publishes needs release_gate first.       *)
(* Steps are of three kinds: the others' (Apart), the worker's with an     *)
(* execution registered (WorkerMove), and the few that begin or end one.   *)
(***************************************************************************)
EXTENDS ProviderApplication, SequenceTheorems, TLAPS

-----------------------------------------------------------------------------
(* The inductive invariant.                                                *)

Record == [status : {"None", "Pending", "Approved", "Running", "Completed", "Ended"},
           claimed : BOOLEAN, current : BOOLEAN]
Store == [requests : [Requests -> Record], attempts : SUBSET Requests, revoked : SUBSET Agents]
Authority == [session : {"None", "Live", "Elapsed"}, cleanup_failed : BOOLEAN,
              limits : [Requests -> {"None", "Live", "Elapsed"}], prepared : SUBSET Requests]
Reports == {"none", "not_started", "failed", "lost", "uncertain", "zero", "zero_detached",
            "nonzero"}

(* The steps of the worker, by what it is allowed to do in them.           *)
Claimless == {"idle", "enter", "claim", "claim_sync"}
Delivering == {"prepare", "resolve", "launch", "ready", "release_gate", "deliver"}
Posting == {"observe", "write", "post_gate", "post"}
Ending == {"finish", "settle", "deregister"}
Steps == Claimless \cup Delivering \cup Posting \cup Ending

WorkerRecord == [pc : Steps, r : Requests \cup {Human}, stale : BOOLEAN, elapsed : BOOLEAN,
                 report : Reports]
Controller == [pc : {"idle", "publish", "revoke", "cancel_gate", "cancel_recheck",
                     "revoke_store", "await"},
               op : {"none", "lock", "cancel", "revoke"},
               subject : Requests \cup Agents \cup {Human},
               affected : SUBSET Requests, ok : BOOLEAN]

DurableTypes == store \in Store /\ poisoned \in BOOLEAN
AuthorityTypes == auth \in Authority
MutexTypes == gate \in {Free, Worker} \cup Controllers /\ release_gate \in {Free, Worker}
FlagTypes ==
    /\ closing \in BOOLEAN /\ cleanup_uncertain \in BOOLEAN /\ published \in BOOLEAN
    /\ denied \in SUBSET Agents
WorkTypes ==
    /\ executions \in SUBSET Requests /\ cancel \in SUBSET Requests
    /\ undispatched \in SUBSET Requests /\ queue \in Seq(Requests) /\ Len(queue) <= QueueCapacity
WorkerTypes == w \in WorkerRecord /\ (w.pc # "idle" => w.r \in Requests)
ControllerTypes == ctl \in [Controllers -> Controller]
WorldTypes ==
    /\ consumer \in [Requests -> {"None", "Helper", "Running", "Exited"}]
    /\ released \in [Requests -> Nat] /\ posted \in [Requests -> Nat]
    /\ settled \in SUBSET Requests

Types ==
    /\ DurableTypes /\ AuthorityTypes /\ MutexTypes /\ FlagTypes
    /\ WorkTypes /\ WorkerTypes /\ ControllerTypes /\ WorldTypes

(* Who holds which mutex.                                                  *)
HoldsGate == {"claim", "claim_sync", "resolve", "release_gate", "deliver", "post_gate", "post"}
HoldsRelease == w.pc \in {"deliver", "post"} \/ (w.pc = "claim_sync" /\ claim_holds(w.r))
Mutexes ==
    /\ gate = Worker <=> w.pc \in HoldsGate
    /\ release_gate = Worker <=> HoldsRelease
    /\ \A c \in Controllers : gate = c <=> ctl[c].pc = "cancel_recheck"

(* What is lawful of a record.                                             *)
Lawful(q) ==
    /\ q.claimed => q.status \notin {"None", "Pending"}
    /\ q.status = "Running" => q.claimed
Records == \A r \in Requests : Lawful(store.requests[r])

(* The execution the worker is busy with, and no other, is registered.     *)
Registered ==
    executions = IF w.pc \in Delivering \cup Posting \cup Ending THEN {w.r} ELSE {}

(* The record of that execution.                                           *)
Claimed ==
    /\ w.pc = "claim_sync" =>
            store.requests[w.r].status = "Approved" /\ ~store.requests[w.r].claimed
    /\ w.pc \in Delivering \cup Posting \cup {"finish", "settle"} =>
            Executing(store.requests[w.r])
    /\ w.pc = "deregister" =>
            /\ store.requests[w.r].claimed
            /\ ~Executing(store.requests[w.r]) \/ closing \/ poisoned
    /\ w.pc \in {"write", "post_gate", "post"} => store.requests[w.r].status = "Running"
    /\ w.pc \in {"post_gate", "post"} => w.r \in store.attempts

(* What the mutexes keep true from the check to the release or the POST.   *)
Authorized ==
    /\ w.pc \in {"release_gate", "deliver"} =>
            /\ auth.session # "None" /\ auth.limits[w.r] # "None"
            /\ store.requests[w.r].current
    /\ w.pc \in {"deliver", "post"} =>
            ~closing /\ w.r \notin cancel /\ token_live(w.r) /\ ~w.stale

(* A release or a POST is in the past of its claim.                        *)
Once(r) ==
    /\ released[r] # 0 =>
            /\ store.requests[r].claimed
            /\ w.r = r => w.pc \notin {"claim_sync"} \cup Delivering
    /\ posted[r] # 0 =>
            /\ store.requests[r].claimed
            /\ w.r = r => w.pc \notin {"claim_sync"} \cup Delivering \cup Posting

(* A request that nobody can claim any more.                               *)
Spoken(r) == store.requests[r].claimed \/ Terminal(store.requests[r])
Revoked(a) == a \in denied /\ a \in store.revoked

(* What a controller has achieved by the time it waits.                    *)
Achieved(c) ==
    /\ ctl[c].pc \in {"publish", "revoke"} => ctl[c].op = "lock"
    /\ ctl[c].pc \in {"cancel_gate", "cancel_recheck"} => ctl[c].op = "cancel"
    /\ ctl[c].pc = "revoke_store" => ctl[c].op = "revoke"
    /\ ctl[c].op = "cancel" => ctl[c].subject \in Requests /\ ctl[c].affected = {ctl[c].subject}
    /\ ctl[c].op = "revoke" => ctl[c].subject \in Agents /\ ctl[c].subject \in denied
    /\ ctl[c].pc = "await" /\ ctl[c].op = "revoke" =>
            /\ \A r \in executions : OwnerOf[r] = ctl[c].subject => r \in cancel \cap ctl[c].affected
            /\ ctl[c].ok => Revoked(ctl[c].subject)
    /\ ctl[c].pc = "await" /\ ctl[c].op # "revoke" /\ ctl[c].ok =>
            \A r \in ctl[c].affected : Spoken(r)
    /\ ctl[c].pc = "await" => ctl[c].op # "none"

(* What is settled is neither under way nor can it be claimed again.       *)
Quiet(r) ==
    /\ r \notin executions
    /\ Spoken(r) \/ (OwnerOf[r] # Human /\ Revoked(OwnerOf[r]))

IInv ==
    /\ Types /\ Mutexes /\ Records /\ Registered /\ Claimed /\ Authorized
    /\ NoOrphanedClaim
    /\ \A r \in Requests : Once(r)
    /\ \A c \in Controllers : Achieved(c)
    /\ \A r \in settled : Quiet(r)

-----------------------------------------------------------------------------
(* What one step makes of one record.                                      *)

(* The changes a record may undergo whoever claimed it: none, or those of  *)
(* a request nobody claimed.                                               *)
OpenMoves ==
    {<<"None", "Pending">>, <<"None", "Ended">>, <<"Pending", "Approved">>,
     <<"Pending", "Ended">>, <<"Approved", "Ended">>}
Evolves(q, s) ==
    /\ s.claimed = q.claimed /\ Lawful(s)
    /\ \/ s.status = q.status
       \/ ~q.claimed /\ <<q.status, s.status>> \in OpenMoves

(* ... and those of the worker.                                            *)
RecordStep(q, s) ==
    \/ Evolves(q, s)
    \/ q.status = "Approved" /\ ~q.claimed /\ s.status = "Approved" /\ s.claimed
    \/ Executing(q) /\ s.claimed /\ s.status \in {"Running", "Completed", "Ended"}

(* A store that differs by evolutions only.                                *)
Sweep(s, t) ==
    /\ t \in Store
    /\ \A r \in Requests : Evolves(s.requests[r], t.requests[r])
    /\ s.attempts \subseteq t.attempts /\ s.revoked \subseteq t.revoked

AllLawful(s) == \A r \in Requests : Lawful(s.requests[r])

LEMMA EndedRecord ==
    ASSUME NEW q \in Record
    PROVE  /\ ended(q) \in Record /\ ended(q).status = "Ended"
           /\ ended(q).claimed = q.claimed /\ ended(q).current = FALSE
BY DEF ended, Record

LEMMA EndedEvolves ==
    ASSUME NEW q \in Record, Unclaimed(q)
    PROVE  Evolves(q, ended(q))
<1>1. /\ ended(q).status = "Ended" /\ ended(q).claimed = q.claimed
      /\ ~q.claimed /\ q.status \in {"Pending", "Approved"}
  BY EndedRecord DEF Unclaimed
<1> QED
  BY <1>1 DEF Evolves, Lawful, OpenMoves

LEMMA SameEvolves ==
    ASSUME NEW q \in Record, Lawful(q), NEW s \in Record, s.claimed = q.claimed,
           s.status = q.status
    PROVE  Evolves(q, s)
BY DEF Evolves, Lawful

(* A step back from a request: current is lost, nothing else.              *)
LEMMA Outdated ==
    ASSUME NEW q \in Record
    PROVE  LET s == [q EXCEPT !.current = FALSE] IN
           s \in Record /\ s.claimed = q.claimed /\ s.status = q.status
BY DEF Record

LEMMA SameSweeps ==
    ASSUME NEW s \in Store, AllLawful(s)
    PROVE  Sweep(s, s)
<1>1. \A r \in Requests : s.requests[r] \in Record
  BY DEF Store
<1> QED
  BY <1>1, SameEvolves DEF Sweep, AllLawful

LEMMA LockSweeps ==
    ASSUME NEW s \in Store, AllLawful(s)
    PROVE  /\ Sweep(s, lock_store(s))
           /\ lock_store(s).attempts = s.attempts /\ lock_store(s).revoked = s.revoked
           /\ \A r \in Requests : ~Unclaimed(lock_store(s).requests[r])
<1> DEFINE new(r) == IF Unclaimed(s.requests[r]) THEN ended(s.requests[r])
                     ELSE [s.requests[r] EXCEPT !.current = FALSE]
           t == lock_store(s)
<1>1. ASSUME NEW r \in Requests
      PROVE  new(r) \in Record /\ Evolves(s.requests[r], new(r)) /\ ~Unclaimed(new(r))
  <2>1. s.requests[r] \in Record /\ Lawful(s.requests[r])
    BY DEF Store, AllLawful
  <2>2. CASE Unclaimed(s.requests[r])
    BY <2>1, <2>2, EndedRecord, EndedEvolves DEF Unclaimed
  <2>3. CASE ~Unclaimed(s.requests[r])
    <3>1. new(r) = [s.requests[r] EXCEPT !.current = FALSE]
      BY <2>3
    <3>2. new(r) \in Record /\ new(r).claimed = s.requests[r].claimed
          /\ new(r).status = s.requests[r].status
      BY <2>1, <3>1, Outdated
    <3> HIDE DEF new
    <3>3. Evolves(s.requests[r], new(r))
      BY <2>1, <3>2, SameEvolves
    <3> QED
      BY <2>3, <3>2, <3>3 DEF Unclaimed
  <2> QED
    BY <2>2, <2>3
<1>2. t = [s EXCEPT !.requests = [r \in Requests |-> new(r)]]
  BY DEF lock_store
<1> HIDE DEF t, new
<1>3. t \in Store /\ t.attempts = s.attempts /\ t.revoked = s.revoked
      /\ t.requests = [r \in Requests |-> new(r)]
  BY <1>1, <1>2 DEF Store
<1> QED
  BY <1>1, <1>3 DEF Sweep, t

LEMMA ExpireSweeps ==
    ASSUME NEW s \in Store, AllLawful(s), NEW limits
    PROVE  /\ Sweep(s, expire_store(s, limits))
           /\ expire_store(s, limits).attempts = s.attempts
           /\ expire_store(s, limits).revoked = s.revoked
           /\ \A r \in Requests : limits[r] = "Live" =>
                    expire_store(s, limits).requests[r] = s.requests[r]
<1> DEFINE new(r) == IF Unclaimed(s.requests[r]) /\ limits[r] # "Live" THEN ended(s.requests[r])
                     ELSE s.requests[r]
           t == expire_store(s, limits)
<1>1. ASSUME NEW r \in Requests
      PROVE  new(r) \in Record /\ Evolves(s.requests[r], new(r))
  <2>1. s.requests[r] \in Record /\ Lawful(s.requests[r])
    BY DEF Store, AllLawful
  <2>2. CASE Unclaimed(s.requests[r]) /\ limits[r] # "Live"
    BY <2>1, <2>2, EndedRecord, EndedEvolves
  <2>3. CASE ~(Unclaimed(s.requests[r]) /\ limits[r] # "Live")
    BY <2>1, <2>3, SameEvolves
  <2> QED
    BY <2>2, <2>3
<1>2. t = [s EXCEPT !.requests = [r \in Requests |-> new(r)]]
  BY DEF expire_store
<1>3. \A r \in Requests : limits[r] = "Live" => new(r) = s.requests[r]
  OBVIOUS
<1> HIDE DEF t, new
<1>4. t \in Store /\ t.attempts = s.attempts /\ t.revoked = s.revoked
      /\ t.requests = [r \in Requests |-> new(r)]
  BY <1>1, <1>2 DEF Store
<1> QED
  BY <1>1, <1>3, <1>4 DEF Sweep, t

(* Evolutions compose when the first leaves a request that can still move. *)
LEMMA PutStore ==
    ASSUME store \in Store, NEW r \in Requests, NEW q \in Record
    PROVE  /\ set_request(r, q) \in Store
           /\ set_request(r, q).attempts = store.attempts
           /\ set_request(r, q).revoked = store.revoked
           /\ \A x \in Requests :
                set_request(r, q).requests[x] = IF x = r THEN q ELSE store.requests[x]
<1>1. set_request(r, q) = [store EXCEPT !.requests = [store.requests EXCEPT ![r] = q]]
  BY DEF set_request, Store
<1>2. [store.requests EXCEPT ![r] = q] \in [Requests -> Record]
  BY DEF Store
<1> QED
  BY <1>1, <1>2 DEF Store

LEMMA PutSweeps ==
    ASSUME store \in Store, AllLawful(store), NEW r \in Requests, NEW q \in Record,
           Evolves(store.requests[r], q)
    PROVE  Sweep(store, set_request(r, q)) /\ AllLawful(set_request(r, q))
<1>1. \A x \in Requests : store.requests[x] \in Record /\ Lawful(store.requests[x])
  BY DEF Store, AllLawful
<1>2. ASSUME NEW x \in Requests
      PROVE  Evolves(store.requests[x], set_request(r, q).requests[x])
             /\ Lawful(set_request(r, q).requests[x])
  <2>1. CASE x = r
    BY <2>1, PutStore DEF Evolves
  <2>2. CASE x # r
    BY <1>1, <2>2, PutStore, SameEvolves
  <2> QED
    BY <2>1, <2>2
<1> QED
  BY <1>2, PutStore DEF Sweep, AllLawful

(* The outcomes of a write.                                                *)
LEMMA Written ==
    ASSUME poisoned \in BOOLEAN, NEW new, wrote(new) \/ write_failed(new) \/ lapsed(new)
    PROVE  /\ store' = store \/ store' = new
           /\ poisoned' \in BOOLEAN /\ (poisoned => poisoned')
<1>1. CASE wrote(new)
  BY <1>1 DEF wrote
<1>2. CASE write_failed(new)
  BY <1>2 DEF write_failed, durable
<1>3. CASE lapsed(new)
  BY <1>3 DEF lapsed
<1> QED
  BY <1>1, <1>2, <1>3

(* What a handler leaves of store and session when it only ends authority. *)
Safe ==
    /\ Sweep(store, store') /\ poisoned' \in BOOLEAN /\ (poisoned => poisoned')
    /\ store'.revoked = store.revoked /\ store'.attempts = store.attempts
    /\ auth' \in Authority

LEMMA UnchangedSafe ==
    ASSUME store \in Store, AllLawful(store), poisoned \in BOOLEAN, auth \in Authority,
           UNCHANGED <<durable, auth>>
    PROVE  Safe
<1>1. store' = store /\ poisoned' = poisoned /\ auth' = auth
  BY DEF durable
<1> QED
  BY <1>1, SameSweeps DEF Safe

LEMMA ClearedType == \A failed \in BOOLEAN : cleared(failed) \in Authority
BY DEF cleared, Authority

LEMMA SweptSafe ==
    ASSUME store \in Store, AllLawful(store), poisoned \in BOOLEAN, auth' \in Authority,
           NEW new, Sweep(store, new), new.revoked = store.revoked, new.attempts = store.attempts,
           wrote(new) \/ write_failed(new) \/ lapsed(new)
    PROVE  Safe
<1>1. CASE store' = store
  BY <1>1, Written, SameSweeps DEF Safe
<1>2. CASE store' = new
  BY <1>2, Written DEF Safe
<1> QED
  BY <1>1, <1>2, Written

LEMMA RevokeSafe ==
    ASSUME store \in Store, AllLawful(store), poisoned \in BOOLEAN, revoke
    PROVE  Safe
<1>1. auth' \in Authority
  BY ClearedType DEF revoke, revoke_done, revoke_failed
<1>2. wrote(lock_store(store)) \/ write_failed(lock_store(store))
  BY DEF revoke, revoke_done, revoke_failed
<1> QED
  BY <1>1, <1>2, LockSweeps, SweptSafe

LEMMA LiveLimits ==
    ASSUME auth \in Authority
    PROVE  /\ live_limits \in [Requests -> {"None", "Live", "Elapsed"}]
           /\ [auth EXCEPT !.limits = live_limits] \in Authority
<1>1. live_limits \in [Requests -> {"None", "Live", "Elapsed"}]
  BY DEF live_limits
<1> QED
  BY <1>1 DEF Authority

LEMMA ExpireSafe ==
    ASSUME store \in Store, AllLawful(store), poisoned \in BOOLEAN, auth \in Authority,
           expire_requests
    PROVE  Safe
<1>1. auth' \in Authority
  BY LiveLimits DEF expire_requests
<1>2. wrote(expire_store(store, auth.limits)) \/ write_failed(expire_store(store, auth.limits))
  BY DEF expire_requests
<1> QED
  BY <1>1, <1>2, ExpireSweeps, SweptSafe

LEMMA RefusedSafe ==
    ASSUME store \in Store, AllLawful(store), poisoned \in BOOLEAN, auth \in Authority,
           NEW r, execution_refused(r)
    PROVE  Safe
BY RevokeSafe, ExpireSafe, UnchangedSafe DEF execution_refused, admit_refused

-----------------------------------------------------------------------------
(* What any step of a living process preserves.                            *)

LEMMA LawfulStore ==
    ASSUME IInv
    PROVE  /\ store \in Store /\ AllLawful(store) /\ poisoned \in BOOLEAN /\ auth \in Authority
           /\ \A r \in Requests : store.requests[r] \in Record /\ Lawful(store.requests[r])
<1>1. store \in Store /\ poisoned \in BOOLEAN /\ auth \in Authority
  BY DEF IInv, Types, DurableTypes, AuthorityTypes
<1>2. AllLawful(store)
  BY DEF IInv, Records, AllLawful
<1> QED
  BY <1>1, <1>2 DEF Store, AllLawful

(* A claimed record keeps its status through a sweep.                      *)
LEMMA EvolvesKeeps ==
    ASSUME NEW q, NEW s, Evolves(q, s)
    PROVE  /\ s.claimed = q.claimed
           /\ q.claimed => s.status = q.status
           /\ Executing(s) => Executing(q)
           /\ Executing(q) => Executing(s)
           /\ (q.claimed \/ Terminal(q)) => (s.claimed \/ Terminal(s))
<1>1. CASE s.status = q.status
  BY <1>1 DEF Evolves, Executing, Terminal
<1>2. CASE ~q.claimed /\ <<q.status, s.status>> \in OpenMoves
  <2>1. q.status \in {"None", "Pending", "Approved"}
    BY <1>2 DEF OpenMoves
  <2>2. ~Terminal(q)
    BY <2>1 DEF Terminal
  <2> QED
    BY <1>2, <2>2 DEF Evolves, Executing
<1> QED
  BY <1>1, <1>2 DEF Evolves

LEMMA StepKeepsSpoken ==
    ASSUME NEW q, NEW s, RecordStep(q, s)
    PROVE  (q.claimed \/ Terminal(q)) => (s.claimed \/ Terminal(s))
BY EvolvesKeeps DEF RecordStep

(* What is registered is the worker's claim, or a fresh one of an agent    *)
(* whose token is live; what is denied, revoked or cancelled stays so.     *)
Onward ==
    /\ denied \subseteq denied' /\ store.revoked \subseteq store'.revoked
    /\ \A r \in Requests : RecordStep(store.requests[r], store'.requests[r])
    /\ \A r \in executions' : r \in executions \/ (r \in Requests /\ token_live(r) /\ ~Spoken(r))
    /\ \A r \in executions : r \in cancel => r \in cancel'

LEMMA SpokenKept ==
    ASSUME Onward, NEW r \in Requests, Spoken(r)
    PROVE  Spoken(r)'
<1>1. RecordStep(store.requests[r], store'.requests[r])
  BY DEF Onward
<1> QED
  BY <1>1, StepKeepsSpoken DEF Spoken

LEMMA RevokedKept ==
    ASSUME Onward, NEW a, Revoked(a)
    PROVE  Revoked(a)'
BY DEF Onward, Revoked

LEMMA QuietKept ==
    ASSUME Onward, NEW r \in Requests, Quiet(r)
    PROVE  Quiet(r)'
<1>1. r \notin executions'
  <2> SUFFICES ASSUME r \in executions'
               PROVE  FALSE
    OBVIOUS
  <2>1. token_live(r) /\ ~Spoken(r)
    BY DEF Onward, Quiet
  <2> QED
    BY <2>1 DEF Quiet, Revoked, token_live
<1>2. CASE Spoken(r)
  BY <1>1, <1>2, SpokenKept DEF Quiet
<1>3. CASE OwnerOf[r] # Human /\ Revoked(OwnerOf[r])
  BY <1>1, <1>3, RevokedKept DEF Quiet
<1> QED
  BY <1>2, <1>3 DEF Quiet

LEMMA AchievedKept ==
    ASSUME Onward, Types, NEW c \in Controllers, Achieved(c), ctl'[c] = ctl[c]
    PROVE  Achieved(c)'
<1> DEFINE q == ctl[c]
<1>1. q \in Controller
  BY DEF Types, ControllerTypes
<1>2. denied \subseteq denied'
  BY DEF Onward
<1>3. ASSUME q.pc = "await", q.op = "revoke", NEW r \in executions', OwnerOf[r] = q.subject
      PROVE  r \in cancel' \cap q.affected
  <2>1. q.subject \in Agents /\ q.subject \in denied
    BY <1>3 DEF Achieved
  <2>2. ~token_live(r)
    BY <1>3, <2>1, OwnerAssumption DEF token_live
  <2>3. r \in executions
    BY <1>3, <2>2 DEF Onward
  <2>4. r \in cancel \cap q.affected
    BY <1>3, <2>3 DEF Achieved
  <2> QED
    BY <2>3, <2>4 DEF Onward
<1>4. ASSUME q.pc = "await", q.op = "revoke", q.ok
      PROVE  Revoked(q.subject)'
  BY <1>4, RevokedKept DEF Achieved
<1>5. ASSUME q.pc = "await", q.op # "revoke", q.ok, NEW r \in q.affected
      PROVE  Spoken(r)'
  <2>1. Spoken(r) /\ r \in Requests
    BY <1>1, <1>5 DEF Achieved, Controller
  <2> QED
    BY <2>1, SpokenKept
<1>6. /\ q.pc \in {"publish", "revoke"} => q.op = "lock"
      /\ q.pc \in {"cancel_gate", "cancel_recheck"} => q.op = "cancel"
      /\ q.pc = "revoke_store" => q.op = "revoke"
      /\ q.op = "cancel" => q.subject \in Requests /\ q.affected = {q.subject}
      /\ q.op = "revoke" => q.subject \in Agents /\ q.subject \in denied
      /\ q.pc = "await" => q.op # "none"
  BY DEF Achieved
<1>7. ctl'[c] = q
  OBVIOUS
<1> QED
  BY <1>2, <1>3, <1>4, <1>5, <1>6, <1>7 DEF Achieved

-----------------------------------------------------------------------------
(* The steps of everybody but the worker.                                  *)

(* What a step is allowed to do, as the theorems below need it.            *)
Lawfully ==
    /\ \A r \in Requests : RecordStep(store.requests[r], store'.requests[r])
    /\ released' = released \/ deliver
    /\ posted' = posted \/ post

LEMMA Apart ==
    ASSUME IInv, Types', Mutexes',
           w'.pc = w.pc, w'.r = w.r, executions' = executions,
           released' = released, posted' = posted,
           Sweep(store, store'), store' = store \/ w.pc \notin HoldsGate,
           w.pc \in {"release_gate", "deliver"} =>
                auth'.session # "None" /\ auth'.limits[w.r] # "None",
           w.pc \in {"deliver", "post"} =>
                closing' = closing /\ cancel' = cancel /\ denied' = denied /\ w'.stale = w.stale,
           closing => closing', poisoned => poisoned',
           cancel \subseteq cancel', denied \subseteq denied',
           \A c \in Controllers : Achieved(c)',
           \A r \in settled' : Quiet(r)'
    PROVE  IInv' /\ Lawfully
<1>1. ASSUME NEW r \in Requests
      PROVE  /\ Evolves(store.requests[r], store'.requests[r])
             /\ store'.requests[r].claimed = store.requests[r].claimed
             /\ store.requests[r].claimed =>
                    store'.requests[r].status = store.requests[r].status
             /\ Executing(store'.requests[r]) <=> Executing(store.requests[r])
             /\ Lawful(store'.requests[r])
  <2>1. Evolves(store.requests[r], store'.requests[r])
    BY DEF Sweep
  <2> QED
    BY <2>1, EvolvesKeeps DEF Evolves
<1>2. Records'
  BY <1>1 DEF Records
<1>3. Registered'
  BY DEF IInv, Registered
<1>4. Claimed'
  <2>1. w.pc # "idle" => w.r \in Requests
    BY DEF IInv, Types, WorkerTypes
  <2>2. store.attempts \subseteq store'.attempts
    BY DEF Sweep
  <2>3. w.pc = "claim_sync" => store' = store
    BY DEF HoldsGate
  <2>4. Claimed
    BY DEF IInv
  <2>5. CASE w.pc = "idle"
    BY <2>5 DEF Claimed, Delivering, Posting
  <2>6. CASE w.pc # "idle"
    <3> DEFINE q == store.requests[w.r]
               s == store'.requests[w.r]
    <3>1. /\ s.claimed = q.claimed /\ (q.claimed => s.status = q.status)
          /\ Executing(s) <=> Executing(q)
      BY <1>1, <2>1, <2>6
    <3>2. w.pc = "claim_sync" => s.status = "Approved" /\ ~s.claimed
      BY <2>3, <2>4 DEF Claimed
    <3>3. w.pc \in Delivering \cup Posting \cup {"finish", "settle"} => Executing(s)
      BY <3>1, <2>4 DEF Claimed
    <3>4. w.pc = "deregister" => s.claimed /\ (~Executing(s) \/ closing' \/ poisoned')
      BY <3>1, <2>4 DEF Claimed
    <3>5. w.pc \in {"write", "post_gate", "post"} => s.status = "Running"
      <4>1. w.pc \in {"write", "post_gate", "post"} => Executing(q) /\ q.status = "Running"
        BY <2>4 DEF Claimed, Posting
      <4> QED
        BY <3>1, <4>1 DEF Executing
    <3>6. w.pc \in {"post_gate", "post"} => w.r \in store'.attempts
      BY <2>2, <2>4 DEF Claimed
    <3> QED
      BY <3>2, <3>3, <3>4, <3>5, <3>6 DEF Claimed
  <2> QED
    BY <2>5, <2>6
<1>5. Authorized'
  <2>1. Authorized
    BY DEF IInv
  <2>2. w.pc \in {"release_gate", "deliver"} => store' = store
    BY DEF HoldsGate
  <2> QED
    BY <2>1, <2>2 DEF Authorized, token_live
<1>6. NoOrphanedClaim'
  BY <1>1 DEF IInv, NoOrphanedClaim
<1>7. \A r \in Requests : Once(r)'
  BY <1>1 DEF IInv, Once
<1>8. Lawfully
  BY <1>1 DEF Lawfully, RecordStep
<1> QED
  BY <1>2, <1>3, <1>4, <1>5, <1>6, <1>7, <1>8 DEF IInv

-----------------------------------------------------------------------------
(* The desk.                                                               *)

LEMMA Expanded ==
    ASSUME desk
    PROVE  /\ gate' = gate /\ release_gate' = release_gate
           /\ cleanup_uncertain' = cleanup_uncertain /\ denied' = denied
           /\ executions' = executions /\ cancel' = cancel /\ w' = w /\ ctl' = ctl
           /\ consumer' = consumer /\ released' = released /\ posted' = posted
           /\ settled' = settled
BY DEF desk, world

LEMMA SameOnward ==
    ASSUME IInv, Sweep(store, store'), denied \subseteq denied', executions' = executions,
           cancel \subseteq cancel'
    PROVE  Onward
BY DEF Onward, Sweep, RecordStep

(* Who holds the gate or release_gate is alone with what it guards.        *)
LEMMA GateAlone ==
    ASSUME IInv
    PROVE  /\ gate # Worker => w.pc \notin HoldsGate
           /\ release_gate # Worker => w.pc \notin {"deliver", "post"}
BY DEF IInv, Mutexes, HoldsRelease

LEMMA FreeGates ==
    ASSUME NEW c \in Controllers
    PROVE  Free # Worker /\ c # Worker /\ c # Free
BY ControllerAssumption DEF Free, Worker

LEMMA FreeIsNotWorker == Free # Worker
BY DEF Free, Worker

LEMMA DeskMove ==
    ASSUME IInv, desk, Sweep(store, store'), poisoned' \in BOOLEAN, poisoned => poisoned',
           auth' \in Authority, gate = Free \/ (store' = store /\ auth' = auth),
           closing' \in BOOLEAN, closing => closing', closing' = closing \/ release_gate = Free,
           published' \in BOOLEAN,
           undispatched' \in SUBSET Requests, queue' \in Seq(Requests),
           Len(queue') <= QueueCapacity
    PROVE  IInv' /\ Lawfully
<1>1. Types'
  <2>1. DurableTypes' /\ AuthorityTypes'
    BY DEF DurableTypes, AuthorityTypes, Sweep
  <2>2. MutexTypes' /\ ControllerTypes' /\ WorldTypes'
    BY Expanded DEF IInv, Types, MutexTypes, ControllerTypes, WorldTypes
  <2>3. FlagTypes'
    BY Expanded DEF IInv, Types, FlagTypes
  <2>4. WorkTypes'
    BY Expanded DEF IInv, Types, WorkTypes
  <2>5. WorkerTypes'
    BY Expanded DEF IInv, Types, WorkerTypes
  <2> QED
    BY <2>1, <2>2, <2>3, <2>4, <2>5 DEF Types
<1>2. Mutexes'
  BY Expanded DEF IInv, Mutexes, HoldsRelease, claim_holds
<1>3. Onward
  BY Expanded, SameOnward
<1>4. \A c \in Controllers : Achieved(c)'
  <2> SUFFICES ASSUME NEW c \in Controllers
               PROVE  Achieved(c)'
    OBVIOUS
  <2>1. Types /\ Achieved(c) /\ ctl'[c] = ctl[c]
    BY Expanded DEF IInv
  <2> QED
    BY <1>3, <2>1, AchievedKept
<1>5. \A r \in settled' : Quiet(r)'
  <2> SUFFICES ASSUME NEW r \in settled
               PROVE  Quiet(r)'
    BY Expanded
  <2>1. r \in Requests /\ Quiet(r)
    BY DEF IInv, Types, WorldTypes
  <2> QED
    BY <1>3, <2>1, QuietKept
<1>6. store' = store \/ w.pc \notin HoldsGate
  BY GateAlone, FreeIsNotWorker
<1>7. w.pc \in {"release_gate", "deliver"} =>
                auth'.session # "None" /\ auth'.limits[w.r] # "None"
  <2>1. CASE gate = Free
    BY <2>1, GateAlone, FreeIsNotWorker DEF HoldsGate
  <2>2. CASE auth' = auth
    BY <2>2 DEF IInv, Authorized
  <2> QED
    BY <2>1, <2>2
<1>8. w.pc \in {"deliver", "post"} =>
                closing' = closing /\ cancel' = cancel /\ denied' = denied /\ w'.stale = w.stale
  BY Expanded, GateAlone, FreeIsNotWorker
<1>9. /\ w'.pc = w.pc /\ w'.r = w.r /\ executions' = executions
      /\ released' = released /\ posted' = posted
      /\ cancel \subseteq cancel' /\ denied \subseteq denied'
  BY Expanded
<1> QED
  BY <1>1, <1>2, <1>4, <1>5, <1>6, <1>7, <1>8, <1>9, Apart

LEMMA OldTypes ==
    ASSUME IInv
    PROVE  /\ closing \in BOOLEAN /\ published \in BOOLEAN /\ cleanup_uncertain \in BOOLEAN
           /\ undispatched \in SUBSET Requests /\ queue \in Seq(Requests)
           /\ Len(queue) <= QueueCapacity /\ executions \in SUBSET Requests
           /\ cancel \in SUBSET Requests /\ denied \in SUBSET Agents
BY DEF IInv, Types, FlagTypes, WorkTypes

LEMMA Authenticate ==
    ASSUME IInv, authenticate
    PROVE  IInv' /\ Lawfully
<1>1. Safe
  <2>1. CASE wrote(lock_store(store)) /\ auth' = [cleared(FALSE) EXCEPT !.session = "Live"]
    <3>1. auth' \in Authority
      BY <2>1 DEF cleared, Authority
    <3> QED
      BY <2>1, <3>1, LawfulStore, LockSweeps, SweptSafe
  <2>2. CASE revoke
    BY <2>2, LawfulStore, RevokeSafe
  <2> QED
    BY <2>1, <2>2 DEF authenticate
<1>2. published' \in BOOLEAN /\ desk /\ gate = Free
      /\ closing' = closing /\ undispatched' = undispatched /\ queue' = queue
  BY OldTypes DEF authenticate
<1> QED
  BY <1>1, <1>2, OldTypes, DeskMove DEF Safe

LEMMA Poll ==
    ASSUME IInv, poll
    PROVE  IInv' /\ Lawfully
<1>1. Safe
  <2>1. revoke \/ expire_requests
    BY DEF poll
  <2> QED
    BY <2>1, LawfulStore, RevokeSafe, ExpireSafe
<1>2. desk /\ gate = Free /\ closing' = closing /\ published' = published
      /\ undispatched' = undispatched /\ queue' = queue
  BY DEF poll
<1> QED
  BY <1>1, <1>2, OldTypes, DeskMove DEF Safe

LEMMA PrepareApproval ==
    ASSUME IInv, NEW r \in Requests, prepare_approval(r)
    PROVE  IInv' /\ Lawfully
<1>1. auth' = [auth EXCEPT !.prepared = auth.prepared \cup {r}, !.limits = live_limits]
      /\ wrote(expire_store(store, auth.limits))
  BY DEF prepare_approval
<1>2. auth' \in Authority
  BY <1>1, LawfulStore, LiveLimits DEF Authority
<1>3. Safe
  BY <1>1, <1>2, LawfulStore, ExpireSweeps, SweptSafe
<1>4. desk /\ gate = Free /\ closing' = closing /\ published' = published
      /\ undispatched' = undispatched /\ queue' = queue
  BY DEF prepare_approval
<1> QED
  BY <1>3, <1>4, OldTypes, DeskMove DEF Safe

(* Two evolutions in a row, the first of one record.                       *)
LEMMA PutThenExpire ==
    ASSUME IInv, NEW r \in Requests, NEW q \in Record, Evolves(store.requests[r], q),
           NEW limits, limits[r] = "Live" \/ Terminal(q)
    PROVE  LET new == expire_store(set_request(r, q), limits) IN
           /\ Sweep(store, new) /\ new.attempts = store.attempts /\ new.revoked = store.revoked
           /\ AllLawful(new) /\ new \in Store /\ new.requests[r] = q
<1> DEFINE t == set_request(r, q)
           new == expire_store(t, limits)
<1>1. /\ t \in Store /\ AllLawful(t) /\ t.requests[r] = q
      /\ \A x \in Requests : x # r => t.requests[x] = store.requests[x]
      /\ t.attempts = store.attempts /\ t.revoked = store.revoked
      /\ Sweep(store, t)
  BY LawfulStore, PutStore, PutSweeps
<1> HIDE DEF t
<1>2. /\ Sweep(t, new) /\ new.attempts = t.attempts /\ new.revoked = t.revoked
      /\ new \in Store
  BY <1>1, ExpireSweeps DEF Sweep
<1>3. new.requests[r] = q
  <2>1. new.requests = [x \in Requests |->
            IF Unclaimed(t.requests[x]) /\ limits[x] # "Live" THEN ended(t.requests[x])
            ELSE t.requests[x]]
    BY <1>1 DEF expire_store, Store
  <2>2. ~(Unclaimed(q) /\ limits[r] # "Live")
    BY DEF Unclaimed, Terminal
  <2> HIDE DEF new
  <2> QED
    BY <1>1, <2>1, <2>2
<1> HIDE DEF new
<1>4. ASSUME NEW x \in Requests
      PROVE  Evolves(store.requests[x], new.requests[x]) /\ Lawful(new.requests[x])
  <2>1. CASE x = r
    BY <1>3, <2>1 DEF Evolves
  <2>2. CASE x # r
    BY <1>1, <1>2, <2>2 DEF Sweep, Evolves
  <2> QED
    BY <2>1, <2>2
<1>5. Sweep(store, new) /\ AllLawful(new)
  BY <1>1, <1>2, <1>4 DEF Sweep, AllLawful
<1> QED
  BY <1>1, <1>2, <1>3, <1>5 DEF new, t

LEMMA Dispatch ==
    ASSUME IInv, NEW r \in Requests, dispatch(r)
    PROVE  IInv' /\ Lawfully
<1>1. /\ desk /\ store' = store /\ poisoned' = poisoned /\ auth' = auth
      /\ published' = published /\ undispatched' = undispatched \ {r}
  BY DEF dispatch, durable
<1>2. /\ queue' \in Seq(Requests) /\ Len(queue') <= QueueCapacity
      /\ closing' \in BOOLEAN /\ (closing => closing')
      /\ closing' = closing \/ release_gate = Free
  <2>1. CASE Len(queue) < QueueCapacity /\ queue' = Append(queue, r) /\ UNCHANGED closing
    BY <2>1, OldTypes, CapacityAssumption
  <2>2. CASE close_admission /\ UNCHANGED queue
    BY <2>2, OldTypes DEF close_admission
  <2> QED
    BY <2>1, <2>2 DEF dispatch
<1>3. Sweep(store, store')
  BY <1>1, LawfulStore, SameSweeps
<1>4. undispatched' \in SUBSET Requests
  BY <1>1, OldTypes
<1> QED
  BY <1>1, <1>2, <1>3, <1>4, LawfulStore, OldTypes, DeskMove

LEMMA Submit ==
    ASSUME IInv, NEW r \in Requests, submit(r)
    PROVE  IInv' /\ Lawfully
<1> DEFINE q == [status |-> "Pending", claimed |-> FALSE, current |-> TRUE]
           limits == [auth.limits EXCEPT ![r] = "Live"]
           new == expire_store(set_request(r, q), limits)
           unopened == [new EXCEPT !.requests[r] = ended(@)]
           recorded == auth' = [auth EXCEPT !.limits = [live_limits EXCEPT ![r] = "Live"]]
<1>1. store.requests[r].status = "None" /\ ~store.requests[r].claimed
  BY LawfulStore DEF submit, Lawful
<1>2. q \in Record /\ Evolves(store.requests[r], q) /\ limits[r] = "Live"
  <2>1. q \in Record /\ Lawful(q)
    BY DEF Record, Lawful
  <2>2. limits[r] = "Live"
    BY LawfulStore DEF Authority
  <2>3. store.requests[r].claimed = FALSE
    BY <1>1, LawfulStore DEF Record
  <2> QED
    BY <1>1, <2>1, <2>2, <2>3 DEF Evolves, OpenMoves
<1>3. /\ Sweep(store, new) /\ new.attempts = store.attempts /\ new.revoked = store.revoked
      /\ AllLawful(new) /\ new \in Store /\ new.requests[r] = q
  <2> HIDE DEF q, limits
  <2> QED
    BY <1>2, PutThenExpire
<1>4. /\ \/ (wrote(new) \/ wrote(unopened)) /\ recorded /\ UNCHANGED closing
         \/ (write_failed(new) \/ lapsed(new)) /\ close_admission /\ UNCHANGED auth
         \/ /\ Faults /\ ~poisoned /\ store' \in {new, unopened} /\ poisoned' = TRUE
            /\ recorded /\ closing' = (OwnerOf[r] # Human)
      /\ desk /\ gate = Free /\ published' = published /\ undispatched' = undispatched
      /\ queue' = queue /\ ~closing /\ (OwnerOf[r] # Human => release_gate = Free)
  BY DEF submit, admitted
<1>5. recorded => auth' \in Authority
  BY LawfulStore, LiveLimits DEF Authority
<1> HIDE DEF new, recorded
<1>6. Sweep(store, unopened)
  <2>1. /\ unopened = [new EXCEPT !.requests = [new.requests EXCEPT ![r] = ended(q)]]
    BY <1>3 DEF Store
  <2>2. ended(q) \in Record /\ Evolves(store.requests[r], ended(q))
    <3>1. /\ ended(q) \in Record /\ ended(q).status = "Ended" /\ ended(q).claimed = FALSE
      BY <1>2, EndedRecord
    <3>2. store.requests[r].claimed = FALSE
      BY <1>1, LawfulStore DEF Record
    <3> QED
      BY <1>1, <3>1, <3>2 DEF Evolves, OpenMoves, Lawful
  <2> HIDE DEF unopened, q
  <2>3. /\ unopened \in Store /\ unopened.attempts = new.attempts
        /\ unopened.revoked = new.revoked
        /\ unopened.requests = [new.requests EXCEPT ![r] = ended(q)]
    BY <1>3, <2>1, <2>2 DEF Store
  <2>4. \A x \in Requests : unopened.requests[x] =
            IF x = r THEN ended(q) ELSE new.requests[x]
    BY <1>3, <2>3 DEF Store
  <2> QED
    BY <1>3, <2>2, <2>3, <2>4 DEF Sweep
<1> HIDE DEF unopened
<1>7. CASE (wrote(new) \/ wrote(unopened)) /\ recorded /\ UNCHANGED closing
  <2>1. store' \in {new, unopened} /\ poisoned' = poisoned
    BY <1>7 DEF wrote
  <2> QED
    BY <1>3, <1>4, <1>5, <1>6, <1>7, <2>1, LawfulStore, OldTypes, DeskMove
<1>8. CASE (write_failed(new) \/ lapsed(new)) /\ close_admission /\ UNCHANGED auth
  <2>1. store' \in {store, new} /\ poisoned' \in BOOLEAN /\ (poisoned => poisoned')
    BY <1>8, Written, LawfulStore
  <2>2. Sweep(store, store')
    BY <1>3, <2>1, LawfulStore, SameSweeps
  <2>3. closing' \in BOOLEAN /\ (closing => closing') /\ release_gate = Free
        /\ auth' \in Authority
    BY <1>8, LawfulStore DEF close_admission
  <2> QED
    BY <1>4, <2>1, <2>2, <2>3, OldTypes, DeskMove
<1>9. CASE /\ Faults /\ ~poisoned /\ store' \in {new, unopened} /\ poisoned' = TRUE
           /\ recorded /\ closing' = (OwnerOf[r] # Human)
  <2>1. Sweep(store, store') /\ poisoned' \in BOOLEAN /\ (poisoned => poisoned')
    BY <1>3, <1>6, <1>9
  <2>2. closing' \in BOOLEAN /\ (closing => closing') /\ auth' \in Authority
    BY <1>4, <1>5, <1>9
  <2>3. closing' = closing \/ release_gate = Free
    BY <1>4, <1>9, OldTypes
  <2> QED
    BY <1>4, <2>1, <2>2, <2>3, OldTypes, DeskMove
<1> QED
  BY <1>4, <1>7, <1>8, <1>9

LEMMA CommitDecision ==
    ASSUME IInv, NEW r \in Requests, NEW next, commit_decision(r, next)
    PROVE  IInv' /\ Lawfully
<1> DEFINE p == store.requests[r]
           q == IF next = "Approved" THEN [p EXCEPT !.status = "Approved"] ELSE ended(p)
           new == expire_store(set_request(r, q), auth.limits)
<1>1. p.status = "Pending" /\ p.claimed = FALSE /\ p \in Record
  BY LawfulStore DEF commit_decision, Lawful, Record
<1>2. q \in Record /\ Evolves(p, q)
  <2> HIDE DEF p
  <2>1. CASE next = "Approved"
    <3>1. q \in Record /\ q.status = "Approved" /\ q.claimed = FALSE
      BY <1>1, <2>1 DEF Record
    <3> QED
      BY <1>1, <3>1 DEF Evolves, OpenMoves, Lawful
  <2>2. CASE next # "Approved"
    BY <1>1, <2>2, EndedRecord, EndedEvolves DEF Unclaimed
  <2> QED
    BY <2>1, <2>2
<1>3. auth.limits[r] = "Live"
  BY DEF commit_decision
<1>4. /\ Sweep(store, new) /\ new.attempts = store.attempts /\ new.revoked = store.revoked
  <2> HIDE DEF q
  <2> QED
    BY <1>2, <1>3, PutThenExpire
<1>5. /\ \/ /\ wrote(new)
            /\ auth' = [auth EXCEPT !.prepared = auth.prepared \ {r}, !.limits = live_limits]
            /\ undispatched' = IF next = "Approved" THEN undispatched \cup {r}
                               ELSE undispatched
            /\ UNCHANGED closing
         \/ /\ \/ (write_failed(new) \/ lapsed(new)) /\ poisoned' /\ auth' = cleared(TRUE)
               \/ Faults /\ ~poisoned /\ revoke
            /\ close_admission /\ UNCHANGED undispatched
      /\ desk /\ gate = Free /\ published' = published /\ queue' = queue
  BY DEF commit_decision
<1> HIDE DEF new
<1>6. CASE /\ wrote(new)
           /\ auth' = [auth EXCEPT !.prepared = auth.prepared \ {r}, !.limits = live_limits]
           /\ undispatched' = IF next = "Approved" THEN undispatched \cup {r}
                               ELSE undispatched
           /\ UNCHANGED closing
  <2>1. auth' \in Authority
    BY <1>6, LawfulStore, LiveLimits DEF Authority
  <2>2. Safe
    BY <1>4, <1>6, <2>1, LawfulStore, SweptSafe
  <2>3. undispatched' \in SUBSET Requests
    BY <1>6, OldTypes
  <2> QED
    BY <1>5, <1>6, <2>2, <2>3, OldTypes, DeskMove DEF Safe
<1>7. CASE /\ \/ (write_failed(new) \/ lapsed(new)) /\ poisoned' /\ auth' = cleared(TRUE)
              \/ Faults /\ ~poisoned /\ revoke
           /\ close_admission /\ UNCHANGED undispatched
  <2>1. Safe
    <3>1. CASE (write_failed(new) \/ lapsed(new)) /\ auth' = cleared(TRUE)
      BY <1>4, <3>1, LawfulStore, ClearedType, SweptSafe
    <3>2. CASE revoke
      BY <3>2, LawfulStore, RevokeSafe
    <3> QED
      BY <1>7, <3>1, <3>2
  <2>2. closing' = TRUE /\ release_gate = Free /\ undispatched' = undispatched
    BY <1>7 DEF close_admission
  <2> QED
    BY <1>5, <2>1, <2>2, OldTypes, DeskMove DEF Safe
<1> QED
  BY <1>5, <1>6, <1>7

-----------------------------------------------------------------------------
(* The controllers.                                                        *)

LEMMA ControllerMove ==
    ASSUME IInv, NEW c \in Controllers, NEW q \in Controller, ctl' = [ctl EXCEPT ![c] = q],
           steady, executions' = executions, release_gate' = release_gate,
           \/ gate' = gate /\ (q.pc = "cancel_recheck" <=> ctl[c].pc = "cancel_recheck")
           \/ gate = Free /\ gate' = c /\ q.pc = "cancel_recheck"
           \/ gate = c /\ gate' = Free /\ q.pc # "cancel_recheck",
           Sweep(store, store'), poisoned' \in BOOLEAN, poisoned => poisoned',
           auth' \in Authority, gate # Worker \/ (store' = store /\ auth' = auth),
           w.pc \in {"deliver", "post"} =>
                closing' = closing /\ cancel' = cancel /\ denied' = denied /\ w'.stale = w.stale,
           w' = w \/ w' = [w EXCEPT !.stale = w.pc # "idle"],
           closing' \in BOOLEAN, closing => closing', cancel' \in SUBSET Requests,
           cancel \subseteq cancel', denied' \in SUBSET Agents, denied \subseteq denied',
           published' \in BOOLEAN, cleanup_uncertain' = cleanup_uncertain,
           settled' \in SUBSET Requests, Achieved(c)',
           \A r \in settled' : r \in settled \/ Quiet(r)'
    PROVE  IInv' /\ Lawfully
<1>1. /\ undispatched' = undispatched /\ queue' = queue /\ consumer' = consumer
      /\ released' = released /\ posted' = posted
  BY DEF steady
<1>2. w \in WorkerRecord /\ (w.pc # "idle" => w.r \in Requests)
      /\ ctl \in [Controllers -> Controller]
  BY DEF IInv, Types, WorkerTypes, ControllerTypes
<1>3. w' \in WorkerRecord /\ w'.pc = w.pc /\ w'.r = w.r
  <2>1. CASE w' = w
    BY <1>2, <2>1
  <2>2. CASE w' = [w EXCEPT !.stale = w.pc # "idle"]
    BY <1>2, <2>2 DEF WorkerRecord
  <2> QED
    BY <2>1, <2>2
<1>4. ctl' \in [Controllers -> Controller] /\ ctl'[c] = q
      /\ \A d \in Controllers : d # c => ctl'[d] = ctl[d]
  BY <1>2
<1>5. Types'
  <2>1. DurableTypes' /\ AuthorityTypes'
    BY DEF DurableTypes, AuthorityTypes, Sweep
  <2>2. MutexTypes'
    BY DEF IInv, Types, MutexTypes
  <2>3. FlagTypes'
    BY OldTypes DEF FlagTypes
  <2>4. WorkTypes'
    BY <1>1, OldTypes DEF WorkTypes
  <2>5. WorkerTypes' /\ ControllerTypes'
    BY <1>2, <1>3, <1>4 DEF WorkerTypes, ControllerTypes
  <2>6. WorldTypes'
    BY <1>1 DEF IInv, Types, WorldTypes
  <2> QED
    BY <2>1, <2>2, <2>3, <2>4, <2>5, <2>6 DEF Types
<1>6. Mutexes'
  <2>1. /\ gate = Worker <=> w.pc \in HoldsGate
        /\ release_gate = Worker <=> HoldsRelease
        /\ \A d \in Controllers : gate = d <=> ctl[d].pc = "cancel_recheck"
    BY DEF IInv, Mutexes
  <2>2. (gate' = Worker) <=> (w'.pc \in HoldsGate)
    BY <1>3, <2>1, FreeGates
  <2>3. (release_gate' = Worker) <=> HoldsRelease'
    BY <1>3, <2>1 DEF HoldsRelease, claim_holds
  <2>4. ASSUME NEW d \in Controllers
        PROVE  (gate' = d) <=> (ctl'[d].pc = "cancel_recheck")
    <3>1. CASE d = c
      BY <1>4, <2>1, <3>1, FreeGates
    <3>2. CASE d # c
      BY <1>4, <2>1, <3>2, FreeGates
    <3> QED
      BY <3>1, <3>2
  <2> QED
    BY <2>2, <2>3, <2>4 DEF Mutexes
<1>7. Onward
  BY SameOnward
<1>8. ASSUME NEW d \in Controllers
      PROVE  Achieved(d)'
  <2>1. CASE d = c
    BY <2>1
  <2>2. CASE d # c
    <3>1. Types /\ Achieved(d)
      BY DEF IInv
    <3> QED
      BY <1>4, <1>7, <2>2, <3>1, AchievedKept
  <2> QED
    BY <2>1, <2>2
<1>9. ASSUME NEW r \in settled'
      PROVE  Quiet(r)'
  <2>1. CASE r \in settled
    <3>1. r \in Requests /\ Quiet(r)
      BY <2>1 DEF IInv, Types, WorldTypes
    <3> QED
      BY <1>7, <3>1, QuietKept
  <2> QED
    BY <1>9, <2>1
<1>10. store' = store \/ w.pc \notin HoldsGate
  BY GateAlone
<1>11. w.pc \in {"release_gate", "deliver"} =>
                auth'.session # "None" /\ auth'.limits[w.r] # "None"
  <2>1. CASE gate # Worker
    BY <2>1, GateAlone DEF HoldsGate
  <2>2. CASE auth' = auth
    BY <2>2 DEF IInv, Authorized
  <2> QED
    BY <2>1, <2>2
<1> QED
  BY <1>1, <1>3, <1>5, <1>6, <1>8, <1>9, <1>10, <1>11, Apart

LEMMA IdleController ==
    /\ IdleCtl \in Controller /\ IdleCtl.pc = "idle" /\ IdleCtl.op = "none"
    /\ IdleCtl.subject = Human /\ IdleCtl.affected = {} /\ IdleCtl.ok = TRUE
BY DEF IdleCtl, Controller

(* A controller that is idle has nothing to have achieved.                 *)
LEMMA IdleAchieved ==
    ASSUME NEW c \in Controllers, ctl'[c] = IdleCtl
    PROVE  Achieved(c)'
BY IdleController DEF Achieved

(* Admission, once closed, stays closed.                                   *)
LEMMA ClosingGrows ==
    ASSUME IInv, closing' = closing \/ closing' = TRUE
    PROVE  closing' \in BOOLEAN /\ (closing => closing')
<1>1. closing \in BOOLEAN
  BY OldTypes
<1>2. CASE closing' = closing
  BY <1>1, <1>2
<1>3. CASE closing' = TRUE
  BY <1>3
<1> QED
  BY <1>2, <1>3

(* A step that changes neither the store nor the session.                  *)
LEMMA NothingWritten ==
    ASSUME IInv, store' = store, poisoned' = poisoned, auth' = auth
    PROVE  /\ Sweep(store, store') /\ poisoned' \in BOOLEAN /\ (poisoned => poisoned')
           /\ auth' \in Authority
BY LawfulStore, SameSweeps

LEMMA CallLock ==
    ASSUME IInv, NEW c \in Controllers, call_lock(c) \/ call_shutdown(c)
    PROVE  IInv' /\ Lawfully
<1> DEFINE q == [IdleCtl EXCEPT !.pc = "publish", !.op = "lock"]
<1>1. /\ q \in Controller /\ q.pc = "publish" /\ q.op = "lock"
  BY DEF IdleCtl, Controller
<1>2. /\ ctl' = [ctl EXCEPT ![c] = q] /\ ctl[c].pc = "idle" /\ steady
      /\ store' = store /\ poisoned' = poisoned /\ auth' = auth
      /\ gate' = gate /\ release_gate' = release_gate
      /\ cleanup_uncertain' = cleanup_uncertain /\ published' = published /\ denied' = denied
      /\ executions' = executions /\ cancel' = cancel /\ w' = w /\ settled' = settled
  BY DEF call_lock, call_shutdown, durable, flags
<1>3. closing' = closing \/ (closing' = TRUE /\ release_gate = Free)
  BY DEF call_lock, call_shutdown, flags, close_admission
<1>4. w.pc \in {"deliver", "post"} => closing' = closing
  BY <1>3, GateAlone, FreeIsNotWorker
<1>5. ctl'[c] = q
  BY <1>2 DEF IInv, Types, ControllerTypes
<1> HIDE DEF q
<1>6. Achieved(c)'
  BY <1>1, <1>5 DEF Achieved
<1>7. settled' \in SUBSET Requests /\ closing' \in BOOLEAN /\ (closing => closing')
  <2>1. settled' \in SUBSET Requests
    BY <1>2 DEF IInv, Types, WorldTypes
  <2> QED
    BY <1>3, <2>1, ClosingGrows
<1>8. /\ Sweep(store, store') /\ poisoned' \in BOOLEAN /\ (poisoned => poisoned')
      /\ auth' \in Authority
  BY <1>2, NothingWritten
<1> QED
  BY <1>1, <1>2, <1>4, <1>6, <1>7, <1>8, OldTypes, ControllerMove

LEMMA PublishLock ==
    ASSUME IInv, NEW c \in Controllers, publish_lock(c)
    PROVE  IInv' /\ Lawfully
<1> DEFINE q == [ctl[c] EXCEPT !.pc = "revoke"]
<1>1. ctl \in [Controllers -> Controller] /\ ctl[c] \in Controller
  BY DEF IInv, Types, ControllerTypes
<1>2. /\ ctl' = [ctl EXCEPT ![c].pc = "revoke"] /\ ctl[c].pc = "publish" /\ steady
      /\ store' = store /\ poisoned' = poisoned /\ auth' = auth
      /\ gate' = gate /\ release_gate' = release_gate /\ release_gate = Free
      /\ cleanup_uncertain' = cleanup_uncertain /\ published' = TRUE /\ denied' = denied
      /\ executions' = executions /\ cancel' = cancel /\ settled' = settled
      /\ closing' = closing /\ w' = [w EXCEPT !.stale = w.pc # "idle"]
  BY DEF publish_lock, durable, step
<1>3. q \in Controller /\ q.pc = "revoke" /\ q.op = "lock" /\ ctl' = [ctl EXCEPT ![c] = q]
  <2>1. ctl[c].op = "lock"
    BY <1>2 DEF IInv, Achieved
  <2> QED
    BY <1>1, <1>2, <2>1 DEF Controller
<1>4. ctl'[c] = q
  BY <1>1, <1>3
<1> HIDE DEF q
<1>5. Achieved(c)'
  BY <1>3, <1>4 DEF Achieved
<1>6. w.pc \notin {"deliver", "post"}
  BY <1>2, GateAlone, FreeIsNotWorker
<1>7. settled' \in SUBSET Requests /\ published' \in BOOLEAN
  BY <1>2 DEF IInv, Types, WorldTypes
<1>8. /\ Sweep(store, store') /\ poisoned' \in BOOLEAN /\ (poisoned => poisoned')
      /\ auth' \in Authority
  BY <1>2, NothingWritten
<1> QED
  BY <1>2, <1>3, <1>5, <1>6, <1>7, <1>8, OldTypes, ControllerMove

(* Once the store is locked no request is unclaimed.                       *)
LEMMA LockSpeaks ==
    ASSUME IInv, store' = lock_store(store), NEW r \in Requests,
           store.requests[r].status # "None"
    PROVE  Spoken(r)'
<1>1. ~Unclaimed(store'.requests[r]) /\ store' \in Store
      /\ Evolves(store.requests[r], store'.requests[r])
  BY LawfulStore, LockSweeps DEF Sweep
<1>2. store'.requests[r] \in Record /\ store'.requests[r].status # "None"
      /\ (store'.requests[r].status = "Running" => store'.requests[r].claimed)
  BY <1>1 DEF Store, Evolves, OpenMoves, Lawful
<1>3. store'.requests[r].status \in
            {"None", "Pending", "Approved", "Running", "Completed", "Ended"}
  BY <1>2 DEF Record
<1> QED
  BY <1>1, <1>2, <1>3 DEF Unclaimed, Spoken, Terminal

LEMMA LockRevokes ==
    ASSUME IInv, NEW c \in Controllers, lock_revokes(c)
    PROVE  IInv' /\ Lawfully
<1> DEFINE seen == {r \in Requests : store.requests[r].status # "None"}
<1>1. ctl \in [Controllers -> Controller] /\ ctl[c] \in Controller
  BY DEF IInv, Types, ControllerTypes
<1>2. /\ ctl[c].pc = "revoke" /\ steady /\ gate = Free
      /\ gate' = gate /\ release_gate' = release_gate
      /\ cleanup_uncertain' = cleanup_uncertain /\ published' = published /\ denied' = denied
      /\ executions' = executions /\ cancel' = cancel /\ settled' = settled
      /\ closing' = closing /\ w' = w
  BY DEF lock_revokes, flags
<1>3. PICK done \in BOOLEAN :
        /\ IF done THEN revoke_done ELSE revoke_failed
        /\ ctl' = [ctl EXCEPT ![c].pc = "await", ![c].ok = done, ![c].affected = seen]
  BY DEF lock_revokes
<1> DEFINE q == [ctl[c] EXCEPT !.pc = "await", !.ok = done, !.affected = seen]
<1>4. seen \in SUBSET Requests
  OBVIOUS
<1>5. Safe
  BY <1>3, LawfulStore, RevokeSafe DEF revoke
<1>6. done => \A r \in seen : Spoken(r)'
  <2> SUFFICES ASSUME done, NEW r \in seen
               PROVE  Spoken(r)'
    OBVIOUS
  <2>1. store' = lock_store(store)
    BY <1>3 DEF revoke_done, wrote
  <2> QED
    BY <2>1, LockSpeaks
<1> HIDE DEF seen
<1>7. /\ q \in Controller /\ q.pc = "await" /\ q.op = "lock" /\ q.ok = done
      /\ q.affected = seen /\ ctl' = [ctl EXCEPT ![c] = q]
  <2>1. ctl[c].op = "lock"
    BY <1>2 DEF IInv, Achieved
  <2>2. q \in Controller /\ q.pc = "await" /\ q.op = "lock" /\ q.ok = done /\ q.affected = seen
    BY <1>1, <1>4, <2>1 DEF Controller
  <2> QED
    BY <1>1, <1>3, <2>2
<1>8. ctl'[c] = q
  BY <1>1, <1>7
<1> HIDE DEF q
<1>9. Achieved(c)'
  BY <1>6, <1>7, <1>8 DEF Achieved
<1>10. settled' \in SUBSET Requests
  BY <1>2 DEF IInv, Types, WorldTypes
<1> QED
  BY <1>2, <1>5, <1>7, <1>9, <1>10, OldTypes, FreeIsNotWorker, ControllerMove DEF Safe

LEMMA CallCancel ==
    ASSUME IInv, NEW c \in Controllers, NEW r \in Requests, call_cancel(c, r)
    PROVE  IInv' /\ Lawfully
<1> DEFINE q == [IdleCtl EXCEPT !.pc = IF r \in executions THEN "await" ELSE "cancel_gate",
                                !.op = "cancel", !.subject = r, !.affected = {r}]
<1>1. /\ ctl' = [ctl EXCEPT ![c] = q] /\ ctl[c].pc = "idle" /\ steady
      /\ store' = store /\ poisoned' = poisoned /\ auth' = auth
      /\ gate' = gate /\ release_gate' = release_gate /\ release_gate = Free
      /\ cleanup_uncertain' = cleanup_uncertain /\ published' = published /\ denied' = denied
      /\ executions' = executions /\ closing' = closing /\ w' = w /\ settled' = settled
      /\ cancel' = cancel \cup ({r} \cap executions)
  BY DEF call_cancel, durable, flags
<1>2. /\ q \in Controller /\ q.op = "cancel" /\ q.subject = r /\ q.affected = {r}
      /\ q.pc = IF r \in executions THEN "await" ELSE "cancel_gate"
  BY DEF IdleCtl, Controller
<1>3. ctl'[c] = q
  BY <1>1 DEF IInv, Types, ControllerTypes
<1> HIDE DEF q
(* What is registered is claimed.                                          *)
<1>4. r \in executions => Spoken(r)'
  <2> SUFFICES ASSUME r \in executions
               PROVE  store.requests[r].claimed
    BY <1>1 DEF Spoken
  <2>1. w.pc \in Delivering \cup Posting \cup Ending /\ r = w.r
    BY DEF IInv, Registered
  <2> QED
    BY <2>1 DEF IInv, Claimed, Executing, Ending
<1>5. Achieved(c)'
  BY <1>2, <1>3, <1>4 DEF Achieved
<1>6. w.pc \notin {"deliver", "post"}
  BY <1>1, GateAlone, FreeIsNotWorker
<1>7. settled' \in SUBSET Requests
  BY <1>1 DEF IInv, Types, WorldTypes
<1>8. cancel' \in SUBSET Requests /\ cancel \subseteq cancel'
  BY <1>1, OldTypes
<1>9. /\ Sweep(store, store') /\ poisoned' \in BOOLEAN /\ (poisoned => poisoned')
      /\ auth' \in Authority
  BY <1>1, NothingWritten
<1>10. q.pc # "cancel_recheck"
  BY <1>2
<1> QED
  BY <1>1, <1>2, <1>5, <1>6, <1>7, <1>8, <1>9, <1>10, OldTypes, ControllerMove

LEMMA CancelTakesGate ==
    ASSUME IInv, NEW c \in Controllers, cancel_takes_gate(c)
    PROVE  IInv' /\ Lawfully
<1> DEFINE q == [ctl[c] EXCEPT !.pc = "cancel_recheck"]
<1>1. ctl \in [Controllers -> Controller] /\ ctl[c] \in Controller
  BY DEF IInv, Types, ControllerTypes
<1>2. /\ ctl' = [ctl EXCEPT ![c].pc = "cancel_recheck"] /\ ctl[c].pc = "cancel_gate" /\ steady
      /\ store' = store /\ poisoned' = poisoned /\ auth' = auth
      /\ gate = Free /\ gate' = c /\ release_gate' = release_gate
      /\ cleanup_uncertain' = cleanup_uncertain /\ published' = published /\ denied' = denied
      /\ executions' = executions /\ closing' = closing /\ w' = w /\ settled' = settled
      /\ cancel' = cancel
  BY DEF cancel_takes_gate, durable, flags, step
<1>3. /\ q \in Controller /\ q.pc = "cancel_recheck" /\ q.op = ctl[c].op
      /\ q.subject = ctl[c].subject /\ q.affected = ctl[c].affected
      /\ ctl' = [ctl EXCEPT ![c] = q]
  BY <1>1, <1>2 DEF Controller
<1>4. ctl'[c] = q
  BY <1>1, <1>3
<1> HIDE DEF q
<1>5. ctl[c].op = "cancel" /\ ctl[c].subject \in Requests /\ ctl[c].affected = {ctl[c].subject}
  BY <1>2 DEF IInv, Achieved
<1>6. Achieved(c)'
  BY <1>3, <1>4, <1>5 DEF Achieved
<1>7. settled' \in SUBSET Requests
  BY <1>2 DEF IInv, Types, WorldTypes
<1>8. /\ Sweep(store, store') /\ poisoned' \in BOOLEAN /\ (poisoned => poisoned')
      /\ auth' \in Authority
  BY <1>2, NothingWritten
<1> QED
  BY <1>2, <1>3, <1>6, <1>7, <1>8, OldTypes, ControllerMove

LEMMA CancelRechecks ==
    ASSUME IInv, NEW c \in Controllers, cancel_rechecks(c)
    PROVE  IInv' /\ Lawfully
<1> DEFINE r == ctl[c].subject
           p == store.requests[r]
           unclaimed == p.status = "Approved" /\ ~p.claimed
           new == set_request(r, ended(p))
           q == [ctl[c] EXCEPT !.pc = "await"]
<1>1. ctl \in [Controllers -> Controller] /\ ctl[c] \in Controller
  BY DEF IInv, Types, ControllerTypes
<1>2. /\ ctl[c].pc = "cancel_recheck" /\ steady /\ release_gate = Free
      /\ gate' = Free /\ release_gate' = release_gate /\ auth' = auth
      /\ cleanup_uncertain' = cleanup_uncertain /\ published' = published /\ denied' = denied
      /\ executions' = executions /\ w' = w /\ settled' = settled
  BY DEF cancel_rechecks
<1>3. gate = c /\ w.pc \notin {"deliver", "post"} /\ gate # Worker
  BY <1>2, GateAlone, FreeGates DEF IInv, Mutexes
<1>4. ctl[c].op = "cancel" /\ r \in Requests /\ ctl[c].affected = {r}
  BY <1>2 DEF IInv, Achieved
<1>5. /\ q \in Controller /\ q.pc = "await" /\ q.op = "cancel" /\ q.subject = r
      /\ q.affected = {r} /\ [ctl EXCEPT ![c].pc = "await"] = [ctl EXCEPT ![c] = q]
  BY <1>1, <1>4 DEF Controller
<1>6. settled' \in SUBSET Requests /\ auth' \in Authority
  <2>1. settled' \in SUBSET Requests
    BY <1>2 DEF IInv, Types, WorldTypes
  <2> QED
    BY <1>2, <2>1, LawfulStore
<1>7. \/ /\ r \in executions
         /\ cancel' = cancel \cup {r} /\ step(c, "await")
         /\ UNCHANGED <<durable, closing>>
      \/ /\ r \notin executions /\ unclaimed /\ wrote(new)
         /\ step(c, "await") /\ UNCHANGED <<cancel, closing>>
      \/ /\ r \notin executions /\ (unclaimed \/ poisoned) /\ write_failed(new)
         /\ closing' = TRUE /\ return(c) /\ UNCHANGED cancel
      \/ /\ r \notin executions /\ ~unclaimed /\ ~poisoned
         /\ return(c) /\ UNCHANGED <<durable, cancel, closing>>
  BY DEF cancel_rechecks
<1>8. unclaimed => /\ Sweep(store, new)
                   /\ new.requests[r].status = "Ended"
  <2> SUFFICES ASSUME unclaimed
               PROVE  /\ Sweep(store, new)
                      /\ new.requests[r].status = "Ended"
    OBVIOUS
  <2>1. p \in Record /\ Unclaimed(p)
    BY <1>4, LawfulStore DEF Unclaimed
  <2>2. ended(p) \in Record /\ Evolves(p, ended(p)) /\ ended(p).status = "Ended"
    BY <2>1, EndedRecord, EndedEvolves
  <2>3. store \in Store /\ AllLawful(store)
    BY LawfulStore
  <2>4. Sweep(store, new)
    BY <1>4, <2>2, <2>3, PutSweeps
  <2>5. new.requests[r] = ended(p)
    BY <1>4, <2>2, <2>3, PutStore
  <2> QED
    BY <2>2, <2>4, <2>5
<1>9. CASE /\ r \in executions
           /\ cancel' = cancel \cup {r} /\ step(c, "await")
           /\ UNCHANGED <<durable, closing>>
  <2>1. /\ store' = store /\ poisoned' = poisoned /\ closing' = closing
        /\ ctl' = [ctl EXCEPT ![c] = q]
    BY <1>5, <1>9 DEF durable, step
  <2>2. w.pc \in Delivering \cup Posting \cup Ending /\ r = w.r
    BY <1>9 DEF IInv, Registered
  <2>3. store.requests[w.r].claimed
    BY <2>2 DEF IInv, Claimed, Executing, Ending
  <2>4. Spoken(r)' /\ ctl'[c] = q
    <3>1. ctl'[c] = q
      BY <1>1, <2>1
    <3>2. r' = r
      BY <3>1, <1>5
    <3> QED
      BY <2>1, <2>2, <2>3, <3>1, <3>2 DEF Spoken
  <2> HIDE DEF q
  <2>5. Achieved(c)'
    <3>1. ctl'[c].subject = r
      BY <1>5, <2>4
    <3>2. \A x \in ctl'[c].affected : Spoken(x)'
      BY <1>5, <2>4, <3>1
    <3> QED
      BY <1>4, <1>5, <2>4, <3>1, <3>2 DEF Achieved
  <2>6. cancel' \in SUBSET Requests /\ cancel \subseteq cancel'
    BY <1>4, <1>9, OldTypes
  <2>7. /\ Sweep(store, store') /\ poisoned' \in BOOLEAN /\ (poisoned => poisoned')
    BY <1>2, <2>1, NothingWritten
  <2>8. q.pc # "cancel_recheck"
    BY <1>5
  <2> QED
    BY <1>2, <1>3, <1>5, <1>6, <2>1, <2>5, <2>6, <2>7, <2>8, OldTypes, ControllerMove
<1>10. CASE /\ r \notin executions /\ unclaimed /\ wrote(new)
            /\ step(c, "await") /\ UNCHANGED <<cancel, closing>>
  <2>1. /\ store' = new /\ poisoned' = poisoned /\ closing' = closing /\ cancel' = cancel
        /\ ctl' = [ctl EXCEPT ![c] = q]
    BY <1>5, <1>10 DEF wrote, step
  <2>2. ctl'[c] = q
    BY <1>1, <2>1
  <2>3. Sweep(store, store') /\ store'.requests[r].status = "Ended"
    BY <1>8, <1>10, <2>1
  <2>4. ctl'[c].subject = r
    BY <1>5, <2>2
  <2>5. Spoken(r)'
    BY <2>3, <2>4 DEF Spoken, Terminal
  <2> HIDE DEF q
  <2>6. Achieved(c)'
    <3>1. \A x \in ctl'[c].affected : Spoken(x)'
      BY <1>5, <2>2, <2>4, <2>5
    <3> QED
      BY <1>4, <1>5, <2>2, <2>4, <3>1 DEF Achieved
  <2>7. q.pc # "cancel_recheck"
    BY <1>5
  <2> QED
    BY <1>2, <1>3, <1>5, <1>6, <2>1, <2>3, <2>6, <2>7, LawfulStore, OldTypes, ControllerMove
<1>11. CASE /\ r \notin executions
            /\ return(c) /\ cancel' = cancel
            /\ \/ (unclaimed \/ poisoned) /\ write_failed(new) /\ closing' = TRUE
               \/ UNCHANGED durable /\ closing' = closing
  <2>1. ctl' = [ctl EXCEPT ![c] = IdleCtl] /\ ctl'[c] = IdleCtl
    BY <1>1, <1>11 DEF return
  <2>2. Achieved(c)' /\ IdleCtl \in Controller /\ IdleCtl.pc # "cancel_recheck"
    BY <2>1, IdleAchieved, IdleController
  <2>3. /\ Sweep(store, store') /\ poisoned' \in BOOLEAN /\ (poisoned => poisoned')
    <3>1. CASE UNCHANGED durable
      BY <1>2, <3>1, NothingWritten DEF durable
    <3>2. CASE unclaimed /\ write_failed(new)
      <4>1. store' \in {store, new} /\ poisoned' \in BOOLEAN /\ (poisoned => poisoned')
        BY <3>2, Written, LawfulStore
      <4> QED
        BY <1>8, <3>2, <4>1, LawfulStore, SameSweeps
    <3>3. CASE poisoned /\ write_failed(new)
      BY <1>2, <3>3, NothingWritten DEF write_failed, durable
    <3> QED
      BY <1>11, <3>1, <3>2, <3>3
  <2>4. closing' \in BOOLEAN /\ (closing => closing')
    BY <1>11, ClosingGrows
  <2> QED
    BY <1>2, <1>3, <1>6, <1>11, <2>1, <2>2, <2>3, <2>4, OldTypes, ControllerMove
<1> QED
  BY <1>7, <1>9, <1>10, <1>11

LEMMA CallRevoke ==
    ASSUME IInv, NEW c \in Controllers, NEW a \in Agents, call_revoke(c, a)
    PROVE  IInv' /\ Lawfully
<1> DEFINE q == [IdleCtl EXCEPT !.pc = "revoke_store", !.op = "revoke", !.subject = a]
<1>1. /\ ctl' = [ctl EXCEPT ![c] = q] /\ ctl[c].pc = "idle" /\ steady
      /\ store' = store /\ poisoned' = poisoned /\ auth' = auth
      /\ gate' = gate /\ release_gate' = release_gate /\ release_gate = Free
      /\ cleanup_uncertain' = cleanup_uncertain /\ published' = published
      /\ denied' = denied \cup {a}
      /\ executions' = executions /\ closing' = closing /\ w' = w /\ settled' = settled
      /\ cancel' = cancel
  BY DEF call_revoke, durable
<1>2. q \in Controller /\ q.pc = "revoke_store" /\ q.op = "revoke" /\ q.subject = a
  BY DEF IdleCtl, Controller
<1>3. ctl'[c] = q
  BY <1>1 DEF IInv, Types, ControllerTypes
<1> HIDE DEF q
<1>4. Achieved(c)'
  BY <1>1, <1>2, <1>3 DEF Achieved
<1>5. w.pc \notin {"deliver", "post"}
  BY <1>1, GateAlone, FreeIsNotWorker
<1>6. settled' \in SUBSET Requests
  BY <1>1 DEF IInv, Types, WorldTypes
<1>7. denied' \in SUBSET Agents /\ denied \subseteq denied'
  BY <1>1, OldTypes
<1>8. /\ Sweep(store, store') /\ poisoned' \in BOOLEAN /\ (poisoned => poisoned')
      /\ auth' \in Authority
  BY <1>1, NothingWritten
<1>9. q.pc # "cancel_recheck"
  BY <1>2
<1> QED
  BY <1>1, <1>2, <1>4, <1>5, <1>6, <1>7, <1>8, <1>9, OldTypes, ControllerMove

(* What revoke_agent writes: the agent is revoked, its unclaimed requests  *)
(* end.                                                                    *)
LEMMA RevokeSweeps ==
    ASSUME IInv, NEW a \in Agents
    PROVE  LET new == [store EXCEPT
                    !.revoked = @ \cup {a},
                    !.requests = [r \in Requests |->
                        IF OwnerOf[r] = a /\ Unclaimed(@[r]) THEN ended(@[r]) ELSE @[r]]]
           IN  Sweep(store, new) /\ a \in new.revoked
<1> DEFINE at(r) == IF OwnerOf[r] = a /\ Unclaimed(store.requests[r])
                    THEN ended(store.requests[r]) ELSE store.requests[r]
           new == [store EXCEPT
                    !.revoked = @ \cup {a},
                    !.requests = [r \in Requests |->
                        IF OwnerOf[r] = a /\ Unclaimed(@[r]) THEN ended(@[r]) ELSE @[r]]]
<1>1. store \in Store
  BY LawfulStore
<1>2. new = [store EXCEPT !.revoked = store.revoked \cup {a},
                          !.requests = [r \in Requests |-> at(r)]]
  BY <1>1 DEF Store
<1>3. ASSUME NEW r \in Requests
      PROVE  at(r) \in Record /\ Evolves(store.requests[r], at(r))
  <2>1. store.requests[r] \in Record /\ Lawful(store.requests[r])
    BY LawfulStore
  <2>2. CASE OwnerOf[r] = a /\ Unclaimed(store.requests[r])
    BY <2>1, <2>2, EndedRecord, EndedEvolves
  <2>3. CASE ~(OwnerOf[r] = a /\ Unclaimed(store.requests[r]))
    BY <2>1, <2>3, SameEvolves
  <2> QED
    BY <2>2, <2>3
<1> HIDE DEF new, at
<1>4. /\ new \in Store /\ new.revoked = store.revoked \cup {a}
      /\ new.attempts = store.attempts /\ new.requests = [r \in Requests |-> at(r)]
  BY <1>1, <1>2, <1>3 DEF Store
<1> QED
  BY <1>3, <1>4 DEF Sweep, new

LEMMA RevokeStore ==
    ASSUME IInv, NEW c \in Controllers, revoke_store(c)
    PROVE  IInv' /\ Lawfully
<1> DEFINE a == ctl[c].subject
           affected == {r \in executions : OwnerOf[r] = a}
           new == [store EXCEPT
                    !.revoked = @ \cup {a},
                    !.requests = [r \in Requests |->
                        IF OwnerOf[r] = a /\ Unclaimed(@[r]) THEN ended(@[r]) ELSE @[r]]]
<1>1. ctl \in [Controllers -> Controller] /\ ctl[c] \in Controller
  BY DEF IInv, Types, ControllerTypes
<1>2. /\ ctl[c].pc = "revoke_store" /\ steady /\ gate = Free
      /\ gate' = gate /\ release_gate' = release_gate /\ auth' = auth
      /\ cleanup_uncertain' = cleanup_uncertain /\ published' = published /\ denied' = denied
      /\ executions' = executions /\ w' = w /\ settled' = settled
      /\ cancel' = cancel \cup affected
  BY DEF revoke_store
<1>3. PICK done \in BOOLEAN :
        /\ IF done THEN wrote(new) /\ UNCHANGED closing
           ELSE write_failed(new) /\ close_admission
        /\ ctl' = [ctl EXCEPT ![c].pc = "await", ![c].ok = done, ![c].affected = affected]
  BY DEF revoke_store
<1>4. ctl[c].op = "revoke" /\ a \in Agents /\ a \in denied
  BY <1>2 DEF IInv, Achieved
<1>5. Sweep(store, new) /\ a \in new.revoked
  BY <1>4, RevokeSweeps
<1>6. affected \in SUBSET Requests
  BY OldTypes
<1> DEFINE q == [ctl[c] EXCEPT !.pc = "await", !.ok = done, !.affected = affected]
<1>7. ctl' = [ctl EXCEPT ![c] = q]
  <2> HIDE DEF affected
  <2> QED
    BY <1>1, <1>3
<1>8. /\ q \in Controller /\ q.pc = "await" /\ q.op = "revoke" /\ q.ok = done
      /\ q.subject = a /\ q.affected = affected /\ ctl'[c] = q
  <2> HIDE DEF affected
  <2> QED
    BY <1>1, <1>4, <1>6, <1>7 DEF Controller
<1> HIDE DEF q, new
<1>9. /\ Sweep(store, store') /\ poisoned' \in BOOLEAN /\ (poisoned => poisoned')
  <2>1. store' \in {store, new} /\ poisoned' \in BOOLEAN /\ (poisoned => poisoned')
    BY <1>3, Written, LawfulStore
  <2> QED
    BY <1>5, <2>1, LawfulStore, SameSweeps
<1>10. Achieved(c)'
  <2>1. done => Revoked(ctl[c].subject)'
    <3>1. done => store' = new
      BY <1>3 DEF wrote
    <3>2. ctl'[c].subject = a /\ denied' = denied
      BY <1>2, <1>8
    <3>3. done => ctl'[c].subject \in denied' /\ ctl'[c].subject \in store'.revoked
      BY <1>4, <1>5, <3>1, <3>2
    <3> QED
      BY <3>3 DEF Revoked
  <2>2. \A r \in executions' : OwnerOf[r] = ctl'[c].subject => r \in cancel' \cap ctl'[c].affected
    BY <1>2, <1>8
  <2> HIDE DEF affected
  <2> QED
    BY <1>2, <1>4, <1>8, <2>1, <2>2 DEF Achieved
<1>11. w.pc \notin {"deliver", "post"}
  BY <1>2, GateAlone, FreeIsNotWorker DEF HoldsGate
<1>12. settled' \in SUBSET Requests
  BY <1>2 DEF IInv, Types, WorldTypes
<1>13. cancel' \in SUBSET Requests /\ cancel \subseteq cancel'
  BY <1>2, <1>6, OldTypes
<1>14. closing' = closing \/ closing' = TRUE
  BY <1>3 DEF close_admission
<1>15. q.pc # "cancel_recheck" /\ ctl[c].pc # "cancel_recheck"
  BY <1>2, <1>8
<1>16. auth' \in Authority /\ gate # Worker
  BY <1>2, LawfulStore, FreeIsNotWorker
<1>17. closing' \in BOOLEAN /\ (closing => closing')
  BY <1>14, ClosingGrows
<1>18. /\ published' \in BOOLEAN /\ denied' \in SUBSET Agents /\ denied \subseteq denied'
  BY <1>2, OldTypes
<1>19. \A r \in settled' : r \in settled \/ Quiet(r)'
  BY <1>2
<1> HIDE DEF affected, a
<1> QED
  BY <1>2, <1>7, <1>8, <1>9, <1>10, <1>11, <1>12, <1>13, <1>15, <1>16, <1>17, <1>18, <1>19,
     ControllerMove

(* A return gives up nothing that was achieved.                            *)
LEMMA Returns ==
    ASSUME IInv, NEW c \in Controllers, ctl[c].pc = "await", return(c), steady,
           store' = store, poisoned' = poisoned, auth' = auth, gate' = gate,
           release_gate' = release_gate, cleanup_uncertain' = cleanup_uncertain,
           published' = published, denied' = denied, executions' = executions,
           cancel' = cancel, w' = w,
           closing' = closing \/ (closing' = TRUE /\ release_gate = Free),
           settled' \in SUBSET Requests, \A r \in settled' : r \in settled \/ Quiet(r)'
    PROVE  IInv' /\ Lawfully
<1>1. ctl' = [ctl EXCEPT ![c] = IdleCtl] /\ ctl'[c] = IdleCtl
  BY DEF return, IInv, Types, ControllerTypes
<1>2. Achieved(c)' /\ IdleCtl \in Controller /\ IdleCtl.pc # "cancel_recheck"
  BY <1>1, IdleAchieved, IdleController
<1>3. w.pc \in {"deliver", "post"} => closing' = closing
  BY GateAlone, FreeIsNotWorker
<1>4. closing' \in BOOLEAN /\ (closing => closing')
  BY ClosingGrows
<1>5. /\ Sweep(store, store') /\ poisoned' \in BOOLEAN /\ (poisoned => poisoned')
      /\ auth' \in Authority
  BY NothingWritten
<1> QED
  BY <1>1, <1>2, <1>3, <1>4, <1>5, OldTypes, ControllerMove

LEMMA AwaitTimesOut ==
    ASSUME IInv, NEW c \in Controllers, await_times_out(c)
    PROVE  IInv' /\ Lawfully
<1>1. /\ ctl[c].pc = "await" /\ return(c) /\ steady
      /\ store' = store /\ poisoned' = poisoned /\ auth' = auth /\ gate' = gate
      /\ release_gate' = release_gate /\ cleanup_uncertain' = cleanup_uncertain
      /\ published' = published /\ denied' = denied /\ executions' = executions
      /\ cancel' = cancel /\ w' = w /\ settled' = settled
      /\ closing' = TRUE /\ release_gate = Free
  BY DEF await_times_out, durable, close_admission
<1>2. settled' \in SUBSET Requests
  BY <1>1 DEF IInv, Types, WorldTypes
<1> QED
  BY <1>1, <1>2, Returns

(* What a controller settles is quiet: nothing it covers is registered,    *)
(* and what is not claimed or ended by now belongs to a revoked agent.     *)
LEMMA PromisedQuiet ==
    ASSUME IInv, NEW c \in Controllers, ctl[c].pc = "await", awaited(c) = {}, ctl[c].ok,
           NEW r \in promised(c)
    PROVE  r \in Requests /\ Quiet(r)
<1>1. ctl[c] \in Controller /\ Achieved(c)
  BY DEF IInv, Types, ControllerTypes
<1>2. CASE ctl[c].op = "revoke"
  <2>1. r \in Requests /\ OwnerOf[r] = ctl[c].subject
    BY <1>2 DEF promised
  <2>2. ctl[c].subject \in Agents /\ Revoked(ctl[c].subject)
    BY <1>1, <1>2 DEF Achieved
  <2>3. r \notin executions
    BY <1>1, <1>2, <2>1 DEF awaited, Achieved
  <2> QED
    BY <2>1, <2>2, <2>3, OwnerAssumption DEF Quiet
<1>3. CASE ctl[c].op # "revoke"
  <2>1. r \in ctl[c].affected /\ r \in Requests
    BY <1>1, <1>3 DEF promised, Controller
  <2>2. r \notin executions
    BY <2>1 DEF awaited
  <2> QED
    BY <1>1, <1>3, <2>1, <2>2 DEF Achieved, Quiet
<1> QED
  BY <1>2, <1>3

LEMMA AwaitDone ==
    ASSUME IInv, NEW c \in Controllers, await_done(c)
    PROVE  IInv' /\ Lawfully
<1>1. /\ ctl[c].pc = "await" /\ return(c) /\ steady /\ awaited(c) = {}
      /\ store' = store /\ poisoned' = poisoned /\ auth' = auth /\ gate' = gate
      /\ release_gate' = release_gate /\ cleanup_uncertain' = cleanup_uncertain
      /\ published' = published /\ denied' = denied /\ executions' = executions
      /\ cancel' = cancel /\ w' = w
  BY DEF await_done, durable
<1>2. closing' = closing \/ (closing' = TRUE /\ release_gate = Free)
  BY DEF await_done, close_admission
<1>3. settled \in SUBSET Requests
  BY DEF IInv, Types, WorldTypes
<1>4. settled' = settled \/ (ctl[c].ok /\ settled' = settled \cup promised(c))
  BY DEF await_done
<1>5. ASSUME NEW r \in settled'
      PROVE  r \in settled \/ (r \in Requests /\ Quiet(r)')
  <2>1. CASE r \in settled
    BY <2>1
  <2>2. CASE r \notin settled
    <3>1. ctl[c].ok /\ r \in promised(c)
      BY <1>4, <1>5, <2>2
    <3>2. r \in Requests /\ Quiet(r)
      BY <1>1, <3>1, PromisedQuiet
    <3> QED
      BY <1>1, <3>2 DEF Quiet, Spoken, Revoked
  <2> QED
    BY <2>1, <2>2
<1>6. settled' \in SUBSET Requests
  BY <1>3, <1>5
<1> QED
  BY <1>1, <1>2, <1>5, <1>6, Returns

-----------------------------------------------------------------------------
(* Time and the consumer.                                                  *)

LEMMA EnvMove ==
    ASSUME IInv, env, store' = store, poisoned' = poisoned, auth' \in Authority,
           auth.session # "None" => auth'.session # "None",
           \A r \in Requests : auth.limits[r] # "None" => auth'.limits[r] # "None",
           NEW elapsed \in BOOLEAN, w' = [w EXCEPT !.elapsed = elapsed],
           consumer' \in [Requests -> {"None", "Helper", "Running", "Exited"}],
           released' = released, posted' = posted, settled' = settled
    PROVE  IInv' /\ Lawfully
<1>1. /\ gate' = gate /\ release_gate' = release_gate /\ closing' = closing
      /\ cleanup_uncertain' = cleanup_uncertain /\ published' = published /\ denied' = denied
      /\ executions' = executions /\ cancel' = cancel /\ undispatched' = undispatched
      /\ queue' = queue /\ ctl' = ctl
  BY DEF env, flags, work
<1>2. w \in WorkerRecord /\ (w.pc # "idle" => w.r \in Requests)
  BY DEF IInv, Types, WorkerTypes
<1>3. w' \in WorkerRecord /\ w'.pc = w.pc /\ w'.r = w.r /\ w'.stale = w.stale
  BY <1>2 DEF WorkerRecord
<1>4. Types'
  <2>1. DurableTypes' /\ AuthorityTypes' /\ MutexTypes' /\ ControllerTypes' /\ WorldTypes'
    BY <1>1 DEF IInv, Types, DurableTypes, AuthorityTypes, MutexTypes, ControllerTypes,
                WorldTypes
  <2>2. FlagTypes' /\ WorkTypes'
    BY <1>1 DEF IInv, Types, FlagTypes, WorkTypes
  <2>3. WorkerTypes'
    BY <1>2, <1>3 DEF WorkerTypes
  <2> QED
    BY <2>1, <2>2, <2>3 DEF Types
<1>5. Mutexes'
  BY <1>1, <1>3 DEF IInv, Mutexes, HoldsRelease, claim_holds
<1>6. Sweep(store, store')
  BY LawfulStore, SameSweeps
<1>7. Onward
  BY <1>1, <1>6, SameOnward
<1>8. ASSUME NEW c \in Controllers
      PROVE  Achieved(c)'
  <2>1. Types /\ Achieved(c) /\ ctl'[c] = ctl[c]
    BY <1>1 DEF IInv
  <2> QED
    BY <1>7, <2>1, AchievedKept
<1>9. ASSUME NEW r \in settled'
      PROVE  Quiet(r)'
  <2>1. r \in Requests /\ Quiet(r)
    BY DEF IInv, Types, WorldTypes
  <2> QED
    BY <1>7, <2>1, QuietKept
<1>10. w.pc \in {"release_gate", "deliver"} =>
                auth'.session # "None" /\ auth'.limits[w.r] # "None"
  BY <1>2 DEF IInv, Authorized
<1> QED
  BY <1>1, <1>3, <1>4, <1>5, <1>6, <1>8, <1>9, <1>10, Apart

LEMMA SameWorker ==
    ASSUME IInv
    PROVE  w.elapsed \in BOOLEAN /\ w = [w EXCEPT !.elapsed = w.elapsed]
BY DEF IInv, Types, WorkerTypes, WorkerRecord

LEMMA SessionElapses ==
    ASSUME IInv, session_elapses
    PROVE  IInv' /\ Lawfully
<1> DEFINE late == w.elapsed \/ (claimed_pc /\ store.requests[w.r].current)
<1>1. /\ auth' = [auth EXCEPT !.session = "Elapsed"] /\ env
      /\ w' = [w EXCEPT !.elapsed = late] /\ store' = store /\ poisoned' = poisoned
      /\ consumer' = consumer /\ released' = released /\ posted' = posted /\ settled' = settled
  BY DEF session_elapses, durable, world
<1>2. auth' \in Authority /\ auth'.session # "None" /\ auth'.limits = auth.limits
  BY <1>1, LawfulStore DEF Authority
<1>3. consumer' \in [Requests -> {"None", "Helper", "Running", "Exited"}]
  BY <1>1 DEF IInv, Types, WorldTypes
<1>4. late \in BOOLEAN
  OBVIOUS
<1> HIDE DEF late
<1> QED
  BY <1>1, <1>2, <1>3, <1>4, EnvMove

LEMMA RequestElapses ==
    ASSUME IInv, NEW r \in Requests, request_elapses(r)
    PROVE  IInv' /\ Lawfully
<1> DEFINE late == w.elapsed \/ (claimed_pc /\ w.r = r)
<1>1. /\ auth' = [auth EXCEPT !.limits[r] = "Elapsed"] /\ env
      /\ w' = [w EXCEPT !.elapsed = late] /\ store' = store /\ poisoned' = poisoned
      /\ consumer' = consumer /\ released' = released /\ posted' = posted /\ settled' = settled
  BY DEF request_elapses, durable, world
<1>2. auth' = [auth EXCEPT !.limits = [auth.limits EXCEPT ![r] = "Elapsed"]]
  BY <1>1, LawfulStore DEF Authority
<1>3. /\ auth' \in Authority /\ auth'.session = auth.session
      /\ auth'.limits = [auth.limits EXCEPT ![r] = "Elapsed"]
  BY <1>2, LawfulStore DEF Authority
<1>4. \A x \in Requests : auth.limits[x] # "None" => auth'.limits[x] # "None"
  BY <1>3, LawfulStore DEF Authority
<1>5. consumer' \in [Requests -> {"None", "Helper", "Running", "Exited"}]
  BY <1>1 DEF IInv, Types, WorldTypes
<1>6. late \in BOOLEAN
  OBVIOUS
<1> HIDE DEF late
<1> QED
  BY <1>1, <1>3, <1>4, <1>5, <1>6, EnvMove

LEMMA CapturedDeadlineElapses ==
    ASSUME IInv, captured_deadline_elapses
    PROVE  IInv' /\ Lawfully
<1>1. /\ auth' = auth /\ env /\ w' = [w EXCEPT !.elapsed = TRUE]
      /\ store' = store /\ poisoned' = poisoned
      /\ consumer' = consumer /\ released' = released /\ posted' = posted /\ settled' = settled
  BY DEF captured_deadline_elapses, durable, world
<1>2. consumer' \in [Requests -> {"None", "Helper", "Running", "Exited"}]
  BY <1>1 DEF IInv, Types, WorldTypes
<1> QED
  BY <1>1, <1>2, LawfulStore, EnvMove

LEMMA ConsumerExits ==
    ASSUME IInv, NEW r \in Requests, consumer_exits(r)
    PROVE  IInv' /\ Lawfully
<1>1. /\ auth' = auth /\ env /\ w' = w /\ store' = store /\ poisoned' = poisoned
      /\ consumer' = [consumer EXCEPT ![r] = "Exited"]
      /\ released' = released /\ posted' = posted /\ settled' = settled
  BY DEF consumer_exits, durable
<1>2. consumer' \in [Requests -> {"None", "Helper", "Running", "Exited"}]
  BY <1>1 DEF IInv, Types, WorldTypes
<1>3. w.elapsed \in BOOLEAN /\ w' = [w EXCEPT !.elapsed = w.elapsed]
  BY <1>1, SameWorker
<1> QED
  BY <1>1, <1>2, <1>3, LawfulStore, EnvMove

(* The next process starts idle; no record of the last one is executing.   *)
LEMMA RecoverSteps ==
    ASSUME IInv, store' = recover_store(store)
    PROVE  /\ store' \in Store /\ store'.revoked = store.revoked
           /\ \A r \in Requests :
                /\ RecordStep(store.requests[r], store'.requests[r])
                /\ Lawful(store'.requests[r]) /\ ~Executing(store'.requests[r])
                /\ store'.requests[r].claimed = store.requests[r].claimed
<1> DEFINE at(r) == IF store.requests[r].status \in {"Pending", "Approved", "Running"}
                    THEN ended(store.requests[r])
                    ELSE [store.requests[r] EXCEPT !.current = FALSE]
<1>1. ASSUME NEW r \in Requests
      PROVE  /\ at(r) \in Record /\ RecordStep(store.requests[r], at(r)) /\ Lawful(at(r))
             /\ ~Executing(at(r)) /\ at(r).claimed = store.requests[r].claimed
  <2> DEFINE p == store.requests[r]
  <2>1. p \in Record /\ Lawful(p)
    BY LawfulStore
  <2>2. CASE p.status \in {"Pending", "Approved", "Running"}
    <3>1. at(r) = ended(p)
      BY <2>2
    <3> HIDE DEF p, at
    <3>2. at(r) \in Record /\ at(r).status = "Ended" /\ at(r).claimed = p.claimed
      BY <2>1, <3>1, EndedRecord
    <3>3. Lawful(at(r)) /\ ~Executing(at(r))
      BY <3>2 DEF Lawful, Executing
    <3>4. RecordStep(p, at(r))
      <4>1. CASE p.claimed
        BY <2>1, <2>2, <3>2, <4>1 DEF RecordStep, Executing, Lawful
      <4>2. CASE ~p.claimed
        <5>1. Unclaimed(p)
          BY <2>1, <2>2, <4>2 DEF Unclaimed, Lawful
        <5> QED
          BY <2>1, <3>1, <5>1, EndedEvolves DEF RecordStep
      <4> QED
        BY <4>1, <4>2
    <3> QED
      BY <3>2, <3>3, <3>4 DEF p
  <2>3. CASE p.status \notin {"Pending", "Approved", "Running"}
    <3>1. at(r) = [p EXCEPT !.current = FALSE]
      BY <2>3
    <3> HIDE DEF p, at
    <3>2. at(r) \in Record /\ at(r).status = p.status /\ at(r).claimed = p.claimed
      BY <2>1, <3>1, Outdated
    <3>3. Evolves(p, at(r))
      BY <2>1, <3>2, SameEvolves
    <3> QED
      BY <2>3, <3>2, <3>3 DEF p, RecordStep, Evolves, Executing
  <2> QED
    BY <2>2, <2>3
<1>2. store' = [store EXCEPT !.requests = [r \in Requests |-> at(r)]]
  BY DEF recover_store
<1> HIDE DEF at
<1>3. /\ store' \in Store /\ store'.revoked = store.revoked
      /\ store'.requests = [r \in Requests |-> at(r)]
  BY <1>1, <1>2, LawfulStore DEF Store
<1> QED
  BY <1>1, <1>3

LEMMA IdleWorkerType ==
    /\ IdleWorker \in WorkerRecord /\ IdleWorker.pc = "idle" /\ IdleWorker.r = Human
BY DEF IdleWorker, WorkerRecord, Steps, Claimless, Reports

LEMMA Crash ==
    ASSUME IInv, crash
    PROVE  IInv' /\ Lawfully
<1>1. /\ store' = recover_store(store) /\ poisoned' = FALSE
      /\ auth' = cleared(FALSE) /\ gate' = Free /\ release_gate' = Free
      /\ closing' = FALSE /\ cleanup_uncertain' = FALSE /\ published' = TRUE
      /\ denied' = store.revoked
      /\ executions' = {} /\ cancel' = {} /\ undispatched' = {} /\ queue' = << >>
      /\ w' = IdleWorker /\ ctl' = [c \in Controllers |-> IdleCtl]
      /\ consumer' = [r \in Requests |-> IF consumer[r] = "Helper" THEN "None"
                                         ELSE consumer[r]]
      /\ released' = released /\ posted' = posted /\ settled' = settled
  BY DEF crash
<1>2. w' \in WorkerRecord /\ w'.pc = "idle"
  BY <1>1, IdleWorkerType
<1>3. /\ store' \in Store /\ store'.revoked = store.revoked
      /\ \A r \in Requests :
            /\ RecordStep(store.requests[r], store'.requests[r])
            /\ Lawful(store'.requests[r]) /\ ~Executing(store'.requests[r])
            /\ store'.requests[r].claimed = store.requests[r].claimed
  BY <1>1, RecoverSteps
<1>4. Types'
  <2>1. DurableTypes' /\ AuthorityTypes'
    BY <1>1, <1>3, ClearedType DEF DurableTypes, AuthorityTypes
  <2>2. MutexTypes'
    BY <1>1 DEF MutexTypes
  <2>3. FlagTypes'
    BY <1>1, LawfulStore DEF FlagTypes, Store
  <2>4. WorkTypes'
    BY <1>1, CapacityAssumption DEF WorkTypes
  <2>5. WorkerTypes' /\ ControllerTypes'
    BY <1>1, <1>2, IdleController DEF WorkerTypes, ControllerTypes
  <2>6. WorldTypes'
    <3>1. WorldTypes
      BY DEF IInv, Types
    <3>2. consumer' \in [Requests -> {"None", "Helper", "Running", "Exited"}]
      BY <1>1, <3>1 DEF WorldTypes
    <3> QED
      BY <1>1, <3>1, <3>2 DEF WorldTypes
  <2> QED
    BY <2>1, <2>2, <2>3, <2>4, <2>5, <2>6 DEF Types
<1>5. Mutexes'
  BY <1>1, <1>2, IdleController, FreeGates, FreeIsNotWorker DEF Mutexes, HoldsGate, HoldsRelease
<1>6. Records' /\ NoOrphanedClaim'
  BY <1>3 DEF Records, NoOrphanedClaim
<1>7. Registered' /\ Claimed' /\ Authorized'
  BY <1>1, <1>2 DEF Registered, Claimed, Authorized, Delivering, Posting, Ending
<1>8. ASSUME NEW r \in Requests
      PROVE  Once(r)'
  BY <1>1, <1>2, <1>3 DEF IInv, Once, Delivering, Posting
<1>9. ASSUME NEW c \in Controllers
      PROVE  Achieved(c)'
  <2>1. ctl'[c] = IdleCtl
    BY <1>1
  <2> QED
    BY <2>1, IdleAchieved
<1>10. ASSUME NEW r \in settled'
       PROVE  Quiet(r)'
  <2>1. r \in Requests /\ Quiet(r)
    BY <1>1 DEF IInv, Types, WorldTypes
  <2>2. r \notin executions'
    BY <1>1
  <2>3. CASE Spoken(r)
    <3>1. RecordStep(store.requests[r], store'.requests[r])
      BY <1>3, <2>1
    <3> QED
      BY <2>2, <2>3, <3>1, StepKeepsSpoken DEF Quiet, Spoken
  <2>4. CASE OwnerOf[r] # Human /\ Revoked(OwnerOf[r])
    BY <1>1, <1>3, <2>2, <2>4 DEF Quiet, Revoked
  <2> QED
    BY <2>1, <2>3, <2>4 DEF Quiet
<1>11. Lawfully
  BY <1>1, <1>3 DEF Lawfully
<1> QED
  BY <1>4, <1>5, <1>6, <1>7, <1>8, <1>9, <1>10, <1>11 DEF IInv

-----------------------------------------------------------------------------
(* The worker, while its execution is registered.                          *)

Busy == Delivering \cup Posting \cup Ending

LEMMA BusyState ==
    ASSUME IInv, w.pc \in Busy
    PROVE  /\ w \in WorkerRecord /\ w.r \in Requests /\ executions = {w.r}
           /\ store.requests[w.r].claimed
           /\ gate = Worker <=> w.pc \in HoldsGate
           /\ release_gate = Worker <=> w.pc \in {"deliver", "post"}
           /\ gate \in {Free, Worker} \cup Controllers /\ release_gate \in {Free, Worker}
<1>1. w \in WorkerRecord /\ w.r \in Requests
  BY DEF IInv, Types, WorkerTypes, Busy, Delivering, Posting, Ending
<1>2. executions = {w.r}
  BY DEF IInv, Registered, Busy
<1>3. store.requests[w.r].claimed
  BY DEF IInv, Claimed, Executing, Busy, Ending
<1>4. /\ gate = Worker <=> w.pc \in HoldsGate
      /\ release_gate = Worker <=> w.pc \in {"deliver", "post"}
  BY DEF IInv, Mutexes, HoldsRelease, Busy, Delivering, Posting, Ending
<1>5. gate \in {Free, Worker} \cup Controllers /\ release_gate \in {Free, Worker}
  BY DEF IInv, Types, MutexTypes
<1> QED
  BY <1>1, <1>2, <1>3, <1>4, <1>5

LEMMA WorkerMove ==
    ASSUME IInv, w.pc \in Busy, NEW pc \in Busy, NEW report \in Reports,
           w' = [w EXCEPT !.pc = pc, !.report = report],
           store' \in Store, poisoned' \in BOOLEAN, poisoned => poisoned', auth' \in Authority,
           gate' \in {Free, Worker} \cup Controllers, release_gate' \in {Free, Worker},
           gate' = Worker <=> pc \in HoldsGate,
           gate' = gate \/ {gate, gate'} \subseteq {Free, Worker},
           release_gate' = Worker <=> pc \in {"deliver", "post"},
           closing' \in BOOLEAN, closing => closing', cleanup_uncertain' \in BOOLEAN,
           published' = published, denied' = denied, executions' = executions, cancel' = cancel,
           undispatched' = undispatched, queue' = queue, ctl' = ctl, settled' = settled,
           consumer' \in [Requests -> {"None", "Helper", "Running", "Exited"}],
           released' \in [Requests -> Nat], posted' \in [Requests -> Nat],
           \A r \in Requests : r # w.r =>
                /\ Evolves(store.requests[r], store'.requests[r])
                /\ released'[r] = released[r] /\ posted'[r] = posted[r],
           RecordStep(store.requests[w.r], store'.requests[w.r]), Lawful(store'.requests[w.r]),
           store.revoked \subseteq store'.revoked,
           Claimed', Authorized', Once(w.r)',
           released' = released \/ deliver, posted' = posted \/ post
    PROVE  IInv' /\ Lawfully
<1>1. w \in WorkerRecord /\ w.r \in Requests /\ executions = {w.r}
  BY BusyState
<1>2. pc \in Steps
  BY DEF Busy, Steps
<1>3. w' \in WorkerRecord /\ w'.pc = pc /\ w'.r = w.r
  BY <1>1, <1>2 DEF WorkerRecord
<1>4. Types'
  <2>1. DurableTypes' /\ AuthorityTypes' /\ MutexTypes'
    BY DEF DurableTypes, AuthorityTypes, MutexTypes
  <2>2. FlagTypes' /\ WorkTypes'
    BY OldTypes DEF FlagTypes, WorkTypes
  <2>3. WorkerTypes'
    BY <1>1, <1>3 DEF WorkerTypes
  <2>4. ControllerTypes' /\ WorldTypes'
    BY DEF IInv, Types, ControllerTypes, WorldTypes
  <2> QED
    BY <2>1, <2>2, <2>3, <2>4 DEF Types
<1>5. Mutexes'
  <2>1. (release_gate' = Worker) <=> HoldsRelease'
    BY <1>3 DEF HoldsRelease, Busy, Delivering, Posting, Ending
  <2>2. ASSUME NEW c \in Controllers
        PROVE  (gate' = c) <=> (ctl'[c].pc = "cancel_recheck")
    <3>1. (gate = c) <=> (ctl[c].pc = "cancel_recheck")
      BY DEF IInv, Mutexes
    <3> QED
      BY <3>1, FreeGates
  <2> QED
    BY <1>3, <2>1, <2>2 DEF Mutexes
<1>6. \A r \in Requests : RecordStep(store.requests[r], store'.requests[r])
  BY DEF RecordStep
<1>7. Records'
  BY DEF Records, Evolves
<1>8. Registered'
  BY <1>1, <1>3 DEF Registered, Busy
<1>9. NoOrphanedClaim'
  <2> SUFFICES ASSUME NEW r \in Requests, Executing(store'.requests[r]),
                      ~closing', ~poisoned'
               PROVE  r = w.r
    BY <1>1, <1>3 DEF NoOrphanedClaim
  <2>1. CASE r # w.r
    <3>1. Executing(store.requests[r])
      BY <2>1, EvolvesKeeps
    <3> QED
      BY <3>1, <2>1 DEF IInv, NoOrphanedClaim
  <2> QED
    BY <2>1
<1>10. ASSUME NEW r \in Requests
       PROVE  Once(r)'
  <2>1. CASE r = w.r
    BY <2>1, <1>3
  <2>2. CASE r # w.r
    <3>1. store'.requests[r].claimed = store.requests[r].claimed
      BY <2>2, EvolvesKeeps
    <3> QED
      BY <1>3, <2>2, <3>1 DEF IInv, Once
  <2> QED
    BY <2>1, <2>2
<1>11. Onward
  BY <1>6 DEF Onward
<1>12. ASSUME NEW c \in Controllers
       PROVE  Achieved(c)'
  <2>1. Types /\ Achieved(c)
    BY DEF IInv
  <2> QED
    BY <1>11, <2>1, AchievedKept
<1>13. ASSUME NEW r \in settled'
       PROVE  Quiet(r)'
  <2>1. r \in Requests /\ Quiet(r)
    BY DEF IInv, Types, WorldTypes
  <2> QED
    BY <1>11, <2>1, QuietKept
<1>14. Lawfully
  BY <1>6 DEF Lawfully
<1> QED
  BY <1>4, <1>5, <1>7, <1>8, <1>9, <1>10, <1>12, <1>13, <1>14 DEF IInv

(* A step that releases and posts nothing and ends no claim.               *)
LEMMA PlainMove ==
    ASSUME IInv, w.pc \in Delivering \cup Posting,
           NEW pc \in Delivering \cup Posting \cup {"finish"}, NEW report \in Reports,
           w' = [w EXCEPT !.pc = pc, !.report = report],
           pc \in Delivering => w.pc \in Delivering,
           Sweep(store, store'), poisoned' \in BOOLEAN, poisoned => poisoned',
           auth' \in Authority,
           gate' \in {Free, Worker} \cup Controllers, release_gate' \in {Free, Worker},
           gate' = Worker <=> pc \in HoldsGate,
           gate' = gate \/ {gate, gate'} \subseteq {Free, Worker},
           release_gate' = Worker <=> pc \in {"deliver", "post"},
           closing' \in BOOLEAN, closing => closing', calm,
           executions' = executions, cancel' = cancel, queue' = queue,
           consumer' \in [Requests -> {"None", "Helper", "Running", "Exited"}],
           released' = released, posted' = posted,
           pc \in {"write", "post_gate", "post"} => store.requests[w.r].status = "Running",
           pc \in {"post_gate", "post"} => w.r \in store'.attempts,
           Authorized'
    PROVE  IInv' /\ Lawfully
<1>1. w.pc \in Busy /\ pc \in Busy
  BY DEF Busy, Ending
<1>2. w \in WorkerRecord /\ w.r \in Requests
  BY <1>1, BusyState
<1>3. w'.pc = pc /\ w'.r = w.r
  BY <1>2 DEF WorkerRecord
<1>4. \A r \in Requests : Evolves(store.requests[r], store'.requests[r])
  BY DEF Sweep
<1>5. /\ Executing(store'.requests[w.r]) /\ store'.requests[w.r].claimed
      /\ store'.requests[w.r].status = store.requests[w.r].status
  <2>1. Executing(store.requests[w.r])
    BY DEF IInv, Claimed
  <2> QED
    BY <1>2, <1>4, <2>1, EvolvesKeeps DEF Executing
<1>6. Claimed'
  <2>1. pc \notin {"claim_sync", "deregister"}
    BY DEF Delivering, Posting
  <2> QED
    BY <1>3, <1>5, <2>1 DEF Claimed
<1>7. Once(w.r)'
  <2>1. Once(w.r)
    BY <1>2 DEF IInv
  <2>2. pc # "claim_sync"
    BY DEF Delivering, Posting
  <2>3. posted[w.r] = 0 /\ (released[w.r] # 0 => pc \notin Delivering)
    BY <2>1 DEF Once
  <2> QED
    BY <1>3, <1>5, <2>2, <2>3 DEF Once
<1>8. /\ cleanup_uncertain' \in BOOLEAN /\ published' = published /\ denied' = denied
      /\ undispatched' = undispatched /\ ctl' = ctl /\ settled' = settled
  <2>1. /\ cleanup_uncertain' = cleanup_uncertain /\ published' = published
        /\ denied' = denied /\ undispatched' = undispatched /\ ctl' = ctl
        /\ settled' = settled
    BY DEF calm
  <2> QED
    BY <2>1, OldTypes
<1>9. released' \in [Requests -> Nat] /\ posted' \in [Requests -> Nat]
  BY DEF IInv, Types, WorldTypes
<1>10. /\ RecordStep(store.requests[w.r], store'.requests[w.r]) /\ Lawful(store'.requests[w.r])
       /\ store' \in Store /\ store.revoked \subseteq store'.revoked
  BY <1>2, <1>4 DEF RecordStep, Sweep, Evolves
<1> QED
  BY <1>1, <1>4, <1>6, <1>7, <1>8, <1>9, <1>10, WorkerMove

(* The worker gives up: it lets go of both mutexes and reports.            *)
LEMMA GivesUp ==
    ASSUME IInv, w.pc \in Delivering \cup Posting, NEW report \in Reports, reported(report),
           Sweep(store, store'), poisoned' \in BOOLEAN, poisoned => poisoned',
           auth' \in Authority,
           gate' = IF w.pc \in HoldsGate THEN Free ELSE gate,
           release_gate' = IF w.pc \in {"deliver", "post"} THEN Free ELSE release_gate,
           closing' \in BOOLEAN, closing => closing', calm,
           executions' = executions, cancel' = cancel, queue' = queue,
           consumer' \in [Requests -> {"None", "Helper", "Running", "Exited"}],
           released' = released, posted' = posted
    PROVE  IInv' /\ Lawfully
<1>1. w.pc \in Busy
  BY DEF Busy
<1>2. /\ w \in WorkerRecord /\ (gate = Worker <=> w.pc \in HoldsGate)
      /\ (release_gate = Worker <=> w.pc \in {"deliver", "post"})
      /\ gate \in {Free, Worker} \cup Controllers /\ release_gate \in {Free, Worker}
  BY <1>1, BusyState
<1>3. w' = [w EXCEPT !.pc = "finish", !.report = report]
  BY DEF reported
<1>4. w'.pc = "finish"
  BY <1>2, <1>3 DEF WorkerRecord
<1>5. Authorized'
  BY <1>4 DEF Authorized
<1>6. "finish" \notin HoldsGate \cup {"deliver", "post", "write", "post_gate"} \cup Delivering
  BY DEF HoldsGate, Delivering
<1>7. gate' # Worker /\ gate' \in {Free, Worker} \cup Controllers
      /\ (gate' = gate \/ {gate, gate'} \subseteq {Free, Worker})
  BY <1>2, FreeIsNotWorker
<1>8. release_gate' # Worker /\ release_gate' \in {Free, Worker}
  BY <1>2, FreeIsNotWorker
<1>9. "finish" \in Delivering \cup Posting \cup {"finish"}
  OBVIOUS
<1> QED
  BY <1>3, <1>5, <1>6, <1>7, <1>8, <1>9, PlainMove

(* The worker goes on, with the session as it was.                         *)
LEMMA Proceeds ==
    ASSUME IInv, w.pc \in Delivering \cup Posting, NEW pc \in Delivering \cup Posting, goto(pc),
           pc \in Delivering => w.pc \in Delivering,
           Sweep(store, store'), poisoned' = poisoned, auth' = auth,
           pc \in HoldsGate => gate = Free \/ w.pc \in HoldsGate,
           gate' = IF pc \in HoldsGate THEN Worker
                   ELSE IF w.pc \in HoldsGate THEN Free ELSE gate,
           w.pc \notin {"deliver", "post"},
           release_gate' = IF pc \in {"deliver", "post"} THEN Worker ELSE release_gate,
           closing' = closing, calm,
           executions' = executions, cancel' = cancel, queue' = queue,
           consumer' \in [Requests -> {"None", "Helper", "Running", "Exited"}],
           released' = released, posted' = posted,
           pc \in {"write", "post_gate", "post"} => store.requests[w.r].status = "Running",
           pc \in {"post_gate", "post"} => w.r \in store'.attempts,
           Authorized'
    PROVE  IInv' /\ Lawfully
<1>1. w.pc \in Busy
  BY DEF Busy
<1>2. /\ w \in WorkerRecord /\ (gate = Worker <=> w.pc \in HoldsGate)
      /\ (release_gate = Worker <=> w.pc \in {"deliver", "post"})
      /\ gate \in {Free, Worker} \cup Controllers /\ release_gate \in {Free, Worker}
  BY <1>1, BusyState
<1>3. w' = [w EXCEPT !.pc = pc, !.report = w.report] /\ w.report \in Reports
  BY <1>2 DEF goto, WorkerRecord
<1>4. /\ gate' = Worker <=> pc \in HoldsGate
      /\ gate' \in {Free, Worker} \cup Controllers
      /\ gate' = gate \/ {gate, gate'} \subseteq {Free, Worker}
  BY <1>2, FreeIsNotWorker
<1>5. /\ release_gate' = Worker <=> pc \in {"deliver", "post"}
      /\ release_gate' \in {Free, Worker}
  BY <1>2, FreeIsNotWorker
<1>6. closing' \in BOOLEAN /\ (closing => closing')
  BY ClosingGrows
<1>7. poisoned' \in BOOLEAN /\ auth' \in Authority
  BY LawfulStore
<1> QED
  BY <1>3, <1>4, <1>5, <1>6, <1>7, PlainMove

LEMMA SameWorld ==
    ASSUME IInv
    PROVE  /\ consumer \in [Requests -> {"None", "Helper", "Running", "Exited"}]
           /\ released \in [Requests -> Nat] /\ posted \in [Requests -> Nat]
           /\ \A x \in Requests, to \in {"None", "Helper", "Running", "Exited"} :
                [consumer EXCEPT ![x] = to] \in [Requests -> {"None", "Helper", "Running", "Exited"}]
BY DEF IInv, Types, WorldTypes

LEMMA ClosingStays ==
    ASSUME IInv, closing' = closing
    PROVE  closing' \in BOOLEAN /\ (closing => closing')
BY ClosingGrows

LEMMA StoreStays ==
    ASSUME IInv, UNCHANGED <<durable, auth>>
    PROVE  /\ Sweep(store, store') /\ poisoned' \in BOOLEAN /\ (poisoned => poisoned')
           /\ poisoned' = poisoned /\ auth' = auth /\ store' = store /\ auth' \in Authority
BY NothingWritten DEF durable

LEMMA Prepare ==
    ASSUME IInv, prepare
    PROVE  IInv' /\ Lawfully
<1>1. /\ w.pc = "prepare" /\ gate = Free /\ release_gate' = release_gate /\ closing' = closing
      /\ executions' = executions /\ cancel' = cancel /\ queue' = queue /\ calm
      /\ consumer' = consumer /\ released' = released /\ posted' = posted
  BY DEF prepare, idle_world
<1>2. /\ w.pc \in Delivering \cup Posting /\ w.pc \notin HoldsGate /\ w.pc \in Delivering
      /\ w.pc \notin {"deliver", "post"}
  BY <1>1 DEF Delivering, HoldsGate
<1>3. CASE gate' = Worker /\ goto("resolve") /\ UNCHANGED <<durable, auth>>
  <2>1. "resolve" \in Delivering \cup Posting /\ "resolve" \in HoldsGate
    BY DEF Delivering, HoldsGate
  <2>2. Authorized'
    <3>1. w'.pc = "resolve"
      BY <1>3 DEF goto, IInv, Types, WorkerTypes, WorkerRecord
    <3> QED
      BY <3>1 DEF Authorized
  <2> QED
    BY <1>1, <1>2, <1>3, <2>1, <2>2, StoreStays, SameWorld, Proceeds
<1>4. CASE /\ reported("not_started") /\ gate' = gate
           /\ execution_refused(w.r) \/ UNCHANGED <<durable, auth>>
  <2>1. Safe
    BY <1>4, LawfulStore, RefusedSafe, UnchangedSafe
  <2>2. "not_started" \in Reports
    BY DEF Reports
  <2> QED
    BY <1>1, <1>2, <1>4, <2>1, <2>2, ClosingStays, SameWorld, GivesUp DEF Safe
<1> QED
  BY <1>3, <1>4 DEF prepare

LEMMA Resolve ==
    ASSUME IInv, resolve
    PROVE  IInv' /\ Lawfully
<1>1. /\ w.pc = "resolve" /\ gate' = Free /\ release_gate' = release_gate /\ closing' = closing
      /\ executions' = executions /\ cancel' = cancel /\ queue' = queue /\ calm
      /\ consumer' = consumer /\ released' = released /\ posted' = posted
  BY DEF resolve, idle_world
<1>2. /\ w.pc \in Delivering \cup Posting /\ w.pc \in HoldsGate /\ w.pc \in Delivering
      /\ w.pc \notin {"deliver", "post"}
  BY <1>1 DEF Delivering, HoldsGate
<1>3. CASE goto("launch") /\ UNCHANGED <<durable, auth>>
  <2>1. "launch" \in Delivering \cup Posting /\ "launch" \notin HoldsGate
    BY DEF Delivering, HoldsGate
  <2>2. Authorized'
    <3>1. w'.pc = "launch"
      BY <1>3 DEF goto, IInv, Types, WorkerTypes, WorkerRecord
    <3> QED
      BY <3>1 DEF Authorized
  <2> QED
    BY <1>1, <1>2, <1>3, <2>1, <2>2, StoreStays, SameWorld, Proceeds
<1>4. CASE /\ reported("not_started")
           /\ execution_refused(w.r) \/ UNCHANGED <<durable, auth>>
  <2>1. Safe
    BY <1>4, LawfulStore, RefusedSafe, UnchangedSafe
  <2>2. "not_started" \in Reports
    BY DEF Reports
  <2> QED
    BY <1>1, <1>2, <1>4, <2>1, <2>2, ClosingStays, SameWorld, GivesUp DEF Safe
<1> QED
  BY <1>3, <1>4 DEF resolve

LEMMA Launch ==
    ASSUME IInv, launch
    PROVE  IInv' /\ Lawfully
<1>1. /\ w.pc = "launch" /\ gate' = gate /\ release_gate' = release_gate /\ closing' = closing
      /\ executions' = executions /\ cancel' = cancel /\ queue' = queue /\ calm
      /\ UNCHANGED <<durable, auth>> /\ released' = released /\ posted' = posted
  BY DEF launch
<1>2. /\ w.pc \in Delivering \cup Posting /\ w.pc \notin HoldsGate /\ w.pc \in Delivering
      /\ w.pc \notin {"deliver", "post"} /\ w.pc \in Busy
  BY <1>1 DEF Delivering, HoldsGate, Busy
<1>3. CASE goto("ready") /\ consumer' = [consumer EXCEPT ![w.r] = "Helper"]
  <2>1. "ready" \in Delivering \cup Posting /\ "ready" \notin HoldsGate
    BY DEF Delivering, HoldsGate
  <2>2. Authorized'
    <3>1. w'.pc = "ready"
      BY <1>3 DEF goto, IInv, Types, WorkerTypes, WorkerRecord
    <3> QED
      BY <3>1 DEF Authorized
  <2>3. consumer' \in [Requests -> {"None", "Helper", "Running", "Exited"}]
    BY <1>2, <1>3, BusyState, SameWorld
  <2> QED
    BY <1>1, <1>2, <1>3, <2>1, <2>2, <2>3, StoreStays, Proceeds
<1>4. CASE reported("not_started") /\ UNCHANGED consumer
  <2>1. "not_started" \in Reports
    BY DEF Reports
  <2> QED
    BY <1>1, <1>2, <1>4, <2>1, StoreStays, ClosingStays, SameWorld, GivesUp
<1> QED
  BY <1>3, <1>4 DEF launch

LEMMA Unreleased ==
    ASSUME IInv, w.pc \in Busy, unreleased
    PROVE  /\ reported("failed") /\ "failed" \in Reports
           /\ consumer' \in [Requests -> {"None", "Helper", "Running", "Exited"}]
BY BusyState, SameWorld DEF unreleased, Reports

LEMMA Abandon ==
    ASSUME IInv, abandon
    PROVE  IInv' /\ Lawfully
<1>1. /\ w.pc = "ready" /\ gate' = gate /\ release_gate' = release_gate /\ unreleased
      /\ executions' = executions /\ cancel' = cancel /\ queue' = queue /\ calm
      /\ UNCHANGED <<durable, auth>> /\ released' = released /\ posted' = posted
  BY DEF abandon
<1>2. /\ w.pc \in Delivering \cup Posting /\ w.pc \notin HoldsGate
      /\ w.pc \notin {"deliver", "post"} /\ w.pc \in Busy
  BY <1>1 DEF Delivering, HoldsGate, Busy
<1>3. closing' = closing \/ closing' = TRUE
  BY DEF abandon, close_admission
<1> QED
  BY <1>1, <1>2, <1>3, StoreStays, ClosingGrows, Unreleased, GivesUp

LEMMA ReleaseChecks ==
    ASSUME IInv, release_checks
    PROVE  IInv' /\ Lawfully
<1>1. /\ w.pc = "ready" /\ gate = Free /\ release_gate' = release_gate /\ closing' = closing
      /\ executions' = executions /\ cancel' = cancel /\ queue' = queue /\ calm
      /\ released' = released /\ posted' = posted
  BY DEF release_checks
<1>2. /\ w.pc \in Delivering \cup Posting /\ w.pc \notin HoldsGate /\ w.pc \in Delivering
      /\ w.pc \notin {"deliver", "post"} /\ w.pc \in Busy
  BY <1>1 DEF Delivering, HoldsGate, Busy
<1>3. CASE /\ execution_live_current(w.r) /\ execution_delivery(w.r, {"Approved", "Running"})
           /\ gate' = Worker /\ goto("release_gate") /\ UNCHANGED <<durable, auth, consumer>>
  <2>1. "release_gate" \in Delivering \cup Posting /\ "release_gate" \in HoldsGate
        /\ "release_gate" \notin {"deliver", "post", "write", "post_gate"}
    BY DEF Delivering, HoldsGate
  <2>2. Authorized'
    <3>1. w'.pc = "release_gate" /\ w'.r = w.r
      BY <1>3 DEF goto, IInv, Types, WorkerTypes, WorkerRecord
    <3>2. auth' = auth /\ store' = store
      BY <1>3 DEF durable
    <3>3. auth.session = "Live" /\ auth.limits[w.r] = "Live" /\ store.requests[w.r].current
      BY <1>3 DEF execution_live_current, execution_live, admitted, execution_delivery
    <3> QED
      BY <3>1, <3>2, <3>3 DEF Authorized
  <2>3. consumer' = consumer /\ UNCHANGED <<durable, auth>>
    BY <1>3
  <2> QED
    BY <1>1, <1>2, <1>3, <2>1, <2>2, <2>3, StoreStays, SameWorld, Proceeds
<1>4. CASE execution_refused(w.r) /\ unreleased /\ UNCHANGED gate
  <2>1. Safe
    BY <1>4, LawfulStore, RefusedSafe
  <2> QED
    BY <1>1, <1>2, <1>4, <2>1, ClosingStays, Unreleased, GivesUp DEF Safe
<1> QED
  BY <1>3, <1>4 DEF release_checks

LEMMA ReleaseTakesGate ==
    ASSUME IInv, release_takes_gate
    PROVE  IInv' /\ Lawfully
<1>1. /\ w.pc = "release_gate" /\ release_gate = Free /\ closing' = closing
      /\ executions' = executions /\ cancel' = cancel /\ queue' = queue /\ calm
      /\ UNCHANGED <<durable, auth>> /\ released' = released /\ posted' = posted
  BY DEF release_takes_gate
<1>2. /\ w.pc \in Delivering \cup Posting /\ w.pc \in HoldsGate /\ w.pc \in Delivering
      /\ w.pc \notin {"deliver", "post"} /\ w.pc \in Busy
  BY <1>1 DEF Delivering, HoldsGate, Busy
<1>3. gate = Worker
  BY <1>2, BusyState
<1>4. CASE live_fast(w.r) /\ release_gate' = Worker /\ goto("deliver")
           /\ UNCHANGED <<gate, consumer>>
  <2>1. "deliver" \in Delivering \cup Posting /\ "deliver" \in HoldsGate
    BY DEF Delivering, HoldsGate
  <2>2. Authorized'
    <3>1. w'.pc = "deliver" /\ w'.r = w.r /\ w'.stale = w.stale
      BY <1>4 DEF goto, IInv, Types, WorkerTypes, WorkerRecord
    <3>2. auth' = auth /\ store' = store /\ denied' = denied /\ closing' = closing
          /\ cancel' = cancel
      BY <1>1 DEF durable, calm
    <3>3. auth.session # "None" /\ auth.limits[w.r] # "None" /\ store.requests[w.r].current
      BY <1>1 DEF IInv, Authorized
    <3>4. ~closing /\ w.r \notin cancel /\ token_live(w.r) /\ ~w.stale
      BY <1>4 DEF live_fast
    <3>5. token_live(w.r)'
      BY <3>1, <3>2, <3>4 DEF token_live
    <3> QED
      BY <3>1, <3>2, <3>3, <3>4, <3>5 DEF Authorized
  <2>3. consumer' = consumer /\ gate' = Worker
    BY <1>3, <1>4
  <2> QED
    BY <1>1, <1>2, <1>4, <2>1, <2>2, <2>3, StoreStays, SameWorld, Proceeds
<1>5. CASE gate' = Free /\ unreleased /\ UNCHANGED release_gate
  BY <1>1, <1>2, <1>5, StoreStays, ClosingStays, Unreleased, GivesUp
<1> QED
  BY <1>4, <1>5 DEF release_takes_gate

(* A step that leaves the store alone, releases or posts: WorkerMove with  *)
(* the store as it was.                                                    *)
LEMMA SameRecords ==
    ASSUME IInv, store' = store
    PROVE  /\ store' \in Store /\ store.revoked \subseteq store'.revoked
           /\ \A r \in Requests :
                /\ Evolves(store.requests[r], store'.requests[r])
                /\ RecordStep(store.requests[r], store'.requests[r])
                /\ Lawful(store'.requests[r])
<1>1. Sweep(store, store')
  BY LawfulStore, SameSweeps
<1> QED
  BY <1>1 DEF Sweep, RecordStep, Evolves

LEMMA Deliver ==
    ASSUME IInv, deliver
    PROVE  IInv' /\ Lawfully
<1>1. /\ w.pc = "deliver" /\ gate' = Free /\ release_gate' = Free /\ closing' = closing
      /\ executions' = executions /\ cancel' = cancel /\ queue' = queue /\ calm
      /\ UNCHANGED <<durable, auth>> /\ posted' = posted
  BY DEF deliver
<1>2. /\ w.pc \in Delivering \cup Posting /\ w.pc \in HoldsGate /\ w.pc \in Delivering
      /\ w.pc \in {"deliver", "post"} /\ w.pc \in Busy
  BY <1>1 DEF Delivering, HoldsGate, Busy
<1>3. CASE unreleased /\ UNCHANGED released
  BY <1>1, <1>2, <1>3, StoreStays, ClosingStays, Unreleased, GivesUp
<1>4. CASE /\ goto("observe")
           /\ consumer' = [consumer EXCEPT ![w.r] = "Running"]
           /\ released' = [released EXCEPT ![w.r] = @ + 1]
  <2>1. w \in WorkerRecord /\ w.r \in Requests /\ store.requests[w.r].claimed /\ gate = Worker
    BY <1>2, BusyState
  <2>2. /\ w' = [w EXCEPT !.pc = "observe", !.report = w.report] /\ w.report \in Reports
        /\ w'.pc = "observe" /\ w'.r = w.r
    BY <1>4, <2>1 DEF goto, WorkerRecord
  <2>3. /\ "observe" \in Posting /\ "observe" \in Busy /\ "observe" \notin HoldsGate
        /\ "observe" \notin Delivering
    BY DEF Posting, Busy, HoldsGate, Delivering
  <2>4. /\ consumer' \in [Requests -> {"None", "Helper", "Running", "Exited"}]
        /\ released' \in [Requests -> Nat] /\ posted' \in [Requests -> Nat]
    BY <1>1, <1>4, <2>1, SameWorld
  <2>5. \A r \in Requests : r # w.r => released'[r] = released[r] /\ posted'[r] = posted[r]
    BY <1>1, <1>4, SameWorld
  <2>6. store' = store /\ poisoned' = poisoned /\ auth' = auth
    BY <1>1 DEF durable
  <2>7. Claimed'
    <3>1. Executing(store.requests[w.r])
      BY <1>2 DEF IInv, Claimed
    <3> QED
      BY <2>2, <2>6, <3>1 DEF Claimed
  <2>8. Authorized'
    BY <2>2 DEF Authorized
  <2>9. Once(w.r)'
    <3>1. posted[w.r] = 0
      BY <1>2, <2>1 DEF IInv, Once
    <3> QED
      BY <1>1, <2>1, <2>2, <2>3, <2>6, <3>1 DEF Once
  <2>10. /\ cleanup_uncertain' = cleanup_uncertain /\ published' = published
         /\ denied' = denied /\ undispatched' = undispatched /\ ctl' = ctl
         /\ settled' = settled
    BY <1>1 DEF calm
  <2>11. poisoned' \in BOOLEAN /\ (poisoned => poisoned') /\ auth' \in Authority
         /\ closing' \in BOOLEAN /\ (closing => closing')
    BY <1>1, StoreStays, ClosingStays
  <2>12. cleanup_uncertain' \in BOOLEAN
    BY <2>10, OldTypes
  <2>13. /\ \A r \in Requests : Evolves(store.requests[r], store'.requests[r])
         /\ RecordStep(store.requests[w.r], store'.requests[w.r])
         /\ Lawful(store'.requests[w.r])
         /\ store' \in Store /\ store.revoked \subseteq store'.revoked
    BY <2>1, <2>6, SameRecords
  <2>14. /\ gate' \in {Free, Worker} \cup Controllers /\ release_gate' \in {Free, Worker}
         /\ gate' # Worker /\ {gate, gate'} \subseteq {Free, Worker} /\ release_gate' # Worker
    BY <1>1, <2>1, FreeIsNotWorker
  <2> QED
    BY <1>1, <1>2, <2>2, <2>3, <2>4, <2>5, <2>7, <2>8, <2>9, <2>10, <2>11, <2>12, <2>13,
       <2>14, WorkerMove
<1> QED
  BY <1>3, <1>4 DEF deliver

LEMMA Started ==
    ASSUME IInv, started
    PROVE  IInv' /\ Lawfully
<1> DEFINE p == store.requests[w.r]
           q == [p EXCEPT !.status = "Running"]
           new == set_request(w.r, q)
<1>1. /\ w.pc = "observe" /\ gate = Free /\ p.status = "Approved"
      /\ gate' = gate /\ release_gate' = release_gate
      /\ executions' = executions /\ cancel' = cancel /\ queue' = queue /\ calm
      /\ auth' = auth /\ consumer' = consumer /\ released' = released /\ posted' = posted
      /\ \/ wrote(new) /\ UNCHANGED <<closing, w>>
         \/ write_failed(new) /\ close_admission /\ reported("lost")
  BY DEF started, idle_world
<1>2. w.pc \in Posting /\ w.pc \in Busy /\ w.pc \notin HoldsGate /\ w.pc \notin Delivering
      /\ w.pc \notin {"deliver", "post"}
  BY <1>1 DEF Posting, Busy, HoldsGate, Delivering
<1>3. /\ w \in WorkerRecord /\ w.r \in Requests /\ p.claimed
      /\ gate # Worker /\ gate \in {Free, Worker} \cup Controllers
      /\ release_gate # Worker /\ release_gate \in {Free, Worker}
  BY <1>2, BusyState
<1>4. p \in Record /\ q \in Record /\ q.status = "Running" /\ q.claimed
  <2>1. p \in Record
    BY <1>3, LawfulStore
  <2> HIDE DEF p
  <2> QED
    BY <1>3, <2>1 DEF Record
<1>5. Lawful(q) /\ RecordStep(p, q) /\ Executing(q)
  BY <1>1, <1>3, <1>4 DEF Lawful, RecordStep, Executing
<1> HIDE DEF q
<1>6. /\ new \in Store /\ new.revoked = store.revoked /\ new.attempts = store.attempts
      /\ \A x \in Requests : new.requests[x] = IF x = w.r THEN q ELSE store.requests[x]
  BY <1>3, <1>4, LawfulStore, PutStore
<1> HIDE DEF new
<1>7. store' \in {store, new} /\ poisoned' \in BOOLEAN /\ (poisoned => poisoned')
  BY <1>1, Written, LawfulStore
<1>8. /\ store' \in Store /\ store.revoked \subseteq store'.revoked
      /\ \A r \in Requests : r # w.r => Evolves(store.requests[r], store'.requests[r])
      /\ RecordStep(p, store'.requests[w.r]) /\ Lawful(store'.requests[w.r])
      /\ Executing(store'.requests[w.r])
  <2>1. CASE store' = store
    <3>1. Executing(p)
      BY <1>2 DEF IInv, Claimed
    <3> QED
      BY <1>3, <2>1, <3>1, SameRecords
  <2>2. CASE store' = new
    <3>1. store'.requests[w.r] = q
      BY <1>3, <1>6, <2>2
    <3>2. ASSUME NEW r \in Requests, r # w.r
          PROVE  Evolves(store.requests[r], store'.requests[r])
      <4>1. store'.requests[r] = store.requests[r] /\ store.requests[r] \in Record
            /\ Lawful(store.requests[r])
        BY <1>6, <2>2, <3>2, LawfulStore
      <4> QED
        BY <4>1, SameEvolves
    <3> QED
      BY <1>5, <1>6, <2>2, <3>1, <3>2
  <2> QED
    BY <1>7, <2>1, <2>2
<1>9. PICK pc \in {"observe", "finish"}, report \in Reports :
        w' = [w EXCEPT !.pc = pc, !.report = report]
  <2>1. CASE w' = w
    <3>1. w = [w EXCEPT !.pc = "observe", !.report = w.report] /\ w.report \in Reports
      BY <1>1, <1>3 DEF WorkerRecord
    <3> QED
      BY <2>1, <3>1
  <2>2. CASE reported("lost")
    BY <2>2 DEF reported, Reports
  <2> QED
    BY <1>1, <2>1, <2>2
<1>10. w'.pc = pc /\ w'.r = w.r
  BY <1>3, <1>9 DEF WorkerRecord
<1>11. pc \in Busy /\ pc \notin HoldsGate /\ pc \notin Delivering \cup {"claim_sync"}
       /\ pc \notin {"deliver", "post"}
  BY DEF Busy, Posting, Ending, HoldsGate, Delivering
<1>12. Claimed' /\ Authorized'
  BY <1>8, <1>10 DEF Claimed, Authorized
<1>13. Once(w.r)'
  <2>1. posted[w.r] = 0
    BY <1>2, <1>3 DEF IInv, Once
  <2>2. store'.requests[w.r].claimed
    BY <1>8 DEF Executing
  <2> QED
    BY <1>1, <1>10, <1>11, <2>1, <2>2 DEF Once
<1>14. /\ cleanup_uncertain' = cleanup_uncertain /\ published' = published
       /\ denied' = denied /\ undispatched' = undispatched /\ ctl' = ctl
       /\ settled' = settled
  BY <1>1 DEF calm
<1>15. closing' \in BOOLEAN /\ (closing => closing')
  <2>1. closing' = closing \/ closing' = TRUE
    BY <1>1 DEF close_admission
  <2> QED
    BY <2>1, ClosingGrows
<1>16. auth' \in Authority /\ cleanup_uncertain' \in BOOLEAN
  BY <1>1, <1>14, LawfulStore, OldTypes
<1>17. /\ consumer' \in [Requests -> {"None", "Helper", "Running", "Exited"}]
       /\ released' \in [Requests -> Nat] /\ posted' \in [Requests -> Nat]
  BY <1>1, SameWorld
<1> HIDE DEF p
<1> QED
  BY <1>1, <1>2, <1>3, <1>7, <1>8, <1>9, <1>11, <1>12, <1>13, <1>14, <1>15, <1>16, <1>17,
     WorkerMove DEF p

LEMMA ObserveExit ==
    ASSUME IInv, observe_exit
    PROVE  IInv' /\ Lawfully
<1>1. /\ w.pc = "observe" /\ store.requests[w.r].status = "Running"
      /\ gate' = gate /\ release_gate' = release_gate /\ closing' = closing
      /\ executions' = executions /\ cancel' = cancel /\ queue' = queue /\ calm
      /\ UNCHANGED <<durable, auth>> /\ consumer' = consumer /\ released' = released
      /\ posted' = posted
  BY DEF observe_exit, idle_world
<1>2. w.pc \in Posting /\ w.pc \in Busy /\ w.pc \notin HoldsGate
      /\ w.pc \notin {"deliver", "post"} /\ w.pc \in Delivering \cup Posting
  BY <1>1 DEF Posting, Busy, HoldsGate
<1>3. /\ w \in WorkerRecord
      /\ gate # Worker /\ gate \in {Free, Worker} \cup Controllers
      /\ release_gate # Worker /\ release_gate \in {Free, Worker}
  BY <1>2, BusyState
<1>4. PICK pc \in {"write", "finish"}, report \in Reports :
        w' = [w EXCEPT !.pc = pc, !.report = report]
  BY DEF observe_exit, Reports
<1>5. w'.pc = pc
  BY <1>3, <1>4 DEF WorkerRecord
<1>6. Authorized'
  BY <1>5 DEF Authorized
<1>7. pc \notin HoldsGate /\ pc \notin Delivering
      /\ pc \in Delivering \cup Posting \cup {"finish"} /\ pc \notin {"deliver", "post_gate", "post"}
  BY DEF HoldsGate, Delivering, Posting
<1> QED
  BY <1>1, <1>2, <1>3, <1>4, <1>6, <1>7, StoreStays, ClosingStays, SameWorld, PlainMove

LEMMA ObservationLost ==
    ASSUME IInv, observation_lost
    PROVE  IInv' /\ Lawfully
<1>1. /\ w.pc = "observe"
      /\ gate' = gate /\ release_gate' = release_gate /\ closing' = closing
      /\ executions' = executions /\ cancel' = cancel /\ queue' = queue /\ calm
      /\ UNCHANGED <<durable, auth>> /\ consumer' = consumer /\ released' = released
      /\ posted' = posted
  BY DEF observation_lost, idle_world
<1>2. w.pc \in Delivering \cup Posting /\ w.pc \notin HoldsGate /\ w.pc \notin {"deliver", "post"}
  BY <1>1 DEF Posting, HoldsGate
<1>3. PICK report \in Reports : reported(report)
  BY DEF observation_lost, Reports
<1> QED
  BY <1>1, <1>2, <1>3, StoreStays, ClosingStays, SameWorld, GivesUp

LEMMA Write ==
    ASSUME IInv, write
    PROVE  IInv' /\ Lawfully
<1> DEFINE new == [store EXCEPT !.attempts = store.attempts \cup {w.r}]
<1>1. /\ w.pc = "write" /\ gate = Free
      /\ release_gate' = release_gate /\ closing' = closing
      /\ executions' = executions /\ cancel' = cancel /\ queue' = queue /\ calm
      /\ consumer' = consumer /\ released' = released /\ posted' = posted
  BY DEF write, idle_world
<1>2. /\ w.pc \in Delivering \cup Posting /\ w.pc \notin HoldsGate /\ w.pc \in Busy
      /\ w.pc \notin {"deliver", "post"}
  BY <1>1 DEF Posting, HoldsGate, Busy
<1>3. w.r \in Requests
  BY <1>2, BusyState
<1>4. new \in Store /\ new.requests = store.requests /\ new.revoked = store.revoked
      /\ new.attempts = store.attempts \cup {w.r}
  BY <1>3, LawfulStore DEF Store
<1>5. Sweep(store, new)
  <2>1. Sweep(store, store)
    BY LawfulStore, SameSweeps
  <2> HIDE DEF new
  <2> QED
    BY <1>4, <2>1 DEF Sweep
<1>6. CASE wrote(new) /\ gate' = Worker /\ goto("post_gate") /\ UNCHANGED auth
  <2>1. store' = new /\ poisoned' = poisoned /\ auth' = auth
    BY <1>6 DEF wrote
  <2>2. "post_gate" \in Delivering \cup Posting /\ "post_gate" \in HoldsGate
        /\ "post_gate" \notin Delivering
    BY DEF Delivering, Posting, HoldsGate
  <2>3. Authorized'
    <3>1. w'.pc = "post_gate"
      BY <1>6 DEF goto, IInv, Types, WorkerTypes, WorkerRecord
    <3> QED
      BY <3>1 DEF Authorized
  <2>4. store.requests[w.r].status = "Running"
    BY <1>1 DEF IInv, Claimed
  <2>5. w.r \in store'.attempts /\ Sweep(store, store')
    BY <1>4, <1>5, <2>1
  <2> HIDE DEF new
  <2> QED
    BY <1>1, <1>2, <1>6, <2>1, <2>2, <2>3, <2>4, <2>5, SameWorld, Proceeds
<1>7. CASE /\ reported("failed") /\ gate' = gate
           /\ \/ write_failed(new) /\ auth' = auth
              \/ execution_refused(w.r)
              \/ UNCHANGED <<durable, auth>>
  <2>1. Sweep(store, store') /\ poisoned' \in BOOLEAN /\ (poisoned => poisoned')
        /\ auth' \in Authority
    <3> HIDE DEF new
    <3>1. CASE write_failed(new) /\ auth' = auth
      <4>1. store' \in {store, new} /\ poisoned' \in BOOLEAN /\ (poisoned => poisoned')
        BY <3>1, Written, LawfulStore
      <4> QED
        BY <1>5, <3>1, <4>1, LawfulStore, SameSweeps
    <3>2. CASE execution_refused(w.r)
      BY <3>2, LawfulStore, RefusedSafe DEF Safe
    <3>3. CASE UNCHANGED <<durable, auth>>
      BY <3>3, StoreStays
    <3> QED
      BY <1>7, <3>1, <3>2, <3>3
  <2>2. "failed" \in Reports
    BY DEF Reports
  <2> QED
    BY <1>1, <1>2, <1>7, <2>1, <2>2, ClosingStays, SameWorld, GivesUp
<1> QED
  BY <1>6, <1>7 DEF write

LEMMA PostTakesGate ==
    ASSUME IInv, post_takes_gate
    PROVE  IInv' /\ Lawfully
<1>1. /\ w.pc = "post_gate" /\ release_gate = Free /\ closing' = closing
      /\ executions' = executions /\ cancel' = cancel /\ queue' = queue /\ calm
      /\ UNCHANGED <<durable, auth>> /\ consumer' = consumer /\ released' = released
      /\ posted' = posted
  BY DEF post_takes_gate, idle_world
<1>2. /\ w.pc \in Delivering \cup Posting /\ w.pc \in HoldsGate
      /\ w.pc \notin {"deliver", "post"} /\ w.pc \in Busy
  BY <1>1 DEF Posting, HoldsGate, Busy
<1>3. gate = Worker
  BY <1>2, BusyState
<1>4. CASE live_fast(w.r) /\ release_gate' = Worker /\ goto("post") /\ UNCHANGED gate
  <2>1. "post" \in Delivering \cup Posting /\ "post" \in HoldsGate /\ "post" \notin Delivering
    BY DEF Delivering, Posting, HoldsGate
  <2>2. auth' = auth /\ store' = store /\ denied' = denied
    BY <1>1 DEF durable, calm
  <2>3. Authorized'
    <3>1. w'.pc = "post" /\ w'.r = w.r /\ w'.stale = w.stale
      BY <1>4 DEF goto, IInv, Types, WorkerTypes, WorkerRecord
    <3>2. ~closing /\ w.r \notin cancel /\ token_live(w.r) /\ ~w.stale
      BY <1>4 DEF live_fast
    <3>3. token_live(w.r)'
      BY <2>2, <3>1, <3>2 DEF token_live
    <3> QED
      BY <1>1, <3>1, <3>2, <3>3 DEF Authorized
  <2>4. store.requests[w.r].status = "Running" /\ w.r \in store'.attempts
    BY <1>1, <2>2 DEF IInv, Claimed
  <2>5. gate' = Worker
    BY <1>3, <1>4
  <2> QED
    BY <1>1, <1>2, <1>4, <2>1, <2>3, <2>4, <2>5, StoreStays, SameWorld, Proceeds
<1>5. CASE gate' = Free /\ reported("failed") /\ UNCHANGED release_gate
  <2>1. "failed" \in Reports
    BY DEF Reports
  <2> QED
    BY <1>1, <1>2, <1>5, <2>1, StoreStays, ClosingStays, SameWorld, GivesUp
<1> QED
  BY <1>4, <1>5 DEF post_takes_gate

LEMMA Post ==
    ASSUME IInv, post
    PROVE  IInv' /\ Lawfully
<1>1. /\ w.pc = "post" /\ gate' = Free /\ release_gate' = Free /\ closing' = closing
      /\ executions' = executions /\ cancel' = cancel /\ queue' = queue /\ calm
      /\ auth' = auth /\ consumer' = consumer /\ released' = released
  BY DEF post
<1>2. /\ w.pc \in Delivering \cup Posting /\ w.pc \in HoldsGate /\ w.pc \in Posting
      /\ w.pc \in {"deliver", "post"} /\ w.pc \in Busy
  BY <1>1 DEF Posting, HoldsGate, Busy
<1>3. store' = store /\ poisoned' \in BOOLEAN /\ (poisoned => poisoned')
  <2>1. UNCHANGED durable \/ write_failed(store)
    BY DEF post
  <2>2. CASE UNCHANGED durable
    BY <2>2, LawfulStore DEF durable
  <2>3. CASE write_failed(store)
    BY <2>3, Written, LawfulStore
  <2> QED
    BY <2>1, <2>2, <2>3
<1>4. PICK report \in Reports : reported(report)
  BY DEF post, Reports
<1>5. auth' \in Authority /\ Sweep(store, store')
  BY <1>1, <1>3, LawfulStore, SameSweeps
<1>6. CASE posted' = posted
  BY <1>1, <1>2, <1>3, <1>4, <1>5, <1>6, ClosingStays, SameWorld, GivesUp
<1>7. CASE posted' = [posted EXCEPT ![w.r] = @ + 1]
  <2>1. w \in WorkerRecord /\ w.r \in Requests /\ store.requests[w.r].claimed /\ gate = Worker
    BY <1>2, BusyState
  <2>2. w' = [w EXCEPT !.pc = "finish", !.report = report] /\ w'.pc = "finish" /\ w'.r = w.r
    BY <1>4, <2>1 DEF reported, WorkerRecord
  <2>3. "finish" \in Busy /\ "finish" \notin HoldsGate
        /\ "finish" \notin {"claim_sync"} \cup Delivering \cup Posting
    BY DEF Busy, Ending, HoldsGate, Delivering, Posting
  <2>4. /\ consumer' \in [Requests -> {"None", "Helper", "Running", "Exited"}]
        /\ released' \in [Requests -> Nat] /\ posted' \in [Requests -> Nat]
    BY <1>1, <1>7, <2>1, SameWorld
  <2>5. \A r \in Requests : r # w.r => released'[r] = released[r] /\ posted'[r] = posted[r]
    BY <1>1, <1>7, SameWorld
  <2>6. Claimed' /\ Authorized'
    <3>1. Executing(store.requests[w.r])
      BY <1>2 DEF IInv, Claimed
    <3> QED
      BY <1>3, <2>2, <3>1 DEF Claimed, Authorized
  <2>7. Once(w.r)'
    BY <1>3, <2>1, <2>2, <2>3 DEF Once
  <2>8. /\ cleanup_uncertain' = cleanup_uncertain /\ published' = published
        /\ denied' = denied /\ undispatched' = undispatched /\ ctl' = ctl
        /\ settled' = settled
    BY <1>1 DEF calm
  <2>9. closing' \in BOOLEAN /\ (closing => closing') /\ cleanup_uncertain' \in BOOLEAN
    BY <1>1, <2>8, ClosingStays, OldTypes
  <2>10. /\ \A r \in Requests : Evolves(store.requests[r], store'.requests[r])
         /\ RecordStep(store.requests[w.r], store'.requests[w.r])
         /\ Lawful(store'.requests[w.r])
         /\ store' \in Store /\ store.revoked \subseteq store'.revoked
    BY <1>3, <2>1, SameRecords
  <2>11. /\ gate' \in {Free, Worker} \cup Controllers /\ release_gate' \in {Free, Worker}
         /\ gate' # Worker /\ {gate, gate'} \subseteq {Free, Worker} /\ release_gate' # Worker
    BY <1>1, <2>1, FreeIsNotWorker
  <2> QED
    BY <1>1, <1>2, <1>3, <1>5, <2>2, <2>3, <2>4, <2>5, <2>6, <2>7, <2>8, <2>9, <2>10,
       <2>11, WorkerMove
<1> QED
  BY <1>6, <1>7 DEF post

LEMMA Finish ==
    ASSUME IInv, finish
    PROVE  IInv' /\ Lawfully
<1>1. /\ w.pc = "finish" /\ UNCHANGED <<durable, auth>> /\ store' = store
      /\ gate' = gate /\ release_gate' = release_gate
      /\ published' = published /\ denied' = denied /\ executions' = executions
      /\ cancel' = cancel /\ undispatched' = undispatched /\ queue' = queue /\ ctl' = ctl
      /\ consumer' = consumer /\ released' = released /\ posted' = posted
      /\ settled' = settled
  BY DEF finish, durable, work, world
<1>2. w.pc \in Ending /\ w.pc \in Busy /\ w.pc \notin HoldsGate /\ w.pc \notin {"deliver", "post"}
  BY <1>1 DEF Ending, Busy, HoldsGate
<1>3. /\ w \in WorkerRecord /\ w.r \in Requests /\ store.requests[w.r].claimed
      /\ gate # Worker /\ gate \in {Free, Worker} \cup Controllers
      /\ release_gate # Worker /\ release_gate \in {Free, Worker}
  BY <1>2, BusyState
<1>4. PICK pc \in {"settle", "deregister"} :
        goto(pc) /\ (pc = "deregister" => closing' = TRUE)
  BY DEF finish
<1>5. closing' \in BOOLEAN /\ (closing => closing')
  <2>1. closing' = closing \/ closing' = TRUE
    BY DEF finish
  <2> QED
    BY <2>1, ClosingGrows
<1>6. cleanup_uncertain' \in BOOLEAN
  BY OldTypes DEF finish
<1>7. /\ w' = [w EXCEPT !.pc = pc, !.report = w.report] /\ w.report \in Reports
      /\ w'.pc = pc /\ w'.r = w.r
  BY <1>3, <1>4 DEF goto, WorkerRecord
<1>8. pc \in Busy /\ pc \notin HoldsGate /\ pc \notin {"claim_sync"} \cup Delivering \cup Posting
      /\ pc \notin {"deliver", "post"}
  BY DEF Busy, Ending, HoldsGate, Delivering, Posting
<1>9. Claimed' /\ Authorized'
  <2>1. Executing(store.requests[w.r])
    BY <1>1 DEF IInv, Claimed
  <2> QED
    BY <1>1, <1>3, <1>4, <1>7, <1>8, <2>1 DEF Claimed, Authorized
<1>10. Once(w.r)'
  BY <1>1, <1>3, <1>7, <1>8 DEF Once
<1>11. /\ \A r \in Requests : Evolves(store.requests[r], store'.requests[r])
       /\ RecordStep(store.requests[w.r], store'.requests[w.r])
       /\ Lawful(store'.requests[w.r])
       /\ store' \in Store /\ store.revoked \subseteq store'.revoked
  BY <1>1, <1>3, SameRecords
<1> QED
  BY <1>1, <1>2, <1>3, <1>5, <1>6, <1>7, <1>8, <1>9, <1>10, <1>11, StoreStays, SameWorld,
     WorkerMove

LEMMA Settle ==
    ASSUME IInv, settle
    PROVE  IInv' /\ Lawfully
<1> DEFINE p == store.requests[w.r]
           completed == w.report \in {"zero", "zero_detached"}
           q == IF completed THEN [ended(p) EXCEPT !.status = "Completed"] ELSE ended(p)
           new == set_request(w.r, q)
<1>1. /\ w.pc = "settle" /\ goto("deregister")
      /\ gate' = gate /\ release_gate' = release_gate
      /\ cleanup_uncertain' = cleanup_uncertain
      /\ published' = published /\ denied' = denied /\ executions' = executions
      /\ cancel' = cancel /\ undispatched' = undispatched /\ queue' = queue /\ ctl' = ctl
      /\ consumer' = consumer /\ released' = released /\ posted' = posted
      /\ settled' = settled
      /\ \/ wrote(new) /\ UNCHANGED <<auth, closing>>
         \/ /\ closing' = TRUE
            /\ \/ write_failed(new) /\ auth' = cleared(TRUE)
               \/ revoke
  BY DEF settle, work, world
<1>2. w.pc \in Ending /\ w.pc \in Busy /\ w.pc \notin HoldsGate /\ w.pc \notin {"deliver", "post"}
  BY <1>1 DEF Ending, Busy, HoldsGate
<1>3. /\ w \in WorkerRecord /\ w.r \in Requests /\ store.requests[w.r].claimed
      /\ gate # Worker /\ gate \in {Free, Worker} \cup Controllers
      /\ release_gate # Worker /\ release_gate \in {Free, Worker}
  BY <1>2, BusyState
<1>4. p \in Record /\ Executing(p)
  BY <1>1, <1>3, LawfulStore DEF IInv, Claimed
<1>5. q \in Record /\ q.status \in {"Completed", "Ended"} /\ q.claimed
  <2>1. ended(p) \in Record /\ ended(p).status = "Ended" /\ ended(p).claimed
    BY <1>3, <1>4, EndedRecord
  <2>2. CASE completed
    BY <2>1, <2>2 DEF Record
  <2>3. CASE ~completed
    BY <2>1, <2>3
  <2> QED
    BY <2>2, <2>3
<1> HIDE DEF q
<1>6. Lawful(q) /\ RecordStep(p, q) /\ ~Executing(q)
  BY <1>4, <1>5 DEF Lawful, RecordStep, Executing
<1>7. /\ new \in Store /\ new.revoked = store.revoked /\ new.attempts = store.attempts
      /\ \A x \in Requests : new.requests[x] = IF x = w.r THEN q ELSE store.requests[x]
  BY <1>3, <1>5, LawfulStore, PutStore
<1> HIDE DEF new
<1>8. /\ store' \in {store, new} \/ Sweep(store, store')
      /\ poisoned' \in BOOLEAN /\ (poisoned => poisoned') /\ auth' \in Authority
      /\ store' = new \/ closing' = TRUE
  <2>1. CASE wrote(new) /\ UNCHANGED <<auth, closing>>
    BY <2>1, LawfulStore DEF wrote
  <2>2. CASE closing' = TRUE /\ write_failed(new) /\ auth' = cleared(TRUE)
    <3>1. store' \in {store, new} /\ poisoned' \in BOOLEAN /\ (poisoned => poisoned')
      BY <2>2, Written, LawfulStore
    <3> QED
      BY <2>2, <3>1, ClearedType
  <2>3. CASE closing' = TRUE /\ revoke
    BY <2>3, LawfulStore, RevokeSafe DEF Safe
  <2> QED
    BY <1>1, <2>1, <2>2, <2>3
<1>9. /\ store' \in Store /\ store.revoked \subseteq store'.revoked
      /\ \A r \in Requests : r # w.r => Evolves(store.requests[r], store'.requests[r])
      /\ RecordStep(p, store'.requests[w.r]) /\ Lawful(store'.requests[w.r])
      /\ store'.requests[w.r].claimed
      /\ ~Executing(store'.requests[w.r]) \/ closing' = TRUE
  <2>1. CASE store' = new
    <3>1. store'.requests[w.r] = q
      BY <1>3, <1>7, <2>1
    <3>2. ASSUME NEW r \in Requests, r # w.r
          PROVE  Evolves(store.requests[r], store'.requests[r])
      <4>1. store'.requests[r] = store.requests[r] /\ store.requests[r] \in Record
            /\ Lawful(store.requests[r])
        BY <1>7, <2>1, <3>2, LawfulStore
      <4> QED
        BY <4>1, SameEvolves
    <3> QED
      BY <1>5, <1>6, <1>7, <2>1, <3>1, <3>2
  <2>2. CASE store' # new
    <3>1. Sweep(store, store') /\ closing' = TRUE
      BY <1>8, <2>2, LawfulStore, SameSweeps
    <3>2. \A r \in Requests : Evolves(store.requests[r], store'.requests[r])
          /\ Lawful(store'.requests[r])
      BY <3>1 DEF Sweep, Evolves
    <3>3. store'.requests[w.r].claimed
      BY <1>3, <3>2, EvolvesKeeps
    <3> QED
      BY <1>3, <3>1, <3>2, <3>3 DEF Sweep, RecordStep
  <2> QED
    BY <2>1, <2>2
<1>10. closing' \in BOOLEAN /\ (closing => closing')
  <2>1. closing' = closing \/ closing' = TRUE
    BY <1>1
  <2> QED
    BY <2>1, ClosingGrows
<1>11. cleanup_uncertain' \in BOOLEAN
  BY <1>1, OldTypes
<1>12. /\ w' = [w EXCEPT !.pc = "deregister", !.report = w.report] /\ w.report \in Reports
       /\ w'.pc = "deregister" /\ w'.r = w.r
  BY <1>1, <1>3 DEF goto, WorkerRecord
<1>13. "deregister" \in Busy /\ "deregister" \notin HoldsGate
       /\ "deregister" \notin {"claim_sync"} \cup Delivering \cup Posting
       /\ "deregister" \notin {"deliver", "post"}
  BY DEF Busy, Ending, HoldsGate, Delivering, Posting
<1>14. Claimed' /\ Authorized'
  BY <1>9, <1>12, <1>13 DEF Claimed, Authorized
<1>15. Once(w.r)'
  BY <1>9, <1>12, <1>13 DEF Once
<1> HIDE DEF p, completed
<1> QED
  BY <1>1, <1>2, <1>3, <1>8, <1>9, <1>10, <1>11, <1>12, <1>13, <1>14, <1>15, SameWorld,
     WorkerMove DEF p

-----------------------------------------------------------------------------
(* The worker, with nothing registered or about to have nothing.           *)

LEMMA ClaimlessMove ==
    ASSUME IInv, w.pc \in Claimless \cup {"deregister"}, w' \in WorkerRecord,
           w'.pc \in Claimless, w'.pc # "idle" => w'.r \in Requests, executions' = {},
           Sweep(store, store'), poisoned' \in BOOLEAN, poisoned => poisoned',
           auth' \in Authority,
           gate' \in {Free, Worker} \cup Controllers, release_gate' \in {Free, Worker},
           gate' = Worker <=> w'.pc \in HoldsGate,
           gate' = gate \/ {gate, gate'} \subseteq {Free, Worker},
           release_gate' = Worker <=> w'.pc = "claim_sync" /\ claim_holds(w'.r),
           closing' \in BOOLEAN, closing => closing', calm, cancel' = cancel,
           queue' \in Seq(Requests), Len(queue') <= QueueCapacity, idle_world,
           w'.pc = "claim_sync" =>
                store'.requests[w'.r].status = "Approved" /\ ~store'.requests[w'.r].claimed
    PROVE  IInv' /\ Lawfully
<1>1. /\ cleanup_uncertain' = cleanup_uncertain /\ published' = published /\ denied' = denied
      /\ undispatched' = undispatched /\ ctl' = ctl /\ settled' = settled
      /\ consumer' = consumer /\ released' = released /\ posted' = posted
  BY DEF calm, idle_world
<1>2. Types'
  <2>1. DurableTypes' /\ AuthorityTypes' /\ MutexTypes'
    BY DEF DurableTypes, AuthorityTypes, MutexTypes, Sweep
  <2>2. FlagTypes' /\ WorkTypes'
    BY <1>1, OldTypes DEF FlagTypes, WorkTypes
  <2>3. WorkerTypes'
    BY DEF WorkerTypes
  <2>4. ControllerTypes' /\ WorldTypes'
    BY <1>1 DEF IInv, Types, ControllerTypes, WorldTypes
  <2> QED
    BY <2>1, <2>2, <2>3, <2>4 DEF Types
<1>3. Mutexes'
  <2>1. (release_gate' = Worker) <=> HoldsRelease'
    BY DEF HoldsRelease, Claimless, claim_holds
  <2>2. ASSUME NEW c \in Controllers
        PROVE  (gate' = c) <=> (ctl'[c].pc = "cancel_recheck")
    <3>1. (gate = c) <=> (ctl[c].pc = "cancel_recheck")
      BY DEF IInv, Mutexes
    <3> QED
      BY <1>1, <3>1, FreeGates
  <2> QED
    BY <2>1, <2>2 DEF Mutexes
<1>4. \A r \in Requests : /\ Evolves(store.requests[r], store'.requests[r])
                          /\ RecordStep(store.requests[r], store'.requests[r])
                          /\ Lawful(store'.requests[r])
  BY DEF Sweep, RecordStep, Evolves
<1>5. Records'
  BY <1>4 DEF Records
<1>6. w'.pc \notin Delivering \cup Posting \cup Ending
  BY DEF Claimless, Delivering, Posting, Ending
<1>7. Registered'
  BY <1>6 DEF Registered
<1>8. Claimed' /\ Authorized'
  BY <1>6 DEF Claimed, Authorized, Delivering, Posting, Ending
<1>9. NoOrphanedClaim'
  <2> SUFFICES ASSUME NEW r \in Requests, Executing(store'.requests[r])
               PROVE  closing \/ poisoned
    BY DEF NoOrphanedClaim
  <2>1. Executing(store.requests[r])
    BY <1>4, EvolvesKeeps
  <2>2. CASE r = w.r /\ r \in executions
    <3>1. w.pc = "deregister"
      BY <2>2 DEF IInv, Registered, Claimless, Delivering, Posting, Ending
    <3> QED
      BY <2>1, <2>2, <3>1 DEF IInv, Claimed
  <2> QED
    BY <2>1, <2>2 DEF IInv, NoOrphanedClaim
<1>10. ASSUME NEW r \in Requests
       PROVE  Once(r)'
  <2>1. store'.requests[r].claimed = store.requests[r].claimed
    BY <1>4, EvolvesKeeps
  <2>2. w'.r = r /\ store'.requests[r].claimed => w'.pc # "claim_sync"
    OBVIOUS
  <2>3. Once(r)
    BY DEF IInv
  <2> QED
    BY <1>1, <1>6, <2>1, <2>2, <2>3 DEF Once
<1>11. Onward
  <2>1. store.revoked \subseteq store'.revoked
    BY DEF Sweep
  <2> QED
    BY <1>1, <1>4, <2>1 DEF Onward
<1>12. ASSUME NEW c \in Controllers
       PROVE  Achieved(c)'
  <2>1. Types /\ Achieved(c)
    BY DEF IInv
  <2> QED
    BY <1>1, <1>11, <2>1, AchievedKept
<1>13. ASSUME NEW r \in settled'
       PROVE  Quiet(r)'
  <2>1. r \in Requests /\ Quiet(r)
    BY <1>1 DEF IInv, Types, WorldTypes
  <2> QED
    BY <1>11, <2>1, QuietKept
<1>14. Lawfully
  BY <1>1, <1>4 DEF Lawfully
<1> QED
  BY <1>2, <1>3, <1>5, <1>7, <1>8, <1>9, <1>10, <1>12, <1>13, <1>14 DEF IInv

LEMMA ClaimlessState ==
    ASSUME IInv, w.pc \in Claimless \cup {"deregister"}
    PROVE  /\ w \in WorkerRecord /\ (w.pc # "idle" => w.r \in Requests)
           /\ w.pc # "deregister" => executions = {}
           /\ executions \ {w.r} = {}
           /\ gate = Worker <=> w.pc \in {"claim", "claim_sync"}
           /\ release_gate = Worker <=> w.pc = "claim_sync" /\ claim_holds(w.r)
           /\ gate \in {Free, Worker} \cup Controllers /\ release_gate \in {Free, Worker}
<1>1. w \in WorkerRecord /\ (w.pc # "idle" => w.r \in Requests)
  BY DEF IInv, Types, WorkerTypes
<1>2. (w.pc # "deregister" => executions = {}) /\ executions \ {w.r} = {}
  BY DEF IInv, Registered, Claimless, Delivering, Posting, Ending
<1>3. /\ gate = Worker <=> w.pc \in {"claim", "claim_sync"}
      /\ release_gate = Worker <=> w.pc = "claim_sync" /\ claim_holds(w.r)
  BY DEF IInv, Mutexes, HoldsRelease, HoldsGate, Claimless
<1>4. gate \in {Free, Worker} \cup Controllers /\ release_gate \in {Free, Worker}
  BY DEF IInv, Types, MutexTypes
<1> QED
  BY <1>1, <1>2, <1>3, <1>4

LEMMA IdleHolds == "idle" \in Claimless /\ "idle" \notin HoldsGate
BY DEF Claimless, HoldsGate

LEMMA Deregister ==
    ASSUME IInv, deregister
    PROVE  IInv' /\ Lawfully
<1>1. /\ w.pc = "deregister" /\ executions' = executions \ {w.r} /\ w' = IdleWorker
      /\ UNCHANGED <<durable, auth>> /\ gate' = gate /\ release_gate' = release_gate
      /\ closing' = closing /\ cancel' = cancel /\ queue' = queue /\ calm /\ idle_world
  BY DEF deregister
<1>2. w.pc \in Claimless \cup {"deregister"}
  BY <1>1
<1>3. /\ executions' = {} /\ gate' # Worker /\ release_gate' # Worker
      /\ gate' \in {Free, Worker} \cup Controllers /\ release_gate' \in {Free, Worker}
  BY <1>1, <1>2, ClaimlessState
<1>4. w' \in WorkerRecord /\ w'.pc = "idle"
  BY <1>1, IdleWorkerType
<1>5. queue' \in Seq(Requests) /\ Len(queue') <= QueueCapacity
  BY <1>1, OldTypes
<1> QED
  BY <1>1, <1>2, <1>3, <1>4, <1>5, IdleHolds, StoreStays, ClosingStays, ClaimlessMove

LEMMA Shortened ==
    ASSUME IInv, queue # << >>
    PROVE  /\ Head(queue) \in Requests /\ Tail(queue) \in Seq(Requests)
           /\ Len(Tail(queue)) <= QueueCapacity
<1>1. queue \in Seq(Requests) /\ Len(queue) <= QueueCapacity
  BY OldTypes
<1>2. /\ Head(queue) \in Requests /\ Tail(queue) \in Seq(Requests)
      /\ Len(Tail(queue)) = Len(queue) - 1 /\ Len(queue) \in Nat
  BY <1>1, HeadTailProperties, LenProperties
<1> QED
  BY <1>1, <1>2, CapacityAssumption

LEMMA Take ==
    ASSUME IInv, take
    PROVE  IInv' /\ Lawfully
<1>1. /\ w.pc = "idle" /\ queue # << >> /\ queue' = Tail(queue)
      /\ w' = [IdleWorker EXCEPT !.pc = "enter", !.r = Head(queue)]
      /\ UNCHANGED <<durable, auth>> /\ gate' = gate /\ release_gate' = release_gate
      /\ closing' = closing /\ executions' = executions /\ cancel' = cancel /\ calm
      /\ idle_world
  BY DEF take
<1>2. w.pc \in Claimless \cup {"deregister"}
  BY <1>1 DEF Claimless
<1>3. /\ executions' = {} /\ gate' # Worker /\ release_gate' # Worker
      /\ gate' \in {Free, Worker} \cup Controllers /\ release_gate' \in {Free, Worker}
  BY <1>1, <1>2, ClaimlessState
<1>4. /\ w' \in WorkerRecord /\ w'.pc = "enter" /\ w'.r \in Requests
      /\ "enter" \in Claimless /\ "enter" \notin HoldsGate
  BY <1>1, Shortened DEF IdleWorker, WorkerRecord, Steps, Claimless, HoldsGate, Reports
<1> QED
  BY <1>1, <1>2, <1>3, <1>4, Shortened, StoreStays, ClosingStays, ClaimlessMove

LEMMA TakeUnavailable ==
    ASSUME IInv, take_unavailable
    PROVE  IInv' /\ Lawfully
<1>1. /\ w.pc = "idle" /\ queue # << >> /\ queue' = Tail(queue) /\ w' = w
      /\ UNCHANGED <<durable, auth>> /\ gate' = gate /\ release_gate' = release_gate
      /\ closing' = TRUE /\ executions' = executions /\ cancel' = cancel /\ calm
      /\ idle_world
  BY DEF take_unavailable, close_admission
<1>2. w.pc \in Claimless \cup {"deregister"}
  BY <1>1 DEF Claimless
<1>3. /\ executions' = {} /\ gate' # Worker /\ release_gate' # Worker
      /\ gate' \in {Free, Worker} \cup Controllers /\ release_gate' \in {Free, Worker}
      /\ w' \in WorkerRecord /\ w'.pc = "idle"
  BY <1>1, <1>2, ClaimlessState
<1> QED
  BY <1>1, <1>2, <1>3, IdleHolds, Shortened, StoreStays, ClosingGrows, ClaimlessMove

LEMMA Enter ==
    ASSUME IInv, enter
    PROVE  IInv' /\ Lawfully
<1>1. /\ w.pc = "enter" /\ gate = Free /\ release_gate' = release_gate
      /\ closing' = closing /\ executions' = executions /\ cancel' = cancel
      /\ queue' = queue /\ calm /\ idle_world
  BY DEF enter
<1>2. w.pc \in Claimless \cup {"deregister"}
  BY <1>1 DEF Claimless
<1>3. /\ executions' = {} /\ w \in WorkerRecord /\ w.r \in Requests
      /\ release_gate' # Worker /\ release_gate' \in {Free, Worker}
  BY <1>1, <1>2, ClaimlessState
<1>4. queue' \in Seq(Requests) /\ Len(queue') <= QueueCapacity
  BY <1>1, OldTypes
<1>5. CASE gate' = Worker /\ goto("claim") /\ UNCHANGED <<durable, auth>>
  <2>1. /\ w' \in WorkerRecord /\ w'.pc = "claim" /\ w'.r \in Requests
        /\ "claim" \in Claimless /\ "claim" \in HoldsGate
    BY <1>3, <1>5 DEF goto, WorkerRecord, Steps, Claimless, HoldsGate
  <2>2. gate' \in {Free, Worker} \cup Controllers /\ {gate, gate'} \subseteq {Free, Worker}
    BY <1>1, <1>5
  <2> QED
    BY <1>1, <1>2, <1>3, <1>4, <1>5, <2>1, <2>2, StoreStays, ClosingStays, ClaimlessMove
<1>6. CASE execution_refused(w.r) /\ w' = IdleWorker /\ UNCHANGED gate
  <2>1. Safe
    BY <1>6, LawfulStore, RefusedSafe
  <2>2. w' \in WorkerRecord /\ w'.pc = "idle"
    BY <1>6, IdleWorkerType
  <2>3. gate' \in {Free, Worker} \cup Controllers /\ gate' # Worker
    BY <1>1, <1>6, FreeIsNotWorker
  <2> QED
    BY <1>1, <1>2, <1>3, <1>4, <1>6, <2>1, <2>2, <2>3, IdleHolds, ClosingStays,
       ClaimlessMove DEF Safe
<1> QED
  BY <1>5, <1>6 DEF enter

LEMMA Claim ==
    ASSUME IInv, claim
    PROVE  IInv' /\ Lawfully
<1>1. /\ w.pc = "claim" /\ UNCHANGED <<durable, auth>> /\ store' = store
      /\ closing' = closing /\ executions' = executions /\ cancel' = cancel
      /\ queue' = queue /\ calm /\ idle_world
      /\ (claim_holds(w.r) => release_gate = Free)
  BY DEF claim, durable
<1>2. w.pc \in Claimless \cup {"deregister"}
  BY <1>1 DEF Claimless
<1>3. /\ executions' = {} /\ w \in WorkerRecord /\ w.r \in Requests
      /\ release_gate # Worker /\ release_gate \in {Free, Worker} /\ gate = Worker
  BY <1>1, <1>2, ClaimlessState
<1>4. queue' \in Seq(Requests) /\ Len(queue') <= QueueCapacity
  BY <1>1, OldTypes
<1>5. CASE /\ claimable(w.r) /\ goto("claim_sync")
           /\ release_gate' = IF claim_holds(w.r) THEN Worker ELSE release_gate
           /\ UNCHANGED gate
  <2>1. /\ w' \in WorkerRecord /\ w'.pc = "claim_sync" /\ w'.r = w.r
        /\ "claim_sync" \in Claimless /\ "claim_sync" \in HoldsGate
    BY <1>3, <1>5 DEF goto, WorkerRecord, Steps, Claimless, HoldsGate
  <2>2. gate' = Worker /\ gate' = gate
    BY <1>3, <1>5
  <2>3. /\ release_gate' = Worker <=> claim_holds(w.r)
        /\ release_gate' \in {Free, Worker}
    BY <1>3, <1>5
  <2>4. store'.requests[w'.r].status = "Approved" /\ ~store'.requests[w'.r].claimed
    BY <1>1, <1>5, <2>1 DEF claimable
  <2>5. (release_gate' = Worker) <=> (w'.pc = "claim_sync" /\ claim_holds(w'.r))
    BY <2>1, <2>3
  <2> QED
    BY <1>1, <1>2, <1>3, <1>4, <2>1, <2>2, <2>3, <2>4, <2>5, StoreStays, ClosingStays,
       ClaimlessMove
<1>6. CASE gate' = Free /\ w' = IdleWorker /\ UNCHANGED release_gate
  <2>1. w' \in WorkerRecord /\ w'.pc = "idle"
    BY <1>6, IdleWorkerType
  <2>2. /\ gate' \in {Free, Worker} \cup Controllers /\ gate' # Worker
        /\ {gate, gate'} \subseteq {Free, Worker}
        /\ release_gate' # Worker /\ release_gate' \in {Free, Worker}
    BY <1>3, <1>6, FreeIsNotWorker
  <2> QED
    BY <1>1, <1>2, <1>3, <1>4, <2>1, <2>2, IdleHolds, StoreStays, ClosingStays, ClaimlessMove
<1> QED
  BY <1>5, <1>6 DEF claim

(* The claim itself: the one step that spends an approval.                 *)
LEMMA ClaimSynced ==
    ASSUME IInv, claim_synced
    PROVE  IInv' /\ Lawfully
<1> DEFINE p == store.requests[w.r]
           q == [p EXCEPT !.claimed = TRUE]
           new == set_request(w.r, q)
<1>1. /\ w.pc = "claim_sync" /\ gate' = Free /\ auth' = auth
      /\ release_gate' = IF claim_holds(w.r) THEN Free ELSE release_gate
      /\ closing' = closing /\ queue' = queue /\ calm /\ idle_world
      /\ cleanup_uncertain' = cleanup_uncertain /\ published' = published /\ denied' = denied
      /\ undispatched' = undispatched /\ ctl' = ctl /\ settled' = settled
      /\ consumer' = consumer /\ released' = released /\ posted' = posted
  BY DEF claim_synced, calm, idle_world
<1>2. \/ /\ claim_live(w.r) /\ wrote(new)
         /\ executions' = executions \cup {w.r} /\ cancel' = cancel \ {w.r}
         /\ goto("prepare")
      \/ /\ store' \in {store, new} /\ poisoned' = TRUE
         /\ w' = IdleWorker /\ executions' = executions /\ cancel' = cancel
  BY DEF claim_synced
<1>3. w.pc \in Claimless \cup {"deregister"}
  BY <1>1 DEF Claimless
<1>4. /\ executions = {} /\ w \in WorkerRecord /\ w.r \in Requests /\ gate = Worker
      /\ release_gate \in {Free, Worker} /\ (release_gate = Worker <=> claim_holds(w.r))
  BY <1>1, <1>3, ClaimlessState
<1>5. p \in Record /\ p.status = "Approved" /\ ~p.claimed
  BY <1>1, <1>4, LawfulStore DEF IInv, Claimed
<1>6. q \in Record /\ q.status = "Approved" /\ q.claimed
  <2> HIDE DEF p
  <2> QED
    BY <1>5 DEF Record
<1> HIDE DEF q
<1>7. Lawful(q) /\ RecordStep(p, q) /\ Executing(q)
  BY <1>5, <1>6 DEF Lawful, RecordStep, Executing
<1>8. /\ new \in Store /\ new.revoked = store.revoked /\ new.attempts = store.attempts
      /\ \A x \in Requests : new.requests[x] = IF x = w.r THEN q ELSE store.requests[x]
  BY <1>4, <1>6, LawfulStore, PutStore
<1> HIDE DEF new, p
<1>9. /\ gate' \in {Free, Worker} \cup Controllers /\ gate' # Worker
      /\ {gate, gate'} \subseteq {Free, Worker}
      /\ release_gate' # Worker /\ release_gate' \in {Free, Worker}
  BY <1>1, <1>4, FreeIsNotWorker
<1>10. store' \in {store, new} /\ poisoned' \in BOOLEAN /\ (poisoned => poisoned')
       /\ auth' \in Authority
  BY <1>1, <1>2, LawfulStore DEF wrote
<1>11. /\ store' \in Store /\ store'.revoked = store.revoked
       /\ \A r \in Requests : r # w.r => Evolves(store.requests[r], store'.requests[r])
       /\ \A r \in Requests : /\ RecordStep(store.requests[r], store'.requests[r])
                              /\ Lawful(store'.requests[r])
                              /\ store.requests[r].claimed => store'.requests[r].claimed
  <2>1. CASE store' = store
    BY <2>1, SameRecords
  <2>2. CASE store' = new
    <3>1. store'.requests[w.r] = q
      BY <1>4, <1>8, <2>2
    <3>2. ASSUME NEW r \in Requests, r # w.r
          PROVE  Evolves(store.requests[r], store'.requests[r])
      <4>1. store'.requests[r] = store.requests[r] /\ store.requests[r] \in Record
            /\ Lawful(store.requests[r])
        BY <1>8, <2>2, <3>2, LawfulStore
      <4> QED
        BY <4>1, SameEvolves
    <3>3. ASSUME NEW r \in Requests
          PROVE  /\ RecordStep(store.requests[r], store'.requests[r])
                 /\ Lawful(store'.requests[r])
                 /\ store.requests[r].claimed => store'.requests[r].claimed
      <4>1. CASE r = w.r
        BY <1>6, <1>7, <3>1, <4>1 DEF p
      <4>2. CASE r # w.r
        BY <3>2, <4>2, EvolvesKeeps DEF RecordStep, Evolves
      <4> QED
        BY <4>1, <4>2
    <3> QED
      BY <1>8, <2>2, <3>2, <3>3
  <2> QED
    BY <1>10, <2>1, <2>2
<1>12. released[w.r] = 0 /\ posted[w.r] = 0
  BY <1>1, <1>4 DEF IInv, Once
<1>13. PICK pc \in {"prepare", "idle"} :
         /\ w' \in WorkerRecord /\ w'.pc = pc
         /\ pc = "prepare" =>
              /\ claim_live(w.r) /\ store' = new /\ executions' = {w.r}
              /\ cancel' = cancel \ {w.r} /\ w'.r = w.r
         /\ pc = "idle" => poisoned' = TRUE /\ executions' = {} /\ cancel' = cancel
  <2>1. CASE /\ claim_live(w.r) /\ wrote(new)
             /\ executions' = executions \cup {w.r} /\ cancel' = cancel \ {w.r}
             /\ goto("prepare")
    <3>1. w' \in WorkerRecord /\ w'.pc = "prepare" /\ w'.r = w.r
      BY <1>4, <2>1 DEF goto, WorkerRecord, Steps, Delivering
    <3>2. store' = new /\ executions' = {w.r}
      BY <1>4, <2>1 DEF wrote
    <3> QED
      BY <2>1, <3>1, <3>2
  <2>2. CASE poisoned' = TRUE /\ w' = IdleWorker /\ executions' = executions
             /\ cancel' = cancel
    BY <1>4, <2>2, IdleWorkerType
  <2> QED
    BY <1>2, <2>1, <2>2
<1>14. Types'
  <2>1. DurableTypes' /\ AuthorityTypes' /\ MutexTypes'
    BY <1>9, <1>10, <1>11 DEF DurableTypes, AuthorityTypes, MutexTypes
  <2>2. FlagTypes'
    BY <1>1, OldTypes DEF FlagTypes
  <2>3. WorkTypes'
    <3>1. executions' \in SUBSET Requests /\ cancel' \in SUBSET Requests
      BY <1>4, <1>13, OldTypes
    <3> QED
      BY <1>1, <3>1, OldTypes DEF WorkTypes
  <2>4. WorkerTypes'
    BY <1>4, <1>13 DEF WorkerTypes
  <2>5. ControllerTypes' /\ WorldTypes'
    BY <1>1 DEF IInv, Types, ControllerTypes, WorldTypes
  <2> QED
    BY <2>1, <2>2, <2>3, <2>4, <2>5 DEF Types
<1>15. Mutexes'
  <2>1. w'.pc \notin HoldsGate /\ ~HoldsRelease'
    BY <1>13 DEF HoldsGate, HoldsRelease
  <2>2. ASSUME NEW c \in Controllers
        PROVE  (gate' = c) <=> (ctl'[c].pc = "cancel_recheck")
    <3>1. (gate = c) <=> (ctl[c].pc = "cancel_recheck")
      BY DEF IInv, Mutexes
    <3> QED
      BY <1>1, <1>4, <3>1, FreeGates
  <2> QED
    BY <1>9, <2>1, <2>2 DEF Mutexes
<1>16. Records'
  BY <1>11 DEF Records
<1>17. pc = "prepare" => store'.requests[w.r] = q
  BY <1>4, <1>8, <1>13
<1>18. Registered' /\ Claimed' /\ Authorized'
  <2>1. CASE pc = "prepare"
    BY <1>7, <1>13, <1>17, <2>1 DEF Registered, Claimed, Authorized, Delivering
  <2>2. CASE pc = "idle"
    BY <1>13, <2>2 DEF Registered, Claimed, Authorized, Delivering, Posting, Ending
  <2> QED
    BY <2>1, <2>2
<1>19. NoOrphanedClaim'
  <2>1. CASE pc = "prepare"
    <3> SUFFICES ASSUME NEW r \in Requests, Executing(store'.requests[r]), r # w.r
                 PROVE  closing \/ poisoned
      BY <1>1, <1>10, <1>13, <2>1 DEF NoOrphanedClaim
    <3>1. Executing(store.requests[r])
      BY <1>11, EvolvesKeeps
    <3> QED
      BY <1>4, <3>1 DEF IInv, NoOrphanedClaim
  <2>2. CASE pc = "idle"
    BY <1>13, <2>2 DEF NoOrphanedClaim
  <2> QED
    BY <2>1, <2>2
<1>20. ASSUME NEW r \in Requests
       PROVE  Once(r)'
  <2>1. CASE r = w.r
    BY <1>1, <1>12, <2>1 DEF Once
  <2>2. CASE r # w.r
    <3>1. Once(r)
      BY DEF IInv
    <3>2. w'.r = r => w'.pc \notin {"claim_sync"} \cup Delivering \cup Posting
      BY <1>13, <2>2 DEF Delivering, Posting
    <3> QED
      BY <1>1, <1>11, <3>1, <3>2 DEF Once
  <2> QED
    BY <2>1, <2>2
<1>21. Onward
  <2>1. \A r \in executions' : r \in Requests /\ token_live(r) /\ ~Spoken(r)
    BY <1>4, <1>5, <1>13 DEF claim_live, Spoken, Terminal, p
  <2> QED
    BY <1>1, <1>4, <1>11, <2>1 DEF Onward
<1>22. ASSUME NEW c \in Controllers
       PROVE  Achieved(c)'
  <2>1. Types /\ Achieved(c)
    BY DEF IInv
  <2> QED
    BY <1>1, <1>21, <2>1, AchievedKept
<1>23. ASSUME NEW r \in settled'
       PROVE  Quiet(r)'
  <2>1. r \in Requests /\ Quiet(r)
    BY <1>1 DEF IInv, Types, WorldTypes
  <2> QED
    BY <1>21, <2>1, QuietKept
<1>24. Lawfully
  BY <1>1, <1>11 DEF Lawfully
<1> QED
  BY <1>14, <1>15, <1>16, <1>18, <1>19, <1>20, <1>22, <1>23, <1>24 DEF IInv

-----------------------------------------------------------------------------
(* The theorems.                                                           *)

LEMMA InitHolds == Init => IInv
<1> SUFFICES ASSUME Init
             PROVE  IInv
  OBVIOUS
<1>1. /\ store.requests = [r \in Requests |->
            [status |-> "None", claimed |-> FALSE, current |-> FALSE]]
      /\ store \in Store
  BY DEF Init, Store, Record
<1>2. \A r \in Requests : store.requests[r].status = "None" /\ store.requests[r].claimed = FALSE
  BY <1>1
<1>3. /\ w \in WorkerRecord /\ w.pc = "idle" /\ w.r = Human
  BY IdleWorkerType DEF Init
<1>4. \A c \in Controllers : ctl[c] = IdleCtl
  BY DEF Init
<1>5. Types
  <2>1. DurableTypes /\ AuthorityTypes /\ MutexTypes
    BY <1>1, ClearedType DEF Init, DurableTypes, AuthorityTypes, MutexTypes
  <2>2. FlagTypes /\ WorkTypes
    <3>1. FlagTypes
      BY DEF Init, FlagTypes
    <3>2. << >> \in Seq(Requests) /\ Len(<< >>) = 0 /\ 0 <= QueueCapacity
      BY CapacityAssumption
    <3>3. WorkTypes
      BY <3>2 DEF Init, WorkTypes
    <3> QED
      BY <3>1, <3>3
  <2>3. WorkerTypes /\ ControllerTypes
    BY <1>3, IdleController DEF Init, WorkerTypes, ControllerTypes
  <2>4. WorldTypes
    BY DEF Init, WorldTypes
  <2> QED
    BY <2>1, <2>2, <2>3, <2>4 DEF Types
<1>6. Mutexes
  BY <1>3, <1>4, IdleController, FreeGates, FreeIsNotWorker
     DEF Init, Mutexes, HoldsGate, HoldsRelease
<1>7. Records /\ NoOrphanedClaim
  BY <1>2 DEF Records, Lawful, NoOrphanedClaim, Executing
<1>8. Registered /\ Claimed /\ Authorized
  BY <1>3 DEF Init, Registered, Claimed, Authorized, Delivering, Posting, Ending
<1>9. \A r \in Requests : Once(r)
  BY DEF Init, Once
<1>10. \A c \in Controllers : Achieved(c)
  BY <1>4, IdleController DEF Achieved
<1>11. \A r \in settled : Quiet(r)
  BY DEF Init
<1> QED
  BY <1>5, <1>6, <1>7, <1>8, <1>9, <1>10, <1>11 DEF IInv

LEMMA Stutters ==
    ASSUME IInv, UNCHANGED vars
    PROVE  IInv' /\ Lawfully
<1>1. /\ store' = store /\ poisoned' = poisoned /\ auth' = auth
      /\ gate' = gate /\ release_gate' = release_gate /\ closing' = closing
      /\ cleanup_uncertain' = cleanup_uncertain /\ published' = published /\ denied' = denied
      /\ executions' = executions /\ cancel' = cancel /\ undispatched' = undispatched
      /\ queue' = queue /\ w' = w /\ ctl' = ctl
      /\ consumer' = consumer /\ released' = released /\ posted' = posted
      /\ settled' = settled
  BY DEF vars, durable, flags, work, world
<1>2. desk
  BY <1>1 DEF desk, world
<1>3. Sweep(store, store') /\ poisoned' \in BOOLEAN /\ (poisoned => poisoned')
      /\ auth' \in Authority
  BY <1>1, NothingWritten
<1> QED
  BY <1>1, <1>2, <1>3, OldTypes, ClosingStays, DeskMove

LEMMA StepHolds ==
    ASSUME IInv, [Next]_vars
    PROVE  IInv' /\ Lawfully
<1>1. CASE Desk
  BY <1>1, Authenticate, Poll, Submit, PrepareApproval, CommitDecision DEF Desk
<1>2. CASE Dispatching
  BY <1>2, Dispatch DEF Dispatching
<1>3. CASE Working
  BY <1>3, Take, TakeUnavailable, Enter, Claim, ClaimSynced, Prepare, Resolve, Launch, Abandon,
     ReleaseChecks, ReleaseTakesGate, Deliver, Started, ObserveExit, ObservationLost, Write,
     PostTakesGate, Post, Finish, Settle, Deregister DEF Working
<1>4. CASE Environment
  BY <1>4, SessionElapses, CapturedDeadlineElapses, Crash, RequestElapses, ConsumerExits,
     AwaitTimesOut DEF Environment
<1>5. ASSUME NEW c \in Controllers, Calling(c)
      PROVE  IInv' /\ Lawfully
  BY <1>5, CallLock, CallCancel, CallRevoke DEF Calling
<1>6. ASSUME NEW c \in Controllers, Controlling(c)
      PROVE  IInv' /\ Lawfully
  BY <1>6, PublishLock, LockRevokes, CancelTakesGate, CancelRechecks, RevokeStore, AwaitDone
     DEF Controlling
<1>7. CASE UNCHANGED vars
  BY <1>7, Stutters
<1> QED
  BY <1>1, <1>2, <1>3, <1>4, <1>5, <1>6, <1>7 DEF Next

LEMMA Invariance == Spec => []IInv
<1>1. IInv /\ [Next]_vars => IInv'
  BY StepHolds
<1> QED
  BY <1>1, InitHolds, PTL DEF Spec

(* Whatever the threads do, the application state has its type; the worker's *)
(* queue never exceeds EXECUTION_QUEUE_CAPACITY (Dispatch::dispatch).      *)
THEOREM TypeCorrect == Spec => []TypeOK
<1>1. IInv => TypeOK
  <2> SUFFICES ASSUME IInv
               PROVE  TypeOK
    OBVIOUS
  <2>1. store \in Store /\ auth \in Authority /\ poisoned \in BOOLEAN
    BY LawfulStore
  <2>2. gate \in {Free, Worker} \cup Controllers /\ release_gate \in {Free, Worker}
    BY DEF IInv, Types, MutexTypes
  <2>3. /\ consumer \in [Requests -> {"None", "Helper", "Running", "Exited"}]
        /\ released \in [Requests -> Nat] /\ posted \in [Requests -> Nat]
        /\ settled \subseteq Requests
    BY DEF IInv, Types, WorldTypes
  <2>4. {poisoned, closing, cleanup_uncertain, published} \subseteq BOOLEAN
    BY <2>1, OldTypes
  <2> QED
    BY <2>1, <2>2, <2>3, <2>4, OldTypes DEF TypeOK, Store, Record, Authority
<1> QED
  BY <1>1, Invariance, PTL

(* A claimed request that has not ended is the one the worker is busy with *)
(* and is registered where cancel, lock and revoke look for it, or the     *)
(* process has failed closed (run_execution, claim_execution).             *)
THEOREM NoOrphans == Spec => []NoOrphanedClaim
<1>1. IInv => NoOrphanedClaim
  BY DEF IInv
<1> QED
  BY <1>1, Invariance, PTL

(* revoke_agent_checked: "No matching claim can appear after this snapshot *)
(* because its token was irreversibly denied".  Every execution of the     *)
(* agent that is registered while the revocation waits is one it flagged.  *)
THEOREM RevocationComplete == Spec => []RevocationSeesEveryClaim
<1>1. IInv => RevocationSeesEveryClaim
  BY DEF IInv, Achieved, RevocationSeesEveryClaim
<1> QED
  BY <1>1, Invariance, PTL

(* What the step that releases a consumer finds: only deliver does, with   *)
(* both mutexes held since its checks.                                     *)
LEMMA Delivery ==
    ASSUME IInv, Lawfully, NEW r \in Requests, released'[r] # released[r]
    PROVE  /\ w.pc = "deliver" /\ r = w.r /\ released[r] = 0 /\ released'[r] = 1
           /\ store' = store /\ Executing(store.requests[r]) /\ r \in executions
<1>1. deliver
  BY DEF Lawfully
<1>2. w.pc = "deliver" /\ released' = [released EXCEPT ![w.r] = released[w.r] + 1]
      /\ store' = store
  BY <1>1 DEF deliver, durable
<1>3. w.pc \in Delivering /\ w.pc \in Busy
  BY <1>2 DEF Delivering, Busy
<1>4. r = w.r
  BY <1>2, SameWorld
<1>5. released[r] = 0
  BY <1>3, <1>4 DEF IInv, Once
<1>6. released'[r] = 1
  BY <1>2, <1>4, <1>5, SameWorld
<1> QED
  BY <1>2, <1>3, <1>4, <1>5, <1>6, BusyState DEF IInv, Claimed

(* ... and the step that posts a secret.                                   *)
LEMMA Posts ==
    ASSUME IInv, Lawfully, NEW r \in Requests, posted'[r] # posted[r]
    PROVE  /\ w.pc = "post" /\ r = w.r /\ posted[r] = 0 /\ r \in executions
<1>1. post
  BY DEF Lawfully
<1>2. w.pc = "post" /\ posted' = [posted EXCEPT ![w.r] = posted[w.r] + 1]
  BY <1>1 DEF post
<1>3. w.pc \in Posting /\ w.pc \in Busy
  BY <1>2 DEF Posting, Busy
<1>4. r = w.r
  BY <1>2, SameWorld
<1>5. posted[r] = 0
  BY <1>3, <1>4 DEF IInv, Once
<1> QED
  BY <1>2, <1>3, <1>4, <1>5, BusyState

(* Once cancel_execution, lock or revoke_agent has returned Ok, nothing it *)
(* covers is released or posted, in whatever order worker, controllers,    *)
(* desk, deadlines and crashes take their steps.                           *)
THEOREM SettledQuiet == Spec => SettledStaysQuiet
<1>1. IInv /\ [Next]_vars => [QuietStep]_vars
  <2> SUFFICES ASSUME IInv, [Next]_vars, NEW r \in settled
               PROVE  released'[r] = released[r] /\ posted'[r] = posted[r]
    BY DEF QuietStep
  <2>1. Lawfully /\ r \in Requests /\ r \notin executions
    BY StepHolds DEF IInv, Types, WorldTypes, Quiet
  <2> QED
    BY <2>1, Delivery, Posts
<1> QED
  BY <1>1, Invariance, PTL DEF Spec, SettledStaysQuiet

(* A consumer is released only while its authority holds: session,         *)
(* admission, current and claimed approval, token, no cancel and no        *)
(* published lock (run_execution's release under gate and release_gate).   *)
THEOREM ReleaseAuthorized == Spec => ReleaseIsAuthorized
<1>1. IInv /\ [Next]_vars => [ReleaseStep]_vars
  <2> SUFFICES ASSUME IInv, [Next]_vars, NEW r \in Requests, released'[r] # released[r]
               PROVE  /\ ~closing /\ auth.session # "None" /\ auth.limits[r] # "None"
                      /\ store.requests[r].claimed /\ store.requests[r].current
                      /\ r \in executions \ cancel
                      /\ token_live(r) /\ ~w.stale
    BY DEF ReleaseStep
  <2>1. w.pc = "deliver" /\ r = w.r /\ Executing(store.requests[r]) /\ r \in executions
    BY StepHolds, Delivery
  <2> QED
    BY <2>1 DEF IInv, Authorized, Executing
<1> QED
  BY <1>1, Invariance, PTL DEF Spec, ReleaseIsAuthorized

(* A secret is posted at most once, after its attempt is durable, and only *)
(* while the running execution is neither cancelled, denied nor locked.    *)
THEOREM PostAuthorized == Spec => PostIsAuthorized
<1>1. IInv /\ [Next]_vars => [PostStep]_vars
  <2> SUFFICES ASSUME IInv, [Next]_vars, NEW r \in Requests, posted'[r] # posted[r]
               PROVE  /\ posted[r] = 0 /\ r \in store.attempts /\ r \in executions \ cancel
                      /\ ~closing /\ token_live(r) /\ ~w.stale
                      /\ store.requests[r].status = "Running"
    BY DEF PostStep
  <2>1. w.pc = "post" /\ r = w.r /\ posted[r] = 0 /\ r \in executions
    BY StepHolds, Posts
  <2> QED
    BY <2>1 DEF IInv, Authorized, Claimed
<1> QED
  BY <1>1, Invariance, PTL DEF Spec, PostIsAuthorized

(* The phase that the refinement mapping gives a record.                   *)
PhaseOf(q) == CASE Terminal(q) -> "Ended"
                [] Executing(q) -> "Spent"
                [] OTHER -> q.status

LEMMA PhaseSteps ==
    ASSUME NEW q \in Record, NEW s \in Record, Lawful(q), Lawful(s), RecordStep(q, s)
    PROVE  /\ PhaseOf(s) \in Approval!Phases
           /\ PhaseOf(s) = PhaseOf(q) \/ <<PhaseOf(q), PhaseOf(s)>> \in Approval!Moves
<1>1. PhaseOf(s) \in Approval!Phases
  BY DEF PhaseOf, Approval!Phases, Terminal, Executing, Record, Lawful
<1>2. CASE Evolves(q, s) /\ s.status = q.status
  <2>1. s.claimed = q.claimed
    BY <1>2 DEF Evolves
  <2> QED
    BY <1>1, <1>2, <2>1 DEF PhaseOf, Terminal, Executing
<1>3. CASE Evolves(q, s) /\ ~q.claimed /\ <<q.status, s.status>> \in OpenMoves
  <2>1. ~s.claimed
    BY <1>3 DEF Evolves
  <2>2. PhaseOf(q) = q.status
    BY <1>3 DEF PhaseOf, Terminal, Executing, OpenMoves
  <2>3. PhaseOf(s) = s.status
    BY <1>3, <2>1 DEF PhaseOf, Terminal, Executing, OpenMoves
  <2> QED
    BY <1>1, <1>3, <2>2, <2>3 DEF OpenMoves, Approval!Moves
<1>4. CASE q.status = "Approved" /\ ~q.claimed /\ s.status = "Approved" /\ s.claimed
  <2>1. PhaseOf(q) = "Approved" /\ PhaseOf(s) = "Spent"
    BY <1>4 DEF PhaseOf, Terminal, Executing
  <2> QED
    BY <1>1, <2>1 DEF Approval!Moves
<1>5. CASE Executing(q) /\ s.claimed /\ s.status \in {"Running", "Completed", "Ended"}
  <2>1. PhaseOf(q) = "Spent" /\ PhaseOf(s) \in {"Spent", "Ended"}
    BY <1>5 DEF PhaseOf, Terminal, Executing
  <2> QED
    BY <1>1, <2>1 DEF Approval!Moves
<1> QED
  BY <1>2, <1>3, <1>4, <1>5 DEF RecordStep, Evolves

(* The provider process implements OneTimeApproval: under every            *)
(* interleaving of its threads, every failed write and every crash, an     *)
(* approval is spent once, its consumer released once and only while it is *)
(* spent, and a request that ended never comes back.                       *)
THEOREM OneTime == Spec => ImplementsOneTimeApproval
<1>1. Init => Approval!Init
  <2> SUFFICES ASSUME Init
               PROVE  Approval!Init
    OBVIOUS
  <2>1. \A r \in Requests : PhaseOf(store.requests[r]) = "None"
    BY DEF Init, PhaseOf, Terminal, Executing
  <2>2. released = [r \in Requests |-> 0]
    BY DEF Init
  <2>3. [r \in Requests |-> PhaseOf(store.requests[r])] = [r \in Requests |-> "None"]
    BY <2>1
  <2> QED
    BY <2>2, <2>3, Zenon DEF Approval!Init, PhaseOf
<1>2. IInv /\ [Next]_vars => [Approval!Next]_(Approval!abstract)
  <2> SUFFICES ASSUME IInv, [Next]_vars
               PROVE  Approval!Next
    OBVIOUS
  <2>1. IInv' /\ Lawfully
    BY StepHolds
  <2>2. ASSUME NEW r \in Requests
        PROVE  /\ PhaseOf(store'.requests[r]) \in Approval!Phases
               /\ \/ PhaseOf(store'.requests[r]) = PhaseOf(store.requests[r])
                  \/ <<PhaseOf(store.requests[r]), PhaseOf(store'.requests[r])>>
                        \in Approval!Moves
    <3>1. /\ store.requests[r] \in Record /\ Lawful(store.requests[r])
          /\ store'.requests[r] \in Record /\ Lawful(store'.requests[r])
      <4>1. store' \in Store /\ Records'
        BY <2>1 DEF IInv, Types, DurableTypes
      <4> QED
        BY <4>1, LawfulStore DEF Records, Store
    <3>2. RecordStep(store.requests[r], store'.requests[r])
      BY <2>1 DEF Lawfully
    <3> QED
      BY <3>1, <3>2, PhaseSteps
  <2>3. ASSUME NEW r \in Requests
        PROVE  Approval!Stays(r) \/ Approval!Moved(r) \/ Approval!Used(r)
    <3>1. CASE released'[r] = released[r]
      <4>1. CASE PhaseOf(store'.requests[r]) = PhaseOf(store.requests[r])
        <5>1. Approval!Stays(r)
          BY <3>1, <4>1, Zenon DEF Approval!Stays, PhaseOf
        <5> QED
          BY <5>1
      <4>2. CASE <<PhaseOf(store.requests[r]), PhaseOf(store'.requests[r])>> \in Approval!Moves
        <5>1. Approval!Moved(r)
          BY <3>1, <4>2 DEF Approval!Moved, Approval!Moves, PhaseOf
        <5> QED
          BY <5>1
      <4> QED
        BY <2>2, <4>1, <4>2
    <3>2. CASE released'[r] # released[r]
      <4>1. released[r] = 0 /\ released'[r] = 1 /\ store' = store
            /\ Executing(store.requests[r])
        BY <2>1, <3>2, Delivery
      <4>2. PhaseOf(store.requests[r]) = "Spent" /\ PhaseOf(store'.requests[r]) = "Spent"
        BY <4>1 DEF PhaseOf, Terminal, Executing
      <4>3. Approval!Used(r)
        BY <4>1, <4>2, Zenon DEF Approval!Used, PhaseOf
      <4> QED
        BY <4>3
    <3> QED
      BY <3>1, <3>2
  <2>4. /\ [r \in Requests |-> PhaseOf(store'.requests[r])] \in [Requests -> Approval!Phases]
        /\ released' \in [Requests -> Nat]
    BY <2>1, <2>2 DEF IInv, Types, WorldTypes
  <2> QED
    BY <2>3, <2>4, Zenon DEF Approval!Next, PhaseOf
<1> QED
  BY <1>1, <1>2, Invariance, PTL DEF Spec, ImplementsOneTimeApproval, Approval!Spec
=============================================================================
