----------------------------- MODULE LoopbackUi -----------------------------
(***************************************************************************)
(* The loopback approval UI (loopback_ui.rs): launch capabilities and the  *)
(* private files that carry them to the desktop, browser sessions of two   *)
(* roles, decisions and unlock over HTTPS, the serving loop with its       *)
(* bounded workers, and its shutdown.                                      *)
(*                                                                         *)
(* Three mutexes meet here: the UI's, held by a worker while it handles a  *)
(* request (but not while an approval's password is verified), the         *)
(* provider's gate, taken by every call of the application, and the        *)
(* broker's, which guards the pending launches.  A submission enters the   *)
(* broker with the gate held, and keeps both while the desktop opens the   *)
(* file.  The companion is never composed with this UI, so only its own    *)
(* workers unlock or decide; but the calls of every transport end a        *)
(* session whose deadline has passed.                                      *)
(*                                                                         *)
(* Cookies, proofs and capabilities are 256 bits of randomness: a cookie   *)
(* and its proof are the number of the session they were drawn for, the    *)
(* capability of a launch is the request it was made for.                  *)
(***************************************************************************)
EXTENDS Naturals, FiniteSets

CONSTANTS
    Workers, Nobody,   \* the MAX_CONNECTIONS connection threads
    Requests, NoRequest,
    MaxLaunches,       \* MAX_REQUEST_LAUNCHES
    MaxSessions,       \* MAX_BROWSER_SESSIONS, for each role
    MaxGen,            \* bound: generations that unlock, lock and expiry use up
    MaxDrawn,          \* bound: browser sessions drawn
    MaxLeft,           \* bound: files that cannot be removed
    Faults             \* whether clearing a session or writing the store may fail

ASSUME NobodyAssumption == Nobody \notin Workers /\ NoRequest \notin Requests
ASSUME BoundAssumption == {MaxLaunches, MaxSessions, MaxGen, MaxDrawn, MaxLeft} \subseteq Nat
ASSUME FaultAssumption == Faults \in BOOLEAN

VARIABLES
    gen, open, failed, closing, \* authority: generation, deadline, cleanup_failed; admission
    status, deadlines,  \* the requests, and those with a deadline ahead
    launch,             \* the provider's own capability is unused
    sessions, drawn,    \* BrowserSession, and how many were drawn
    pending,            \* the broker's launches, by request
    artifacts, left,    \* review-<request>.html files on disk; history: could not be removed
    ui,                 \* who holds the UI mutex
    th,                 \* the workers
    sub,                \* the submission that holds the gate
    serve, pruning,     \* where the serving loop is, and the launches prune looks at
    stop, up

authority == <<gen, open, failed, status, deadlines>>
tables == <<launch, sessions, drawn>>
disk == <<artifacts, left>>
loop == <<serve, pruning, stop>>
vars == <<authority, closing, tables, pending, disk, ui, th, sub, loop, up>>

(* No thread, or one that has finished and waits to be joined.             *)
Gone == [pc |-> "none", path |-> "none", browser |-> 0, arg |-> NoRequest, gen |-> 0]
NoSubmission == [pc |-> "none", r |-> NoRequest]

-----------------------------------------------------------------------------
(* The application, as its callers see it.  Every call but a submission    *)
(* takes the gate for one step.                                            *)

gate_free == sub.pc = "none"

(* Mutant: prune keeps the broker while it asks the application.           *)
broker_free_held == sub.pc # "opening" /\ serve # "prune"

(* The broker's mutex is held across calls by RequestLaunchBroker::launch  *)
(* only.                                                                   *)
broker_free == sub.pc # "opening"

(* Provider::lock and the recovery at start-up.  What becomes of a request *)
(* that has been decided is not this module's.                             *)
ended(s) == [r \in Requests |-> IF s[r] = "Pending" THEN "Ended" ELSE s[r]]

(* Authority::revoke, n times, from the records s: the generation moves on *)
(* before anything can fail.                                               *)
revoke_from(s, n) ==
    /\ gen' = gen + n /\ open' = FALSE /\ deadlines' = {}
    /\ \/ failed' = FALSE /\ status' = ended(s)
       \/ Faults /\ failed' = TRUE /\ status' \in {s, ended(s)}
revoke == revoke_from(status, 1)

(* admit: with admission closed, the call itself ends an open session.     *)
(* (Once it is ended, each further call moves the generation on once more. *)
(* No session opens any more, and nothing is left to compare: left out.)   *)
admitted == open /\ ~closing
admit == IF open /\ closing THEN revoke ELSE UNCHANGED authority

(* A request that review, preparation and decision accept.                 *)
reviewable(r) == admitted /\ r \in deadlines /\ status[r] = "Pending"

(* A deadline passes, and some call notices: the session's ...             *)
session_expires ==
    /\ up /\ gate_free /\ open /\ (closing \/ gen < MaxGen)
    /\ revoke
    /\ UNCHANGED <<closing, tables, pending, disk, ui, th, sub, loop, up>>

(* ... or a request's (expire_requests).                                   *)
request_expires(r) ==
    /\ up /\ gate_free /\ status[r] = "Pending"
    /\ status' = [status EXCEPT ![r] = "Ended"] /\ deadlines' = deadlines \ {r}
    /\ UNCHANGED <<gen, open, failed, closing, tables, pending, disk, ui, th, sub, loop, up>>

(* close_admission, by another transport or on a signal.                   *)
close_admission ==
    /\ up /\ ~closing /\ closing' = TRUE
    /\ UNCHANGED <<authority, tables, pending, disk, ui, th, sub, loop, up>>

-----------------------------------------------------------------------------
(* Submission: submit_owned, as far as it reaches the broker.  The gate is *)
(* only tried, and held to the end.                                        *)

submit(r) ==
    /\ up /\ gate_free /\ admitted /\ status[r] = "None"
    /\ status' = [status EXCEPT ![r] = "Pending"] /\ deadlines' = deadlines \cup {r}
    /\ sub' = [pc |-> "launching", r |-> r]
    /\ UNCHANGED <<gen, open, failed, closing, tables, pending, disk, ui, th, loop, up>>

(* Admission was closed, or a deadline passed, while the request was made: *)
(* no launch, and the request ends.                                        *)
submit_unlaunched(r) ==
    /\ up /\ gate_free /\ admitted /\ status[r] = "None"
    /\ \/ gen < MaxGen /\ revoke_from([status EXCEPT ![r] = "Pending"], 1)
       \/ status' = [status EXCEPT ![r] = "Ended"] /\ UNCHANGED <<gen, open, failed, deadlines>>
    /\ UNCHANGED <<closing, tables, pending, disk, ui, th, sub, loop, up>>

(* The record could not be written, or not for certain: admission closes.  *)
submit_fails(r) ==
    /\ up /\ gate_free /\ admitted /\ status[r] = "None" /\ Faults
    /\ closing' = TRUE
    /\ status' \in {status, [status EXCEPT ![r] = "Pending"]}
    /\ UNCHANGED <<gen, open, failed, deadlines, tables, pending, disk, ui, th, sub, loop, up>>

(* The end of a submission: admit once more.                               *)
settle(s) ==
    /\ sub' = NoSubmission
    /\ \/ ~closing /\ status' = s /\ UNCHANGED <<gen, open, failed, deadlines>>
       \/ revoke_from(s, 1)   \* closed meanwhile, or the session's deadline has passed

without_launch == [status EXCEPT ![sub.r] = "Ended"]

(* The table is full, or the file cannot be created: fail_direct_launch,   *)
(* which may fail itself.                                                  *)
launch_refused ==
    /\ sub.pc = "launching" /\ broker_free
    /\ \E s \in {without_launch} \cup (IF Faults THEN {status} ELSE {}) : settle(s)
    /\ UNCHANGED <<closing, tables, pending, disk, ui, th, loop, up>>

(* RequestLaunchBroker::launch, up to the call of the desktop.             *)
launch_begins ==
    /\ sub.pc = "launching" /\ broker_free
    /\ Cardinality(pending) < MaxLaunches
    /\ artifacts' = artifacts \cup {sub.r} /\ UNCHANGED left
    /\ sub' = [sub EXCEPT !.pc = "opening"]
    /\ UNCHANGED <<authority, closing, tables, pending, ui, th, loop, up>>

(* RequestLaunch::drop, for the launches rs: the file goes too, if it can. *)
drop(rs) ==
    \E kept \in SUBSET rs :
        /\ kept = {} \/ Cardinality(left \cup kept) <= MaxLeft
        /\ artifacts' = artifacts \ (rs \ kept) /\ left' = left \cup kept

(* The desktop took the file.                                              *)
launch_opened ==
    /\ sub.pc = "opening"
    /\ pending' = pending \cup {sub.r}
    /\ settle(status)
    /\ UNCHANGED <<closing, tables, disk, ui, th, loop, up>>

(* It did not: the launch is dropped.                                      *)
launch_failed ==
    /\ sub.pc = "opening"
    /\ drop({sub.r})
    /\ \E s \in {without_launch} \cup (IF Faults THEN {status} ELSE {}) : settle(s)
    /\ UNCHANGED <<closing, tables, pending, ui, th, loop, up>>

-----------------------------------------------------------------------------
(* A worker.                                                               *)

at(w, l) == up /\ th[w].pc = l
goto(w, l) == th' = [th EXCEPT ![w].pc = l]
done(w) == th' = [th EXCEPT ![w] = Gone]
leave(w) == done(w) /\ ui' = Nobody

session(role, id) == {s \in sessions : s.role = role /\ s.id = id}

(* A connection that changes nothing: no request was read in time, serve   *)
(* is stopping, or the request is for the page, a review or the history,   *)
(* or has a wrong origin, capability, cookie or proof.                     *)
turn_away(w) ==
    /\ at(w, "waiting")
    /\ done(w)
    /\ UNCHANGED <<authority, closing, tables, pending, disk, ui, sub, loop, up>>

enter(w, l, path, browser, r) ==
    /\ at(w, "waiting") /\ ui = Nobody
    /\ ui' = w
    /\ th' = [th EXCEPT ![w] = [Gone EXCEPT !.pc = l, !.path = path, !.browser = browser, !.arg = r]]
    /\ UNCHANGED <<authority, closing, sessions, drawn, pending, disk, sub, loop, up>>

(* /launch with the provider's capability, which it uses up, or with that  *)
(* of a request.                                                           *)
enter_launch(w, r) ==
    /\ drawn < MaxDrawn
    /\ IF r = NoRequest THEN launch /\ launch' = FALSE ELSE UNCHANGED launch
    /\ enter(w, IF r = NoRequest THEN "grant" ELSE "take", "launch", 0, r)

(* /unlock and /lock, with a provider session's cookie and proof.          *)
enter_provider(w, path, browser) ==
    /\ session("provider", browser) # {} /\ gen < MaxGen
    /\ enter(w, path, path, 0, NoRequest) /\ UNCHANGED launch

(* /approve and /deny, with a request session's cookie and proof.          *)
enter_decision(w, path, browser, r) ==
    /\ session("request", browser) # {} /\ status[r] # "None"
    /\ enter(w, "authorize", path, browser, r) /\ UNCHANGED launch

(* RequestLaunchBroker::take: the capability is used up, whatever follows. *)
exchange_take(w) ==
    /\ at(w, "take") /\ broker_free
    /\ IF th[w].arg \in pending
       THEN pending' = pending \ {th[w].arg} /\ goto(w, "status") /\ UNCHANGED ui
       ELSE leave(w) /\ UNCHANGED pending
    /\ UNCHANGED <<authority, closing, tables, disk, sub, loop, up>>

(* direct_status; then the launch is dropped.                              *)
exchange_status(w) ==
    /\ at(w, "status") /\ gate_free
    /\ admit
    /\ drop({th[w].arg})
    /\ IF reviewable(th[w].arg)
       THEN th' = [th EXCEPT ![w].pc = "grant", ![w].gen = gen] /\ UNCHANGED ui
       ELSE leave(w)
    /\ UNCHANGED <<closing, tables, pending, sub, loop, up>>

(* decision_generation, then a session of that generation: the browser's   *)
(* own if it is still current, a rotated one, or a new one.                *)
exchange_grant(w, browser) ==
    LET role == IF th[w].arg = NoRequest THEN "provider" ELSE "request"
        old == session(role, browser)
        current == \E s \in old : role = "provider" \/ s.gen = gen'
        full == old = {} /\ Cardinality({s \in sessions : s.role = role}) >= MaxSessions
        new == [id |-> drawn + 1, role |-> role, gen |-> gen',
                born |-> th[w].gen] IN
    /\ at(w, "grant") /\ gate_free
    /\ admit
    /\ IF current \/ full \/ (gen' # gen /\ failed')
       THEN UNCHANGED <<sessions, drawn>>
       ELSE sessions' = (sessions \ old) \cup {new} /\ drawn' = drawn + 1
    /\ leave(w)
    /\ UNCHANGED <<closing, launch, pending, disk, sub, loop, up>>

(* ProviderApplication::authenticate: the old session ends first; after a  *)
(* failed attempt the session ends once more.                              *)
authenticate(w) ==
    /\ at(w, "unlock") /\ gate_free
    /\ IF closing \/ failed THEN UNCHANGED authority
       ELSE \/ /\ gen' = gen + 1 /\ open' = TRUE /\ failed' = FALSE
               /\ deadlines' = {} /\ status' = ended(status)
            \/ revoke_from(status, 1) /\ failed'
            \/ revoke_from(ended(status), 2)
    /\ leave(w)
    /\ UNCHANGED <<closing, tables, pending, disk, sub, loop, up>>

lock(w) ==
    /\ at(w, "lock") /\ gate_free
    /\ revoke
    /\ leave(w)
    /\ UNCHANGED <<closing, tables, pending, disk, sub, loop, up>>

(* Mutant: the session's generation is not compared.                       *)
decision_authorized_any(w) == session("request", th[w].browser) # {}

(* decision_authorized, after its call of decision_generation.             *)
decision_authorized(w) == \E s \in session("request", th[w].browser) : s.gen = gen'

authorize(w) ==
    /\ at(w, "authorize") /\ gate_free
    /\ admit
    /\ IF decision_authorized(w) THEN goto(w, "prepare") /\ UNCHANGED ui ELSE leave(w)
    /\ UNCHANGED <<closing, tables, pending, disk, sub, loop, up>>

(* prepare_approval.  A denial goes on with the UI locked, an approval     *)
(* lets go of it.                                                          *)
prepare(w) ==
    /\ at(w, "prepare") /\ gate_free
    /\ admit
    /\ IF reviewable(th[w].arg)
       THEN /\ th' = [th EXCEPT ![w].gen = gen,
                                ![w].pc = IF th[w].path = "deny" THEN "commit" ELSE "password"]
            /\ ui' = IF th[w].path = "deny" THEN ui ELSE Nobody
       ELSE leave(w)
    /\ UNCHANGED <<closing, tables, pending, disk, sub, loop, up>>

(* PreparedApproval::authenticate, with no mutex held; then the UI once    *)
(* more, whether the password was right or wrong.                          *)
password(w) ==
    /\ at(w, "password") /\ ui = Nobody
    /\ ui' = w /\ goto(w, "reauthorize")
    /\ UNCHANGED <<authority, closing, tables, pending, disk, sub, loop, up>>

reauthorize(w) ==
    /\ at(w, "reauthorize") /\ gate_free
    /\ admit
    /\ \/ decision_authorized(w) /\ goto(w, "commit") /\ UNCHANGED ui
       \/ leave(w)   \* not authorized any more, or the password was wrong
    /\ UNCHANGED <<closing, tables, pending, disk, sub, loop, up>>

(* commit_decision in the session it was prepared in: the backend may      *)
(* refuse, the write may fail with or without having landed, and so may    *)
(* the dispatch to the execution worker, which closes admission.           *)
commit(w) ==
    LET deny == th[w].path = "deny"
        decided == [status EXCEPT ![th[w].arg] = IF deny THEN "Denied" ELSE "Approved"] IN
    /\ at(w, "commit") /\ gate_free
    /\ IF reviewable(th[w].arg) /\ th[w].gen = gen
       THEN \/ /\ status' = decided /\ UNCHANGED <<gen, open, failed, deadlines>>
               /\ closing' \in {FALSE} \cup (IF Faults /\ ~deny THEN {TRUE} ELSE {})
            \/ ~deny /\ UNCHANGED <<authority, closing>>
            \/ Faults /\ closing' = TRUE /\ \E s \in {status, decided} : revoke_from(s, 2)
       ELSE admit /\ UNCHANGED closing
    /\ leave(w)
    /\ UNCHANGED <<tables, pending, disk, sub, loop, up>>

-----------------------------------------------------------------------------
(* The serving loop.                                                       *)

serving(l) == up /\ serve = l

(* One turn of the loop joins the workers that have finished, and takes at *)
(* most one connection.  Every second it first prunes the broker's         *)
(* launches: it asks the application about one after the other, and takes  *)
(* the broker again for those that are over.                               *)
prune_begins ==
    /\ serving("loop") /\ ~stop /\ broker_free /\ pending # {}
    /\ serve' = "prune" /\ pruning' = pending
    /\ UNCHANGED <<authority, closing, tables, pending, disk, ui, th, sub, stop, up>>

prune(r) ==
    /\ serving("prune") /\ r \in pruning /\ gate_free
    /\ admit
    /\ pruning' = pruning \ {r}
    /\ IF reviewable(r) THEN UNCHANGED <<pending, disk>>
       ELSE pending' = pending \ {r} /\ drop(pending \cap {r})
    /\ UNCHANGED <<closing, tables, ui, th, sub, serve, stop, up>>

prune_ends ==
    /\ serving("prune") /\ pruning = {} /\ serve' = "loop"
    /\ UNCHANGED <<authority, closing, tables, pending, disk, ui, th, sub, pruning, stop, up>>

accept(w) ==
    /\ serving("loop") /\ ~stop
    /\ th[w] = Gone
    /\ goto(w, "waiting")
    /\ UNCHANGED <<authority, closing, tables, pending, disk, ui, sub, loop, up>>

(* Every worker is taken: the whole service shuts down.                    *)
overload ==
    /\ serving("loop") /\ ~stop /\ \A w \in Workers : th[w] # Gone
    /\ stop' = TRUE /\ closing' = TRUE /\ serve' = "overload"
    /\ UNCHANGED <<authority, tables, pending, disk, ui, th, sub, pruning, up>>

overload_lock ==
    /\ serving("overload") /\ gate_free
    /\ revoke /\ serve' = "loop"
    /\ UNCHANGED <<closing, tables, pending, disk, ui, th, sub, pruning, stop, up>>

(* The loop ends when it is told to, or when accept fails: shutdown closes *)
(* admission, and then waits for the gate.                                 *)
loop_ends ==
    /\ serving("loop") /\ (stop \/ Faults)
    /\ stop' = TRUE /\ closing' = TRUE /\ serve' = "lock"
    /\ UNCHANGED <<authority, tables, pending, disk, ui, th, sub, pruning, up>>

early_lock ==
    /\ serving("lock") /\ gate_free
    /\ revoke /\ serve' = "join"
    /\ UNCHANGED <<closing, tables, pending, disk, ui, th, sub, pruning, stop, up>>

(* Mutant: the workers are left alone.                                     *)
join_nobody ==
    /\ serving("join") /\ serve' = "final"
    /\ UNCHANGED <<authority, closing, tables, pending, disk, ui, th, sub, pruning, stop, up>>

(* Every worker is joined.                                                 *)
join ==
    /\ serving("join") /\ \A w \in Workers : th[w] = Gone
    /\ serve' = "final"
    /\ UNCHANGED <<authority, closing, tables, pending, disk, ui, th, sub, pruning, stop, up>>

(* The second shutdown; then the launches that are left are dropped.       *)
final_lock ==
    /\ serving("final") /\ gate_free /\ broker_free
    /\ revoke
    /\ pending' = {} /\ drop(pending) /\ serve' = "returned"
    /\ UNCHANGED <<closing, tables, ui, th, sub, pruning, stop, up>>

(* monitor_shutdown notices that admission is closed, or closed it itself. *)
stop_requested ==
    /\ up /\ closing /\ ~stop /\ stop' = TRUE
    /\ UNCHANGED <<authority, closing, tables, pending, disk, ui, th, sub, serve, pruning, up>>

-----------------------------------------------------------------------------
(* The process exits or is killed at any step: its memory is gone, the     *)
(* records and the files stay.                                             *)
crash ==
    /\ up /\ up' = FALSE
    /\ gen' = 0 /\ open' = FALSE /\ failed' = FALSE /\ closing' = FALSE /\ deadlines' = {}
    /\ launch' = FALSE /\ sessions' = {} /\ pending' = {} /\ pruning' = {}
    /\ ui' = Nobody /\ th' = [w \in Workers |-> Gone] /\ sub' = NoSubmission
    /\ serve' = "loop" /\ stop' = FALSE /\ left' = {}
    /\ UNCHANGED <<status, artifacts, drawn>>

(* Mutant: the previous daemon's files stay.                               *)
bind_keeps == UNCHANGED artifacts

(* LoopbackUi::bind discards the review files it finds, or does not serve. *)
bind == artifacts' = {}

start ==
    /\ ~up
    /\ up' = TRUE
    /\ bind
    /\ gen' = 1 /\ status' = ended(status) /\ launch' = TRUE
    /\ UNCHANGED <<open, failed, closing, deadlines, sessions, drawn, pending, left, ui, th, sub, loop>>

Init ==
    /\ gen = 0 /\ open = FALSE /\ failed = FALSE /\ closing = FALSE
    /\ status = [r \in Requests |-> "None"] /\ deadlines = {}
    /\ launch = FALSE /\ sessions = {} /\ drawn = 0
    /\ pending = {} /\ artifacts = {} /\ left = {}
    /\ ui = Nobody /\ th = [w \in Workers |-> Gone] /\ sub = NoSubmission
    /\ serve = "loop" /\ pruning = {} /\ stop = FALSE /\ up = FALSE

work(w) ==
    \/ turn_away(w)
    \/ \E r \in Requests \cup {NoRequest} : enter_launch(w, r)
    \/ \E b \in 1..drawn, path \in {"unlock", "lock"} : enter_provider(w, path, b)
    \/ \E b \in 1..drawn, path \in {"approve", "deny"}, r \in Requests : enter_decision(w, path, b, r)
    \/ exchange_take(w) \/ exchange_status(w) \/ \E b \in 0..drawn : exchange_grant(w, b)
    \/ authenticate(w) \/ lock(w)
    \/ authorize(w) \/ prepare(w) \/ password(w) \/ reauthorize(w) \/ commit(w)

submission == launch_refused \/ launch_begins \/ launch_opened \/ launch_failed

service ==
    \/ prune_begins \/ (\E r \in pruning : prune(r)) \/ prune_ends
    \/ (\E w \in Workers : accept(w)) \/ loop_ends \/ overload \/ overload_lock
    \/ early_lock \/ join \/ final_lock

Next ==
    \/ session_expires \/ close_admission
    \/ \E r \in Requests : request_expires(r) \/ submit(r) \/ submit_unlaunched(r) \/ submit_fails(r)
    \/ submission
    \/ \E w \in Workers : work(w)
    \/ service \/ stop_requested
    \/ crash \/ start

Spec == Init /\ [][Next]_vars

-----------------------------------------------------------------------------
Steps == {"none", "waiting", "take", "status", "grant", "unlock", "lock", "authorize",
          "prepare", "password", "reauthorize", "commit"}

(* Types.                                                                  *)
TypeOK ==
    /\ gen \in Nat /\ open \in BOOLEAN /\ failed \in BOOLEAN /\ closing \in BOOLEAN
    /\ status \in [Requests -> {"None", "Pending", "Approved", "Denied", "Ended"}]
    /\ deadlines \subseteq Requests /\ launch \in BOOLEAN
    /\ sessions \subseteq [id : 1..drawn, role : {"provider", "request"}, gen : Nat, born : Nat]
    /\ drawn \in Nat /\ pending \subseteq Requests /\ artifacts \subseteq Requests
    /\ left \subseteq Requests
    /\ ui \in Workers \cup {Nobody}
    /\ th \in [Workers -> [pc : Steps, path : {"none", "launch", "unlock", "lock", "approve", "deny"},
                           browser : Nat, arg : Requests \cup {NoRequest}, gen : Nat]]
    /\ sub \in [pc : {"none", "launching", "opening"}, r : Requests \cup {NoRequest}]
    /\ serve \in {"loop", "prune", "overload", "lock", "join", "final", "returned"}
    /\ pruning \subseteq Requests /\ stop \in BOOLEAN /\ up \in BOOLEAN

(* What the next property asks of one step.                                *)
LaunchStep ==
    \A r \in Requests : status'[r] # status[r] /\ status'[r] \in {"Approved", "Denied"} =>
        /\ reviewable(r)
        /\ \E w \in Workers, s \in sessions :
              /\ th[w].pc = "commit" /\ th'[w] = Gone /\ th[w].arg = r
              /\ s.role = "request" /\ s.id = th[w].browser
              /\ s.gen = gen /\ s.born = gen

(* A browser decides a request only in the provider session in which both  *)
(* the request and the launch that let the browser in were made, whatever  *)
(* expired, was locked, unlocked or launched again while the capability    *)
(* was exchanged or the password verified.                                 *)
DecisionIsFromItsLaunch == [][LaunchStep]_vars

(* Launches the broker does not hold: one that is being opened, or one     *)
(* that has been taken for its exchange.                                   *)
InHand ==
    {r \in Requests : \/ sub.pc = "opening" /\ sub.r = r
                      \/ \E w \in Workers : th[w].pc = "status" /\ th[w].arg = r}

(* The review files on disk are those of the launches that can still be    *)
(* exchanged, or that are in a thread's hands right now: a launch that     *)
(* failed, was used, pruned or left behind by a crash leaves no file with  *)
(* a capability.  (A file that could not be removed stays until the next   *)
(* start, and names a capability that is neither pending nor in hand.)     *)
NoStrayCapability ==
    up => /\ artifacts = pending \cup InHand \cup left
          /\ pending \cap InHand = {} /\ (pending \cup InHand) \cap left = {}

(* When serve returns, no session is open and none can be opened, every    *)
(* worker has been joined, no submission is in the broker, and no launch   *)
(* is left, nor a file that could be removed: although submissions come    *)
(* from other transports, and serve never asks those to stop.              *)
ReturnedMeansLocked ==
    up /\ serve = "returned" =>
        /\ ~open /\ closing /\ sub = NoSubmission
        /\ \A w \in Workers : th[w] = Gone
        /\ ui = Nobody /\ pending = {} /\ artifacts = left

(* Until serve has returned somebody can go on: the loop, the submission   *)
(* that holds the gate, or a worker.  The three mutexes and the join never *)
(* wait for each other in a circle.                                        *)
NothingStuck ==
    up /\ serve # "returned" =>
        ENABLED (service \/ submission \/ (\E w \in Workers : work(w)))
=============================================================================
