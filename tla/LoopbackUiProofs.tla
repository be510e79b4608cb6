-------------------------- MODULE LoopbackUiProofs --------------------------
(***************************************************************************)
(* Theorems about LoopbackUi, for every number of workers, requests,       *)
(* launches and sessions, and with or without failing writes and removals. *)
(***************************************************************************)
EXTENDS LoopbackUi, FiniteSetTheorems, TLAPS

-----------------------------------------------------------------------------
(* The inductive invariant.                                                *)

Session == [id : Nat, role : {"provider", "request"}, gen : Nat, born : Nat]
Status == {"None", "Pending", "Approved", "Denied", "Ended"}
Worker == [pc : Steps, path : {"none", "launch", "unlock", "lock", "approve", "deny"},
           browser : Nat, arg : Requests \cup {NoRequest}, gen : Nat]

Flags ==
    /\ open \in BOOLEAN /\ failed \in BOOLEAN /\ closing \in BOOLEAN
    /\ launch \in BOOLEAN /\ stop \in BOOLEAN /\ up \in BOOLEAN

AuthorityTypes == gen \in Nat /\ status \in [Requests -> Status] /\ deadlines \subseteq Requests

SessionTypes == drawn \in Nat /\ sessions \subseteq Session /\ \A s \in sessions : s.id \in 1..drawn

LaunchTypes ==
    /\ pending \subseteq Requests /\ pruning \subseteq Requests
    /\ artifacts \subseteq Requests /\ left \subseteq Requests

ThreadTypes ==
    /\ ui \in Workers \cup {Nobody} /\ th \in [Workers -> Worker]
    /\ sub \in [pc : {"none", "launching", "opening"}, r : Requests \cup {NoRequest}]
    /\ IF sub.pc = "none" THEN sub = NoSubmission ELSE sub.r \in Requests
    /\ serve \in {"loop", "prune", "overload", "lock", "join", "final", "returned"}

Types == Flags /\ AuthorityTypes /\ SessionTypes /\ LaunchTypes /\ ThreadTypes

(* What a step of the running daemon other than an unlock or a submission  *)
(* does to the authority: nothing to the generation, or an end to it.      *)
Moves ==
    /\ status' \in [Requests -> Status]
    /\ \A r \in Requests : status[r] # "None" => status'[r] # "None"
    /\ \/ gen' = gen /\ open' = open /\ deadlines' \subseteq deadlines
       \/ gen' \in Nat /\ gen' > gen /\ ~open' /\ deadlines' = {}

(* Where a worker holds the UI mutex.                                      *)
Inside == {"take", "status", "grant", "unlock", "lock", "authorize", "prepare", "reauthorize", "commit"}
Deciding == {"authorize", "prepare", "password", "reauthorize", "commit"}

(* The worker inside is the holder of the UI mutex, and the only one.      *)
Control(w) ==
    /\ th[w].pc \in Inside <=> ui = w
    /\ th[w].pc = "none" => th[w] = Gone
    /\ th[w].pc \in Deciding \cup {"take", "status"} => th[w].arg \in Requests

(* A process that is gone has left nothing in memory.                      *)
Down ==
    ~up => /\ ~open /\ ~closing /\ deadlines = {} /\ sessions = {} /\ pending = {} /\ left = {}
           /\ sub = NoSubmission /\ serve = "loop" /\ pruning = {} /\ \A w \in Workers : th[w] = Gone

(* While a session is open, the browser sessions of its generation come    *)
(* from requests of that generation, and so does the one that a worker is  *)
(* about to grant.  A worker that is about to decide has such a session.   *)
(* It holds the UI mutex, so nobody unlocks before it is done: what can    *)
(* happen to it is that the session ends.                                  *)
Current ==
    /\ deadlines # {} => open
    /\ \A s \in sessions :
          s.gen <= gen /\ (s.role = "request" /\ s.gen = gen /\ open => s.born = gen)
    /\ \A w \in Workers :
          /\ th[w].pc = "grant" /\ th[w].arg \in Requests /\ open => th[w].gen = gen
          /\ th[w].pc \in {"prepare", "commit"} /\ open =>
                \E s \in sessions : s.role = "request" /\ s.id = th[w].browser /\ s.gen = gen

(* A file, once made, is in the broker, or in exactly one pair of hands,   *)
(* or could not be removed.                                                *)
Files ==
    /\ NoStrayCapability
    /\ \A r \in artifacts : status[r] # "None"
    /\ sub.pc # "none" => up /\ status[sub.r] # "None" /\ open
    /\ sub.pc = "launching" => sub.r \notin artifacts
    /\ sub.pc = "opening" => sub.r \notin pending /\ \A w \in Workers : th[w].pc = "status" => th[w].arg # sub.r

(* What each stage of the shutdown has brought about.  Admission is closed *)
(* before the gate is taken, so whoever takes the gate afterwards neither  *)
(* opens a session nor starts a launch.                                    *)
Shut ==
    /\ serve \in {"overload", "lock", "join", "final", "returned"} => closing
    /\ serve \in {"join", "final", "returned"} => ~open /\ sub = NoSubmission
    /\ serve \in {"final", "returned"} => \A w \in Workers : th[w] = Gone
    /\ serve = "returned" => pending = {}

UInv == Types /\ (\A w \in Workers : Control(w)) /\ Down /\ Current /\ Files /\ Shut

-----------------------------------------------------------------------------
(* What the steps do to the authority and to the table of sessions.        *)

(* One or two calls of Authority::revoke.                                  *)
LEMMA Revoked ==
  ASSUME AuthorityTypes, NEW s \in [Requests -> Status], NEW n \in {1, 2}, revoke_from(s, n),
         \A r \in Requests : status[r] # "None" => s[r] # "None"
  PROVE  Moves /\ ~open'
<1>1. gen' \in Nat /\ gen' > gen /\ ~open' /\ deadlines' = {}
  BY DEF revoke_from, AuthorityTypes
<1>2. status' \in [Requests -> Status] /\ \A r \in Requests : s[r] # "None" => status'[r] # "None"
  BY DEF revoke_from, ended, Status
<1> QED
  BY <1>1, <1>2 DEF Moves

(* The end of a submission.                                                *)
LEMMA Settled ==
  ASSUME Types, sub.pc # "none", NEW s \in {status, without_launch}, settle(s)
  PROVE  Moves /\ sub' = NoSubmission
<1>1. s \in [Requests -> Status] /\ \A r \in Requests : status[r] # "None" => s[r] # "None"
  BY DEF Types, AuthorityTypes, without_launch, Status
<1>2. CASE revoke_from(s, 1)
  BY <1>1, <1>2, Revoked DEF Types, settle
<1>3. CASE status' = s /\ UNCHANGED <<gen, open, failed, deadlines>>
  BY <1>1, <1>3 DEF Types, AuthorityTypes, settle, Moves
<1> QED
  BY <1>2, <1>3 DEF settle

(* A submission that reaches the broker ends in one of three ways.         *)
LEMMA LaunchSettles ==
  Types /\ (launch_refused \/ launch_opened \/ launch_failed) => Moves /\ sub' = NoSubmission
<1> SUFFICES ASSUME Types, launch_refused \/ launch_opened \/ launch_failed
             PROVE Moves /\ sub' = NoSubmission
  OBVIOUS
<1>1. PICK s \in {status, without_launch} : settle(s)
  BY DEF launch_refused, launch_opened, launch_failed
<1> QED
  BY <1>1, Settled DEF launch_refused, launch_opened, launch_failed

(* A call that finds admission closed ends the session, any other call     *)
(* leaves it alone.                                                        *)
LEMMA Admitted == Types /\ admit => Moves /\ gen' \in Nat
<1> SUFFICES ASSUME Types, admit PROVE Moves /\ gen' \in Nat
  OBVIOUS
<1>1. CASE revoke
  BY <1>1, Revoked DEF Types, AuthorityTypes, revoke, Moves
<1>2. CASE UNCHANGED authority
  BY <1>2 DEF Types, AuthorityTypes, authority, Moves
<1> QED
  BY <1>1, <1>2 DEF admit

(* A request that ends before it is launched.                              *)
LEMMA Unlaunched == ASSUME Types, NEW r \in Requests, submit_unlaunched(r) PROVE Moves
<1>1. ASSUME NEW x \in {"Pending", "Ended"}
      PROVE  /\ [status EXCEPT ![r] = x] \in [Requests -> Status]
             /\ \A q \in Requests : status[q] # "None" => [status EXCEPT ![r] = x][q] # "None"
  BY DEF Types, AuthorityTypes, Status
<1>2. CASE revoke_from([status EXCEPT ![r] = "Pending"], 1)
  BY <1>1, <1>2, Revoked DEF Types
<1>3. CASE status' = [status EXCEPT ![r] = "Ended"] /\ UNCHANGED <<gen, open, failed, deadlines>>
  BY <1>1, <1>3 DEF Types, AuthorityTypes, Moves
<1> QED
  BY <1>2, <1>3 DEF submit_unlaunched

(* What a commit does to the authority, whichever way it ends.             *)
LEMMA Committed ==
  ASSUME Types, NEW w \in Workers, commit(w), th[w].arg \in Requests
  PROVE  Moves
<1> DEFINE decided == [status EXCEPT ![th[w].arg] = IF th[w].path = "deny" THEN "Denied" ELSE "Approved"]
<1>1. decided \in [Requests -> Status] /\ \A r \in Requests : status[r] # "None" => decided[r] # "None"
  BY DEF Types, AuthorityTypes, Status
<1>2. status \in [Requests -> Status]
  BY DEF Types, AuthorityTypes
<1>3. CASE revoke
  BY <1>2, <1>3, Revoked DEF Types, revoke
<1>4. CASE \E s \in {status, decided} : revoke_from(s, 2)
  BY <1>1, <1>2, <1>4, Revoked DEF Types
<1>5. CASE status' \in {status, decided} /\ UNCHANGED <<gen, open, failed, deadlines>>
  BY <1>1, <1>2, <1>5 DEF Types, AuthorityTypes, Moves
<1> QED
  BY <1>3, <1>4, <1>5 DEF commit, admit, authority

(* A grant leaves the table alone, or adds one session and drops at most   *)
(* the one it replaces.                                                    *)
LEMMA Granted ==
  ASSUME Types, NEW w \in Workers, NEW b \in 0..drawn, exchange_grant(w, b)
  PROVE  \/ UNCHANGED <<sessions, drawn>>
         \/ /\ drawn' = drawn + 1
            /\ \E x \in Session : /\ x.id = drawn + 1 /\ x.gen = gen' /\ x.born = th[w].gen
                                  /\ x.role = "request" => th[w].arg # NoRequest
                                  /\ sessions' \subseteq sessions \cup {x}
<1> DEFINE role == IF th[w].arg = NoRequest THEN "provider" ELSE "request"
           x == [id |-> drawn + 1, role |-> role, gen |-> gen', born |-> th[w].gen]
<1>1. UNCHANGED <<sessions, drawn>>
      \/ (drawn' = drawn + 1 /\ sessions' = (sessions \ session(role, b)) \cup {x})
  BY DEF exchange_grant
<1>2. gen' \in Nat
  BY Admitted DEF exchange_grant
<1>3. x \in Session
  BY <1>2 DEF Types, SessionTypes, ThreadTypes, Worker, Session
<1> QED
  BY <1>1, <1>3

(* A worker that commits has a request to decide.                          *)
LEMMA CommitMoves == ASSUME UInv, NEW w \in Workers, commit(w) PROVE Moves
  BY Committed DEF UInv, Control, Deciding, commit, at

(* A session that ends, or goes on, lets nobody in.                        *)
LEMMA CurrentMoves == UInv /\ Moves /\ UNCHANGED <<th, sessions>> => Current'
<1> SUFFICES ASSUME UInv, Moves, UNCHANGED <<th, sessions>> PROVE Current'
  OBVIOUS
<1>1. CASE gen' = gen /\ open' = open /\ deadlines' \subseteq deadlines
  BY <1>1 DEF UInv, Current
<1>2. CASE gen' \in Nat /\ gen' > gen /\ ~open' /\ deadlines' = {}
  <2>1. ASSUME NEW s \in sessions PROVE s.gen <= gen' /\ s.gen \in Nat
    BY <1>2, <2>1 DEF UInv, Types, AuthorityTypes, SessionTypes, Session, Current
  <2> QED
    BY <1>2, <2>1 DEF Current
<1> QED
  BY <1>1, <1>2 DEF Moves

-----------------------------------------------------------------------------
(* Types.                                                                  *)

(* The flags are Booleans.                                                *)
LEMMA FlagsNext == Flags /\ Next => Flags'
<1> SUFFICES ASSUME Flags, Next PROVE Flags'
  OBVIOUS
<1> USE DEF Flags, authority, tables, loop, revoke, revoke_from, admit
<1>1. CASE session_expires
  BY <1>1 DEF session_expires, revoke
<1>2. ASSUME NEW r \in Requests, request_expires(r) PROVE Flags'
  BY <1>2 DEF request_expires
<1>3. CASE close_admission
  BY <1>3 DEF close_admission
<1>4. ASSUME NEW r \in Requests, submit(r) PROVE Flags'
  BY <1>4 DEF submit
<1>5. ASSUME NEW r \in Requests, submit_unlaunched(r) PROVE Flags'
  BY <1>5 DEF submit_unlaunched
<1>6. ASSUME NEW r \in Requests, submit_fails(r) PROVE Flags'
  BY <1>6 DEF submit_fails
<1>7. CASE launch_refused
  BY <1>7 DEF launch_refused, settle, without_launch
<1>8. CASE launch_begins
  BY <1>8 DEF launch_begins
<1>9. CASE launch_opened
  BY <1>9 DEF launch_opened, settle
<1>10. CASE launch_failed
  BY <1>10 DEF launch_failed, settle, without_launch
<1>11. ASSUME NEW w \in Workers, turn_away(w) PROVE Flags'
  BY <1>11 DEF turn_away, at, done
<1>12. ASSUME NEW w \in Workers, NEW r \in Requests \cup {NoRequest}, enter_launch(w, r) PROVE Flags'
  BY <1>12 DEF enter_launch, enter, at
<1>13. ASSUME NEW w \in Workers, NEW b \in 1..drawn, NEW path \in {"unlock", "lock"}, enter_provider(w, path, b) PROVE Flags'
  BY <1>13 DEF enter_provider, enter, at
<1>14. ASSUME NEW w \in Workers, NEW b \in 1..drawn, NEW path \in {"approve", "deny"}, NEW r \in Requests, enter_decision(w, path, b, r) PROVE Flags'
  BY <1>14 DEF enter_decision, enter, at
<1>15. ASSUME NEW w \in Workers, exchange_take(w) PROVE Flags'
  BY <1>15 DEF exchange_take, at, goto, leave, done
<1>16. ASSUME NEW w \in Workers, exchange_status(w) PROVE Flags'
  BY <1>16 DEF exchange_status, at, goto, leave, done
<1>17. ASSUME NEW w \in Workers, NEW b \in 0..drawn, exchange_grant(w, b) PROVE Flags'
  BY <1>17 DEF exchange_grant, at, leave, done
<1>18. ASSUME NEW w \in Workers, authenticate(w) PROVE Flags'
  BY <1>18 DEF authenticate, at, leave, done
<1>19. ASSUME NEW w \in Workers, lock(w) PROVE Flags'
  BY <1>19 DEF lock, at, leave, done, revoke
<1>20. ASSUME NEW w \in Workers, authorize(w) PROVE Flags'
  BY <1>20 DEF authorize, at, goto, leave, done
<1>21. ASSUME NEW w \in Workers, prepare(w) PROVE Flags'
  BY <1>21 DEF prepare, at, goto, leave, done
<1>22. ASSUME NEW w \in Workers, password(w) PROVE Flags'
  BY <1>22 DEF password, at, goto
<1>23. ASSUME NEW w \in Workers, reauthorize(w) PROVE Flags'
  BY <1>23 DEF reauthorize, at, goto, leave, done
<1>24. ASSUME NEW w \in Workers, commit(w) PROVE Flags'
  BY <1>24 DEF commit, at, leave, done
<1>25. CASE prune_begins
  BY <1>25 DEF prune_begins, serving
<1>26. ASSUME NEW r \in pruning, prune(r) PROVE Flags'
  BY <1>26 DEF prune, serving
<1>27. CASE prune_ends
  BY <1>27 DEF prune_ends, serving
<1>28. ASSUME NEW w \in Workers, accept(w) PROVE Flags'
  BY <1>28 DEF accept, serving, goto
<1>29. CASE overload
  BY <1>29 DEF overload, serving
<1>30. CASE overload_lock
  BY <1>30 DEF overload_lock, serving, revoke
<1>31. CASE loop_ends
  BY <1>31 DEF loop_ends, serving
<1>32. CASE early_lock
  BY <1>32 DEF early_lock, serving, revoke
<1>33. CASE join
  BY <1>33 DEF join, serving
<1>34. CASE final_lock
  BY <1>34 DEF final_lock, serving, revoke
<1>35. CASE stop_requested
  BY <1>35 DEF stop_requested
<1>36. CASE crash
  BY <1>36 DEF crash
<1>37. CASE start
  BY <1>37 DEF start, bind
<1> QED
  BY <1>1, <1>2, <1>3, <1>4, <1>5, <1>6, <1>7, <1>8, <1>9, <1>10, <1>11, <1>12, <1>13, <1>14,
     <1>15, <1>16, <1>17, <1>18, <1>19, <1>20, <1>21, <1>22, <1>23, <1>24, <1>25, <1>26, <1>27, <1>28,
     <1>29, <1>30, <1>31, <1>32, <1>33, <1>34, <1>35, <1>36, <1>37
  DEF Next, work, submission, service

(* The generation is a number, the requests have a status.                 *)
LEMMA AuthorityNext == Types /\ Next => AuthorityTypes'
<1> SUFFICES ASSUME Types, Next PROVE AuthorityTypes'
  OBVIOUS
<1> USE DEF Types, AuthorityTypes, Status, authority, tables, loop, revoke, revoke_from, ended, admit
<1>1. CASE session_expires
  BY <1>1 DEF session_expires, revoke
<1>2. ASSUME NEW r \in Requests, request_expires(r) PROVE AuthorityTypes'
  BY <1>2 DEF request_expires
<1>3. CASE close_admission
  BY <1>3 DEF close_admission
<1>4. ASSUME NEW r \in Requests, submit(r) PROVE AuthorityTypes'
  BY <1>4 DEF submit
<1>5. ASSUME NEW r \in Requests, submit_unlaunched(r) PROVE AuthorityTypes'
  BY <1>5, Unlaunched DEF Moves
<1>6. ASSUME NEW r \in Requests, submit_fails(r) PROVE AuthorityTypes'
  BY <1>6 DEF submit_fails
<1>7. CASE launch_refused
  BY <1>7, LaunchSettles DEF Moves
<1>8. CASE launch_begins
  BY <1>8 DEF launch_begins
<1>9. CASE launch_opened
  BY <1>9, LaunchSettles DEF Moves
<1>10. CASE launch_failed
  BY <1>10, LaunchSettles DEF Moves
<1>11. ASSUME NEW w \in Workers, turn_away(w) PROVE AuthorityTypes'
  BY <1>11 DEF turn_away, at, done
<1>12. ASSUME NEW w \in Workers, NEW r \in Requests \cup {NoRequest}, enter_launch(w, r) PROVE AuthorityTypes'
  BY <1>12 DEF enter_launch, enter, at
<1>13. ASSUME NEW w \in Workers, NEW b \in 1..drawn, NEW path \in {"unlock", "lock"}, enter_provider(w, path, b) PROVE AuthorityTypes'
  BY <1>13 DEF enter_provider, enter, at
<1>14. ASSUME NEW w \in Workers, NEW b \in 1..drawn, NEW path \in {"approve", "deny"}, NEW r \in Requests, enter_decision(w, path, b, r) PROVE AuthorityTypes'
  BY <1>14 DEF enter_decision, enter, at
<1>15. ASSUME NEW w \in Workers, exchange_take(w) PROVE AuthorityTypes'
  BY <1>15 DEF exchange_take, at, goto, leave, done
<1>16. ASSUME NEW w \in Workers, exchange_status(w) PROVE AuthorityTypes'
  BY <1>16 DEF exchange_status, at, goto, leave, done
<1>17. ASSUME NEW w \in Workers, NEW b \in 0..drawn, exchange_grant(w, b) PROVE AuthorityTypes'
  BY <1>17 DEF exchange_grant, at, leave, done
<1>18. ASSUME NEW w \in Workers, authenticate(w) PROVE AuthorityTypes'
  BY <1>18 DEF authenticate, at, leave, done
<1>19. ASSUME NEW w \in Workers, lock(w) PROVE AuthorityTypes'
  BY <1>19 DEF lock, at, leave, done, revoke
<1>20. ASSUME NEW w \in Workers, authorize(w) PROVE AuthorityTypes'
  BY <1>20 DEF authorize, at, goto, leave, done
<1>21. ASSUME NEW w \in Workers, prepare(w) PROVE AuthorityTypes'
  BY <1>21 DEF prepare, at, goto, leave, done
<1>22. ASSUME NEW w \in Workers, password(w) PROVE AuthorityTypes'
  BY <1>22 DEF password, at, goto
<1>23. ASSUME NEW w \in Workers, reauthorize(w) PROVE AuthorityTypes'
  BY <1>23 DEF reauthorize, at, goto, leave, done
<1>24. ASSUME NEW w \in Workers, commit(w) PROVE AuthorityTypes'
  <2>1. CASE th[w].arg \in Requests
    BY <1>24, <2>1, Committed DEF Moves, commit
  <2>2. CASE th[w].arg \notin Requests
    <3>1. th[w].arg \notin deadlines
      BY <2>2
    <3> QED
      BY <1>24, <3>1 DEF commit, reviewable
  <2> QED
    BY <2>1, <2>2
<1>25. CASE prune_begins
  BY <1>25 DEF prune_begins, serving
<1>26. ASSUME NEW r \in pruning, prune(r) PROVE AuthorityTypes'
  BY <1>26 DEF prune, serving
<1>27. CASE prune_ends
  BY <1>27 DEF prune_ends, serving
<1>28. ASSUME NEW w \in Workers, accept(w) PROVE AuthorityTypes'
  BY <1>28 DEF accept, serving, goto
<1>29. CASE overload
  BY <1>29 DEF overload, serving
<1>30. CASE overload_lock
  BY <1>30 DEF overload_lock, serving, revoke
<1>31. CASE loop_ends
  BY <1>31 DEF loop_ends, serving
<1>32. CASE early_lock
  BY <1>32 DEF early_lock, serving, revoke
<1>33. CASE join
  BY <1>33 DEF join, serving
<1>34. CASE final_lock
  BY <1>34 DEF final_lock, serving, revoke
<1>35. CASE stop_requested
  BY <1>35 DEF stop_requested
<1>36. CASE crash
  BY <1>36 DEF crash
<1>37. CASE start
  BY <1>37 DEF start, bind
<1> QED
  BY <1>1, <1>2, <1>3, <1>4, <1>5, <1>6, <1>7, <1>8, <1>9, <1>10, <1>11, <1>12, <1>13, <1>14,
     <1>15, <1>16, <1>17, <1>18, <1>19, <1>20, <1>21, <1>22, <1>23, <1>24, <1>25, <1>26, <1>27, <1>28,
     <1>29, <1>30, <1>31, <1>32, <1>33, <1>34, <1>35, <1>36, <1>37
  DEF Next, work, submission, service

(* Sessions are numbered in the order they are drawn.                      *)
LEMMA SessionNext == Types /\ Next => SessionTypes'
<1> SUFFICES ASSUME Types, Next PROVE SessionTypes'
  OBVIOUS
<1> USE DEF Types, SessionTypes, Session, authority, tables, loop
<1>1. CASE session_expires
  BY <1>1 DEF session_expires, revoke
<1>2. ASSUME NEW r \in Requests, request_expires(r) PROVE SessionTypes'
  BY <1>2 DEF request_expires
<1>3. CASE close_admission
  BY <1>3 DEF close_admission
<1>4. ASSUME NEW r \in Requests, submit(r) PROVE SessionTypes'
  BY <1>4 DEF submit
<1>5. ASSUME NEW r \in Requests, submit_unlaunched(r) PROVE SessionTypes'
  BY <1>5 DEF submit_unlaunched
<1>6. ASSUME NEW r \in Requests, submit_fails(r) PROVE SessionTypes'
  BY <1>6 DEF submit_fails
<1>7. CASE launch_refused
  BY <1>7 DEF launch_refused, settle, without_launch
<1>8. CASE launch_begins
  BY <1>8 DEF launch_begins
<1>9. CASE launch_opened
  BY <1>9 DEF launch_opened, settle
<1>10. CASE launch_failed
  BY <1>10 DEF launch_failed, settle, without_launch
<1>11. ASSUME NEW w \in Workers, turn_away(w) PROVE SessionTypes'
  BY <1>11 DEF turn_away, at, done
<1>12. ASSUME NEW w \in Workers, NEW r \in Requests \cup {NoRequest}, enter_launch(w, r) PROVE SessionTypes'
  BY <1>12 DEF enter_launch, enter, at
<1>13. ASSUME NEW w \in Workers, NEW b \in 1..drawn, NEW path \in {"unlock", "lock"}, enter_provider(w, path, b) PROVE SessionTypes'
  BY <1>13 DEF enter_provider, enter, at
<1>14. ASSUME NEW w \in Workers, NEW b \in 1..drawn, NEW path \in {"approve", "deny"}, NEW r \in Requests, enter_decision(w, path, b, r) PROVE SessionTypes'
  BY <1>14 DEF enter_decision, enter, at
<1>15. ASSUME NEW w \in Workers, exchange_take(w) PROVE SessionTypes'
  BY <1>15 DEF exchange_take, at, goto, leave, done
<1>16. ASSUME NEW w \in Workers, exchange_status(w) PROVE SessionTypes'
  BY <1>16 DEF exchange_status, at, goto, leave, done
<1>17. ASSUME NEW w \in Workers, NEW b \in 0..drawn, exchange_grant(w, b) PROVE SessionTypes'
  BY <1>17, Granted
<1>18. ASSUME NEW w \in Workers, authenticate(w) PROVE SessionTypes'
  BY <1>18 DEF authenticate, at, leave, done
<1>19. ASSUME NEW w \in Workers, lock(w) PROVE SessionTypes'
  BY <1>19 DEF lock, at, leave, done, revoke
<1>20. ASSUME NEW w \in Workers, authorize(w) PROVE SessionTypes'
  BY <1>20 DEF authorize, at, goto, leave, done
<1>21. ASSUME NEW w \in Workers, prepare(w) PROVE SessionTypes'
  BY <1>21 DEF prepare, at, goto, leave, done
<1>22. ASSUME NEW w \in Workers, password(w) PROVE SessionTypes'
  BY <1>22 DEF password, at, goto
<1>23. ASSUME NEW w \in Workers, reauthorize(w) PROVE SessionTypes'
  BY <1>23 DEF reauthorize, at, goto, leave, done
<1>24. ASSUME NEW w \in Workers, commit(w) PROVE SessionTypes'
  BY <1>24 DEF commit, at, leave, done
<1>25. CASE prune_begins
  BY <1>25 DEF prune_begins, serving
<1>26. ASSUME NEW r \in pruning, prune(r) PROVE SessionTypes'
  BY <1>26 DEF prune, serving
<1>27. CASE prune_ends
  BY <1>27 DEF prune_ends, serving
<1>28. ASSUME NEW w \in Workers, accept(w) PROVE SessionTypes'
  BY <1>28 DEF accept, serving, goto
<1>29. CASE overload
  BY <1>29 DEF overload, serving
<1>30. CASE overload_lock
  BY <1>30 DEF overload_lock, serving, revoke
<1>31. CASE loop_ends
  BY <1>31 DEF loop_ends, serving
<1>32. CASE early_lock
  BY <1>32 DEF early_lock, serving, revoke
<1>33. CASE join
  BY <1>33 DEF join, serving
<1>34. CASE final_lock
  BY <1>34 DEF final_lock, serving, revoke
<1>35. CASE stop_requested
  BY <1>35 DEF stop_requested
<1>36. CASE crash
  BY <1>36 DEF crash
<1>37. CASE start
  BY <1>37 DEF start, bind
<1> QED
  BY <1>1, <1>2, <1>3, <1>4, <1>5, <1>6, <1>7, <1>8, <1>9, <1>10, <1>11, <1>12, <1>13, <1>14,
     <1>15, <1>16, <1>17, <1>18, <1>19, <1>20, <1>21, <1>22, <1>23, <1>24, <1>25, <1>26, <1>27, <1>28,
     <1>29, <1>30, <1>31, <1>32, <1>33, <1>34, <1>35, <1>36, <1>37
  DEF Next, work, submission, service

(* Launches and files are those of requests.                               *)
LEMMA LaunchNext == UInv /\ Next => LaunchTypes'
<1> SUFFICES ASSUME UInv, Next PROVE LaunchTypes'
  OBVIOUS
<1> USE DEF UInv, Types, LaunchTypes, ThreadTypes, authority, tables, disk, loop
<1>1. CASE session_expires
  BY <1>1 DEF session_expires, revoke
<1>2. ASSUME NEW r \in Requests, request_expires(r) PROVE LaunchTypes'
  BY <1>2 DEF request_expires
<1>3. CASE close_admission
  BY <1>3 DEF close_admission
<1>4. ASSUME NEW r \in Requests, submit(r) PROVE LaunchTypes'
  BY <1>4 DEF submit
<1>5. ASSUME NEW r \in Requests, submit_unlaunched(r) PROVE LaunchTypes'
  BY <1>5 DEF submit_unlaunched
<1>6. ASSUME NEW r \in Requests, submit_fails(r) PROVE LaunchTypes'
  BY <1>6 DEF submit_fails
<1>7. CASE launch_refused
  BY <1>7 DEF launch_refused, settle, without_launch
<1>8. CASE launch_begins
  BY <1>8 DEF launch_begins
<1>9. CASE launch_opened
  BY <1>9 DEF launch_opened, settle
<1>10. CASE launch_failed
  BY <1>10 DEF launch_failed, settle, without_launch, drop
<1>11. ASSUME NEW w \in Workers, turn_away(w) PROVE LaunchTypes'
  BY <1>11 DEF turn_away, at, done
<1>12. ASSUME NEW w \in Workers, NEW r \in Requests \cup {NoRequest}, enter_launch(w, r) PROVE LaunchTypes'
  BY <1>12 DEF enter_launch, enter, at
<1>13. ASSUME NEW w \in Workers, NEW b \in 1..drawn, NEW path \in {"unlock", "lock"}, enter_provider(w, path, b) PROVE LaunchTypes'
  BY <1>13 DEF enter_provider, enter, at
<1>14. ASSUME NEW w \in Workers, NEW b \in 1..drawn, NEW path \in {"approve", "deny"}, NEW r \in Requests, enter_decision(w, path, b, r) PROVE LaunchTypes'
  BY <1>14 DEF enter_decision, enter, at
<1>15. ASSUME NEW w \in Workers, exchange_take(w) PROVE LaunchTypes'
  BY <1>15 DEF exchange_take, at, goto, leave, done
<1>16. ASSUME NEW w \in Workers, exchange_status(w) PROVE LaunchTypes'
  <2>1. th[w].arg \in Requests
    BY <1>16 DEF exchange_status, at, Control
  <2>2. PICK kept \in SUBSET {th[w].arg} : artifacts' = artifacts \ ({th[w].arg} \ kept) /\ left' = left \cup kept
    BY <1>16 DEF exchange_status, drop
  <2> QED
    BY <1>16, <2>1, <2>2 DEF exchange_status
<1>17. ASSUME NEW w \in Workers, NEW b \in 0..drawn, exchange_grant(w, b) PROVE LaunchTypes'
  BY <1>17 DEF exchange_grant, at, leave, done
<1>18. ASSUME NEW w \in Workers, authenticate(w) PROVE LaunchTypes'
  BY <1>18 DEF authenticate, at, leave, done
<1>19. ASSUME NEW w \in Workers, lock(w) PROVE LaunchTypes'
  BY <1>19 DEF lock, at, leave, done, revoke
<1>20. ASSUME NEW w \in Workers, authorize(w) PROVE LaunchTypes'
  BY <1>20 DEF authorize, at, goto, leave, done
<1>21. ASSUME NEW w \in Workers, prepare(w) PROVE LaunchTypes'
  BY <1>21 DEF prepare, at, goto, leave, done
<1>22. ASSUME NEW w \in Workers, password(w) PROVE LaunchTypes'
  BY <1>22 DEF password, at, goto
<1>23. ASSUME NEW w \in Workers, reauthorize(w) PROVE LaunchTypes'
  BY <1>23 DEF reauthorize, at, goto, leave, done
<1>24. ASSUME NEW w \in Workers, commit(w) PROVE LaunchTypes'
  BY <1>24 DEF commit, at, leave, done
<1>25. CASE prune_begins
  BY <1>25 DEF prune_begins, serving
<1>26. ASSUME NEW r \in pruning, prune(r) PROVE LaunchTypes'
  BY <1>26 DEF prune, serving, drop
<1>27. CASE prune_ends
  BY <1>27 DEF prune_ends, serving
<1>28. ASSUME NEW w \in Workers, accept(w) PROVE LaunchTypes'
  BY <1>28 DEF accept, serving, goto
<1>29. CASE overload
  BY <1>29 DEF overload, serving
<1>30. CASE overload_lock
  BY <1>30 DEF overload_lock, serving, revoke
<1>31. CASE loop_ends
  BY <1>31 DEF loop_ends, serving
<1>32. CASE early_lock
  BY <1>32 DEF early_lock, serving, revoke
<1>33. CASE join
  BY <1>33 DEF join, serving
<1>34. CASE final_lock
  BY <1>34 DEF final_lock, serving, revoke, drop
<1>35. CASE stop_requested
  BY <1>35 DEF stop_requested
<1>36. CASE crash
  BY <1>36 DEF crash
<1>37. CASE start
  BY <1>37 DEF start, bind
<1> QED
  BY <1>1, <1>2, <1>3, <1>4, <1>5, <1>6, <1>7, <1>8, <1>9, <1>10, <1>11, <1>12, <1>13, <1>14,
     <1>15, <1>16, <1>17, <1>18, <1>19, <1>20, <1>21, <1>22, <1>23, <1>24, <1>25, <1>26, <1>27, <1>28,
     <1>29, <1>30, <1>31, <1>32, <1>33, <1>34, <1>35, <1>36, <1>37
  DEF Next, work, submission, service

(* The threads.                                                           *)
LEMMA ThreadNext == Types /\ Next => ThreadTypes'
<1> SUFFICES ASSUME Types, Next PROVE ThreadTypes'
  OBVIOUS
<1> USE DEF Types, ThreadTypes, AuthorityTypes, SessionTypes, Worker, Steps, Gone, NoSubmission, authority, tables, loop
<1>1. CASE session_expires
  BY <1>1 DEF session_expires, revoke
<1>2. ASSUME NEW r \in Requests, request_expires(r) PROVE ThreadTypes'
  BY <1>2 DEF request_expires
<1>3. CASE close_admission
  BY <1>3 DEF close_admission
<1>4. ASSUME NEW r \in Requests, submit(r) PROVE ThreadTypes'
  BY <1>4 DEF submit
<1>5. ASSUME NEW r \in Requests, submit_unlaunched(r) PROVE ThreadTypes'
  BY <1>5 DEF submit_unlaunched
<1>6. ASSUME NEW r \in Requests, submit_fails(r) PROVE ThreadTypes'
  BY <1>6 DEF submit_fails
<1>7. CASE launch_refused
  BY <1>7 DEF launch_refused, settle, without_launch
<1>8. CASE launch_begins
  BY <1>8 DEF launch_begins
<1>9. CASE launch_opened
  BY <1>9 DEF launch_opened, settle
<1>10. CASE launch_failed
  BY <1>10 DEF launch_failed, settle, without_launch
<1>11. ASSUME NEW w \in Workers, turn_away(w) PROVE ThreadTypes'
  BY <1>11 DEF turn_away, at, done
<1>12. ASSUME NEW w \in Workers, NEW r \in Requests \cup {NoRequest}, enter_launch(w, r) PROVE ThreadTypes'
  BY <1>12 DEF enter_launch, enter, at
<1>13. ASSUME NEW w \in Workers, NEW b \in 1..drawn, NEW path \in {"unlock", "lock"}, enter_provider(w, path, b) PROVE ThreadTypes'
  BY <1>13 DEF enter_provider, enter, at
<1>14. ASSUME NEW w \in Workers, NEW b \in 1..drawn, NEW path \in {"approve", "deny"}, NEW r \in Requests, enter_decision(w, path, b, r) PROVE ThreadTypes'
  <2>1. b \in Nat
    OBVIOUS
  <2>2. [Gone EXCEPT !.pc = "authorize", !.path = path, !.browser = b, !.arg = r] \in Worker
    BY <2>1
  <2> QED
    BY <1>14, <2>2 DEF enter_decision, enter, at
<1>15. ASSUME NEW w \in Workers, exchange_take(w) PROVE ThreadTypes'
  BY <1>15 DEF exchange_take, at, goto, leave, done
<1>16. ASSUME NEW w \in Workers, exchange_status(w) PROVE ThreadTypes'
  BY <1>16 DEF exchange_status, at, goto, leave, done
<1>17. ASSUME NEW w \in Workers, NEW b \in 0..drawn, exchange_grant(w, b) PROVE ThreadTypes'
  BY <1>17 DEF exchange_grant, at, leave, done
<1>18. ASSUME NEW w \in Workers, authenticate(w) PROVE ThreadTypes'
  BY <1>18 DEF authenticate, at, leave, done
<1>19. ASSUME NEW w \in Workers, lock(w) PROVE ThreadTypes'
  BY <1>19 DEF lock, at, leave, done, revoke
<1>20. ASSUME NEW w \in Workers, authorize(w) PROVE ThreadTypes'
  BY <1>20 DEF authorize, at, goto, leave, done
<1>21. ASSUME NEW w \in Workers, prepare(w) PROVE ThreadTypes'
  BY <1>21 DEF prepare, at, goto, leave, done
<1>22. ASSUME NEW w \in Workers, password(w) PROVE ThreadTypes'
  BY <1>22 DEF password, at, goto
<1>23. ASSUME NEW w \in Workers, reauthorize(w) PROVE ThreadTypes'
  BY <1>23 DEF reauthorize, at, goto, leave, done
<1>24. ASSUME NEW w \in Workers, commit(w) PROVE ThreadTypes'
  BY <1>24 DEF commit, at, leave, done
<1>25. CASE prune_begins
  BY <1>25 DEF prune_begins, serving
<1>26. ASSUME NEW r \in pruning, prune(r) PROVE ThreadTypes'
  BY <1>26 DEF prune, serving
<1>27. CASE prune_ends
  BY <1>27 DEF prune_ends, serving
<1>28. ASSUME NEW w \in Workers, accept(w) PROVE ThreadTypes'
  BY <1>28 DEF accept, serving, goto
<1>29. CASE overload
  BY <1>29 DEF overload, serving
<1>30. CASE overload_lock
  BY <1>30 DEF overload_lock, serving, revoke
<1>31. CASE loop_ends
  BY <1>31 DEF loop_ends, serving
<1>32. CASE early_lock
  BY <1>32 DEF early_lock, serving, revoke
<1>33. CASE join
  BY <1>33 DEF join, serving
<1>34. CASE final_lock
  BY <1>34 DEF final_lock, serving, revoke
<1>35. CASE stop_requested
  BY <1>35 DEF stop_requested
<1>36. CASE crash
  BY <1>36 DEF crash
<1>37. CASE start
  BY <1>37 DEF start, bind
<1> QED
  BY <1>1, <1>2, <1>3, <1>4, <1>5, <1>6, <1>7, <1>8, <1>9, <1>10, <1>11, <1>12, <1>13, <1>14,
     <1>15, <1>16, <1>17, <1>18, <1>19, <1>20, <1>21, <1>22, <1>23, <1>24, <1>25, <1>26, <1>27, <1>28,
     <1>29, <1>30, <1>31, <1>32, <1>33, <1>34, <1>35, <1>36, <1>37
  DEF Next, work, submission, service

-----------------------------------------------------------------------------
(* Locks, sessions, files and the shutdown.                                *)

(* One worker at a time is inside, and it is the one that holds the UI.    *)
LEMMA ControlNext == UInv /\ Next => (\A v \in Workers : Control(v))'
<1> SUFFICES ASSUME UInv, Next PROVE (\A v \in Workers : Control(v))'
  OBVIOUS
<1> USE NobodyAssumption DEF UInv, Types, Flags, AuthorityTypes, ThreadTypes, Worker, Steps, Gone, NoSubmission, SessionTypes, Control, Inside, Deciding, Down, authority, tables, loop
<1>1. CASE session_expires
  BY <1>1 DEF session_expires, revoke
<1>2. ASSUME NEW r \in Requests, request_expires(r) PROVE (\A v \in Workers : Control(v))'
  BY <1>2 DEF request_expires
<1>3. CASE close_admission
  BY <1>3 DEF close_admission
<1>4. ASSUME NEW r \in Requests, submit(r) PROVE (\A v \in Workers : Control(v))'
  BY <1>4 DEF submit
<1>5. ASSUME NEW r \in Requests, submit_unlaunched(r) PROVE (\A v \in Workers : Control(v))'
  BY <1>5 DEF submit_unlaunched
<1>6. ASSUME NEW r \in Requests, submit_fails(r) PROVE (\A v \in Workers : Control(v))'
  BY <1>6 DEF submit_fails
<1>7. CASE launch_refused
  BY <1>7 DEF launch_refused, settle, without_launch
<1>8. CASE launch_begins
  BY <1>8 DEF launch_begins
<1>9. CASE launch_opened
  BY <1>9 DEF launch_opened, settle
<1>10. CASE launch_failed
  BY <1>10 DEF launch_failed, settle, without_launch
<1>11. ASSUME NEW w \in Workers, turn_away(w) PROVE (\A v \in Workers : Control(v))'
  BY <1>11 DEF turn_away, at, done
<1>12. ASSUME NEW w \in Workers, NEW r \in Requests \cup {NoRequest}, enter_launch(w, r) PROVE (\A v \in Workers : Control(v))'
  BY <1>12 DEF enter_launch, enter, at
<1>13. ASSUME NEW w \in Workers, NEW b \in 1..drawn, NEW path \in {"unlock", "lock"}, enter_provider(w, path, b) PROVE (\A v \in Workers : Control(v))'
  BY <1>13 DEF enter_provider, enter, at
<1>14. ASSUME NEW w \in Workers, NEW b \in 1..drawn, NEW path \in {"approve", "deny"}, NEW r \in Requests, enter_decision(w, path, b, r) PROVE (\A v \in Workers : Control(v))'
  BY <1>14 DEF enter_decision, enter, at
<1>15. ASSUME NEW w \in Workers, exchange_take(w) PROVE (\A v \in Workers : Control(v))'
  BY <1>15 DEF exchange_take, at, goto, leave, done
<1>16. ASSUME NEW w \in Workers, exchange_status(w) PROVE (\A v \in Workers : Control(v))'
  BY <1>16 DEF exchange_status, at, goto, leave, done
<1>17. ASSUME NEW w \in Workers, NEW b \in 0..drawn, exchange_grant(w, b) PROVE (\A v \in Workers : Control(v))'
  BY <1>17 DEF exchange_grant, at, leave, done
<1>18. ASSUME NEW w \in Workers, authenticate(w) PROVE (\A v \in Workers : Control(v))'
  BY <1>18 DEF authenticate, at, leave, done
<1>19. ASSUME NEW w \in Workers, lock(w) PROVE (\A v \in Workers : Control(v))'
  BY <1>19 DEF lock, at, leave, done, revoke
<1>20. ASSUME NEW w \in Workers, authorize(w) PROVE (\A v \in Workers : Control(v))'
  BY <1>20 DEF authorize, at, goto, leave, done
<1>21. ASSUME NEW w \in Workers, prepare(w) PROVE (\A v \in Workers : Control(v))'
  BY <1>21 DEF prepare, at, goto, leave, done
<1>22. ASSUME NEW w \in Workers, password(w) PROVE (\A v \in Workers : Control(v))'
  BY <1>22 DEF password, at, goto
<1>23. ASSUME NEW w \in Workers, reauthorize(w) PROVE (\A v \in Workers : Control(v))'
  BY <1>23 DEF reauthorize, at, goto, leave, done
<1>24. ASSUME NEW w \in Workers, commit(w) PROVE (\A v \in Workers : Control(v))'
  BY <1>24 DEF commit, at, leave, done
<1>25. CASE prune_begins
  BY <1>25 DEF prune_begins, serving
<1>26. ASSUME NEW r \in pruning, prune(r) PROVE (\A v \in Workers : Control(v))'
  BY <1>26 DEF prune, serving
<1>27. CASE prune_ends
  BY <1>27 DEF prune_ends, serving
<1>28. ASSUME NEW w \in Workers, accept(w) PROVE (\A v \in Workers : Control(v))'
  BY <1>28 DEF accept, serving, goto
<1>29. CASE overload
  BY <1>29 DEF overload, serving
<1>30. CASE overload_lock
  BY <1>30 DEF overload_lock, serving, revoke
<1>31. CASE loop_ends
  BY <1>31 DEF loop_ends, serving
<1>32. CASE early_lock
  BY <1>32 DEF early_lock, serving, revoke
<1>33. CASE join
  BY <1>33 DEF join, serving
<1>34. CASE final_lock
  BY <1>34 DEF final_lock, serving, revoke
<1>35. CASE stop_requested
  BY <1>35 DEF stop_requested
<1>36. CASE crash
  BY <1>36 DEF crash
<1>37. CASE start
  BY <1>37 DEF start, bind
<1> QED
  BY <1>1, <1>2, <1>3, <1>4, <1>5, <1>6, <1>7, <1>8, <1>9, <1>10, <1>11, <1>12, <1>13, <1>14,
     <1>15, <1>16, <1>17, <1>18, <1>19, <1>20, <1>21, <1>22, <1>23, <1>24, <1>25, <1>26, <1>27, <1>28,
     <1>29, <1>30, <1>31, <1>32, <1>33, <1>34, <1>35, <1>36, <1>37
  DEF Next, work, submission, service

(* A process that is gone has left nothing in memory.                      *)
LEMMA DownNext == UInv /\ Next => Down'
<1> SUFFICES ASSUME UInv, Next PROVE Down'
  OBVIOUS
<1> USE DEF UInv, Types, Flags, AuthorityTypes, ThreadTypes, Worker, Steps, Gone, NoSubmission, Down, Files, Inside, authority, tables, disk, loop, revoke, revoke_from, ended, admit
<1>1. CASE session_expires
  BY <1>1 DEF session_expires, revoke
<1>2. ASSUME NEW r \in Requests, request_expires(r) PROVE Down'
  BY <1>2 DEF request_expires
<1>3. CASE close_admission
  BY <1>3 DEF close_admission
<1>4. ASSUME NEW r \in Requests, submit(r) PROVE Down'
  BY <1>4 DEF submit
<1>5. ASSUME NEW r \in Requests, submit_unlaunched(r) PROVE Down'
  BY <1>5 DEF submit_unlaunched
<1>6. ASSUME NEW r \in Requests, submit_fails(r) PROVE Down'
  BY <1>6 DEF submit_fails
<1>7. CASE launch_refused
  BY <1>7 DEF launch_refused, settle, without_launch
<1>8. CASE launch_begins
  BY <1>8 DEF launch_begins
<1>9. CASE launch_opened
  BY <1>9 DEF launch_opened, settle
<1>10. CASE launch_failed
  BY <1>10 DEF launch_failed, settle, without_launch
<1>11. ASSUME NEW w \in Workers, turn_away(w) PROVE Down'
  BY <1>11 DEF turn_away, at, done
<1>12. ASSUME NEW w \in Workers, NEW r \in Requests \cup {NoRequest}, enter_launch(w, r) PROVE Down'
  BY <1>12 DEF enter_launch, enter, at
<1>13. ASSUME NEW w \in Workers, NEW b \in 1..drawn, NEW path \in {"unlock", "lock"}, enter_provider(w, path, b) PROVE Down'
  BY <1>13 DEF enter_provider, enter, at
<1>14. ASSUME NEW w \in Workers, NEW b \in 1..drawn, NEW path \in {"approve", "deny"}, NEW r \in Requests, enter_decision(w, path, b, r) PROVE Down'
  BY <1>14 DEF enter_decision, enter, at
<1>15. ASSUME NEW w \in Workers, exchange_take(w) PROVE Down'
  BY <1>15 DEF exchange_take, at, goto, leave, done
<1>16. ASSUME NEW w \in Workers, exchange_status(w) PROVE Down'
  BY <1>16 DEF exchange_status, at, goto, leave, done
<1>17. ASSUME NEW w \in Workers, NEW b \in 0..drawn, exchange_grant(w, b) PROVE Down'
  BY <1>17 DEF exchange_grant, at, leave, done
<1>18. ASSUME NEW w \in Workers, authenticate(w) PROVE Down'
  BY <1>18 DEF authenticate, at, leave, done
<1>19. ASSUME NEW w \in Workers, lock(w) PROVE Down'
  BY <1>19 DEF lock, at, leave, done, revoke
<1>20. ASSUME NEW w \in Workers, authorize(w) PROVE Down'
  BY <1>20 DEF authorize, at, goto, leave, done
<1>21. ASSUME NEW w \in Workers, prepare(w) PROVE Down'
  BY <1>21 DEF prepare, at, goto, leave, done
<1>22. ASSUME NEW w \in Workers, password(w) PROVE Down'
  BY <1>22 DEF password, at, goto
<1>23. ASSUME NEW w \in Workers, reauthorize(w) PROVE Down'
  BY <1>23 DEF reauthorize, at, goto, leave, done
<1>24. ASSUME NEW w \in Workers, commit(w) PROVE Down'
  BY <1>24 DEF commit, at, leave, done
<1>25. CASE prune_begins
  BY <1>25 DEF prune_begins, serving
<1>26. ASSUME NEW r \in pruning, prune(r) PROVE Down'
  BY <1>26 DEF prune, serving
<1>27. CASE prune_ends
  BY <1>27 DEF prune_ends, serving
<1>28. ASSUME NEW w \in Workers, accept(w) PROVE Down'
  BY <1>28 DEF accept, serving, goto
<1>29. CASE overload
  BY <1>29 DEF overload, serving
<1>30. CASE overload_lock
  BY <1>30 DEF overload_lock, serving, revoke
<1>31. CASE loop_ends
  BY <1>31 DEF loop_ends, serving
<1>32. CASE early_lock
  BY <1>32 DEF early_lock, serving, revoke
<1>33. CASE join
  BY <1>33 DEF join, serving
<1>34. CASE final_lock
  BY <1>34 DEF final_lock, serving, revoke
<1>35. CASE stop_requested
  BY <1>35 DEF stop_requested
<1>36. CASE crash
  BY <1>36 DEF crash
<1>37. CASE start
  BY <1>37 DEF start, bind
<1> QED
  BY <1>1, <1>2, <1>3, <1>4, <1>5, <1>6, <1>7, <1>8, <1>9, <1>10, <1>11, <1>12, <1>13, <1>14,
     <1>15, <1>16, <1>17, <1>18, <1>19, <1>20, <1>21, <1>22, <1>23, <1>24, <1>25, <1>26, <1>27, <1>28,
     <1>29, <1>30, <1>31, <1>32, <1>33, <1>34, <1>35, <1>36, <1>37
  DEF Next, work, submission, service

(* The stages of the shutdown.                                             *)
LEMMA ShutNext == UInv /\ Next => Shut'
<1> SUFFICES ASSUME UInv, Next PROVE Shut'
  OBVIOUS
<1>0. /\ launch_refused \/ launch_opened \/ launch_failed => Moves /\ sub' = NoSubmission
      /\ \A w \in Workers : commit(w) => Moves
  BY LaunchSettles, CommitMoves DEF UInv
<1> USE DEF UInv, Types, Flags, AuthorityTypes, ThreadTypes, Worker, Steps, Gone, NoSubmission, Shut, Down, Files, Control, gate_free, admitted, authority, tables, loop, revoke, revoke_from, ended, admit
<1>1. CASE session_expires
  BY <1>1 DEF session_expires, revoke
<1>2. ASSUME NEW r \in Requests, request_expires(r) PROVE Shut'
  BY <1>2 DEF request_expires
<1>3. CASE close_admission
  BY <1>3 DEF close_admission
<1>4. ASSUME NEW r \in Requests, submit(r) PROVE Shut'
  BY <1>4 DEF submit
<1>5. ASSUME NEW r \in Requests, submit_unlaunched(r) PROVE Shut'
  BY <1>5 DEF submit_unlaunched
<1>6. ASSUME NEW r \in Requests, submit_fails(r) PROVE Shut'
  BY <1>6 DEF submit_fails
<1>7. CASE launch_refused
  BY <1>7 DEF launch_refused, settle, without_launch
<1>8. CASE launch_begins
  BY <1>8 DEF launch_begins
<1>9. CASE launch_opened
  BY <1>9 DEF launch_opened, settle
<1>10. CASE launch_failed
  BY <1>10 DEF launch_failed, settle, without_launch
<1>11. ASSUME NEW w \in Workers, turn_away(w) PROVE Shut'
  BY <1>11 DEF turn_away, at, done
<1>12. ASSUME NEW w \in Workers, NEW r \in Requests \cup {NoRequest}, enter_launch(w, r) PROVE Shut'
  BY <1>12 DEF enter_launch, enter, at
<1>13. ASSUME NEW w \in Workers, NEW b \in 1..drawn, NEW path \in {"unlock", "lock"}, enter_provider(w, path, b) PROVE Shut'
  BY <1>13 DEF enter_provider, enter, at
<1>14. ASSUME NEW w \in Workers, NEW b \in 1..drawn, NEW path \in {"approve", "deny"}, NEW r \in Requests, enter_decision(w, path, b, r) PROVE Shut'
  BY <1>14 DEF enter_decision, enter, at
<1>15. ASSUME NEW w \in Workers, exchange_take(w) PROVE Shut'
  BY <1>15 DEF exchange_take, at, goto, leave, done
<1>16. ASSUME NEW w \in Workers, exchange_status(w) PROVE Shut'
  BY <1>16 DEF exchange_status, at, goto, leave, done
<1>17. ASSUME NEW w \in Workers, NEW b \in 0..drawn, exchange_grant(w, b) PROVE Shut'
  BY <1>17 DEF exchange_grant, at, leave, done
<1>18. ASSUME NEW w \in Workers, authenticate(w) PROVE Shut'
  BY <1>18 DEF authenticate, at, leave, done
<1>19. ASSUME NEW w \in Workers, lock(w) PROVE Shut'
  BY <1>19 DEF lock, at, leave, done, revoke
<1>20. ASSUME NEW w \in Workers, authorize(w) PROVE Shut'
  BY <1>20 DEF authorize, at, goto, leave, done
<1>21. ASSUME NEW w \in Workers, prepare(w) PROVE Shut'
  BY <1>21 DEF prepare, at, goto, leave, done
<1>22. ASSUME NEW w \in Workers, password(w) PROVE Shut'
  BY <1>22 DEF password, at, goto
<1>23. ASSUME NEW w \in Workers, reauthorize(w) PROVE Shut'
  BY <1>23 DEF reauthorize, at, goto, leave, done
<1>24. ASSUME NEW w \in Workers, commit(w) PROVE Shut'
  <2>1. Moves
    BY <1>24, <1>0
  <2>2. /\ th' = [th EXCEPT ![w] = Gone] /\ ui' = Nobody /\ th[w].pc = "commit" /\ up /\ sub.pc = "none"
        /\ closing => closing'
        /\ UNCHANGED <<tables, pending, disk, sub, loop, up>>
    BY <1>24 DEF commit, at, leave, done, gate_free, reviewable, admitted
  <2> QED
    BY <2>1, <2>2 DEF Moves
<1>25. CASE prune_begins
  BY <1>25 DEF prune_begins, serving
<1>26. ASSUME NEW r \in pruning, prune(r) PROVE Shut'
  BY <1>26 DEF prune, serving
<1>27. CASE prune_ends
  BY <1>27 DEF prune_ends, serving
<1>28. ASSUME NEW w \in Workers, accept(w) PROVE Shut'
  BY <1>28 DEF accept, serving, goto
<1>29. CASE overload
  BY <1>29 DEF overload, serving
<1>30. CASE overload_lock
  BY <1>30 DEF overload_lock, serving, revoke
<1>31. CASE loop_ends
  BY <1>31 DEF loop_ends, serving
<1>32. CASE early_lock
  BY <1>32 DEF early_lock, serving, revoke
<1>33. CASE join
  BY <1>33 DEF join, serving
<1>34. CASE final_lock
  BY <1>34 DEF final_lock, serving, revoke
<1>35. CASE stop_requested
  BY <1>35 DEF stop_requested
<1>36. CASE crash
  BY <1>36 DEF crash
<1>37. CASE start
  BY <1>37 DEF start, bind
<1> QED
  BY <1>1, <1>2, <1>3, <1>4, <1>5, <1>6, <1>7, <1>8, <1>9, <1>10, <1>11, <1>12, <1>13, <1>14,
     <1>15, <1>16, <1>17, <1>18, <1>19, <1>20, <1>21, <1>22, <1>23, <1>24, <1>25, <1>26, <1>27, <1>28,
     <1>29, <1>30, <1>31, <1>32, <1>33, <1>34, <1>35, <1>36, <1>37
  DEF Next, work, submission, service

(* Whoever may decide was let in under the present generation.             *)
LEMMA CurrentNext == UInv /\ Next => Current'
<1> SUFFICES ASSUME UInv, Next PROVE Current'
  OBVIOUS
<1>0. /\ launch_refused \/ launch_opened \/ launch_failed => Moves /\ sub' = NoSubmission
      /\ \A w \in Workers : commit(w) => Moves
  BY LaunchSettles, CommitMoves DEF UInv
<1> USE NobodyAssumption DEF UInv, Types, Flags, AuthorityTypes, ThreadTypes, Worker, Steps, Gone, NoSubmission, SessionTypes, Session, Control, Inside, Current, Down, Files, gate_free, authority, tables, loop, revoke, revoke_from, ended, admit
<1>1. CASE session_expires
  BY <1>1 DEF session_expires, revoke
<1>2. ASSUME NEW r \in Requests, request_expires(r) PROVE Current'
  BY <1>2 DEF request_expires
<1>3. CASE close_admission
  BY <1>3 DEF close_admission
<1>4. ASSUME NEW r \in Requests, submit(r) PROVE Current'
  BY <1>4 DEF submit, admitted
<1>5. ASSUME NEW r \in Requests, submit_unlaunched(r) PROVE Current'
  BY <1>5, Unlaunched DEF submit_unlaunched, Moves
<1>6. ASSUME NEW r \in Requests, submit_fails(r) PROVE Current'
  BY <1>6 DEF submit_fails, admitted
<1>7. CASE launch_refused
  BY <1>7, <1>0, CurrentMoves DEF launch_refused
<1>8. CASE launch_begins
  BY <1>8 DEF launch_begins
<1>9. CASE launch_opened
  BY <1>9, <1>0, CurrentMoves DEF launch_opened
<1>10. CASE launch_failed
  BY <1>10, <1>0, CurrentMoves DEF launch_failed
<1>11. ASSUME NEW w \in Workers, turn_away(w) PROVE Current'
  BY <1>11 DEF turn_away, at, done
<1>12. ASSUME NEW w \in Workers, NEW r \in Requests \cup {NoRequest}, enter_launch(w, r) PROVE Current'
  BY <1>12 DEF enter_launch, enter, at
<1>13. ASSUME NEW w \in Workers, NEW b \in 1..drawn, NEW path \in {"unlock", "lock"}, enter_provider(w, path, b) PROVE Current'
  BY <1>13 DEF enter_provider, enter, at
<1>14. ASSUME NEW w \in Workers, NEW b \in 1..drawn, NEW path \in {"approve", "deny"}, NEW r \in Requests, enter_decision(w, path, b, r) PROVE Current'
  BY <1>14 DEF enter_decision, enter, at
<1>15. ASSUME NEW w \in Workers, exchange_take(w) PROVE Current'
  BY <1>15 DEF exchange_take, at, goto, leave, done
<1>16. ASSUME NEW w \in Workers, exchange_status(w) PROVE Current'
  BY <1>16 DEF exchange_status, at, goto, leave, done, reviewable, admitted
<1>17. ASSUME NEW w \in Workers, NEW b \in 0..drawn, exchange_grant(w, b) PROVE Current'
  BY <1>17 DEF exchange_grant, at, leave, done, session
<1>18. ASSUME NEW w \in Workers, authenticate(w) PROVE Current'
  BY <1>18 DEF authenticate, at, leave, done
<1>19. ASSUME NEW w \in Workers, lock(w) PROVE Current'
  BY <1>19 DEF lock, at, leave, done, revoke
<1>20. ASSUME NEW w \in Workers, authorize(w) PROVE Current'
  BY <1>20 DEF authorize, at, goto, leave, done, decision_authorized, session
<1>21. ASSUME NEW w \in Workers, prepare(w) PROVE Current'
  BY <1>21 DEF prepare, at, goto, leave, done, reviewable, admitted
<1>22. ASSUME NEW w \in Workers, password(w) PROVE Current'
  BY <1>22 DEF password, at, goto
<1>23. ASSUME NEW w \in Workers, reauthorize(w) PROVE Current'
  BY <1>23 DEF reauthorize, at, goto, leave, done, decision_authorized, session
<1>24. ASSUME NEW w \in Workers, commit(w) PROVE Current'
  <2>1. Moves
    BY <1>24, <1>0
  <2>2. /\ th' = [th EXCEPT ![w] = Gone] /\ ui' = Nobody /\ th[w].pc = "commit" /\ up /\ sub.pc = "none"
        /\ closing => closing'
        /\ UNCHANGED <<tables, pending, disk, sub, loop, up>>
    BY <1>24 DEF commit, at, leave, done, gate_free, reviewable, admitted
  <2> QED
    BY <2>1, <2>2 DEF Moves
<1>25. CASE prune_begins
  BY <1>25 DEF prune_begins, serving
<1>26. ASSUME NEW r \in pruning, prune(r) PROVE Current'
  BY <1>26 DEF prune, serving, reviewable, admitted
<1>27. CASE prune_ends
  BY <1>27 DEF prune_ends, serving
<1>28. ASSUME NEW w \in Workers, accept(w) PROVE Current'
  BY <1>28 DEF accept, serving, goto
<1>29. CASE overload
  BY <1>29 DEF overload, serving
<1>30. CASE overload_lock
  BY <1>30 DEF overload_lock, serving, revoke
<1>31. CASE loop_ends
  BY <1>31 DEF loop_ends, serving
<1>32. CASE early_lock
  BY <1>32 DEF early_lock, serving, revoke
<1>33. CASE join
  BY <1>33 DEF join, serving
<1>34. CASE final_lock
  BY <1>34 DEF final_lock, serving, revoke
<1>35. CASE stop_requested
  BY <1>35 DEF stop_requested
<1>36. CASE crash
  BY <1>36 DEF crash
<1>37. CASE start
  BY <1>37 DEF start, bind
<1> QED
  BY <1>1, <1>2, <1>3, <1>4, <1>5, <1>6, <1>7, <1>8, <1>9, <1>10, <1>11, <1>12, <1>13, <1>14,
     <1>15, <1>16, <1>17, <1>18, <1>19, <1>20, <1>21, <1>22, <1>23, <1>24, <1>25, <1>26, <1>27, <1>28,
     <1>29, <1>30, <1>31, <1>32, <1>33, <1>34, <1>35, <1>36, <1>37
  DEF Next, work, submission, service

(* The files on disk and the launches.                                     *)
LEMMA FilesNext == UInv /\ Next => Files'
<1> SUFFICES ASSUME UInv, Next PROVE Files'
  OBVIOUS
<1>0. /\ launch_refused \/ launch_opened \/ launch_failed => Moves /\ sub' = NoSubmission
      /\ \A w \in Workers : commit(w) => Moves
  BY LaunchSettles, CommitMoves DEF UInv
<1> USE NobodyAssumption DEF UInv, Types, Flags, AuthorityTypes, ThreadTypes, Worker, Steps, Gone, NoSubmission, Control, Inside, LaunchTypes, Files, Down, Shut, NoStrayCapability, InHand, gate_free, broker_free, authority, tables, disk, loop, revoke, revoke_from, ended, admit
<1>1. CASE session_expires
  BY <1>1 DEF session_expires, revoke
<1>2. ASSUME NEW r \in Requests, request_expires(r) PROVE Files'
  BY <1>2 DEF request_expires
<1>3. CASE close_admission
  BY <1>3 DEF close_admission
<1>4. ASSUME NEW r \in Requests, submit(r) PROVE Files'
  BY <1>4 DEF submit, admitted
<1>5. ASSUME NEW r \in Requests, submit_unlaunched(r) PROVE Files'
  BY <1>5, Unlaunched DEF submit_unlaunched, Moves
<1>6. ASSUME NEW r \in Requests, submit_fails(r) PROVE Files'
  BY <1>6 DEF submit_fails, admitted
<1>7. CASE launch_refused
  <2>1. Moves /\ sub' = NoSubmission
    BY <1>7, <1>0
  <2>2. sub.pc = "launching" /\ UNCHANGED <<closing, tables, pending, disk, ui, th, loop, up>>
    BY <1>7 DEF launch_refused
  <2> QED
    BY <2>1, <2>2 DEF Moves
<1>8. CASE launch_begins
  BY <1>8 DEF launch_begins
<1>9. CASE launch_opened
  <2>1. Moves /\ sub' = NoSubmission
    BY <1>9, <1>0
  <2>2. sub.pc = "opening" /\ pending' = pending \cup {sub.r} /\ UNCHANGED <<closing, tables, disk, ui, th, loop, up>>
    BY <1>9 DEF launch_opened
  <2> QED
    BY <2>1, <2>2 DEF Moves
<1>10. CASE launch_failed
  <2>1. Moves /\ sub' = NoSubmission
    BY <1>10, <1>0
  <2>2. sub.pc = "opening" /\ UNCHANGED <<closing, tables, pending, ui, th, loop, up>>
    BY <1>10 DEF launch_failed
  <2>3. PICK kept \in SUBSET {sub.r} : artifacts' = artifacts \ ({sub.r} \ kept) /\ left' = left \cup kept
    BY <1>10 DEF launch_failed, drop
  <2> QED
    BY <2>1, <2>2, <2>3 DEF Moves
<1>11. ASSUME NEW w \in Workers, turn_away(w) PROVE Files'
  BY <1>11 DEF turn_away, at, done
<1>12. ASSUME NEW w \in Workers, NEW r \in Requests \cup {NoRequest}, enter_launch(w, r) PROVE Files'
  BY <1>12 DEF enter_launch, enter, at
<1>13. ASSUME NEW w \in Workers, NEW b \in 1..drawn, NEW path \in {"unlock", "lock"}, enter_provider(w, path, b) PROVE Files'
  BY <1>13 DEF enter_provider, enter, at
<1>14. ASSUME NEW w \in Workers, NEW b \in 1..drawn, NEW path \in {"approve", "deny"}, NEW r \in Requests, enter_decision(w, path, b, r) PROVE Files'
  BY <1>14 DEF enter_decision, enter, at
<1>15. ASSUME NEW w \in Workers, exchange_take(w) PROVE Files'
  BY <1>15 DEF exchange_take, at, goto, leave, done
<1>16. ASSUME NEW w \in Workers, exchange_status(w) PROVE Files'
  <2>1. PICK kept \in SUBSET {th[w].arg} : artifacts' = artifacts \ ({th[w].arg} \ kept) /\ left' = left \cup kept
    BY <1>16 DEF exchange_status, drop
  <2> QED
    BY <1>16, <2>1 DEF exchange_status, at, goto, leave, done, reviewable, admitted
<1>17. ASSUME NEW w \in Workers, NEW b \in 0..drawn, exchange_grant(w, b) PROVE Files'
  BY <1>17 DEF exchange_grant, at, leave, done, session
<1>18. ASSUME NEW w \in Workers, authenticate(w) PROVE Files'
  BY <1>18 DEF authenticate, at, leave, done
<1>19. ASSUME NEW w \in Workers, lock(w) PROVE Files'
  BY <1>19 DEF lock, at, leave, done, revoke
<1>20. ASSUME NEW w \in Workers, authorize(w) PROVE Files'
  BY <1>20 DEF authorize, at, goto, leave, done, decision_authorized, session
<1>21. ASSUME NEW w \in Workers, prepare(w) PROVE Files'
  BY <1>21 DEF prepare, at, goto, leave, done, reviewable, admitted
<1>22. ASSUME NEW w \in Workers, password(w) PROVE Files'
  BY <1>22 DEF password, at, goto
<1>23. ASSUME NEW w \in Workers, reauthorize(w) PROVE Files'
  BY <1>23 DEF reauthorize, at, goto, leave, done, decision_authorized, session
<1>24. ASSUME NEW w \in Workers, commit(w) PROVE Files'
  <2>1. Moves
    BY <1>24, <1>0
  <2>2. /\ th' = [th EXCEPT ![w] = Gone] /\ ui' = Nobody /\ th[w].pc = "commit" /\ up /\ sub.pc = "none"
        /\ closing => closing'
        /\ UNCHANGED <<tables, pending, disk, sub, loop, up>>
    BY <1>24 DEF commit, at, leave, done, gate_free, reviewable, admitted
  <2> QED
    BY <2>1, <2>2 DEF Moves
<1>25. CASE prune_begins
  BY <1>25 DEF prune_begins, serving
<1>26. ASSUME NEW r \in pruning, prune(r) PROVE Files'
  <2>1. CASE reviewable(r)
    BY <1>26, <2>1 DEF prune, serving, reviewable, admitted
  <2>2. CASE ~reviewable(r)
    <3>1. PICK kept \in SUBSET (pending \cap {r}) : artifacts' = artifacts \ ((pending \cap {r}) \ kept) /\ left' = left \cup kept
      BY <1>26, <2>2 DEF prune, drop
    <3>2. pending' = pending \ {r} /\ UNCHANGED <<th, sub, up>> /\ up /\ sub.pc = "none"
      BY <1>26, <2>2 DEF prune, serving
    <3>3. \A x \in Requests : status[x] # "None" => status'[x] # "None"
      BY <1>26 DEF prune, Status
    <3>4. InHand' = InHand
      BY <3>2
    <3>5. NoStrayCapability'
      <4> HIDE DEF InHand
      <4> QED
        BY <3>1, <3>2, <3>4
    <3> HIDE DEF NoStrayCapability, InHand
    <3> QED
      BY <3>1, <3>2, <3>3, <3>5
  <2> QED
    BY <2>1, <2>2
<1>27. CASE prune_ends
  BY <1>27 DEF prune_ends, serving
<1>28. ASSUME NEW w \in Workers, accept(w) PROVE Files'
  BY <1>28 DEF accept, serving, goto
<1>29. CASE overload
  BY <1>29 DEF overload, serving
<1>30. CASE overload_lock
  BY <1>30 DEF overload_lock, serving, revoke
<1>31. CASE loop_ends
  BY <1>31 DEF loop_ends, serving
<1>32. CASE early_lock
  BY <1>32 DEF early_lock, serving, revoke
<1>33. CASE join
  BY <1>33 DEF join, serving
<1>34. CASE final_lock
  <2>1. PICK kept \in SUBSET pending : artifacts' = artifacts \ (pending \ kept) /\ left' = left \cup kept
    BY <1>34 DEF final_lock, drop
  <2> QED
    BY <1>34, <2>1 DEF final_lock, serving, revoke
<1>35. CASE stop_requested
  BY <1>35 DEF stop_requested
<1>36. CASE crash
  BY <1>36 DEF crash
<1>37. CASE start
  BY <1>37 DEF start, bind
<1> QED
  BY <1>1, <1>2, <1>3, <1>4, <1>5, <1>6, <1>7, <1>8, <1>9, <1>10, <1>11, <1>12, <1>13, <1>14,
     <1>15, <1>16, <1>17, <1>18, <1>19, <1>20, <1>21, <1>22, <1>23, <1>24, <1>25, <1>26, <1>27, <1>28,
     <1>29, <1>30, <1>31, <1>32, <1>33, <1>34, <1>35, <1>36, <1>37
  DEF Next, work, submission, service

-----------------------------------------------------------------------------
(* The invariant holds.                                                    *)

LEMMA UInit == Init => UInv
<1> SUFFICES ASSUME Init PROVE UInv
  OBVIOUS
<1>1. Types
  <2>1. Flags
    BY DEF Init, Flags
  <2>2. AuthorityTypes /\ SessionTypes /\ LaunchTypes
    BY DEF Init, AuthorityTypes, Status, SessionTypes, LaunchTypes
  <2>3. ThreadTypes
    BY DEF Init, ThreadTypes, Worker, Steps, Gone, NoSubmission
  <2> QED
    BY <2>1, <2>2, <2>3 DEF Types
<1>2. ASSUME NEW w \in Workers PROVE Control(w)
  BY <1>2, NobodyAssumption DEF Init, Control, Inside, Deciding, Gone
<1>3. Down /\ Current /\ Files /\ Shut
  BY DEF Init, Down, Current, Files, NoStrayCapability, Shut, Gone, NoSubmission
<1> QED
  BY <1>1, <1>2, <1>3 DEF UInv

LEMMA UNext == UInv /\ [Next]_vars => UInv'
<1> SUFFICES ASSUME UInv, [Next]_vars PROVE UInv'
  OBVIOUS
<1>1. CASE Next
  <2>1. Types'
    BY <1>1, FlagsNext, AuthorityNext, SessionNext, LaunchNext, ThreadNext DEF UInv, Types
  <2> QED
    BY <1>1, <2>1, ControlNext, DownNext, CurrentNext, FilesNext, ShutNext DEF UInv
<1>2. CASE UNCHANGED vars
  <2>0. /\ UNCHANGED <<gen, open, failed, closing, status, deadlines, launch, sessions, drawn, pending>>
        /\ UNCHANGED <<artifacts, left, ui, th, sub, serve, pruning, stop, up>>
    BY <1>2 DEF vars, authority, tables, disk, loop
  <2>1. Types'
    BY <2>0 DEF UInv, Types, Flags, AuthorityTypes, SessionTypes, LaunchTypes, ThreadTypes
  <2>2. ASSUME NEW w \in Workers PROVE Control(w)'
    BY <2>0 DEF UInv, Control
  <2>3. Down' /\ Current' /\ Shut'
    BY <2>0 DEF UInv, Down, Current, Shut
  <2>4. Files'
    BY <2>0 DEF UInv, Files, NoStrayCapability, InHand
  <2> QED
    BY <2>1, <2>2, <2>3, <2>4 DEF UInv
<1> QED
  BY <1>1, <1>2

(* The whole state keeps its types.                                        *)
THEOREM TypeCorrect == Spec => []TypeOK
<1>1. UInv => TypeOK
  <2> SUFFICES ASSUME UInv PROVE TypeOK
    OBVIOUS
  <2>1. open \in BOOLEAN /\ failed \in BOOLEAN /\ closing \in BOOLEAN /\ launch \in BOOLEAN /\ stop \in BOOLEAN /\ up \in BOOLEAN
    BY Zenon DEF UInv, Types, Flags
  <2>2. sessions \subseteq [id : 1..drawn, role : {"provider", "request"}, gen : Nat, born : Nat]
    BY DEF UInv, Types, SessionTypes, Session
  <2>3. /\ gen \in Nat /\ status \in [Requests -> Status] /\ deadlines \subseteq Requests /\ drawn \in Nat
        /\ pending \subseteq Requests /\ artifacts \subseteq Requests /\ left \subseteq Requests /\ pruning \subseteq Requests
    BY DEF UInv, Types, AuthorityTypes, SessionTypes, LaunchTypes
  <2>4. ThreadTypes
    BY DEF UInv, Types
  <2> QED
    BY <2>1, <2>2, <2>3, <2>4 DEF TypeOK, Status, ThreadTypes, Worker
<1> QED
  BY <1>1, UInit, UNext, PTL DEF Spec

(* Launches that fail, are used, pruned, or lost in a crash leave no file  *)
(* with a capability behind.                                               *)
THEOREM NoStray == Spec => []NoStrayCapability
<1>1. UInv => NoStrayCapability
  BY DEF UInv, Files
<1> QED
  BY <1>1, UInit, UNext, PTL DEF Spec

(* serve returns with the provider locked for good, and with nobody and    *)
(* nothing left.                                                           *)
THEOREM ReturnsLocked == Spec => []ReturnedMeansLocked
<1>1. UInv => ReturnedMeansLocked
  <2> SUFFICES ASSUME UInv, up, serve = "returned"
               PROVE /\ ~open /\ closing /\ sub = NoSubmission
                     /\ \A w \in Workers : th[w] = Gone
                     /\ ui = Nobody /\ pending = {} /\ artifacts = left
    BY DEF ReturnedMeansLocked
  <2>1. /\ ~open /\ closing /\ sub = NoSubmission /\ pending = {}
        /\ \A w \in Workers : th[w] = Gone
    BY DEF UInv, Shut
  <2>2. ui = Nobody
    BY <2>1 DEF UInv, Types, ThreadTypes, Control, Inside, Gone
  <2>3. InHand = {}
    BY <2>1 DEF InHand, Gone, NoSubmission
  <2> QED
    BY <2>1, <2>2, <2>3 DEF UInv, Files, NoStrayCapability
<1> QED
  BY <1>1, UInit, UNext, PTL DEF Spec

(* Only a commit decides, and it has its session.                          *)
LEMMA LaunchStepNext == UInv /\ Next => LaunchStep
<1> SUFFICES ASSUME UInv, Next PROVE LaunchStep
  OBVIOUS
<1> USE DEF LaunchStep, UInv, Types, AuthorityTypes, ThreadTypes, Worker, Status, authority, tables, loop, revoke, revoke_from, ended, admit
<1>1. CASE session_expires
  BY <1>1 DEF session_expires, revoke
<1>2. ASSUME NEW r \in Requests, request_expires(r) PROVE LaunchStep
  BY <1>2 DEF request_expires
<1>3. CASE close_admission
  BY <1>3 DEF close_admission
<1>4. ASSUME NEW r \in Requests, submit(r) PROVE LaunchStep
  BY <1>4 DEF submit
<1>5. ASSUME NEW r \in Requests, submit_unlaunched(r) PROVE LaunchStep
  BY <1>5 DEF submit_unlaunched
<1>6. ASSUME NEW r \in Requests, submit_fails(r) PROVE LaunchStep
  BY <1>6 DEF submit_fails
<1>7. CASE launch_refused
  BY <1>7 DEF launch_refused, settle, without_launch
<1>8. CASE launch_begins
  BY <1>8 DEF launch_begins
<1>9. CASE launch_opened
  BY <1>9 DEF launch_opened, settle
<1>10. CASE launch_failed
  BY <1>10 DEF launch_failed, settle, without_launch
<1>11. ASSUME NEW w \in Workers, turn_away(w) PROVE LaunchStep
  BY <1>11 DEF turn_away, at, done
<1>12. ASSUME NEW w \in Workers, NEW r \in Requests \cup {NoRequest}, enter_launch(w, r) PROVE LaunchStep
  BY <1>12 DEF enter_launch, enter, at
<1>13. ASSUME NEW w \in Workers, NEW b \in 1..drawn, NEW path \in {"unlock", "lock"}, enter_provider(w, path, b) PROVE LaunchStep
  BY <1>13 DEF enter_provider, enter, at
<1>14. ASSUME NEW w \in Workers, NEW b \in 1..drawn, NEW path \in {"approve", "deny"}, NEW r \in Requests, enter_decision(w, path, b, r) PROVE LaunchStep
  BY <1>14 DEF enter_decision, enter, at
<1>15. ASSUME NEW w \in Workers, exchange_take(w) PROVE LaunchStep
  BY <1>15 DEF exchange_take, at, goto, leave, done
<1>16. ASSUME NEW w \in Workers, exchange_status(w) PROVE LaunchStep
  BY <1>16 DEF exchange_status, at, goto, leave, done
<1>17. ASSUME NEW w \in Workers, NEW b \in 0..drawn, exchange_grant(w, b) PROVE LaunchStep
  BY <1>17 DEF exchange_grant, at, leave, done
<1>18. ASSUME NEW w \in Workers, authenticate(w) PROVE LaunchStep
  BY <1>18 DEF authenticate, at, leave, done
<1>19. ASSUME NEW w \in Workers, lock(w) PROVE LaunchStep
  BY <1>19 DEF lock, at, leave, done, revoke
<1>20. ASSUME NEW w \in Workers, authorize(w) PROVE LaunchStep
  BY <1>20 DEF authorize, at, goto, leave, done
<1>21. ASSUME NEW w \in Workers, prepare(w) PROVE LaunchStep
  BY <1>21 DEF prepare, at, goto, leave, done
<1>22. ASSUME NEW w \in Workers, password(w) PROVE LaunchStep
  BY <1>22 DEF password, at, goto
<1>23. ASSUME NEW w \in Workers, reauthorize(w) PROVE LaunchStep
  BY <1>23 DEF reauthorize, at, goto, leave, done
<1>24. ASSUME NEW w \in Workers, commit(w) PROVE LaunchStep
  <2> SUFFICES ASSUME NEW r \in Requests, status'[r] # status[r], status'[r] \in {"Approved", "Denied"}
               PROVE  /\ reviewable(r)
                      /\ \E v \in Workers, s \in sessions :
                            /\ th[v].pc = "commit" /\ th'[v] = Gone /\ th[v].arg = r
                            /\ s.role = "request" /\ s.id = th[v].browser
                            /\ s.gen = gen /\ s.born = gen
    OBVIOUS
  <2> DEFINE decided == [status EXCEPT ![th[w].arg] = IF th[w].path = "deny" THEN "Denied" ELSE "Approved"]
  <2>1. th[w].arg \in Requests
    BY <1>24 DEF commit, at, Control, Deciding
  <2>2. /\ decided \in [Requests -> Status]
        /\ \A x \in Requests : x # th[w].arg => decided[x] = status[x]
    BY <2>1
  <2>3. reviewable(th[w].arg)
    BY <1>24 DEF commit
  <2>4. PICK q \in {status, decided} : status' \in {q, ended(q)}
    BY <1>24, <2>3 DEF commit
  <2>5. status'[r] \in {q[r], "Ended"}
    BY <2>4
  <2>6. reviewable(th[w].arg) /\ th[w].arg = r
    BY <2>2, <2>3, <2>4, <2>5
  <2>7. th[w].pc = "commit" /\ th'[w] = Gone
    BY <1>24 DEF commit, at, leave, done
  <2>8. PICK s \in sessions : s.role = "request" /\ s.id = th[w].browser /\ s.gen = gen
    BY <2>6, <2>7 DEF Current, reviewable, admitted
  <2>9. s.born = gen
    BY <2>6, <2>8 DEF Current, reviewable, admitted
  <2> QED
    BY <2>6, <2>7, <2>8, <2>9
<1>25. CASE prune_begins
  BY <1>25 DEF prune_begins, serving
<1>26. ASSUME NEW r \in pruning, prune(r) PROVE LaunchStep
  BY <1>26 DEF prune, serving
<1>27. CASE prune_ends
  BY <1>27 DEF prune_ends, serving
<1>28. ASSUME NEW w \in Workers, accept(w) PROVE LaunchStep
  BY <1>28 DEF accept, serving, goto
<1>29. CASE overload
  BY <1>29 DEF overload, serving
<1>30. CASE overload_lock
  BY <1>30 DEF overload_lock, serving, revoke
<1>31. CASE loop_ends
  BY <1>31 DEF loop_ends, serving
<1>32. CASE early_lock
  BY <1>32 DEF early_lock, serving, revoke
<1>33. CASE join
  BY <1>33 DEF join, serving
<1>34. CASE final_lock
  BY <1>34 DEF final_lock, serving, revoke
<1>35. CASE stop_requested
  BY <1>35 DEF stop_requested
<1>36. CASE crash
  BY <1>36 DEF crash
<1>37. CASE start
  BY <1>37 DEF start, bind
<1> QED
  BY <1>1, <1>2, <1>3, <1>4, <1>5, <1>6, <1>7, <1>8, <1>9, <1>10, <1>11, <1>12, <1>13, <1>14,
     <1>15, <1>16, <1>17, <1>18, <1>19, <1>20, <1>21, <1>22, <1>23, <1>24, <1>25, <1>26, <1>27, <1>28,
     <1>29, <1>30, <1>31, <1>32, <1>33, <1>34, <1>35, <1>36, <1>37
  DEF Next, work, submission, service

(* A browser decides only in the provider session that let it in.          *)
THEOREM DecisionsFromLaunch == Spec => DecisionIsFromItsLaunch
<1>1. UInv /\ [Next]_vars => [LaunchStep]_vars
  BY LaunchStepNext
<1> QED
  BY <1>1, UInit, UNext, PTL DEF Spec, DecisionIsFromItsLaunch
=============================================================================
