-------------------------- MODULE CliSessionProofs --------------------------
(***************************************************************************)
(* Theorems about CliSession, for every set of processes and accounts,     *)
(* whether or not the insecure key file is allowed, and for every number   *)
(* of tokens, commands and keyring outages.                                *)
(***************************************************************************)
EXTENDS CliSession, TLAPS

-----------------------------------------------------------------------------
(* The inductive invariant of the control state.                           *)

Config == [client : Clients \cup {NoClient}, tok : Token \cup {NoToken},
           keys : Clients \cup {NoClient}]
RingEntry == [keys : BOOLEAN, tok : Token \cup {NoToken}, secret : BOOLEAN]
Saving == {"open_config", "write_config", "save_tokens", "write_tokens"}

(* The type of every variable, without the claim about the file lock.      *)
Types ==
    /\ conf \in Clients \cup {NoClient, Torn}
    /\ keysFile \in Clients \cup {Absent, Torn}
    /\ tokensFile \in Token \cup {Absent, Torn}
    /\ ring \in [Clients -> RingEntry]
    /\ ringUp \in BOOLEAN /\ steady \in BOOLEAN /\ flaps \in 0..MaxFlaps
    /\ refreshLock \in Procs \cup {Free}
    /\ pc \in [Procs -> Steps] /\ cmd \in [Procs -> Commands]
    /\ mem \in [Procs -> Config]
    /\ issued \in [Clients -> 0..MaxTokens] /\ expired \subseteq Token
    /\ redeemed \in [Token -> Nat] /\ lost \subseteq Token
    /\ redeeming \in [Procs -> Token \cup {NoToken}]
    /\ commands \in 0..MaxCommands
    /\ locked \subseteq Clients /\ loggedOut \subseteq Clients /\ disturbed \subseteq Procs
    /\ leaving \in [Procs -> Clients \cup {NoClient}]

(* The lock belongs to whoever reloads, refreshes or saves a refresh.      *)
HoldsLock(p) ==
    \/ pc[p] \in {"reload", "refresh"}
    \/ cmd[p] \in {"unlock", "use"} /\ pc[p] \in Saving

(* Which command a step belongs to.                                        *)
StepOfCommand(p) ==
    /\ pc[p] \in {"auth", "store_secret"} => cmd[p] = "login"
    /\ pc[p] \in {"token", "acquire", "reload", "refresh"} => cmd[p] \in {"unlock", "use"}
    /\ pc[p] = "sync" => cmd[p] = "use"
    /\ pc[p] \in {"password", "save_keys", "write_keys"} => cmd[p] = "unlock"
    /\ pc[p] \in {"delete_keys", "remove_keys_file"} => cmd[p] = "lock"
    /\ pc[p] \in {"drop_secret", "clear_keys", "clear_tokens"} => cmd[p] = "logout"
    /\ pc[p] \in {"open_config", "write_config"} => cmd[p] # "lock"
    /\ pc[p] \in {"save_tokens", "write_tokens"} => cmd[p] \in {"login", "unlock", "use"}

(* What the configuration in memory names by then.                         *)
ConfigOfStep(p) ==
    /\ pc[p] # "idle" /\ cmd[p] \in {"unlock", "lock"} => mem[p].client \in Clients
    /\ pc[p] \in {"drop_secret", "clear_keys"} => mem[p].client \in Clients
    /\ cmd[p] = "login" /\ pc[p] \in Saving \cup {"store_secret"} => mem[p].client \in Clients
    /\ cmd[p] = "logout" /\ pc[p] \in {"clear_tokens", "open_config", "write_config"} =>
            mem[p] = Blank /\ leaving[p] \in Clients
    /\ pc[p] \in {"acquire", "reload", "refresh", "sync", "password"} => mem[p].tok \in Token
    /\ cmd[p] # "logout" /\ pc[p] \in Saving => mem[p].tok \in Token
    /\ cmd[p] \in {"unlock", "use"} /\ pc[p] \in Saving => redeeming[p] \in Token

Control(p) == StepOfCommand(p) /\ ConfigOfStep(p) /\ (refreshLock = p <=> HoldsLock(p))

TInv == Types /\ \A p \in Procs : Control(p)
-----------------------------------------------------------------------------
(* The control state is invariant.                                         *)

LEMMA ControlInit == Init => TInv
<1> SUFFICES ASSUME Init PROVE TInv
  OBVIOUS
<1>1. Types
  <2>1. ring \in [Clients -> RingEntry]
    BY DEF Init, RingEntry
  <2>2. mem \in [Procs -> Config]
    BY DEF Init, Config, Blank
  <2>3. pc \in [Procs -> Steps] /\ cmd \in [Procs -> Commands]
    BY DEF Init, Steps, Commands
  <2>4. ringUp \in BOOLEAN /\ steady \in BOOLEAN
    BY Zenon DEF Init
  <2>5. redeemed \in [Token -> Nat] /\ issued \in [Clients -> 0..MaxTokens]
    BY BoundAssumption DEF Init
  <2>6. /\ conf \in Clients \cup {NoClient, Torn} /\ keysFile = Absent /\ tokensFile = Absent
        /\ flaps = 0 /\ refreshLock = Free /\ expired = {} /\ lost = {} /\ commands = 0
        /\ redeeming \in [Procs -> Token \cup {NoToken}]
        /\ locked = {} /\ loggedOut = {} /\ disturbed = {}
        /\ leaving \in [Procs -> Clients \cup {NoClient}]
    BY DEF Init
  <2> QED
    BY <2>1, <2>2, <2>3, <2>4, <2>5, <2>6, BoundAssumption DEF Types
<1>2. ASSUME NEW p \in Procs PROVE Control(p)
  BY MarkAssumption DEF Init, Control, StepOfCommand, ConfigOfStep, HoldsLock, Saving
<1> QED
  BY <1>1, <1>2 DEF TInv

(* A step of p leaves the other processes alone, and their lock too.       *)
Others(p) ==
    \A q \in Procs \ {p} :
        /\ pc'[q] = pc[q] /\ cmd'[q] = cmd[q] /\ mem'[q] = mem[q]
        /\ leaving'[q] = leaving[q] /\ redeeming'[q] = redeeming[q]
        /\ refreshLock' = q <=> refreshLock = q

LEMMA OneProcess ==
    ASSUME TInv, NEW p \in Procs, Types', Others(p), Control(p)'
    PROVE  TInv'
<1>1. ASSUME NEW q \in Procs \ {p} PROVE Control(q)'
  BY DEF TInv, Control, Others, StepOfCommand, ConfigOfStep, HoldsLock, Saving
<1> QED
  BY <1>1 DEF TInv

(* Changing one field of one keyring entry leaves a keyring.               *)
LEMMA RingPut ==
    ASSUME ring \in [Clients -> RingEntry], NEW c, NEW new,
           \/ new = ring
           \/ \E b \in BOOLEAN : new = [ring EXCEPT ![c].keys = b]
           \/ \E b \in BOOLEAN : new = [ring EXCEPT ![c].secret = b]
           \/ \E t \in Token : new = [ring EXCEPT ![c].tok = t]
    PROVE  new \in [Clients -> RingEntry]
<1>1. ASSUME NEW d \in Clients PROVE new[d] \in RingEntry
  <2>1. ring[d] \in RingEntry
    OBVIOUS
  <2>2. CASE d = c
    <3>1. \/ new[d] = ring[d]
          \/ \E b \in BOOLEAN : new[d] = [ring[d] EXCEPT !.keys = b]
          \/ \E b \in BOOLEAN : new[d] = [ring[d] EXCEPT !.secret = b]
          \/ \E t \in Token : new[d] = [ring[d] EXCEPT !.tok = t]
      BY <2>2
    <3> QED
      BY <2>1, <3>1 DEF RingEntry
  <2>3. CASE d # c
    BY <2>1, <2>3
  <2> QED
    BY <2>2, <2>3
<1>2. new = [d \in Clients |-> new[d]]
  OBVIOUS
<1> QED
  BY <1>1, <1>2

(* What load_session finds is a configuration.                             *)
LEMMA LoadType ==
    ASSUME Types, conf # Torn
    PROVE  load_from_dir \in Config
BY DEF Types, load_from_dir, load_saved_tokens, load_saved_keys, Config, RingEntry

LEMMA ReloadType ==
    ASSUME Types, NEW p \in Procs
    PROVE  load_saved_tokens(mem[p].client, mem[p].tok) \in Token \cup {NoToken}
BY DEF Types, load_saved_tokens, Config, RingEntry

(* A token is a record of an account and a number; NoToken is not one.     *)
LEMMA NoTokenDiffers == NoToken \notin Token
BY ClientAssumption DEF NoToken, Token

(* Every step keeps the invariant.                                         *)
LEMMA ControlStep == TInv /\ [Next]_vars => TInv'
<1> SUFFICES ASSUME TInv, [Next]_vars PROVE TInv'
  OBVIOUS
<1>t. Types /\ \A p \in Procs : Control(p)
  BY DEF TInv
<1> USE MarkAssumption, BoundAssumption, ClientAssumption, NoTokenDiffers
<1> USE DEF goto, files, service, servers, history
<1>1. ASSUME NEW p \in Procs, NEW k \in Commands, load_session(p, k) PROVE TInv'
  <2>1. load_from_dir \in Config /\ first_step(k, load_from_dir) \in Steps
    BY <1>t, <1>1, LoadType DEF load_session, first_step, Steps, Commands
  <2>2. keysFile' \in Clients \cup {Absent, Torn}
    BY <1>t, <1>1 DEF load_session, keys_file_after_load, Types
  <2>3. is_logged_in(load_from_dir) => load_from_dir.client \in Clients
    BY <2>1 DEF is_logged_in, Config
  <2>4. /\ pc'[p] = first_step(k, load_from_dir) /\ cmd'[p] = k /\ mem'[p] = load_from_dir /\ pc[p] = "idle"
        /\ refreshLock' = refreshLock
    BY <1>t, <1>1 DEF load_session, Types
  <2>5. /\ first_step(k, load_from_dir) \in {"idle", "auth", "delete_keys", "drop_secret", "token"}
        /\ first_step(k, load_from_dir) = "auth" => k = "login"
        /\ first_step(k, load_from_dir) = "delete_keys" => k = "lock" /\ is_logged_in(load_from_dir)
        /\ first_step(k, load_from_dir) = "drop_secret" => k = "logout" /\ is_logged_in(load_from_dir)
        /\ first_step(k, load_from_dir) = "token" => k = "use" \/ (k = "unlock" /\ is_logged_in(load_from_dir))
    BY DEF first_step, Commands
  <2>a. Types'
    BY <1>t, <1>1, <2>1, <2>2 DEF load_session, Types
  <2>b. Others(p)
    BY <1>t, <1>1 DEF load_session, Types, Others
  <2>c. Control(p)'
    BY <1>t, <1>1, <2>1, <2>2, <2>3, <2>4, <2>5 DEF load_session, Types, Control, StepOfCommand, ConfigOfStep, HoldsLock, Saving
  <2> QED
    BY <2>a, <2>b, <2>c, OneProcess
<1>2. ASSUME NEW p \in Procs, NEW c \in Clients, login(p, c) PROVE TInv'
  <2>1. issued'[c] \in 1..MaxTokens /\ issued' \in [Clients -> 0..MaxTokens]
    BY <1>t, <1>2 DEF login, Types
  <2>2. [owner |-> c, n |-> issued'[c]] \in Token
    BY <2>1 DEF Token
  <2>3. /\ mem' = [mem EXCEPT ![p] = mem'[p]]
        /\ mem'[p] = [client |-> c, tok |-> [owner |-> c, n |-> issued'[c]], keys |-> mem[p].keys]
        /\ mem'[p] \in Config
    <3>1. mem' = [mem EXCEPT ![p] = mem'[p]]
      BY <1>t, <1>2 DEF login, Types
    <3>2. mem'[p] = [client |-> c, tok |-> [owner |-> c, n |-> issued'[c]], keys |-> mem[p].keys]
      <4>1. mem[p] \in Config
        BY <1>t DEF Types
      <4>2. mem'[p] = [[mem[p] EXCEPT !.client = c] EXCEPT !.tok = [owner |-> c, n |-> issued'[c]]]
        BY <1>t, <1>2 DEF login, Types
      <4> QED
        BY <4>1, <4>2 DEF Config
    <3>3. mem'[p] \in Config
      BY <1>t, <2>2, <3>2 DEF Types, Config
    <3> QED
      BY <3>1, <3>2, <3>3
  <2>a. Types'
    BY <1>t, <1>2, <2>1, <2>2, <2>3 DEF login, Types, Steps
  <2>b. Others(p)
    BY <1>t, <1>2 DEF login, Types, Others
  <2>c. Control(p)'
    BY <1>t, <1>2, <2>1, <2>2, <2>3 DEF login, Types, Control, StepOfCommand, ConfigOfStep, HoldsLock, Saving
  <2> QED
    BY <2>a, <2>b, <2>c, OneProcess
<1>3. ASSUME NEW p \in Procs, login_fails(p) PROVE TInv'
  <2>a. Types'
    BY <1>t, <1>3 DEF login_fails, Types, Steps
  <2>b. Others(p)
    BY <1>t, <1>3 DEF login_fails, Types, Others
  <2>c. Control(p)'
    BY <1>t, <1>3 DEF login_fails, Types, Control, StepOfCommand, ConfigOfStep, HoldsLock, Saving
  <2> QED
    BY <2>a, <2>b, <2>c, OneProcess
<1>4. ASSUME NEW p \in Procs, open_config(p) PROVE TInv'
  <2>a. Types'
    BY <1>t, <1>4 DEF open_config, Types, Steps
  <2>b. Others(p)
    BY <1>t, <1>4 DEF open_config, Types, Others
  <2>c. Control(p)'
    BY <1>t, <1>4 DEF open_config, Types, Control, StepOfCommand, ConfigOfStep, HoldsLock, Saving
  <2> QED
    BY <2>a, <2>b, <2>c, OneProcess
<1>5. ASSUME NEW p \in Procs, write_config(p) PROVE TInv'
  <2>1. mem[p].client \in Clients \cup {NoClient}
    BY <1>t DEF Types, Config
  <2>2. loggedOut' \subseteq Clients
    BY <1>t, <1>5 DEF write_config, Types, Control, ConfigOfStep
  <2>3. cmd[p] = "logout" => mem[p].tok = NoToken
    BY <1>t, <1>5 DEF write_config, Control, ConfigOfStep, Blank
  <2>a. Types'
    BY <1>t, <1>5, <2>1, <2>2 DEF write_config, Types, Steps
  <2>b. Others(p)
    BY <1>t, <1>5 DEF write_config, Types, Others
  <2>c. Control(p)'
    <3>1. /\ pc[p] = "write_config" /\ cmd'[p] = cmd[p] /\ mem'[p] = mem[p] /\ cmd[p] \in Commands
          /\ redeeming'[p] = redeeming[p] /\ refreshLock' = refreshLock
      BY <1>t, <1>5 DEF write_config, Types
    <3>2. CASE mem[p].tok = NoToken
      <4>1. pc'[p] = "idle" /\ cmd[p] = "logout"
        BY <1>t, <1>5, <3>1, <3>2 DEF write_config, Types, Control, ConfigOfStep, Saving
      <4> QED
        BY <1>t, <3>1, <4>1 DEF Control, StepOfCommand, ConfigOfStep, HoldsLock, Saving
    <3>3. CASE mem[p].tok # NoToken
      <4>1. pc'[p] = "save_tokens" /\ cmd[p] # "logout" /\ cmd[p] # "lock"
        BY <1>t, <1>5, <2>3, <3>1, <3>3 DEF write_config, Types, Control, StepOfCommand
      <4>2. cmd[p] \in {"login", "unlock", "use"}
        BY <3>1, <4>1 DEF Commands
      <4> QED
        BY <1>t, <3>1, <4>1, <4>2 DEF Control, StepOfCommand, ConfigOfStep, HoldsLock, Saving
    <3> QED
      BY <3>2, <3>3
  <2> QED
    BY <2>a, <2>b, <2>c, OneProcess
<1>6. ASSUME NEW p \in Procs, save_tokens(p) PROVE TInv'
  <2>1. /\ pc' = [pc EXCEPT ![p] = pc'[p]] /\ pc'[p] \in Steps
        /\ refreshLock' \in Procs \cup {Free}
        /\ \A q \in Procs \ {p} : refreshLock' = q <=> refreshLock = q
    BY <1>t, <1>6 DEF save_tokens, saved, after_token, release_if_held, Types, Steps
  <2>2. mem[p].tok \in Token
    BY <1>t, <1>6 DEF save_tokens, Control, StepOfCommand, ConfigOfStep, Saving
  <2>3. ring' \in [Clients -> RingEntry]
    <3>1. ring' = ring \/ ring' = [ring EXCEPT ![mem[p].client].tok = mem[p].tok]
      BY <1>6 DEF save_tokens
    <3> QED
      BY <1>t, <2>2, <3>1, RingPut DEF Types
  <2>a. Types'
    BY <1>t, <1>6, <2>1, <2>2, <2>3 DEF save_tokens, Types
  <2>b. Others(p)
    BY <1>t, <1>6, <2>1 DEF save_tokens, Types, Others
  <2>c. Control(p)'
    BY <1>t, <1>6 DEF save_tokens, Types, Control, StepOfCommand, ConfigOfStep, HoldsLock, Saving, saved, after_token, release_if_held
  <2> QED
    BY <2>a, <2>b, <2>c, OneProcess
<1>7. ASSUME NEW p \in Procs, write_tokens(p) PROVE TInv'
  <2>1. /\ pc' = [pc EXCEPT ![p] = pc'[p]] /\ pc'[p] \in Steps
        /\ refreshLock' \in Procs \cup {Free}
        /\ \A q \in Procs \ {p} : refreshLock' = q <=> refreshLock = q
    BY <1>t, <1>7 DEF write_tokens, saved, after_token, release_if_held, Types, Steps
  <2>2. mem[p].tok \in Token
    BY <1>t, <1>7 DEF write_tokens, Control, StepOfCommand, ConfigOfStep, Saving
  <2>a. Types'
    BY <1>t, <1>7, <2>1, <2>2 DEF write_tokens, Types
  <2>b. Others(p)
    BY <1>t, <1>7, <2>1 DEF write_tokens, Types, Others
  <2>c. Control(p)'
    BY <1>t, <1>7 DEF write_tokens, Types, Control, StepOfCommand, ConfigOfStep, HoldsLock, Saving, saved, after_token, release_if_held
  <2> QED
    BY <2>a, <2>b, <2>c, OneProcess
<1>8. ASSUME NEW p \in Procs, store_client_secret(p) PROVE TInv'
  <2>1. ring' \in [Clients -> RingEntry]
    <3>1. ring' = ring \/ \E b \in BOOLEAN : ring' = [ring EXCEPT ![mem[p].client].secret = b]
      BY <1>8 DEF store_client_secret
    <3> QED
      BY <1>t, <3>1, RingPut DEF Types
  <2>a. Types'
    BY <1>t, <1>8, <2>1 DEF store_client_secret, Types, Steps
  <2>b. Others(p)
    BY <1>t, <1>8 DEF store_client_secret, Types, Others
  <2>c. Control(p)'
    BY <1>t, <1>8 DEF store_client_secret, Types, Control, StepOfCommand, ConfigOfStep, HoldsLock, Saving
  <2> QED
    BY <2>a, <2>b, <2>c, OneProcess
<1>9. ASSUME NEW p \in Procs, use_saved_token(p) PROVE TInv'
  <2>1. mem[p].tok = NoToken \/ mem[p].tok \in Token
    BY <1>t DEF Types, Config
  <2>a. Types'
    BY <1>t, <1>9 DEF use_saved_token, Types, Steps, after_token
  <2>b. Others(p)
    BY <1>t, <1>9 DEF use_saved_token, Types, Others
  <2>c. Control(p)'
    BY <1>t, <1>9, <2>1 DEF use_saved_token, Types, Control, StepOfCommand, ConfigOfStep, HoldsLock, Saving, after_token
  <2> QED
    BY <2>a, <2>b, <2>c, OneProcess
<1>10. ASSUME NEW p \in Procs, acquire_token_refresh_lock(p) PROVE TInv'
  <2>a. Types'
    BY <1>t, <1>10 DEF acquire_token_refresh_lock, Types, Steps
  <2>b. Others(p)
    BY <1>t, <1>10 DEF acquire_token_refresh_lock, Types, Others
  <2>c. Control(p)'
    BY <1>t, <1>10 DEF acquire_token_refresh_lock, Types, Control, StepOfCommand, ConfigOfStep, HoldsLock, Saving
  <2> QED
    BY <2>a, <2>b, <2>c, OneProcess
<1>11. ASSUME NEW p \in Procs, reload(p) PROVE TInv'
  <2>1. /\ pc' = [pc EXCEPT ![p] = pc'[p]] /\ pc'[p] \in Steps
        /\ refreshLock' \in Procs \cup {Free}
        /\ \A q \in Procs \ {p} : refreshLock' = q <=> refreshLock = q
    BY <1>t, <1>11 DEF reload, fail, after_token, release_if_held, Types, Steps
  <2>2. /\ mem' = [mem EXCEPT ![p] = mem'[p]] /\ mem'[p] \in Config
        /\ mem'[p].client = mem[p].client
    <3>1. CASE mem' = mem
      BY <1>t, <3>1 DEF Types
    <3>2. CASE mem' = [mem EXCEPT ![p] = [mem[p] EXCEPT !.tok = load_saved_tokens(mem[p].client, mem[p].tok)]]
      <4>1. mem'[p] = [mem[p] EXCEPT !.tok = load_saved_tokens(mem[p].client, mem[p].tok)]
        BY <1>t, <3>2 DEF Types
      <4>2. mem[p] \in Config
        BY <1>t DEF Types
      <4>3. mem'[p] = [client |-> mem[p].client, keys |-> mem[p].keys,
                       tok |-> load_saved_tokens(mem[p].client, mem[p].tok)]
        BY <4>1, <4>2 DEF Config
      <4>4. mem' = [mem EXCEPT ![p] = mem'[p]]
        BY <3>2, <4>1
      <4> QED
        BY <1>t, <4>2, <4>3, <4>4, ReloadType DEF Config
    <3> QED
      BY <1>11, <3>1, <3>2 DEF reload
  <2>3. mem'[p].tok \in Token /\ mem'[p].client = mem[p].client
    <3>1. mem[p].tok \in Token /\ mem[p] \in Config
      BY <1>t, <1>11 DEF reload, Control, ConfigOfStep, Types
    <3>2. load_saved_tokens(mem[p].client, mem[p].tok) \in Token
      BY <1>t, <3>1 DEF load_saved_tokens, Types, RingEntry, Config
    <3> QED
      BY <1>t, <1>11, <2>2, <3>1, <3>2 DEF reload, Types, Config
  <2>a. Types'
    BY <1>t, <1>11, <2>1, <2>2 DEF reload, Types
  <2>b. Others(p)
    BY <1>t, <1>11, <2>1, <2>2 DEF reload, Types, Others
  <2>c. Control(p)'
    BY <1>t, <1>11, <2>3 DEF reload, Types, Control, StepOfCommand, ConfigOfStep, HoldsLock, Saving, fail, after_token, release_if_held
  <2> QED
    BY <2>a, <2>b, <2>c, OneProcess
<1>12. ASSUME NEW p \in Procs, refresh(p) PROVE TInv'
  <2> DEFINE t == mem[p].tok
             u == [owner |-> t.owner, n |-> issued'[t.owner]]
  <2>1. t \in Token /\ t.owner \in Clients
    BY <1>t, <1>12 DEF refresh, Control, ConfigOfStep, Token
  <2>2. u \in Token /\ issued' \in [Clients -> 0..MaxTokens]
    BY <1>t, <1>12, <2>1 DEF refresh, Types, Token
  <2>3. /\ mem' = [mem EXCEPT ![p] = mem'[p]]
        /\ mem'[p] = [client |-> mem[p].client, tok |-> u, keys |-> mem[p].keys]
        /\ mem'[p] \in Config
    <3>1. mem' = [mem EXCEPT ![p] = mem'[p]]
      BY <1>t, <1>12 DEF refresh, Types
    <3>2. mem'[p] = [client |-> mem[p].client, tok |-> u, keys |-> mem[p].keys]
      BY <1>t, <1>12 DEF refresh, Types, Config
    <3>3. mem'[p] \in Config
      BY <1>t, <2>2, <3>2 DEF Types, Config
    <3> QED
      BY <3>1, <3>2, <3>3
  <2>4. redeemed' \in [Token -> Nat]
    BY <1>t, <1>12, <2>1 DEF refresh, Types
  <2>a. Types'
    BY <1>t, <1>12, <2>1, <2>2, <2>3, <2>4 DEF refresh, Types, Steps
  <2>b. Others(p)
    BY <1>t, <1>12 DEF refresh, Types, Others
  <2>c. Control(p)'
    <3>1. /\ pc[p] = "refresh" /\ cmd'[p] = cmd[p] /\ redeeming'[p] = t /\ pc'[p] = "open_config"
          /\ refreshLock' = refreshLock /\ cmd[p] \in {"unlock", "use"}
      BY <1>t, <1>12 DEF refresh, Types, Control, StepOfCommand
    <3>2. mem'[p].client = mem[p].client /\ mem'[p].tok = u
      BY <2>3
    <3> HIDE DEF t, u
    <3> QED
      BY <1>t, <2>1, <2>2, <3>1, <3>2 DEF Control, StepOfCommand, ConfigOfStep, HoldsLock, Saving
  <2> QED
    BY <2>a, <2>b, <2>c, OneProcess
<1>13. ASSUME NEW p \in Procs, refresh_fails(p) PROVE TInv'
  <2>1. mem[p].tok \in Token
    BY <1>t, <1>13 DEF refresh_fails, Control, ConfigOfStep
  <2>2. redeemed' \in [Token -> Nat]
    BY <1>t, <1>13, <2>1 DEF refresh_fails, Types
  <2>a. Types'
    BY <1>t, <1>13, <2>1, <2>2 DEF refresh_fails, Types, Steps, fail, release_if_held
  <2>b. Others(p)
    BY <1>t, <1>13 DEF refresh_fails, Types, Others, fail, release_if_held
  <2>c. Control(p)'
    BY <1>t, <1>13 DEF refresh_fails, Types, Control, StepOfCommand, ConfigOfStep, HoldsLock, Saving, fail, release_if_held
  <2> QED
    BY <2>a, <2>b, <2>c, OneProcess
<1>14. ASSUME NEW p \in Procs, sync(p) PROVE TInv'
  <2>a. Types'
    BY <1>t, <1>14 DEF sync, Types, Steps
  <2>b. Others(p)
    BY <1>t, <1>14 DEF sync, Types, Others
  <2>c. Control(p)'
    BY <1>t, <1>14 DEF sync, Types, Control, StepOfCommand, ConfigOfStep, HoldsLock, Saving
  <2> QED
    BY <2>a, <2>b, <2>c, OneProcess
<1>15. ASSUME NEW p \in Procs, password(p) PROVE TInv'
  <2>1. mem' = [mem EXCEPT ![p] = mem'[p]] /\ mem'[p] \in Config /\ mem'[p].client = mem[p].client
    <3>1. CASE mem' = mem
      BY <1>t, <3>1 DEF Types
    <3>2. CASE mem' = [mem EXCEPT ![p].keys = mem[p].client]
      <4>1. mem' = [mem EXCEPT ![p] = mem'[p]]
        BY <1>t, <3>2 DEF Types
      <4>2. mem'[p] = [client |-> mem[p].client, tok |-> mem[p].tok, keys |-> mem[p].client]
        BY <1>t, <3>2 DEF Types, Config
      <4> QED
        BY <1>t, <4>1, <4>2 DEF Types, Config
    <3> QED
      BY <1>15, <3>1, <3>2 DEF password
  <2>a. Types'
    BY <1>t, <1>15, <2>1 DEF password, Types, Steps
  <2>b. Others(p)
    BY <1>t, <1>15 DEF password, Types, Others
  <2>c. Control(p)'
    BY <1>t, <1>15, <2>1 DEF password, Types, Control, StepOfCommand, ConfigOfStep, HoldsLock, Saving
  <2> QED
    BY <2>a, <2>b, <2>c, OneProcess
<1>16. ASSUME NEW p \in Procs, save_keys(p) PROVE TInv'
  <2>1. ring' \in [Clients -> RingEntry]
    <3>1. ring' = ring \/ \E b \in BOOLEAN : ring' = [ring EXCEPT ![mem[p].client].keys = b]
      BY <1>16 DEF save_keys
    <3> QED
      BY <1>t, <3>1, RingPut DEF Types
  <2>2. keysFile' \in Clients \cup {Absent, Torn}
    BY <1>t, <1>16 DEF save_keys, Types
  <2>a. Types'
    BY <1>t, <1>16, <2>1, <2>2 DEF save_keys, Types, Steps, stores
  <2>b. Others(p)
    BY <1>t, <1>16 DEF save_keys, Types, Others, stores
  <2>c. Control(p)'
    BY <1>t, <1>16 DEF save_keys, Types, Control, StepOfCommand, ConfigOfStep, HoldsLock, Saving, stores
  <2> QED
    BY <2>a, <2>b, <2>c, OneProcess
<1>17. ASSUME NEW p \in Procs, write_keys(p) PROVE TInv'
  <2>1. mem[p].client \in Clients
    BY <1>t, <1>17 DEF write_keys, Control, StepOfCommand, ConfigOfStep
  <2>a. Types'
    BY <1>t, <1>17, <2>1 DEF write_keys, Types, Steps, stores
  <2>b. Others(p)
    BY <1>t, <1>17 DEF write_keys, Types, Others, stores
  <2>c. Control(p)'
    BY <1>t, <1>17 DEF write_keys, Types, Control, StepOfCommand, ConfigOfStep, HoldsLock, Saving, stores
  <2> QED
    BY <2>a, <2>b, <2>c, OneProcess
<1>18. ASSUME NEW p \in Procs, delete_keys(p) PROVE TInv'
  <2>1. ring' \in [Clients -> RingEntry]
    <3>1. ring' = ring \/ \E b \in BOOLEAN : ring' = [ring EXCEPT ![mem[p].client].keys = b]
      BY <1>18 DEF delete_keys
    <3> QED
      BY <1>t, <3>1, RingPut DEF Types
  <2>a. Types'
    BY <1>t, <1>18, <2>1 DEF delete_keys, Types, Steps
  <2>b. Others(p)
    BY <1>t, <1>18 DEF delete_keys, Types, Others
  <2>c. Control(p)'
    BY <1>t, <1>18 DEF delete_keys, Types, Control, StepOfCommand, ConfigOfStep, HoldsLock, Saving
  <2> QED
    BY <2>a, <2>b, <2>c, OneProcess
<1>19. ASSUME NEW p \in Procs, remove_keys_file(p) PROVE TInv'
  <2>1. mem[p].client \in Clients
    BY <1>t, <1>19 DEF remove_keys_file, Control, StepOfCommand, ConfigOfStep
  <2>a. Types'
    BY <1>t, <1>19, <2>1 DEF remove_keys_file, Types, Steps
  <2>b. Others(p)
    BY <1>t, <1>19 DEF remove_keys_file, Types, Others
  <2>c. Control(p)'
    BY <1>t, <1>19 DEF remove_keys_file, Types, Control, StepOfCommand, ConfigOfStep, HoldsLock, Saving
  <2> QED
    BY <2>a, <2>b, <2>c, OneProcess
<1>20. ASSUME NEW p \in Procs, drop_secret(p) PROVE TInv'
  <2>1. ring' \in [Clients -> RingEntry]
    <3>1. ring' = ring \/ \E b \in BOOLEAN : ring' = [ring EXCEPT ![mem[p].client].secret = b]
      BY <1>20 DEF drop_secret
    <3> QED
      BY <1>t, <3>1, RingPut DEF Types
  <2>a. Types'
    BY <1>t, <1>20, <2>1 DEF drop_secret, Types, Steps
  <2>b. Others(p)
    BY <1>t, <1>20 DEF drop_secret, Types, Others
  <2>c. Control(p)'
    BY <1>t, <1>20 DEF drop_secret, Types, Control, StepOfCommand, ConfigOfStep, HoldsLock, Saving
  <2> QED
    BY <2>a, <2>b, <2>c, OneProcess
<1>21. ASSUME NEW p \in Procs, clear_keys(p) PROVE TInv'
  <2>1. mem[p].client \in Clients
    BY <1>t, <1>21 DEF clear_keys, Control, ConfigOfStep
  <2>2. Blank \in Config
    BY DEF Blank, Config
  <2>a. Types'
    BY <1>t, <1>21, <2>1, <2>2 DEF clear_keys, Types, Steps
  <2>b. Others(p)
    BY <1>t, <1>21 DEF clear_keys, Types, Others
  <2>c. Control(p)'
    BY <1>t, <1>21, <2>1 DEF clear_keys, Types, Control, StepOfCommand, ConfigOfStep, HoldsLock, Saving
  <2> QED
    BY <2>a, <2>b, <2>c, OneProcess
<1>22. ASSUME NEW p \in Procs, clear_tokens(p) PROVE TInv'
  <2>a. Types'
    BY <1>t, <1>22 DEF clear_tokens, Types, Steps
  <2>b. Others(p)
    BY <1>t, <1>22 DEF clear_tokens, Types, Others
  <2>c. Control(p)'
    BY <1>t, <1>22 DEF clear_tokens, Types, Control, StepOfCommand, ConfigOfStep, HoldsLock, Saving
  <2> QED
    BY <2>a, <2>b, <2>c, OneProcess
<1>23. ASSUME NEW p \in Procs, crash(p) PROVE TInv'
  <2>1. lost' \subseteq Token
    BY <1>t, <1>23 DEF crash, Types, Control, ConfigOfStep, Saving
  <2>a. Types'
    BY <1>t, <1>23, <2>1 DEF crash, Types, Steps, fail, release_if_held
  <2>b. Others(p)
    BY <1>t, <1>23 DEF crash, Types, Others, fail, release_if_held
  <2>c. Control(p)'
    BY <1>t, <1>23 DEF crash, Types, Control, StepOfCommand, ConfigOfStep, HoldsLock, Saving, fail, release_if_held
  <2> QED
    BY <2>a, <2>b, <2>c, OneProcess
<1>24. ASSUME UNCHANGED <<pc, cmd, mem, leaving, redeeming, refreshLock>>, Types' PROVE TInv'
  BY <1>t, <1>24 DEF TInv, Control, StepOfCommand, ConfigOfStep, HoldsLock, Saving
<1>25. ASSUME NEW t \in Token, expire(t) PROVE TInv'
  <2>1. Types'
    BY <1>t, <1>25 DEF expire, Types
  <2> QED
    BY <1>24, <1>25, <2>1 DEF expire
<1>26. CASE keyring_service
  <2>2. ringUp' \in BOOLEAN /\ steady' \in BOOLEAN
    BY <1>26, Zenon DEF keyring_service
  <2>1. Types'
    BY <1>t, <1>26, <2>2 DEF keyring_service, Types
  <2> QED
    BY <1>24, <1>26, <2>1 DEF keyring_service
<1>27. CASE UNCHANGED vars
  <2>1. Types'
    BY <1>t, <1>27 DEF vars, Types
  <2> QED
    BY <1>24, <1>27, <2>1 DEF vars
<1> QED
  BY <1>1, <1>2, <1>3, <1>4, <1>5, <1>6, <1>7, <1>8, <1>9, <1>10, <1>11, <1>12, <1>13, <1>14, <1>15, <1>16, <1>17, <1>18, <1>19, <1>20, <1>21, <1>22, <1>23,
     <1>25, <1>26, <1>27 DEF Next, step

LEMMA ControlInvariance == Spec => []TInv
BY ControlInit, ControlStep, PTL DEF Spec

-----------------------------------------------------------------------------
(* Locked accounts.                                                        *)

(* Between its two deletions a lock that no unlock overtook has emptied    *)
(* the keyring entry of its account.                                       *)
KeysGone(p) == pc[p] = "remove_keys_file" /\ p \notin disturbed => ~ring[mem[p].client].keys

LInv == LockHolds /\ \A p \in Procs : KeysGone(p)

-----------------------------------------------------------------------------
(* Tokens, as long as the keyring answers.                                 *)

(* Every token is stored and used under the account it was issued to.      *)
TokensNamed ==
    /\ ringUp /\ tokensFile = Absent
    /\ \A c \in Clients : ring[c].tok # NoToken => ring[c].tok.owner = c
    /\ \A p \in Procs : pc[p] # "write_tokens"
    /\ \A p \in Procs : mem[p].tok # NoToken => mem[p].tok.owner = mem[p].client

Issued(t) == t.n <= issued[t.owner]

(* p is on its way to the keyring with a token it was just issued.         *)
Bringing(p) == pc[p] \in Saving /\ cmd[p] # "logout"

(* ... as the successor of one it redeemed, for which it holds the lock.   *)
Replacing(p) == pc[p] \in Saving /\ cmd[p] \in {"unlock", "use"}

(* A token may be redeemed without harm: nobody did, or what came of it    *)
(* was lost.                                                               *)
Unspent(t) == redeemed[t] = 0 \/ t \in lost

(* Tokens are numbered as they are issued.                                 *)
TokensIssued ==
    /\ \A p \in Procs : mem[p].tok # NoToken => Issued(mem[p].tok)
    /\ \A c \in Clients : ring[c].tok # NoToken => Issued(ring[c].tok)
    /\ \A t \in Token : redeemed[t] > 0 => Issued(t)

(* A token on its way is new to the keyring and to whoever may refresh.    *)
BroughtIsNew ==
    \A p \in Procs : Bringing(p) =>
        /\ redeemed[mem[p].tok] = 0
        /\ \A c \in Clients : ring[c].tok # mem[p].tok
        /\ \A q \in Procs \ {p} : Bringing(q) \/ pc[q] = "refresh" => mem[q].tok # mem[p].tok

(* What the keyring holds is unspent, or its successor is on the way.      *)
StoredIsUnspent ==
    \A c \in Clients : ring[c].tok # NoToken =>
        \/ Unspent(ring[c].tok)
        \/ \E p \in Procs : Replacing(p) /\ redeeming[p] = ring[c].tok

(* A refresh is about to redeem what the keyring held under the lock.      *)
RefreshIsUnspent == \A p \in Procs : pc[p] = "refresh" => Unspent(mem[p].tok)

(* A command that loaded a token finds one when it reads the keyring again. *)
ReloadFinds ==
    \A p \in Procs : pc[p] \in {"token", "acquire", "reload"} /\ mem[p].tok # NoToken =>
        ring[mem[p].client].tok # NoToken

(* A successor goes to the account of the token it replaces.               *)
ReplacesOwn == \A p \in Procs : Replacing(p) => redeeming[p].owner = mem[p].client

Fresh ==
    /\ TokensNamed /\ TokensIssued /\ BroughtIsNew /\ StoredIsUnspent
    /\ RefreshIsUnspent /\ ReloadFinds /\ ReplacesOwn
    /\ \A t \in Token : redeemed[t] > 1 => t \in lost

FInv == steady => Fresh

-----------------------------------------------------------------------------
(* Locked accounts stay without keys.                                      *)

(* A step that neither adds a key nor takes part in a lock.                *)
QuietKeys ==
    /\ locked' = locked /\ disturbed' = disturbed
    /\ \A c \in Clients : ring'[c].keys = ring[c].keys
    /\ keysFile' \in {keysFile, Absent, Torn}
    /\ \A q \in Procs : pc'[q] = "remove_keys_file" => pc[q] = "remove_keys_file" /\ mem'[q] = mem[q]

LEMMA QuietKeysStep ==
    ASSUME TInv, LInv, QuietKeys
    PROVE  LInv'
<1>1. LockHolds'
  BY MarkAssumption DEF LInv, LockHolds, QuietKeys, TInv, Types
<1>2. ASSUME NEW p \in Procs PROVE KeysGone(p)'
  <2>1. SUFFICES ASSUME pc'[p] = "remove_keys_file", p \notin disturbed' PROVE ~ring'[mem'[p].client].keys
    BY DEF KeysGone
  <2>2. mem[p].client \in Clients /\ mem'[p] = mem[p]
    BY <2>1 DEF QuietKeys, TInv, Control, StepOfCommand, ConfigOfStep
  <2> QED
    BY <2>1, <2>2 DEF QuietKeys, LInv, KeysGone
<1> QED
  BY <1>1, <1>2 DEF LInv

LEMMA LockStep == TInv /\ LInv /\ [Next]_vars => LInv'
<1> SUFFICES ASSUME TInv, LInv, [Next]_vars PROVE LInv'
  OBVIOUS
<1>t. Types /\ \A p \in Procs : Control(p)
  BY DEF TInv
<1>k. Clients \cap {Absent, Torn} = {}
  BY MarkAssumption
<1> USE DEF goto, files, service, servers, history
<1>1. ASSUME NEW p \in Procs, NEW k \in Commands, load_session(p, k) PROVE QuietKeys
  BY <1>t, <1>1 DEF load_session, first_step, Commands, keys_file_after_load, QuietKeys, Types
<1>2. ASSUME NEW p \in Procs, NEW c \in Clients, login(p, c) PROVE QuietKeys
  BY <1>t, <1>2 DEF login, QuietKeys, Types
<1>3. ASSUME NEW p \in Procs, login_fails(p) PROVE QuietKeys
  BY <1>t, <1>3 DEF login_fails, QuietKeys, Types
<1>4. ASSUME NEW p \in Procs, open_config(p) PROVE QuietKeys
  BY <1>t, <1>4 DEF open_config, QuietKeys, Types
<1>5. ASSUME NEW p \in Procs, write_config(p) PROVE QuietKeys
  BY <1>t, <1>5 DEF write_config, QuietKeys, Types
<1>6. ASSUME NEW p \in Procs, save_tokens(p) PROVE QuietKeys
  <2>1. ring' = ring \/ ring' = [ring EXCEPT ![mem[p].client].tok = mem[p].tok]
    BY <1>6 DEF save_tokens
  <2>2. \A c \in Clients : ring'[c].keys = ring[c].keys
    BY <1>t, <2>1 DEF Types, RingEntry
  <2> QED
    BY <1>t, <1>6, <2>2 DEF save_tokens, saved, after_token, QuietKeys, Types
<1>7. ASSUME NEW p \in Procs, write_tokens(p) PROVE QuietKeys
  BY <1>t, <1>7 DEF write_tokens, saved, after_token, QuietKeys, Types
<1>8. ASSUME NEW p \in Procs, store_client_secret(p) PROVE QuietKeys
  BY <1>t, <1>8 DEF store_client_secret, QuietKeys, Types
<1>9. ASSUME NEW p \in Procs, use_saved_token(p) PROVE QuietKeys
  BY <1>t, <1>9 DEF use_saved_token, after_token, QuietKeys, Types
<1>10. ASSUME NEW p \in Procs, acquire_token_refresh_lock(p) PROVE QuietKeys
  BY <1>t, <1>10 DEF acquire_token_refresh_lock, QuietKeys, Types
<1>11. ASSUME NEW p \in Procs, reload(p) PROVE QuietKeys
  BY <1>t, <1>11 DEF reload, fail, after_token, QuietKeys, Types
<1>12. ASSUME NEW p \in Procs, refresh(p) PROVE QuietKeys
  BY <1>t, <1>12 DEF refresh, QuietKeys, Types
<1>13. ASSUME NEW p \in Procs, refresh_fails(p) PROVE QuietKeys
  BY <1>t, <1>13 DEF refresh_fails, fail, QuietKeys, Types
<1>14. ASSUME NEW p \in Procs, sync(p) PROVE QuietKeys
  BY <1>t, <1>14 DEF sync, QuietKeys, Types
<1>15. ASSUME NEW p \in Procs, password(p) PROVE QuietKeys
  BY <1>t, <1>15 DEF password, QuietKeys, Types
<1>16. ASSUME NEW p \in Procs, drop_secret(p) PROVE QuietKeys
  <2>1. ring' = ring \/ ring' = [ring EXCEPT ![mem[p].client].secret = FALSE]
    BY <1>16 DEF drop_secret
  <2>2. \A c \in Clients : ring'[c].keys = ring[c].keys
    BY <1>t, <2>1 DEF Types, RingEntry
  <2> QED
    BY <1>t, <1>16, <2>2 DEF drop_secret, QuietKeys, Types
<1>17. ASSUME NEW p \in Procs, clear_keys(p) PROVE QuietKeys
  BY <1>t, <1>17 DEF clear_keys, QuietKeys, Types
<1>18. ASSUME NEW p \in Procs, clear_tokens(p) PROVE QuietKeys
  BY <1>t, <1>18 DEF clear_tokens, QuietKeys, Types
<1>19. ASSUME NEW p \in Procs, crash(p) PROVE QuietKeys
  BY <1>t, <1>19 DEF crash, fail, QuietKeys, Types
<1>20. ASSUME NEW p \in Procs, save_keys(p) PROVE LInv'
  <2>1. mem[p].client \in Clients
    BY <1>t, <1>20 DEF save_keys, Control, StepOfCommand, ConfigOfStep
  <2>2. CASE ringUp
    <3>1. /\ \A c \in Clients : c # mem[p].client => ring'[c].keys = ring[c].keys
          /\ keysFile' = Absent /\ locked' = locked \ {mem[p].client} /\ disturbed' = Procs
      BY <1>t, <1>20, <2>2 DEF save_keys, stores, Types
    <3> QED
      BY <1>t, <1>k, <3>1 DEF LInv, LockHolds, KeysGone, Types
  <2>3. CASE ~ringUp
    <3>1. QuietKeys
      BY <1>t, <1>20, <2>3 DEF save_keys, QuietKeys, Types
    <3> QED
      BY <3>1, QuietKeysStep
  <2> QED
    BY <2>2, <2>3
<1>21. ASSUME NEW p \in Procs, write_keys(p) PROVE LInv'
  <2>1. /\ ring' = ring /\ keysFile' = mem[p].client /\ locked' = locked \ {mem[p].client}
        /\ disturbed' = Procs
    BY <1>21 DEF write_keys, stores
  <2> QED
    BY <2>1 DEF LInv, LockHolds, KeysGone
<1>22. ASSUME NEW p \in Procs, delete_keys(p) PROVE LInv'
  <2>1. CASE ringUp
    <3>1. mem[p].client \in Clients
      BY <1>t, <1>22 DEF delete_keys, Control, StepOfCommand, ConfigOfStep
    <3>2. /\ ring' = [ring EXCEPT ![mem[p].client].keys = FALSE] /\ disturbed' = disturbed \ {p}
          /\ pc' = [pc EXCEPT ![p] = "remove_keys_file"]
          /\ mem' = mem /\ keysFile' = keysFile /\ locked' = locked
      BY <1>22, <2>1 DEF delete_keys
    <3>3. \A c \in Clients : ring'[c].keys => ring[c].keys /\ c # mem[p].client
      BY <1>t, <3>1, <3>2 DEF Types, RingEntry
    <3>4. LockHolds'
      BY <1>t, <3>2, <3>3 DEF LInv, LockHolds, Types
    <3>5. ASSUME NEW q \in Procs PROVE KeysGone(q)'
      <4>1. pc[q] = "remove_keys_file" => mem[q].client \in Clients
        BY <1>t DEF Control, StepOfCommand, ConfigOfStep
      <4> QED
        BY <1>t, <3>1, <3>2, <3>3, <4>1 DEF LInv, KeysGone, Types
    <3> QED
      BY <3>4, <3>5 DEF LInv
  <2>2. CASE ~ringUp
    <3>1. QuietKeys
      BY <1>t, <1>22, <2>2 DEF delete_keys, QuietKeys, Types
    <3> QED
      BY <3>1, QuietKeysStep
  <2> QED
    BY <2>1, <2>2
<1>23. ASSUME NEW p \in Procs, remove_keys_file(p) PROVE LInv'
  <2>1. /\ ring' = ring /\ keysFile' = Absent /\ disturbed' = disturbed /\ mem' = mem
        /\ pc' = [pc EXCEPT ![p] = "idle"] /\ pc[p] = "remove_keys_file"
        /\ locked' = IF p \in disturbed THEN locked ELSE locked \cup {mem[p].client}
    BY <1>23 DEF remove_keys_file
  <2>2. LockHolds'
    <3>1. p \notin disturbed => ~ring[mem[p].client].keys
      BY <2>1 DEF LInv, KeysGone
    <3>2. mem[p].client \in Clients /\ locked \subseteq Clients
      BY <1>t, <2>1 DEF Control, StepOfCommand, ConfigOfStep, Types
    <3> QED
      BY <1>k, <2>1, <3>1, <3>2 DEF LInv, LockHolds
  <2>3. \A q \in Procs : KeysGone(q)'
    BY <1>t, <2>1 DEF LInv, KeysGone, Types
  <2> QED
    BY <2>2, <2>3 DEF LInv
<1>24. ASSUME NEW t \in Token, expire(t) PROVE QuietKeys
  BY <1>24 DEF expire, QuietKeys
<1>25. ASSUME keyring_service PROVE QuietKeys
  BY <1>25 DEF keyring_service, QuietKeys
<1>26. ASSUME UNCHANGED vars PROVE QuietKeys
  BY <1>26 DEF vars, QuietKeys
<1> QED
  BY <1>1, <1>2, <1>3, <1>4, <1>5, <1>6, <1>7, <1>8, <1>9, <1>10, <1>11, <1>12, <1>13, <1>14, <1>15, <1>16, <1>17, <1>18, <1>19,
     <1>20, <1>21, <1>22, <1>23, <1>24, <1>25, <1>26, QuietKeysStep DEF Next, step

LEMMA LockInit == Init => LInv
BY DEF Init, LInv, LockHolds, KeysGone

-----------------------------------------------------------------------------
(* A token is redeemed once.                                               *)

(* Fresh speaks of these variables only.                                   *)
tokens == <<ringUp, tokensFile, ring, pc, cmd, mem, issued, redeemed, lost, redeeming>>

LEMMA FreshUnchanged ==
    ASSUME Fresh, UNCHANGED tokens
    PROVE  Fresh'
BY DEF Fresh, tokens, TokensNamed, TokensIssued, BroughtIsNew, StoredIsUnspent, RefreshIsUnspent,
   ReloadFinds, ReplacesOwn, Issued, Bringing, Replacing, Unspent

(* A step of p that neither redeems, stores nor loses a token.             *)
Moves(p) ==
    /\ UNCHANGED <<ringUp, issued, redeemed, lost, redeeming>> /\ tokensFile' = Absent
    /\ \A c \in Clients : ring'[c].tok = ring[c].tok
    /\ pc'[p] # "write_tokens"
    /\ mem'[p].tok # NoToken => mem'[p].tok.owner = mem'[p].client /\ Issued(mem'[p].tok)
    /\ Bringing(p)' => Bringing(p) /\ mem'[p] = mem[p]
    /\ Replacing(p)' <=> Replacing(p)
    /\ pc'[p] = "refresh" =>
        /\ Unspent(mem'[p].tok)
        /\ \A q \in Procs \ {p} : Bringing(q) => mem[q].tok # mem'[p].tok
    /\ pc'[p] \in {"token", "acquire", "reload"} /\ mem'[p].tok # NoToken =>
        ring[mem'[p].client].tok # NoToken

LEMMA MovesStep ==
    ASSUME TInv, TInv', Fresh, NEW p \in Procs, Others(p), Moves(p)
    PROVE  Fresh'
<1>1. \A q \in Procs \ {p} :
        /\ pc'[q] = pc[q] /\ cmd'[q] = cmd[q] /\ mem'[q] = mem[q]
        /\ Bringing(q)' <=> Bringing(q)
        /\ Replacing(q)' <=> Replacing(q)
  BY DEF Others, Bringing, Replacing
<1>2. \A t : (Issued(t)' <=> Issued(t)) /\ (Unspent(t)' <=> Unspent(t))
  BY DEF Moves, Issued, Unspent
<1>3. TokensNamed'
  BY <1>1 DEF Moves, Fresh, TokensNamed
<1>4. TokensIssued'
  BY <1>1, <1>2 DEF Moves, Fresh, TokensIssued
<1>5. BroughtIsNew'
  <2>1. ASSUME NEW r \in Procs, Bringing(r)'
        PROVE  /\ Bringing(r) /\ mem'[r] = mem[r] /\ redeemed'[mem'[r].tok] = 0
               /\ \A c \in Clients : ring'[c].tok # mem'[r].tok
    BY <1>1, <2>1 DEF Moves, Fresh, BroughtIsNew
  <2>2. ASSUME NEW r \in Procs, NEW q \in Procs \ {r}, Bringing(r)', Bringing(q)'
        PROVE  mem'[q].tok # mem'[r].tok
    BY <2>1, <2>2 DEF Fresh, BroughtIsNew
  <2>3. ASSUME NEW r \in Procs, NEW q \in Procs \ {r}, Bringing(r)', pc'[q] = "refresh"
        PROVE  mem'[q].tok # mem'[r].tok
    <3>1. Bringing(r) /\ mem'[r] = mem[r]
      BY <2>1, <2>3
    <3>2. CASE q = p
      BY <2>3, <3>1, <3>2 DEF Moves
    <3>3. CASE q # p
      BY <1>1, <2>3, <3>1, <3>3 DEF Fresh, BroughtIsNew
    <3> QED
      BY <3>2, <3>3
  <2> QED
    BY <2>1, <2>2, <2>3 DEF BroughtIsNew
<1>6. StoredIsUnspent'
  BY <1>1, <1>2 DEF Moves, Fresh, StoredIsUnspent
<1>7. RefreshIsUnspent'
  BY <1>1, <1>2 DEF Moves, Fresh, RefreshIsUnspent
<1>8. ReloadFinds'
  <2>1. ASSUME NEW q \in Procs, pc'[q] \in {"token", "acquire", "reload"}, mem'[q].tok # NoToken
        PROVE  ring'[mem'[q].client].tok # NoToken
    <3>1. mem'[q].tok.owner = mem'[q].client
      BY <1>3, <2>1 DEF TokensNamed
    <3>2. mem'[q].tok \in Token /\ mem'[q].client \in Clients
      BY <2>1, <3>1 DEF TInv, Types, Config, Token
    <3> QED
      BY <1>1, <2>1, <3>2 DEF Moves, Fresh, ReloadFinds
  <2> QED
    BY <2>1 DEF ReloadFinds
<1>9. ReplacesOwn'
  <2>1. Replacing(p)' => mem'[p] = mem[p]
    BY DEF Moves, Bringing, Replacing
  <2> QED
    BY <1>1, <2>1 DEF Moves, Fresh, ReplacesOwn
<1> QED
  BY <1>3, <1>4, <1>5, <1>6, <1>7, <1>8, <1>9 DEF Moves, Fresh

(* The other processes are untouched by a step of one.                     *)
LEMMA OthersStep ==
    ASSUME TInv, NEW p \in Procs, step(p) \/ crash(p) \/ \E k \in Commands : load_session(p, k)
    PROVE  Others(p)
<1>t. Types
  BY DEF TInv
<1> USE DEF goto, files, service, servers, history
<1>1. ASSUME NEW k \in Commands, load_session(p, k) PROVE Others(p)
  BY <1>t, <1>1, MarkAssumption DEF load_session, Types, Others
<1>2. ASSUME NEW c \in Clients, login(p, c) PROVE Others(p)
  BY <1>t, <1>2, MarkAssumption DEF login, Types, Others
<1>3. ASSUME login_fails(p) PROVE Others(p)
  BY <1>t, <1>3, MarkAssumption DEF login_fails, Types, Others
<1>4. ASSUME open_config(p) PROVE Others(p)
  BY <1>t, <1>4, MarkAssumption DEF open_config, Types, Others
<1>5. ASSUME write_config(p) PROVE Others(p)
  BY <1>t, <1>5, MarkAssumption DEF write_config, Types, Others
<1>6. ASSUME save_tokens(p) PROVE Others(p)
  BY <1>t, <1>6, MarkAssumption DEF save_tokens, saved, release_if_held, Types, Others
<1>7. ASSUME write_tokens(p) PROVE Others(p)
  BY <1>t, <1>7, MarkAssumption DEF write_tokens, saved, release_if_held, Types, Others
<1>8. ASSUME store_client_secret(p) PROVE Others(p)
  BY <1>t, <1>8, MarkAssumption DEF store_client_secret, Types, Others
<1>9. ASSUME use_saved_token(p) PROVE Others(p)
  BY <1>t, <1>9, MarkAssumption DEF use_saved_token, Types, Others
<1>10. ASSUME acquire_token_refresh_lock(p) PROVE Others(p)
  BY <1>t, <1>10, MarkAssumption DEF acquire_token_refresh_lock, Types, Others
<1>11. ASSUME reload(p) PROVE Others(p)
  BY <1>t, <1>11, MarkAssumption DEF reload, fail, release_if_held, Types, Others
<1>12. ASSUME refresh(p) PROVE Others(p)
  BY <1>t, <1>12, MarkAssumption DEF refresh, Types, Others
<1>13. ASSUME refresh_fails(p) PROVE Others(p)
  BY <1>t, <1>13, MarkAssumption DEF refresh_fails, fail, release_if_held, Types, Others
<1>14. ASSUME sync(p) PROVE Others(p)
  BY <1>t, <1>14, MarkAssumption DEF sync, Types, Others
<1>15. ASSUME password(p) PROVE Others(p)
  BY <1>t, <1>15, MarkAssumption DEF password, Types, Others
<1>16. ASSUME save_keys(p) PROVE Others(p)
  BY <1>t, <1>16, MarkAssumption DEF save_keys, stores, Types, Others
<1>17. ASSUME write_keys(p) PROVE Others(p)
  BY <1>t, <1>17, MarkAssumption DEF write_keys, stores, Types, Others
<1>18. ASSUME delete_keys(p) PROVE Others(p)
  BY <1>t, <1>18, MarkAssumption DEF delete_keys, Types, Others
<1>19. ASSUME remove_keys_file(p) PROVE Others(p)
  BY <1>t, <1>19, MarkAssumption DEF remove_keys_file, Types, Others
<1>20. ASSUME drop_secret(p) PROVE Others(p)
  BY <1>t, <1>20, MarkAssumption DEF drop_secret, Types, Others
<1>21. ASSUME clear_keys(p) PROVE Others(p)
  BY <1>t, <1>21, MarkAssumption DEF clear_keys, Types, Others
<1>22. ASSUME clear_tokens(p) PROVE Others(p)
  BY <1>t, <1>22, MarkAssumption DEF clear_tokens, Types, Others
<1>23. ASSUME crash(p) PROVE Others(p)
  BY <1>t, <1>23, MarkAssumption DEF crash, fail, release_if_held, Types, Others
<1> QED
  BY <1>1, <1>2, <1>3, <1>4, <1>5, <1>6, <1>7, <1>8, <1>9, <1>10, <1>11, <1>12, <1>13, <1>14, <1>15, <1>16, <1>17, <1>18, <1>19, <1>20, <1>21, <1>22, <1>23 DEF step

(* The tokens the processes and the keyring hold, account by account.      *)
LEMMA Held ==
    ASSUME TInv, Fresh
    PROVE  /\ \A p \in Procs : mem[p].tok # NoToken =>
                /\ mem[p].tok \in Token /\ mem[p].client \in Clients
                /\ mem[p].tok.owner = mem[p].client /\ Issued(mem[p].tok)
           /\ \A c \in Clients : ring[c].tok # NoToken =>
                ring[c].tok \in Token /\ ring[c].tok.owner = c /\ Issued(ring[c].tok)
<1>1. ASSUME NEW p \in Procs, mem[p].tok # NoToken
      PROVE  mem[p].tok \in Token /\ mem[p].tok.owner \in Clients
  BY <1>1 DEF TInv, Types, Config, Token
<1>2. ASSUME NEW c \in Clients, ring[c].tok # NoToken PROVE ring[c].tok \in Token
  BY <1>2 DEF TInv, Types, RingEntry
<1> QED
  BY <1>1, <1>2 DEF Fresh, TokensNamed, TokensIssued

(* Every step but the five below moves no token.                           *)
LEMMA QuietTokens ==
    ASSUME TInv, Fresh, NEW p \in Procs,
           \/ \E k \in Commands : load_session(p, k)
           \/ login_fails(p) \/ open_config(p) \/ write_config(p) \/ store_client_secret(p)
           \/ use_saved_token(p) \/ acquire_token_refresh_lock(p) \/ reload(p) \/ sync(p)
           \/ password(p) \/ save_keys(p) \/ write_keys(p) \/ delete_keys(p)
           \/ remove_keys_file(p) \/ drop_secret(p) \/ clear_keys(p) \/ clear_tokens(p)
    PROVE  Moves(p)
<1>t. Types /\ Control(p) /\ ringUp /\ tokensFile = Absent
  BY DEF TInv, Fresh, TokensNamed
<1>m. mem[p].tok # NoToken =>
        mem[p].tok.owner = mem[p].client /\ Issued(mem[p].tok) /\ mem[p].client \in Clients
  BY Held
<1>r. pc[p] \in {"token", "acquire", "reload"} /\ mem[p].tok # NoToken => ring[mem[p].client].tok # NoToken
  BY DEF Fresh, ReloadFinds
<1>g. ring \in [Clients -> RingEntry]
  BY <1>t DEF Types
<1> USE DEF goto, files, service, servers, history
<1>1. ASSUME NEW k \in Commands, load_session(p, k) PROVE Moves(p)
  <2>1. /\ mem'[p] = load_from_dir /\ pc'[p] = first_step(k, load_from_dir) /\ cmd'[p] = k
        /\ pc[p] = "idle" /\ conf \in Clients \cup {NoClient}
        /\ UNCHANGED <<ringUp, tokensFile, ring, issued, redeemed, lost, redeeming>>
    BY <1>t, <1>1 DEF load_session, Types
  <2>2. pc'[p] \in {"idle", "auth", "delete_keys", "drop_secret", "token"}
    BY <2>1 DEF first_step, Commands
  <2>3. /\ mem'[p].client = conf
        /\ mem'[p].tok = IF conf # NoClient /\ ring[conf].tok # NoToken THEN ring[conf].tok ELSE NoToken
    BY <1>t, <2>1 DEF load_from_dir, load_saved_tokens
  <2>4. mem'[p].tok # NoToken =>
            /\ mem'[p].tok.owner = mem'[p].client /\ Issued(mem'[p].tok)
            /\ ring[mem'[p].client].tok # NoToken
    BY <2>1, <2>3, Held
  <2> QED
    BY <1>t, <2>1, <2>2, <2>4 DEF Moves, Bringing, Replacing, Saving
<1>2. ASSUME login_fails(p) PROVE Moves(p)
  BY <1>t, <1>m, <1>r, <1>2 DEF login_fails, Moves, Types, Issued, Bringing, Replacing, Saving
<1>3. ASSUME open_config(p) PROVE Moves(p)
  BY <1>t, <1>m, <1>r, <1>3 DEF open_config, Moves, Types, Issued, Bringing, Replacing, Saving
<1>4. ASSUME write_config(p) PROVE Moves(p)
  <2>1. /\ pc[p] = "write_config" /\ cmd'[p] = cmd[p] /\ mem'[p] = mem[p] /\ cmd[p] \in Commands
        /\ UNCHANGED <<ringUp, tokensFile, ring, issued, redeemed, lost, redeeming>>
        /\ pc'[p] = IF mem[p].tok # NoToken THEN "save_tokens" ELSE "idle"
    BY <1>t, <1>4 DEF write_config, Types
  <2>2. cmd[p] # "logout" => mem[p].tok # NoToken
    BY <1>t, <2>1, NoTokenDiffers DEF Control, ConfigOfStep, Saving
  <2>3. cmd[p] = "logout" => mem[p].tok = NoToken
    BY <1>t, <2>1 DEF Control, ConfigOfStep, Blank
  <2>4. /\ Bringing(p)' => Bringing(p)
        /\ Replacing(p)' <=> Replacing(p)
    BY <2>1, <2>2, <2>3 DEF Bringing, Replacing, Saving
  <2> QED
    BY <1>t, <1>m, <2>1, <2>4 DEF Moves
<1>5. ASSUME store_client_secret(p) PROVE Moves(p)
  <2>1. ring' = ring \/ ring' = [ring EXCEPT ![mem[p].client].secret = TRUE]
    BY <1>5 DEF store_client_secret
  <2>2. \A c \in Clients : ring'[c].tok = ring[c].tok
    BY <1>g, <2>1 DEF RingEntry
  <2> QED
    BY <1>t, <1>m, <1>5, <2>2 DEF store_client_secret, Moves, Types, Bringing, Replacing, Saving
<1>6. ASSUME use_saved_token(p) PROVE Moves(p)
  BY <1>t, <1>m, <1>r, <1>6 DEF use_saved_token, after_token, Moves, Types, Issued, Bringing, Replacing, Saving
<1>7. ASSUME acquire_token_refresh_lock(p) PROVE Moves(p)
  BY <1>t, <1>m, <1>r, <1>7 DEF acquire_token_refresh_lock, Moves, Types, Issued, Bringing, Replacing, Saving
<1>8. ASSUME reload(p) PROVE Moves(p)
  <2> DEFINE c == mem[p].client
  <2>1. mem[p].tok # NoToken /\ c \in Clients /\ ring[c].tok # NoToken /\ mem[p] \in Config /\ c # NoClient
    BY <1>t, <1>m, <1>r, <1>8, NoTokenDiffers, ClientAssumption DEF reload, Control, ConfigOfStep, Types
  <2>2. load_saved_tokens(c, mem[p].tok) = ring[c].tok /\ ~reload_fails(c)
    BY <1>t, <2>1 DEF load_saved_tokens, reload_fails
  <2>3. mem'[p] = [mem[p] EXCEPT !.tok = ring[c].tok]
    BY <1>t, <1>8, <2>2 DEF reload, Types
  <2>4. mem'[p].tok = ring[c].tok /\ mem'[p].client = c
    BY <2>1, <2>3 DEF Config
  <2>5. ring[c].tok.owner = c /\ Issued(ring[c].tok)
    BY <2>1, Held
  <2>6. /\ pc[p] = "reload" /\ pc'[p] \in {"refresh", "password", "sync"}
        /\ UNCHANGED <<ringUp, tokensFile, ring, issued, redeemed, lost, redeeming>>
    BY <1>t, <1>8, <2>2 DEF reload, after_token, Types
  <2>7. Unspent(ring[c].tok)
    <3>1. ASSUME NEW q \in Procs, Replacing(q) PROVE FALSE
      <4>1. refreshLock = p /\ refreshLock = q
        BY <2>6, <3>1 DEF TInv, Control, HoldsLock, Replacing
      <4> QED
        BY <2>6, <3>1, <4>1 DEF Replacing, Saving
    <3> QED
      BY <2>1, <3>1 DEF Fresh, StoredIsUnspent
  <2>8. \A q \in Procs : Bringing(q) => mem[q].tok # ring[c].tok
    BY <2>1 DEF Fresh, BroughtIsNew
  <2> HIDE DEF c
  <2> QED
    BY <1>t, <2>1, <2>4, <2>5, <2>6, <2>7, <2>8 DEF Moves, Bringing, Replacing, Saving
<1>9. ASSUME sync(p) PROVE Moves(p)
  BY <1>t, <1>m, <1>r, <1>9 DEF sync, Moves, Types, Issued, Bringing, Replacing, Saving
<1>10. ASSUME password(p) PROVE Moves(p)
  <2>1. mem'[p].client = mem[p].client /\ mem'[p].tok = mem[p].tok
    BY <1>t, <1>10 DEF password, Types, Config
  <2> QED
    BY <1>t, <1>m, <1>10, <2>1 DEF password, Moves, Types, Bringing, Replacing, Saving
<1>11. ASSUME save_keys(p) PROVE Moves(p)
  <2>1. ring' = ring \/ ring' = [ring EXCEPT ![mem[p].client].keys = TRUE]
    BY <1>11 DEF save_keys
  <2>2. \A c \in Clients : ring'[c].tok = ring[c].tok
    BY <1>g, <2>1 DEF RingEntry
  <2> QED
    BY <1>t, <1>m, <1>11, <2>2 DEF save_keys, Moves, Types, Bringing, Replacing, Saving
<1>12. ASSUME write_keys(p) PROVE Moves(p)
  BY <1>t, <1>m, <1>r, <1>12 DEF write_keys, Moves, Types, Issued, Bringing, Replacing, Saving
<1>13. ASSUME delete_keys(p) PROVE Moves(p)
  <2>1. ring' = ring \/ ring' = [ring EXCEPT ![mem[p].client].keys = FALSE]
    BY <1>13 DEF delete_keys
  <2>2. \A c \in Clients : ring'[c].tok = ring[c].tok
    BY <1>g, <2>1 DEF RingEntry
  <2> QED
    BY <1>t, <1>m, <1>13, <2>2 DEF delete_keys, Moves, Types, Bringing, Replacing, Saving
<1>14. ASSUME remove_keys_file(p) PROVE Moves(p)
  BY <1>t, <1>m, <1>r, <1>14 DEF remove_keys_file, Moves, Types, Issued, Bringing, Replacing, Saving
<1>15. ASSUME drop_secret(p) PROVE Moves(p)
  <2>1. ring' = ring \/ ring' = [ring EXCEPT ![mem[p].client].secret = FALSE]
    BY <1>15 DEF drop_secret
  <2>2. \A c \in Clients : ring'[c].tok = ring[c].tok
    BY <1>g, <2>1 DEF RingEntry
  <2> QED
    BY <1>t, <1>m, <1>15, <2>2 DEF drop_secret, Moves, Types, Bringing, Replacing, Saving
<1>16. ASSUME clear_keys(p) PROVE Moves(p)
  <2>1. mem'[p].tok = NoToken
    BY <1>t, <1>16 DEF clear_keys, Types, Blank
  <2> QED
    BY <1>t, <1>16, <2>1 DEF clear_keys, Moves, Types, Bringing, Replacing, Saving
<1>17. ASSUME clear_tokens(p) PROVE Moves(p)
  <2>1. cmd[p] = "logout" /\ cmd'[p] = "logout"
    BY <1>t, <1>17 DEF clear_tokens, Types, Control, StepOfCommand
  <2> QED
    BY <1>t, <1>m, <1>17, <2>1 DEF clear_tokens, Moves, Types, Bringing, Replacing, Saving
<1> QED
  BY <1>1, <1>2, <1>3, <1>4, <1>5, <1>6, <1>7, <1>8, <1>9, <1>10, <1>11, <1>12, <1>13, <1>14, <1>15, <1>16, <1>17

(* A server issues u to p: at a login, or for the token t that p redeems.  *)
LEMMA IssueStep ==
    ASSUME TInv, TInv', Fresh, NEW p \in Procs, Others(p),
           NEW c \in Clients, NEW u \in Token, u.owner = c, u.n = issued[c] + 1,
           issued' = [issued EXCEPT ![c] = @ + 1],
           mem'[p].tok = u, mem'[p].client = c, pc'[p] = "open_config", cmd'[p] = cmd[p],
           UNCHANGED <<ringUp, tokensFile, ring, lost>>,
           \/ /\ pc[p] = "auth" /\ UNCHANGED <<redeemed, redeeming>>
           \/ /\ pc[p] = "refresh" /\ mem[p].tok.owner = c
              /\ redeemed' = [redeemed EXCEPT ![mem[p].tok] = @ + 1]
              /\ redeeming' = [redeeming EXCEPT ![p] = mem[p].tok]
    PROVE  Fresh'
<1> DEFINE t == mem[p].tok
<1>t. Types /\ Control(p)
  BY DEF TInv
<1>1. \A x \in Token : Issued(x) => Issued(x)' /\ x # u
  BY <1>t DEF Issued, Types, Token
<1>2. Issued(u)'
  BY <1>t DEF Issued, Types
<1>3. \A q \in Procs \ {p} :
        /\ pc'[q] = pc[q] /\ cmd'[q] = cmd[q] /\ mem'[q] = mem[q] /\ redeeming'[q] = redeeming[q]
        /\ Bringing(q)' <=> Bringing(q)
        /\ Replacing(q)' <=> Replacing(q)
  BY DEF Others, Bringing, Replacing
<1>4. /\ pc[p] = "refresh" => t \in Token /\ Issued(t) /\ Unspent(t) /\ cmd[p] \in {"unlock", "use"}
      /\ pc[p] = "auth" => cmd[p] = "login"
      /\ ~Bringing(p) /\ ~Replacing(p)
  BY <1>t, Held, NoTokenDiffers DEF Control, StepOfCommand, ConfigOfStep, Fresh, RefreshIsUnspent,
     Bringing, Replacing, Saving
<1>5. /\ Bringing(p)'
      /\ Replacing(p)' <=> pc[p] = "refresh"
      /\ pc[p] = "refresh" => redeeming'[p] = t
  BY <1>t, <1>4 DEF Bringing, Replacing, Saving, Types
<1>6. \A x \in Token : redeemed'[x] = redeemed[x] \/ (x = t /\ pc[p] = "refresh" /\ redeemed'[x] = redeemed[x] + 1)
  BY <1>t, <1>4 DEF Types
<1>7. redeemed'[u] = 0
  <2>1. redeemed[u] = 0
    BY <1>1, <1>t DEF Fresh, TokensIssued, Types
  <2>2. pc[p] = "refresh" => u # t
    BY <1>1, <1>4
  <2> QED
    BY <1>6, <2>1, <2>2
<1>8. TokensNamed'
  BY <1>3 DEF Fresh, TokensNamed
<1>9. TokensIssued'
  <2>1. ASSUME NEW q \in Procs, mem'[q].tok # NoToken PROVE Issued(mem[q].tok)'
    <3>1. CASE q = p
      BY <1>2, <3>1 DEF Issued
    <3>2. CASE q # p
      BY <1>1, <1>3, <2>1, <3>2, Held DEF Issued
    <3> QED
      BY <3>1, <3>2
  <2>2. ASSUME NEW d \in Clients, ring'[d].tok # NoToken PROVE Issued(ring[d].tok)'
    BY <1>1, <2>2, Held DEF Issued
  <2>3. \A x \in Token : redeemed'[x] > 0 => Issued(x)'
    BY <1>1, <1>4, <1>6 DEF Fresh, TokensIssued
  <2> QED
    BY <2>1, <2>2, <2>3 DEF TokensIssued
<1>10. BroughtIsNew'
  <2>1. \A d \in Clients : ring[d].tok # u
    BY <1>1, Held, NoTokenDiffers
  <2>2. \A q \in Procs \ {p} : mem[q].tok # u
    BY <1>1, Held, NoTokenDiffers
  <2>3. ASSUME NEW r \in Procs \ {p}, Bringing(r)
        PROVE  mem[r].tok \in Token /\ redeemed'[mem[r].tok] = 0
    <3>1. mem[r].tok \in Token /\ redeemed[mem[r].tok] = 0
      BY <2>3 DEF TInv, Control, ConfigOfStep, Bringing, Fresh, BroughtIsNew
    <3>2. pc[p] = "refresh" => mem[r].tok # t
      BY <2>3 DEF Fresh, BroughtIsNew
    <3> QED
      BY <1>6, <3>1, <3>2
  <2>4. ASSUME NEW r \in Procs \ {p}, Bringing(r)'
        PROVE  /\ redeemed'[mem'[r].tok] = 0
               /\ \A d \in Clients : ring'[d].tok # mem'[r].tok
               /\ \A q \in Procs \ {r} : Bringing(q)' \/ pc'[q] = "refresh" => mem'[q].tok # mem'[r].tok
    <3>1. Bringing(r) /\ mem'[r] = mem[r]
      BY <1>3, <2>4
    <3> QED
      BY <1>3, <2>2, <2>3, <3>1 DEF Fresh, BroughtIsNew
  <2>5. /\ redeemed'[mem'[p].tok] = 0
        /\ \A d \in Clients : ring'[d].tok # mem'[p].tok
        /\ \A q \in Procs \ {p} : mem'[q].tok # mem'[p].tok
    BY <1>3, <1>7, <2>1, <2>2
  <2> QED
    BY <2>4, <2>5 DEF BroughtIsNew
<1>11. StoredIsUnspent'
  <2>1. ASSUME NEW d \in Clients, ring[d].tok # NoToken
        PROVE  \/ Unspent(ring[d].tok)'
               \/ \E q \in Procs : Replacing(q)' /\ redeeming'[q] = ring[d].tok
    <3>1. ring[d].tok \in Token
      BY <2>1, Held
    <3>2. CASE ring[d].tok = t /\ pc[p] = "refresh"
      BY <1>5, <3>2
    <3>3. CASE ~(ring[d].tok = t /\ pc[p] = "refresh") /\ Unspent(ring[d].tok)
      BY <1>6, <3>1, <3>3 DEF Unspent
    <3>4. CASE \E q \in Procs : Replacing(q) /\ redeeming[q] = ring[d].tok
      BY <1>3, <1>4, <3>4
    <3> QED
      BY <2>1, <3>2, <3>3, <3>4 DEF Fresh, StoredIsUnspent
  <2> QED
    BY <2>1 DEF StoredIsUnspent
<1>12. RefreshIsUnspent'
  <2>1. ASSUME NEW q \in Procs, pc'[q] = "refresh" PROVE Unspent(mem[q].tok)'
    <3>1. q # p /\ pc[q] = "refresh" /\ mem'[q] = mem[q]
      BY <1>3, <2>1
    <3>2. pc[p] # "refresh"
      BY <3>1 DEF TInv, Control, HoldsLock
    <3>3. redeemed' = redeemed
      BY <3>2
    <3> QED
      BY <3>1, <3>3 DEF Fresh, RefreshIsUnspent, Unspent
  <2> QED
    BY <2>1 DEF RefreshIsUnspent
<1>13. ReloadFinds'
  BY <1>3 DEF Fresh, ReloadFinds
<1>14. ReplacesOwn'
  BY <1>3, <1>5 DEF Fresh, ReplacesOwn
<1>15. \A x \in Token : redeemed'[x] > 1 => x \in lost'
  <2>1. ASSUME NEW x \in Token, redeemed'[x] > 1 PROVE x \in lost
    <3>1. CASE redeemed'[x] = redeemed[x]
      BY <2>1, <3>1 DEF Fresh
    <3>2. CASE x = t /\ pc[p] = "refresh" /\ redeemed'[x] = redeemed[x] + 1
      BY <1>4, <2>1, <3>2 DEF Unspent
    <3> QED
      BY <1>6, <3>1, <3>2
  <2> QED
    BY <2>1
<1> QED
  BY <1>8, <1>9, <1>10, <1>11, <1>12, <1>13, <1>14, <1>15 DEF Fresh

(* The keyring takes over the token p was bringing.                        *)
LEMMA SaveStep ==
    ASSUME TInv, TInv', Fresh, NEW p \in Procs, Others(p), save_tokens(p)
    PROVE  Fresh'
<1> DEFINE u == mem[p].tok
           c == mem[p].client
<1>t. Types /\ Control(p) /\ ringUp
  BY DEF TInv, Fresh, TokensNamed
<1>1. /\ pc[p] = "save_tokens" /\ cmd[p] \in {"login", "unlock", "use"} /\ cmd' = cmd /\ mem' = mem
      /\ UNCHANGED <<ringUp, issued, redeemed, lost, redeeming>> /\ tokensFile' = Absent
      /\ ring' = [ring EXCEPT ![c].tok = u]
      /\ pc'[p] \in {"store_secret", "password", "sync"}
  BY <1>t DEF save_tokens, saved, after_token, goto, service, servers, history, Types, Control, StepOfCommand
<1>2. u \in Token /\ u # NoToken /\ Bringing(p)
  BY <1>t, <1>1, NoTokenDiffers DEF Control, ConfigOfStep, Bringing, Saving
<1>3. c \in Clients /\ u.owner = c /\ Issued(u)
  BY <1>2, Held
<1>4. ring'[c].tok = u /\ \A d \in Clients \ {c} : ring'[d].tok = ring[d].tok
  BY <1>t, <1>1, <1>3 DEF Types, RingEntry
<1>5. \A q \in Procs \ {p} :
        /\ pc'[q] = pc[q]
        /\ Bringing(q)' <=> Bringing(q)
        /\ Replacing(q)' <=> Replacing(q)
  BY DEF Others, Bringing, Replacing
<1>6. ~Bringing(p)' /\ ~Replacing(p)'
  BY <1>1 DEF Bringing, Replacing, Saving
<1>7. \A x : (Issued(x)' <=> Issued(x)) /\ (Unspent(x)' <=> Unspent(x))
  BY <1>1 DEF Issued, Unspent
<1> HIDE DEF u, c
<1>8. TokensNamed'
  BY <1>t, <1>1, <1>3, <1>4, <1>5 DEF Fresh, TokensNamed
<1>9. TokensIssued'
  BY <1>1, <1>3, <1>4, <1>7 DEF Fresh, TokensIssued
<1>10. BroughtIsNew'
  <2>1. ASSUME NEW r \in Procs, Bringing(r)'
        PROVE  /\ r # p /\ Bringing(r)
               /\ \A d \in Clients : ring'[d].tok # mem[r].tok
    <3>1. r # p /\ Bringing(r)
      BY <1>5, <1>6, <2>1
    <3>2. u # mem[r].tok
      BY <1>2, <3>1 DEF Fresh, BroughtIsNew, u
    <3> QED
      BY <1>4, <3>1, <3>2 DEF Fresh, BroughtIsNew
  <2>2. ASSUME NEW r \in Procs, NEW q \in Procs \ {r}, Bringing(r)', Bringing(q)' \/ pc'[q] = "refresh"
        PROVE  mem'[q].tok # mem'[r].tok
    BY <1>1, <1>5, <1>6, <2>1, <2>2 DEF Fresh, BroughtIsNew
  <2> QED
    BY <1>1, <2>1, <2>2 DEF Fresh, BroughtIsNew
<1>11. StoredIsUnspent'
  <2>1. ASSUME NEW d \in Clients, ring'[d].tok # NoToken
        PROVE  \/ Unspent(ring'[d].tok)
               \/ \E q \in Procs : Replacing(q)' /\ redeeming[q] = ring'[d].tok
    <3>1. CASE d = c
      BY <1>2, <1>4, <3>1 DEF Fresh, BroughtIsNew, Unspent, u
    <3>2. CASE d # c
      <4>1. ring'[d].tok = ring[d].tok /\ ring[d].tok.owner = d
        BY <1>4, <2>1, <3>2, Held
      <4>2. ASSUME Replacing(p) PROVE redeeming[p] # ring[d].tok
        BY <3>2, <4>1, <4>2 DEF Fresh, ReplacesOwn, c
      <4> QED
        BY <1>5, <2>1, <4>1, <4>2 DEF Fresh, StoredIsUnspent
    <3> QED
      BY <3>1, <3>2
  <2> QED
    BY <1>1, <1>7, <2>1 DEF StoredIsUnspent
<1>12. RefreshIsUnspent'
  BY <1>1, <1>5, <1>7 DEF Fresh, RefreshIsUnspent
<1>13. ReloadFinds'
  <2>1. ASSUME NEW q \in Procs, pc'[q] \in {"token", "acquire", "reload"}, mem'[q].tok # NoToken
        PROVE  ring'[mem'[q].client].tok # NoToken
    <3>1. pc'[q] = pc[q] /\ mem'[q] = mem[q] /\ mem[q].client \in Clients
      BY <1>1, <1>5, <2>1, Held
    <3>2. ring[mem[q].client].tok # NoToken
      BY <2>1, <3>1 DEF Fresh, ReloadFinds
    <3> QED
      BY <1>2, <1>4, <3>1, <3>2
  <2> QED
    BY <2>1 DEF ReloadFinds
<1>14. ReplacesOwn'
  BY <1>1, <1>5, <1>6 DEF Fresh, ReplacesOwn
<1> QED
  BY <1>1, <1>8, <1>9, <1>10, <1>11, <1>12, <1>13, <1>14 DEF Fresh

(* A token is lost: the answer to its refresh did not arrive, or p was     *)
(* killed before its successor was stored.                                 *)
LEMMA LoseStep ==
    ASSUME TInv, TInv', Fresh, NEW p \in Procs, Others(p), pc'[p] = "idle", NEW x \in Token,
           lost' = lost \cup {x}, UNCHANGED <<ringUp, tokensFile, ring, mem, cmd, issued, redeeming>>,
           \/ Replacing(p) /\ redeeming[p] = x /\ UNCHANGED redeemed
           \/ /\ pc[p] = "refresh" /\ mem[p].tok = x
              /\ redeemed' = [redeemed EXCEPT ![x] = @ + 1]
    PROVE  Fresh'
<1>t. Types
  BY DEF TInv
<1>1. \A q \in Procs \ {p} :
        /\ pc'[q] = pc[q]
        /\ Bringing(q)' <=> Bringing(q)
        /\ Replacing(q)' <=> Replacing(q)
  BY DEF Others, Bringing, Replacing
<1>2. ~Bringing(p)' /\ ~Replacing(p)'
  BY DEF Bringing, Replacing, Saving
<1>3. \A y \in Token : redeemed'[y] = redeemed[y] \/ (y = x /\ pc[p] = "refresh")
  BY <1>t DEF Types
<1>4. \A y \in Token : Unspent(y) \/ y = x => Unspent(y)'
  BY <1>3 DEF Unspent
<1>5. TokensNamed'
  BY <1>1 DEF Fresh, TokensNamed
<1>6. TokensIssued'
  <2>1. pc[p] = "refresh" => Issued(mem[p].tok)
    BY Held, NoTokenDiffers DEF TInv, Control, ConfigOfStep
  <2>2. \A y \in Token : redeemed'[y] > 0 => Issued(y)
    BY <1>3, <2>1 DEF Fresh, TokensIssued
  <2> QED
    BY <2>2 DEF Fresh, TokensIssued, Issued
<1>7. BroughtIsNew'
  <2>1. ASSUME NEW r \in Procs, Bringing(r)'
        PROVE  r # p /\ Bringing(r) /\ redeemed'[mem[r].tok] = 0
    <3>1. r # p /\ Bringing(r)
      BY <1>1, <1>2, <2>1
    <3>2. mem[r].tok \in Token /\ redeemed[mem[r].tok] = 0
      BY <3>1 DEF TInv, Control, ConfigOfStep, Bringing, Fresh, BroughtIsNew
    <3>3. pc[p] = "refresh" => mem[r].tok # mem[p].tok
      BY <3>1 DEF Fresh, BroughtIsNew
    <3>4. pc[p] = "refresh" => ~Replacing(p)
      BY DEF Replacing, Saving
    <3> QED
      BY <1>3, <3>1, <3>2, <3>3, <3>4
  <2>2. ASSUME NEW r \in Procs, NEW q \in Procs \ {r}, Bringing(r)', Bringing(q)' \/ pc'[q] = "refresh"
        PROVE  mem'[q].tok # mem'[r].tok
    BY <1>1, <1>2, <2>1, <2>2 DEF Fresh, BroughtIsNew
  <2> QED
    BY <2>1, <2>2 DEF Fresh, BroughtIsNew
<1>8. StoredIsUnspent'
  <2>1. ASSUME NEW d \in Clients, ring[d].tok # NoToken
        PROVE  \/ Unspent(ring[d].tok)'
               \/ \E q \in Procs : Replacing(q)' /\ redeeming[q] = ring[d].tok
    <3>1. ring[d].tok \in Token
      BY <2>1, Held
    <3>2. Replacing(p) => redeeming[p] = x
      BY DEF Replacing, Saving
    <3> QED
      BY <1>1, <1>4, <2>1, <3>1, <3>2 DEF Fresh, StoredIsUnspent
  <2> QED
    BY <2>1 DEF StoredIsUnspent
<1>9. RefreshIsUnspent'
  <2>1. ASSUME NEW q \in Procs, pc'[q] = "refresh" PROVE Unspent(mem[q].tok)'
    <3>1. pc[q] = "refresh" /\ mem[q].tok \in Token
      BY <1>1, <2>1 DEF TInv, Control, ConfigOfStep
    <3> QED
      BY <1>4, <3>1 DEF Fresh, RefreshIsUnspent
  <2> QED
    BY <2>1 DEF RefreshIsUnspent
<1>10. ReloadFinds' /\ ReplacesOwn'
  BY <1>1, <1>2 DEF Fresh, ReloadFinds, ReplacesOwn
<1>11. \A y \in Token : redeemed'[y] > 1 => y \in lost'
  BY <1>3 DEF Fresh
<1> QED
  BY <1>5, <1>6, <1>7, <1>8, <1>9, <1>10, <1>11 DEF Fresh

(* Every step while the keyring answers.                                   *)
LEMMA FreshStep == TInv /\ FInv /\ [Next]_vars => FInv'
<1> SUFFICES ASSUME TInv, FInv, [Next]_vars, steady' PROVE Fresh'
  BY DEF FInv
<1>t. TInv' /\ Types /\ \A p \in Procs : Control(p)
  BY ControlStep DEF TInv
<1>s. steady
  <2>1. ASSUME NEW p \in Procs, step(p) \/ crash(p) \/ \E k \in Commands : load_session(p, k)
        PROVE  UNCHANGED service
    BY <2>1 DEF step, load_session, login, login_fails, open_config, write_config, save_tokens,
       write_tokens, store_client_secret, use_saved_token, acquire_token_refresh_lock, reload, refresh,
       refresh_fails, sync, password, save_keys, write_keys, delete_keys, remove_keys_file,
       drop_secret, clear_keys, clear_tokens, crash
  <2>2. ASSUME NEW t \in Token, expire(t) PROVE UNCHANGED service
    BY <2>2 DEF expire
  <2>3. keyring_service => ~steady'
    BY Zenon DEF keyring_service
  <2>4. UNCHANGED vars => UNCHANGED service
    BY DEF vars
  <2>5. UNCHANGED service
    BY <2>1, <2>2, <2>3, <2>4 DEF Next
  <2> QED
    BY <2>5, Zenon DEF service
<1>f. Fresh
  BY <1>s DEF FInv
<1> USE DEF files, service, servers, history
<1>1. ASSUME NEW p \in Procs,
             \/ \E k \in Commands : load_session(p, k)
             \/ login_fails(p) \/ open_config(p) \/ write_config(p) \/ store_client_secret(p)
             \/ use_saved_token(p) \/ acquire_token_refresh_lock(p) \/ reload(p) \/ sync(p)
             \/ password(p) \/ save_keys(p) \/ write_keys(p) \/ delete_keys(p)
             \/ remove_keys_file(p) \/ drop_secret(p) \/ clear_keys(p) \/ clear_tokens(p)
      PROVE  Fresh'
  <2>1. Others(p)
    BY <1>1, OthersStep DEF step
  <2>2. Moves(p)
    BY <1>1, <1>f, QuietTokens
  <2> QED
    BY <1>t, <1>f, <2>1, <2>2, MovesStep
<1>2. ASSUME NEW p \in Procs, NEW c \in Clients, login(p, c) PROVE Fresh'
  <2> DEFINE u == [owner |-> c, n |-> issued'[c]]
  <2>1. Others(p)
    BY <1>2, OthersStep DEF step
  <2>2. issued' = [issued EXCEPT ![c] = @ + 1] /\ issued'[c] = issued[c] + 1 /\ issued[c] \in 0..MaxTokens
    BY <1>t, <1>2 DEF login, Types
  <2>3. u \in Token /\ u.owner = c /\ u.n = issued[c] + 1
    BY <1>2, <2>2, BoundAssumption DEF login, Token
  <2>4. mem'[p].tok = u /\ mem'[p].client = c
    <3>1. mem[p] \in Config
      BY <1>t DEF Types
    <3>2. mem'[p] = [[mem[p] EXCEPT !.client = c] EXCEPT !.tok = u]
      BY <1>t, <1>2 DEF login, Types
    <3> QED
      BY <3>1, <3>2 DEF Config
  <2>5. /\ pc'[p] = "open_config" /\ cmd'[p] = cmd[p] /\ pc[p] = "auth"
        /\ UNCHANGED <<ringUp, tokensFile, ring, lost, redeemed, redeeming>>
    BY <1>t, <1>2 DEF login, goto, Types
  <2> HIDE DEF u
  <2> QED
    BY <1>t, <1>f, <2>1, <2>2, <2>3, <2>4, <2>5, IssueStep
<1>3. ASSUME NEW p \in Procs, refresh(p) PROVE Fresh'
  <2> DEFINE t == mem[p].tok
             c == t.owner
             u == [owner |-> c, n |-> issued'[c]]
  <2>1. Others(p)
    BY <1>3, OthersStep DEF step
  <2>2. t \in Token /\ c \in Clients /\ mem[p].client = c
    BY <1>t, <1>3, <1>f, Held, NoTokenDiffers DEF refresh, Control, ConfigOfStep
  <2>3. issued' = [issued EXCEPT ![c] = @ + 1] /\ issued'[c] = issued[c] + 1 /\ issued[c] \in 0..MaxTokens
    BY <1>t, <1>3, <2>2 DEF refresh, Types
  <2>4. u \in Token /\ u.owner = c /\ u.n = issued[c] + 1
    BY <1>3, <2>2, <2>3, BoundAssumption DEF refresh, Token
  <2>5. mem'[p].tok = u /\ mem'[p].client = c
    BY <1>t, <1>3, <2>2 DEF refresh, Types, Config
  <2>6. /\ pc'[p] = "open_config" /\ cmd'[p] = cmd[p] /\ pc[p] = "refresh"
        /\ UNCHANGED <<ringUp, tokensFile, ring, lost>>
        /\ redeemed' = [redeemed EXCEPT ![t] = @ + 1] /\ redeeming' = [redeeming EXCEPT ![p] = t]
    BY <1>t, <1>3 DEF refresh, goto, Types
  <2> HIDE DEF u
  <2> QED
    BY <1>t, <1>f, <2>1, <2>2, <2>3, <2>4, <2>5, <2>6, IssueStep
<1>4. ASSUME NEW p \in Procs, save_tokens(p) PROVE Fresh'
  <2>1. Others(p)
    BY <1>4, OthersStep DEF step
  <2> QED
    BY <1>t, <1>4, <1>f, <2>1, SaveStep
<1>5. ASSUME NEW p \in Procs, write_tokens(p) PROVE Fresh'
  BY <1>5, <1>f DEF write_tokens, Fresh, TokensNamed
<1>6. ASSUME NEW p \in Procs, refresh_fails(p) PROVE Fresh'
  <2>1. Others(p)
    BY <1>6, OthersStep DEF step
  <2>2. /\ pc[p] = "refresh" /\ pc'[p] = "idle" /\ mem[p].tok \in Token
        /\ UNCHANGED <<ringUp, tokensFile, ring, mem, cmd, issued, redeeming>>
    BY <1>t, <1>6 DEF refresh_fails, fail, goto, Types, Control, ConfigOfStep
  <2>3. CASE UNCHANGED <<redeemed, lost>>
    <3>1. mem[p].tok # NoToken => mem[p].tok.owner = mem[p].client /\ Issued(mem[p].tok)
      BY <1>f, Held
    <3>2. Moves(p)
      BY <1>f, <2>2, <2>3, <3>1 DEF Moves, Bringing, Replacing, Saving, Fresh, TokensNamed
    <3> QED
      BY <1>t, <1>f, <2>1, <3>2, MovesStep
  <2>4. CASE redeemed' = [redeemed EXCEPT ![mem[p].tok] = @ + 1] /\ lost' = lost \cup {mem[p].tok}
    BY <1>t, <1>f, <2>1, <2>2, <2>4, LoseStep
  <2> QED
    BY <1>6, <2>3, <2>4 DEF refresh_fails
<1>7. ASSUME NEW p \in Procs, crash(p) PROVE Fresh'
  <2>1. Others(p)
    BY <1>7, OthersStep
  <2>2. /\ pc'[p] = "idle" /\ UNCHANGED <<ringUp, tokensFile, ring, mem, cmd, issued, redeemed, redeeming>>
        /\ lost' = IF Replacing(p) THEN lost \cup {redeeming[p]} ELSE lost
    BY <1>t, <1>7 DEF crash, fail, goto, Types, Replacing, Saving
  <2>3. CASE Replacing(p)
    <3>1. redeeming[p] \in Token
      BY <1>t, <2>3 DEF Control, ConfigOfStep, Replacing
    <3> QED
      BY <1>t, <1>f, <2>1, <2>2, <2>3, <3>1, LoseStep
  <2>4. CASE ~Replacing(p)
    <3>1. mem[p].tok # NoToken => mem[p].tok.owner = mem[p].client /\ Issued(mem[p].tok)
      BY <1>f, Held
    <3>2. Moves(p)
      BY <1>f, <2>2, <2>4, <3>1 DEF Moves, Bringing, Replacing, Saving, Fresh, TokensNamed
    <3> QED
      BY <1>t, <1>f, <2>1, <3>2, MovesStep
  <2> QED
    BY <2>3, <2>4
<1>8. ASSUME NEW t \in Token, expire(t) PROVE Fresh'
  BY <1>8, <1>f, FreshUnchanged DEF expire, tokens
<1>9. ASSUME keyring_service PROVE Fresh'
  BY <1>9 DEF keyring_service
<1>10. ASSUME UNCHANGED vars PROVE Fresh'
  BY <1>10, <1>f, FreshUnchanged DEF vars, tokens
<1> QED
  BY <1>1, <1>2, <1>3, <1>4, <1>5, <1>6, <1>7, <1>8, <1>9, <1>10 DEF Next, step

LEMMA FreshInit == Init => FInv
<1> SUFFICES ASSUME Init, steady PROVE Fresh
  BY DEF FInv
<1>1. ringUp
  BY Zenon DEF Init
<1>2. /\ tokensFile = Absent /\ ring = [c \in Clients |-> [keys |-> FALSE, tok |-> NoToken, secret |-> FALSE]]
      /\ pc = [p \in Procs |-> "idle"] /\ mem = [p \in Procs |-> Blank]
      /\ redeemed = [t \in Token |-> 0]
  BY DEF Init
<1>3. TokensNamed /\ TokensIssued
  BY <1>1, <1>2 DEF TokensNamed, TokensIssued, Blank
<1>4. BroughtIsNew /\ StoredIsUnspent /\ RefreshIsUnspent /\ ReloadFinds /\ ReplacesOwn
  BY <1>2 DEF BroughtIsNew, StoredIsUnspent, RefreshIsUnspent, ReloadFinds, ReplacesOwn, Bringing,
     Replacing, Saving
<1> QED
  BY <1>2, <1>3, <1>4 DEF Fresh

-----------------------------------------------------------------------------
(* Theorems.                                                               *)

(* Whichever commands run, fail or are killed, the shared files, the       *)
(* keyring and every process's configuration stay well formed, and         *)
(* token-refresh.lock is held exactly through the reload, the refresh and  *)
(* the save that follows it (acquire_token_refresh_lock and the guard's    *)
(* drop): no path out of ensure_valid_token leaks it.                      *)
THEOREM TypeCorrect == Spec => []TypeOK
<1>1. TInv => TypeOK
  BY DEF TInv, Types, Control, HoldsLock, Saving, TypeOK, Config, RingEntry
<1> QED
  BY <1>1, ControlInvariance, PTL

(* Once lock has returned, the keys of that account are in neither the     *)
(* keyring nor keys.json until an unlock stores them again, for any number *)
(* of commands in flight.                                                  *)
THEOREM LockedStaysLocked == Spec => []LockHolds
<1>1. Init => LInv
  BY LockInit
<1>2. TInv /\ LInv /\ [Next]_vars => LInv'
  BY LockStep
<1>3. LInv => LockHolds
  BY DEF LInv
<1> QED
  BY <1>1, <1>2, <1>3, ControlInvariance, PTL DEF Spec

(* While the keyring answers, what load_session, reload and refresh hold   *)
(* is as Fresh says.                                                       *)
LEMMA FreshInvariance == Spec => []FInv
BY FreshInit, FreshStep, ControlInvariance, PTL DEF Spec

(* While the keyring answers, no command sends one account's token to the  *)
(* server of another, whoever logs in or out between its load and its      *)
(* request.                                                                *)
THEOREM TokenStaysHome == Spec => []TokenGoesToItsIssuer
<1>1. TInv /\ FInv => TokenGoesToItsIssuer
  <2> SUFFICES ASSUME TInv, Fresh, NEW p \in Procs, pc[p] \in {"refresh", "sync"}
               PROVE  mem[p].tok.owner = mem[p].client
    BY DEF FInv, TokenGoesToItsIssuer
  <2>1. mem[p].tok # NoToken
    BY NoTokenDiffers DEF TInv, Control, ConfigOfStep
  <2> QED
    BY <2>1, Held
<1> QED
  BY <1>1, ControlInvariance, FreshInvariance, PTL

(* While the keyring answers, a refresh token is redeemed a second time    *)
(* only if the successor its first redemption brought was lost: the reload *)
(* under the lock is enough, although login and load_session take no lock. *)
THEOREM RefreshOnce == Spec => []RefreshedOnce
<1>1. FInv => RefreshedOnce
  BY DEF FInv, Fresh, RefreshedOnce
<1> QED
  BY <1>1, FreshInvariance, PTL
=============================================================================
