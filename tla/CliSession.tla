----------------------------- MODULE CliSession -----------------------------
(***************************************************************************)
(* The session of the vaultwarden-cli commands (commands.rs, config.rs):   *)
(* login, unlock, lock, logout and the token refresh of every command that *)
(* talks to the server.  Each command is a process of its own; they share  *)
(* config.json, keys.json, tokens.json, the system keyring and the         *)
(* token-refresh file lock, and any of them may be killed at any step.     *)
(*                                                                         *)
(* A client is an account on its own server, so the saved server, email    *)
(* and encrypted keys are named by the client alone.  A file is Absent,    *)
(* Torn between write_secure's truncation and its write, or holds a value. *)
(***************************************************************************)
EXTENDS Naturals, FiniteSets

CONSTANTS
    Procs, Clients, NoClient,
    AllowInsecure,   \* VAULTWARDEN_ALLOW_INSECURE_KEY_FILE
    MaxTokens,       \* tokens a server issues to one client
    MaxCommands,     \* commands started
    MaxFlaps         \* times the keyring service goes away or comes back

ASSUME ClientAssumption == NoClient \notin Clients
ASSUME InsecureAssumption == AllowInsecure \in BOOLEAN
ASSUME BoundAssumption == MaxTokens \in Nat /\ MaxCommands \in Nat /\ MaxFlaps \in Nat

VARIABLES
    conf, keysFile, tokensFile,  \* the files of the configuration directory
    ring, ringUp,                \* the keyring, and whether its service answers
    refreshLock,                 \* who holds token-refresh.lock
    pc, cmd, mem,                \* each process: step, command, Config in memory
    issued, expired,             \* the servers: tokens issued, tokens past their life
    commands, flaps,
    steady,                      \* history: the keyring has answered throughout
    redeemed, redeeming,         \* history: refreshes a server granted, by which process last
    lost,                        \* history: tokens whose successor was never stored
    locked, disturbed,           \* history: clients locked, locks an unlock ran into
    leaving, loggedOut           \* history: whom a logout clears, clients logged out

files == <<conf, keysFile, tokensFile>>
servers == <<issued, expired, redeemed, redeeming, lost>>
history == <<locked, disturbed, leaving, loggedOut>>
service == <<ringUp, flaps, steady>>
vars == <<files, ring, service, refreshLock, pc, cmd, mem, servers, commands, history>>

Absent == [file |-> "absent"]
Torn == [file |-> "torn"]
Free == "free"
Commands == {"login", "unlock", "lock", "logout", "use"}
Token == [owner : Clients, n : 1..MaxTokens]
NoToken == [owner |-> NoClient, n |-> 0]
Blank == [client |-> NoClient, tok |-> NoToken, keys |-> NoClient]

(* No process or account is mistaken for one of the marks above.           *)
ASSUME MarkAssumption == Free \notin Procs /\ Clients \cap {Absent, Torn} = {}

-----------------------------------------------------------------------------
(* Config::load_saved_keys: the keyring entry of this client, else         *)
(* keys.json when the insecure fallback is allowed.                        *)
load_saved_keys(c) ==
    IF c # NoClient /\ ringUp /\ ring[c].keys THEN c
    ELSE IF AllowInsecure /\ keysFile \notin {Absent, Torn} THEN keysFile ELSE NoClient

(* ... which deletes a keys.json it may not use.                           *)
keys_file_after_load(c) ==
    IF AllowInsecure \/ (c # NoClient /\ ringUp /\ ring[c].keys) THEN keysFile ELSE Absent

(* Mutant: the keyring entry is not named after the client.                *)
load_saved_tokens_shared(c, cur) ==
    IF c # NoClient /\ ringUp /\ \E d \in Clients : ring[d].tok # NoToken
    THEN ring[CHOOSE d \in Clients : ring[d].tok # NoToken].tok
    ELSE IF tokensFile \in {Absent, Torn} THEN cur ELSE tokensFile

(* Config::load_saved_tokens: the keyring entry of this client, else       *)
(* tokens.json, else what the caller already has.                          *)
load_saved_tokens(c, cur) ==
    IF c # NoClient /\ ringUp /\ ring[c].tok # NoToken THEN ring[c].tok
    ELSE IF tokensFile \in {Absent, Torn} THEN cur ELSE tokensFile

(* The reload fails on a tokens.json that does not parse.                  *)
reload_fails(c) ==
    ~(c # NoClient /\ ringUp /\ ring[c].tok # NoToken) /\ tokensFile = Torn

(* Config::load_from_dir.                                                  *)
load_from_dir ==
    [client |-> conf, tok |-> load_saved_tokens(conf, NoToken), keys |-> load_saved_keys(conf)]

is_logged_in(m) == m.tok # NoToken /\ m.client # NoClient
token_needs_refresh(m) == m.tok \in expired

-----------------------------------------------------------------------------
(* Steps of a process.                                                     *)

goto(p, l) == pc' = [pc EXCEPT ![p] = l]
(* Drop of TokenRefreshLock.                                               *)
release_if_held(p) == refreshLock' = IF refreshLock = p THEN Free ELSE refreshLock
fail(p) == goto(p, "idle") /\ release_if_held(p)

(* Config::load_session and the bridge the command asks for.               *)
first_step(k, m) ==
    CASE k = "login" -> "auth"
      [] k = "lock" -> IF is_logged_in(m) THEN "delete_keys" ELSE "idle"
      [] k = "logout" -> IF is_logged_in(m) THEN "drop_secret" ELSE "idle"
      [] k = "unlock" -> IF is_logged_in(m) THEN "token" ELSE "idle"
      [] k = "use" -> IF m.keys # NoClient THEN "token" ELSE "idle"

load_session(p, k) ==
    /\ pc[p] = "idle" /\ conf # Torn /\ commands < MaxCommands
    /\ cmd' = [cmd EXCEPT ![p] = k]
    /\ mem' = [mem EXCEPT ![p] = load_from_dir]
    /\ goto(p, first_step(k, load_from_dir))
    /\ keysFile' = keys_file_after_load(conf)
    /\ commands' = commands + 1
    /\ UNCHANGED <<conf, tokensFile, ring, service, refreshLock, servers, history>>

(* api.login and api.sync for client c, staged in memory.                  *)
login(p, c) ==
    /\ pc[p] = "auth" /\ issued[c] < MaxTokens
    /\ issued' = [issued EXCEPT ![c] = @ + 1]
    /\ mem' = [mem EXCEPT ![p].client = c, ![p].tok = [owner |-> c, n |-> issued'[c]]]
    /\ goto(p, "open_config")
    /\ UNCHANGED <<files, ring, service, refreshLock, cmd, expired, redeemed, redeeming, lost, commands, history>>

(* The server cannot be reached, or refuses the credentials or the sync.   *)
login_fails(p) ==
    /\ pc[p] = "auth"
    /\ goto(p, "idle")
    /\ UNCHANGED <<files, ring, service, refreshLock, cmd, mem, servers, commands, history>>

(* Config::save truncates config.json, writes it and saves the tokens.     *)
open_config(p) ==
    /\ pc[p] = "open_config"
    /\ conf' = Torn
    /\ goto(p, "write_config")
    /\ UNCHANGED <<keysFile, tokensFile, ring, service, refreshLock, cmd, mem, servers, commands, history>>

write_config(p) ==
    LET m == mem[p] IN
    /\ pc[p] = "write_config"
    /\ conf' = m.client
    /\ goto(p, IF m.tok # NoToken THEN "save_tokens" ELSE "idle")
    /\ UNCHANGED <<keysFile, tokensFile, ring, service, refreshLock, cmd, mem, servers, commands>>
    /\ loggedOut' = CASE cmd[p] = "logout" -> loggedOut \cup {leaving[p]}
                      [] cmd[p] = "login" -> loggedOut \ {m.client}
                      [] OTHER -> loggedOut
    /\ UNCHANGED <<locked, disturbed, leaving>>

(* What follows a finished save: login stores its secret, a refresh ends   *)
(* and gives the lock back.                                                *)
after_token(p) == IF cmd[p] = "unlock" THEN "password" ELSE "sync"
saved(p) == IF cmd[p] = "login" THEN goto(p, "store_secret") /\ UNCHANGED refreshLock
            ELSE goto(p, after_token(p)) /\ release_if_held(p)

(* Config::save_tokens: the keyring, or else tokens.json.                  *)
save_tokens(p) ==
    LET m == mem[p] IN
    /\ pc[p] = "save_tokens"
    /\ IF ringUp
       THEN /\ ring' = [ring EXCEPT ![m.client].tok = m.tok]
            /\ tokensFile' = Absent
            /\ saved(p)
       ELSE /\ tokensFile' = Torn
            /\ goto(p, "write_tokens")
            /\ UNCHANGED <<ring, refreshLock>>
    /\ UNCHANGED <<conf, keysFile, service, cmd, mem, servers, commands, history>>

write_tokens(p) ==
    /\ pc[p] = "write_tokens"
    /\ tokensFile' = mem[p].tok
    /\ saved(p)
    /\ UNCHANGED <<conf, keysFile, ring, service, cmd, mem, servers, commands, history>>

(* store_client_secret is best effort.                                     *)
store_client_secret(p) ==
    /\ pc[p] = "store_secret"
    /\ ring' = IF ringUp THEN [ring EXCEPT ![mem[p].client].secret = TRUE] ELSE ring
    /\ goto(p, "idle")
    /\ UNCHANGED <<files, service, refreshLock, cmd, mem, servers, commands, history>>

-----------------------------------------------------------------------------
(* ensure_valid_token.                                                     *)

use_saved_token(p) ==
    /\ pc[p] = "token"
    /\ goto(p, IF mem[p].tok = NoToken THEN "idle"
               ELSE IF token_needs_refresh(mem[p]) THEN "acquire" ELSE after_token(p))
    /\ UNCHANGED <<files, ring, service, refreshLock, cmd, mem, servers, commands, history>>

acquire_token_refresh_lock(p) ==
    /\ pc[p] = "acquire" /\ refreshLock = Free
    /\ refreshLock' = p
    /\ goto(p, "reload")
    /\ UNCHANGED <<files, ring, service, cmd, mem, servers, commands, history>>

(* Mutant: the tokens are not read again under the lock.                   *)
reload_skipped(p) ==
    /\ pc[p] = "reload"
    /\ goto(p, "refresh")
    /\ UNCHANGED <<files, ring, service, refreshLock, cmd, mem, servers, commands, history>>

(* Under the lock only the tokens are read again, and checked again.       *)
reload(p) ==
    LET m == [mem[p] EXCEPT !.tok = load_saved_tokens(mem[p].client, mem[p].tok)] IN
    /\ pc[p] = "reload"
    /\ IF reload_fails(mem[p].client) THEN fail(p) /\ UNCHANGED mem
       ELSE /\ mem' = [mem EXCEPT ![p] = m]
            /\ IF token_needs_refresh(m)
               THEN goto(p, "refresh") /\ UNCHANGED refreshLock
               ELSE goto(p, after_token(p)) /\ release_if_held(p)
    /\ UNCHANGED <<files, ring, service, cmd, servers, commands, history>>

(* The server grants the refresh.                                          *)
refresh(p) ==
    LET t == mem[p].tok IN
    LET c == t.owner IN
    /\ pc[p] = "refresh" /\ issued[c] < MaxTokens
    /\ redeemed' = [redeemed EXCEPT ![t] = @ + 1] /\ redeeming' = [redeeming EXCEPT ![p] = t]
    /\ issued' = [issued EXCEPT ![c] = @ + 1]
    /\ mem' = [mem EXCEPT ![p].tok = [owner |-> c, n |-> issued'[c]]]
    /\ goto(p, "open_config")
    /\ UNCHANGED <<files, ring, service, refreshLock, cmd, expired, lost, commands, history>>

(* It refuses, or grants and the answer is lost.                           *)
refresh_fails(p) ==
    LET t == mem[p].tok IN
    /\ pc[p] = "refresh"
    /\ fail(p)
    /\ \/ UNCHANGED <<redeemed, lost>>
       \/ redeemed' = [redeemed EXCEPT ![t] = @ + 1] /\ lost' = lost \cup {t}
    /\ UNCHANGED <<files, ring, service, cmd, mem, issued, expired, redeeming, commands, history>>

(* A command other than unlock sends its requests with the token.          *)
sync(p) ==
    /\ pc[p] = "sync"
    /\ goto(p, "idle")
    /\ UNCHANGED <<files, ring, service, refreshLock, cmd, mem, servers, commands, history>>

-----------------------------------------------------------------------------
(* unlock, lock and logout.                                                *)

(* The master password decrypts the keys of the account, or it is wrong.   *)
password(p) ==
    /\ pc[p] = "password"
    /\ \/ goto(p, "save_keys") /\ mem' = [mem EXCEPT ![p].keys = mem[p].client]
       \/ goto(p, "idle") /\ UNCHANGED mem
    /\ UNCHANGED <<files, ring, service, refreshLock, cmd, servers, commands, history>>

(* The keys of c are stored; every lock in progress has been overtaken.    *)
stores(c) ==
    /\ locked' = locked \ {c}
    /\ disturbed' = Procs
    /\ UNCHANGED <<leaving, loggedOut>>

(* Config::save_keys: the keyring; keys.json only if allowed; else nothing *)
(* is persisted and the command fails.                                     *)
save_keys(p) ==
    LET m == mem[p] IN
    /\ pc[p] = "save_keys"
    /\ IF ringUp
       THEN /\ ring' = [ring EXCEPT ![m.client].keys = TRUE]
            /\ keysFile' = Absent
            /\ goto(p, "idle") /\ stores(m.client)
       ELSE /\ keysFile' = IF AllowInsecure THEN Torn ELSE Absent
            /\ goto(p, IF AllowInsecure THEN "write_keys" ELSE "idle")
            /\ UNCHANGED <<ring, history>>
    /\ UNCHANGED <<conf, tokensFile, service, refreshLock, cmd, mem, servers, commands>>

write_keys(p) ==
    /\ pc[p] = "write_keys"
    /\ keysFile' = mem[p].client
    /\ goto(p, "idle") /\ stores(mem[p].client)
    /\ UNCHANGED <<conf, tokensFile, ring, service, refreshLock, cmd, mem, servers, commands>>

(* Mutant: only the keyring entry is deleted.                              *)
delete_keys_ring_only(p) ==
    /\ pc[p] = "delete_keys"
    /\ ringUp
    /\ ring' = [ring EXCEPT ![mem[p].client].keys = FALSE]
    /\ locked' = locked \cup {mem[p].client} /\ UNCHANGED <<disturbed, leaving, loggedOut>>
    /\ goto(p, "idle")
    /\ UNCHANGED <<files, service, refreshLock, cmd, mem, servers, commands>>

(* Config::delete_saved_keys of lock: a keyring that does not answer ends  *)
(* the command before keys.json is looked at.                              *)
delete_keys(p) ==
    /\ pc[p] = "delete_keys"
    /\ IF ringUp
       THEN /\ ring' = [ring EXCEPT ![mem[p].client].keys = FALSE]
            /\ disturbed' = disturbed \ {p}
            /\ goto(p, "remove_keys_file")
       ELSE goto(p, "idle") /\ UNCHANGED <<ring, disturbed>>
    /\ UNCHANGED <<files, service, refreshLock, cmd, mem, servers, commands, locked, leaving, loggedOut>>

remove_keys_file(p) ==
    /\ pc[p] = "remove_keys_file"
    /\ keysFile' = Absent
    /\ locked' = IF p \in disturbed THEN locked ELSE locked \cup {mem[p].client}
    /\ goto(p, "idle")
    /\ UNCHANGED <<conf, tokensFile, ring, service, refreshLock, cmd, mem, servers, commands>>
    /\ UNCHANGED <<disturbed, leaving, loggedOut>>

(* logout: the client secret is deleted first, while the name is known.    *)
drop_secret(p) ==
    /\ pc[p] = "drop_secret"
    /\ IF ringUp
       THEN /\ ring' = [ring EXCEPT ![mem[p].client].secret = FALSE]
            /\ goto(p, "clear_keys")
       ELSE goto(p, "idle") /\ UNCHANGED ring
    /\ UNCHANGED <<files, service, refreshLock, cmd, mem, servers, commands, history>>

(* Config::clear forgets the client and only then deletes keys and tokens: *)
(* with no client there is no keyring entry to delete, only the files.     *)
clear_keys(p) ==
    /\ pc[p] = "clear_keys"
    /\ mem' = [mem EXCEPT ![p] = Blank]
    /\ leaving' = [leaving EXCEPT ![p] = mem[p].client]
    /\ keysFile' = Absent
    /\ goto(p, "clear_tokens")
    /\ UNCHANGED <<conf, tokensFile, ring, service, refreshLock, cmd, servers, commands>>
    /\ UNCHANGED <<locked, disturbed, loggedOut>>

clear_tokens(p) ==
    /\ pc[p] = "clear_tokens"
    /\ tokensFile' = Absent
    /\ goto(p, "open_config")
    /\ UNCHANGED <<conf, keysFile, ring, service, refreshLock, cmd, mem, servers, commands, history>>

-----------------------------------------------------------------------------
(* The environment.                                                        *)

(* A command is killed; the system drops its file lock.                    *)
crash(p) ==
    /\ pc[p] # "idle"
    /\ fail(p)
    /\ lost' = IF cmd[p] \in {"unlock", "use"} /\ pc[p] \in {"open_config", "write_config", "save_tokens", "write_tokens"}
               THEN lost \cup {redeeming[p]}
               ELSE lost
    /\ UNCHANGED <<files, ring, service, cmd, mem, issued, expired, redeemed, redeeming, commands, history>>

(* A token comes within a minute of its expiry.                            *)
expire(t) ==
    /\ t.n <= issued[t.owner] /\ t \notin expired
    /\ expired' = expired \cup {t}
    /\ UNCHANGED <<files, ring, service, refreshLock, pc, cmd, mem, issued, redeemed, redeeming, lost, commands, history>>

keyring_service ==
    /\ flaps < MaxFlaps
    /\ ringUp' = ~ringUp /\ flaps' = flaps + 1 /\ steady' = FALSE
    /\ UNCHANGED <<files, ring, refreshLock, pc, cmd, mem, servers, commands, history>>

Init ==
    /\ conf = NoClient /\ keysFile = Absent /\ tokensFile = Absent
    /\ ring = [c \in Clients |-> [keys |-> FALSE, tok |-> NoToken, secret |-> FALSE]]
    /\ ringUp \in BOOLEAN /\ flaps = 0 /\ steady = ringUp
    /\ refreshLock = Free
    /\ pc = [p \in Procs |-> "idle"]
    /\ cmd = [p \in Procs |-> "login"]
    /\ mem = [p \in Procs |-> Blank]
    /\ issued = [c \in Clients |-> 0] /\ expired = {}
    /\ redeemed = [t \in Token |-> 0] /\ lost = {}
    /\ redeeming = [p \in Procs |-> NoToken]
    /\ commands = 0
    /\ locked = {} /\ disturbed = {} /\ loggedOut = {}
    /\ leaving = [p \in Procs |-> NoClient]

(* Every step a command takes once it has started.                         *)
step(p) ==
    \/ \E c \in Clients : login(p, c)
    \/ login_fails(p)
    \/ open_config(p) \/ write_config(p)
    \/ save_tokens(p) \/ write_tokens(p)
    \/ store_client_secret(p)
    \/ use_saved_token(p) \/ acquire_token_refresh_lock(p)
    \/ reload(p) \/ refresh(p) \/ refresh_fails(p) \/ sync(p)
    \/ password(p) \/ save_keys(p) \/ write_keys(p)
    \/ delete_keys(p) \/ remove_keys_file(p)
    \/ drop_secret(p) \/ clear_keys(p) \/ clear_tokens(p)

Next ==
    \/ \E p \in Procs :
        \/ \E k \in Commands : load_session(p, k)
        \/ step(p)
        \/ crash(p)
    \/ \E t \in Token : expire(t)
    \/ keyring_service

Spec == Init /\ [][Next]_vars

-----------------------------------------------------------------------------
(* Properties.                                                             *)

Steps == {"idle", "auth", "open_config", "write_config", "save_tokens", "write_tokens",
          "store_secret", "token", "acquire", "reload", "refresh", "sync", "password",
          "save_keys", "write_keys", "delete_keys", "remove_keys_file", "drop_secret",
          "clear_keys", "clear_tokens"}

(* The state is well typed, and the file lock is held exactly through the  *)
(* reload, the refresh and the save that follows it.                       *)
TypeOK ==
    /\ conf \in Clients \cup {NoClient, Torn}
    /\ keysFile \in Clients \cup {Absent, Torn}
    /\ tokensFile \in Token \cup {Absent, Torn}
    /\ ring \in [Clients -> [keys : BOOLEAN, tok : Token \cup {NoToken}, secret : BOOLEAN]]
    /\ ringUp \in BOOLEAN /\ steady \in BOOLEAN /\ flaps \in 0..MaxFlaps
    /\ refreshLock \in Procs \cup {Free}
    /\ pc \in [Procs -> Steps] /\ cmd \in [Procs -> Commands]
    /\ mem \in [Procs -> [client : Clients \cup {NoClient}, tok : Token \cup {NoToken},
                           keys : Clients \cup {NoClient}]]
    /\ issued \in [Clients -> 0..MaxTokens] /\ expired \subseteq Token
    /\ redeemed \in [Token -> Nat] /\ lost \subseteq Token
    /\ redeeming \in [Procs -> Token \cup {NoToken}]
    /\ commands \in 0..MaxCommands
    /\ locked \subseteq Clients /\ loggedOut \subseteq Clients /\ disturbed \subseteq Procs
    /\ leaving \in [Procs -> Clients \cup {NoClient}]
    /\ \A p \in Procs : refreshLock = p <=>
          \/ pc[p] \in {"reload", "refresh"}
          \/ /\ cmd[p] \in {"unlock", "use"}
             /\ pc[p] \in {"open_config", "write_config", "save_tokens", "write_tokens"}

(* Once lock has returned, the keys of that account are in neither store   *)
(* until an unlock puts them back, wherever the keyring's outages left     *)
(* them before.                                                            *)
LockHolds == \A c \in locked : ~ring[c].keys /\ keysFile # c

(* A command sends a server only tokens that server issued, whoever logs   *)
(* in or out meanwhile, as long as the keyring answers.  (tokens.json is   *)
(* not kept per account: with it a reload may pick up another account's.)  *)
TokenGoesToItsIssuer ==
    steady => \A p \in Procs : pc[p] \in {"refresh", "sync"} => mem[p].tok.owner = mem[p].client

(* Two commands that find the same token expired do not both redeem its    *)
(* refresh token, unless the first one's successor was lost on the way to  *)
(* the keyring.                                                            *)
RefreshedOnce == steady => \A t \in Token : redeemed[t] > 1 => t \in lost

(* README: logout "clears all saved data": nothing of the account is left  *)
(* in the keyring until it logs in again.                                  *)
LogoutClears == \A c \in loggedOut : ~ring[c].keys /\ ring[c].tok = NoToken /\ ~ring[c].secret
=============================================================================
