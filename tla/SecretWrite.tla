----------------------------- MODULE SecretWrite ----------------------------
(***************************************************************************)
(* The create-secret and reconcile-secret commands of the CLI              *)
(* (commands.rs) for one destination (account, folder and reference), with *)
(* the write journal (write_journal.rs) that makes a creation a single     *)
(* attempt and the checks of secret_storage.rs on what the server holds.   *)
(* Commands are processes that may be killed at any step; other clients    *)
(* add, change and delete items of the same vault meanwhile, and the       *)
(* answer to a POST may be lost.                                           *)
(***************************************************************************)
EXTENDS Naturals, FiniteSets

CONSTANTS
    Procs,        \* commands running at a time
    Items, NoItem,
    Attempts, NoAttempt,
    MaxEdits      \* changes other clients make

ASSUME NoneAssumption == NoItem \notin Items /\ NoAttempt \notin Attempts
ASSUME EditAssumption == MaxEdits \in Nat

VARIABLES
    vault,        \* what the server holds under each item id
    folder_ok,    \* the folder binding still resolves to this destination
    journal,      \* the journal file of the destination
    pc, mem,      \* each command: its step, the journal it holds in memory
    target,       \* the item a reconciliation names
    used,         \* attempt ids drawn so far
    edits,
    made,         \* history: the items each attempt's POST created
    bound         \* history: the items the journal file has named

vars == <<vault, folder_ok, journal, pc, mem, target, used, edits, made, bound>>

WriteStatus == {"Failed", "Uncertain", "CreatedUnverified", "Verified"}
Contents == Attempts \cup {"other", "partial"}
Item == [state : {"free", "live", "deleted"}, named : BOOLEAN, content : Contents]
WriteJournal == [attempt : Attempts, item : Items \cup {NoItem}, status : WriteStatus]
NoJournal == [attempt |-> NoAttempt, item |-> NoItem, status |-> "Failed"]
Unborn == [state |-> "free", named |-> FALSE, content |-> "other"]

goto(p, l) == pc' = [pc EXCEPT ![p] = l]
server == <<vault, folder_ok, edits, made>>

-----------------------------------------------------------------------------
(* Destination::check_sync: the folder is bound, and when creating no item *)
(* of it, deleted ones included, already has the name.                     *)
check_sync(creating) ==
    /\ folder_ok
    /\ creating => \A i \in Items : ~(vault[i].state # "free" /\ vault[i].named)

(* Destination::check_item.                                                *)
check_item(i) == vault[i].state = "live" /\ vault[i].named

(* verify_created: what came back is what this attempt sent.               *)
verify_created(i, a) == check_item(i) /\ vault[i].content = a

(* selected_value on every field of the journal.                           *)
every_field_selected(i) == vault[i].content # "partial"

-----------------------------------------------------------------------------
(* create_secret.                                                          *)

(* Folder and name are checked, the input read, and a review shown.        *)
review(p, a) ==
    /\ pc[p] = "idle" /\ a \notin used
    /\ check_sync(TRUE)
    /\ used' = used \cup {a}
    /\ mem' = [mem EXCEPT ![p] = [attempt |-> a, item |-> NoItem, status |-> "Uncertain"]]
    /\ goto(p, "review")
    /\ UNCHANGED <<server, journal, target, bound>>

(* The human types the attempt id, and a fresh sync still agrees.          *)
authorize(p) ==
    /\ pc[p] = "review"
    /\ goto(p, IF check_sync(TRUE) THEN "begin" ELSE "idle")
    /\ UNCHANGED <<server, journal, mem, target, used, bound>>

deny(p) ==
    /\ pc[p] = "review"
    /\ goto(p, "idle")
    /\ UNCHANGED <<server, journal, mem, target, used, bound>>

(* Mutant: the journal is published over an existing one.                  *)
begin_clobbers(p) ==
    /\ pc[p] = "begin"
    /\ journal' = mem[p]
    /\ goto(p, "post")
    /\ UNCHANGED <<server, mem, target, used, bound>>

(* WriteJournal::begin: the Uncertain journal is durable before its name   *)
(* is published, and the name is published only if it is free.             *)
begin(p) ==
    /\ pc[p] = "begin"
    /\ IF journal = NoJournal
       THEN journal' = mem[p] /\ goto(p, "post")
       ELSE goto(p, "idle") /\ UNCHANGED journal
    /\ UNCHANGED <<server, mem, target, used, bound>>

(* The server stores the item under an id of its choice.                   *)
create_cipher(p, i) ==
    LET a == mem[p].attempt IN
    /\ vault[i].state = "free"
    /\ vault' = [vault EXCEPT ![i] = [state |-> "live", named |-> TRUE, content |-> a]]
    /\ made' = [made EXCEPT ![a] = @ \cup {i}]
    /\ UNCHANGED <<folder_ok, edits>>

(* A usable answer names the item.                                         *)
post_created(p, i) ==
    /\ pc[p] = "post"
    /\ create_cipher(p, i)
    /\ mem' = [mem EXCEPT ![p].item = i, ![p].status = "CreatedUnverified"]
    /\ goto(p, "created")
    /\ UNCHANGED <<journal, target, used, bound>>

(* Mutant: a lost answer is taken for a refusal.                           *)
post_lost_failed(p, i) ==
    /\ pc[p] = "post"
    /\ create_cipher(p, i)
    /\ mem' = [mem EXCEPT ![p].status = "Failed"]
    /\ goto(p, "save")
    /\ UNCHANGED <<journal, target, used, bound>>

(* The item is stored, but the answer is lost, too large or malformed.     *)
post_lost(p, i) ==
    /\ pc[p] = "post"
    /\ create_cipher(p, i)
    /\ mem' = [mem EXCEPT ![p].status = "Uncertain"]
    /\ goto(p, "save")
    /\ UNCHANGED <<journal, target, used, bound>>

(* Nothing is stored: a refusal with a client error is Failed, any other   *)
(* failure Uncertain.                                                      *)
post_refused(p) ==
    /\ pc[p] = "post"
    /\ \E s \in {"Failed", "Uncertain"} : mem' = [mem EXCEPT ![p].status = s]
    /\ goto(p, "save")
    /\ UNCHANGED <<server, journal, target, used, bound>>

(* WriteJournal::save replaces the file atomically.                        *)
save(p) ==
    /\ journal' = mem[p]
    /\ bound' = bound \cup ({mem[p].item} \ {NoItem})

save_created(p) ==
    /\ pc[p] = "created"
    /\ save(p)
    /\ goto(p, "verify")
    /\ UNCHANGED <<server, mem, target, used>>

(* Sync, fetch and compare; a failure leaves the item unverified.          *)
verify(p) ==
    LET m == mem[p] IN
    /\ pc[p] = "verify"
    /\ \/ /\ check_sync(FALSE) /\ verify_created(m.item, m.attempt)
          /\ mem' = [mem EXCEPT ![p].status = "Verified"]
       \/ UNCHANGED mem
    /\ goto(p, "save")
    /\ UNCHANGED <<server, journal, target, used, bound>>

save_receipt(p) ==
    /\ pc[p] = "save"
    /\ save(p)
    /\ goto(p, "idle")
    /\ UNCHANGED <<server, mem, target, used>>

-----------------------------------------------------------------------------
(* reconcile_secret.                                                       *)

(* Mutant: a receipt may be pointed at another item.                       *)
may_bind_any(j, i) == TRUE

(* A receipt that names an item keeps it.                                  *)
may_bind(j, i) == j.item \in {NoItem, i}

(* The journal is read, and the receipt may not name another item.         *)
reconcile_read(p, i) ==
    /\ pc[p] = "idle" /\ journal # NoJournal
    /\ may_bind(journal, i)
    /\ mem' = [mem EXCEPT ![p] = journal]
    /\ target' = [target EXCEPT ![p] = i]
    /\ goto(p, "check")
    /\ UNCHANGED <<server, journal, used, bound>>

(* Sync, fetch, check_item and every selected field.                       *)
reconcile_check(p) ==
    LET i == target[p] IN
    /\ pc[p] = "check"
    /\ IF check_sync(FALSE) /\ check_item(i) /\ every_field_selected(i)
       THEN /\ mem' = [mem EXCEPT ![p].item = i,
                         ![p].status = IF @ = "Verified" THEN @ ELSE "CreatedUnverified"]
            /\ goto(p, "save")
       ELSE goto(p, "idle") /\ UNCHANGED mem
    /\ UNCHANGED <<server, journal, target, used, bound>>

-----------------------------------------------------------------------------
(* The environment.                                                        *)

(* The command is killed, or its journal cannot be written.                *)
crash(p) ==
    /\ pc[p] # "idle"
    /\ goto(p, "idle")
    /\ UNCHANGED <<server, journal, mem, target, used, bound>>

(* Another client of the vault.                                            *)
edit_item(i, new) ==
    /\ edits < MaxEdits /\ new.state # "free" /\ new # vault[i]
    /\ vault[i].state = "deleted" => new.state = "deleted"
    /\ vault' = [vault EXCEPT ![i] = new]
    /\ edits' = edits + 1
    /\ UNCHANGED <<folder_ok, journal, pc, mem, target, used, made, bound>>

edit_folder ==
    /\ edits < MaxEdits
    /\ folder_ok' = ~folder_ok
    /\ edits' = edits + 1
    /\ UNCHANGED <<vault, journal, pc, mem, target, used, made, bound>>

Init ==
    /\ vault = [i \in Items |-> Unborn]
    /\ folder_ok = TRUE
    /\ journal = NoJournal
    /\ pc = [p \in Procs |-> "idle"]
    /\ mem = [p \in Procs |-> NoJournal]
    /\ target = [p \in Procs |-> NoItem]
    /\ used = {} /\ edits = 0
    /\ made = [a \in Attempts |-> {}]
    /\ bound = {}

Next ==
    \/ \E p \in Procs :
        \/ \E a \in Attempts : review(p, a)
        \/ authorize(p) \/ deny(p) \/ begin(p)
        \/ \E i \in Items : post_created(p, i) \/ post_lost(p, i)
        \/ post_refused(p)
        \/ save_created(p) \/ verify(p) \/ save_receipt(p)
        \/ \E i \in Items : reconcile_read(p, i)
        \/ reconcile_check(p)
        \/ crash(p)
    \/ \E i \in Items : \E new \in Item : edit_item(i, new)
    \/ edit_folder

Spec == Init /\ [][Next]_vars

-----------------------------------------------------------------------------
(* Properties.                                                             *)

(* The state is well typed.                                                *)
TypeOK ==
    /\ vault \in [Items -> Item] /\ folder_ok \in BOOLEAN
    /\ journal \in WriteJournal \cup {NoJournal}
    /\ pc \in [Procs -> {"idle", "review", "begin", "post", "created", "verify", "save", "check"}]
    /\ mem \in [Procs -> WriteJournal \cup {NoJournal}]
    /\ target \in [Procs -> Items \cup {NoItem}]
    /\ used \subseteq Attempts /\ edits \in 0..MaxEdits
    /\ made \in [Attempts -> SUBSET Items] /\ bound \subseteq Items

(* However often create-secret is run, killed and run again, the server is *)
(* asked to create the item at most once (write_journal.rs: "An uncertain  *)
(* attempt is never replayed").                                            *)
CreatedOnce ==
    \A a, b \in Attempts : \A i \in made[a] : \A j \in made[b] : a = b /\ i = j

(* Whatever was sent is on record: an item an attempt made is accounted    *)
(* for by a journal of that attempt that does not call it Failed, so that  *)
(* it can be reconciled after a crash at any point.                        *)
NothingSentUnrecorded ==
    \A a \in Attempts : made[a] # {} => journal.attempt = a /\ journal.status # "Failed"

(* A receipt is Verified only for the item its own attempt created, and    *)
(* reconciliation, which cannot compare the values, never promotes one.    *)
VerifiedIsOwnItem == journal.status = "Verified" => journal.item \in made[journal.attempt]

(* commands.rs: "cannot retarget a receipt": the journal of a destination  *)
(* has named one item at most.                                             *)
NeverRetargeted == Cardinality(bound) <= 1
=============================================================================
