------------------------- MODULE SecretWriteProofs -------------------------
(***************************************************************************)
(* Theorems about SecretWrite, for every set of commands, items and        *)
(* attempts and every number of changes by other clients.                  *)
(***************************************************************************)
EXTENDS SecretWrite, TLAPS

-----------------------------------------------------------------------------
(* The inductive invariant.                                                *)

(* The steps of a command.                                                 *)
Steps == {"idle", "review", "begin", "post", "created", "verify", "save", "check"}

(* A command that has, or is about to have, a hand in the journal file.    *)
Holding(p) == pc[p] \in {"post", "created", "verify", "save", "check"}

(* No POST is out, and none created anything.                              *)
NothingSent ==
    /\ \A p \in Procs : pc[p] # "post"
    /\ \A a \in Attempts : made[a] = {}

(* What a command under review proposes.                                   *)
ReviewedFresh ==
    \A p \in Procs : pc[p] \in {"review", "begin"} =>
        mem[p].attempt \in Attempts /\ mem[p].item = NoItem /\ mem[p].status = "Uncertain"

(* Every command past begin works on the one attempt that was published.   *)
OneJournal ==
    \A p \in Procs : Holding(p) => mem[p] \in WriteJournal /\ mem[p].attempt = journal.attempt

(* One command at most is about to send, and nothing was sent before it.   *)
OneSender ==
    /\ \A p, q \in Procs : pc[p] = "post" /\ pc[q] = "post" => p = q
    /\ \A p \in Procs : pc[p] = "post" =>
        mem[p].status = "Uncertain" /\ \A a \in Attempts : made[a] = {}

(* Only the published attempt has created anything, and one item.          *)
MadeByJournal ==
    /\ \A a \in Attempts : made[a] # {} => journal.attempt = a
    /\ \A a \in Attempts : \A i, j \in made[a] : i = j

(* Failed is only ever recorded, or about to be, when nothing was sent.    *)
FailedIsTrue ==
    /\ journal # NoJournal /\ journal.status = "Failed" => NothingSent
    /\ \A p \in Procs : Holding(p) /\ mem[p].status = "Failed" => NothingSent

(* What a command believes about its item.                                 *)
ItemIsOwn ==
    /\ \A p \in Procs : pc[p] \in {"created", "verify"} => mem[p].item \in made[mem[p].attempt]
    /\ \A p \in Procs : Holding(p) /\ mem[p].status = "Verified" =>
        mem[p].item \in made[mem[p].attempt]
    /\ \A p \in Procs : pc[p] = "check" =>
        target[p] \in Items /\ mem[p].item \in {NoItem, target[p]}

IInv ==
    /\ TypeOK /\ ReviewedFresh /\ OneJournal /\ OneSender /\ MadeByJournal
    /\ FailedIsTrue /\ ItemIsOwn /\ VerifiedIsOwnItem

-----------------------------------------------------------------------------
(* The initial state satisfies the invariant.                              *)
LEMMA InitInv == Init => IInv
<1> SUFFICES ASSUME Init PROVE IInv
  OBVIOUS
<1>1. TypeOK
  BY NoneAssumption, EditAssumption DEF Init, TypeOK, Item, Contents, Unborn
<1>2. ReviewedFresh /\ OneJournal /\ OneSender /\ MadeByJournal /\ FailedIsTrue /\ ItemIsOwn
  BY DEF Init, ReviewedFresh, OneJournal, OneSender, MadeByJournal, FailedIsTrue, ItemIsOwn, Holding
<1>3. VerifiedIsOwnItem
  BY DEF Init, VerifiedIsOwnItem, NoJournal
<1> QED
  BY <1>1, <1>2, <1>3 DEF IInv

(* A file that names an attempt is not the missing one.                    *)
LEMMA NoJournalDiffers == \A m \in WriteJournal : m.attempt \in Attempts /\ m # NoJournal
BY NoneAssumption DEF WriteJournal, NoJournal

(* Every step keeps the state well typed.                                  *)
LEMMA TypeStep == IInv /\ [Next]_vars => TypeOK'
<1> SUFFICES ASSUME IInv, [Next]_vars PROVE TypeOK'
  OBVIOUS
<1> USE DEF IInv, TypeOK, goto, server
<1>1. ASSUME NEW p \in Procs, NEW a \in Attempts, review(p, a) PROVE TypeOK'
  BY <1>1 DEF review, WriteJournal, WriteStatus
<1>2. ASSUME NEW p \in Procs, authorize(p) PROVE TypeOK'
  BY <1>2 DEF authorize
<1>3. ASSUME NEW p \in Procs, deny(p) PROVE TypeOK'
  BY <1>3 DEF deny
<1>4. ASSUME NEW p \in Procs, begin(p) PROVE TypeOK'
  BY <1>4 DEF begin
<1>5. ASSUME NEW p \in Procs, NEW i \in Items, create_cipher(p, i), pc[p] = "post"
      PROVE  /\ vault' \in [Items -> Item] /\ folder_ok' \in BOOLEAN /\ edits' \in 0..MaxEdits
             /\ made' \in [Attempts -> SUBSET Items]
  <2>1. mem[p].attempt \in Attempts
    BY <1>5, NoJournalDiffers DEF OneJournal, Holding
  <2>2. [state |-> "live", named |-> TRUE, content |-> mem[p].attempt] \in Item
    BY <2>1 DEF Item, Contents
  <2> QED
    BY <1>5, <2>1, <2>2 DEF create_cipher
<1>6. ASSUME NEW p \in Procs, pc[p] \in {"post", "verify", "check"}
      PROVE  /\ mem[p] \in WriteJournal
             /\ \A s \in WriteStatus : [mem[p] EXCEPT !.status = s] \in WriteJournal
             /\ \A i \in Items, s \in WriteStatus :
                    [mem[p] EXCEPT !.item = i, !.status = s] \in WriteJournal
  BY <1>6 DEF OneJournal, Holding, WriteJournal
<1>7. ASSUME NEW p \in Procs, NEW i \in Items, post_created(p, i) PROVE TypeOK'
  BY <1>5, <1>6, <1>7 DEF post_created, WriteStatus
<1>8. ASSUME NEW p \in Procs, NEW i \in Items, post_lost(p, i) PROVE TypeOK'
  BY <1>5, <1>6, <1>8 DEF post_lost, WriteStatus
<1>9. ASSUME NEW p \in Procs, post_refused(p) PROVE TypeOK'
  BY <1>6, <1>9 DEF post_refused, WriteStatus
<1>10. ASSUME NEW p \in Procs, save(p) PROVE journal' \in WriteJournal \cup {NoJournal} /\ bound' \subseteq Items
  BY <1>10 DEF save, WriteJournal, NoJournal
<1>11. ASSUME NEW p \in Procs, save_created(p) PROVE TypeOK'
  BY <1>10, <1>11 DEF save_created
<1>12. ASSUME NEW p \in Procs, verify(p) PROVE TypeOK'
  BY <1>6, <1>12 DEF verify, WriteStatus
<1>13. ASSUME NEW p \in Procs, save_receipt(p) PROVE TypeOK'
  BY <1>10, <1>13 DEF save_receipt
<1>14. ASSUME NEW p \in Procs, NEW i \in Items, reconcile_read(p, i) PROVE TypeOK'
  BY <1>14 DEF reconcile_read
<1>15. ASSUME NEW p \in Procs, reconcile_check(p) PROVE TypeOK'
  <2>1. target[p] \in Items
    BY <1>15 DEF reconcile_check, ItemIsOwn
  <2>2. CASE UNCHANGED mem
    BY <1>15, <2>2 DEF reconcile_check
  <2>3. CASE mem' = [mem EXCEPT ![p].item = target[p],
                       ![p].status = IF @ = "Verified" THEN @ ELSE "CreatedUnverified"]
    <3>1. mem[p] \in WriteJournal
      BY <1>6, <1>15 DEF reconcile_check
    <3>2. \E s \in WriteStatus : mem'[p] = [attempt |-> mem[p].attempt, item |-> target[p], status |-> s]
      BY <2>3, <3>1 DEF WriteJournal, WriteStatus
    <3>3. mem'[p] \in WriteJournal
      BY <2>1, <3>1, <3>2 DEF WriteJournal
    <3>4. mem' \in [Procs -> WriteJournal \cup {NoJournal}]
      <4>1. mem' = [mem EXCEPT ![p] = mem'[p]]
        BY <2>3
      <4> QED
        BY <3>3, <4>1
    <3> QED
      BY <1>15, <3>4 DEF reconcile_check
  <2> QED
    BY <1>15, <2>2, <2>3 DEF reconcile_check
<1>16. ASSUME NEW p \in Procs, crash(p) PROVE TypeOK'
  BY <1>16 DEF crash
<1>17. ASSUME NEW i \in Items, NEW new \in Item, edit_item(i, new) PROVE TypeOK'
  BY <1>17, EditAssumption DEF edit_item
<1>18. CASE edit_folder
  BY <1>18, EditAssumption DEF edit_folder
<1>19. CASE UNCHANGED vars
  BY <1>19 DEF vars
<1> QED
  BY <1>1, <1>2, <1>3, <1>4, <1>7, <1>8, <1>9, <1>11, <1>12, <1>13, <1>14, <1>15, <1>16,
     <1>17, <1>18, <1>19 DEF Next

(* What a step that leaves the vault's history and the journal alone may   *)
(* do: one command moves on without taking a part in a POST.               *)
LEMMA QuietStep ==
    ASSUME IInv, TypeOK', UNCHANGED <<journal, made>>, NEW p \in Procs,
           \A q \in Procs \ {p} : pc'[q] = pc[q] /\ mem'[q] = mem[q] /\ target'[q] = target[q],
           pc'[p] # "post",
           pc'[p] \in {"review", "begin"} =>
                mem'[p].attempt \in Attempts /\ mem'[p].item = NoItem /\ mem'[p].status = "Uncertain",
           Holding(p)' =>
                /\ mem'[p] \in WriteJournal /\ mem'[p].attempt = journal.attempt
                /\ mem'[p].status = "Failed" => NothingSent'
                /\ mem'[p].status = "Verified" => mem'[p].item \in made[mem'[p].attempt],
           pc'[p] \in {"created", "verify"} => mem'[p].item \in made[mem'[p].attempt],
           pc'[p] = "check" => target'[p] \in Items /\ mem'[p].item \in {NoItem, target'[p]}
    PROVE  IInv'
<1>1. NothingSent => NothingSent'
  BY DEF NothingSent
<1>2. ReviewedFresh'
  BY DEF IInv, ReviewedFresh
<1>3. OneJournal'
  BY DEF IInv, OneJournal, Holding
<1>4. OneSender'
  BY DEF IInv, OneSender
<1>5. MadeByJournal'
  BY DEF IInv, MadeByJournal
<1>6. FailedIsTrue'
  BY <1>1 DEF IInv, FailedIsTrue, Holding
<1>7. ItemIsOwn'
  BY DEF IInv, ItemIsOwn, Holding
<1>8. VerifiedIsOwnItem'
  BY DEF IInv, VerifiedIsOwnItem
<1> QED
  BY <1>2, <1>3, <1>4, <1>5, <1>6, <1>7, <1>8 DEF IInv

(* Publishing the journal, the step from which everything else follows.    *)
LEMMA BeginStep ==
    ASSUME IInv, TypeOK', NEW p \in Procs, begin(p)
    PROVE  IInv'
<1> USE DEF goto, server
<1>1. CASE journal = NoJournal
  <2>1. \A q \in Procs : ~Holding(q)
    BY <1>1, NoneAssumption DEF IInv, OneJournal, WriteJournal, NoJournal
  <2>2. \A a \in Attempts : made[a] = {}
    BY <1>1, NoneAssumption DEF IInv, MadeByJournal, NoJournal
  <2>3. mem[p] \in WriteJournal /\ mem[p].status = "Uncertain"
    BY NoneAssumption DEF IInv, ReviewedFresh, TypeOK, begin, NoJournal
  <2>4. /\ journal' = mem[p] /\ mem' = mem /\ made' = made
        /\ pc' = [pc EXCEPT ![p] = "post"] /\ pc \in [Procs -> Steps]
    BY <1>1 DEF begin, IInv, TypeOK, Steps
  <2>5. \A q \in Procs : q # p => ~Holding(q)'
    BY <2>1, <2>4 DEF Holding
  <2>6. ReviewedFresh'
    BY <2>4 DEF IInv, ReviewedFresh
  <2>7. OneJournal'
    BY <2>3, <2>4, <2>5 DEF OneJournal
  <2>8. OneSender'
    BY <2>2, <2>3, <2>4, <2>5 DEF OneSender, Holding
  <2>9. MadeByJournal'
    BY <2>2, <2>4 DEF MadeByJournal
  <2>10. FailedIsTrue'
    BY <2>3, <2>4, <2>5 DEF FailedIsTrue
  <2>11. ItemIsOwn'
    BY <2>3, <2>4, <2>5 DEF ItemIsOwn, Holding
  <2>12. VerifiedIsOwnItem'
    BY <2>3, <2>4 DEF VerifiedIsOwnItem
  <2> QED
    BY <2>6, <2>7, <2>8, <2>9, <2>10, <2>11, <2>12 DEF IInv
<1>2. CASE journal # NoJournal
  <2>1. pc' = [pc EXCEPT ![p] = "idle"] /\ UNCHANGED <<journal, made, mem, target>>
    BY <1>2 DEF begin
  <2> QED
    BY <2>1, QuietStep DEF IInv, TypeOK, Holding
<1> QED
  BY <1>1, <1>2

(* The server creates the item: for the first time, and for the attempt on *)
(* record.  The command's status does not become Failed.                   *)
LEMMA CreateStep ==
    ASSUME IInv, TypeOK', NEW p \in Procs, NEW i \in Items, pc[p] = "post",
           create_cipher(p, i), journal' = journal, target' = target,
           NEW m \in WriteJournal, mem' = [mem EXCEPT ![p] = m],
           m.attempt = mem[p].attempt, m.status \in {"Uncertain", "CreatedUnverified"},
           NEW l \in {"created", "save"}, pc' = [pc EXCEPT ![p] = l],
           l = "created" => m.item = i
    PROVE  IInv'
<1> DEFINE a == mem[p].attempt
<1>1. mem[p] \in WriteJournal /\ a \in Attempts /\ a = journal.attempt
  BY NoJournalDiffers DEF IInv, OneJournal, Holding
<1>2. /\ \A b \in Attempts : made[b] = {}
      /\ \A q \in Procs : pc[q] = "post" => q = p
  BY DEF IInv, OneSender
<1>3. journal # NoJournal /\ journal \in WriteJournal
  BY <1>1, NoneAssumption DEF IInv, TypeOK, NoJournal
<1>4. made' = [made EXCEPT ![a] = {i}] /\ made \in [Attempts -> SUBSET Items]
  BY <1>1, <1>2 DEF create_cipher, IInv, TypeOK
<1>5. pc \in [Procs -> Steps] /\ mem \in [Procs -> WriteJournal \cup {NoJournal}]
  BY DEF IInv, TypeOK, Steps
<1>6. ~NothingSent
  BY DEF NothingSent
<1>7. journal.status # "Failed" /\ \A q \in Procs : Holding(q) => mem[q].status # "Failed"
  BY <1>3, <1>6 DEF IInv, FailedIsTrue
<1>8. journal.status # "Verified" /\ \A q \in Procs : Holding(q) => mem[q].status # "Verified"
  BY <1>1, <1>2, <1>3, NoJournalDiffers DEF IInv, VerifiedIsOwnItem, ItemIsOwn, OneJournal
<1>9. \A q \in Procs : pc[q] \notin {"created", "verify"}
  BY <1>1, <1>2, NoJournalDiffers DEF IInv, ItemIsOwn, OneJournal, Holding
<1>10. ReviewedFresh'
  BY <1>5 DEF IInv, ReviewedFresh
<1>11. OneJournal'
  BY <1>1, <1>5 DEF IInv, OneJournal, Holding
<1>12. OneSender'
  BY <1>2, <1>5 DEF OneSender
<1>13. MadeByJournal'
  BY <1>1, <1>2, <1>4 DEF MadeByJournal
<1>14. FailedIsTrue'
  BY <1>5, <1>7 DEF FailedIsTrue, Holding
<1>15. ItemIsOwn'
  BY <1>1, <1>4, <1>5, <1>8, <1>9 DEF IInv, ItemIsOwn, Holding
<1>16. VerifiedIsOwnItem'
  BY <1>8 DEF VerifiedIsOwnItem
<1> QED
  BY <1>10, <1>11, <1>12, <1>13, <1>14, <1>15, <1>16 DEF IInv

(* Saving the journal a command holds.                                     *)
LEMMA SaveStep ==
    ASSUME IInv, TypeOK', NEW p \in Procs, save(p), UNCHANGED <<made, mem, target>>,
           NEW l, <<pc[p], l>> \in {<<"created", "verify">>, <<"save", "idle">>},
           pc' = [pc EXCEPT ![p] = l]
    PROVE  IInv'
<1>1. /\ journal' = mem[p] /\ mem[p] \in WriteJournal /\ mem[p].attempt = journal.attempt
      /\ Holding(p)
  BY DEF save, IInv, OneJournal, Holding
<1>2. pc \in [Procs -> Steps]
  BY DEF IInv, TypeOK, Steps
<1>3. NothingSent => NothingSent'
  BY <1>2 DEF NothingSent
<1>4. ReviewedFresh'
  BY <1>2 DEF IInv, ReviewedFresh
<1>5. OneJournal'
  BY <1>1, <1>2 DEF IInv, OneJournal, Holding
<1>6. OneSender'
  BY <1>2 DEF IInv, OneSender
<1>7. MadeByJournal'
  BY <1>1 DEF IInv, MadeByJournal
<1>8. FailedIsTrue'
  BY <1>1, <1>2, <1>3 DEF IInv, FailedIsTrue, Holding
<1>9. ItemIsOwn'
  BY <1>2 DEF IInv, ItemIsOwn, Holding
<1>10. VerifiedIsOwnItem'
  BY <1>1 DEF IInv, VerifiedIsOwnItem, ItemIsOwn
<1> QED
  BY <1>4, <1>5, <1>6, <1>7, <1>8, <1>9, <1>10 DEF IInv

(* Every step keeps the invariant.                                         *)
LEMMA InvStep == IInv /\ [Next]_vars => IInv'
<1> SUFFICES ASSUME IInv, [Next]_vars PROVE IInv'
  OBVIOUS
<1>t. TypeOK' /\ pc \in [Procs -> Steps] /\ mem \in [Procs -> WriteJournal \cup {NoJournal}]
      /\ target \in [Procs -> Items \cup {NoItem}]
  BY TypeStep DEF IInv, TypeOK, Steps
<1> USE DEF goto, server
<1>1. ASSUME NEW p \in Procs, NEW a \in Attempts, review(p, a) PROVE IInv'
  <2>1. /\ pc' = [pc EXCEPT ![p] = "review"] /\ UNCHANGED <<journal, made, target>>
        /\ mem' = [mem EXCEPT ![p] = [attempt |-> a, item |-> NoItem, status |-> "Uncertain"]]
    BY <1>1 DEF review
  <2> QED
    BY <1>t, <2>1, QuietStep DEF Holding
<1>2. ASSUME NEW p \in Procs, pc' = [pc EXCEPT ![p] = "idle"], UNCHANGED <<journal, made, mem, target>>
      PROVE  IInv'
  BY <1>t, <1>2, QuietStep DEF Holding
<1>3. ASSUME NEW p \in Procs, authorize(p) PROVE IInv'
  <2>1. CASE pc' = [pc EXCEPT ![p] = "begin"]
    <3>1. UNCHANGED <<journal, made, mem, target>> /\ pc[p] = "review"
      BY <1>3 DEF authorize
    <3>2. mem[p].attempt \in Attempts /\ mem[p].item = NoItem /\ mem[p].status = "Uncertain"
      BY <3>1 DEF IInv, ReviewedFresh
    <3> QED
      BY <1>t, <2>1, <3>1, <3>2, QuietStep DEF Holding
  <2>2. CASE pc' = [pc EXCEPT ![p] = "idle"]
    BY <1>2, <1>3, <2>2 DEF authorize
  <2> QED
    BY <1>3, <2>1, <2>2 DEF authorize
<1>4. ASSUME NEW p \in Procs, deny(p) \/ crash(p) PROVE IInv'
  BY <1>2, <1>4 DEF deny, crash
<1>5. ASSUME NEW p \in Procs, begin(p) PROVE IInv'
  BY <1>t, <1>5, BeginStep
<1>6. ASSUME NEW p \in Procs, NEW i \in Items, post_created(p, i) \/ post_lost(p, i) PROVE IInv'
  <2>1. mem[p] \in WriteJournal /\ pc[p] = "post"
    BY <1>6 DEF IInv, OneJournal, Holding, post_created, post_lost
  <2>2. CASE post_created(p, i)
    <3> DEFINE m == [attempt |-> mem[p].attempt, item |-> i, status |-> "CreatedUnverified"]
    <3>1. m \in WriteJournal /\ mem' = [mem EXCEPT ![p] = m]
      <4>1. m \in WriteJournal
        BY <2>1 DEF WriteJournal, WriteStatus
      <4>2. mem'[p] = m
        BY <1>t, <2>1, <2>2 DEF post_created, WriteJournal
      <4>3. mem' = [mem EXCEPT ![p] = mem'[p]]
        BY <1>t, <2>2 DEF post_created
      <4> QED
        BY <4>1, <4>2, <4>3
    <3>2. m.attempt = mem[p].attempt /\ m.item = i /\ m.status = "CreatedUnverified"
      OBVIOUS
    <3>3. /\ create_cipher(p, i) /\ journal' = journal /\ target' = target
          /\ pc' = [pc EXCEPT ![p] = "created"]
      BY <2>2 DEF post_created
    <3> HIDE DEF m
    <3> QED
      BY <1>t, <2>1, <3>1, <3>2, <3>3, CreateStep
  <2>3. CASE post_lost(p, i)
    <3> DEFINE m == [attempt |-> mem[p].attempt, item |-> mem[p].item, status |-> "Uncertain"]
    <3>1. m \in WriteJournal /\ mem' = [mem EXCEPT ![p] = m]
      <4>1. m \in WriteJournal
        BY <2>1 DEF WriteJournal, WriteStatus
      <4>2. mem'[p] = m
        BY <1>t, <2>1, <2>3 DEF post_lost, WriteJournal
      <4>3. mem' = [mem EXCEPT ![p] = mem'[p]]
        BY <1>t, <2>3 DEF post_lost
      <4> QED
        BY <4>1, <4>2, <4>3
    <3>2. m.attempt = mem[p].attempt /\ m.status = "Uncertain"
      OBVIOUS
    <3>3. /\ create_cipher(p, i) /\ journal' = journal /\ target' = target
          /\ pc' = [pc EXCEPT ![p] = "save"]
      BY <2>3 DEF post_lost
    <3> HIDE DEF m
    <3> QED
      BY <1>t, <2>1, <3>1, <3>2, <3>3, CreateStep
  <2> QED
    BY <1>6, <2>2, <2>3
<1>7. ASSUME NEW p \in Procs, post_refused(p) PROVE IInv'
  <2>1. pc[p] = "post" /\ mem[p] \in WriteJournal /\ mem[p].attempt = journal.attempt
    BY <1>7 DEF post_refused, IInv, OneJournal, Holding
  <2>2. PICK s \in {"Failed", "Uncertain"} : mem' = [mem EXCEPT ![p].status = s]
    BY <1>7 DEF post_refused
  <2>3. mem' = [mem EXCEPT ![p] = [mem[p] EXCEPT !.status = s]]
    BY <1>t, <2>2
  <2>4. mem'[p] = [attempt |-> mem[p].attempt, item |-> mem[p].item, status |-> s]
    BY <1>t, <2>1, <2>3 DEF WriteJournal
  <2>5. pc' = [pc EXCEPT ![p] = "save"] /\ UNCHANGED <<journal, made, target>>
    BY <1>7 DEF post_refused
  <2>6. NothingSent'
    BY <1>t, <2>1, <2>5 DEF NothingSent, IInv, OneSender
  <2>7. mem'[p] \in WriteJournal
    BY <2>1, <2>4 DEF WriteJournal, WriteStatus
  <2>8. \A q \in Procs \ {p} : pc'[q] = pc[q] /\ mem'[q] = mem[q] /\ target'[q] = target[q]
    BY <1>t, <2>3, <2>5
  <2> QED
    BY <1>t, <2>1, <2>4, <2>5, <2>6, <2>7, <2>8, QuietStep
<1>8. ASSUME NEW p \in Procs, save_created(p) \/ save_receipt(p) PROVE IInv'
  BY <1>t, <1>8, SaveStep DEF save_created, save_receipt
<1>9. ASSUME NEW p \in Procs, verify(p) PROVE IInv'
  <2>1. /\ pc[p] = "verify" /\ mem[p] \in WriteJournal /\ mem[p].attempt = journal.attempt
        /\ mem[p].item \in made[mem[p].attempt]
        /\ mem[p].status = "Failed" => NothingSent
    BY <1>9 DEF verify, IInv, OneJournal, ItemIsOwn, FailedIsTrue, Holding
  <2>2. \E s \in {mem[p].status, "Verified"} : mem' = [mem EXCEPT ![p] = [mem[p] EXCEPT !.status = s]]
    BY <1>t, <1>9, <2>1 DEF verify, WriteJournal
  <2>3. PICK s \in {mem[p].status, "Verified"} : mem' = [mem EXCEPT ![p] = [mem[p] EXCEPT !.status = s]]
    BY <2>2
  <2>4. mem'[p] = [attempt |-> mem[p].attempt, item |-> mem[p].item, status |-> s]
    BY <1>t, <2>1, <2>3 DEF WriteJournal
  <2>5. pc' = [pc EXCEPT ![p] = "save"] /\ UNCHANGED <<journal, made, target>>
    BY <1>9 DEF verify
  <2>6. NothingSent => NothingSent'
    BY <1>t, <2>5 DEF NothingSent
  <2>7. mem'[p] \in WriteJournal
    BY <2>1, <2>4 DEF WriteJournal, WriteStatus
  <2>8. \A q \in Procs \ {p} : pc'[q] = pc[q] /\ mem'[q] = mem[q] /\ target'[q] = target[q]
    BY <1>t, <2>3, <2>5
  <2>9. /\ pc'[p] = "save" /\ mem'[p].attempt = journal.attempt
        /\ mem'[p].item \in made[mem'[p].attempt]
        /\ mem'[p].status = "Failed" => NothingSent'
    BY <1>t, <2>1, <2>4, <2>5, <2>6
  <2> QED
    BY <1>t, <2>5, <2>7, <2>8, <2>9, QuietStep
<1>10. ASSUME NEW p \in Procs, NEW i \in Items, reconcile_read(p, i) PROVE IInv'
  <2>1. journal \in WriteJournal /\ journal # NoJournal /\ journal.item \in {NoItem, i}
    BY <1>10 DEF reconcile_read, may_bind, IInv, TypeOK
  <2>2. /\ mem' = [mem EXCEPT ![p] = journal] /\ target' = [target EXCEPT ![p] = i]
        /\ pc' = [pc EXCEPT ![p] = "check"] /\ UNCHANGED <<journal, made>> /\ pc[p] = "idle"
    BY <1>10 DEF reconcile_read
  <2>3. journal.status = "Failed" => NothingSent'
    BY <1>t, <2>1, <2>2 DEF IInv, FailedIsTrue, NothingSent
  <2>4. journal.status = "Verified" => journal.item \in made[journal.attempt]
    BY DEF IInv, VerifiedIsOwnItem
  <2>5. \A q \in Procs \ {p} : pc'[q] = pc[q] /\ mem'[q] = mem[q] /\ target'[q] = target[q]
    BY <1>t, <2>2
  <2>6. pc'[p] = "check" /\ mem'[p] = journal /\ target'[p] = i
    BY <1>t, <2>2
  <2> QED
    BY <1>t, <2>1, <2>2, <2>3, <2>4, <2>5, <2>6, QuietStep
<1>11. ASSUME NEW p \in Procs, reconcile_check(p) PROVE IInv'
  <2>1. CASE UNCHANGED mem /\ goto(p, "idle")
    BY <1>2, <1>11, <2>1 DEF reconcile_check
  <2>2. CASE /\ mem' = [mem EXCEPT ![p].item = target[p],
                           ![p].status = IF @ = "Verified" THEN @ ELSE "CreatedUnverified"]
             /\ goto(p, "save")
    <3>1. /\ pc[p] = "check" /\ mem[p] \in WriteJournal /\ mem[p].attempt = journal.attempt
          /\ target[p] \in Items /\ mem[p].item \in {NoItem, target[p]}
          /\ mem[p].status = "Verified" => mem[p].item \in made[mem[p].attempt]
      BY <1>11 DEF reconcile_check, IInv, OneJournal, ItemIsOwn, Holding
    <3>2. mem[p].status = "Verified" => mem[p].item = target[p]
      <4>1. made[mem[p].attempt] \subseteq Items
        BY <3>1 DEF IInv, TypeOK, WriteJournal
      <4> QED
        BY <3>1, <4>1, NoneAssumption
    <3>3. \E s \in {"Verified", "CreatedUnverified"} :
            /\ mem'[p] = [attempt |-> mem[p].attempt, item |-> target[p], status |-> s]
            /\ s = "Verified" => mem[p].status = "Verified"
      BY <1>t, <2>2, <3>1 DEF WriteJournal
    <3>4. mem'[p] \in WriteJournal
      BY <3>1, <3>3 DEF WriteJournal, WriteStatus
    <3>5. \A q \in Procs \ {p} : pc'[q] = pc[q] /\ mem'[q] = mem[q] /\ target'[q] = target[q]
      BY <1>t, <1>11, <2>2 DEF reconcile_check
    <3>6. pc'[p] = "save" /\ UNCHANGED <<journal, made>>
      BY <1>t, <1>11, <2>2 DEF reconcile_check
    <3> QED
      BY <1>t, <3>1, <3>2, <3>3, <3>4, <3>5, <3>6, QuietStep
  <2> QED
    BY <1>11, <2>1, <2>2 DEF reconcile_check
<1>12. ASSUME UNCHANGED <<journal, pc, mem, target, made>> PROVE IInv'
  BY <1>t, <1>12 DEF IInv, ReviewedFresh, OneJournal, OneSender, MadeByJournal, FailedIsTrue,
     ItemIsOwn, VerifiedIsOwnItem, Holding, NothingSent
<1>13. ASSUME NEW i \in Items, NEW new \in Item, edit_item(i, new) PROVE IInv'
  BY <1>12, <1>13 DEF edit_item
<1>14. CASE edit_folder
  BY <1>12, <1>14 DEF edit_folder
<1>15. CASE UNCHANGED vars
  BY <1>12, <1>15 DEF vars
<1> QED
  BY <1>1, <1>3, <1>4, <1>5, <1>6, <1>7, <1>8, <1>9, <1>10, <1>11, <1>13, <1>14, <1>15 DEF Next

(* The invariant holds in every reachable state.                           *)
LEMMA Invariance == Spec => []IInv
BY InitInv, InvStep, PTL DEF Spec

-----------------------------------------------------------------------------
(* Theorems.                                                               *)

(* create-secret and reconcile-secret keep their state well typed: a       *)
(* journal file names an attempt and a status of write_journal.rs, and a   *)
(* command only saves a whole receipt.                                     *)
THEOREM TypeCorrect == Spec => []TypeOK
BY Invariance, PTL DEF IInv

(* However many commands are run, killed and run again, the server creates *)
(* the item at most once: the journal name is published only if it is      *)
(* free, so at most one command of one attempt ever sends the POST.        *)
THEOREM NeverReplayed == Spec => []CreatedOnce
<1>1. IInv => CreatedOnce
  BY DEF IInv, MadeByJournal, CreatedOnce
<1> QED
  BY <1>1, Invariance, PTL

(* An item that was created is always on record under its attempt, and no  *)
(* command, not even one that read the journal long ago, records it as     *)
(* Failed.                                                                 *)
THEOREM AlwaysRecorded == Spec => []NothingSentUnrecorded
<1>1. IInv => NothingSentUnrecorded
  BY NoneAssumption DEF IInv, MadeByJournal, FailedIsTrue, NothingSent, NothingSentUnrecorded,
     NoJournal
<1> QED
  BY <1>1, Invariance, PTL

(* A Verified receipt names the item its own attempt created, whatever     *)
(* reconciliations ran in between.                                         *)
THEOREM VerifiedOwnItem == Spec => []VerifiedIsOwnItem
BY Invariance, PTL DEF IInv
=============================================================================
