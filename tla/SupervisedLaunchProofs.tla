----------------------- MODULE SupervisedLaunchProofs -----------------------
(***************************************************************************)
(* Theorems about SupervisedLaunch, for every set of launches, whichever   *)
(* of them use SSH or fork, and every number of faults.                    *)
(*                                                                         *)
(* All the state but daemon, healthy and faults belongs to one launch.     *)
(* The invariant is a predicate Inv(l) of one launch; a step of another    *)
(* launch leaves it alone (Same), and each action is shown to keep the     *)
(* invariant of its own.                                                   *)
(***************************************************************************)
EXTENDS SupervisedLaunch, FiniteSetTheorems, SequenceTheorems, TLAPS

-----------------------------------------------------------------------------
(* The inductive invariant.                                                *)

Steps == {"queued", "prepare", "execute", "record", "publish", "unstage", "start",
          "job", "accept", "send", "ready", "release", "observe", "signing",
          "writing", "close", "unused", "finalize", "done", "lost"}
Codes == {"READY", "EXEC", "FAILED", "REAPED"} \cup Outcomes
Report == [outcome : Errors \cup Outcomes \cup {"none", "ObservationLost"},
           cleanup : {"none", "NotStarted", "Reaped", "Detached"}, reaped : BOOLEAN]
Agent == [open : BOOLEAN, key : BOOLEAN, recipient : BOOLEAN, bound : BOOLEAN]

(* The state is a family of launches and three variables of the provider.  *)
ProviderTypes ==
    /\ daemon \in {"down", "leases", "material", "up"}
    /\ healthy \in BOOLEAN
WorkerTypes ==
    /\ pc \in [Launches -> Steps]
    /\ err \in [Launches -> Errors \cup Outcomes \cup {"none"}]
    /\ sent \in [Launches -> BOOLEAN]
    /\ report \in [Launches -> Report]
AuthorityTypes == live \in [Launches -> BOOLEAN] /\ started \in [Launches -> BOOLEAN]
FileTypes == staging \subseteq Launches /\ leases \subseteq Launches /\ sockets \subseteq Launches
ProcessTypes ==
    /\ unit \in [Launches -> {"none", "job", "active", "stranger"}]
    /\ helper \in [Launches -> {"none", "started", "connected", "ready", "released",
           "tracing", "reaping", "unconfirmed", "gone"}]
    /\ consumer \in [Launches -> {"none", "forked", "trapped", "running", "exited", "reaped"}]
    /\ descendant \in [Launches -> BOOLEAN]
    /\ status \in [Launches -> Outcomes \cup {"none"}]
BridgeTypes ==
    /\ chan \in [Launches -> {"none", "Connected", "Transferred", "Ready", "Released",
           "Executed", "Outcome", "Failed", "closed"}]
    /\ inbox \in [Launches -> Seq(Codes)]
    /\ outbox \in [Launches -> Seq({"TRANSFER", "RELEASE"})]
SshTypes ==
    /\ agent \in [Launches -> Agent]
    /\ signed \in [Launches -> 0..1]
    /\ material \in [Launches -> SUBSET Files]
    /\ endpoint \subseteq Launches

Types ==
    /\ ProviderTypes /\ WorkerTypes /\ AuthorityTypes /\ FileTypes
    /\ ProcessTypes /\ BridgeTypes /\ SshTypes

(* The worker's steps before the user manager is asked for a unit.         *)
Early == {"queued", "prepare", "execute", "record", "publish", "unstage", "start"}
(* The unit was asked for, RELEASE was not sent.                           *)
Launching == {"job", "accept", "send", "ready", "release"}
(* The listener is open and the lease published.                           *)
Serving == {"start", "observe", "signing", "writing", "close"} \cup Launching
(* The Supervision is returned, or will never be.                          *)
Ended == {"finalize", "done", "lost"}

(* One of the packets of s is x.                                           *)
says(s, x) == \E i \in 1..Len(s) : s[i] = x

(* The helper has not seen RELEASE and never will if nobody sends it.      *)
Unreleased(l) ==
    /\ helper[l] \in {"none", "started", "connected", "ready", "gone"}
    /\ consumer[l] = "none"
    /\ ~says(outbox[l], "RELEASE")

(* A worker runs only in a provider that is up; it listens, with its lease *)
(* published, exactly while a helper may connect; and it answers once.     *)
Control(l) ==
    /\ working(l) => daemon = "up"
    /\ l \in sockets => pc[l] \in Serving \cup {"record", "publish", "unstage", "lost"}
    /\ pc[l] \in Serving \cup {"unstage"} => l \in leases
    /\ report[l].cleanup # "none" \/ report[l].outcome # "none" => pc[l] \in Ended
    /\ pc[l] \in {"observe", "signing", "writing"} => sent[l]
    /\ err[l] = "UnitCollision" => unit[l] = "stranger"

(* What exists, by the state of the helper; a helper that was let in, and  *)
(* everything it started, has a lease.                                     *)
Lineage(l) ==
    /\ pc[l] \in Early => unit[l] = "none" /\ helper[l] = "none"
    /\ unit[l] \in {"job", "stranger"} => helper[l] = "none"
    /\ helper[l] \in {"none", "started", "connected", "ready", "released"} =>
           consumer[l] = "none" /\ ~descendant[l]
    /\ helper[l] \notin {"none", "started", "gone"} \/ alive(l) => l \in leases

(* Nothing is released before RELEASE: what an error promises.             *)
NotReleased(l) ==
    \/ pc[l] \in Early \cup Launching
    \/ pc[l] \in {"close", "unused"} /\ ~sent[l]
    \/ report[l].outcome \in Errors
    => Unreleased(l)

(* What the evidence says, reported or still in the channel.               *)
Evidence(l) ==
    /\ report[l].cleanup = "NotStarted" => unit[l] \in {"none", "stranger"} /\ helper[l] = "none"
    /\ report[l].cleanup = "Reaped" => helper[l] \in {"none", "started", "gone"} /\ ~alive(l)
    /\ report[l].reaped \/ says(inbox[l], "REAPED") => helper[l] = "gone" /\ ~alive(l)

(* An exit status, on its way from the helper to the report, is that of    *)
(* the consumer, and is believed only after its start was recorded.        *)
Results(l) ==
    /\ \A x \in Outcomes : says(inbox[l], x) \/ err[l] = x \/ report[l].outcome = x =>
           status[l] = x /\ consumer[l] = "reaped"
    /\ consumer[l] = "exited" => status[l] \in Outcomes
    /\ err[l] \in Outcomes \/ report[l].outcome \in Outcomes => started[l]
    /\ chan[l] = "Executed" /\ pc[l] \in {"observe", "signing", "writing"} => started[l]

(* How much either side can have in the channel.                           *)
Backlog(l) ==
    /\ pc[l] \in Early \cup {"job", "accept", "send"} => outbox[l] = <<>>
    /\ unit[l] = "stranger" => outbox[l] = <<>>
    /\ pc[l] \in {"ready", "release"} => Len(outbox[l]) <= 1
    /\ Len(outbox[l]) <= 2 /\ Len(inbox[l]) <= 3
    /\ helper[l] \in {"none", "started", "connected", "released", "tracing"} => inbox[l] = <<>>
    /\ pc[l] = "release" => helper[l] \in {"ready", "gone"}
    /\ helper[l] \in {"none", "started", "connected"} => ~says(outbox[l], "RELEASE")
    /\ helper[l] = "ready" /\ (pc[l] = "release" \/ says(outbox[l], "RELEASE")) => inbox[l] = <<>>
    /\ helper[l] \in {"ready", "unconfirmed"} => Len(inbox[l]) <= 1
    /\ helper[l] = "reaping" => Len(inbox[l]) <= (IF consumer[l] = "reaped" THEN 2 ELSE 1)

(* The directory of an SSH launch, as prepare fills it.                    *)
Stages == {{}, {"dir"}, {"dir", "pending"}, {"dir", "pending", "known_hosts"}, Files}

(* The agent has a key only between the last file and the one signature.   *)
Key(l) ==
    /\ daemon # "up" \/ pc[l] = "queued" => agent[l] = Closed
    /\ pc[l] = "queued" => material[l] = {}
    /\ pc[l] = "prepare" => /\ material[l] \in Stages
                            /\ material[l] \in {{}, {"dir"}} \/ agent[l].open
    /\ pc[l] \in {"queued", "prepare"} => ~agent[l].key /\ signed[l] = 0
    /\ agent[l].open => l \in endpoint
    /\ agent[l].key => material[l] = Files /\ l \in endpoint /\ signed[l] = 0
    /\ agent[l].recipient => started[l]
    /\ pc[l] \in {"signing", "writing"} => agent[l].key
    /\ pc[l] = "writing" => live[l] /\ agent[l].recipient

Inv(l) ==
    /\ Control(l) /\ Lineage(l) /\ NotReleased(l) /\ Evidence(l) /\ Results(l)
    /\ Backlog(l) /\ Key(l)

OneWorker == \A l, m \in Launches : working(l) /\ working(m) => l = m

IInv == Types /\ OneWorker /\ \A l \in Launches : Inv(l)

-----------------------------------------------------------------------------
(* Packets.                                                                *)

LEMMA SaysEmpty == \A x : ~says(<<>>, x)
BY DEF says

LEMMA SaysAppend ==
    ASSUME NEW S, NEW s \in Seq(S), NEW c \in S
    PROVE  /\ Append(s, c) \in Seq(S) /\ Len(Append(s, c)) = Len(s) + 1
           /\ \A x : says(Append(s, c), x) <=> says(s, x) \/ x = c
<1>1. /\ Append(s, c) \in Seq(S) /\ Len(Append(s, c)) = Len(s) + 1
      /\ \A i \in 1..Len(s) : Append(s, c)[i] = s[i]
      /\ Append(s, c)[Len(s) + 1] = c /\ Len(s) \in Nat
  BY AppendProperties, LenProperties
<1>2. ASSUME NEW x PROVE says(Append(s, c), x) <=> says(s, x) \/ x = c
  <2>1. \A i : i \in 1..(Len(s) + 1) <=> i \in 1..Len(s) \/ i = Len(s) + 1
    BY <1>1
  <2> QED
    BY <1>1, <2>1 DEF says
<1> QED
  BY <1>1, <1>2

LEMMA SaysTail ==
    ASSUME NEW S, NEW s \in Seq(S), s # <<>>
    PROVE  /\ Tail(s) \in Seq(S) /\ Len(Tail(s)) = Len(s) - 1 /\ Head(s) \in S
           /\ says(s, Head(s)) /\ \A x : says(Tail(s), x) => says(s, x)
<1>1. /\ Head(s) \in S /\ Tail(s) \in Seq(S) /\ Len(Tail(s)) = Len(s) - 1
      /\ \A i \in 1..Len(Tail(s)) : Tail(s)[i] = s[i + 1]
  BY HeadTailProperties
<1>2. Len(s) \in Nat /\ Len(s) # 0 /\ Head(s) = s[1]
  BY LenProperties, EmptySeq
<1>3. says(s, Head(s))
  BY <1>2 DEF says
<1>4. ASSUME NEW x, says(Tail(s), x) PROVE says(s, x)
  <2>1. PICK i \in 1..Len(Tail(s)) : Tail(s)[i] = x
    BY <1>4 DEF says
  <2>2. i + 1 \in 1..Len(s) /\ s[i + 1] = x
    BY <1>1, <1>2, <2>1
  <2> QED
    BY <2>2 DEF says
<1> QED
  BY <1>1, <1>3, <1>4

LEMMA ShortIsEmpty ==
    ASSUME NEW S, NEW s \in Seq(S)
    PROVE  Len(s) \in Nat /\ (Len(s) <= 0 <=> s = <<>>) /\ Len(<<>>) = 0 /\ <<>> \in Seq(S)
BY LenProperties, EmptySeq

-----------------------------------------------------------------------------
(* A step of another launch.                                               *)

(* Nothing of l changes, nor whether the provider is up.                   *)
Same(l) ==
    /\ daemon' = daemon
    /\ pc'[l] = pc[l] /\ err'[l] = err[l] /\ sent'[l] = sent[l] /\ report'[l] = report[l]
    /\ live'[l] = live[l] /\ started'[l] = started[l]
    /\ (l \in leases' <=> l \in leases) /\ (l \in sockets' <=> l \in sockets)
    /\ unit'[l] = unit[l] /\ helper'[l] = helper[l] /\ consumer'[l] = consumer[l]
    /\ descendant'[l] = descendant[l] /\ status'[l] = status[l]
    /\ chan'[l] = chan[l] /\ inbox'[l] = inbox[l] /\ outbox'[l] = outbox[l]
    /\ agent'[l] = agent[l] /\ signed'[l] = signed[l] /\ material'[l] = material[l]
    /\ (l \in endpoint' <=> l \in endpoint)

LEMMA SameInv ==
    ASSUME NEW l \in Launches, Inv(l), Same(l)
    PROVE  Inv(l)'
<1>1. Control(l)'
  BY DEF Inv, Control, Same, working
<1>2. Lineage(l)'
  BY DEF Inv, Lineage, Same, alive
<1>3. NotReleased(l)'
  BY DEF Inv, NotReleased, Unreleased, Same
<1>4. Evidence(l)'
  BY DEF Inv, Evidence, Same, alive
<1>5. Results(l)'
  BY DEF Inv, Results, Same
<1>6. Backlog(l)'
  BY DEF Inv, Backlog, Same
<1>7. Key(l)'
  BY DEF Inv, Key, Same
<1> QED
  BY <1>1, <1>2, <1>3, <1>4, <1>5, <1>6, <1>7 DEF Inv

(* What is shown of every action of a launch.                              *)
Local(l) ==
    /\ Types' /\ Inv(l)'
    /\ \A m \in Launches \ {l} : Same(m)
    /\ working(l)' => working(l) \/ \A m \in Launches : ~working(m)

LEMMA LocalStep ==
    ASSUME IInv, NEW l \in Launches, Local(l)
    PROVE  IInv'
<1>1. \A m \in Launches : Inv(m)'
  <2>1. ASSUME NEW m \in Launches, m # l PROVE Inv(m)'
    BY <2>1, SameInv DEF Local, IInv
  <2> QED
    BY <2>1 DEF Local
<1>2. OneWorker'
  <2>1. ASSUME NEW m \in Launches, m # l PROVE working(m)' <=> working(m)
    BY <2>1 DEF Local, Same, working
  <2>2. SUFFICES ASSUME NEW a \in Launches, NEW b \in Launches, working(a)', working(b)', a # b
                 PROVE  FALSE
    BY DEF OneWorker
  <2>3. CASE a # l /\ b # l
    BY <2>1, <2>2, <2>3 DEF IInv, OneWorker
  <2>4. CASE a = l
    BY <2>1, <2>2, <2>4 DEF IInv, OneWorker, Local
  <2>5. CASE b = l
    BY <2>1, <2>2, <2>5 DEF IInv, OneWorker, Local
  <2> QED
    BY <2>3, <2>4, <2>5
<1> QED
  BY <1>1, <1>2 DEF IInv, Local

(* A packet written to the provider, or read by it.                        *)
LEMMA Told ==
    ASSUME BridgeTypes, NEW l \in Launches, NEW c \in Codes, tell(l, c)
    PROVE  /\ inbox' \in [Launches -> Seq(Codes)]
           /\ \A m \in Launches \ {l} : inbox'[m] = inbox[m]
           /\ Len(inbox[l]) \in Nat /\ Len(inbox'[l]) \in Nat
           /\ Len(inbox'[l]) <= Len(inbox[l]) + 1
           /\ \A x : says(inbox'[l], x) => says(inbox[l], x) \/ x = c
<1>1. inbox \in [Launches -> Seq(Codes)]
  BY DEF BridgeTypes
<1>2. /\ Append(inbox[l], c) \in Seq(Codes) /\ Len(Append(inbox[l], c)) = Len(inbox[l]) + 1
      /\ \A x : says(Append(inbox[l], c), x) <=> says(inbox[l], x) \/ x = c
      /\ Len(inbox[l]) \in Nat
  BY <1>1, SaysAppend, LenProperties
<1>3. CASE chan[l] = "closed"
  BY <1>1, <1>2, <1>3 DEF tell
<1>4. CASE chan[l] # "closed"
  <2>1. inbox' = [inbox EXCEPT ![l] = Append(inbox[l], c)]
    BY <1>4 DEF tell
  <2>2. inbox'[l] = Append(inbox[l], c)
    BY <1>1, <2>1
  <2> QED
    BY <1>1, <1>2, <2>1, <2>2
<1> QED
  BY <1>3, <1>4

LEMMA Taken ==
    ASSUME BridgeTypes, NEW l \in Launches, inbox[l] # <<>>,
           inbox' = [inbox EXCEPT ![l] = Tail(@)]
    PROVE  /\ inbox' \in [Launches -> Seq(Codes)]
           /\ \A m \in Launches \ {l} : inbox'[m] = inbox[m]
           /\ Len(inbox[l]) \in Nat /\ Len(inbox'[l]) \in Nat
           /\ Len(inbox'[l]) = Len(inbox[l]) - 1 /\ (Len(inbox'[l]) = 0 => inbox'[l] = <<>>)
           /\ Head(inbox[l]) \in Codes /\ says(inbox[l], Head(inbox[l]))
           /\ \A x : says(inbox'[l], x) => says(inbox[l], x)
<1>1. inbox \in [Launches -> Seq(Codes)]
  BY DEF BridgeTypes
<1>2. /\ Tail(inbox[l]) \in Seq(Codes) /\ Len(Tail(inbox[l])) = Len(inbox[l]) - 1
      /\ Head(inbox[l]) \in Codes /\ says(inbox[l], Head(inbox[l]))
      /\ \A x : says(Tail(inbox[l]), x) => says(inbox[l], x)
  BY <1>1, SaysTail
<1>3. /\ Len(inbox[l]) \in Nat /\ Len(Tail(inbox[l])) \in Nat
      /\ Len(Tail(inbox[l])) = 0 => Tail(inbox[l]) = <<>>
  BY <1>1, <1>2, ShortIsEmpty
<1>4. inbox'[l] = Tail(inbox[l])
  BY <1>1
<1> QED
  BY <1>1, <1>2, <1>3, <1>4

(* The two packets of the provider.                                        *)
LEMMA Posted ==
    ASSUME BridgeTypes, NEW l \in Launches, NEW c \in {"TRANSFER", "RELEASE"},
           outbox' = [outbox EXCEPT ![l] = Append(@, c)]
    PROVE  /\ outbox' \in [Launches -> Seq({"TRANSFER", "RELEASE"})]
           /\ \A m \in Launches \ {l} : outbox'[m] = outbox[m]
           /\ Len(outbox[l]) \in Nat /\ Len(outbox'[l]) \in Nat
           /\ Len(outbox'[l]) = Len(outbox[l]) + 1
           /\ \A x : says(outbox'[l], x) => says(outbox[l], x) \/ x = c
<1>1. outbox \in [Launches -> Seq({"TRANSFER", "RELEASE"})]
  BY DEF BridgeTypes
<1>2. /\ Append(outbox[l], c) \in Seq({"TRANSFER", "RELEASE"})
      /\ Len(Append(outbox[l], c)) = Len(outbox[l]) + 1
      /\ \A x : says(Append(outbox[l], c), x) <=> says(outbox[l], x) \/ x = c
      /\ Len(outbox[l]) \in Nat
  BY <1>1, SaysAppend, LenProperties
<1>3. outbox'[l] = Append(outbox[l], c)
  BY <1>1
<1> QED
  BY <1>1, <1>2, <1>3

LEMMA Received ==
    ASSUME BridgeTypes, NEW l \in Launches, outbox[l] # <<>>,
           outbox' = [outbox EXCEPT ![l] = Tail(@)]
    PROVE  /\ outbox' \in [Launches -> Seq({"TRANSFER", "RELEASE"})]
           /\ \A m \in Launches \ {l} : outbox'[m] = outbox[m]
           /\ Len(outbox[l]) \in Nat /\ Len(outbox'[l]) \in Nat
           /\ Len(outbox'[l]) = Len(outbox[l]) - 1
           /\ says(outbox[l], Head(outbox[l]))
           /\ \A x : says(outbox'[l], x) => says(outbox[l], x)
<1>1. outbox \in [Launches -> Seq({"TRANSFER", "RELEASE"})]
  BY DEF BridgeTypes
<1>2. /\ Tail(outbox[l]) \in Seq({"TRANSFER", "RELEASE"})
      /\ Len(Tail(outbox[l])) = Len(outbox[l]) - 1
      /\ says(outbox[l], Head(outbox[l]))
      /\ \A x : says(Tail(outbox[l]), x) => says(outbox[l], x)
  BY <1>1, SaysTail
<1>3. Len(outbox[l]) \in Nat /\ Len(Tail(outbox[l])) \in Nat
  BY <1>1, <1>2, LenProperties
<1>4. outbox'[l] = Tail(outbox[l])
  BY <1>1
<1> QED
  BY <1>1, <1>2, <1>3, <1>4

-----------------------------------------------------------------------------
(* The worker: material and lease.                                         *)

USE DEF provider, worker, authority, files, processes, bridge, ssh, goto

(* The worker takes a launch from its queue when it has no other.          *)
LEMMA BeginLocal ==
    ASSUME IInv, NEW l \in Launches, begin(l)
    PROVE  Local(l)
<1>1. Types /\ Inv(l)
  BY DEF IInv
<1>2. /\ daemon = "up" /\ pc[l] = "queued" /\ \A m \in Launches : ~working(m)
      /\ pc'[l] = IF l \in Ssh THEN "prepare" ELSE "execute"
      /\ UNCHANGED <<daemon, err, sent, report, live, started, leases, sockets,
                      unit, helper, consumer, descendant, status, chan, inbox,
                      outbox, agent, signed, material, endpoint>>
  BY <1>1 DEF Types, WorkerTypes, begin
<1>3. Types'
  <2>1. ProviderTypes' /\ AuthorityTypes' /\ FileTypes' /\ ProcessTypes' /\
        BridgeTypes' /\ SshTypes'
    BY <1>1, <1>2 DEF Types, ProviderTypes, AuthorityTypes, FileTypes,
     ProcessTypes, BridgeTypes, SshTypes, begin
  <2>2. WorkerTypes'
    BY <1>1, <1>2 DEF Types, WorkerTypes, Steps, Report, Errors, Outcomes, begin
  <2> QED
    BY <2>1, <2>2 DEF Types
<1>4. \A m \in Launches \ {l} : Same(m)
  BY <1>1, <1>2 DEF Types, Same, WorkerTypes, begin
<1>5. Inv(l)'
  <2>1. Evidence(l)'
    BY <1>1, <1>2 DEF Inv, Evidence, alive
  <2>2. Control(l)'
    BY <1>1, <1>2 DEF Inv, Control, working, Serving, Launching, Ended
  <2>3. Lineage(l)'
    BY <1>1, <1>2 DEF Inv, Lineage, alive, Early
  <2>4. NotReleased(l)'
    BY <1>1, <1>2 DEF Inv, NotReleased, Unreleased, Early, Launching
  <2>5. Results(l)'
    BY <1>1, <1>2 DEF Inv, Results, Outcomes
  <2>6. Backlog(l)'
    BY <1>1, <1>2 DEF Inv, Backlog, Early
  <2>7. Key(l)'
    BY <1>1, <1>2 DEF Inv, Key, Closed, Stages
  <2> QED
    BY <2>1, <2>2, <2>3, <2>4, <2>5, <2>6, <2>7 DEF Inv
<1>6. working(l)' => working(l) \/ \A m \in Launches : ~working(m)
  BY <1>2
<1> QED
  BY <1>3, <1>4, <1>5, <1>6 DEF Local

(* The key goes into an agent whose files are all there.                   *)
LEMMA InstallLocal ==
    ASSUME IInv, NEW l \in Launches, install(l)
    PROVE  Local(l)
<1>1. Types /\ Inv(l)
  BY DEF IInv
<1>2. /\ daemon = "up" /\ pc[l] = "prepare" /\ material[l] = Files
      /\ pc'[l] = "execute"
      /\ agent' = [agent EXCEPT ![l] = [agent[l] EXCEPT !.key = TRUE]]
      /\ agent'[l].key /\ agent'[l].open = agent[l].open
      /\ agent'[l].recipient = agent[l].recipient
      /\ agent'[l] \in Agent
      /\ UNCHANGED <<daemon, err, sent, report, live, started, leases, sockets,
                      unit, helper, consumer, descendant, status, chan, inbox,
                      outbox, signed, material, endpoint>>
  BY <1>1 DEF Types, SshTypes, WorkerTypes, install, Agent
<1>3. Types'
  <2>1. ProviderTypes' /\ AuthorityTypes' /\ FileTypes' /\ ProcessTypes' /\
        BridgeTypes'
    BY <1>1, <1>2 DEF Types, ProviderTypes, AuthorityTypes, FileTypes,
     ProcessTypes, BridgeTypes, install, Agent
  <2>2. WorkerTypes'
    BY <1>1, <1>2 DEF Types, WorkerTypes, Steps, Report, Errors, Outcomes,
     install, Agent
  <2>3. SshTypes'
    BY <1>1, <1>2 DEF Types, SshTypes, Agent, Closed, install, Agent
  <2> QED
    BY <2>1, <2>2, <2>3 DEF Types
<1>4. \A m \in Launches \ {l} : Same(m)
  BY <1>1, <1>2 DEF Types, Same, SshTypes, WorkerTypes, install, Agent
<1>5. Inv(l)'
  <2>1. Evidence(l)'
    BY <1>1, <1>2 DEF Inv, Evidence, alive
  <2>2. Control(l)'
    BY <1>1, <1>2 DEF Inv, Control, working, Serving, Launching, Ended
  <2>3. Lineage(l)'
    BY <1>1, <1>2 DEF Inv, Lineage, alive, Early
  <2>4. NotReleased(l)'
    BY <1>1, <1>2 DEF Inv, NotReleased, Unreleased, Early, Launching
  <2>5. Results(l)'
    BY <1>1, <1>2 DEF Inv, Results, Outcomes
  <2>6. Backlog(l)'
    BY <1>1, <1>2 DEF Inv, Backlog, Early
  <2>7. Key(l)'
    BY <1>1, <1>2 DEF Inv, Key, Closed, Stages, Files
  <2> QED
    BY <2>1, <2>2, <2>3, <2>4, <2>5, <2>6, <2>7 DEF Inv
<1>6. working(l)' => working(l) \/ \A m \in Launches : ~working(m)
  BY <1>1, <1>2 DEF working
<1> QED
  BY <1>3, <1>4, <1>5, <1>6 DEF Local

(* A launch whose material cannot be made is answered NotStarted.          *)
LEMMA PrepareFailsLocal ==
    ASSUME IInv, NEW l \in Launches, prepare_fails(l)
    PROVE  Local(l)
<1>1. Types /\ Inv(l)
  BY DEF IInv
<1>2. /\ daemon = "up" /\ pc[l] = "prepare"
      /\ pc'[l] \in {"finalize", "done"}
      /\ err'[l] = "none"
      /\ sent'[l] = FALSE
      /\ report'[l] = [outcome |-> "ExecutionFailed", cleanup |-> "NotStarted", reaped |-> FALSE]
      /\ live'[l] = FALSE
      /\ UNCHANGED <<daemon, started, leases, sockets, unit, helper, consumer,
                      descendant, status, chan, inbox, outbox, agent, signed,
                      material, endpoint>>
  BY <1>1 DEF Types, AuthorityTypes, WorkerTypes, prepare_fails, answer
<1>3. Types'
  <2>1. ProviderTypes' /\ FileTypes' /\ ProcessTypes' /\ BridgeTypes' /\
        SshTypes'
    BY <1>1, <1>2 DEF Types, ProviderTypes, FileTypes, ProcessTypes, BridgeTypes,
     SshTypes, prepare_fails, answer
  <2>2. WorkerTypes'
    BY <1>1, <1>2 DEF Types, WorkerTypes, Steps, Report, Errors, Outcomes,
     prepare_fails, answer
  <2>3. AuthorityTypes'
    BY <1>1, <1>2 DEF Types, AuthorityTypes, prepare_fails, answer
  <2> QED
    BY <2>1, <2>2, <2>3 DEF Types
<1>4. \A m \in Launches \ {l} : Same(m)
  BY <1>1, <1>2 DEF Types, Same, AuthorityTypes, WorkerTypes, prepare_fails,
     answer
<1>5. Inv(l)'
  <2>1. Control(l)'
    BY <1>1, <1>2 DEF Inv, Control, working, Serving, Launching, Ended
  <2>2. Lineage(l)'
    BY <1>1, <1>2 DEF Inv, Lineage, alive, Early
  <2>3. NotReleased(l)'
    BY <1>1, <1>2 DEF Inv, NotReleased, Unreleased, Early, Launching
  <2>4. Evidence(l)'
    BY <1>1, <1>2 DEF Inv, Evidence, alive, Lineage, Early
  <2>5. Results(l)'
    BY <1>1, <1>2 DEF Inv, Results, Outcomes
  <2>6. Backlog(l)'
    BY <1>1, <1>2 DEF Inv, Backlog, Early
  <2>7. Key(l)'
    BY <1>1, <1>2 DEF Inv, Key, Closed
  <2> QED
    BY <2>1, <2>2, <2>3, <2>4, <2>5, <2>6, <2>7 DEF Inv
<1>6. working(l)' => working(l) \/ \A m \in Launches : ~working(m)
  BY <1>1, <1>2 DEF working
<1> QED
  BY <1>3, <1>4, <1>5, <1>6 DEF Local

(* execute opens the listener.                                             *)
LEMMA ExecuteLocal ==
    ASSUME IInv, NEW l \in Launches, execute(l)
    PROVE  Local(l)
<1>1. Types /\ Inv(l)
  BY DEF IInv
<1>2. /\ daemon = "up" /\ pc[l] = "execute"
      /\ pc'[l] = "record"
      /\ l \in sockets'
      /\ UNCHANGED <<daemon, err, sent, report, live, started, leases, unit,
                      helper, consumer, descendant, status, chan, inbox, outbox,
                      agent, signed, material, endpoint>>
  BY <1>1 DEF Types, FileTypes, WorkerTypes, execute
<1>3. Types'
  <2>1. ProviderTypes' /\ AuthorityTypes' /\ ProcessTypes' /\ BridgeTypes' /\
        SshTypes'
    BY <1>1, <1>2 DEF Types, ProviderTypes, AuthorityTypes, ProcessTypes,
     BridgeTypes, SshTypes, execute
  <2>2. WorkerTypes'
    BY <1>1, <1>2 DEF Types, WorkerTypes, Steps, Report, Errors, Outcomes,
     execute
  <2>3. FileTypes'
    BY <1>1, <1>2 DEF Types, FileTypes, execute
  <2> QED
    BY <2>1, <2>2, <2>3 DEF Types
<1>4. \A m \in Launches \ {l} : Same(m)
  BY <1>1, <1>2 DEF Types, Same, FileTypes, WorkerTypes, execute
<1>5. Inv(l)'
  <2>1. Evidence(l)'
    BY <1>1, <1>2 DEF Inv, Evidence, alive
  <2>2. Control(l)'
    BY <1>1, <1>2 DEF Inv, Control, working, Serving, Launching, Ended
  <2>3. Lineage(l)'
    BY <1>1, <1>2 DEF Inv, Lineage, alive, Early
  <2>4. NotReleased(l)'
    BY <1>1, <1>2 DEF Inv, NotReleased, Unreleased, Early, Launching
  <2>5. Results(l)'
    BY <1>1, <1>2 DEF Inv, Results, Outcomes
  <2>6. Backlog(l)'
    BY <1>1, <1>2 DEF Inv, Backlog, Early
  <2>7. Key(l)'
    BY <1>1, <1>2 DEF Inv, Key, Closed
  <2> QED
    BY <2>1, <2>2, <2>3, <2>4, <2>5, <2>6, <2>7 DEF Inv
<1>6. working(l)' => working(l) \/ \A m \in Launches : ~working(m)
  BY <1>1, <1>2 DEF working
<1> QED
  BY <1>3, <1>4, <1>5, <1>6 DEF Local

(* execute refuses, or finds no manager.                                   *)
LEMMA NotStartedLocal ==
    ASSUME IInv, NEW l \in Launches, NEW e \in Errors, not_started(l, e)
    PROVE  Local(l)
<1>1. Types /\ Inv(l)
  BY DEF IInv
<1>2. /\ daemon = "up" /\ pc[l] = "execute"
      /\ pc'[l] \in {"finalize", "done"}
      /\ err'[l] = "none"
      /\ sent'[l] = FALSE
      /\ report'[l] = [outcome |-> e, cleanup |-> "NotStarted", reaped |-> FALSE]
      /\ live'[l] = FALSE
      /\ UNCHANGED <<daemon, started, leases, sockets, unit, helper, consumer,
                      descendant, status, chan, inbox, outbox, agent, signed,
                      material, endpoint>>
  BY <1>1 DEF Types, AuthorityTypes, WorkerTypes, not_started, answer, after
<1>3. Types'
  <2>1. ProviderTypes' /\ FileTypes' /\ ProcessTypes' /\ BridgeTypes' /\
        SshTypes'
    BY <1>1, <1>2 DEF Types, ProviderTypes, FileTypes, ProcessTypes, BridgeTypes,
     SshTypes, not_started, answer, after
  <2>2. WorkerTypes'
    BY <1>1, <1>2 DEF Types, WorkerTypes, Steps, Report, Errors, Outcomes,
     not_started, answer, after
  <2>3. AuthorityTypes'
    BY <1>1, <1>2 DEF Types, AuthorityTypes, not_started, answer, after
  <2> QED
    BY <2>1, <2>2, <2>3 DEF Types
<1>4. \A m \in Launches \ {l} : Same(m)
  BY <1>1, <1>2 DEF Types, Same, AuthorityTypes, WorkerTypes, not_started,
     answer, after
<1>5. Inv(l)'
  <2>1. Control(l)'
    BY <1>1, <1>2 DEF Inv, Control, working, Serving, Launching, Ended
  <2>2. Lineage(l)'
    BY <1>1, <1>2 DEF Inv, Lineage, alive, Early
  <2>3. NotReleased(l)'
    BY <1>1, <1>2 DEF Inv, NotReleased, Unreleased, Early, Launching
  <2>4. Evidence(l)'
    BY <1>1, <1>2 DEF Inv, Evidence, alive, Lineage, Early
  <2>5. Results(l)'
    BY <1>1, <1>2 DEF Inv, Results, Outcomes, Errors
  <2>6. Backlog(l)'
    BY <1>1, <1>2 DEF Inv, Backlog, Early
  <2>7. Key(l)'
    BY <1>1, <1>2 DEF Inv, Key, Closed
  <2> QED
    BY <2>1, <2>2, <2>3, <2>4, <2>5, <2>6, <2>7 DEF Inv
<1>6. working(l)' => working(l) \/ \A m \in Launches : ~working(m)
  BY <1>1, <1>2 DEF working
<1> QED
  BY <1>3, <1>4, <1>5, <1>6 DEF Local

(* A lease that cannot be recorded ends the launch before its unit.        *)
LEMMA RecordFailsLocal ==
    ASSUME IInv, NEW l \in Launches, record_fails(l)
    PROVE  Local(l)
<1>1. Types /\ Inv(l)
  BY DEF IInv
<1>2. /\ daemon = "up" /\ pc[l] \in {"record", "publish", "unstage"}
      /\ pc'[l] \in {"finalize", "done"}
      /\ err'[l] = "none"
      /\ sent'[l] = FALSE
      /\ report'[l] = [outcome |-> "ManagerUnavailable", cleanup |-> "NotStarted", reaped |-> FALSE]
      /\ live'[l] = FALSE
      /\ l \notin sockets'
      /\ UNCHANGED <<daemon, started, leases, unit, helper, consumer, descendant,
                      status, chan, inbox, outbox, agent, signed, material,
                      endpoint>>
  BY <1>1 DEF Types, AuthorityTypes, FileTypes, WorkerTypes, record_fails,
     answer, after
<1>3. Types'
  <2>1. ProviderTypes' /\ ProcessTypes' /\ BridgeTypes' /\ SshTypes'
    BY <1>1, <1>2 DEF Types, ProviderTypes, ProcessTypes, BridgeTypes, SshTypes,
     record_fails, answer, after
  <2>2. WorkerTypes'
    BY <1>1, <1>2 DEF Types, WorkerTypes, Steps, Report, Errors, Outcomes,
     record_fails, answer, after
  <2>3. AuthorityTypes'
    BY <1>1, <1>2 DEF Types, AuthorityTypes, record_fails, answer, after
  <2>4. FileTypes'
    BY <1>1, <1>2 DEF Types, FileTypes, record_fails, answer, after
  <2> QED
    BY <2>1, <2>2, <2>3, <2>4 DEF Types
<1>4. \A m \in Launches \ {l} : Same(m)
  BY <1>1, <1>2 DEF Types, Same, AuthorityTypes, FileTypes, WorkerTypes,
     record_fails, answer, after
<1>5. Inv(l)'
  <2>1. Control(l)'
    BY <1>1, <1>2 DEF Inv, Control, working, Serving, Launching, Ended
  <2>2. Lineage(l)'
    BY <1>1, <1>2 DEF Inv, Lineage, alive, Early
  <2>3. NotReleased(l)'
    BY <1>1, <1>2 DEF Inv, NotReleased, Unreleased, Early, Launching
  <2>4. Evidence(l)'
    BY <1>1, <1>2 DEF Inv, Evidence, alive, Lineage, Early
  <2>5. Results(l)'
    BY <1>1, <1>2 DEF Inv, Results, Outcomes
  <2>6. Backlog(l)'
    BY <1>1, <1>2 DEF Inv, Backlog, Early
  <2>7. Key(l)'
    BY <1>1, <1>2 DEF Inv, Key, Closed
  <2> QED
    BY <2>1, <2>2, <2>3, <2>4, <2>5, <2>6, <2>7 DEF Inv
<1>6. working(l)' => working(l) \/ \A m \in Launches : ~working(m)
  BY <1>1, <1>2 DEF working
<1> QED
  BY <1>3, <1>4, <1>5, <1>6 DEF Local

(* The lease is staged, published and its staging file removed.            *)
LEMMA RecordLocal ==
    ASSUME IInv, NEW l \in Launches, record(l)
    PROVE  Local(l)
<1>1. Types /\ Inv(l)
  BY DEF IInv
<1>2. /\ daemon = "up" /\ pc[l] \in {"record", "publish", "unstage"}
      /\ \/ pc[l] = "record" /\ pc'[l] = "publish" /\ leases' = leases
         \/ pc[l] = "publish" /\ pc'[l] = "unstage" /\ leases' = leases \cup {l}
         \/ pc[l] = "unstage" /\ pc'[l] = "start" /\ leases' = leases
      /\ pc' \in [Launches -> Steps]
      /\ staging' \subseteq Launches /\ leases' \subseteq Launches /\ healthy' = healthy
      /\ UNCHANGED <<daemon, err, sent, report, live, started, sockets, unit,
                      helper, consumer, descendant, status, chan, inbox, outbox,
                      agent, signed, material, endpoint>>
  BY <1>1 DEF Types, FileTypes, WorkerTypes, record, Steps
<1>3. Types'
  <2>1. ProviderTypes' /\ AuthorityTypes' /\ ProcessTypes' /\ BridgeTypes' /\
        SshTypes'
    BY <1>1, <1>2 DEF Types, ProviderTypes, AuthorityTypes, ProcessTypes,
     BridgeTypes, SshTypes, record, Steps
  <2>2. WorkerTypes'
    BY <1>1, <1>2 DEF Types, WorkerTypes, Steps, Report, Errors, Outcomes,
     record, Steps
  <2>3. FileTypes'
    BY <1>1, <1>2 DEF Types, FileTypes, record, Steps
  <2> QED
    BY <2>1, <2>2, <2>3 DEF Types
<1>4. \A m \in Launches \ {l} : Same(m)
  BY <1>1, <1>2 DEF Types, Same, FileTypes, WorkerTypes, record, Steps
<1>5. Inv(l)'
  <2>1. Evidence(l)'
    BY <1>1, <1>2 DEF Inv, Evidence, alive
  <2>2. Control(l)'
    BY <1>1, <1>2 DEF Inv, Control, working, Serving, Launching, Ended
  <2>3. Lineage(l)'
    BY <1>1, <1>2 DEF Inv, Lineage, alive, Early
  <2>4. NotReleased(l)'
    BY <1>1, <1>2 DEF Inv, NotReleased, Unreleased, Early, Launching
  <2>5. Results(l)'
    BY <1>1, <1>2 DEF Inv, Results, Outcomes
  <2>6. Backlog(l)'
    BY <1>1, <1>2 DEF Inv, Backlog, Early
  <2>7. Key(l)'
    BY <1>1, <1>2 DEF Inv, Key, Closed
  <2> QED
    BY <2>1, <2>2, <2>3, <2>4, <2>5, <2>6, <2>7 DEF Inv
<1>6. working(l)' => working(l) \/ \A m \in Launches : ~working(m)
  BY <1>1, <1>2 DEF working
<1> QED
  BY <1>3, <1>4, <1>5, <1>6 DEF Local

(* The files prepare writes, one at a time.                                *)
next_file(S) == <<"dir", "pending", "known_hosts", "agent.json">>[Cardinality(S) + 1]

LEMMA NextFile ==
    /\ next_file({}) = "dir" /\ next_file({"dir"}) = "pending"
    /\ next_file({"dir", "pending"}) = "known_hosts"
    /\ next_file({"dir", "pending", "known_hosts"}) = "agent.json"
<1>1. Cardinality({}) = 0 /\ IsFiniteSet({})
  BY FS_EmptySet
<1>2. Cardinality({"dir"}) = 1 /\ IsFiniteSet({"dir"})
  BY FS_Singleton
<1>3. {"dir", "pending"} = {"dir"} \cup {"pending"} /\ "pending" \notin {"dir"}
  OBVIOUS
<1>4. Cardinality({"dir", "pending"}) = 2 /\ IsFiniteSet({"dir", "pending"})
  BY <1>2, <1>3, FS_AddElement
<1>5. /\ {"dir", "pending", "known_hosts"} = {"dir", "pending"} \cup {"known_hosts"}
      /\ "known_hosts" \notin {"dir", "pending"}
  OBVIOUS
<1>6. Cardinality({"dir", "pending", "known_hosts"}) = 3
  BY <1>4, <1>5, FS_AddElement
<1> QED
  BY <1>1, <1>2, <1>4, <1>6 DEF next_file

LEMMA NextStage ==
    ASSUME NEW S \in Stages, S # Files
    PROVE  /\ S \cup {next_file(S)} \in Stages \ {{}}
           /\ S # {} => S \cup {next_file(S)} # {"dir"}
           /\ S \cup {next_file(S)} = {"dir"} => S = {}
<1>1. CASE S = {}
  BY <1>1, NextFile DEF Stages
<1>2. CASE S = {"dir"}
  <2>1. S \cup {"pending"} = {"dir", "pending"} /\ {"dir", "pending"} # {"dir"}
    BY <1>2
  <2> QED
    BY <1>2, <2>1, NextFile DEF Stages
<1>3. CASE S = {"dir", "pending"}
  <2>1. S \cup {"known_hosts"} = {"dir", "pending", "known_hosts"}
    BY <1>3
  <2>2. {"dir", "pending", "known_hosts"} # {"dir"}
    OBVIOUS
  <2> QED
    BY <1>3, <2>1, <2>2, NextFile DEF Stages
<1>4. CASE S = {"dir", "pending", "known_hosts"}
  <2>1. S \cup {"agent.json"} = Files
    BY <1>4 DEF Files
  <2>2. Files # {"dir"} /\ Files # {}
    BY DEF Files
  <2> QED
    BY <1>4, <2>1, <2>2, NextFile DEF Stages
<1> QED
  BY <1>1, <1>2, <1>3, <1>4 DEF Stages

(* The endpoint is bound once the directory is there.                      *)
LEMMA BindLocal ==
    ASSUME IInv, NEW l \in Launches, prepare(l), material[l] = {"dir"}, ~agent[l].open
    PROVE  Local(l)
<1>1. Types /\ Inv(l)
  BY DEF IInv
<1>a. /\ agent' = [agent EXCEPT ![l] = [agent[l] EXCEPT !.open = TRUE]]
      /\ endpoint' = endpoint \cup {l} /\ material' = material
  BY DEF prepare
<1>b. /\ agent'[l].key = agent[l].key /\ agent'[l].open
      /\ agent'[l].recipient = agent[l].recipient /\ agent'[l] \in Agent
  BY <1>1, <1>a DEF Types, SshTypes, Agent
<1>2. /\ daemon = "up" /\ pc[l] = "prepare"
      /\ agent' = [agent EXCEPT ![l] = [agent[l] EXCEPT !.open = TRUE]]
      /\ agent'[l].key = agent[l].key /\ agent'[l].open
      /\ agent'[l].recipient = agent[l].recipient
      /\ agent'[l] \in Agent
      /\ endpoint' = endpoint \cup {l}
      /\ UNCHANGED <<daemon, pc, err, sent, report, live, started, leases,
                      sockets, unit, helper, consumer, descendant, status, chan,
                      inbox, outbox, signed, material>>
  BY <1>1, <1>a, <1>b DEF Types, SshTypes, prepare
<1>3. Types'
  <2>1. ProviderTypes' /\ WorkerTypes' /\ AuthorityTypes' /\ FileTypes' /\
        ProcessTypes' /\ BridgeTypes'
    BY <1>1, <1>2 DEF Types, ProviderTypes, WorkerTypes, AuthorityTypes,
     FileTypes, ProcessTypes, BridgeTypes, prepare
  <2>2. SshTypes'
    BY <1>1, <1>2, <1>a, <1>b DEF Types, SshTypes, Agent, Closed, prepare
  <2> QED
    BY <2>1, <2>2 DEF Types
<1>4. \A m \in Launches \ {l} : Same(m)
  BY <1>1, <1>2, <1>a, <1>b DEF Types, Same, SshTypes, prepare
<1>5. Inv(l)'
  <2>1. Control(l)' /\ Lineage(l)' /\ NotReleased(l)' /\ Evidence(l)' /\ Results(l)' /\ Backlog(l)'
    BY <1>1, <1>2 DEF Inv, Control, working, Serving, Launching, Ended, Lineage,
     alive, Early, NotReleased, Unreleased, Evidence, Results, Outcomes, Backlog
  <2>2. Key(l)'
    BY <1>1, <1>2 DEF Inv, Key, Closed, Stages
  <2> QED
    BY <2>1, <2>2 DEF Inv
<1>6. working(l)' => working(l) \/ \A m \in Launches : ~working(m)
  BY <1>1, <1>2 DEF working
<1> QED
  BY <1>3, <1>4, <1>5, <1>6 DEF Local

(* The other files follow in their order.                                  *)
LEMMA WriteLocal ==
    ASSUME IInv, NEW l \in Launches, prepare(l), ~(material[l] = {"dir"} /\ ~agent[l].open)
    PROVE  Local(l)
<1>1. Types /\ Inv(l)
  BY DEF IInv
<1>a. /\ pc[l] = "prepare" /\ material[l] # Files
      /\ material' = [material EXCEPT ![l] = material[l] \cup {next_file(material[l])}]
  BY DEF prepare, next_file
<1>b. material[l] \in Stages /\ (material[l] \in {{}, {"dir"}} \/ agent[l].open)
  BY <1>1, <1>a DEF Inv, Key
<1>c. /\ material'[l] = material[l] \cup {next_file(material[l])}
      /\ material'[l] \in Stages \ {{}} /\ (material'[l] = {"dir"} \/ agent[l].open)
      /\ material'[l] \subseteq Files
  <2>1. material'[l] = material[l] \cup {next_file(material[l])}
    BY <1>1, <1>a DEF Types, SshTypes
  <2>2. material'[l] \in Stages \ {{}}
    BY <1>a, <1>b, <2>1, NextStage
  <2>3. \A S \in Stages : S \subseteq Files
    BY DEF Stages, Files
  <2>4. ASSUME ~agent[l].open PROVE material'[l] = {"dir"}
    <3>1. material[l] = {}
      BY <1>b, <2>4
    <3> QED
      BY <2>1, <3>1, NextFile
  <2> QED
    BY <2>1, <2>2, <2>3, <2>4
<1>2. /\ daemon = "up" /\ pc[l] = "prepare" /\ material[l] # Files /\ material[l] \in Stages
      /\ material' = [material EXCEPT ![l] = material[l] \cup {next_file(material[l])}]
      /\ material'[l] = material[l] \cup {next_file(material[l])}
      /\ material'[l] \in Stages \ {{}} /\ material'[l] \subseteq Files
      /\ material'[l] = {"dir"} \/ agent[l].open
      /\ UNCHANGED <<daemon, pc, err, sent, report, live, started, leases,
                      sockets, unit, helper, consumer, descendant, status, chan,
                      inbox, outbox, agent, signed, endpoint>>
  BY <1>1, <1>a, <1>b, <1>c DEF Types, SshTypes, prepare
<1>3. Types'
  <2>1. ProviderTypes' /\ WorkerTypes' /\ AuthorityTypes' /\ FileTypes' /\
        ProcessTypes' /\ BridgeTypes'
    BY <1>1, <1>2 DEF Types, ProviderTypes, WorkerTypes, AuthorityTypes,
     FileTypes, ProcessTypes, BridgeTypes, prepare
  <2>2. SshTypes'
    BY <1>1, <1>2, <1>a, <1>b, <1>c DEF Types, SshTypes, Agent, Closed, prepare
  <2> QED
    BY <2>1, <2>2 DEF Types
<1>4. \A m \in Launches \ {l} : Same(m)
  BY <1>1, <1>2, <1>a, <1>b, <1>c DEF Types, Same, SshTypes, prepare
<1>5. Inv(l)'
  <2>1. Control(l)' /\ Lineage(l)' /\ NotReleased(l)' /\ Evidence(l)' /\ Results(l)' /\ Backlog(l)'
    BY <1>1, <1>2 DEF Inv, Control, working, Serving, Launching, Ended, Lineage,
     alive, Early, NotReleased, Unreleased, Evidence, Results, Outcomes, Backlog
  <2>2. Key(l)'
    BY <1>1, <1>2 DEF Inv, Key, Closed, Stages
  <2> QED
    BY <2>1, <2>2 DEF Inv
<1>6. working(l)' => working(l) \/ \A m \in Launches : ~working(m)
  BY <1>1, <1>2 DEF working
<1> QED
  BY <1>3, <1>4, <1>5, <1>6 DEF Local

(* finalize closes the agent, then removes file after file.                *)
LEMMA FinalizeLocal ==
    ASSUME IInv, NEW l \in Launches, finalize(l)
    PROVE  Local(l)
<1>1. Types /\ Inv(l)
  BY DEF IInv
<1>a. /\ pc' \in [Launches -> Steps] /\ pc'[l] \in {"finalize", "done"}
      /\ material' \in [Launches -> SUBSET Files]
      /\ \A m \in Launches \ {l} : material'[m] = material[m] /\ pc'[m] = pc[m]
  <2>1. pc \in [Launches -> Steps] /\ material \in [Launches -> SUBSET Files]
    BY <1>1 DEF Types, WorkerTypes, SshTypes
  <2>2. CASE material[l] = {}
    BY <2>1, <2>2 DEF finalize, Steps
  <2>3. CASE material[l] # {}
    <3>1. pc' = pc /\ pc[l] = "finalize" /\ remove_next(l)
      BY <2>3 DEF finalize
    <3>2. PICK f : material' = [material EXCEPT ![l] = @ \ {f}]
      BY <3>1 DEF remove_next
    <3> QED
      BY <2>1, <3>1, <3>2
  <2> QED
    BY <2>2, <2>3
<1>2. /\ daemon = "up" /\ pc[l] = "finalize"
      /\ pc' \in [Launches -> Steps] /\ pc'[l] \in {"finalize", "done"}
      /\ agent' = [agent EXCEPT ![l] = Closed] /\ agent'[l] = Closed
      /\ endpoint' = endpoint \ {l}
      /\ material' \in [Launches -> SUBSET Files]
      /\ \A m \in Launches \ {l} : material'[m] = material[m] /\ pc'[m] = pc[m]
      /\ UNCHANGED <<daemon, err, sent, report, live, started, leases, sockets,
                      unit, helper, consumer, descendant, status, chan, inbox,
                      outbox, signed>>
  BY <1>1, <1>a DEF Types, SshTypes, WorkerTypes, finalize, close_agent
<1>3. Types'
  <2>1. ProviderTypes' /\ AuthorityTypes' /\ FileTypes' /\ ProcessTypes' /\
        BridgeTypes'
    BY <1>1, <1>2 DEF Types, ProviderTypes, AuthorityTypes, FileTypes,
     ProcessTypes, BridgeTypes, finalize, close_agent
  <2>2. WorkerTypes'
    BY <1>1, <1>2, <1>a DEF Types, WorkerTypes, Steps, Report, Errors, Outcomes,
     finalize, close_agent
  <2>3. SshTypes'
    BY <1>1, <1>2, <1>a DEF Types, SshTypes, Agent, Closed, finalize, close_agent
  <2> QED
    BY <2>1, <2>2, <2>3 DEF Types
<1>4. \A m \in Launches \ {l} : Same(m)
  BY <1>1, <1>2, <1>a DEF Types, Same, SshTypes, WorkerTypes, finalize,
     close_agent
<1>5. Inv(l)'
  <2>1. Evidence(l)'
    BY <1>1, <1>2 DEF Inv, Evidence, alive
  <2>2. Control(l)'
    BY <1>1, <1>2 DEF Inv, Control, working, Serving, Launching, Ended
  <2>3. Lineage(l)'
    BY <1>1, <1>2 DEF Inv, Lineage, alive, Early
  <2>4. NotReleased(l)'
    BY <1>1, <1>2 DEF Inv, NotReleased, Unreleased, Early, Launching
  <2>5. Results(l)'
    BY <1>1, <1>2 DEF Inv, Results, Outcomes
  <2>6. Backlog(l)'
    BY <1>1, <1>2 DEF Inv, Backlog, Early
  <2>7. Key(l)'
    BY <1>1, <1>2 DEF Inv, Key, Closed, Stages
  <2> QED
    BY <2>1, <2>2, <2>3, <2>4, <2>5, <2>6, <2>7 DEF Inv
<1>6. working(l)' => working(l) \/ \A m \in Launches : ~working(m)
  BY <1>1, <1>2 DEF working
<1> QED
  BY <1>3, <1>4, <1>5, <1>6 DEF Local

(* A removal that fails leaves the rest behind, without an agent.          *)
LEMMA FinalizeFailsLocal ==
    ASSUME IInv, NEW l \in Launches, finalize_fails(l)
    PROVE  Local(l)
<1>1. Types /\ Inv(l)
  BY DEF IInv
<1>2. /\ daemon = "up" /\ pc[l] = "finalize"
      /\ pc'[l] = "done"
      /\ agent' = [agent EXCEPT ![l] = Closed] /\ agent'[l] = Closed
      /\ endpoint' = endpoint \ {l}
      /\ UNCHANGED <<daemon, err, sent, report, live, started, leases, sockets,
                      unit, helper, consumer, descendant, status, chan, inbox,
                      outbox, signed, material>>
  BY <1>1 DEF Types, SshTypes, WorkerTypes, finalize_fails, close_agent
<1>3. Types'
  <2>1. ProviderTypes' /\ AuthorityTypes' /\ FileTypes' /\ ProcessTypes' /\
        BridgeTypes'
    BY <1>1, <1>2 DEF Types, ProviderTypes, AuthorityTypes, FileTypes,
     ProcessTypes, BridgeTypes, finalize_fails, close_agent
  <2>2. WorkerTypes'
    BY <1>1, <1>2 DEF Types, WorkerTypes, Steps, Report, Errors, Outcomes,
     finalize_fails, close_agent
  <2>3. SshTypes'
    BY <1>1, <1>2 DEF Types, SshTypes, Agent, Closed, finalize_fails, close_agent
  <2> QED
    BY <2>1, <2>2, <2>3 DEF Types
<1>4. \A m \in Launches \ {l} : Same(m)
  BY <1>1, <1>2 DEF Types, Same, SshTypes, WorkerTypes, finalize_fails,
     close_agent
<1>5. Inv(l)'
  <2>1. Evidence(l)'
    BY <1>1, <1>2 DEF Inv, Evidence, alive
  <2>2. Control(l)'
    BY <1>1, <1>2 DEF Inv, Control, working, Serving, Launching, Ended
  <2>3. Lineage(l)'
    BY <1>1, <1>2 DEF Inv, Lineage, alive, Early
  <2>4. NotReleased(l)'
    BY <1>1, <1>2 DEF Inv, NotReleased, Unreleased, Early, Launching
  <2>5. Results(l)'
    BY <1>1, <1>2 DEF Inv, Results, Outcomes
  <2>6. Backlog(l)'
    BY <1>1, <1>2 DEF Inv, Backlog, Early
  <2>7. Key(l)'
    BY <1>1, <1>2 DEF Inv, Key, Closed
  <2> QED
    BY <2>1, <2>2, <2>3, <2>4, <2>5, <2>6, <2>7 DEF Inv
<1>6. working(l)' => working(l) \/ \A m \in Launches : ~working(m)
  BY <1>1, <1>2 DEF working
<1> QED
  BY <1>3, <1>4, <1>5, <1>6 DEF Local

-----------------------------------------------------------------------------
(* The worker: the unit and the bridge.                                    *)

(* A launch whose authority ended is closed at the worker's next check.    *)
LEMMA CancelledLocal ==
    ASSUME IInv, NEW l \in Launches, cancelled(l)
    PROVE  Local(l)
<1>1. Types /\ Inv(l)
  BY DEF IInv
<1>2. /\ daemon = "up" /\ pc[l] \in {"start", "accept", "send", "ready", "release", "observe"}
      /\ pc'[l] = "close"
      /\ err'[l] = "ExecutionFailed"
      /\ UNCHANGED <<daemon, sent, report, live, started, leases, sockets, unit,
                      helper, consumer, descendant, status, chan, inbox, outbox,
                      agent, signed, material, endpoint>>
  BY <1>1 DEF Types, WorkerTypes, cancelled, fail
<1>3. Types'
  <2>1. ProviderTypes' /\ AuthorityTypes' /\ FileTypes' /\ ProcessTypes' /\
        BridgeTypes' /\ SshTypes'
    BY <1>1, <1>2 DEF Types, ProviderTypes, AuthorityTypes, FileTypes,
     ProcessTypes, BridgeTypes, SshTypes, cancelled, fail
  <2>2. WorkerTypes'
    BY <1>1, <1>2 DEF Types, WorkerTypes, Steps, Report, Errors, Outcomes,
     cancelled, fail
  <2> QED
    BY <2>1, <2>2 DEF Types
<1>4. \A m \in Launches \ {l} : Same(m)
  BY <1>1, <1>2 DEF Types, Same, WorkerTypes, cancelled, fail
<1>5. Inv(l)'
  <2>1. Evidence(l)'
    BY <1>1, <1>2 DEF Inv, Evidence, alive
  <2>2. Control(l)'
    BY <1>1, <1>2 DEF Inv, Control, working, Serving, Launching, Ended
  <2>3. Lineage(l)'
    BY <1>1, <1>2 DEF Inv, Lineage, alive, Early
  <2>4. NotReleased(l)'
    BY <1>1, <1>2 DEF Inv, NotReleased, Unreleased, Early, Launching, Control
  <2>5. Results(l)'
    BY <1>1, <1>2 DEF Inv, Results, Outcomes, Errors
  <2>6. Backlog(l)'
    BY <1>1, <1>2 DEF Inv, Backlog, Early
  <2>7. Key(l)'
    BY <1>1, <1>2 DEF Inv, Key, Closed
  <2> QED
    BY <2>1, <2>2, <2>3, <2>4, <2>5, <2>6, <2>7 DEF Inv
<1>6. working(l)' => working(l) \/ \A m \in Launches : ~working(m)
  BY <1>1, <1>2 DEF working
<1> QED
  BY <1>3, <1>4, <1>5, <1>6 DEF Local

(* The user manager accepts the unit.                                      *)
LEMMA StartLocal ==
    ASSUME IInv, NEW l \in Launches, start(l)
    PROVE  Local(l)
<1>1. Types /\ Inv(l)
  BY DEF IInv
<1>2. /\ daemon = "up" /\ pc[l] = "start"
      /\ pc'[l] = "job"
      /\ unit'[l] = "job"
      /\ UNCHANGED <<daemon, err, sent, report, live, started, leases, sockets,
                      helper, consumer, descendant, status, chan, inbox, outbox,
                      agent, signed, material, endpoint>>
  BY <1>1 DEF Types, ProcessTypes, WorkerTypes, start
<1>3. Types'
  <2>1. ProviderTypes' /\ AuthorityTypes' /\ FileTypes' /\ BridgeTypes' /\
        SshTypes'
    BY <1>1, <1>2 DEF Types, ProviderTypes, AuthorityTypes, FileTypes,
     BridgeTypes, SshTypes, start
  <2>2. WorkerTypes'
    BY <1>1, <1>2 DEF Types, WorkerTypes, Steps, Report, Errors, Outcomes, start
  <2>3. ProcessTypes'
    BY <1>1, <1>2 DEF Types, ProcessTypes, Outcomes, start
  <2> QED
    BY <2>1, <2>2, <2>3 DEF Types
<1>4. \A m \in Launches \ {l} : Same(m)
  BY <1>1, <1>2 DEF Types, Same, ProcessTypes, WorkerTypes, start
<1>5. Inv(l)'
  <2>1. Control(l)'
    BY <1>1, <1>2 DEF Inv, Control, working, Serving, Launching, Ended, Lineage,
     Early
  <2>2. Lineage(l)'
    BY <1>1, <1>2 DEF Inv, Lineage, alive, Early
  <2>3. NotReleased(l)'
    BY <1>1, <1>2 DEF Inv, NotReleased, Unreleased, Early, Launching
  <2>4. Evidence(l)'
    BY <1>1, <1>2 DEF Inv, Evidence, alive, Control, Lineage, Ended, Early
  <2>5. Results(l)'
    BY <1>1, <1>2 DEF Inv, Results, Outcomes
  <2>6. Backlog(l)'
    BY <1>1, <1>2 DEF Inv, Backlog, Early
  <2>7. Key(l)'
    BY <1>1, <1>2 DEF Inv, Key, Closed
  <2> QED
    BY <2>1, <2>2, <2>3, <2>4, <2>5, <2>6, <2>7 DEF Inv
<1>6. working(l)' => working(l) \/ \A m \in Launches : ~working(m)
  BY <1>1, <1>2 DEF working
<1> QED
  BY <1>3, <1>4, <1>5, <1>6 DEF Local

(* The name belongs to another unit: nothing was started.                  *)
LEMMA StartCollidesLocal ==
    ASSUME IInv, NEW l \in Launches, start_collides(l)
    PROVE  Local(l)
<1>1. Types /\ Inv(l)
  BY DEF IInv
<1>2. /\ daemon = "up" /\ pc[l] = "start"
      /\ pc'[l] = "close"
      /\ err'[l] = "UnitCollision"
      /\ unit'[l] = "stranger"
      /\ UNCHANGED <<daemon, sent, report, live, started, leases, sockets,
                      helper, consumer, descendant, status, chan, inbox, outbox,
                      agent, signed, material, endpoint>>
  BY <1>1 DEF Types, ProcessTypes, WorkerTypes, start_collides, fail
<1>3. Types'
  <2>1. ProviderTypes' /\ AuthorityTypes' /\ FileTypes' /\ BridgeTypes' /\
        SshTypes'
    BY <1>1, <1>2 DEF Types, ProviderTypes, AuthorityTypes, FileTypes,
     BridgeTypes, SshTypes, start_collides, fail
  <2>2. WorkerTypes'
    BY <1>1, <1>2 DEF Types, WorkerTypes, Steps, Report, Errors, Outcomes,
     start_collides, fail
  <2>3. ProcessTypes'
    BY <1>1, <1>2 DEF Types, ProcessTypes, Outcomes, start_collides, fail
  <2> QED
    BY <2>1, <2>2, <2>3 DEF Types
<1>4. \A m \in Launches \ {l} : Same(m)
  BY <1>1, <1>2 DEF Types, Same, ProcessTypes, WorkerTypes, start_collides, fail
<1>5. Inv(l)'
  <2>1. Control(l)'
    BY <1>1, <1>2 DEF Inv, Control, working, Serving, Launching, Ended
  <2>2. Lineage(l)'
    BY <1>1, <1>2 DEF Inv, Lineage, alive, Early
  <2>3. NotReleased(l)'
    BY <1>1, <1>2 DEF Inv, NotReleased, Unreleased, Early, Launching, Control
  <2>4. Evidence(l)'
    BY <1>1, <1>2 DEF Inv, Evidence, alive, Control, Ended
  <2>5. Results(l)'
    BY <1>1, <1>2 DEF Inv, Results, Outcomes, Errors
  <2>6. Backlog(l)'
    BY <1>1, <1>2 DEF Inv, Backlog, Early
  <2>7. Key(l)'
    BY <1>1, <1>2 DEF Inv, Key, Closed
  <2> QED
    BY <2>1, <2>2, <2>3, <2>4, <2>5, <2>6, <2>7 DEF Inv
<1>6. working(l)' => working(l) \/ \A m \in Launches : ~working(m)
  BY <1>1, <1>2 DEF working
<1> QED
  BY <1>3, <1>4, <1>5, <1>6 DEF Local

(* Nobody knows whether the call arrived.                                  *)
LEMMA StartLostLocal ==
    ASSUME IInv, NEW l \in Launches, start_lost(l)
    PROVE  Local(l)
<1>1. Types /\ Inv(l)
  BY DEF IInv
<1>2. /\ daemon = "up" /\ pc[l] = "start"
      /\ pc'[l] = "close"
      /\ err'[l] = "ManagerUnavailable"
      /\ unit' \in {unit, [unit EXCEPT ![l] = "job"]} /\ unit'[l] \in {"none", "job"}
      /\ UNCHANGED <<daemon, sent, report, live, started, leases, sockets,
                      helper, consumer, descendant, status, chan, inbox, outbox,
                      agent, signed, material, endpoint>>
  BY <1>1 DEF Types, ProcessTypes, WorkerTypes, start_lost, fail, Inv, Lineage,
     Early
<1>3. Types'
  <2>1. ProviderTypes' /\ AuthorityTypes' /\ FileTypes' /\ BridgeTypes' /\
        SshTypes'
    BY <1>1, <1>2 DEF Types, ProviderTypes, AuthorityTypes, FileTypes,
     BridgeTypes, SshTypes, start_lost, fail, Inv, Lineage, Early
  <2>2. WorkerTypes'
    BY <1>1, <1>2 DEF Types, WorkerTypes, Steps, Report, Errors, Outcomes,
     start_lost, fail, Inv, Lineage, Early
  <2>3. ProcessTypes'
    BY <1>1, <1>2 DEF Types, ProcessTypes, Outcomes, start_lost, fail, Inv,
     Lineage, Early
  <2> QED
    BY <2>1, <2>2, <2>3 DEF Types
<1>4. \A m \in Launches \ {l} : Same(m)
  BY <1>1, <1>2 DEF Types, Same, ProcessTypes, WorkerTypes, start_lost, fail,
     Inv, Lineage, Early
<1>5. Inv(l)'
  <2>1. Control(l)'
    BY <1>1, <1>2 DEF Inv, Control, working, Serving, Launching, Ended, Lineage,
     Early
  <2>2. Lineage(l)'
    BY <1>1, <1>2 DEF Inv, Lineage, alive, Early
  <2>3. NotReleased(l)'
    BY <1>1, <1>2 DEF Inv, NotReleased, Unreleased, Early, Launching, Control
  <2>4. Evidence(l)'
    BY <1>1, <1>2 DEF Inv, Evidence, alive, Control, Ended
  <2>5. Results(l)'
    BY <1>1, <1>2 DEF Inv, Results, Outcomes, Errors
  <2>6. Backlog(l)'
    BY <1>1, <1>2 DEF Inv, Backlog, Early
  <2>7. Key(l)'
    BY <1>1, <1>2 DEF Inv, Key, Closed
  <2> QED
    BY <2>1, <2>2, <2>3, <2>4, <2>5, <2>6, <2>7 DEF Inv
<1>6. working(l)' => working(l) \/ \A m \in Launches : ~working(m)
  BY <1>1, <1>2 DEF working
<1> QED
  BY <1>3, <1>4, <1>5, <1>6 DEF Local

(* The manager vouches for the helper.                                     *)
LEMMA WaitJobLocal ==
    ASSUME IInv, NEW l \in Launches, wait_job(l)
    PROVE  Local(l)
<1>1. Types /\ Inv(l)
  BY DEF IInv
<1>2. /\ daemon = "up" /\ pc[l] = "job"
      /\ pc'[l] = "accept"
      /\ UNCHANGED <<daemon, err, sent, report, live, started, leases, sockets,
                      unit, helper, consumer, descendant, status, chan, inbox,
                      outbox, agent, signed, material, endpoint>>
  BY <1>1 DEF Types, WorkerTypes, wait_job
<1>3. Types'
  <2>1. ProviderTypes' /\ AuthorityTypes' /\ FileTypes' /\ ProcessTypes' /\
        BridgeTypes' /\ SshTypes'
    BY <1>1, <1>2 DEF Types, ProviderTypes, AuthorityTypes, FileTypes,
     ProcessTypes, BridgeTypes, SshTypes, wait_job
  <2>2. WorkerTypes'
    BY <1>1, <1>2 DEF Types, WorkerTypes, Steps, Report, Errors, Outcomes,
     wait_job
  <2> QED
    BY <2>1, <2>2 DEF Types
<1>4. \A m \in Launches \ {l} : Same(m)
  BY <1>1, <1>2 DEF Types, Same, WorkerTypes, wait_job
<1>5. Inv(l)'
  <2>1. Evidence(l)'
    BY <1>1, <1>2 DEF Inv, Evidence, alive
  <2>2. Control(l)'
    BY <1>1, <1>2 DEF Inv, Control, working, Serving, Launching, Ended
  <2>3. Lineage(l)'
    BY <1>1, <1>2 DEF Inv, Lineage, alive, Early
  <2>4. NotReleased(l)'
    BY <1>1, <1>2 DEF Inv, NotReleased, Unreleased, Early, Launching
  <2>5. Results(l)'
    BY <1>1, <1>2 DEF Inv, Results, Outcomes
  <2>6. Backlog(l)'
    BY <1>1, <1>2 DEF Inv, Backlog, Early
  <2>7. Key(l)'
    BY <1>1, <1>2 DEF Inv, Key, Closed
  <2> QED
    BY <2>1, <2>2, <2>3, <2>4, <2>5, <2>6, <2>7 DEF Inv
<1>6. working(l)' => working(l) \/ \A m \in Launches : ~working(m)
  BY <1>1, <1>2 DEF working
<1> QED
  BY <1>3, <1>4, <1>5, <1>6 DEF Local

(* The helper is let in.                                                   *)
LEMMA AcceptLocal ==
    ASSUME IInv, NEW l \in Launches, accept(l)
    PROVE  Local(l)
<1>1. Types /\ Inv(l)
  BY DEF IInv
<1>2. /\ daemon = "up" /\ pc[l] = "accept"
      /\ pc'[l] = "send"
      /\ chan'[l] = "Connected"
      /\ UNCHANGED <<daemon, err, sent, report, live, started, leases, sockets,
                      unit, helper, consumer, descendant, status, inbox, outbox,
                      agent, signed, material, endpoint>>
  BY <1>1 DEF Types, BridgeTypes, WorkerTypes, accept
<1>3. Types'
  <2>1. ProviderTypes' /\ AuthorityTypes' /\ FileTypes' /\ ProcessTypes' /\
        SshTypes'
    BY <1>1, <1>2 DEF Types, ProviderTypes, AuthorityTypes, FileTypes,
     ProcessTypes, SshTypes, accept
  <2>2. WorkerTypes'
    BY <1>1, <1>2 DEF Types, WorkerTypes, Steps, Report, Errors, Outcomes, accept
  <2>3. BridgeTypes'
    BY <1>1, <1>2 DEF Types, BridgeTypes, Codes, Outcomes, accept
  <2> QED
    BY <2>1, <2>2, <2>3 DEF Types
<1>4. \A m \in Launches \ {l} : Same(m)
  BY <1>1, <1>2 DEF Types, Same, BridgeTypes, WorkerTypes, accept
<1>5. Inv(l)'
  <2>1. Evidence(l)'
    BY <1>1, <1>2 DEF Inv, Evidence, alive
  <2>2. Control(l)'
    BY <1>1, <1>2 DEF Inv, Control, working, Serving, Launching, Ended
  <2>3. Lineage(l)'
    BY <1>1, <1>2 DEF Inv, Lineage, alive, Early
  <2>4. NotReleased(l)'
    BY <1>1, <1>2 DEF Inv, NotReleased, Unreleased, Early, Launching
  <2>5. Results(l)'
    BY <1>1, <1>2 DEF Inv, Results, Outcomes
  <2>6. Backlog(l)'
    BY <1>1, <1>2 DEF Inv, Backlog, Early
  <2>7. Key(l)'
    BY <1>1, <1>2 DEF Inv, Key, Closed
  <2> QED
    BY <2>1, <2>2, <2>3, <2>4, <2>5, <2>6, <2>7 DEF Inv
<1>6. working(l)' => working(l) \/ \A m \in Launches : ~working(m)
  BY <1>1, <1>2 DEF working
<1> QED
  BY <1>3, <1>4, <1>5, <1>6 DEF Local

(* TRANSFER is written to a helper the manager vouches for.                *)
LEMMA SendLocal ==
    ASSUME IInv, NEW l \in Launches, send(l)
    PROVE  Local(l)
<1>1. Types /\ Inv(l)
  BY DEF IInv
<1>a. BridgeTypes
  BY <1>1 DEF Types
<1>b. /\ outbox' \in [Launches -> Seq({"TRANSFER", "RELEASE"})]
      /\ \A m \in Launches \ {l} : outbox'[m] = outbox[m]
      /\ Len(outbox[l]) \in Nat /\ Len(outbox'[l]) = Len(outbox[l]) + 1
      /\ \A x : says(outbox'[l], x) => says(outbox[l], x) \/ x = "TRANSFER"
  BY <1>a, Posted DEF send
<1>2. /\ daemon = "up" /\ pc[l] = "send" /\ unit[l] = "active"
      /\ pc'[l] = "ready"
      /\ chan'[l] = "Transferred"
      /\ outbox' \in [Launches -> Seq({"TRANSFER", "RELEASE"})]
      /\ \A m \in Launches \ {l} : outbox'[m] = outbox[m]
      /\ Len(outbox[l]) \in Nat /\ Len(outbox'[l]) = Len(outbox[l]) + 1
      /\ \A x : says(outbox'[l], x) => says(outbox[l], x) \/ x = "TRANSFER"
      /\ UNCHANGED <<daemon, err, sent, report, live, started, leases, sockets,
                      unit, helper, consumer, descendant, status, inbox, agent,
                      signed, material, endpoint>>
  BY <1>1, <1>b DEF Types, BridgeTypes, WorkerTypes, send, helper_checked
<1>3. Types'
  <2>1. ProviderTypes' /\ AuthorityTypes' /\ FileTypes' /\ ProcessTypes' /\
        SshTypes'
    BY <1>1, <1>2 DEF Types, ProviderTypes, AuthorityTypes, FileTypes,
     ProcessTypes, SshTypes, send, helper_checked
  <2>2. WorkerTypes'
    BY <1>1, <1>2, <1>b DEF Types, WorkerTypes, Steps, Report, Errors, Outcomes,
     send, helper_checked
  <2>3. BridgeTypes'
    BY <1>1, <1>2, <1>b DEF Types, BridgeTypes, Codes, Outcomes, send,
     helper_checked
  <2> QED
    BY <2>1, <2>2, <2>3 DEF Types
<1>4. \A m \in Launches \ {l} : Same(m)
  BY <1>1, <1>2, <1>b DEF Types, Same, BridgeTypes, WorkerTypes, send,
     helper_checked
<1>5. Inv(l)'
  <2>1. Evidence(l)'
    BY <1>1, <1>2 DEF Inv, Evidence, alive
  <2>2. Control(l)'
    BY <1>1, <1>2 DEF Inv, Control, working, Serving, Launching, Ended
  <2>3. Lineage(l)'
    BY <1>1, <1>2 DEF Inv, Lineage, alive, Early
  <2>4. NotReleased(l)'
    BY <1>1, <1>2 DEF Inv, NotReleased, Unreleased, Early, Launching
  <2>5. Results(l)'
    BY <1>1, <1>2 DEF Inv, Results, Outcomes
  <2>6. Backlog(l)'
    BY <1>1, <1>2, ShortIsEmpty DEF Inv, Backlog, Early
  <2>7. Key(l)'
    BY <1>1, <1>2 DEF Inv, Key, Closed
  <2> QED
    BY <2>1, <2>2, <2>3, <2>4, <2>5, <2>6, <2>7 DEF Inv
<1>6. working(l)' => working(l) \/ \A m \in Launches : ~working(m)
  BY <1>1, <1>2 DEF working
<1> QED
  BY <1>3, <1>4, <1>5, <1>6 DEF Local

(* READY is read: nothing else can be in the channel.                      *)
LEMMA ReadyLocal ==
    ASSUME IInv, NEW l \in Launches, ready(l)
    PROVE  Local(l)
<1>1. Types /\ Inv(l)
  BY DEF IInv
<1>a. BridgeTypes
  BY <1>1 DEF Types
<1>b. /\ inbox' \in [Launches -> Seq(Codes)]
      /\ \A m \in Launches \ {l} : inbox'[m] = inbox[m]
      /\ Len(inbox[l]) \in Nat /\ Len(inbox'[l]) = Len(inbox[l]) - 1
      /\ Len(inbox'[l]) = 0 => inbox'[l] = <<>>
      /\ inbox[l] # <<>> /\ Head(inbox[l]) \in Codes /\ says(inbox[l], Head(inbox[l]))
      /\ \A x : says(inbox'[l], x) => says(inbox[l], x)
  BY <1>a, Taken DEF ready
<1>2. /\ daemon = "up" /\ pc[l] = "ready"
      /\ pc'[l] = "release"
      /\ chan'[l] = "Ready"
      /\ inbox' \in [Launches -> Seq(Codes)]
      /\ \A m \in Launches \ {l} : inbox'[m] = inbox[m]
      /\ Len(inbox[l]) \in Nat /\ Len(inbox'[l]) = Len(inbox[l]) - 1
      /\ Len(inbox'[l]) = 0 => inbox'[l] = <<>>
      /\ inbox[l] # <<>> /\ Head(inbox[l]) \in Codes /\ says(inbox[l], Head(inbox[l]))
      /\ \A x : says(inbox'[l], x) => says(inbox[l], x)
      /\ UNCHANGED <<daemon, err, sent, report, live, started, leases, sockets,
                      unit, helper, consumer, descendant, status, outbox, agent,
                      signed, material, endpoint>>
  BY <1>1, <1>b DEF Types, BridgeTypes, WorkerTypes, ready
<1>3. Types'
  <2>1. ProviderTypes' /\ AuthorityTypes' /\ FileTypes' /\ ProcessTypes' /\
        SshTypes'
    BY <1>1, <1>2 DEF Types, ProviderTypes, AuthorityTypes, FileTypes,
     ProcessTypes, SshTypes, ready
  <2>2. WorkerTypes'
    BY <1>1, <1>2, <1>b DEF Types, WorkerTypes, Steps, Report, Errors, Outcomes,
     ready
  <2>3. BridgeTypes'
    BY <1>1, <1>2, <1>b DEF Types, BridgeTypes, Codes, Outcomes, ready
  <2> QED
    BY <2>1, <2>2, <2>3 DEF Types
<1>4. \A m \in Launches \ {l} : Same(m)
  BY <1>1, <1>2, <1>b DEF Types, Same, BridgeTypes, WorkerTypes, ready
<1>5. Inv(l)'
  <2>1. Control(l)'
    BY <1>1, <1>2 DEF Inv, Control, working, Serving, Launching, Ended
  <2>2. Lineage(l)'
    BY <1>1, <1>2 DEF Inv, Lineage, alive, Early
  <2>3. NotReleased(l)'
    BY <1>1, <1>2 DEF Inv, NotReleased, Unreleased, Early, Launching
  <2>4. Evidence(l)'
    BY <1>1, <1>2 DEF Inv, Evidence, alive
  <2>5. Results(l)'
    BY <1>1, <1>2 DEF Inv, Results, Outcomes
  <2>6. Backlog(l)'
    BY <1>1, <1>2 DEF Inv, Backlog, Early, NotReleased, Unreleased, Launching
  <2>7. Key(l)'
    BY <1>1, <1>2 DEF Inv, Key, Closed
  <2> QED
    BY <2>1, <2>2, <2>3, <2>4, <2>5, <2>6, <2>7 DEF Inv
<1>6. working(l)' => working(l) \/ \A m \in Launches : ~working(m)
  BY <1>1, <1>2 DEF working
<1> QED
  BY <1>3, <1>4, <1>5, <1>6 DEF Local

(* The helper is lost before its release, or takes too long.               *)
LEMMA LaunchFailsLocal ==
    ASSUME IInv, NEW l \in Launches, NEW e \in {"ExecutionFailed", "ManagerUnavailable"}, launch_fails(l, e)
    PROVE  Local(l)
<1>1. Types /\ Inv(l)
  BY DEF IInv
<1>2. /\ daemon = "up" /\ pc[l] \in Launching
      /\ pc'[l] = "close"
      /\ err'[l] = e
      /\ UNCHANGED <<daemon, sent, report, live, started, leases, sockets, unit,
                      helper, consumer, descendant, status, chan, inbox, outbox,
                      agent, signed, material, endpoint>>
  BY <1>1 DEF Types, WorkerTypes, launch_fails, fail, Launching
<1>3. Types'
  <2>1. ProviderTypes' /\ AuthorityTypes' /\ FileTypes' /\ ProcessTypes' /\
        BridgeTypes' /\ SshTypes'
    BY <1>1, <1>2 DEF Types, ProviderTypes, AuthorityTypes, FileTypes,
     ProcessTypes, BridgeTypes, SshTypes, launch_fails, fail, Launching
  <2>2. WorkerTypes'
    BY <1>1, <1>2 DEF Types, WorkerTypes, Steps, Report, Errors, Outcomes,
     launch_fails, fail, Launching
  <2> QED
    BY <2>1, <2>2 DEF Types
<1>4. \A m \in Launches \ {l} : Same(m)
  BY <1>1, <1>2 DEF Types, Same, WorkerTypes, launch_fails, fail, Launching
<1>5. Inv(l)'
  <2>1. Evidence(l)'
    BY <1>1, <1>2 DEF Inv, Evidence, alive
  <2>2. Control(l)'
    BY <1>1, <1>2 DEF Inv, Control, working, Serving, Launching, Ended
  <2>3. Lineage(l)'
    BY <1>1, <1>2 DEF Inv, Lineage, alive, Early
  <2>4. NotReleased(l)'
    BY <1>1, <1>2 DEF Inv, NotReleased, Unreleased, Early, Launching, Control
  <2>5. Results(l)'
    BY <1>1, <1>2 DEF Inv, Results, Outcomes, Errors
  <2>6. Backlog(l)'
    BY <1>1, <1>2 DEF Inv, Backlog, Early
  <2>7. Key(l)'
    BY <1>1, <1>2 DEF Inv, Key, Closed
  <2> QED
    BY <2>1, <2>2, <2>3, <2>4, <2>5, <2>6, <2>7 DEF Inv
<1>6. working(l)' => working(l) \/ \A m \in Launches : ~working(m)
  BY <1>1, <1>2 DEF working, Launching
<1> QED
  BY <1>3, <1>4, <1>5, <1>6 DEF Local

(* RELEASE is written, under the release gate, to a helper that has        *)
(* answered.                                                               *)
LEMMA ReleaseLocal ==
    ASSUME IInv, NEW l \in Launches, release(l)
    PROVE  Local(l)
<1>1. Types /\ Inv(l)
  BY DEF IInv
<1>a. BridgeTypes
  BY <1>1 DEF Types
<1>b. /\ outbox' \in [Launches -> Seq({"TRANSFER", "RELEASE"})]
      /\ \A m \in Launches \ {l} : outbox'[m] = outbox[m]
      /\ Len(outbox[l]) \in Nat /\ Len(outbox'[l]) = Len(outbox[l]) + 1
      /\ \A x : says(outbox'[l], x) => says(outbox[l], x) \/ x = "RELEASE"
  BY <1>a, Posted DEF release
<1>2. /\ daemon = "up" /\ pc[l] = "release" /\ unit[l] = "active" /\ helper[l] \notin {"none", "gone"}
      /\ pc'[l] = "observe"
      /\ sent'[l] = TRUE
      /\ chan'[l] = "Released"
      /\ outbox' \in [Launches -> Seq({"TRANSFER", "RELEASE"})]
      /\ \A m \in Launches \ {l} : outbox'[m] = outbox[m]
      /\ Len(outbox[l]) \in Nat /\ Len(outbox'[l]) = Len(outbox[l]) + 1
      /\ \A x : says(outbox'[l], x) => says(outbox[l], x) \/ x = "RELEASE"
      /\ UNCHANGED <<daemon, err, report, live, started, leases, sockets, unit,
                      helper, consumer, descendant, status, inbox, agent, signed,
                      material, endpoint>>
  BY <1>1, <1>b DEF Types, BridgeTypes, WorkerTypes, release, helper_checked
<1>3. Types'
  <2>1. ProviderTypes' /\ AuthorityTypes' /\ FileTypes' /\ ProcessTypes' /\
        SshTypes'
    BY <1>1, <1>2 DEF Types, ProviderTypes, AuthorityTypes, FileTypes,
     ProcessTypes, SshTypes, release, helper_checked
  <2>2. WorkerTypes'
    BY <1>1, <1>2, <1>b DEF Types, WorkerTypes, Steps, Report, Errors, Outcomes,
     release, helper_checked
  <2>3. BridgeTypes'
    BY <1>1, <1>2, <1>b DEF Types, BridgeTypes, Codes, Outcomes, release,
     helper_checked
  <2> QED
    BY <2>1, <2>2, <2>3 DEF Types
<1>4. \A m \in Launches \ {l} : Same(m)
  BY <1>1, <1>2, <1>b DEF Types, Same, BridgeTypes, WorkerTypes, release,
     helper_checked
<1>5. Inv(l)'
  <2>1. Evidence(l)'
    BY <1>1, <1>2 DEF Inv, Evidence, alive
  <2>2. Control(l)'
    BY <1>1, <1>2 DEF Inv, Control, working, Serving, Launching, Ended
  <2>3. Lineage(l)'
    BY <1>1, <1>2 DEF Inv, Lineage, alive, Early
  <2>4. NotReleased(l)'
    BY <1>1, <1>2 DEF Inv, NotReleased, Unreleased, Early, Launching, Control,
     Ended, Errors
  <2>5. Results(l)'
    BY <1>1, <1>2 DEF Inv, Results, Outcomes
  <2>6. Backlog(l)'
    BY <1>1, <1>2 DEF Inv, Backlog, Early, NotReleased, Unreleased, Launching
  <2>7. Key(l)'
    BY <1>1, <1>2 DEF Inv, Key, Closed
  <2> QED
    BY <2>1, <2>2, <2>3, <2>4, <2>5, <2>6, <2>7 DEF Inv
<1>6. working(l)' => working(l) \/ \A m \in Launches : ~working(m)
  BY <1>1, <1>2 DEF working
<1> QED
  BY <1>3, <1>4, <1>5, <1>6 DEF Local

-----------------------------------------------------------------------------
(* The worker: observing, and the agent it polls.                          *)

(* EXEC is read and the start recorded: the agent learns its recipient.    *)
LEMMA ConfirmedLocal ==
    ASSUME IInv, NEW l \in Launches, exec_confirmed(l), UNCHANGED worker,
           started' = [started EXCEPT ![l] = TRUE],
           agent' = [agent EXCEPT ![l].recipient = agent[l].open]
    PROVE  Local(l)
<1>1. Types /\ Inv(l)
  BY DEF IInv
<1>a. BridgeTypes
  BY <1>1 DEF Types
<1>b. /\ inbox' \in [Launches -> Seq(Codes)]
      /\ \A m \in Launches \ {l} : inbox'[m] = inbox[m]
      /\ Len(inbox[l]) \in Nat /\ Len(inbox'[l]) = Len(inbox[l]) - 1
      /\ Len(inbox'[l]) = 0 => inbox'[l] = <<>>
      /\ inbox[l] # <<>> /\ Head(inbox[l]) \in Codes /\ says(inbox[l], Head(inbox[l]))
      /\ \A x : says(inbox'[l], x) => says(inbox[l], x)
  BY <1>a, Taken DEF exec_confirmed
<1>c. /\ agent' = [agent EXCEPT ![l] = [agent[l] EXCEPT !.recipient = agent[l].open]]
      /\ started' = [started EXCEPT ![l] = TRUE] /\ worker' = worker
  BY DEF exec_confirmed
<1>d. agent'[l].key = agent[l].key /\ agent'[l].open = agent[l].open /\ agent'[l] \in Agent
  BY <1>1, <1>c DEF Types, SshTypes, Agent
<1>2. /\ daemon = "up" /\ pc[l] = "observe"
      /\ started' = [started EXCEPT ![l] = TRUE] /\ started'[l]
      /\ chan'[l] = "Executed"
      /\ inbox' \in [Launches -> Seq(Codes)]
      /\ \A m \in Launches \ {l} : inbox'[m] = inbox[m]
      /\ Len(inbox[l]) \in Nat /\ Len(inbox'[l]) = Len(inbox[l]) - 1
      /\ Len(inbox'[l]) = 0 => inbox'[l] = <<>>
      /\ inbox[l] # <<>> /\ Head(inbox[l]) \in Codes /\ says(inbox[l], Head(inbox[l]))
      /\ \A x : says(inbox'[l], x) => says(inbox[l], x)
      /\ agent' = [agent EXCEPT ![l] = [agent[l] EXCEPT !.recipient = agent[l].open]]
      /\ agent'[l].key = agent[l].key /\ agent'[l].open = agent[l].open /\ agent'[l] \in Agent
      /\ UNCHANGED <<daemon, pc, err, sent, report, live, leases, sockets, unit,
                      helper, consumer, descendant, status, outbox, signed,
                      material, endpoint>>
  BY <1>1, <1>b, <1>c, <1>d DEF Types, AuthorityTypes, BridgeTypes, SshTypes,
     exec_confirmed
<1>3. Types'
  <2>1. ProviderTypes' /\ WorkerTypes' /\ FileTypes' /\ ProcessTypes'
    BY <1>1, <1>2 DEF Types, ProviderTypes, WorkerTypes, FileTypes, ProcessTypes,
     exec_confirmed
  <2>2. AuthorityTypes'
    BY <1>1, <1>2, <1>b, <1>c, <1>d DEF Types, AuthorityTypes, exec_confirmed
  <2>3. BridgeTypes'
    BY <1>1, <1>2, <1>b, <1>c, <1>d DEF Types, BridgeTypes, Codes, Outcomes,
     exec_confirmed
  <2>4. SshTypes'
    BY <1>1, <1>2, <1>b, <1>c, <1>d DEF Types, SshTypes, Agent, Closed,
     exec_confirmed
  <2> QED
    BY <2>1, <2>2, <2>3, <2>4 DEF Types
<1>4. \A m \in Launches \ {l} : Same(m)
  BY <1>1, <1>2, <1>b, <1>c, <1>d DEF Types, Same, AuthorityTypes, BridgeTypes,
     SshTypes, exec_confirmed
<1>5. Inv(l)'
  <2>1. Control(l)' /\ Lineage(l)' /\ NotReleased(l)'
    BY <1>1, <1>2 DEF Inv, Control, working, Serving, Launching, Ended, Lineage,
     alive, Early, NotReleased, Unreleased
  <2>2. Evidence(l)'
    BY <1>1, <1>2 DEF Inv, Evidence, alive
  <2>3. Results(l)'
    BY <1>1, <1>2 DEF Inv, Results, Outcomes
  <2>4. Backlog(l)'
    BY <1>1, <1>2 DEF Inv, Backlog, Early
  <2>5. Key(l)'
    BY <1>1, <1>2 DEF Inv, Key, Closed
  <2> QED
    BY <2>1, <2>2, <2>3, <2>4, <2>5 DEF Inv
<1>6. working(l)' => working(l) \/ \A m \in Launches : ~working(m)
  BY <1>1, <1>2 DEF working
<1> QED
  BY <1>3, <1>4, <1>5, <1>6 DEF Local

(* EXEC is read but its start cannot be recorded.                          *)
LEMMA UnrecordedLocal ==
    ASSUME IInv, NEW l \in Launches, exec_confirmed(l), fail(l, "ExecutionFailed"), UNCHANGED agent,
           started' \in {started, [started EXCEPT ![l] = TRUE]}
    PROVE  Local(l)
<1>1. Types /\ Inv(l)
  BY DEF IInv
<1>a. BridgeTypes
  BY <1>1 DEF Types
<1>b. /\ inbox' \in [Launches -> Seq(Codes)]
      /\ \A m \in Launches \ {l} : inbox'[m] = inbox[m]
      /\ Len(inbox[l]) \in Nat /\ Len(inbox'[l]) = Len(inbox[l]) - 1
      /\ Len(inbox'[l]) = 0 => inbox'[l] = <<>>
      /\ inbox[l] # <<>> /\ Head(inbox[l]) \in Codes /\ says(inbox[l], Head(inbox[l]))
      /\ \A x : says(inbox'[l], x) => says(inbox[l], x)
  BY <1>a, Taken DEF exec_confirmed
<1>2. /\ daemon = "up" /\ pc[l] = "observe"
      /\ pc'[l] = "close"
      /\ err'[l] = "ExecutionFailed"
      /\ chan'[l] = "Executed"
      /\ inbox' \in [Launches -> Seq(Codes)]
      /\ \A m \in Launches \ {l} : inbox'[m] = inbox[m]
      /\ Len(inbox[l]) \in Nat /\ Len(inbox'[l]) = Len(inbox[l]) - 1
      /\ Len(inbox'[l]) = 0 => inbox'[l] = <<>>
      /\ inbox[l] # <<>> /\ Head(inbox[l]) \in Codes /\ says(inbox[l], Head(inbox[l]))
      /\ \A x : says(inbox'[l], x) => says(inbox[l], x)
      /\ started' \in [Launches -> BOOLEAN] /\ (started[l] => started'[l])
      /\ \A m \in Launches \ {l} : started'[m] = started[m]
      /\ UNCHANGED <<daemon, sent, report, live, leases, sockets, unit,
                      helper, consumer, descendant, status, outbox, agent,
                      signed, material, endpoint>>
  BY <1>1, <1>b DEF Types, AuthorityTypes, BridgeTypes, WorkerTypes, exec_confirmed, fail
<1>3. Types'
  <2>1. ProviderTypes' /\ AuthorityTypes' /\ FileTypes' /\ ProcessTypes' /\
        SshTypes'
    BY <1>1, <1>2 DEF Types, ProviderTypes, AuthorityTypes, FileTypes,
     ProcessTypes, SshTypes, exec_confirmed, fail
  <2>2. WorkerTypes'
    BY <1>1, <1>2, <1>b DEF Types, WorkerTypes, Steps, Report, Errors, Outcomes,
     exec_confirmed, fail
  <2>3. BridgeTypes'
    BY <1>1, <1>2, <1>b DEF Types, BridgeTypes, Codes, Outcomes, exec_confirmed,
     fail
  <2> QED
    BY <2>1, <2>2, <2>3 DEF Types
<1>4. \A m \in Launches \ {l} : Same(m)
  BY <1>1, <1>2, <1>b DEF Types, Same, BridgeTypes, WorkerTypes, exec_confirmed,
     fail
<1>5. Inv(l)'
  <2>1. Control(l)'
    BY <1>1, <1>2 DEF Inv, Control, working, Serving, Launching, Ended
  <2>2. Lineage(l)'
    BY <1>1, <1>2 DEF Inv, Lineage, alive, Early
  <2>3. NotReleased(l)'
    BY <1>1, <1>2 DEF Inv, NotReleased, Unreleased, Early, Launching, Control
  <2>4. Evidence(l)'
    BY <1>1, <1>2 DEF Inv, Evidence, alive
  <2>5. Results(l)'
    BY <1>1, <1>2 DEF Inv, Results, Outcomes, Errors
  <2>6. Backlog(l)'
    BY <1>1, <1>2 DEF Inv, Backlog, Early
  <2>7. Key(l)'
    BY <1>1, <1>2 DEF Inv, Key, Closed
  <2> QED
    BY <2>1, <2>2, <2>3, <2>4, <2>5, <2>6, <2>7 DEF Inv
<1>6. working(l)' => working(l) \/ \A m \in Launches : ~working(m)
  BY <1>1, <1>2 DEF working
<1> QED
  BY <1>3, <1>4, <1>5, <1>6 DEF Local

(* An exit status is read after the start was recorded.                    *)
LEMMA OutcomeLocal ==
    ASSUME IInv, NEW l \in Launches, outcome(l)
    PROVE  Local(l)
<1>1. Types /\ Inv(l)
  BY DEF IInv
<1>a. BridgeTypes
  BY <1>1 DEF Types
<1>b. /\ inbox' \in [Launches -> Seq(Codes)]
      /\ \A m \in Launches \ {l} : inbox'[m] = inbox[m]
      /\ Len(inbox[l]) \in Nat /\ Len(inbox'[l]) = Len(inbox[l]) - 1
      /\ Len(inbox'[l]) = 0 => inbox'[l] = <<>>
      /\ inbox[l] # <<>> /\ Head(inbox[l]) \in Codes /\ says(inbox[l], Head(inbox[l]))
      /\ \A x : says(inbox'[l], x) => says(inbox[l], x)
  BY <1>a, Taken DEF outcome
<1>2. /\ daemon = "up" /\ pc[l] = "observe" /\ chan[l] = "Executed" /\ Head(inbox[l]) \in Outcomes
      /\ pc'[l] = "close"
      /\ err'[l] = Head(inbox[l])
      /\ chan'[l] = "Outcome"
      /\ inbox' \in [Launches -> Seq(Codes)]
      /\ \A m \in Launches \ {l} : inbox'[m] = inbox[m]
      /\ Len(inbox[l]) \in Nat /\ Len(inbox'[l]) = Len(inbox[l]) - 1
      /\ Len(inbox'[l]) = 0 => inbox'[l] = <<>>
      /\ inbox[l] # <<>> /\ Head(inbox[l]) \in Codes /\ says(inbox[l], Head(inbox[l]))
      /\ \A x : says(inbox'[l], x) => says(inbox[l], x)
      /\ UNCHANGED <<daemon, sent, report, live, started, leases, sockets, unit,
                      helper, consumer, descendant, status, outbox, agent,
                      signed, material, endpoint>>
  BY <1>1, <1>b DEF Types, BridgeTypes, WorkerTypes, outcome, fail
<1>3. Types'
  <2>1. ProviderTypes' /\ AuthorityTypes' /\ FileTypes' /\ ProcessTypes' /\
        SshTypes'
    BY <1>1, <1>2 DEF Types, ProviderTypes, AuthorityTypes, FileTypes,
     ProcessTypes, SshTypes, outcome, fail
  <2>2. WorkerTypes'
    BY <1>1, <1>2, <1>b DEF Types, WorkerTypes, Steps, Report, Errors, Outcomes,
     outcome, fail
  <2>3. BridgeTypes'
    BY <1>1, <1>2, <1>b DEF Types, BridgeTypes, Codes, Outcomes, outcome, fail
  <2> QED
    BY <2>1, <2>2, <2>3 DEF Types
<1>4. \A m \in Launches \ {l} : Same(m)
  BY <1>1, <1>2, <1>b DEF Types, Same, BridgeTypes, WorkerTypes, outcome, fail
<1>5. Inv(l)'
  <2>1. Control(l)'
    BY <1>1, <1>2 DEF Inv, Control, working, Serving, Launching, Ended, Outcomes
  <2>2. Lineage(l)'
    BY <1>1, <1>2 DEF Inv, Lineage, alive, Early
  <2>3. NotReleased(l)'
    BY <1>1, <1>2 DEF Inv, NotReleased, Unreleased, Early, Launching, Control
  <2>4. Evidence(l)'
    BY <1>1, <1>2 DEF Inv, Evidence, alive
  <2>5. Results(l)'
    BY <1>1, <1>2 DEF Inv, Results, Outcomes
  <2>6. Backlog(l)'
    BY <1>1, <1>2 DEF Inv, Backlog, Early
  <2>7. Key(l)'
    BY <1>1, <1>2 DEF Inv, Key, Closed
  <2> QED
    BY <2>1, <2>2, <2>3, <2>4, <2>5, <2>6, <2>7 DEF Inv
<1>6. working(l)' => working(l) \/ \A m \in Launches : ~working(m)
  BY <1>1, <1>2 DEF working
<1> QED
  BY <1>3, <1>4, <1>5, <1>6 DEF Local

(* The helper says that it failed.                                         *)
LEMMA HelperFailedLocal ==
    ASSUME IInv, NEW l \in Launches, helper_failed(l)
    PROVE  Local(l)
<1>1. Types /\ Inv(l)
  BY DEF IInv
<1>a. BridgeTypes
  BY <1>1 DEF Types
<1>b. /\ inbox' \in [Launches -> Seq(Codes)]
      /\ \A m \in Launches \ {l} : inbox'[m] = inbox[m]
      /\ Len(inbox[l]) \in Nat /\ Len(inbox'[l]) = Len(inbox[l]) - 1
      /\ Len(inbox'[l]) = 0 => inbox'[l] = <<>>
      /\ inbox[l] # <<>> /\ Head(inbox[l]) \in Codes /\ says(inbox[l], Head(inbox[l]))
      /\ \A x : says(inbox'[l], x) => says(inbox[l], x)
  BY <1>a, Taken DEF helper_failed
<1>2. /\ daemon = "up" /\ pc[l] \in {"ready", "observe"}
      /\ pc'[l] = "close"
      /\ err'[l] = "ExecutionFailed"
      /\ chan'[l] = "Failed"
      /\ inbox' \in [Launches -> Seq(Codes)]
      /\ \A m \in Launches \ {l} : inbox'[m] = inbox[m]
      /\ Len(inbox[l]) \in Nat /\ Len(inbox'[l]) = Len(inbox[l]) - 1
      /\ Len(inbox'[l]) = 0 => inbox'[l] = <<>>
      /\ inbox[l] # <<>> /\ Head(inbox[l]) \in Codes /\ says(inbox[l], Head(inbox[l]))
      /\ \A x : says(inbox'[l], x) => says(inbox[l], x)
      /\ UNCHANGED <<daemon, sent, report, live, started, leases, sockets, unit,
                      helper, consumer, descendant, status, outbox, agent,
                      signed, material, endpoint>>
  BY <1>1, <1>b DEF Types, BridgeTypes, WorkerTypes, helper_failed, fail
<1>3. Types'
  <2>1. ProviderTypes' /\ AuthorityTypes' /\ FileTypes' /\ ProcessTypes' /\
        SshTypes'
    BY <1>1, <1>2 DEF Types, ProviderTypes, AuthorityTypes, FileTypes,
     ProcessTypes, SshTypes, helper_failed, fail
  <2>2. WorkerTypes'
    BY <1>1, <1>2, <1>b DEF Types, WorkerTypes, Steps, Report, Errors, Outcomes,
     helper_failed, fail
  <2>3. BridgeTypes'
    BY <1>1, <1>2, <1>b DEF Types, BridgeTypes, Codes, Outcomes, helper_failed,
     fail
  <2> QED
    BY <2>1, <2>2, <2>3 DEF Types
<1>4. \A m \in Launches \ {l} : Same(m)
  BY <1>1, <1>2, <1>b DEF Types, Same, BridgeTypes, WorkerTypes, helper_failed,
     fail
<1>5. Inv(l)'
  <2>1. Control(l)'
    BY <1>1, <1>2 DEF Inv, Control, working, Serving, Launching, Ended
  <2>2. Lineage(l)'
    BY <1>1, <1>2 DEF Inv, Lineage, alive, Early
  <2>3. NotReleased(l)'
    BY <1>1, <1>2 DEF Inv, NotReleased, Unreleased, Early, Launching, Control
  <2>4. Evidence(l)'
    BY <1>1, <1>2 DEF Inv, Evidence, alive
  <2>5. Results(l)'
    BY <1>1, <1>2 DEF Inv, Results, Outcomes, Errors
  <2>6. Backlog(l)'
    BY <1>1, <1>2 DEF Inv, Backlog, Early
  <2>7. Key(l)'
    BY <1>1, <1>2 DEF Inv, Key, Closed
  <2> QED
    BY <2>1, <2>2, <2>3, <2>4, <2>5, <2>6, <2>7 DEF Inv
<1>6. working(l)' => working(l) \/ \A m \in Launches : ~working(m)
  BY <1>1, <1>2 DEF working
<1> QED
  BY <1>3, <1>4, <1>5, <1>6 DEF Local

(* The helper is gone and everything it said is read.                      *)
LEMMA EndOfFileLocal ==
    ASSUME IInv, NEW l \in Launches, end_of_file(l)
    PROVE  Local(l)
<1>1. Types /\ Inv(l)
  BY DEF IInv
<1>2. /\ daemon = "up" /\ pc[l] = "observe"
      /\ pc'[l] = "close"
      /\ err'[l] = "ExecutionFailed"
      /\ UNCHANGED <<daemon, sent, report, live, started, leases, sockets, unit,
                      helper, consumer, descendant, status, chan, inbox, outbox,
                      agent, signed, material, endpoint>>
  BY <1>1 DEF Types, WorkerTypes, end_of_file, fail
<1>3. Types'
  <2>1. ProviderTypes' /\ AuthorityTypes' /\ FileTypes' /\ ProcessTypes' /\
        BridgeTypes' /\ SshTypes'
    BY <1>1, <1>2 DEF Types, ProviderTypes, AuthorityTypes, FileTypes,
     ProcessTypes, BridgeTypes, SshTypes, end_of_file, fail
  <2>2. WorkerTypes'
    BY <1>1, <1>2 DEF Types, WorkerTypes, Steps, Report, Errors, Outcomes,
     end_of_file, fail
  <2> QED
    BY <2>1, <2>2 DEF Types
<1>4. \A m \in Launches \ {l} : Same(m)
  BY <1>1, <1>2 DEF Types, Same, WorkerTypes, end_of_file, fail
<1>5. Inv(l)'
  <2>1. Evidence(l)'
    BY <1>1, <1>2 DEF Inv, Evidence, alive
  <2>2. Control(l)'
    BY <1>1, <1>2 DEF Inv, Control, working, Serving, Launching, Ended
  <2>3. Lineage(l)'
    BY <1>1, <1>2 DEF Inv, Lineage, alive, Early
  <2>4. NotReleased(l)'
    BY <1>1, <1>2 DEF Inv, NotReleased, Unreleased, Early, Launching, Control
  <2>5. Results(l)'
    BY <1>1, <1>2 DEF Inv, Results, Outcomes, Errors
  <2>6. Backlog(l)'
    BY <1>1, <1>2 DEF Inv, Backlog, Early
  <2>7. Key(l)'
    BY <1>1, <1>2 DEF Inv, Key, Closed
  <2> QED
    BY <2>1, <2>2, <2>3, <2>4, <2>5, <2>6, <2>7 DEF Inv
<1>6. working(l)' => working(l) \/ \A m \in Launches : ~working(m)
  BY <1>1, <1>2 DEF working
<1> QED
  BY <1>3, <1>4, <1>5, <1>6 DEF Local

(* The end of the launch will not be seen.                                 *)
LEMMA ObservationFailsLocal ==
    ASSUME IInv, NEW l \in Launches, observation_fails(l)
    PROVE  Local(l)
<1>1. Types /\ Inv(l)
  BY DEF IInv
<1>2. /\ daemon = "up" /\ pc[l] = "observe"
      /\ pc'[l] = "close"
      /\ err' \in [Launches -> Errors \cup Outcomes \cup {"none"}] /\ err'[l] \in {"ExecutionFailed", "ManagerUnavailable"}
      /\ \A m \in Launches \ {l} : err'[m] = err[m]
      /\ UNCHANGED <<daemon, sent, report, live, started, leases, sockets, unit,
                      helper, consumer, descendant, status, chan, inbox, outbox,
                      agent, signed, material, endpoint>>
  BY <1>1 DEF Types, WorkerTypes, observation_fails, fail, Errors
<1>3. Types'
  <2>1. ProviderTypes' /\ AuthorityTypes' /\ FileTypes' /\ ProcessTypes' /\
        BridgeTypes' /\ SshTypes'
    BY <1>1, <1>2 DEF Types, ProviderTypes, AuthorityTypes, FileTypes,
     ProcessTypes, BridgeTypes, SshTypes, observation_fails, fail, Errors
  <2>2. WorkerTypes'
    BY <1>1, <1>2 DEF Types, WorkerTypes, Steps, Report, Errors, Outcomes,
     observation_fails, fail, Errors
  <2> QED
    BY <2>1, <2>2 DEF Types
<1>4. \A m \in Launches \ {l} : Same(m)
  BY <1>1, <1>2 DEF Types, Same, WorkerTypes, observation_fails, fail, Errors
<1>5. Inv(l)'
  <2>1. Evidence(l)'
    BY <1>1, <1>2 DEF Inv, Evidence, alive
  <2>2. Control(l)'
    BY <1>1, <1>2 DEF Inv, Control, working, Serving, Launching, Ended
  <2>3. Lineage(l)'
    BY <1>1, <1>2 DEF Inv, Lineage, alive, Early
  <2>4. NotReleased(l)'
    BY <1>1, <1>2 DEF Inv, NotReleased, Unreleased, Early, Launching, Control
  <2>5. Results(l)'
    BY <1>1, <1>2 DEF Inv, Results, Outcomes, Errors
  <2>6. Backlog(l)'
    BY <1>1, <1>2 DEF Inv, Backlog, Early
  <2>7. Key(l)'
    BY <1>1, <1>2 DEF Inv, Key, Closed
  <2> QED
    BY <2>1, <2>2, <2>3, <2>4, <2>5, <2>6, <2>7 DEF Inv
<1>6. working(l)' => working(l) \/ \A m \in Launches : ~working(m)
  BY <1>1, <1>2 DEF working
<1> QED
  BY <1>3, <1>4, <1>5, <1>6 DEF Local

(* The agent closes for any reason.                                        *)
LEMMA AgentClosesLocal ==
    ASSUME IInv, NEW l \in Launches, agent_closes(l)
    PROVE  Local(l)
<1>1. Types /\ Inv(l)
  BY DEF IInv
<1>2. /\ daemon = "up" /\ pc[l] = "observe"
      /\ agent' = [agent EXCEPT ![l] = Closed] /\ agent'[l] = Closed
      /\ endpoint' = endpoint \ {l}
      /\ UNCHANGED <<daemon, pc, err, sent, report, live, started, leases,
                      sockets, unit, helper, consumer, descendant, status, chan,
                      inbox, outbox, signed, material>>
  BY <1>1 DEF Types, SshTypes, agent_closes, polling, close_agent
<1>3. Types'
  <2>1. ProviderTypes' /\ WorkerTypes' /\ AuthorityTypes' /\ FileTypes' /\
        ProcessTypes' /\ BridgeTypes'
    BY <1>1, <1>2 DEF Types, ProviderTypes, WorkerTypes, AuthorityTypes,
     FileTypes, ProcessTypes, BridgeTypes, agent_closes, polling, close_agent
  <2>2. SshTypes'
    BY <1>1, <1>2 DEF Types, SshTypes, Agent, Closed, agent_closes, polling,
     close_agent
  <2> QED
    BY <2>1, <2>2 DEF Types
<1>4. \A m \in Launches \ {l} : Same(m)
  BY <1>1, <1>2 DEF Types, Same, SshTypes, agent_closes, polling, close_agent
<1>5. Inv(l)'
  <2>1. Control(l)' /\ Lineage(l)' /\ NotReleased(l)' /\ Evidence(l)' /\ Results(l)' /\ Backlog(l)'
    BY <1>1, <1>2 DEF Inv, Control, working, Serving, Launching, Ended, Lineage,
     alive, Early, NotReleased, Unreleased, Evidence, Results, Outcomes, Backlog
  <2>2. Key(l)'
    BY <1>1, <1>2 DEF Inv, Key, Closed
  <2> QED
    BY <2>1, <2>2 DEF Inv
<1>6. working(l)' => working(l) \/ \A m \in Launches : ~working(m)
  BY <1>1, <1>2 DEF working
<1> QED
  BY <1>3, <1>4, <1>5, <1>6 DEF Local

(* accept failed: execute ends, and the agent is closed or will be.        *)
LEMMA AgentFailsLocal ==
    ASSUME IInv, NEW l \in Launches, agent_fails(l)
    PROVE  Local(l)
<1>1. Types /\ Inv(l)
  BY DEF IInv
<1>2. /\ daemon = "up" /\ pc[l] = "observe"
      /\ pc'[l] = "close"
      /\ err'[l] = "ExecutionFailed"
      /\ \/ /\ agent' = [agent EXCEPT ![l] = Closed] /\ agent'[l] = Closed
            /\ endpoint' = endpoint \ {l}
         \/ agent' = agent /\ endpoint' = endpoint
      /\ UNCHANGED <<daemon, sent, report, live, started, leases, sockets, unit,
                      helper, consumer, descendant, status, chan, inbox, outbox,
                      signed, material>>
  BY <1>1 DEF Types, SshTypes, WorkerTypes, agent_fails, polling, fail, close_agent
<1>3. Types'
  <2>1. ProviderTypes' /\ AuthorityTypes' /\ FileTypes' /\ ProcessTypes' /\
        BridgeTypes'
    BY <1>1, <1>2 DEF Types, ProviderTypes, AuthorityTypes, FileTypes,
     ProcessTypes, BridgeTypes, agent_fails, polling, fail, close_agent
  <2>2. WorkerTypes'
    BY <1>1, <1>2 DEF Types, WorkerTypes, Steps, Report, Errors, Outcomes,
     agent_fails, polling, fail, close_agent
  <2>3. SshTypes'
    <3>1. SshTypes /\ Closed \in Agent /\ UNCHANGED <<signed, material>>
      BY <1>1, <1>2 DEF Types, Agent, Closed
    <3> QED
      BY <1>2, <3>1 DEF SshTypes
  <2> QED
    BY <2>1, <2>2, <2>3 DEF Types
<1>4. \A m \in Launches \ {l} : Same(m)
  BY <1>1, <1>2 DEF Types, Same, SshTypes, WorkerTypes, agent_fails, polling, fail,
     close_agent
<1>5. Inv(l)'
  <2>1. Evidence(l)'
    BY <1>1, <1>2 DEF Inv, Evidence, alive
  <2>2. Control(l)'
    BY <1>1, <1>2 DEF Inv, Control, working, Serving, Launching, Ended
  <2>3. Lineage(l)'
    BY <1>1, <1>2 DEF Inv, Lineage, alive, Early
  <2>4. NotReleased(l)'
    BY <1>1, <1>2 DEF Inv, NotReleased, Unreleased, Early, Launching, Control
  <2>5. Results(l)'
    BY <1>1, <1>2 DEF Inv, Results, Outcomes, Errors
  <2>6. Backlog(l)'
    BY <1>1, <1>2 DEF Inv, Backlog, Early
  <2>7. Key(l)'
    BY <1>1, <1>2 DEF Inv, Key, Closed
  <2> QED
    BY <2>1, <2>2, <2>3, <2>4, <2>5, <2>6, <2>7 DEF Inv
<1>6. working(l)' => working(l) \/ \A m \in Launches : ~working(m)
  BY <1>1, <1>2 DEF working
<1> QED
  BY <1>3, <1>4, <1>5, <1>6 DEF Local

(* The confirmed consumer binds its session.                               *)
LEMMA AgentServesLocal ==
    ASSUME IInv, NEW l \in Launches, agent_serves(l)
    PROVE  Local(l)
<1>1. Types /\ Inv(l)
  BY DEF IInv
<1>a. /\ agent' = [agent EXCEPT ![l] = [agent[l] EXCEPT !.bound = TRUE]]
      /\ agent'[l].key = agent[l].key /\ agent'[l].open = agent[l].open
      /\ agent'[l].recipient = agent[l].recipient /\ agent'[l] \in Agent
  BY <1>1 DEF agent_serves, Types, SshTypes, Agent
<1>2. /\ daemon = "up" /\ pc[l] = "observe"
      /\ agent' = [agent EXCEPT ![l] = [agent[l] EXCEPT !.bound = TRUE]]
      /\ agent'[l].key = agent[l].key /\ agent'[l].open = agent[l].open
      /\ agent'[l].recipient = agent[l].recipient /\ agent'[l] \in Agent
      /\ UNCHANGED <<daemon, pc, err, sent, report, live, started, leases,
                      sockets, unit, helper, consumer, descendant, status, chan,
                      inbox, outbox, signed, material, endpoint>>
  BY <1>1, <1>a DEF Types, SshTypes, agent_serves, polling
<1>3. Types'
  <2>1. ProviderTypes' /\ WorkerTypes' /\ AuthorityTypes' /\ FileTypes' /\
        ProcessTypes' /\ BridgeTypes'
    BY <1>1, <1>2 DEF Types, ProviderTypes, WorkerTypes, AuthorityTypes,
     FileTypes, ProcessTypes, BridgeTypes, agent_serves, polling
  <2>2. SshTypes'
    BY <1>1, <1>2, <1>a DEF Types, SshTypes, Agent, Closed, agent_serves, polling
  <2> QED
    BY <2>1, <2>2 DEF Types
<1>4. \A m \in Launches \ {l} : Same(m)
  BY <1>1, <1>2, <1>a DEF Types, Same, SshTypes, agent_serves, polling
<1>5. Inv(l)'
  <2>1. Control(l)' /\ Lineage(l)' /\ NotReleased(l)' /\ Evidence(l)' /\ Results(l)' /\ Backlog(l)'
    BY <1>1, <1>2 DEF Inv, Control, working, Serving, Launching, Ended, Lineage,
     alive, Early, NotReleased, Unreleased, Evidence, Results, Outcomes, Backlog
  <2>2. Key(l)'
    BY <1>1, <1>2 DEF Inv, Key, Closed
  <2> QED
    BY <2>1, <2>2 DEF Inv
<1>6. working(l)' => working(l) \/ \A m \in Launches : ~working(m)
  BY <1>1, <1>2 DEF working
<1> QED
  BY <1>3, <1>4, <1>5, <1>6 DEF Local

(* A signature is made and waits for the release gate.                     *)
LEMMA AgentSignsLocal ==
    ASSUME IInv, NEW l \in Launches, agent_signs(l)
    PROVE  Local(l)
<1>1. Types /\ Inv(l)
  BY DEF IInv
<1>2. /\ daemon = "up" /\ pc[l] = "observe" /\ agent[l].key
      /\ pc'[l] = "signing"
      /\ UNCHANGED <<daemon, err, sent, report, live, started, leases, sockets,
                      unit, helper, consumer, descendant, status, chan, inbox,
                      outbox, agent, signed, material, endpoint>>
  BY <1>1 DEF Types, WorkerTypes, agent_signs, polling
<1>3. Types'
  <2>1. ProviderTypes' /\ AuthorityTypes' /\ FileTypes' /\ ProcessTypes' /\
        BridgeTypes' /\ SshTypes'
    BY <1>1, <1>2 DEF Types, ProviderTypes, AuthorityTypes, FileTypes,
     ProcessTypes, BridgeTypes, SshTypes, agent_signs, polling
  <2>2. WorkerTypes'
    BY <1>1, <1>2 DEF Types, WorkerTypes, Steps, Report, Errors, Outcomes,
     agent_signs, polling
  <2> QED
    BY <2>1, <2>2 DEF Types
<1>4. \A m \in Launches \ {l} : Same(m)
  BY <1>1, <1>2 DEF Types, Same, WorkerTypes, agent_signs, polling
<1>5. Inv(l)'
  <2>1. Evidence(l)'
    BY <1>1, <1>2 DEF Inv, Evidence, alive
  <2>2. Control(l)'
    BY <1>1, <1>2 DEF Inv, Control, working, Serving, Launching, Ended
  <2>3. Lineage(l)'
    BY <1>1, <1>2 DEF Inv, Lineage, alive, Early
  <2>4. NotReleased(l)'
    BY <1>1, <1>2 DEF Inv, NotReleased, Unreleased, Early, Launching
  <2>5. Results(l)'
    BY <1>1, <1>2 DEF Inv, Results, Outcomes
  <2>6. Backlog(l)'
    BY <1>1, <1>2 DEF Inv, Backlog, Early
  <2>7. Key(l)'
    BY <1>1, <1>2 DEF Inv, Key, Closed
  <2> QED
    BY <2>1, <2>2, <2>3, <2>4, <2>5, <2>6, <2>7 DEF Inv
<1>6. working(l)' => working(l) \/ \A m \in Launches : ~working(m)
  BY <1>1, <1>2 DEF working
<1> QED
  BY <1>3, <1>4, <1>5, <1>6 DEF Local

(* The gate is taken, with a live authority and recipient.                 *)
LEMMA SignatureClearedLocal ==
    ASSUME IInv, NEW l \in Launches, signature_cleared(l)
    PROVE  Local(l)
<1>1. Types /\ Inv(l)
  BY DEF IInv
<1>2. /\ daemon = "up" /\ pc[l] = "signing" /\ live[l] /\ agent[l].recipient
      /\ pc'[l] = "writing"
      /\ UNCHANGED <<daemon, err, sent, report, live, started, leases, sockets,
                      unit, helper, consumer, descendant, status, chan, inbox,
                      outbox, agent, signed, material, endpoint>>
  BY <1>1 DEF Types, WorkerTypes, signature_cleared, may_sign, recipient_alive
<1>3. Types'
  <2>1. ProviderTypes' /\ AuthorityTypes' /\ FileTypes' /\ ProcessTypes' /\
        BridgeTypes' /\ SshTypes'
    BY <1>1, <1>2 DEF Types, ProviderTypes, AuthorityTypes, FileTypes,
     ProcessTypes, BridgeTypes, SshTypes, signature_cleared, may_sign, recipient_alive
  <2>2. WorkerTypes'
    BY <1>1, <1>2 DEF Types, WorkerTypes, Steps, Report, Errors, Outcomes,
     signature_cleared, may_sign, recipient_alive
  <2> QED
    BY <2>1, <2>2 DEF Types
<1>4. \A m \in Launches \ {l} : Same(m)
  BY <1>1, <1>2 DEF Types, Same, WorkerTypes, signature_cleared, may_sign, recipient_alive
<1>5. Inv(l)'
  <2>1. Evidence(l)'
    BY <1>1, <1>2 DEF Inv, Evidence, alive
  <2>2. Control(l)'
    BY <1>1, <1>2 DEF Inv, Control, working, Serving, Launching, Ended
  <2>3. Lineage(l)'
    BY <1>1, <1>2 DEF Inv, Lineage, alive, Early
  <2>4. NotReleased(l)'
    BY <1>1, <1>2 DEF Inv, NotReleased, Unreleased, Early, Launching
  <2>5. Results(l)'
    BY <1>1, <1>2 DEF Inv, Results, Outcomes
  <2>6. Backlog(l)'
    BY <1>1, <1>2 DEF Inv, Backlog, Early
  <2>7. Key(l)'
    BY <1>1, <1>2 DEF Inv, Key, Closed
  <2> QED
    BY <2>1, <2>2, <2>3, <2>4, <2>5, <2>6, <2>7 DEF Inv
<1>6. working(l)' => working(l) \/ \A m \in Launches : ~working(m)
  BY <1>1, <1>2 DEF working
<1> QED
  BY <1>3, <1>4, <1>5, <1>6 DEF Local

(* The one signature is sent, and the key is gone with it.                 *)
LEMMA SignatureSentLocal ==
    ASSUME IInv, NEW l \in Launches, signature_sent(l)
    PROVE  Local(l)
<1>1. Types /\ Inv(l)
  BY DEF IInv
<1>a. /\ pc' \in [Launches -> Steps] /\ (\A m \in Launches \ {l} : pc'[m] = pc[m])
      /\ err' \in [Launches -> Errors \cup Outcomes \cup {"none"}] /\ (\A m \in Launches \ {l} : err'[m] = err[m])
      /\ \/ pc'[l] = "observe" /\ err'[l] = err[l]
         \/ pc'[l] = "close" /\ err'[l] = "ExecutionFailed"
      /\ UNCHANGED <<sent, report>>
      /\ pc[l] = "writing" /\ signed[l] = 0
  <2>1. pc[l] = "writing" /\ signed[l] = 0
    BY <1>1 DEF signature_sent, Inv, Key
  <2>2. pc \in [Launches -> Steps] /\ err \in [Launches -> Errors \cup Outcomes \cup {"none"}]
    BY <1>1 DEF Types, WorkerTypes
  <2>3. CASE goto(l, "observe") /\ UNCHANGED <<err, sent, report>>
    BY <2>1, <2>2, <2>3 DEF Steps
  <2>4. CASE fail(l, "ExecutionFailed")
    BY <2>1, <2>2, <2>4 DEF Steps, Errors, fail
  <2> QED
    BY <2>1, <2>3, <2>4 DEF signature_sent
<1>2. /\ daemon = "up" /\ pc[l] = "writing" /\ signed[l] = 0
      /\ pc' \in [Launches -> Steps] /\ (\A m \in Launches \ {l} : pc'[m] = pc[m])
      /\ err' \in [Launches -> Errors \cup Outcomes \cup {"none"}] /\ (\A m \in Launches \ {l} : err'[m] = err[m])
      /\ \/ pc'[l] = "observe" /\ err'[l] = err[l]
         \/ pc'[l] = "close" /\ err'[l] = "ExecutionFailed"
      /\ signed' = [signed EXCEPT ![l] = 1]
      /\ agent' = [agent EXCEPT ![l] = Closed] /\ agent'[l] = Closed
      /\ endpoint' = endpoint \ {l}
      /\ UNCHANGED <<daemon, sent, report, live, started, leases, sockets, unit,
                      helper, consumer, descendant, status, chan, inbox, outbox,
                      material>>
  BY <1>1, <1>a DEF Types, SshTypes, WorkerTypes, signature_sent, close_agent
<1>3. Types'
  <2>1. ProviderTypes' /\ AuthorityTypes' /\ FileTypes' /\ ProcessTypes' /\
        BridgeTypes'
    BY <1>1, <1>2 DEF Types, ProviderTypes, AuthorityTypes, FileTypes,
     ProcessTypes, BridgeTypes, signature_sent, close_agent
  <2>2. WorkerTypes'
    BY <1>1, <1>2, <1>a DEF Types, WorkerTypes, Steps, Report, Errors, Outcomes,
     signature_sent, close_agent
  <2>3. SshTypes'
    BY <1>1, <1>2, <1>a DEF Types, SshTypes, Agent, Closed, signature_sent,
     close_agent
  <2> QED
    BY <2>1, <2>2, <2>3 DEF Types
<1>4. \A m \in Launches \ {l} : Same(m)
  BY <1>1, <1>2, <1>a DEF Types, Same, SshTypes, WorkerTypes, signature_sent,
     close_agent
<1>5. Inv(l)'
  <2>1. Evidence(l)'
    BY <1>1, <1>2 DEF Inv, Evidence, alive
  <2>2. Control(l)'
    BY <1>1, <1>2 DEF Inv, Control, working, Serving, Launching, Ended
  <2>3. Lineage(l)'
    BY <1>1, <1>2 DEF Inv, Lineage, alive, Early
  <2>4. NotReleased(l)'
    BY <1>1, <1>2 DEF Inv, NotReleased, Unreleased, Early, Launching, Control
  <2>5. Results(l)'
    BY <1>1, <1>2 DEF Inv, Results, Outcomes, Errors
  <2>6. Backlog(l)'
    BY <1>1, <1>2 DEF Inv, Backlog, Early
  <2>7. Key(l)'
    BY <1>1, <1>2 DEF Inv, Key, Closed
  <2> QED
    BY <2>1, <2>2, <2>3, <2>4, <2>5, <2>6, <2>7 DEF Inv
<1>6. working(l)' => working(l) \/ \A m \in Launches : ~working(m)
  BY <1>1, <1>2 DEF working
<1> QED
  BY <1>3, <1>4, <1>5, <1>6 DEF Local

(* The authority or the recipient is gone at the gate.                     *)
LEMMA SignatureRefusedLocal ==
    ASSUME IInv, NEW l \in Launches, signature_refused(l)
    PROVE  Local(l)
<1>1. Types /\ Inv(l)
  BY DEF IInv
<1>2. /\ daemon = "up" /\ pc[l] = "signing"
      /\ pc'[l] = "close"
      /\ err'[l] = "ExecutionFailed"
      /\ agent' = [agent EXCEPT ![l] = Closed] /\ agent'[l] = Closed
      /\ endpoint' = endpoint \ {l}
      /\ UNCHANGED <<daemon, sent, report, live, started, leases, sockets, unit,
                      helper, consumer, descendant, status, chan, inbox, outbox,
                      signed, material>>
  BY <1>1 DEF Types, SshTypes, WorkerTypes, signature_refused, fail, close_agent
<1>3. Types'
  <2>1. ProviderTypes' /\ AuthorityTypes' /\ FileTypes' /\ ProcessTypes' /\
        BridgeTypes'
    BY <1>1, <1>2 DEF Types, ProviderTypes, AuthorityTypes, FileTypes,
     ProcessTypes, BridgeTypes, signature_refused, fail, close_agent
  <2>2. WorkerTypes'
    BY <1>1, <1>2 DEF Types, WorkerTypes, Steps, Report, Errors, Outcomes,
     signature_refused, fail, close_agent
  <2>3. SshTypes'
    BY <1>1, <1>2 DEF Types, SshTypes, Agent, Closed, signature_refused, fail,
     close_agent
  <2> QED
    BY <2>1, <2>2, <2>3 DEF Types
<1>4. \A m \in Launches \ {l} : Same(m)
  BY <1>1, <1>2 DEF Types, Same, SshTypes, WorkerTypes, signature_refused, fail,
     close_agent
<1>5. Inv(l)'
  <2>1. Evidence(l)'
    BY <1>1, <1>2 DEF Inv, Evidence, alive
  <2>2. Control(l)'
    BY <1>1, <1>2 DEF Inv, Control, working, Serving, Launching, Ended
  <2>3. Lineage(l)'
    BY <1>1, <1>2 DEF Inv, Lineage, alive, Early
  <2>4. NotReleased(l)'
    BY <1>1, <1>2 DEF Inv, NotReleased, Unreleased, Early, Launching, Control
  <2>5. Results(l)'
    BY <1>1, <1>2 DEF Inv, Results, Outcomes, Errors
  <2>6. Backlog(l)'
    BY <1>1, <1>2 DEF Inv, Backlog, Early
  <2>7. Key(l)'
    BY <1>1, <1>2 DEF Inv, Key, Closed
  <2> QED
    BY <2>1, <2>2, <2>3, <2>4, <2>5, <2>6, <2>7 DEF Inv
<1>6. working(l)' => working(l) \/ \A m \in Launches : ~working(m)
  BY <1>1, <1>2 DEF working
<1> QED
  BY <1>3, <1>4, <1>5, <1>6 DEF Local

-----------------------------------------------------------------------------
(* The worker: closing and reporting.                                      *)

(* A unit of that name was there before: the lease is withdrawn.           *)
LEMMA CollisionLocal ==
    ASSUME IInv, NEW l \in Launches, collision(l)
    PROVE  Local(l)
<1>1. Types /\ Inv(l)
  BY DEF IInv
<1>a. leases' \subseteq leases /\ (\A m \in Launches \ {l} : m \in leases' <=> m \in leases)
      /\ healthy' \in BOOLEAN
  BY <1>1 DEF collision, forget, Types, ProviderTypes
<1>b. err[l] = "UnitCollision" /\ unit[l] = "stranger"
  BY <1>1 DEF collision, Inv, Control
<1>2. /\ daemon = "up" /\ pc[l] = "close" /\ err[l] = "UnitCollision" /\ unit[l] = "stranger"
      /\ pc'[l] \in {"finalize", "done"}
      /\ err'[l] = "none"
      /\ sent'[l] = FALSE
      /\ report'[l] = [outcome |-> "UnitCollision", cleanup |-> "NotStarted", reaped |-> FALSE]
      /\ live'[l] = FALSE
      /\ agent' = [agent EXCEPT ![l] = Closed] /\ agent'[l] = Closed
      /\ endpoint' = endpoint \ {l}
      /\ leases' \subseteq leases /\ \A m \in Launches \ {l} : m \in leases' <=> m \in leases
      /\ l \notin sockets'
      /\ UNCHANGED <<daemon, started, unit, helper, consumer, descendant, status,
                      chan, inbox, outbox, signed, material>>
  BY <1>1, <1>a, <1>b DEF Types, AuthorityTypes, FileTypes, SshTypes,
     WorkerTypes, collision, close_agent, answer, after
<1>3. Types'
  <2>1. ProcessTypes' /\ BridgeTypes'
    BY <1>1, <1>2 DEF Types, ProcessTypes, BridgeTypes, collision, close_agent,
     answer, after
  <2>2. ProviderTypes'
    BY <1>1, <1>2, <1>a, <1>b DEF Types, ProviderTypes, collision, close_agent,
     answer, after
  <2>3. WorkerTypes'
    BY <1>1, <1>2, <1>a, <1>b DEF Types, WorkerTypes, Steps, Report, Errors,
     Outcomes, collision, close_agent, answer, after
  <2>4. AuthorityTypes'
    BY <1>1, <1>2, <1>a, <1>b DEF Types, AuthorityTypes, collision, close_agent,
     answer, after
  <2>5. FileTypes'
    BY <1>1, <1>2, <1>a, <1>b DEF Types, FileTypes, collision, close_agent,
     answer, after
  <2>6. SshTypes'
    BY <1>1, <1>2, <1>a, <1>b DEF Types, SshTypes, Agent, Closed, collision,
     close_agent, answer, after
  <2> QED
    BY <2>1, <2>2, <2>3, <2>4, <2>5, <2>6 DEF Types
<1>4. \A m \in Launches \ {l} : Same(m)
  BY <1>1, <1>2, <1>a, <1>b DEF Types, Same, AuthorityTypes, FileTypes, SshTypes,
     WorkerTypes, collision, close_agent, answer, after
<1>5. Inv(l)'
  <2>1. Control(l)'
    BY <1>1, <1>2 DEF Inv, Control, working, Serving, Launching, Ended
  <2>2. Lineage(l)'
    BY <1>1, <1>2 DEF Inv, Lineage, alive, Early
  <2>3. NotReleased(l)'
    <3>1. helper[l] = "none" /\ consumer[l] = "none"
      BY <1>1, <1>2 DEF Inv, Lineage
    <3>2. ~says(outbox[l], "RELEASE")
      BY <1>1, <1>2, SaysEmpty DEF Inv, Backlog
    <3> QED
      BY <1>2, <3>1, <3>2 DEF NotReleased, Unreleased
  <2>4. Evidence(l)'
    BY <1>1, <1>2 DEF Inv, Evidence, alive, Lineage
  <2>5. Results(l)'
    BY <1>1, <1>2 DEF Inv, Results, Outcomes
  <2>6. Backlog(l)'
    BY <1>1, <1>2 DEF Inv, Backlog, Early
  <2>7. Key(l)'
    BY <1>1, <1>2 DEF Inv, Key, Closed
  <2> QED
    BY <2>1, <2>2, <2>3, <2>4, <2>5, <2>6, <2>7 DEF Inv
<1>6. working(l)' => working(l) \/ \A m \in Launches : ~working(m)
  BY <1>1, <1>2 DEF working
<1> QED
  BY <1>3, <1>4, <1>5, <1>6 DEF Local

(* The agent, the last look for REAPED, the channel and the listener.      *)
LEMMA CloseLocal ==
    ASSUME IInv, NEW l \in Launches, close(l)
    PROVE  Local(l)
<1>1. Types /\ Inv(l)
  BY DEF IInv
<1>a. /\ healthy' \in BOOLEAN /\ <<>> \in Seq(Codes) /\ \A x : ~says(<<>>, x)
      /\ err[l] # "UnitCollision"
  BY <1>1, SaysEmpty, EmptySeq DEF close, Types, ProviderTypes
<1>b. PICK b \in BOOLEAN :
        /\ report' = [report EXCEPT ![l] = [report[l] EXCEPT !.reaped = b]]
        /\ b => says(inbox[l], "REAPED")
  <2>1. inbox \in [Launches -> Seq(Codes)]
    BY <1>1 DEF Types, BridgeTypes
  <2>2. inbox[l] # <<>> /\ Head(inbox[l]) = "REAPED" => says(inbox[l], "REAPED")
    BY <2>1, SaysTail
  <2> QED
    BY <2>2 DEF close
<1>c. /\ report'[l].outcome = report[l].outcome /\ report'[l].cleanup = report[l].cleanup
      /\ report'[l].reaped = b /\ report'[l] \in Report
  BY <1>1, <1>b DEF Types, WorkerTypes, Report
<1>2. /\ daemon = "up" /\ pc[l] = "close"
      /\ pc'[l] = "unused"
      /\ agent' = [agent EXCEPT ![l] = Closed] /\ agent'[l] = Closed
      /\ endpoint' = endpoint \ {l}
      /\ report'[l].outcome = report[l].outcome /\ report'[l].cleanup = report[l].cleanup
      /\ report'[l].reaped => says(inbox[l], "REAPED")
      /\ report' \in [Launches -> Report] /\ \A m \in Launches \ {l} : report'[m] = report[m]
      /\ chan'[l] = "closed"
      /\ inbox' = [inbox EXCEPT ![l] = <<>>] /\ inbox'[l] = <<>>
      /\ l \notin sockets'
      /\ UNCHANGED <<daemon, err, sent, live, started, leases, unit, helper,
                      consumer, descendant, status, outbox, signed, material>>
  BY <1>1, <1>a, <1>b, <1>c DEF Types, BridgeTypes, FileTypes, SshTypes,
     WorkerTypes, close, close_agent
<1>3. Types'
  <2>1. AuthorityTypes' /\ ProcessTypes'
    BY <1>1, <1>2 DEF Types, AuthorityTypes, ProcessTypes, close, close_agent
  <2>2. ProviderTypes'
    BY <1>1, <1>2, <1>a, <1>b, <1>c DEF Types, ProviderTypes, close, close_agent
  <2>3. WorkerTypes'
    BY <1>1, <1>2, <1>a, <1>b, <1>c DEF Types, WorkerTypes, Steps, Report,
     Errors, Outcomes, close, close_agent
  <2>4. FileTypes'
    BY <1>1, <1>2, <1>a, <1>b, <1>c DEF Types, FileTypes, close, close_agent
  <2>5. BridgeTypes'
    BY <1>1, <1>2, <1>a, <1>b, <1>c DEF Types, BridgeTypes, Codes, Outcomes,
     close, close_agent
  <2>6. SshTypes'
    BY <1>1, <1>2, <1>a, <1>b, <1>c DEF Types, SshTypes, Agent, Closed, close,
     close_agent
  <2> QED
    BY <2>1, <2>2, <2>3, <2>4, <2>5, <2>6 DEF Types
<1>4. \A m \in Launches \ {l} : Same(m)
  BY <1>1, <1>2, <1>a, <1>b, <1>c DEF Types, Same, BridgeTypes, FileTypes,
     SshTypes, WorkerTypes, close, close_agent
<1>5. Inv(l)'
  <2>1. Control(l)'
    BY <1>1, <1>2 DEF Inv, Control, working, Serving, Launching, Ended
  <2>2. Lineage(l)'
    BY <1>1, <1>2 DEF Inv, Lineage, alive, Early
  <2>3. NotReleased(l)'
    BY <1>1, <1>2 DEF Inv, NotReleased, Unreleased, Early, Launching
  <2>4. Evidence(l)'
    BY <1>1, <1>2, SaysEmpty DEF Inv, Evidence, alive
  <2>5. Results(l)'
    BY <1>1, <1>2, SaysEmpty DEF Inv, Results, Outcomes
  <2>6. Backlog(l)'
    BY <1>1, <1>2, ShortIsEmpty DEF Inv, Backlog, Early
  <2>7. Key(l)'
    BY <1>1, <1>2 DEF Inv, Key, Closed
  <2> QED
    BY <2>1, <2>2, <2>3, <2>4, <2>5, <2>6, <2>7 DEF Inv
<1>6. working(l)' => working(l) \/ \A m \in Launches : ~working(m)
  BY <1>1, <1>2 DEF working
<1> QED
  BY <1>3, <1>4, <1>5, <1>6 DEF Local

(* The unit is seen unused: the lease goes, or the provider is no longer   *)
(* healthy.                                                                *)
LEMMA ReclaimedLocal ==
    ASSUME IInv, NEW l \in Launches, reclaimed(l)
    PROVE  Local(l)
<1>1. Types /\ Inv(l)
  BY DEF IInv
<1>a. leases' \subseteq leases /\ (\A m \in Launches \ {l} : m \in leases' <=> m \in leases)
      /\ healthy' \in BOOLEAN
  BY <1>1 DEF reclaimed, forget, Types, ProviderTypes
<1>v. /\ verdict(l) \in Errors \cup Outcomes \cup {"none", "ObservationLost"}
      /\ verdict(l) \in Errors => ~sent[l]
      /\ \A x \in Outcomes : verdict(l) = x => err[l] = x
      /\ report[l].reaped \in BOOLEAN
  <2>1. err[l] \in Errors \cup Outcomes \cup {"none"} /\ report[l] \in Report
    BY <1>1 DEF Types, WorkerTypes
  <2>2. report[l].reaped \in BOOLEAN
    BY <2>1 DEF Report
  <2> QED
    BY <2>1, <2>2 DEF verdict, Errors, Outcomes
<1>2. /\ daemon = "up" /\ pc[l] = "unused" /\ helper[l] \in {"none", "gone"} /\ ~alive(l)
      /\ pc'[l] \in {"finalize", "done"}
      /\ err'[l] = "none"
      /\ sent'[l] = FALSE
      /\ report'[l] = [outcome |-> verdict(l), cleanup |-> "Reaped", reaped |-> report[l].reaped]
      /\ report'[l].outcome = verdict(l) /\ report'[l].cleanup = "Reaped"
      /\ report'[l].reaped = report[l].reaped
      /\ report'[l] \in Report
      /\ live'[l] = FALSE
      /\ leases' \subseteq leases /\ \A m \in Launches \ {l} : m \in leases' <=> m \in leases
      /\ verdict(l) \in Errors => ~sent[l]
      /\ \A x \in Outcomes : verdict(l) = x => err[l] = x
      /\ UNCHANGED <<daemon, started, sockets, unit, helper, consumer,
                      descendant, status, chan, inbox, outbox, agent, signed,
                      material, endpoint>>
  BY <1>1, <1>a, <1>v DEF Types, AuthorityTypes, FileTypes, WorkerTypes,
     reclaimed, unused, in_cgroup, alive, answer, after, Report
<1>3. Types'
  <2>1. ProcessTypes' /\ BridgeTypes' /\ SshTypes'
    BY <1>1, <1>2 DEF Types, ProcessTypes, BridgeTypes, SshTypes, reclaimed,
     unused, in_cgroup, alive, answer, after, Report
  <2>2. ProviderTypes'
    BY <1>1, <1>2, <1>a, <1>v DEF Types, ProviderTypes, reclaimed, unused,
     in_cgroup, alive, answer, after, Report
  <2>3. WorkerTypes'
    BY <1>1, <1>2, <1>a, <1>v DEF Types, WorkerTypes, Steps, Report, Errors,
     Outcomes, reclaimed, unused, in_cgroup, alive, answer, after, Report
  <2>4. AuthorityTypes'
    BY <1>1, <1>2, <1>a, <1>v DEF Types, AuthorityTypes, reclaimed, unused,
     in_cgroup, alive, answer, after, Report
  <2>5. FileTypes'
    BY <1>1, <1>2, <1>a, <1>v DEF Types, FileTypes, reclaimed, unused, in_cgroup,
     alive, answer, after, Report
  <2> QED
    BY <2>1, <2>2, <2>3, <2>4, <2>5 DEF Types
<1>4. \A m \in Launches \ {l} : Same(m)
  BY <1>1, <1>2, <1>a, <1>v DEF Types, Same, AuthorityTypes, FileTypes,
     WorkerTypes, reclaimed, unused, in_cgroup, alive, answer, after, Report
<1>5. Inv(l)'
  <2>1. Control(l)'
    BY <1>1, <1>2 DEF Inv, Control, working, Serving, Launching, Ended
  <2>2. Lineage(l)'
    BY <1>1, <1>2 DEF Inv, Lineage, alive, Early
  <2>3. NotReleased(l)'
    BY <1>1, <1>2 DEF Inv, NotReleased, Unreleased, Early, Launching
  <2>4. Evidence(l)'
    BY <1>1, <1>2 DEF Inv, Evidence, alive
  <2>5. Results(l)'
    BY <1>1, <1>2 DEF Inv, Results, Outcomes
  <2>6. Backlog(l)'
    BY <1>1, <1>2 DEF Inv, Backlog, Early
  <2>7. Key(l)'
    BY <1>1, <1>2 DEF Inv, Key, Closed
  <2> QED
    BY <2>1, <2>2, <2>3, <2>4, <2>5, <2>6, <2>7 DEF Inv
<1>6. working(l)' => working(l) \/ \A m \in Launches : ~working(m)
  BY <1>1, <1>2 DEF working
<1> QED
  BY <1>3, <1>4, <1>5, <1>6 DEF Local

(* Nobody knows what became of the unit: the lease stays.                  *)
LEMMA DetachedLocal ==
    ASSUME IInv, NEW l \in Launches, detached(l)
    PROVE  Local(l)
<1>1. Types /\ Inv(l)
  BY DEF IInv
<1>v. /\ verdict(l) \in Errors \cup Outcomes \cup {"none", "ObservationLost"}
      /\ verdict(l) \in Errors => ~sent[l]
      /\ \A x \in Outcomes : verdict(l) = x => err[l] = x
      /\ report[l].reaped \in BOOLEAN
  <2>1. err[l] \in Errors \cup Outcomes \cup {"none"} /\ report[l] \in Report
    BY <1>1 DEF Types, WorkerTypes
  <2>2. report[l].reaped \in BOOLEAN
    BY <2>1 DEF Report
  <2> QED
    BY <2>1, <2>2 DEF verdict, Errors, Outcomes
<1>2. /\ daemon = "up" /\ pc[l] = "unused"
      /\ pc'[l] \in {"finalize", "done"}
      /\ err'[l] = "none"
      /\ sent'[l] = FALSE
      /\ report'[l] = [outcome |-> verdict(l), cleanup |-> "Detached", reaped |-> report[l].reaped]
      /\ report'[l].outcome = verdict(l) /\ report'[l].cleanup = "Detached"
      /\ report'[l].reaped = report[l].reaped
      /\ report'[l] \in Report
      /\ live'[l] = FALSE
      /\ verdict(l) \in Errors => ~sent[l]
      /\ \A x \in Outcomes : verdict(l) = x => err[l] = x
      /\ UNCHANGED <<daemon, started, leases, sockets, unit, helper, consumer,
                      descendant, status, chan, inbox, outbox, agent, signed,
                      material, endpoint>>
  BY <1>1, <1>v DEF Types, AuthorityTypes, WorkerTypes, detached, answer, after,
     Report
<1>3. Types'
  <2>1. ProviderTypes' /\ FileTypes' /\ ProcessTypes' /\ BridgeTypes' /\
        SshTypes'
    BY <1>1, <1>2 DEF Types, ProviderTypes, FileTypes, ProcessTypes, BridgeTypes,
     SshTypes, detached, answer, after, Report
  <2>2. WorkerTypes'
    BY <1>1, <1>2, <1>v DEF Types, WorkerTypes, Steps, Report, Errors, Outcomes,
     detached, answer, after, Report
  <2>3. AuthorityTypes'
    BY <1>1, <1>2, <1>v DEF Types, AuthorityTypes, detached, answer, after,
     Report
  <2> QED
    BY <2>1, <2>2, <2>3 DEF Types
<1>4. \A m \in Launches \ {l} : Same(m)
  BY <1>1, <1>2, <1>v DEF Types, Same, AuthorityTypes, WorkerTypes, detached,
     answer, after, Report
<1>5. Inv(l)'
  <2>1. Control(l)'
    BY <1>1, <1>2 DEF Inv, Control, working, Serving, Launching, Ended
  <2>2. Lineage(l)'
    BY <1>1, <1>2 DEF Inv, Lineage, alive, Early
  <2>3. NotReleased(l)'
    BY <1>1, <1>2 DEF Inv, NotReleased, Unreleased, Early, Launching
  <2>4. Evidence(l)'
    BY <1>1, <1>2 DEF Inv, Evidence, alive
  <2>5. Results(l)'
    BY <1>1, <1>2 DEF Inv, Results, Outcomes
  <2>6. Backlog(l)'
    BY <1>1, <1>2 DEF Inv, Backlog, Early
  <2>7. Key(l)'
    BY <1>1, <1>2 DEF Inv, Key, Closed
  <2> QED
    BY <2>1, <2>2, <2>3, <2>4, <2>5, <2>6, <2>7 DEF Inv
<1>6. working(l)' => working(l) \/ \A m \in Launches : ~working(m)
  BY <1>1, <1>2 DEF working
<1> QED
  BY <1>3, <1>4, <1>5, <1>6 DEF Local

-----------------------------------------------------------------------------
(* The helper.                                                             *)

USE DEF provider_side, helper_to

(* Only a helper the worker still listens for gets in: its lease is        *)
(* published.                                                              *)
LEMMA ConnectLocal ==
    ASSUME IInv, NEW l \in Launches, connect(l)
    PROVE  Local(l)
<1>1. Types /\ Inv(l)
  BY DEF IInv
<1>2. /\ helper[l] = "started" /\ l \in sockets /\ pc[l] \notin {"queued", "done", "lost"}
      /\ helper'[l] = "connected"
      /\ UNCHANGED <<daemon, pc, err, sent, report, live, started, leases,
                      sockets, unit, consumer, descendant, status, chan, inbox,
                      outbox, agent, signed, material, endpoint>>
  BY <1>1 DEF Types, ProcessTypes, connect, listening, working
<1>3. Types'
  <2>1. ProviderTypes' /\ WorkerTypes' /\ AuthorityTypes' /\ FileTypes' /\
        BridgeTypes' /\ SshTypes'
    BY <1>1, <1>2 DEF Types, ProviderTypes, WorkerTypes, AuthorityTypes,
     FileTypes, BridgeTypes, SshTypes, connect, listening, working
  <2>2. ProcessTypes'
    BY <1>1, <1>2 DEF Types, ProcessTypes, Outcomes, connect, listening, working
  <2> QED
    BY <2>1, <2>2 DEF Types
<1>4. \A m \in Launches \ {l} : Same(m)
  BY <1>1, <1>2 DEF Types, Same, ProcessTypes, connect, listening, working
<1>5. Inv(l)'
  <2>1. Control(l)' /\ Results(l)' /\ Key(l)'
    BY <1>1, <1>2 DEF Inv, Control, working, Serving, Launching, Ended, Results,
     Outcomes, Key, Closed
  <2>2. Lineage(l)'
    BY <1>1, <1>2 DEF Inv, Lineage, alive, Early, Control, Serving, Launching
  <2>3. NotReleased(l)'
    BY <1>1, <1>2 DEF Inv, NotReleased, Unreleased, Early, Launching
  <2>4. Evidence(l)'
    BY <1>1, <1>2 DEF Inv, Evidence, alive, Control, Serving, Launching, Ended
  <2>5. Backlog(l)'
    BY <1>1, <1>2 DEF Inv, Backlog, Early
  <2> QED
    BY <2>1, <2>2, <2>3, <2>4, <2>5 DEF Inv
<1>6. working(l)' => working(l) \/ \A m \in Launches : ~working(m)
  BY <1>1, <1>2 DEF working
<1> QED
  BY <1>3, <1>4, <1>5, <1>6 DEF Local

(* TRANSFER is answered by READY.                                          *)
LEMMA TransferLocal ==
    ASSUME IInv, NEW l \in Launches, transfer(l)
    PROVE  Local(l)
<1>1. Types /\ Inv(l)
  BY DEF IInv
<1>a. BridgeTypes
  BY <1>1 DEF Types
<1>b. /\ inbox' \in [Launches -> Seq(Codes)]
      /\ \A m \in Launches \ {l} : inbox'[m] = inbox[m]
      /\ Len(inbox[l]) \in Nat /\ Len(inbox'[l]) \in Nat
      /\ Len(inbox'[l]) <= Len(inbox[l]) + 1
      /\ \A x : says(inbox'[l], x) => says(inbox[l], x) \/ x = "READY"
  BY <1>a, Told DEF transfer, Codes
<1>c. /\ outbox' \in [Launches -> Seq({"TRANSFER", "RELEASE"})]
      /\ \A m \in Launches \ {l} : outbox'[m] = outbox[m]
      /\ Len(outbox[l]) \in Nat /\ Len(outbox'[l]) = Len(outbox[l]) - 1
      /\ says(outbox[l], Head(outbox[l]))
      /\ \A x : says(outbox'[l], x) => says(outbox[l], x)
  BY <1>a, Received DEF transfer
<1>2. /\ helper[l] = "connected" /\ inbox[l] = <<>>
      /\ helper'[l] = "ready"
      /\ inbox' \in [Launches -> Seq(Codes)]
      /\ \A m \in Launches \ {l} : inbox'[m] = inbox[m]
      /\ Len(inbox[l]) \in Nat /\ Len(inbox'[l]) \in Nat
      /\ Len(inbox'[l]) <= Len(inbox[l]) + 1
      /\ \A x : says(inbox'[l], x) => says(inbox[l], x) \/ x = "READY"
      /\ outbox' \in [Launches -> Seq({"TRANSFER", "RELEASE"})]
      /\ \A m \in Launches \ {l} : outbox'[m] = outbox[m]
      /\ Len(outbox[l]) \in Nat /\ Len(outbox'[l]) = Len(outbox[l]) - 1
      /\ says(outbox[l], Head(outbox[l]))
      /\ \A x : says(outbox'[l], x) => says(outbox[l], x)
      /\ UNCHANGED <<daemon, pc, err, sent, report, live, started, leases,
                      sockets, unit, consumer, descendant, status, chan, agent,
                      signed, material, endpoint>>
  BY <1>1, <1>b, <1>c DEF Types, BridgeTypes, ProcessTypes, transfer, Inv,
     Backlog
<1>3. Types'
  <2>1. ProviderTypes' /\ WorkerTypes' /\ AuthorityTypes' /\ FileTypes' /\
        SshTypes'
    BY <1>1, <1>2 DEF Types, ProviderTypes, WorkerTypes, AuthorityTypes,
     FileTypes, SshTypes, transfer, Inv, Backlog
  <2>2. ProcessTypes'
    BY <1>1, <1>2, <1>b, <1>c DEF Types, ProcessTypes, Outcomes, transfer, Inv,
     Backlog
  <2>3. BridgeTypes'
    BY <1>1, <1>2, <1>b, <1>c DEF Types, BridgeTypes, Codes, Outcomes, transfer,
     Inv, Backlog
  <2> QED
    BY <2>1, <2>2, <2>3 DEF Types
<1>4. \A m \in Launches \ {l} : Same(m)
  BY <1>1, <1>2, <1>b, <1>c DEF Types, Same, BridgeTypes, ProcessTypes, transfer,
     Inv, Backlog
<1>5. Inv(l)'
  <2>1. Control(l)' /\ Key(l)'
    BY <1>1, <1>2 DEF Inv, Control, working, Serving, Launching, Ended, Key,
     Closed
  <2>2. Lineage(l)'
    BY <1>1, <1>2 DEF Inv, Lineage, alive, Early
  <2>3. NotReleased(l)'
    BY <1>1, <1>2 DEF Inv, NotReleased, Unreleased, Early, Launching
  <2>4. Evidence(l)'
    BY <1>1, <1>2 DEF Inv, Evidence, alive, Lineage
  <2>5. Results(l)'
    BY <1>1, <1>2 DEF Inv, Results, Outcomes, Lineage
  <2>6. Backlog(l)'
    <3>1. Len(<<>>) = 0
      BY EmptySeq
    <3>2. Len(inbox'[l]) <= 1 /\ ~says(outbox'[l], "RELEASE") /\ pc[l] # "release"
      BY <1>1, <1>2, <3>1 DEF Inv, Backlog
    <3> QED
      BY <1>1, <1>2, <3>2 DEF Inv, Backlog, Early
  <2> QED
    BY <2>1, <2>2, <2>3, <2>4, <2>5, <2>6 DEF Inv
<1>6. working(l)' => working(l) \/ \A m \in Launches : ~working(m)
  BY <1>1, <1>2 DEF working
<1> QED
  BY <1>3, <1>4, <1>5, <1>6 DEF Local

(* RELEASE is read.                                                        *)
LEMMA ReleasedLocal ==
    ASSUME IInv, NEW l \in Launches, released(l)
    PROVE  Local(l)
<1>1. Types /\ Inv(l)
  BY DEF IInv
<1>a. BridgeTypes
  BY <1>1 DEF Types
<1>b. /\ outbox' \in [Launches -> Seq({"TRANSFER", "RELEASE"})]
      /\ \A m \in Launches \ {l} : outbox'[m] = outbox[m]
      /\ Len(outbox[l]) \in Nat /\ Len(outbox'[l]) = Len(outbox[l]) - 1
      /\ says(outbox[l], Head(outbox[l]))
      /\ \A x : says(outbox'[l], x) => says(outbox[l], x)
  BY <1>a, Received DEF released
<1>2. /\ helper[l] = "ready" /\ outbox[l] # <<>> /\ Head(outbox[l]) = "RELEASE"
      /\ helper'[l] = "released"
      /\ outbox' \in [Launches -> Seq({"TRANSFER", "RELEASE"})]
      /\ \A m \in Launches \ {l} : outbox'[m] = outbox[m]
      /\ Len(outbox[l]) \in Nat /\ Len(outbox'[l]) = Len(outbox[l]) - 1
      /\ says(outbox[l], Head(outbox[l]))
      /\ \A x : says(outbox'[l], x) => says(outbox[l], x)
      /\ UNCHANGED <<daemon, pc, err, sent, report, live, started, leases,
                      sockets, unit, consumer, descendant, status, chan, inbox,
                      agent, signed, material, endpoint>>
  BY <1>1, <1>b DEF Types, BridgeTypes, ProcessTypes, released
<1>3. Types'
  <2>1. ProviderTypes' /\ WorkerTypes' /\ AuthorityTypes' /\ FileTypes' /\
        SshTypes'
    BY <1>1, <1>2 DEF Types, ProviderTypes, WorkerTypes, AuthorityTypes,
     FileTypes, SshTypes, released
  <2>2. ProcessTypes'
    BY <1>1, <1>2, <1>b DEF Types, ProcessTypes, Outcomes, released
  <2>3. BridgeTypes'
    BY <1>1, <1>2, <1>b DEF Types, BridgeTypes, Codes, Outcomes, released
  <2> QED
    BY <2>1, <2>2, <2>3 DEF Types
<1>4. \A m \in Launches \ {l} : Same(m)
  BY <1>1, <1>2, <1>b DEF Types, Same, BridgeTypes, ProcessTypes, released
<1>5. Inv(l)'
  <2>1. Control(l)' /\ Results(l)' /\ Key(l)'
    BY <1>1, <1>2 DEF Inv, Control, working, Serving, Launching, Ended, Results,
     Outcomes, Key, Closed
  <2>2. Lineage(l)'
    BY <1>1, <1>2 DEF Inv, Lineage, alive, Early
  <2>3. NotReleased(l)'
    BY <1>1, <1>2 DEF Inv, NotReleased, Unreleased, Early, Launching
  <2>4. Evidence(l)'
    BY <1>1, <1>2 DEF Inv, Evidence, alive
  <2>5. Backlog(l)'
    BY <1>1, <1>2 DEF Inv, Backlog, Early, NotReleased, Unreleased, Launching
  <2> QED
    BY <2>1, <2>2, <2>3, <2>4, <2>5 DEF Inv
<1>6. working(l)' => working(l) \/ \A m \in Launches : ~working(m)
  BY <1>1, <1>2 DEF working
<1> QED
  BY <1>3, <1>4, <1>5, <1>6 DEF Local

(* The consumer is forked.                                                 *)
LEMMA ForkLocal ==
    ASSUME IInv, NEW l \in Launches, fork(l)
    PROVE  Local(l)
<1>1. Types /\ Inv(l)
  BY DEF IInv
<1>2. /\ helper[l] = "released" /\ consumer[l] = "none" /\ ~descendant[l]
      /\ helper'[l] = "tracing"
      /\ consumer'[l] = "forked"
      /\ UNCHANGED <<daemon, pc, err, sent, report, live, started, leases,
                      sockets, unit, descendant, status, chan, inbox, outbox,
                      agent, signed, material, endpoint>>
  BY <1>1 DEF Types, ProcessTypes, fork, Inv, Lineage
<1>3. Types'
  <2>1. ProviderTypes' /\ WorkerTypes' /\ AuthorityTypes' /\ FileTypes' /\
        BridgeTypes' /\ SshTypes'
    BY <1>1, <1>2 DEF Types, ProviderTypes, WorkerTypes, AuthorityTypes,
     FileTypes, BridgeTypes, SshTypes, fork, Inv, Lineage
  <2>2. ProcessTypes'
    BY <1>1, <1>2 DEF Types, ProcessTypes, Outcomes, fork, Inv, Lineage
  <2> QED
    BY <2>1, <2>2 DEF Types
<1>4. \A m \in Launches \ {l} : Same(m)
  BY <1>1, <1>2 DEF Types, Same, ProcessTypes, fork, Inv, Lineage
<1>5. Inv(l)'
  <2>1. Control(l)' /\ Key(l)'
    BY <1>1, <1>2 DEF Inv, Control, working, Serving, Launching, Ended, Key,
     Closed
  <2>2. Lineage(l)'
    BY <1>1, <1>2 DEF Inv, Lineage, alive, Early
  <2>3. NotReleased(l)'
    BY <1>1, <1>2 DEF Inv, NotReleased, Unreleased, Early, Launching
  <2>4. Evidence(l)'
    BY <1>1, <1>2 DEF Inv, Evidence, alive
  <2>5. Results(l)'
    BY <1>1, <1>2 DEF Inv, Results, Outcomes
  <2>6. Backlog(l)'
    BY <1>1, <1>2 DEF Inv, Backlog, Early
  <2> QED
    BY <2>1, <2>2, <2>3, <2>4, <2>5, <2>6 DEF Inv
<1>6. working(l)' => working(l) \/ \A m \in Launches : ~working(m)
  BY <1>1, <1>2 DEF working
<1> QED
  BY <1>3, <1>4, <1>5, <1>6 DEF Local

(* The exec is proved and EXEC sent.                                       *)
LEMMA TracedLocal ==
    ASSUME IInv, NEW l \in Launches, traced(l)
    PROVE  Local(l)
<1>1. Types /\ Inv(l)
  BY DEF IInv
<1>a. BridgeTypes
  BY <1>1 DEF Types
<1>b. /\ inbox' \in [Launches -> Seq(Codes)]
      /\ \A m \in Launches \ {l} : inbox'[m] = inbox[m]
      /\ Len(inbox[l]) \in Nat /\ Len(inbox'[l]) \in Nat
      /\ Len(inbox'[l]) <= Len(inbox[l]) + 1
      /\ \A x : says(inbox'[l], x) => says(inbox[l], x) \/ x = "EXEC"
  BY <1>a, Told DEF traced, Codes
<1>2. /\ helper[l] = "tracing" /\ consumer[l] = "trapped"
      /\ helper'[l] = "reaping"
      /\ consumer'[l] = "running"
      /\ inbox' \in [Launches -> Seq(Codes)]
      /\ \A m \in Launches \ {l} : inbox'[m] = inbox[m]
      /\ Len(inbox[l]) \in Nat /\ Len(inbox'[l]) \in Nat
      /\ Len(inbox'[l]) <= Len(inbox[l]) + 1
      /\ \A x : says(inbox'[l], x) => says(inbox[l], x) \/ x = "EXEC"
      /\ UNCHANGED <<daemon, pc, err, sent, report, live, started, leases,
                      sockets, unit, descendant, status, chan, outbox, agent,
                      signed, material, endpoint>>
  BY <1>1, <1>b DEF Types, BridgeTypes, ProcessTypes, traced
<1>3. Types'
  <2>1. ProviderTypes' /\ WorkerTypes' /\ AuthorityTypes' /\ FileTypes' /\
        SshTypes'
    BY <1>1, <1>2 DEF Types, ProviderTypes, WorkerTypes, AuthorityTypes,
     FileTypes, SshTypes, traced
  <2>2. ProcessTypes'
    BY <1>1, <1>2, <1>b DEF Types, ProcessTypes, Outcomes, traced
  <2>3. BridgeTypes'
    BY <1>1, <1>2, <1>b DEF Types, BridgeTypes, Codes, Outcomes, traced
  <2> QED
    BY <2>1, <2>2, <2>3 DEF Types
<1>4. \A m \in Launches \ {l} : Same(m)
  BY <1>1, <1>2, <1>b DEF Types, Same, BridgeTypes, ProcessTypes, traced
<1>5. Inv(l)'
  <2>1. Control(l)' /\ Key(l)'
    BY <1>1, <1>2 DEF Inv, Control, working, Serving, Launching, Ended, Key,
     Closed
  <2>2. Lineage(l)'
    BY <1>1, <1>2 DEF Inv, Lineage, alive, Early
  <2>3. NotReleased(l)'
    BY <1>1, <1>2 DEF Inv, NotReleased, Unreleased, Early, Launching
  <2>4. Evidence(l)'
    BY <1>1, <1>2 DEF Inv, Evidence, alive
  <2>5. Results(l)'
    BY <1>1, <1>2 DEF Inv, Results, Outcomes
  <2>6. Backlog(l)'
    BY <1>1, <1>2, SaysEmpty, ShortIsEmpty DEF Inv, Backlog, Early
  <2> QED
    BY <2>1, <2>2, <2>3, <2>4, <2>5, <2>6 DEF Inv
<1>6. working(l)' => working(l) \/ \A m \in Launches : ~working(m)
  BY <1>1, <1>2 DEF working
<1> QED
  BY <1>3, <1>4, <1>5, <1>6 DEF Local

(* The child ended before its exec.                                        *)
LEMMA UntracedLocal ==
    ASSUME IInv, NEW l \in Launches, untraced(l)
    PROVE  Local(l)
<1>1. Types /\ Inv(l)
  BY DEF IInv
<1>a. BridgeTypes
  BY <1>1 DEF Types
<1>b. /\ inbox' \in [Launches -> Seq(Codes)]
      /\ \A m \in Launches \ {l} : inbox'[m] = inbox[m]
      /\ Len(inbox[l]) \in Nat /\ Len(inbox'[l]) \in Nat
      /\ Len(inbox'[l]) <= Len(inbox[l]) + 1
      /\ \A x : says(inbox'[l], x) => says(inbox[l], x) \/ x = "FAILED"
  BY <1>a, Told DEF untraced, Codes
<1>2. /\ helper[l] = "tracing"
      /\ helper'[l] = "unconfirmed"
      /\ inbox' \in [Launches -> Seq(Codes)]
      /\ \A m \in Launches \ {l} : inbox'[m] = inbox[m]
      /\ Len(inbox[l]) \in Nat /\ Len(inbox'[l]) \in Nat
      /\ Len(inbox'[l]) <= Len(inbox[l]) + 1
      /\ \A x : says(inbox'[l], x) => says(inbox[l], x) \/ x = "FAILED"
      /\ UNCHANGED <<daemon, pc, err, sent, report, live, started, leases,
                      sockets, unit, consumer, descendant, status, chan, outbox,
                      agent, signed, material, endpoint>>
  BY <1>1, <1>b DEF Types, BridgeTypes, ProcessTypes, untraced
<1>3. Types'
  <2>1. ProviderTypes' /\ WorkerTypes' /\ AuthorityTypes' /\ FileTypes' /\
        SshTypes'
    BY <1>1, <1>2 DEF Types, ProviderTypes, WorkerTypes, AuthorityTypes,
     FileTypes, SshTypes, untraced
  <2>2. ProcessTypes'
    BY <1>1, <1>2, <1>b DEF Types, ProcessTypes, Outcomes, untraced
  <2>3. BridgeTypes'
    BY <1>1, <1>2, <1>b DEF Types, BridgeTypes, Codes, Outcomes, untraced
  <2> QED
    BY <2>1, <2>2, <2>3 DEF Types
<1>4. \A m \in Launches \ {l} : Same(m)
  BY <1>1, <1>2, <1>b DEF Types, Same, BridgeTypes, ProcessTypes, untraced
<1>5. Inv(l)'
  <2>1. Control(l)' /\ Key(l)'
    BY <1>1, <1>2 DEF Inv, Control, working, Serving, Launching, Ended, Key,
     Closed
  <2>2. Lineage(l)'
    BY <1>1, <1>2 DEF Inv, Lineage, alive, Early
  <2>3. NotReleased(l)'
    BY <1>1, <1>2 DEF Inv, NotReleased, Unreleased, Early, Launching
  <2>4. Evidence(l)'
    BY <1>1, <1>2 DEF Inv, Evidence, alive
  <2>5. Results(l)'
    BY <1>1, <1>2 DEF Inv, Results, Outcomes
  <2>6. Backlog(l)'
    BY <1>1, <1>2, SaysEmpty, ShortIsEmpty DEF Inv, Backlog, Early
  <2> QED
    BY <2>1, <2>2, <2>3, <2>4, <2>5, <2>6 DEF Inv
<1>6. working(l)' => working(l) \/ \A m \in Launches : ~working(m)
  BY <1>1, <1>2 DEF working
<1> QED
  BY <1>3, <1>4, <1>5, <1>6 DEF Local

(* Nobody listens: the helper leaves.                                      *)
LEMMA HungUpLocal ==
    ASSUME IInv, NEW l \in Launches, hung_up(l)
    PROVE  Local(l)
<1>1. Types /\ Inv(l)
  BY DEF IInv
<1>l. /\ consumer' \in [Launches -> {"none", "forked", "trapped", "running", "exited", "reaped"}]
      /\ \A m \in Launches \ {l} : consumer'[m] = consumer[m]
      /\ consumer'[l] \in {"forked", "trapped", "running"} <=> consumer[l] \in {"forked", "trapped", "running"}
      /\ consumer[l] \in {"none", "reaped"} => consumer'[l] = consumer[l]
      /\ consumer'[l] # "exited"
      /\ <<>> \in Seq({"TRANSFER", "RELEASE"}) /\ \A x : ~says(<<>>, x)
  <2>1. /\ consumer' = [consumer EXCEPT ![l] =
              CASE @ = "trapped" -> "running" [] @ = "exited" -> "reaped" [] OTHER -> @]
        /\ consumer \in [Launches -> {"none", "forked", "trapped", "running", "exited", "reaped"}]
    BY <1>1 DEF hung_up, helper_leaves, Types, ProcessTypes
  <2> QED
    BY <2>1, SaysEmpty, EmptySeq
<1>2. /\ helper[l] \notin {"none", "gone"}
      /\ helper'[l] = "gone"
      /\ outbox' = [outbox EXCEPT ![l] = <<>>] /\ outbox'[l] = <<>>
      /\ consumer' \in [Launches -> {"none", "forked", "trapped", "running", "exited", "reaped"}]
      /\ \A m \in Launches \ {l} : consumer'[m] = consumer[m]
      /\ consumer'[l] \in {"forked", "trapped", "running"} <=>
            consumer[l] \in {"forked", "trapped", "running"}
      /\ consumer[l] \in {"none", "reaped"} => consumer'[l] = consumer[l]
      /\ consumer'[l] # "exited"
      /\ UNCHANGED <<daemon, pc, err, sent, report, live, started, leases,
                      sockets, unit, descendant, status, chan, inbox, agent,
                      signed, material, endpoint>>
  BY <1>1, <1>l DEF Types, BridgeTypes, ProcessTypes, hung_up, helper_leaves
<1>3. Types'
  <2>1. ProviderTypes' /\ WorkerTypes' /\ AuthorityTypes' /\ FileTypes' /\
        SshTypes'
    BY <1>1, <1>2 DEF Types, ProviderTypes, WorkerTypes, AuthorityTypes,
     FileTypes, SshTypes, hung_up, helper_leaves
  <2>2. ProcessTypes'
    BY <1>1, <1>2, <1>l DEF Types, ProcessTypes, Outcomes, hung_up, helper_leaves
  <2>3. BridgeTypes'
    BY <1>1, <1>2, <1>l DEF Types, BridgeTypes, Codes, Outcomes, hung_up,
     helper_leaves
  <2> QED
    BY <2>1, <2>2, <2>3 DEF Types
<1>4. \A m \in Launches \ {l} : Same(m)
  BY <1>1, <1>2, <1>l DEF Types, Same, BridgeTypes, ProcessTypes, hung_up,
     helper_leaves
<1>5. Inv(l)'
  <2>1. Control(l)' /\ Key(l)'
    BY <1>1, <1>2 DEF Inv, Control, working, Serving, Launching, Ended, Key,
     Closed
  <2>2. Lineage(l)'
    BY <1>1, <1>2 DEF Inv, Lineage, alive, Early
  <2>3. NotReleased(l)'
    BY <1>1, <1>2, SaysEmpty DEF Inv, NotReleased, Unreleased, Early, Launching
  <2>4. Evidence(l)'
    BY <1>1, <1>2 DEF Inv, Evidence, alive
  <2>5. Results(l)'
    BY <1>1, <1>2 DEF Inv, Results, Outcomes
  <2>6. Backlog(l)'
    BY <1>1, <1>2, SaysEmpty, ShortIsEmpty DEF Inv, Backlog, Early
  <2> QED
    BY <2>1, <2>2, <2>3, <2>4, <2>5, <2>6 DEF Inv
<1>6. working(l)' => working(l) \/ \A m \in Launches : ~working(m)
  BY <1>1, <1>2 DEF working
<1> QED
  BY <1>3, <1>4, <1>5, <1>6 DEF Local

(* The helper is killed.                                                   *)
LEMMA HelperDiesLocal ==
    ASSUME IInv, NEW l \in Launches, helper_dies(l)
    PROVE  Local(l)
<1>1. Types /\ Inv(l)
  BY DEF IInv
<1>l. /\ consumer' \in [Launches -> {"none", "forked", "trapped", "running", "exited", "reaped"}]
      /\ \A m \in Launches \ {l} : consumer'[m] = consumer[m]
      /\ consumer'[l] \in {"forked", "trapped", "running"} <=> consumer[l] \in {"forked", "trapped", "running"}
      /\ consumer[l] \in {"none", "reaped"} => consumer'[l] = consumer[l]
      /\ consumer'[l] # "exited"
      /\ <<>> \in Seq({"TRANSFER", "RELEASE"}) /\ \A x : ~says(<<>>, x)
  <2>1. /\ consumer' = [consumer EXCEPT ![l] =
              CASE @ = "trapped" -> "running" [] @ = "exited" -> "reaped" [] OTHER -> @]
        /\ consumer \in [Launches -> {"none", "forked", "trapped", "running", "exited", "reaped"}]
    BY <1>1 DEF helper_dies, helper_leaves, Types, ProcessTypes
  <2> QED
    BY <2>1, SaysEmpty, EmptySeq
<1>2. /\ helper[l] \notin {"none", "gone"}
      /\ helper'[l] = "gone"
      /\ outbox' = [outbox EXCEPT ![l] = <<>>] /\ outbox'[l] = <<>>
      /\ consumer' \in [Launches -> {"none", "forked", "trapped", "running", "exited", "reaped"}]
      /\ \A m \in Launches \ {l} : consumer'[m] = consumer[m]
      /\ consumer'[l] \in {"forked", "trapped", "running"} <=>
            consumer[l] \in {"forked", "trapped", "running"}
      /\ consumer[l] \in {"none", "reaped"} => consumer'[l] = consumer[l]
      /\ consumer'[l] # "exited"
      /\ UNCHANGED <<daemon, pc, err, sent, report, live, started, leases,
                      sockets, unit, descendant, status, chan, inbox, agent,
                      signed, material, endpoint>>
  BY <1>1, <1>l DEF Types, BridgeTypes, ProcessTypes, helper_dies, helper_leaves
<1>3. Types'
  <2>1. ProviderTypes' /\ WorkerTypes' /\ AuthorityTypes' /\ FileTypes' /\
        SshTypes'
    BY <1>1, <1>2 DEF Types, ProviderTypes, WorkerTypes, AuthorityTypes,
     FileTypes, SshTypes, helper_dies, helper_leaves
  <2>2. ProcessTypes'
    BY <1>1, <1>2, <1>l DEF Types, ProcessTypes, Outcomes, helper_dies,
     helper_leaves
  <2>3. BridgeTypes'
    BY <1>1, <1>2, <1>l DEF Types, BridgeTypes, Codes, Outcomes, helper_dies,
     helper_leaves
  <2> QED
    BY <2>1, <2>2, <2>3 DEF Types
<1>4. \A m \in Launches \ {l} : Same(m)
  BY <1>1, <1>2, <1>l DEF Types, Same, BridgeTypes, ProcessTypes, helper_dies,
     helper_leaves
<1>5. Inv(l)'
  <2>1. Control(l)' /\ Key(l)'
    BY <1>1, <1>2 DEF Inv, Control, working, Serving, Launching, Ended, Key,
     Closed
  <2>2. Lineage(l)'
    BY <1>1, <1>2 DEF Inv, Lineage, alive, Early
  <2>3. NotReleased(l)'
    BY <1>1, <1>2, SaysEmpty DEF Inv, NotReleased, Unreleased, Early, Launching
  <2>4. Evidence(l)'
    BY <1>1, <1>2 DEF Inv, Evidence, alive
  <2>5. Results(l)'
    BY <1>1, <1>2 DEF Inv, Results, Outcomes
  <2>6. Backlog(l)'
    BY <1>1, <1>2, SaysEmpty, ShortIsEmpty DEF Inv, Backlog, Early
  <2> QED
    BY <2>1, <2>2, <2>3, <2>4, <2>5, <2>6 DEF Inv
<1>6. working(l)' => working(l) \/ \A m \in Launches : ~working(m)
  BY <1>1, <1>2 DEF working
<1> QED
  BY <1>3, <1>4, <1>5, <1>6 DEF Local

(* The helper gives up and says so.                                        *)
LEMMA SessionFailsLocal ==
    ASSUME IInv, NEW l \in Launches, session_fails(l)
    PROVE  Local(l)
<1>1. Types /\ Inv(l)
  BY DEF IInv
<1>a. BridgeTypes
  BY <1>1 DEF Types
<1>b. /\ inbox' \in [Launches -> Seq(Codes)]
      /\ \A m \in Launches \ {l} : inbox'[m] = inbox[m]
      /\ Len(inbox[l]) \in Nat /\ Len(inbox'[l]) \in Nat
      /\ Len(inbox'[l]) <= Len(inbox[l]) + 1
      /\ \A x : says(inbox'[l], x) => says(inbox[l], x) \/ x = "FAILED"
  BY <1>a, Told DEF session_fails, Codes
<1>l. /\ consumer' \in [Launches -> {"none", "forked", "trapped", "running", "exited", "reaped"}]
      /\ \A m \in Launches \ {l} : consumer'[m] = consumer[m]
      /\ consumer'[l] \in {"forked", "trapped", "running"} <=> consumer[l] \in {"forked", "trapped", "running"}
      /\ consumer[l] \in {"none", "reaped"} => consumer'[l] = consumer[l]
      /\ consumer'[l] # "exited"
      /\ <<>> \in Seq({"TRANSFER", "RELEASE"}) /\ \A x : ~says(<<>>, x)
  <2>1. /\ consumer' = [consumer EXCEPT ![l] =
              CASE @ = "trapped" -> "running" [] @ = "exited" -> "reaped" [] OTHER -> @]
        /\ consumer \in [Launches -> {"none", "forked", "trapped", "running", "exited", "reaped"}]
    BY <1>1 DEF session_fails, helper_leaves, Types, ProcessTypes
  <2> QED
    BY <2>1, SaysEmpty, EmptySeq
<1>2. /\ helper[l] \notin {"none", "started", "gone"}
      /\ helper'[l] = "gone"
      /\ outbox' = [outbox EXCEPT ![l] = <<>>] /\ outbox'[l] = <<>>
      /\ consumer' \in [Launches -> {"none", "forked", "trapped", "running", "exited", "reaped"}]
      /\ \A m \in Launches \ {l} : consumer'[m] = consumer[m]
      /\ consumer'[l] \in {"forked", "trapped", "running"} <=>
            consumer[l] \in {"forked", "trapped", "running"}
      /\ consumer[l] \in {"none", "reaped"} => consumer'[l] = consumer[l]
      /\ consumer'[l] # "exited"
      /\ inbox' \in [Launches -> Seq(Codes)]
      /\ \A m \in Launches \ {l} : inbox'[m] = inbox[m]
      /\ Len(inbox[l]) \in Nat /\ Len(inbox'[l]) \in Nat
      /\ Len(inbox'[l]) <= Len(inbox[l]) + 1
      /\ \A x : says(inbox'[l], x) => says(inbox[l], x) \/ x = "FAILED"
      /\ UNCHANGED <<daemon, pc, err, sent, report, live, started, leases,
                      sockets, unit, descendant, status, chan, agent, signed,
                      material, endpoint>>
  BY <1>1, <1>b, <1>l DEF Types, BridgeTypes, ProcessTypes, session_fails,
     helper_leaves
<1>3. Types'
  <2>1. ProviderTypes' /\ WorkerTypes' /\ AuthorityTypes' /\ FileTypes' /\
        SshTypes'
    BY <1>1, <1>2 DEF Types, ProviderTypes, WorkerTypes, AuthorityTypes,
     FileTypes, SshTypes, session_fails, helper_leaves
  <2>2. ProcessTypes'
    BY <1>1, <1>2, <1>b, <1>l DEF Types, ProcessTypes, Outcomes, session_fails,
     helper_leaves
  <2>3. BridgeTypes'
    BY <1>1, <1>2, <1>b, <1>l DEF Types, BridgeTypes, Codes, Outcomes,
     session_fails, helper_leaves
  <2> QED
    BY <2>1, <2>2, <2>3 DEF Types
<1>4. \A m \in Launches \ {l} : Same(m)
  BY <1>1, <1>2, <1>b, <1>l DEF Types, Same, BridgeTypes, ProcessTypes,
     session_fails, helper_leaves
<1>5. Inv(l)'
  <2>1. Control(l)' /\ Key(l)'
    BY <1>1, <1>2 DEF Inv, Control, working, Serving, Launching, Ended, Key,
     Closed
  <2>2. Lineage(l)'
    BY <1>1, <1>2 DEF Inv, Lineage, alive, Early
  <2>3. NotReleased(l)'
    BY <1>1, <1>2, SaysEmpty DEF Inv, NotReleased, Unreleased, Early, Launching
  <2>4. Evidence(l)'
    BY <1>1, <1>2 DEF Inv, Evidence, alive
  <2>5. Results(l)'
    BY <1>1, <1>2 DEF Inv, Results, Outcomes
  <2>6. Backlog(l)'
    <3>1. Len(<<>>) = 0
      BY EmptySeq
    <3>2. Len(inbox[l]) <= 2
      BY <1>1, <1>2, <3>1 DEF Inv, Backlog, ProcessTypes, Types
    <3> QED
      BY <1>1, <1>2, <3>1, <3>2, SaysEmpty DEF Inv, Backlog, Early
  <2> QED
    BY <2>1, <2>2, <2>3, <2>4, <2>5, <2>6 DEF Inv
<1>6. working(l)' => working(l) \/ \A m \in Launches : ~working(m)
  BY <1>1, <1>2 DEF working
<1> QED
  BY <1>3, <1>4, <1>5, <1>6 DEF Local

(* The consumer is waited for; its status is told if its exec was proved.  *)
LEMMA ReapLocal ==
    ASSUME IInv, NEW l \in Launches, reap(l)
    PROVE  Local(l)
<1>1. Types /\ Inv(l)
  BY DEF IInv
<1>a. BridgeTypes
  BY <1>1 DEF Types
<1>b. /\ inbox' \in [Launches -> Seq(Codes)]
      /\ \A m \in Launches \ {l} : inbox'[m] = inbox[m]
      /\ Len(inbox[l]) \in Nat /\ Len(inbox'[l]) \in Nat
      /\ \/ Len(inbox'[l]) <= Len(inbox[l]) + 1 /\ helper[l] = "reaping"
         \/ inbox'[l] = inbox[l]
      /\ \A x : says(inbox'[l], x) => says(inbox[l], x) \/ x = status[l]
  <2>1. CASE helper[l] = "reaping"
    <3>1. status[l] \in Codes /\ tell(l, status[l])
      BY <1>1, <2>1 DEF reap, Inv, Results, Codes
    <3> QED
      BY <1>a, <2>1, <3>1, Told
  <2>2. CASE helper[l] # "reaping"
    BY <1>a, <2>2, LenProperties DEF reap, BridgeTypes
  <2> QED
    BY <2>1, <2>2
<1>2. /\ helper[l] \in {"reaping", "unconfirmed"} /\ consumer[l] = "exited"
      /\ consumer'[l] = "reaped"
      /\ inbox' \in [Launches -> Seq(Codes)]
      /\ \A m \in Launches \ {l} : inbox'[m] = inbox[m]
      /\ Len(inbox[l]) \in Nat /\ Len(inbox'[l]) \in Nat
      /\ \/ Len(inbox'[l]) <= Len(inbox[l]) + 1 /\ helper[l] = "reaping"
         \/ inbox'[l] = inbox[l]
      /\ \A x : says(inbox'[l], x) => says(inbox[l], x) \/ x = status[l]
      /\ UNCHANGED <<daemon, pc, err, sent, report, live, started, leases,
                      sockets, unit, helper, descendant, status, chan, outbox,
                      agent, signed, material, endpoint>>
  BY <1>1, <1>b DEF Types, BridgeTypes, ProcessTypes, reap
<1>3. Types'
  <2>1. ProviderTypes' /\ WorkerTypes' /\ AuthorityTypes' /\ FileTypes' /\
        SshTypes'
    BY <1>1, <1>2 DEF Types, ProviderTypes, WorkerTypes, AuthorityTypes,
     FileTypes, SshTypes, reap
  <2>2. ProcessTypes'
    BY <1>1, <1>2, <1>b DEF Types, ProcessTypes, Outcomes, reap
  <2>3. BridgeTypes'
    BY <1>1, <1>2, <1>b DEF Types, BridgeTypes, Codes, Outcomes, reap
  <2> QED
    BY <2>1, <2>2, <2>3 DEF Types
<1>4. \A m \in Launches \ {l} : Same(m)
  BY <1>1, <1>2, <1>b DEF Types, Same, BridgeTypes, ProcessTypes, reap
<1>5. Inv(l)'
  <2>1. Control(l)' /\ Key(l)'
    BY <1>1, <1>2 DEF Inv, Control, working, Serving, Launching, Ended, Key,
     Closed
  <2>2. Lineage(l)'
    BY <1>1, <1>2 DEF Inv, Lineage, alive, Early
  <2>3. NotReleased(l)'
    BY <1>1, <1>2 DEF Inv, NotReleased, Unreleased, Early, Launching
  <2>4. Evidence(l)'
    BY <1>1, <1>2 DEF Inv, Evidence, alive, Results, Outcomes
  <2>5. Results(l)'
    BY <1>1, <1>2 DEF Inv, Results, Outcomes
  <2>6. Backlog(l)'
    BY <1>1, <1>2 DEF Inv, Backlog, Early
  <2> QED
    BY <2>1, <2>2, <2>3, <2>4, <2>5, <2>6 DEF Inv
<1>6. working(l)' => working(l) \/ \A m \in Launches : ~working(m)
  BY <1>1, <1>2 DEF working
<1> QED
  BY <1>3, <1>4, <1>5, <1>6 DEF Local

(* Nothing of the launch is left: REAPED, and the helper ends.             *)
LEMMA ReapAllLocal ==
    ASSUME IInv, NEW l \in Launches, reap_all(l)
    PROVE  Local(l)
<1>1. Types /\ Inv(l)
  BY DEF IInv
<1>a. BridgeTypes
  BY <1>1 DEF Types
<1>b. /\ inbox' \in [Launches -> Seq(Codes)]
      /\ \A m \in Launches \ {l} : inbox'[m] = inbox[m]
      /\ Len(inbox[l]) \in Nat /\ Len(inbox'[l]) \in Nat
      /\ Len(inbox'[l]) <= Len(inbox[l]) + 1
      /\ \A x : says(inbox'[l], x) => says(inbox[l], x) \/ x = "REAPED"
  BY <1>a, Told DEF reap_all, Codes
<1>l. /\ consumer' \in [Launches -> {"none", "forked", "trapped", "running", "exited", "reaped"}]
      /\ \A m \in Launches \ {l} : consumer'[m] = consumer[m]
      /\ consumer'[l] \in {"forked", "trapped", "running"} <=> consumer[l] \in {"forked", "trapped", "running"}
      /\ consumer[l] \in {"none", "reaped"} => consumer'[l] = consumer[l]
      /\ consumer'[l] # "exited"
      /\ <<>> \in Seq({"TRANSFER", "RELEASE"}) /\ \A x : ~says(<<>>, x)
  <2>1. /\ consumer' = [consumer EXCEPT ![l] =
              CASE @ = "trapped" -> "running" [] @ = "exited" -> "reaped" [] OTHER -> @]
        /\ consumer \in [Launches -> {"none", "forked", "trapped", "running", "exited", "reaped"}]
    BY <1>1 DEF reap_all, helper_leaves, Types, ProcessTypes
  <2> QED
    BY <2>1, SaysEmpty, EmptySeq
<1>2. /\ helper[l] \in {"reaping", "unconfirmed"} /\ consumer[l] = "reaped" /\ ~descendant[l]
      /\ helper'[l] = "gone"
      /\ outbox' = [outbox EXCEPT ![l] = <<>>] /\ outbox'[l] = <<>>
      /\ consumer' \in [Launches -> {"none", "forked", "trapped", "running", "exited", "reaped"}]
      /\ \A m \in Launches \ {l} : consumer'[m] = consumer[m]
      /\ consumer'[l] \in {"forked", "trapped", "running"} <=>
            consumer[l] \in {"forked", "trapped", "running"}
      /\ consumer[l] \in {"none", "reaped"} => consumer'[l] = consumer[l]
      /\ consumer'[l] # "exited"
      /\ inbox' \in [Launches -> Seq(Codes)]
      /\ \A m \in Launches \ {l} : inbox'[m] = inbox[m]
      /\ Len(inbox[l]) \in Nat /\ Len(inbox'[l]) \in Nat
      /\ Len(inbox'[l]) <= Len(inbox[l]) + 1
      /\ \A x : says(inbox'[l], x) => says(inbox[l], x) \/ x = "REAPED"
      /\ UNCHANGED <<daemon, pc, err, sent, report, live, started, leases,
                      sockets, unit, descendant, status, chan, agent, signed,
                      material, endpoint>>
  BY <1>1, <1>b, <1>l DEF Types, BridgeTypes, ProcessTypes, reap_all,
     helper_leaves
<1>3. Types'
  <2>1. ProviderTypes' /\ WorkerTypes' /\ AuthorityTypes' /\ FileTypes' /\
        SshTypes'
    BY <1>1, <1>2 DEF Types, ProviderTypes, WorkerTypes, AuthorityTypes,
     FileTypes, SshTypes, reap_all, helper_leaves
  <2>2. ProcessTypes'
    BY <1>1, <1>2, <1>b, <1>l DEF Types, ProcessTypes, Outcomes, reap_all,
     helper_leaves
  <2>3. BridgeTypes'
    BY <1>1, <1>2, <1>b, <1>l DEF Types, BridgeTypes, Codes, Outcomes, reap_all,
     helper_leaves
  <2> QED
    BY <2>1, <2>2, <2>3 DEF Types
<1>4. \A m \in Launches \ {l} : Same(m)
  BY <1>1, <1>2, <1>b, <1>l DEF Types, Same, BridgeTypes, ProcessTypes, reap_all,
     helper_leaves
<1>5. Inv(l)'
  <2>1. Control(l)' /\ Key(l)'
    BY <1>1, <1>2 DEF Inv, Control, working, Serving, Launching, Ended, Key,
     Closed
  <2>2. Lineage(l)'
    BY <1>1, <1>2 DEF Inv, Lineage, alive, Early
  <2>3. NotReleased(l)'
    BY <1>1, <1>2, SaysEmpty DEF Inv, NotReleased, Unreleased, Early, Launching
  <2>4. Evidence(l)'
    BY <1>1, <1>2 DEF Inv, Evidence, alive
  <2>5. Results(l)'
    BY <1>1, <1>2 DEF Inv, Results, Outcomes
  <2>6. Backlog(l)'
    BY <1>1, <1>2, SaysEmpty, ShortIsEmpty DEF Inv, Backlog, Early
  <2> QED
    BY <2>1, <2>2, <2>3, <2>4, <2>5, <2>6 DEF Inv
<1>6. working(l)' => working(l) \/ \A m \in Launches : ~working(m)
  BY <1>1, <1>2 DEF working
<1> QED
  BY <1>3, <1>4, <1>5, <1>6 DEF Local

-----------------------------------------------------------------------------
(* The user manager, the consumer, the authority and the material of a     *)
(* dead provider.                                                          *)

(* The job runs, perhaps long after the worker stopped waiting, or fails.  *)
LEMMA JobRunsLocal ==
    ASSUME IInv, NEW l \in Launches, job_runs(l)
    PROVE  Local(l)
<1>1. Types /\ Inv(l)
  BY DEF IInv
<1>2. /\ unit[l] = "job" /\ helper[l] = "none"
      /\ unit' \in [Launches -> {"none", "job", "active", "stranger"}]
      /\ \A m \in Launches \ {l} : unit'[m] = unit[m] /\ helper'[m] = helper[m]
      /\ \/ unit'[l] = "active" /\ helper' = [helper EXCEPT ![l] = "started"] /\ helper'[l] = "started"
         \/ unit'[l] = "none" /\ helper' = helper
      /\ UNCHANGED <<daemon, pc, err, sent, report, live, started, leases,
                      sockets, consumer, descendant, status, chan, inbox, outbox,
                      agent, signed, material, endpoint>>
  BY <1>1 DEF Types, ProcessTypes, job_runs, Inv, Lineage
<1>3. Types'
  <2>1. ProviderTypes' /\ WorkerTypes' /\ AuthorityTypes' /\ FileTypes' /\
        BridgeTypes' /\ SshTypes'
    BY <1>1, <1>2 DEF Types, ProviderTypes, WorkerTypes, AuthorityTypes,
     FileTypes, BridgeTypes, SshTypes, job_runs, Inv, Lineage
  <2>2. ProcessTypes'
    BY <1>1, <1>2 DEF Types, ProcessTypes, Outcomes, job_runs, Inv, Lineage
  <2> QED
    BY <2>1, <2>2 DEF Types
<1>4. \A m \in Launches \ {l} : Same(m)
  BY <1>1, <1>2 DEF Types, Same, ProcessTypes, job_runs, Inv, Lineage
<1>5. Inv(l)'
  <2>1. Results(l)' /\ Key(l)'
    BY <1>1, <1>2 DEF Inv, Results, Outcomes, Key, Closed
  <2>2. Control(l)'
    BY <1>1, <1>2 DEF Inv, Control, working, Serving, Launching, Ended, Lineage
  <2>3. Lineage(l)'
    BY <1>1, <1>2 DEF Inv, Lineage, alive, Early
  <2>4. NotReleased(l)'
    BY <1>1, <1>2 DEF Inv, NotReleased, Unreleased, Early, Launching
  <2>5. Evidence(l)'
    BY <1>1, <1>2 DEF Inv, Evidence, alive
  <2>6. Backlog(l)'
    BY <1>1, <1>2 DEF Inv, Backlog, Early
  <2> QED
    BY <2>1, <2>2, <2>3, <2>4, <2>5, <2>6 DEF Inv
<1>6. working(l)' => working(l) \/ \A m \in Launches : ~working(m)
  BY <1>1, <1>2 DEF working
<1> QED
  BY <1>3, <1>4, <1>5, <1>6 DEF Local

(* A unit with nothing in its cgroup is collected.                         *)
LEMMA CollectedLocal ==
    ASSUME IInv, NEW l \in Launches, unit_collected(l)
    PROVE  Local(l)
<1>1. Types /\ Inv(l)
  BY DEF IInv
<1>2. /\ unit[l] = "active"
      /\ unit'[l] = "none"
      /\ UNCHANGED <<daemon, pc, err, sent, report, live, started, leases,
                      sockets, helper, consumer, descendant, status, chan, inbox,
                      outbox, agent, signed, material, endpoint>>
  BY <1>1 DEF Types, ProcessTypes, unit_collected
<1>3. Types'
  <2>1. ProviderTypes' /\ WorkerTypes' /\ AuthorityTypes' /\ FileTypes' /\
        BridgeTypes' /\ SshTypes'
    BY <1>1, <1>2 DEF Types, ProviderTypes, WorkerTypes, AuthorityTypes,
     FileTypes, BridgeTypes, SshTypes, unit_collected
  <2>2. ProcessTypes'
    BY <1>1, <1>2 DEF Types, ProcessTypes, Outcomes, unit_collected
  <2> QED
    BY <2>1, <2>2 DEF Types
<1>4. \A m \in Launches \ {l} : Same(m)
  BY <1>1, <1>2 DEF Types, Same, ProcessTypes, unit_collected
<1>5. Inv(l)'
  <2>1. NotReleased(l)' /\ Results(l)' /\ Key(l)'
    BY <1>1, <1>2 DEF Inv, NotReleased, Unreleased, Early, Launching, Results,
     Outcomes, Key, Closed
  <2>2. Control(l)'
    BY <1>1, <1>2 DEF Inv, Control, working, Serving, Launching, Ended
  <2>3. Lineage(l)'
    BY <1>1, <1>2 DEF Inv, Lineage, alive, Early
  <2>4. Evidence(l)'
    BY <1>1, <1>2 DEF Inv, Evidence, alive
  <2>5. Backlog(l)'
    BY <1>1, <1>2 DEF Inv, Backlog, Early
  <2> QED
    BY <2>1, <2>2, <2>3, <2>4, <2>5 DEF Inv
<1>6. working(l)' => working(l) \/ \A m \in Launches : ~working(m)
  BY <1>1, <1>2 DEF working
<1> QED
  BY <1>3, <1>4, <1>5, <1>6 DEF Local

(* The child and its descendants live and end as they please.              *)
LEMMA ConsumerLocal ==
    ASSUME IInv, NEW l \in Launches, consumer_steps(l)
    PROVE  Local(l)
<1>1. Types /\ Inv(l)
  BY DEF IInv
<1>a. /\ consumer' \in [Launches -> {"none", "forked", "trapped", "running", "exited", "reaped"}]
      /\ descendant' \in [Launches -> BOOLEAN] /\ status' \in [Launches -> Outcomes \cup {"none"}]
      /\ \A m \in Launches \ {l} : /\ consumer'[m] = consumer[m] /\ status'[m] = status[m]
                                   /\ descendant'[m] = descendant[m]
      /\ consumer[l] \in {"forked", "running"} \/ descendant[l]
      /\ consumer'[l] = consumer[l] \/ consumer[l] \in {"forked", "running"}
      /\ status'[l] = status[l] \/ consumer[l] \in {"forked", "running"}
      /\ consumer'[l] = "exited" /\ consumer'[l] # consumer[l] => status'[l] \in Outcomes
      /\ consumer[l] # consumer'[l] => consumer'[l] # "none"
      /\ consumer'[l] = "exited" => helper[l] # "gone" \/ consumer[l] = "exited"
      /\ consumer'[l] = "reaped" => helper[l] = "gone" \/ consumer[l] = "reaped"
  <2>1. /\ consumer \in [Launches -> {"none", "forked", "trapped", "running", "exited", "reaped"}]
        /\ descendant \in [Launches -> BOOLEAN] /\ status \in [Launches -> Outcomes \cup {"none"}]
    BY <1>1 DEF Types, ProcessTypes
  <2>2. CASE /\ consumer[l] = "forked"
             /\ consumer' = [consumer EXCEPT ![l] =
                    IF helper[l] = "tracing" THEN "trapped" ELSE "running"]
             /\ UNCHANGED <<descendant, status>>
    BY <2>1, <2>2
  <2>3. CASE /\ consumer[l] \in {"forked", "running"}
             /\ IF helper[l] = "gone"
                THEN consumer' = [consumer EXCEPT ![l] = "reaped"] /\ UNCHANGED status
                ELSE /\ consumer' = [consumer EXCEPT ![l] = "exited"]
                     /\ \E s \in Outcomes : status' = [status EXCEPT ![l] = s]
             /\ UNCHANGED descendant
    <3>1. CASE helper[l] = "gone"
      BY <2>1, <2>3, <3>1
    <3>2. CASE helper[l] # "gone"
      <4>1. PICK s \in Outcomes : status' = [status EXCEPT ![l] = s]
        BY <2>3, <3>2
      <4>2. consumer' = [consumer EXCEPT ![l] = "exited"]
        BY <2>3, <3>2
      <4> QED
        BY <2>1, <2>3, <3>2, <4>1, <4>2
    <3> QED
      BY <3>1, <3>2
  <2>4. CASE /\ (l \in Forking /\ consumer[l] = "running") \/ descendant[l]
             /\ descendant' = [descendant EXCEPT ![l] = ~@]
             /\ UNCHANGED <<consumer, status>>
    BY <2>1, <2>4
  <2> QED
    BY <2>2, <2>3, <2>4 DEF consumer_steps
<1>b. UNCHANGED <<provider_side, unit, helper, inbox, outbox>>
  BY DEF consumer_steps
<1>2. /\ helper[l] \notin {"none", "started", "connected", "ready", "released"}
      /\ consumer[l] \in {"forked", "running"} \/ descendant[l]
      /\ consumer'[l] = consumer[l] \/ consumer[l] \in {"forked", "running"}
      /\ status'[l] = status[l] \/ consumer[l] \in {"forked", "running"}
      /\ consumer'[l] = "exited" /\ consumer'[l] # consumer[l] => status'[l] \in Outcomes
      /\ consumer[l] # consumer'[l] => consumer'[l] # "none"
      /\ consumer'[l] = "reaped" => helper[l] = "gone" \/ consumer[l] = "reaped"
      /\ descendant[l] \in BOOLEAN /\ descendant'[l] \in BOOLEAN
      /\ UNCHANGED <<healthy, staging>>
      /\ UNCHANGED <<daemon, pc, err, sent, report, live, started, leases,
                      sockets, unit, helper, chan, inbox, outbox, agent, signed,
                      material, endpoint>>
  BY <1>1, <1>a, <1>b DEF Types, ProcessTypes, Inv, Lineage
<1>3. Types'
  <2>1. ProviderTypes' /\ WorkerTypes' /\ AuthorityTypes' /\ FileTypes' /\
        BridgeTypes' /\ SshTypes'
    BY <1>1, <1>2 DEF Types, ProviderTypes, WorkerTypes, AuthorityTypes,
     FileTypes, BridgeTypes, SshTypes, Inv, Lineage
  <2>2. ProcessTypes'
    BY <1>1, <1>2, <1>a, <1>b DEF Types, ProcessTypes, Outcomes, Inv, Lineage
  <2> QED
    BY <2>1, <2>2 DEF Types
<1>4. \A m \in Launches \ {l} : Same(m)
  BY <1>1, <1>2, <1>a, <1>b DEF Types, Same, ProcessTypes, Inv, Lineage
<1>5. Inv(l)'
  <2>1. Control(l)' /\ Key(l)'
    BY <1>1, <1>2 DEF Inv, Control, working, Serving, Launching, Ended, Key,
     Closed
  <2>2. Lineage(l)'
    BY <1>1, <1>2 DEF Inv, Lineage, alive, Early
  <2>3. NotReleased(l)'
    BY <1>1, <1>2 DEF Inv, NotReleased, Unreleased, Early, Launching
  <2>4. Evidence(l)'
    BY <1>1, <1>2 DEF Inv, Evidence, alive
  <2>5. Results(l)'
    BY <1>1, <1>2 DEF Inv, Results, Outcomes
  <2>6. Backlog(l)'
    BY <1>1, <1>2 DEF Inv, Backlog, Early
  <2> QED
    BY <2>1, <2>2, <2>3, <2>4, <2>5, <2>6 DEF Inv
<1>6. working(l)' => working(l) \/ \A m \in Launches : ~working(m)
  BY <1>1, <1>2 DEF working
<1> QED
  BY <1>3, <1>4, <1>5, <1>6 DEF Local

(* Lock, cancel, revocation or expiry.                                     *)
LEMMA EndAuthorityLocal ==
    ASSUME IInv, NEW l \in Launches, end_authority(l)
    PROVE  Local(l)
<1>1. Types /\ Inv(l)
  BY DEF IInv
<1>2. /\ working(l) /\ pc[l] # "writing"
      /\ live'[l] = FALSE
      /\ UNCHANGED <<daemon, pc, err, sent, report, started, leases, sockets,
                      unit, helper, consumer, descendant, status, chan, inbox,
                      outbox, agent, signed, material, endpoint>>
  BY <1>1 DEF Types, AuthorityTypes, end_authority
<1>3. Types'
  <2>1. ProviderTypes' /\ WorkerTypes' /\ FileTypes' /\ ProcessTypes' /\
        BridgeTypes' /\ SshTypes'
    BY <1>1, <1>2 DEF Types, ProviderTypes, WorkerTypes, FileTypes, ProcessTypes,
     BridgeTypes, SshTypes, end_authority
  <2>2. AuthorityTypes'
    BY <1>1, <1>2 DEF Types, AuthorityTypes, end_authority
  <2> QED
    BY <2>1, <2>2 DEF Types
<1>4. \A m \in Launches \ {l} : Same(m)
  BY <1>1, <1>2 DEF Types, Same, AuthorityTypes, end_authority
<1>5. Inv(l)'
  <2>1. Control(l)' /\ Lineage(l)' /\ NotReleased(l)' /\ Evidence(l)' /\ Results(l)' /\ Backlog(l)' /\ Key(l)'
    BY <1>1, <1>2 DEF Inv, Control, working, Serving, Launching, Ended, Lineage,
     alive, Early, NotReleased, Unreleased, Evidence, Results, Outcomes, Backlog,
     Key, Closed
  <2> QED
    BY <2>1 DEF Inv
<1>6. working(l)' => working(l) \/ \A m \in Launches : ~working(m)
  BY <1>1, <1>2 DEF working
<1> QED
  BY <1>3, <1>4, <1>5, <1>6 DEF Local

(* A recorded directory is reclaimed, piece by piece, while no agent is    *)
(* open.                                                                   *)
LEMMA RecoverAgentLocal ==
    ASSUME IInv, NEW l \in Launches, recover_agent(l)
    PROVE  Local(l)
<1>1. Types /\ Inv(l)
  BY DEF IInv
<1>a. /\ material' \in [Launches -> SUBSET Files]
      /\ \A m \in Launches \ {l} : material'[m] = material[m]
      /\ endpoint' \in {endpoint, endpoint \ {l}}
  <2>1. material \in [Launches -> SUBSET Files]
    BY <1>1 DEF Types, SshTypes
  <2>2. CASE l \in endpoint
    BY <2>1, <2>2 DEF recover_agent
  <2>3. CASE l \notin endpoint /\ remove_next(l)
    <3>1. PICK f : material' = [material EXCEPT ![l] = @ \ {f}]
      BY <2>3 DEF remove_next
    <3> QED
      BY <2>1, <2>3, <3>1 DEF recover_agent
  <2>4. CASE l \notin endpoint /\ material' = [material EXCEPT ![l] = {}]
    BY <2>1, <2>4 DEF recover_agent
  <2> QED
    BY <2>2, <2>3, <2>4 DEF recover_agent
<1>b. pc[l] # "queued"
  BY <1>1 DEF recover_agent, Inv, Key
<1>2. /\ daemon = "material" /\ pc[l] # "queued"
      /\ material' \in [Launches -> SUBSET Files]
      /\ \A m \in Launches \ {l} : material'[m] = material[m]
      /\ endpoint' \in {endpoint, endpoint \ {l}}
      /\ UNCHANGED <<daemon, pc, err, sent, report, live, started, leases,
                      sockets, unit, helper, consumer, descendant, status, chan,
                      inbox, outbox, agent, signed>>
  BY <1>a, <1>b DEF recover_agent
<1>3. Types'
  <2>1. ProviderTypes' /\ WorkerTypes' /\ AuthorityTypes' /\ FileTypes' /\
        ProcessTypes' /\ BridgeTypes'
    BY <1>1, <1>2 DEF Types, ProviderTypes, WorkerTypes, AuthorityTypes,
     FileTypes, ProcessTypes, BridgeTypes, recover_agent
  <2>2. SshTypes'
    BY <1>1, <1>2 DEF Types, SshTypes
  <2> QED
    BY <2>1, <2>2 DEF Types
<1>4. \A m \in Launches \ {l} : Same(m)
  BY <1>1, <1>2 DEF Types, Same, SshTypes
<1>5. Inv(l)'
  <2>1. Control(l)' /\ Lineage(l)' /\ NotReleased(l)' /\ Evidence(l)' /\ Results(l)' /\ Backlog(l)'
    BY <1>1, <1>2 DEF Inv, Control, working, Serving, Launching, Ended, Lineage,
     alive, Early, NotReleased, Unreleased, Evidence, Results, Outcomes, Backlog
  <2>2. Key(l)'
    BY <1>1, <1>2 DEF Inv, Key, Closed, Control, working, Closed, Stages
  <2> QED
    BY <2>1, <2>2 DEF Inv
<1>6. working(l)' => working(l) \/ \A m \in Launches : ~working(m)
  BY <1>1, <1>2 DEF working
<1> QED
  BY <1>3, <1>4, <1>5, <1>6 DEF Local

-----------------------------------------------------------------------------
(* Crash and recovery.                                                     *)

(* A crash takes memory and descriptors; what the invariant promises of    *)
(* files, units and processes does not depend on them.                     *)
LEMMA CrashInv ==
    ASSUME IInv, crash
    PROVE  IInv'
<1>1. Types
  BY DEF IInv
<1>2. Types'
  <2>1. AuthorityTypes' /\ WorkerTypes'
    BY <1>1 DEF crash, Types, AuthorityTypes, WorkerTypes, Steps
  <2>2. BridgeTypes'
    BY <1>1, EmptySeq DEF crash, Types, BridgeTypes
  <2>3. SshTypes'
    BY <1>1 DEF crash, Types, SshTypes, Agent, Closed
  <2>4. ProviderTypes' /\ FileTypes' /\ ProcessTypes'
    BY <1>1 DEF crash, Types, ProviderTypes, FileTypes, ProcessTypes
  <2> QED
    BY <2>1, <2>2, <2>3, <2>4 DEF Types
<1>3. ASSUME NEW l \in Launches PROVE Inv(l)' /\ ~working(l)'
  <2>1. Inv(l)
    BY DEF IInv
  <2>2. /\ daemon' = "down"
        /\ pc'[l] = IF working(l) THEN "lost" ELSE pc[l]
        /\ pc'[l] \in {"queued", "done", "lost"} /\ (pc'[l] # "lost" => pc'[l] = pc[l])
        /\ inbox'[l] = <<>> /\ agent'[l] = Closed
        /\ err'[l] = (IF working(l) THEN "none" ELSE err[l])
        /\ sent'[l] = (sent[l] /\ ~working(l))
        /\ UNCHANGED <<report, started, leases, sockets, unit, helper, consumer,
                       descendant, status, outbox, signed, material, endpoint>>
    BY <1>1 DEF crash, Types, WorkerTypes, working
  <2>3. Control(l)' /\ Lineage(l)'
    BY <2>1, <2>2 DEF Inv, Control, Lineage, working, alive, Serving, Launching, Ended, Early
  <2>4. NotReleased(l)'
    BY <2>1, <2>2 DEF Inv, NotReleased, Unreleased, Early, Launching
  <2>5. Evidence(l)'
    BY <2>1, <2>2, SaysEmpty DEF Inv, Evidence, alive
  <2>6. Results(l)'
    BY <2>1, <2>2, SaysEmpty DEF Inv, Results, Outcomes
  <2>7. Backlog(l)'
    <3>1. Len(<<>>) = 0
      BY EmptySeq
    <3> QED
      BY <2>1, <2>2, <3>1 DEF Inv, Backlog, Early
  <2>8. Key(l)'
    BY <2>1, <2>2 DEF Inv, Key, Closed
  <2>9. ~working(l)'
    BY <2>2 DEF working
  <2> QED
    BY <2>3, <2>4, <2>5, <2>6, <2>7, <2>8, <2>9 DEF Inv
<1> QED
  BY <1>2, <1>3 DEF IInv, OneWorker

(* Recovery only writes lease files: it adds leases, or drops those of     *)
(* units that hold nothing, while no worker runs.                          *)
LEMMA RecoveryInv ==
    ASSUME IInv, recover_leases \/ forget_unused \/ recovered
    PROVE  IInv'
<1>1. Types
  BY DEF IInv
<1>2. /\ daemon \in {"down", "leases", "material"} /\ daemon' \in {"leases", "material", "up"}
      /\ UNCHANGED <<pc, err, sent, report, live, started, unit, helper, consumer, descendant,
                     status, chan, inbox, outbox, agent, signed, material, endpoint>>
  BY DEF recover_leases, forget_unused, recovered
<1>3. /\ healthy' \in BOOLEAN /\ staging' \subseteq Launches
      /\ leases' \subseteq Launches /\ sockets' \subseteq sockets
      /\ \A l \in leases \ leases' : unused(l)
  <2>1. CASE recover_leases
    BY <1>1, <2>1 DEF recover_leases, Types, FileTypes, ProviderTypes
  <2>2. CASE forget_unused
    <3>1. PICK idle \in SUBSET {l \in leases : unused(l)} :
              leases' = leases \ idle /\ sockets' = sockets \ idle
      BY <2>2 DEF forget_unused
    <3> QED
      BY <1>1, <2>2, <3>1 DEF forget_unused, Types, FileTypes, ProviderTypes
  <2>3. CASE recovered
    BY <1>1, <2>3 DEF recovered, Types, FileTypes
  <2> QED
    BY <2>1, <2>2, <2>3
<1>4. Types'
  <2>1. ProviderTypes' /\ FileTypes'
    BY <1>1, <1>2, <1>3 DEF Types, ProviderTypes, FileTypes
  <2>2. WorkerTypes' /\ AuthorityTypes' /\ ProcessTypes' /\ BridgeTypes' /\ SshTypes'
    BY <1>1, <1>2 DEF Types, WorkerTypes, AuthorityTypes, ProcessTypes, BridgeTypes, SshTypes
  <2> QED
    BY <2>1, <2>2 DEF Types
<1>5. ASSUME NEW l \in Launches PROVE Inv(l)'
  <2>1. Inv(l)
    BY DEF IInv
  <2>2. ~working(l) /\ pc[l] \in {"queued", "done", "lost"}
    BY <1>2, <2>1 DEF Inv, Control, working
  <2>3. Control(l)'
    BY <1>2, <1>3, <2>1, <2>2 DEF Inv, Control, working, Serving, Launching, Ended
  <2>4. Lineage(l)'
    <3>1. l \in leases /\ l \notin leases' => helper[l] \in {"none", "gone"} /\ ~alive(l)
      BY <1>3 DEF unused, in_cgroup, alive
    <3> QED
      BY <1>2, <2>1, <3>1 DEF Inv, Lineage, alive, Early
  <2>5. NotReleased(l)' /\ Evidence(l)' /\ Results(l)' /\ Backlog(l)'
    BY <1>2, <2>1 DEF Inv, NotReleased, Unreleased, Evidence, Results, Backlog, alive
  <2>6. Key(l)'
    BY <1>2, <2>1 DEF Inv, Key
  <2> QED
    BY <2>3, <2>4, <2>5, <2>6 DEF Inv
<1>6. OneWorker'
  BY <1>2 DEF IInv, OneWorker, working
<1> QED
  BY <1>4, <1>5, <1>6 DEF IInv

-----------------------------------------------------------------------------
(* Theorems.                                                               *)

LEMMA InvInit == Init => IInv /\ faults \in 0..MaxFaults
<1> SUFFICES ASSUME Init PROVE IInv /\ faults \in 0..MaxFaults
  OBVIOUS
<1>1. Types
  <2>1. BridgeTypes
    BY EmptySeq DEF Init, BridgeTypes
  <2>2. SshTypes
    BY DEF Init, SshTypes, Agent, Closed
  <2>3. WorkerTypes
    BY DEF Init, WorkerTypes, Steps, Report, Blank
  <2>4. ProviderTypes /\ AuthorityTypes /\ FileTypes /\ ProcessTypes
    BY DEF Init, ProviderTypes, AuthorityTypes, FileTypes, ProcessTypes
  <2> QED
    BY <2>1, <2>2, <2>3, <2>4 DEF Types
<1>2. ASSUME NEW l \in Launches PROVE Inv(l)
  <2>1. /\ pc[l] = "queued" /\ err[l] = "none" /\ report[l] = Blank /\ l \notin sockets
        /\ unit[l] = "none" /\ helper[l] = "none" /\ consumer[l] = "none" /\ ~descendant[l]
        /\ chan[l] = "none" /\ inbox[l] = <<>> /\ outbox[l] = <<>>
        /\ agent[l] = Closed /\ signed[l] = 0 /\ material[l] = {} /\ daemon = "up"
    BY DEF Init
  <2>2. Len(<<>>) = 0
    BY EmptySeq
  <2>3. Control(l) /\ Lineage(l)
    BY <2>1 DEF Control, Lineage, working, alive, Serving, Launching, Blank
  <2>4. NotReleased(l)
    BY <2>1, SaysEmpty DEF NotReleased, Unreleased
  <2>5. Evidence(l) /\ Results(l)
    BY <2>1, SaysEmpty DEF Evidence, Results, Outcomes, Blank
  <2>6. Backlog(l)
    BY <2>1, <2>2, SaysEmpty DEF Backlog
  <2>7. Key(l)
    BY <2>1 DEF Key, Closed
  <2> QED
    BY <2>3, <2>4, <2>5, <2>6, <2>7 DEF Inv
<1>3. OneWorker
  BY DEF Init, OneWorker, working
<1>4. faults \in 0..MaxFaults
  BY LaunchAssumption DEF Init
<1> QED
  BY <1>1, <1>2, <1>3, <1>4 DEF IInv

(* Every step of a worker keeps the invariant.                             *)
LEMMA WorkerLocal ==
    ASSUME IInv, NEW l \in Launches, WorkerStep(l)
    PROVE  Local(l)
<1>1. ASSUME prepare(l) PROVE Local(l)
  BY <1>1, BindLocal, WriteLocal
<1>2. ASSUME exec_confirmed(l) PROVE Local(l)
  <2>1. \/ /\ UNCHANGED worker /\ started' = [started EXCEPT ![l] = TRUE]
           /\ agent' = [agent EXCEPT ![l].recipient = agent[l].open]
        \/ /\ fail(l, "ExecutionFailed") /\ UNCHANGED agent
           /\ started' \in {started, [started EXCEPT ![l] = TRUE]}
    BY <1>2 DEF exec_confirmed
  <2> QED
    BY <1>2, <2>1, ConfirmedLocal, UnrecordedLocal
<1>3. ASSUME refused(l) PROVE Local(l)
  BY <1>3, NotStartedLocal DEF refused, Errors
<1>4. ASSUME helper_lost(l) PROVE Local(l)
  BY <1>4, LaunchFailsLocal DEF helper_lost
<1>5. ASSUME begin(l) \/ install(l) \/ finalize(l) \/ execute(l) \/ record(l) \/ cancelled(l)
             \/ start(l) \/ start_lost(l) \/ wait_job(l) \/ accept(l) \/ send(l) \/ ready(l)
             \/ release(l)
      PROVE  Local(l)
  BY <1>5, BeginLocal, InstallLocal, FinalizeLocal, ExecuteLocal, RecordLocal, CancelledLocal,
     StartLocal, StartLostLocal, WaitJobLocal, AcceptLocal, SendLocal, ReadyLocal, ReleaseLocal
<1>6. ASSUME outcome(l) \/ helper_failed(l) \/ end_of_file(l) \/ agent_closes(l)
             \/ agent_serves(l) \/ agent_signs(l) \/ signature_cleared(l)
             \/ signature_sent(l) \/ signature_refused(l)
             \/ collision(l) \/ close(l) \/ reclaimed(l) \/ detached(l)
      PROVE  Local(l)
  BY <1>6, OutcomeLocal, HelperFailedLocal, EndOfFileLocal, AgentClosesLocal, AgentServesLocal,
     AgentSignsLocal, SignatureClearedLocal, SignatureSentLocal, SignatureRefusedLocal, CollisionLocal, CloseLocal,
     ReclaimedLocal, DetachedLocal
<1> QED
  BY <1>1, <1>2, <1>3, <1>4, <1>5, <1>6 DEF WorkerStep

(* So does every step of a helper, of the user manager, of the consumer    *)
(* and of the authority,                                                   *)
LEMMA ProcessLocal ==
    ASSUME IInv, NEW l \in Launches, HelperStep(l) \/ Environment(l)
    PROVE  Local(l)
<1>1. ASSUME HelperStep(l) PROVE Local(l)
  BY <1>1, ConnectLocal, TransferLocal, ReleasedLocal, HungUpLocal, ForkLocal, TracedLocal,
     UntracedLocal, ReapLocal, ReapAllLocal DEF HelperStep
<1>2. ASSUME Environment(l) PROVE Local(l)
  BY <1>2, JobRunsLocal, CollectedLocal, ConsumerLocal, EndAuthorityLocal DEF Environment
<1> QED
  BY <1>1, <1>2

(* and every fault of a launch.                                            *)
LEMMA FaultLocal ==
    ASSUME IInv, NEW l \in Launches,
           \/ prepare_fails(l) \/ finalize_fails(l) \/ unavailable(l) \/ record_fails(l)
           \/ start_collides(l) \/ launch_times_out(l)
           \/ observation_fails(l) \/ agent_fails(l) \/ session_fails(l) \/ helper_dies(l)
    PROVE  Local(l)
<1>1. ASSUME unavailable(l) PROVE Local(l)
  BY <1>1, NotStartedLocal DEF unavailable, Errors
<1>2. ASSUME launch_times_out(l) PROVE Local(l)
  BY <1>2, LaunchFailsLocal DEF launch_times_out
<1> QED
  BY <1>1, <1>2, PrepareFailsLocal, FinalizeFailsLocal, RecordFailsLocal, StartCollidesLocal,
     ObservationFailsLocal, AgentFailsLocal, SessionFailsLocal, HelperDiesLocal

SInv == IInv /\ faults \in 0..MaxFaults

LEMMA InvNext ==
    ASSUME SInv, [Next]_vars
    PROVE  SInv'
<1>1. IInv /\ faults \in 0..MaxFaults
  BY DEF SInv
<1>2. faults' \in 0..MaxFaults
  BY <1>1, LaunchAssumption DEF Next, vars
<1>3. ASSUME NEW l \in Launches, Local(l) PROVE IInv'
  BY <1>1, <1>3, LocalStep
<1>4. ASSUME NEW l \in Launches, WorkerStep(l) PROVE IInv'
  <2>1. Local(l)
    BY <1>1, <1>4, WorkerLocal
  <2> QED
    BY <2>1, <1>3
<1>5. ASSUME NEW l \in Launches, HelperStep(l) \/ Environment(l) PROVE IInv'
  <2>1. Local(l)
    BY <1>1, <1>5, ProcessLocal
  <2> QED
    BY <2>1, <1>3
<1>6. ASSUME Recovery PROVE IInv'
  <2>1. ASSUME NEW l \in Launches, recover_agent(l) PROVE IInv'
    <3>1. Local(l)
      BY <1>1, <2>1, RecoverAgentLocal
    <3> QED
      BY <3>1, <1>3
  <2>2. ASSUME recover_leases \/ forget_unused \/ recovered PROVE IInv'
    BY <1>1, <2>2, RecoveryInv
  <2> QED
    BY <1>6, <2>1, <2>2 DEF Recovery
<1>7. ASSUME Fault PROVE IInv'
  <2>1. ASSUME NEW l \in Launches,
               \/ prepare_fails(l) \/ finalize_fails(l) \/ unavailable(l) \/ record_fails(l)
               \/ start_collides(l) \/ launch_times_out(l)
               \/ observation_fails(l) \/ agent_fails(l) \/ session_fails(l) \/ helper_dies(l)
        PROVE  IInv'
    <3>1. Local(l)
      BY <1>1, <2>1, FaultLocal
    <3> QED
      BY <3>1, <1>3
  <2>2. ASSUME crash PROVE IInv'
    BY <1>1, <2>2, CrashInv
  <2> QED
    BY <1>7, <2>1, <2>2 DEF Fault
<1>8. ASSUME UNCHANGED vars PROVE IInv'
  <2>1. ASSUME NEW l \in Launches PROVE Inv(l)'
    <3>1. Inv(l) /\ Same(l)
      BY <1>1, <1>8 DEF vars, Same, IInv
    <3> QED
      BY <3>1, SameInv
  <2>2. Types'
    BY <1>1, <1>8 DEF vars, IInv, Types, ProviderTypes, WorkerTypes, AuthorityTypes, FileTypes,
       ProcessTypes, BridgeTypes, SshTypes
  <2>3. OneWorker'
    BY <1>1, <1>8 DEF vars, IInv, OneWorker, working
  <2> QED
    BY <2>1, <2>2, <2>3 DEF IInv
<1>9. IInv'
  BY <1>4, <1>5, <1>6, <1>7, <1>8 DEF Next
<1> QED
  BY <1>2, <1>9 DEF SInv

LEMMA Invariance == Spec => []SInv
<1>1. Init => SInv
  BY InvInit DEF SInv
<1> QED
  BY <1>1, InvNext, PTL DEF Spec

(* The worker runs one launch at a time, its result and evidence, the      *)
(* channel and the agent stay well typed, and neither end of the bridge    *)
(* ever holds more packets than the protocol has: three for the provider,  *)
(* two for the helper.                                                     *)
THEOREM TypeCorrect == Spec => []TypeOK
<1>1. ASSUME SInv PROVE TypeOK
  <2>0. IInv /\ faults \in 0..MaxFaults
    BY <1>1 DEF SInv
  <2>1. Cardinality({l \in Launches : working(l)}) <= 1
    <3>1. CASE \E l \in Launches : working(l)
      <4>1. PICK l \in Launches : working(l)
        BY <3>1
      <4>2. {m \in Launches : working(m)} = {l}
        BY <2>0, <4>1 DEF IInv, OneWorker
      <4>3. Cardinality({l}) = 1
        BY FS_Singleton
      <4> QED
        BY <4>2, <4>3
    <3>2. CASE ~\E l \in Launches : working(l)
      <4>1. {l \in Launches : working(l)} = {}
        BY <3>2
      <4>2. Cardinality({}) = 0
        BY FS_EmptySet
      <4> QED
        BY <4>1, <4>2
    <3> QED
      BY <3>1, <3>2
  <2>2. \A l \in Launches : Len(inbox[l]) <= 3 /\ Len(outbox[l]) <= 2
    BY <2>0 DEF IInv, Inv, Backlog
  <2>3. Types
    BY <2>0 DEF IInv
  <2> QED
    BY <2>0, <2>1, <2>2, <2>3 DEF TypeOK, Types, ProviderTypes, WorkerTypes, AuthorityTypes,
       FileTypes, ProcessTypes, BridgeTypes, SshTypes, Steps, Report, Agent
<1> QED
  BY <1>1, Invariance, PTL

(* As long as a consumer or a descendant of it lives, its lease is on disk *)
(* for the next provider to find: a helper is let in only while its lease  *)
(* is published, and a lease goes only with an empty cgroup.               *)
THEOREM ConsumersLeased == Spec => []LeaseCoversConsumer
<1>1. ASSUME IInv PROVE LeaseCoversConsumer
  BY <1>1 DEF IInv, Inv, Lineage, LeaseCoversConsumer
<1> QED
  BY <1>1, Invariance, PTL DEF SInv

(* NotStarted and Reaped are never taken back by a job that runs late or a *)
(* helper that starts after the worker gave up on it.                      *)
THEOREM EvidenceHolds == Spec => []ReapedMeansGone
<1>1. ASSUME IInv, NEW l \in Launches
      PROVE  /\ report[l].cleanup = "NotStarted" => consumer[l] = "none"
             /\ report[l].cleanup = "Reaped" \/ report[l].reaped => ~alive(l)
  BY <1>1 DEF IInv, Inv, Evidence, Lineage
<1>2. IInv => ReapedMeansGone
  BY <1>1 DEF ReapedMeansGone
<1> QED
  BY <1>2, Invariance, PTL DEF SInv

(* The result the worker reports is what happened to the consumer, and an  *)
(* error promises that there was none and will be none.                    *)
THEOREM ReportsTrue == Spec => []ReportIsTrue
<1>1. ASSUME IInv, NEW l \in Launches
      PROVE  /\ report[l].outcome \in Outcomes => started[l] /\ status[l] = report[l].outcome
             /\ report[l].outcome \in Errors => consumer[l] = "none"
  BY <1>1 DEF IInv, Inv, Results, NotReleased, Unreleased
<1>2. IInv => ReportIsTrue
  BY <1>1 DEF ReportIsTrue
<1> QED
  BY <1>2, Invariance, PTL DEF SInv

(* A key that can still sign always has its host pin, its record and its   *)
(* endpoint.                                                               *)
THEOREM MaterialKept == Spec => []MaterialServesAgent
<1>1. IInv => MaterialServesAgent
  BY DEF IInv, Inv, Key, MaterialServesAgent
<1> QED
  BY <1>1, Invariance, PTL DEF SInv

(* A step that neither counts a signature nor clears one.                  *)
Quiet ==
    /\ UNCHANGED signed
    /\ \A l \in Launches : pc'[l] = "writing" => pc[l] = "writing"

(* Only signature_sent counts a signature, and only signature_cleared takes*)
(* the gate for it.                                                        *)
LEMMA Signing ==
    ASSUME IInv, [Next]_vars
    PROVE  SigningStep
<1>0. /\ pc \in [Launches -> Steps] /\ signed \in [Launches -> 0..1]
      /\ \A l \in Launches : pc[l] = "writing" =>
             signed[l] = 0 /\ live[l] /\ started[l]
  BY DEF IInv, Types, WorkerTypes, SshTypes, Inv, Key
<1>1. ASSUME NEW l \in Launches, signature_sent(l) PROVE SigningStep
  <2>1. /\ pc[l] = "writing" /\ signed' = [signed EXCEPT ![l] = @ + 1]
        /\ pc' = [pc EXCEPT ![l] = "observe"] \/ pc' = [pc EXCEPT ![l] = "close"]
    BY <1>1 DEF signature_sent, fail
  <2> QED
    BY <1>0, <2>1 DEF SigningStep
<1>2. ASSUME NEW l \in Launches, signature_cleared(l) PROVE SigningStep
  <2>1. /\ consumer[l] = "running" /\ pc' = [pc EXCEPT ![l] = "writing"] /\ UNCHANGED signed
    BY <1>2 DEF signature_cleared, may_sign, recipient_alive
  <2> QED
    BY <1>0, <2>1 DEF SigningStep
<1>3. ASSUME Quiet PROVE SigningStep
  BY <1>3 DEF SigningStep, Quiet
<1>4. ASSUME NEW l \in Launches, WorkerStep(l) PROVE SigningStep
  <2>1. ASSUME begin(l) \/ prepare(l) \/ install(l) \/ finalize(l) \/ execute(l) \/ refused(l)
               \/ record(l) \/ cancelled(l) \/ start(l) \/ start_lost(l)
        PROVE  Quiet
    BY <1>0, <2>1 DEF Quiet, begin, prepare, install, finalize, execute, refused, not_started,
       after, record, cancelled, fail, start, start_lost
  <2>2. ASSUME wait_job(l) \/ accept(l) \/ send(l) \/ ready(l) \/ helper_lost(l) \/ release(l)
               \/ exec_confirmed(l) \/ outcome(l) \/ helper_failed(l) \/ end_of_file(l)
        PROVE  Quiet
    BY <1>0, <2>2 DEF Quiet, wait_job, accept, send, ready, helper_lost, launch_fails, fail,
       release, exec_confirmed, outcome, helper_failed, end_of_file
  <2>3. ASSUME agent_closes(l) \/ agent_serves(l) \/ agent_signs(l) \/ signature_refused(l)
               \/ collision(l) \/ close(l) \/ reclaimed(l) \/ detached(l)
        PROVE  Quiet
    BY <1>0, <2>3 DEF Quiet, agent_closes, agent_serves, agent_signs, signature_refused, fail,
       collision, close, reclaimed, detached, after
  <2> QED
    BY <1>1, <1>2, <1>3, <1>4, <2>1, <2>2, <2>3 DEF WorkerStep
<1>5. ASSUME NEW l \in Launches, HelperStep(l) \/ Environment(l) PROVE Quiet
  <2>1. ASSUME HelperStep(l) PROVE Quiet
    BY <2>1 DEF Quiet, HelperStep, connect, transfer, released, hung_up, helper_leaves, fork,
       traced, untraced, reap, reap_all, provider_side
  <2>2. ASSUME Environment(l) PROVE Quiet
    BY <2>2 DEF Quiet, Environment, job_runs, unit_collected, consumer_steps, end_authority,
       provider_side
  <2> QED
    BY <1>5, <2>1, <2>2
<1>6. ASSUME Recovery PROVE Quiet
  BY <1>6 DEF Quiet, Recovery, recover_leases, forget_unused, recovered, recover_agent
<1>7. ASSUME Fault PROVE Quiet
  <2>1. ASSUME crash PROVE Quiet
    BY <1>0, <2>1 DEF Quiet, crash
  <2>2. ASSUME NEW l \in Launches,
               \/ prepare_fails(l) \/ finalize_fails(l) \/ unavailable(l) \/ record_fails(l)
               \/ start_collides(l) \/ launch_times_out(l)
               \/ observation_fails(l) \/ agent_fails(l)
        PROVE  Quiet
    BY <1>0, <2>2 DEF Quiet, prepare_fails, finalize_fails, unavailable, not_started, record_fails,
       after, start_collides, launch_times_out, launch_fails, fail, observation_fails, agent_fails
  <2>3. ASSUME NEW l \in Launches, session_fails(l) \/ helper_dies(l) PROVE Quiet
    BY <2>3 DEF Quiet, session_fails, helper_dies, helper_leaves, provider_side
  <2> QED
    BY <1>7, <2>1, <2>2, <2>3 DEF Fault
<1>8. ASSUME UNCHANGED vars PROVE Quiet
  BY <1>8 DEF vars, Quiet
<1> QED
  BY <1>3, <1>4, <1>5, <1>6, <1>7, <1>8 DEF Next

(* One signature at most, under a live authority, for the consumer whose   *)
(* exec was confirmed and recorded and that ran when the gate was taken.   *)
THEOREM SignaturesAuthorized == Spec => SignatureIsAuthorized
BY Signing, Invariance, PTL DEF Spec, SInv, SignatureIsAuthorized

=============================================================================
