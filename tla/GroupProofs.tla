---------------------------- MODULE GroupProofs ----------------------------
(***************************************************************************)
(* Invariance proofs for GroupMessages: the author's key, tasks and        *)
(* messages, the members' records, and what the two promise each other;    *)
(* for every set of members, of sending tasks and of handlers.             *)
(***************************************************************************)
EXTENDS GroupMessages, SequenceTheorems, FiniteSetTheorems, TLAPS

-----------------------------------------------------------------------------
(* The types of what the author and the network hold.                      *)

Labels == {"idle", "load", "distribute", "cacheDistribution", "encrypt", "send",
           "resend", "cache", "mark"}
Ids == {"message", "distribution"} \X Nat
Position == [key : Nat, iteration : Nat]
Message == [type : {"group"}, id : Ids, key : Nat, iteration : Nat]
Packet ==
  Message \cup [type : {"distribution"}, to : Members, key : Nat, iteration : Nat]
          \cup [type : {"resend"}, to : Members, id : Ids]
          \cup [type : {"retry"}, from : Members, id : Ids]
Job == [id : Ids, to : SUBSET Members, serial : Nat,
        carries : {None} \cup Position \cup Message]

AuthorTypeOK ==
  /\ keys \in Nat /\ begun \in Nat /\ retries \in Nat
  /\ own = None \/ own \in Position
  /\ net \subseteq Packet
  /\ spc \in [Tasks -> Labels]
  /\ work \in [Tasks -> {None} \cup Job]
  /\ \A t \in Tasks :
       /\ spc[t] # "idle" => work[t] \in Job
       /\ spc[t] \in {"distribute", "cacheDistribution", "encrypt"}
            => work[t].carries \in Position
       /\ spc[t] = "send" => work[t].carries \in Message
       /\ spc[t] \in {"encrypt", "send"} => t \in Senders
       /\ spc[t] \in {"resend", "mark"} => t \in Handlers

\* What the author's sender key has passed: the messages that were sent, and
\* those that tasks have encrypted and not sent yet.
SentBehind ==
  /\ own # None => own.key <= keys
  /\ \A m \in GroupSent :
       m.key <= keys /\ (own # None /\ own.key = m.key => m.iteration < own.iteration)
  /\ \A t \in Tasks : spc[t] = "send" =>
       /\ work[t].carries.key <= keys
       /\ (own # None /\ own.key = work[t].carries.key
             => work[t].carries.iteration < own.iteration)

SamePosition(m1, m2) == m1.key = m2.key /\ m1.iteration = m2.iteration

CarriedApart ==
  \A t \in Tasks : spc[t] = "send" =>
    /\ \A m \in GroupSent : ~SamePosition(m, work[t].carries)
    /\ \A u \in Tasks : spc[u] = "send" /\ u # t
         => ~SamePosition(work[u].carries, work[t].carries)

IterationInv == AuthorTypeOK /\ SentBehind /\ CarriedApart /\ IterationNeverReused

\* A member has been sent a distribution from which m can be decrypted.
Distributed(m, r) ==
  \E d \in net : /\ d.type = "distribution" /\ d.to = r
                 /\ d.key = m.key /\ d.iteration <= m.iteration

\* From the load of a distribution to the encryption the sender key stays, and
\* its iteration does not fall behind the distribution.
KeyStays ==
  \A t \in Senders : spc[t] \in {"distribute", "cacheDistribution", "encrypt"} =>
    /\ own # None /\ own.key = work[t].carries.key
    /\ work[t].carries.iteration <= own.iteration

SentOn ==
  \A t \in Senders :
    /\ spc[t] # "idle" => work[t].to = Members
    /\ spc[t] \in {"cacheDistribution", "encrypt", "send"}
         => \A r \in Members : Distributed(work[t].carries, r)

DistributionInv == AuthorTypeOK /\ KeyStays /\ SentOn /\ DistributedFirst

\* A handler past its resend has sent it.
ResentBefore ==
  \A t \in Tasks :
    /\ t \in Handlers /\ spc[t] # "idle" => work[t].to # {}
    /\ t \in Handlers /\ spc[t] \in {"cache", "mark"}
         => \E p \in net : p.type = "resend" /\ p.id = work[t].id
    /\ spc[t] = "send" => work[t].carries.id = work[t].id

CacheOK == recent = [messages |-> recent.messages, order |-> recent.order]

ResendInv == AuthorTypeOK /\ CacheOK /\ ResentBefore /\ ResendableUntilResent

-----------------------------------------------------------------------------
(* Types.                                                                  *)

Request == [type : {"retry"}, from : Members, id : Ids]

\* What a member does changes nothing of the author; it may add a request.
LEMMA MemberAdds ==
  ASSUME net \subseteq Packet, NEW r \in Members, MemberStep(r)
  PROVE  /\ UNCHANGED <<authorVars, taskVars>>
         /\ \E S \in SUBSET Request : net' = net \cup S
<1>1. PICK p \in net : ReceiveDistribution(r, p) \/ ReceiveGroup(r, p) \/ RequestRetry(r, p)
  BY DEF MemberStep
<1>2. CASE ReceiveDistribution(r, p)
  <2>1. UNCHANGED <<authorVars, net, taskVars>>
    BY <1>2 DEF ReceiveDistribution
  <2>2. net' = net \cup {}
    BY <2>1
  <2>3. QED BY <2>1, <2>2
<1>3. CASE ReceiveGroup(r, p)
  <2>1. UNCHANGED <<authorVars, net, taskVars>>
    BY <1>3 DEF ReceiveGroup
  <2>2. net' = net \cup {}
    BY <2>1
  <2>3. QED BY <2>1, <2>2
<1>4. CASE RequestRetry(r, p)
  <2>1. p.id \in Ids
    BY <1>1, <1>4 DEF RequestRetry, Packet, Message
  <2>2. [type |-> "retry", from |-> r, id |-> p.id] \in Request
    BY <2>1 DEF Request
  <2>3. QED BY <1>4, <2>2 DEF RequestRetry
<1>5. QED BY <1>1, <1>2, <1>3, <1>4

\* The types through one step of a task.
LEMMA TaskTypes ==
  ASSUME AuthorTypeOK, NEW t \in Tasks, TaskStep(t)
  PROVE  AuthorTypeOK'
<1> USE DEF AuthorTypeOK, Labels
<1>1. CASE StartGroupSend(t)
  <2> DEFINE job == [id |-> <<"message", begun'>>, to |-> Members,
                     serial |-> begun' + retries, carries |-> None]
  <2>1. job \in Job
    BY <1>1 DEF StartGroupSend, Job, Ids
  <2>2. work' = [work EXCEPT ![t] = job]
    BY <1>1 DEF StartGroupSend
  <2> HIDE DEF job
  <2>3. QED BY <1>1, <2>1, <2>2 DEF StartGroupSend
<1>2. ASSUME NEW p \in net, TakeRetryReceipt(t, p) PROVE AuthorTypeOK'
  <2> DEFINE job == [id |-> p.id, to |-> {p.from}, serial |-> begun + retries',
                     carries |-> None]
  <2>1. p.id \in Ids /\ p.from \in Members
    BY <1>2 DEF TakeRetryReceipt, Packet, Message
  <2>2. job \in Job
    BY <1>2, <2>1 DEF TakeRetryReceipt, Job
  <2>3. \/ work' = [work EXCEPT ![t] = job] /\ spc' = [spc EXCEPT ![t] = "load"]
        \/ UNCHANGED taskVars
    BY <1>2 DEF TakeRetryReceipt
  <2> HIDE DEF job
  <2>4. QED BY <1>2, <2>2, <2>3 DEF TakeRetryReceipt, taskVars
<1>3. CASE LoadDistribution(t)
  <2> DEFINE place == [key |-> own'.key, iteration |-> own'.iteration]
  <2>1. own' \in Position /\ keys' \in Nat
    BY <1>3 DEF LoadDistribution, Position
  <2>2. place \in Position
    BY <2>1 DEF Position
  <2>3. work' = [work EXCEPT ![t].carries = place]
    BY <1>3 DEF LoadDistribution
  <2> HIDE DEF place
  <2>4. [work[t] EXCEPT !.carries = place] \in Job
    BY <1>3, <2>2 DEF LoadDistribution, Job
  <2>5. QED BY <1>3, <2>1, <2>2, <2>3, <2>4 DEF LoadDistribution, Job
<1>4. CASE Distribute(t)
  <2> DEFINE sent == {[type |-> "distribution", to |-> r, key |-> work[t].carries.key,
                       iteration |-> work[t].carries.iteration] : r \in work[t].to}
  <2>1. sent \subseteq Packet
    <3>1. work[t].to \subseteq Members /\ work[t].carries \in Position
      BY <1>4 DEF Distribute, Job
    <3>2. QED BY <3>1 DEF Packet, Position
  <2>2. \/ net' = net \cup sent /\ TaskGoes(t, "cacheDistribution")
        \/ UNCHANGED net /\ TaskDone(t)
    BY <1>4 DEF Distribute
  <2> HIDE DEF sent
  <2>3. QED BY <1>4, <2>1, <2>2 DEF Distribute, TaskGoes, TaskDone, authorVars
<1>5. CASE CacheDistribution(t)
  BY <1>5, GroupAssumption DEF CacheDistribution, TaskGoes, Tasks
<1>6. CASE EncryptGroup(t)
  <2>1. own \in Position /\ own' = [own EXCEPT !.iteration = @ + 1]
    BY <1>6 DEF EncryptGroup
  <2>2. GroupMessage(t) \in Message
    BY <1>6, <2>1 DEF EncryptGroup, GroupMessage, Message, Position, Job
  <2>3. [work[t] EXCEPT !.carries = GroupMessage(t)] \in Job
    BY <1>6, <2>2 DEF EncryptGroup, Job
  <2>4. own' \in Position
    BY <2>1 DEF Position
  <2>5. QED BY <1>6, <2>2, <2>3, <2>4 DEF EncryptGroup, Job
<1>7. CASE SendGroup(t)
  <2>1. work[t].carries \in Packet
    BY <1>7 DEF SendGroup, Packet
  <2>2. QED BY <1>7, <2>1 DEF SendGroup, TaskGoes, TaskDone, authorVars
<1>8. CASE Resend(t)
  <2> DEFINE sent == {[type |-> "resend", to |-> r, id |-> work[t].id] : r \in work[t].to}
  <2>1. sent \subseteq Packet
    <3>1. work[t].to \subseteq Members /\ work[t].id \in Ids
      BY <1>8 DEF Resend, Job
    <3>2. QED BY <3>1 DEF Packet
  <2>2. \/ net' = net \cup sent /\ TaskGoes(t, "cache")
        \/ UNCHANGED net /\ TaskDone(t)
    BY <1>8 DEF Resend, SendAgain
  <2> HIDE DEF sent
  <2>3. QED BY <1>8, <2>1, <2>2 DEF Resend, TaskGoes, TaskDone, authorVars
<1>9. CASE CacheMessage(t)
  BY <1>9, GroupAssumption DEF CacheMessage, TaskGoes, TaskDone, Tasks
<1>10. CASE MarkRetrySuccess(t)
  BY <1>10 DEF MarkRetrySuccess, TaskDone
<1>11. QED
  BY <1>1, <1>2, <1>3, <1>4, <1>5, <1>6, <1>7, <1>8, <1>9, <1>10 DEF TaskStep

(* The author's sender key, tasks and messages keep their types through    *)
(* every step of the sending tasks, the receipt handlers and the members.  *)
THEOREM AuthorTypeCorrect == Spec => []AuthorTypeOK
<1>1. Init => AuthorTypeOK
  BY DEF Init, AuthorTypeOK, Labels
<1>2. AuthorTypeOK /\ [Next]_vars => AuthorTypeOK'
  <2> SUFFICES ASSUME AuthorTypeOK, [Next]_vars PROVE AuthorTypeOK'
    OBVIOUS
  <2>1. ASSUME NEW t \in Tasks, TaskStep(t) PROVE AuthorTypeOK'
    BY <2>1, TaskTypes
  <2>2. ASSUME NEW r \in Members, MemberStep(r) PROVE AuthorTypeOK'
    <3>1. PICK S \in SUBSET Request : net' = net \cup S
      BY <2>2, MemberAdds DEF AuthorTypeOK
    <3>2. UNCHANGED <<authorVars, taskVars>>
      BY <2>2, MemberAdds DEF AuthorTypeOK
    <3>3. net' \subseteq Packet
      BY <3>1 DEF AuthorTypeOK, Packet, Request
    <3>4. QED BY <3>2, <3>3 DEF AuthorTypeOK, authorVars, taskVars
  <2>3. CASE DeleteSenderKey
    BY <2>3 DEF DeleteSenderKey, AuthorTypeOK, taskVars
  <2>4. CASE UNCHANGED vars
    BY <2>4 DEF vars, authorVars, taskVars, AuthorTypeOK
  <2>5. QED BY <2>1, <2>2, <2>3, <2>4 DEF Next
<1>3. QED BY <1>1, <1>2, PTL DEF Spec

-----------------------------------------------------------------------------
(* The iterations of a sender key.                                         *)

\* The group messages among what was sent, when only other packets are added.
LEMMA SameGroupSent ==
  ASSUME NEW S, \A p \in S : p.type # "group", net' = net \cup S
  PROVE  GroupSent' = GroupSent
  BY DEF GroupSent

\* A step that leaves the sender key alone, encrypts nothing and sends no group
\* message keeps the invariant.
LEMMA IterationKept ==
  ASSUME SentBehind, CarriedApart, IterationNeverReused,
         UNCHANGED <<own, keys>>, GroupSent' = GroupSent,
         \A t \in Tasks : spc'[t] = "send" => spc[t] = "send" /\ work'[t] = work[t]
  PROVE  SentBehind' /\ CarriedApart' /\ IterationNeverReused'
<1>1. SentBehind'
  BY DEF SentBehind
<1>2. CarriedApart'
  BY DEF CarriedApart, SamePosition
<1>3. IterationNeverReused'
  BY DEF IterationNeverReused
<1>4. QED BY <1>1, <1>2, <1>3

\* The iterations through one step of a task.
LEMMA TaskIteration ==
  ASSUME IterationInv, NEW t \in Tasks, TaskStep(t)
  PROVE  SentBehind' /\ CarriedApart' /\ IterationNeverReused'
<1> USE DEF IterationInv
<1>0. /\ net \subseteq Packet /\ keys \in Nat /\ (own = None \/ own \in Position)
      /\ spc \in [Tasks -> Labels] /\ work \in [Tasks -> {None} \cup Job]
      /\ \A u \in Tasks : /\ spc[u] # "idle" => work[u] \in Job
                          /\ spc[u] = "send" => work[u].carries \in Message
  BY DEF AuthorTypeOK
<1>1. CASE StartGroupSend(t)
  BY <1>0, <1>1, IterationKept DEF StartGroupSend, GroupSent
<1>2. ASSUME NEW p \in net, TakeRetryReceipt(t, p)
      PROVE  SentBehind' /\ CarriedApart' /\ IterationNeverReused'
  BY <1>0, <1>2, IterationKept DEF TakeRetryReceipt, GroupSent, taskVars
<1>3. CASE LoadDistribution(t)
  <2>1. GroupSent' = GroupSent
    BY <1>3 DEF LoadDistribution, GroupSent
  <2>2. \A u \in Tasks : spc'[u] = "send" => spc[u] = "send" /\ work'[u] = work[u]
    BY <1>0, <1>3 DEF LoadDistribution
  <2>3. CASE own # None
    BY <1>3, <2>1, <2>2, <2>3, IterationKept DEF LoadDistribution
  <2>4. CASE own = None
    <3>1. own' = [key |-> keys + 1, iteration |-> 0] /\ keys' = keys + 1
      BY <1>3, <2>4 DEF LoadDistribution
    <3>2. \A m \in GroupSent : m \in Message
      BY <1>0 DEF GroupSent, Packet
    <3>3. SentBehind'
      BY <1>0, <2>1, <2>2, <3>1, <3>2 DEF SentBehind, Message
    <3>4. CarriedApart'
      BY <2>1, <2>2 DEF CarriedApart, SamePosition
    <3>5. IterationNeverReused'
      BY <2>1 DEF IterationNeverReused
    <3>6. QED BY <3>3, <3>4, <3>5
  <2>5. QED BY <2>3, <2>4
<1>4. CASE Distribute(t)
  <2> DEFINE sent == {[type |-> "distribution", to |-> r, key |-> work[t].carries.key,
                       iteration |-> work[t].carries.iteration] : r \in work[t].to}
  <2>1. (\A p \in sent : p.type # "group") /\ (net' = net \cup sent \/ net' = net)
    BY <1>4 DEF Distribute
  <2> HIDE DEF sent
  <2>2. GroupSent' = GroupSent
    BY <2>1, SameGroupSent DEF GroupSent
  <2>3. QED
    BY <1>0, <1>4, <2>2, IterationKept DEF Distribute, TaskGoes, TaskDone, authorVars
<1>5. CASE CacheDistribution(t)
  BY <1>0, <1>5, IterationKept DEF CacheDistribution, TaskGoes, GroupSent
<1>6. CASE EncryptGroup(t)
  <2> DEFINE m == GroupMessage(t)
  <2>1. own \in Position /\ own' = [own EXCEPT !.iteration = @ + 1] /\ keys' = keys
    BY <1>0, <1>6 DEF EncryptGroup
  <2>2. GroupSent' = GroupSent
    BY <1>6 DEF EncryptGroup, GroupSent
  <2>3. spc' = [spc EXCEPT ![t] = "send"] /\ spc[t] = "encrypt"
    BY <1>6 DEF EncryptGroup
  <2>4. work'[t].carries = m /\ \A u \in Tasks : u # t => work'[u] = work[u]
    BY <1>0, <1>6 DEF EncryptGroup, Job
  <2>5. m.key = own.key /\ m.iteration = own.iteration
    BY DEF GroupMessage
  <2>6. own.key \in Nat /\ own.iteration \in Nat /\ own # None
    BY <1>6, <2>1 DEF Position, EncryptGroup
  <2>7. own'.key = own.key /\ own'.iteration = own.iteration + 1 /\ own' # None
    BY <2>1, GroupAssumption DEF Position
  <2> HIDE DEF m
  <2>8. \A g \in GroupSent : g \in Message
    BY <1>0 DEF GroupSent, Packet
  <2>9. SentBehind'
    BY <1>0, <2>1, <2>2, <2>3, <2>4, <2>5, <2>6, <2>7, <2>8 DEF SentBehind, Message
  <2>10. CarriedApart'
    BY <1>0, <2>2, <2>3, <2>4, <2>5, <2>6, <2>8
    DEF SentBehind, CarriedApart, SamePosition, Message
  <2>11. IterationNeverReused'
    BY <2>2 DEF IterationNeverReused
  <2>12. QED BY <2>9, <2>10, <2>11
<1>7. CASE SendGroup(t)
  <2>1. CASE net' = net \cup {work[t].carries} /\ TaskGoes(t, "cache")
    <3> DEFINE m == work[t].carries
    <3>1. spc[t] = "send" /\ UNCHANGED <<own, keys, work>>
          /\ spc' = [spc EXCEPT ![t] = "cache"]
      BY <1>7, <2>1 DEF SendGroup, TaskGoes, authorVars
    <3>2. GroupSent' = GroupSent \cup {m}
      BY <1>0, <2>1, <3>1 DEF GroupSent, Message
    <3>3. SentBehind'
      BY <1>0, <3>1, <3>2 DEF SentBehind
    <3>4. CarriedApart'
      BY <1>0, <3>1, <3>2 DEF CarriedApart, SamePosition
    <3>5. IterationNeverReused'
      BY <3>1, <3>2 DEF IterationNeverReused, CarriedApart, SamePosition
    <3>6. QED BY <3>3, <3>4, <3>5
  <2>2. CASE UNCHANGED net /\ TaskDone(t)
    BY <1>0, <1>7, <2>2, IterationKept DEF SendGroup, TaskDone, authorVars, GroupSent
  <2>3. QED BY <1>7, <2>1, <2>2 DEF SendGroup
<1>8. CASE Resend(t)
  <2> DEFINE sent == {[type |-> "resend", to |-> r, id |-> work[t].id] : r \in work[t].to}
  <2>1. (\A p \in sent : p.type # "group") /\ (net' = net \cup sent \/ net' = net)
    BY <1>8 DEF Resend, SendAgain
  <2> HIDE DEF sent
  <2>2. GroupSent' = GroupSent
    BY <2>1, SameGroupSent DEF GroupSent
  <2>3. QED
    BY <1>0, <1>8, <2>2, IterationKept DEF Resend, SendAgain, TaskGoes, TaskDone, authorVars
<1>9. CASE CacheMessage(t)
  BY <1>0, <1>9, IterationKept DEF CacheMessage, TaskGoes, TaskDone, GroupSent
<1>10. CASE MarkRetrySuccess(t)
  BY <1>0, <1>10, IterationKept DEF MarkRetrySuccess, TaskDone, GroupSent
<1>11. QED
  BY <1>1, <1>2, <1>3, <1>4, <1>5, <1>6, <1>7, <1>8, <1>9, <1>10 DEF TaskStep

(* encrypt_sender_key_record_message never encrypts two messages under one *)
(* iteration of a sender key, however many tasks send to the group: each   *)
(* message that was encrypted, sent or not, is behind the chain.           *)
THEOREM IterationUnique == Spec => []IterationNeverReused
<1>1. Init => IterationInv
  BY DEF Init, IterationInv, AuthorTypeOK, Labels, SentBehind, CarriedApart,
         IterationNeverReused, GroupSent
<1>2. IterationInv /\ AuthorTypeOK' /\ [Next]_vars => IterationInv'
  <2> SUFFICES ASSUME IterationInv, AuthorTypeOK', [Next]_vars
               PROVE  SentBehind' /\ CarriedApart' /\ IterationNeverReused'
    BY DEF IterationInv
  <2>0. SentBehind /\ CarriedApart /\ IterationNeverReused /\ net \subseteq Packet
    BY DEF IterationInv, AuthorTypeOK
  <2>1. ASSUME NEW t \in Tasks, TaskStep(t)
        PROVE  SentBehind' /\ CarriedApart' /\ IterationNeverReused'
    BY <2>1, TaskIteration
  <2>2. ASSUME NEW r \in Members, MemberStep(r)
        PROVE  SentBehind' /\ CarriedApart' /\ IterationNeverReused'
    <3>1. PICK S \in SUBSET Request : net' = net \cup S
      BY <2>0, <2>2, MemberAdds
    <3>2. UNCHANGED <<authorVars, taskVars>>
      BY <2>0, <2>2, MemberAdds
    <3>3. \A p \in S : p.type # "group"
      BY DEF Request
    <3>4. GroupSent' = GroupSent
      BY <3>1, <3>3, SameGroupSent
    <3>5. QED BY <2>0, <3>2, <3>4, IterationKept DEF authorVars, taskVars
  <2>3. CASE DeleteSenderKey
    <3>1. own' = None /\ UNCHANGED <<keys, net, spc, work>>
      BY <2>3 DEF DeleteSenderKey, taskVars
    <3>2. QED
      BY <2>0, <3>1 DEF SentBehind, CarriedApart, SamePosition, IterationNeverReused, GroupSent
  <2>4. CASE UNCHANGED vars
    BY <2>0, <2>4, IterationKept DEF vars, authorVars, taskVars, GroupSent
  <2>5. QED BY <2>1, <2>2, <2>3, <2>4 DEF Next
<1>3. IterationInv => IterationNeverReused
  BY DEF IterationInv
<1>4. QED BY <1>1, <1>2, <1>3, AuthorTypeCorrect, PTL DEF Spec

-----------------------------------------------------------------------------
(* Distributions.                                                          *)

\* What was distributed stays so.
LEMMA DistributedStays ==
  ASSUME net \subseteq net', NEW m, NEW r, Distributed(m, r)
  PROVE  Distributed(m, r)'
  BY DEF Distributed

\* A step that leaves the sender key alone, starts no task and moves none past a
\* distribution keeps the invariant.
LEMMA DistributionKept ==
  ASSUME KeyStays, SentOn, DistributedFirst,
         own' = own, net \subseteq net', GroupSent' = GroupSent,
         \A u \in Senders : spc'[u] # "idle" =>
           /\ work'[u] = work[u]
           /\ spc[u] # "idle"
           /\ spc'[u] \in {"distribute", "cacheDistribution", "encrypt"}
                => spc[u] \in {"distribute", "cacheDistribution", "encrypt"}
           /\ spc'[u] \in {"cacheDistribution", "encrypt", "send"}
                => spc[u] \in {"cacheDistribution", "encrypt", "send"}
  PROVE  KeyStays' /\ SentOn' /\ DistributedFirst'
<1>1. KeyStays'
  BY DEF KeyStays
<1>2. SentOn'
  BY DEF SentOn, Distributed
<1>3. DistributedFirst'
  BY DEF DistributedFirst
<1>4. QED BY <1>1, <1>2, <1>3

\* The distributions through one step of a task.
LEMMA TaskDistribution ==
  ASSUME DistributionInv, NEW t \in Tasks, TaskStep(t)
  PROVE  KeyStays' /\ SentOn' /\ DistributedFirst'
<1> USE DEF DistributionInv
<1>0. /\ net \subseteq Packet /\ (own = None \/ own \in Position)
      /\ spc \in [Tasks -> Labels] /\ work \in [Tasks -> {None} \cup Job]
      /\ \A u \in Tasks : /\ spc[u] # "idle" => work[u] \in Job
                          /\ spc[u] \in {"distribute", "cacheDistribution", "encrypt"}
                               => work[u].carries \in Position
                          /\ spc[u] = "send" => work[u].carries \in Message
                          /\ spc[u] \in {"encrypt", "send"} => u \in Senders
                          /\ spc[u] \in {"resend", "mark"} => u \in Handlers
  BY DEF AuthorTypeOK
<1>s. Senders \subseteq Tasks /\ \A u \in Handlers : u \notin Senders
  BY GroupAssumption DEF Tasks
<1>1. CASE StartGroupSend(t)
  <2>1. spc'[t] = "load" /\ work'[t].to = Members
        /\ \A u \in Tasks : u # t => spc'[u] = spc[u] /\ work'[u] = work[u]
    BY <1>0, <1>1 DEF StartGroupSend
  <2>2. own' = own /\ net' = net
    BY <1>1 DEF StartGroupSend
  <2>3. QED
    BY <1>s, <2>1, <2>2 DEF KeyStays, SentOn, DistributedFirst, Distributed, GroupSent
<1>2. ASSUME NEW p \in net, TakeRetryReceipt(t, p)
      PROVE  KeyStays' /\ SentOn' /\ DistributedFirst'
  <2>1. t \notin Senders
    BY <1>2, <1>s DEF TakeRetryReceipt
  <2>2. \A u \in Senders : spc'[u] = spc[u] /\ work'[u] = work[u]
    BY <1>0, <1>2, <1>s, <2>1 DEF TakeRetryReceipt, taskVars
  <2>3. own' = own /\ net' = net
    BY <1>2 DEF TakeRetryReceipt
  <2>4. QED BY <2>2, <2>3, DistributionKept DEF GroupSent
<1>3. CASE LoadDistribution(t)
  <2>1. own' # None /\ own' \in Position /\ (own # None => own' = own)
    BY <1>0, <1>3, GroupAssumption DEF LoadDistribution, Position, AuthorTypeOK
  <2>2. /\ spc'[t] = "distribute" /\ spc[t] = "load"
        /\ work'[t].carries = [key |-> own'.key, iteration |-> own'.iteration]
        /\ work'[t].to = work[t].to
        /\ \A u \in Tasks : u # t => spc'[u] = spc[u] /\ work'[u] = work[u]
    BY <1>0, <1>3 DEF LoadDistribution, Job
  <2>3. net' = net
    BY <1>3 DEF LoadDistribution
  <2>4. KeyStays'
    BY <1>s, <2>1, <2>2 DEF KeyStays, Position
  <2>5. SentOn'
    BY <1>s, <2>2, <2>3 DEF SentOn, Distributed
  <2>6. DistributedFirst'
    BY <2>3 DEF DistributedFirst, GroupSent
  <2>7. QED BY <2>4, <2>5, <2>6
<1>4. CASE Distribute(t)
  <2> DEFINE sent == {[type |-> "distribution", to |-> r, key |-> work[t].carries.key,
                       iteration |-> work[t].carries.iteration] : r \in work[t].to}
  <2>1. \A p \in sent : p.type # "group"
    OBVIOUS
  <2>2. own' = own
    BY <1>4 DEF Distribute, authorVars
  <2>3. CASE net' = net \cup sent /\ TaskGoes(t, "cacheDistribution")
    <3>1. GroupSent' = GroupSent
      BY <2>1, <2>3, SameGroupSent
    <3>2. /\ spc'[t] = "cacheDistribution" /\ spc[t] = "distribute" /\ work' = work
          /\ \A u \in Tasks : u # t => spc'[u] = spc[u]
      BY <1>0, <1>4, <2>3 DEF Distribute, TaskGoes
    <3>3. work[t].carries.iteration \in Nat
      BY <1>0, <3>2 DEF Position
    <3>4. ASSUME t \in Senders, NEW r \in Members PROVE Distributed(work[t].carries, r)'
      <4> DEFINE d == [type |-> "distribution", to |-> r, key |-> work[t].carries.key,
                       iteration |-> work[t].carries.iteration]
      <4>1. r \in work[t].to
        BY <3>2, <3>4 DEF SentOn
      <4>2. d \in net'
        BY <2>3, <4>1
      <4>3. QED BY <3>2, <3>3, <4>2 DEF Distributed
    <3> HIDE DEF sent
    <3>5. KeyStays'
      BY <1>s, <2>2, <3>2 DEF KeyStays
    <3>6. SentOn'
      BY <1>s, <2>3, <3>2, <3>4 DEF SentOn, Distributed
    <3>7. DistributedFirst'
      BY <2>3, <3>1 DEF DistributedFirst
    <3>8. QED BY <3>5, <3>6, <3>7
  <2>4. CASE UNCHANGED net /\ TaskDone(t)
    BY <1>0, <1>s, <2>2, <2>4, DistributionKept DEF TaskDone, GroupSent
  <2>5. QED BY <1>4, <2>3, <2>4 DEF Distribute
<1>5. CASE CacheDistribution(t)
  BY <1>0, <1>s, <1>5, DistributionKept DEF CacheDistribution, TaskGoes, GroupSent
<1>6. CASE EncryptGroup(t)
  <2>1. /\ own \in Position /\ t \in Senders /\ own # None
        /\ own' = [own EXCEPT !.iteration = @ + 1] /\ net' = net
    BY <1>0, <1>6 DEF EncryptGroup
  <2>2. /\ spc'[t] = "send" /\ spc[t] = "encrypt" /\ work'[t].to = work[t].to
        /\ work'[t].carries = GroupMessage(t)
        /\ \A u \in Tasks : u # t => spc'[u] = spc[u] /\ work'[u] = work[u]
    BY <1>0, <1>6 DEF EncryptGroup, Job
  <2>3. own'.key = own.key /\ own'.iteration = own.iteration + 1 /\ own' # None
        /\ own.iteration \in Nat
    BY <2>1, GroupAssumption DEF Position
  <2>4. \A u \in Senders : spc[u] \in {"distribute", "cacheDistribution", "encrypt"}
          => work[u].carries.iteration \in Nat
    BY <1>0, <1>s DEF Position
  <2>5. KeyStays'
    BY <1>s, <2>2, <2>3, <2>4 DEF KeyStays
  <2>6. ASSUME NEW r \in Members PROVE Distributed(work'[t].carries, r)
    <3>1. PICK d \in net : /\ d.type = "distribution" /\ d.to = r
                           /\ d.key = work[t].carries.key
                           /\ d.iteration <= work[t].carries.iteration
      BY <2>1, <2>2 DEF SentOn, Distributed
    <3>2. d.iteration \in Nat
      BY <1>0, <3>1 DEF Packet, Message
    <3>3. own.key = work[t].carries.key /\ work[t].carries.iteration <= own.iteration
      BY <2>1, <2>2 DEF KeyStays
    <3>4. d.key = own.key /\ d.iteration <= own.iteration
      BY <2>1, <2>2, <2>3, <2>4, <3>1, <3>2, <3>3
    <3>5. QED BY <2>2, <3>1, <3>4 DEF Distributed, GroupMessage
  <2>7. SentOn'
    BY <1>s, <2>1, <2>2, <2>6 DEF SentOn, Distributed
  <2>8. DistributedFirst'
    BY <2>1 DEF DistributedFirst, GroupSent
  <2>9. QED BY <2>5, <2>7, <2>8
<1>7. CASE SendGroup(t)
  <2>0. spc[t] = "send" /\ t \in Senders /\ own' = own
    BY <1>0, <1>7 DEF SendGroup, authorVars
  <2>1. CASE net' = net \cup {work[t].carries} /\ TaskGoes(t, "cache")
    <3>1. /\ spc'[t] = "cache" /\ work' = work
          /\ \A u \in Tasks : u # t => spc'[u] = spc[u]
      BY <1>0, <2>1 DEF TaskGoes
    <3>2. KeyStays'
      BY <1>s, <2>0, <3>1 DEF KeyStays
    <3>3. SentOn'
      BY <1>s, <2>0, <2>1, <3>1 DEF SentOn, Distributed
    <3>4. \A r \in Members : Distributed(work[t].carries, r)
      BY <2>0 DEF SentOn
    <3>5. GroupSent' \subseteq GroupSent \cup {work[t].carries}
      BY <2>1 DEF GroupSent
    <3>6. DistributedFirst'
      BY <2>1, <3>4, <3>5 DEF DistributedFirst, Distributed
    <3>7. QED BY <3>2, <3>3, <3>6
  <2>2. CASE UNCHANGED net /\ TaskDone(t)
    BY <1>0, <1>s, <2>0, <2>2, DistributionKept DEF TaskDone, GroupSent
  <2>3. QED BY <1>7, <2>1, <2>2 DEF SendGroup
<1>8. CASE Resend(t)
  <2> DEFINE sent == {[type |-> "resend", to |-> r, id |-> work[t].id] : r \in work[t].to}
  <2>1. (\A p \in sent : p.type # "group") /\ (net' = net \cup sent \/ net' = net)
    BY <1>8 DEF Resend, SendAgain
  <2> HIDE DEF sent
  <2>2. GroupSent' = GroupSent /\ own' = own /\ net \subseteq net'
    BY <1>8, <2>1, SameGroupSent DEF GroupSent, Resend, authorVars
  <2>3. QED
    BY <1>0, <1>s, <1>8, <2>2, DistributionKept DEF Resend, SendAgain, TaskGoes, TaskDone
<1>9. CASE CacheMessage(t)
  BY <1>0, <1>s, <1>9, DistributionKept DEF CacheMessage, TaskGoes, TaskDone, GroupSent
<1>10. CASE MarkRetrySuccess(t)
  BY <1>0, <1>s, <1>10, DistributionKept DEF MarkRetrySuccess, TaskDone, GroupSent
<1>11. QED
  BY <1>1, <1>2, <1>3, <1>4, <1>5, <1>6, <1>7, <1>8, <1>9, <1>10 DEF TaskStep

(* relay_group_sender_key_proto_message_with_encryptors sends each member  *)
(* a distribution that a group message can be decrypted from before the    *)
(* message itself: the sender key it loaded can advance but not change     *)
(* before the task encrypts.                                               *)
THEOREM DistributedBefore == Spec => []DistributedFirst
<1>1. Init => DistributionInv
  BY GroupAssumption DEF Init, DistributionInv, AuthorTypeOK, Labels, KeyStays, SentOn,
         DistributedFirst, GroupSent, Tasks
<1>2. DistributionInv /\ AuthorTypeOK' /\ [Next]_vars => DistributionInv'
  <2> SUFFICES ASSUME DistributionInv, AuthorTypeOK', [Next]_vars
               PROVE  KeyStays' /\ SentOn' /\ DistributedFirst'
    BY DEF DistributionInv
  <2>0. KeyStays /\ SentOn /\ DistributedFirst /\ net \subseteq Packet
    BY DEF DistributionInv, AuthorTypeOK
  <2>1. ASSUME NEW t \in Tasks, TaskStep(t)
        PROVE  KeyStays' /\ SentOn' /\ DistributedFirst'
    BY <2>1, TaskDistribution
  <2>2. ASSUME NEW r \in Members, MemberStep(r)
        PROVE  KeyStays' /\ SentOn' /\ DistributedFirst'
    <3>1. PICK S \in SUBSET Request : net' = net \cup S
      BY <2>0, <2>2, MemberAdds
    <3>2. UNCHANGED <<authorVars, taskVars>>
      BY <2>0, <2>2, MemberAdds
    <3>3. GroupSent' = GroupSent
      BY <3>1, SameGroupSent DEF Request
    <3>4. QED BY <2>0, <3>1, <3>2, <3>3, DistributionKept DEF authorVars, taskVars
  <2>3. CASE DeleteSenderKey
    <3>1. UNCHANGED <<net, spc, work>> /\ \A t \in Senders : spc[t] = "idle"
      BY <2>3 DEF DeleteSenderKey, taskVars
    <3>2. QED
      BY <2>0, <3>1 DEF KeyStays, SentOn, DistributedFirst, Distributed, GroupSent
  <2>4. CASE UNCHANGED vars
    BY <2>0, <2>4, DistributionKept DEF vars, authorVars, taskVars, GroupSent
  <2>5. QED BY <2>1, <2>2, <2>3, <2>4 DEF Next
<1>3. DistributionInv => DistributedFirst
  BY DEF DistributionInv
<1>4. QED BY <1>1, <1>2, <1>3, AuthorTypeCorrect, PTL DEF Spec

-----------------------------------------------------------------------------
(* Resends.                                                                *)

LEMMA PurgeFields ==
  ASSUME CacheOK, NEW old
  PROVE  PurgeRecent(recent, old) =
           [messages |-> recent.messages \ old, order |-> recent.order]
  BY DEF CacheOK, PurgeRecent

LEMMA RemoveFields ==
  ASSUME CacheOK, NEW id
  PROVE  RemoveRecent(recent, id) =
           [messages |-> recent.messages \ {id}, order |-> recent.order]
  BY DEF CacheOK, RemoveRecent

\* What is cached, or was, is cached or has given way; so is the id.
LEMMA CacheKeeps ==
  ASSUME NEW id, Cache(id)
  PROVE  /\ recent' = [messages |-> recent'.messages, order |-> recent'.order]
         /\ recent.messages \cup gaveWay \cup {id} \subseteq recent'.messages \cup gaveWay'
<1>1. PICK old \in TooOld(recent) : recent' = AddRecent(PurgeRecent(recent, old), id)
  BY DEF Cache
<1>2. gaveWay' = gaveWay \cup ((recent.messages \cup {id}) \ recent'.messages)
  BY DEF Cache
<1>3. recent' = [messages |-> recent'.messages, order |-> recent'.order]
  <2> DEFINE c == [messages |-> PurgeRecent(recent, old).messages \cup {id},
                   order |-> Append(PurgeRecent(recent, old).order, id)]
  <2>1. recent' = EnforceCapacity(c)
    BY <1>1 DEF AddRecent
  <2> HIDE DEF c
  <2>2. QED BY <2>1 DEF EnforceCapacity
<1>4. QED BY <1>2, <1>3

\* Handlers past their resend, and packets, through a step that sends no group
\* message and takes no task out of its position but to end it.
LEMMA ResendKept ==
  ASSUME ResentBefore, ResendableUntilResent, CacheOK',
         net \subseteq net', GroupSent' = GroupSent,
         \A id \in recent.messages \cup gaveWay :
           \/ id \in recent'.messages \cup gaveWay'
           \/ \E p \in net' : p.type = "resend" /\ p.id = id,
         \A u \in Tasks : spc'[u] # "idle" =>
           /\ spc[u] # "idle" /\ work'[u].to = work[u].to /\ work'[u].id = work[u].id
           /\ spc'[u] = "send" =>
                spc[u] = "send" /\ work'[u].carries = work[u].carries
           /\ spc'[u] \in {"cache", "mark"} =>
                \/ spc[u] \in {"cache", "mark"}
                \/ \E p \in net' : p.type = "resend" /\ p.id = work[u].id,
         \A u \in Tasks : spc[u] = "cache" =>
           \/ spc'[u] = "cache" /\ work'[u] = work[u]
           \/ work[u].id \in recent'.messages \cup gaveWay'
  PROVE  CacheOK' /\ ResentBefore' /\ ResendableUntilResent'
<1>1. ResentBefore'
  <2> SUFFICES ASSUME NEW u \in Tasks
               PROVE  /\ u \in Handlers /\ spc'[u] # "idle" => work'[u].to # {}
                      /\ u \in Handlers /\ spc'[u] \in {"cache", "mark"}
                           => \E p \in net' : p.type = "resend" /\ p.id = work'[u].id
                      /\ spc'[u] = "send" => work'[u].carries.id = work'[u].id
    BY DEF ResentBefore
  <2>1. u \in Handlers /\ spc'[u] # "idle" => work'[u].to # {}
    BY DEF ResentBefore
  <2>2. ASSUME u \in Handlers, spc'[u] \in {"cache", "mark"}
        PROVE  \E p \in net' : p.type = "resend" /\ p.id = work'[u].id
    <3>1. spc'[u] # "idle" /\ work'[u].id = work[u].id
      BY <2>2
    <3>2. QED BY <2>2, <3>1 DEF ResentBefore
  <2>3. spc'[u] = "send" => work'[u].carries.id = work'[u].id
    BY DEF ResentBefore
  <2>4. QED BY <2>1, <2>2, <2>3
<1>2. ResendableUntilResent'
  <2> SUFFICES ASSUME NEW m \in GroupSent
               PROVE  \/ m.id \in recent'.messages \cup gaveWay'
                      \/ \E u \in Tasks : spc'[u] = "cache" /\ work'[u].id = m.id
                      \/ \E p \in net' : p.type = "resend" /\ p.id = m.id
    BY DEF ResendableUntilResent
  <2>1. CASE m.id \in recent.messages \cup gaveWay
    BY <2>1
  <2>2. ASSUME NEW u \in Tasks, spc[u] = "cache", work[u].id = m.id
        PROVE  \/ m.id \in recent'.messages \cup gaveWay'
               \/ spc'[u] = "cache" /\ work'[u].id = m.id
    BY <2>2
  <2>3. CASE \E p \in net : p.type = "resend" /\ p.id = m.id
    BY <2>3
  <2>4. QED BY <2>1, <2>2, <2>3 DEF ResendableUntilResent
<1>3. QED BY <1>1, <1>2

\* The resends through one step of a task.
LEMMA TaskResend ==
  ASSUME ResendInv, NEW t \in Tasks, TaskStep(t)
  PROVE  CacheOK' /\ ResentBefore' /\ ResendableUntilResent'
<1> USE DEF ResendInv
<1>0. /\ net \subseteq Packet
      /\ spc \in [Tasks -> Labels] /\ work \in [Tasks -> {None} \cup Job]
      /\ \A u \in Tasks : /\ spc[u] # "idle" => work[u] \in Job
                          /\ spc[u] = "send" => work[u].carries \in Message
                          /\ spc[u] \in {"encrypt", "send"} => u \in Senders
                          /\ spc[u] \in {"resend", "mark"} => u \in Handlers
  BY DEF AuthorTypeOK
<1>s. \A u \in Tasks : (u \in Senders) # (u \in Handlers)
  BY GroupAssumption DEF Tasks
<1>1. CASE StartGroupSend(t)
  <2>1. /\ spc'[t] = "load" /\ spc[t] = "idle" /\ t \in Senders
        /\ \A u \in Tasks : u # t => spc'[u] = spc[u] /\ work'[u] = work[u]
    BY <1>0, <1>1 DEF StartGroupSend
  <2>2. UNCHANGED <<recent, gaveWay, net>>
    BY <1>1 DEF StartGroupSend
  <2>3. ResentBefore'
    BY <1>s, <2>1, <2>2 DEF ResentBefore
  <2>4. ResendableUntilResent'
    BY <2>1, <2>2 DEF ResendableUntilResent, GroupSent
  <2>5. QED BY <2>2, <2>3, <2>4 DEF CacheOK
<1>2. ASSUME NEW p \in net, TakeRetryReceipt(t, p)
      PROVE  CacheOK' /\ ResentBefore' /\ ResendableUntilResent'
  <2>1. PICK old \in TooOld(recent) :
          recent' = PurgeRecent(recent, old) /\ gaveWay' = gaveWay \cup old
    BY <1>2 DEF TakeRetryReceipt
  <2>2. recent' = [messages |-> recent.messages \ old, order |-> recent.order]
    BY <2>1, PurgeFields
  <2>3. CacheOK' /\ recent.messages \cup gaveWay \subseteq recent'.messages \cup gaveWay'
    BY <2>1, <2>2 DEF CacheOK
  <2>4. net' = net /\ spc[t] = "idle"
    BY <1>2 DEF TakeRetryReceipt
  <2>5. CASE UNCHANGED taskVars
    BY <1>0, <2>3, <2>4, <2>5, ResendKept DEF taskVars, GroupSent
  <2>6. CASE spc' = [spc EXCEPT ![t] = "load"]
             /\ work' = [work EXCEPT ![t] = [id |-> p.id, to |-> {p.from},
                                             serial |-> begun + retries', carries |-> None]]
    <3>1. /\ spc'[t] = "load" /\ work'[t].to # {}
          /\ \A u \in Tasks : u # t => spc'[u] = spc[u] /\ work'[u] = work[u]
      BY <1>0, <2>6
    <3>2. ResentBefore'
      BY <2>4, <3>1 DEF ResentBefore
    <3>3. ResendableUntilResent'
      BY <2>3, <2>4, <3>1 DEF ResendableUntilResent, GroupSent
    <3>4. QED BY <2>3, <3>2, <3>3
  <2>7. QED BY <1>2, <2>5, <2>6 DEF TakeRetryReceipt
<1>3. CASE LoadDistribution(t)
  <2>1. /\ spc'[t] = "distribute" /\ spc[t] = "load"
        /\ work'[t].to = work[t].to /\ work'[t].id = work[t].id
        /\ \A u \in Tasks : u # t => spc'[u] = spc[u] /\ work'[u] = work[u]
    BY <1>0, <1>3 DEF LoadDistribution, Job
  <2>2. UNCHANGED <<recent, gaveWay, net>>
    BY <1>3 DEF LoadDistribution
  <2>3. QED BY <2>1, <2>2, ResendKept DEF GroupSent, CacheOK
<1>4. CASE Distribute(t)
  <2> DEFINE sent == {[type |-> "distribution", to |-> r, key |-> work[t].carries.key,
                       iteration |-> work[t].carries.iteration] : r \in work[t].to}
  <2>1. (\A p \in sent : p.type # "group") /\ (net' = net \cup sent \/ net' = net)
    BY <1>4 DEF Distribute
  <2> HIDE DEF sent
  <2>2. GroupSent' = GroupSent /\ net \subseteq net' /\ UNCHANGED <<recent, gaveWay>>
    BY <1>4, <2>1, SameGroupSent DEF GroupSent, Distribute, authorVars
  <2>3. /\ spc'[t] \in {"cacheDistribution", "idle"} /\ spc[t] = "distribute"
        /\ spc'[t] # "idle" => work' = work
        /\ \A u \in Tasks : u # t => spc'[u] = spc[u] /\ work'[u] = work[u]
    BY <1>0, <1>4 DEF Distribute, TaskGoes, TaskDone
  <2>4. QED BY <2>2, <2>3, ResendKept DEF CacheOK
<1>5. CASE CacheDistribution(t)
  <2>1. Cache(<<"distribution", work[t].serial>>) /\ net' = net
    BY <1>5 DEF CacheDistribution
  <2>2. CacheOK' /\ recent.messages \cup gaveWay \subseteq recent'.messages \cup gaveWay'
    BY <2>1, CacheKeeps DEF CacheOK
  <2>3. /\ spc'[t] \in {"encrypt", "resend"} /\ spc[t] = "cacheDistribution" /\ work' = work
        /\ \A u \in Tasks : u # t => spc'[u] = spc[u]
    BY <1>0, <1>5 DEF CacheDistribution, TaskGoes
  <2>4. QED BY <2>1, <2>2, <2>3, ResendKept DEF GroupSent
<1>6. CASE EncryptGroup(t)
  <2>1. /\ spc'[t] = "send" /\ spc[t] = "encrypt" /\ t \in Senders
        /\ work'[t].to = work[t].to /\ work'[t].id = work[t].id
        /\ work'[t].carries = GroupMessage(t)
        /\ \A u \in Tasks : u # t => spc'[u] = spc[u] /\ work'[u] = work[u]
    BY <1>0, <1>6 DEF EncryptGroup, Job
  <2>2. UNCHANGED <<recent, gaveWay, net>>
    BY <1>6 DEF EncryptGroup
  <2>3. ResentBefore'
    BY <1>s, <2>1, <2>2 DEF ResentBefore, GroupMessage
  <2>4. ResendableUntilResent'
    BY <2>1, <2>2 DEF ResendableUntilResent, GroupSent
  <2>5. QED BY <2>2, <2>3, <2>4 DEF CacheOK
<1>7. CASE SendGroup(t)
  <2>0. spc[t] = "send" /\ t \in Senders /\ UNCHANGED <<recent, gaveWay>>
    BY <1>0, <1>7 DEF SendGroup, authorVars
  <2>1. CASE net' = net \cup {work[t].carries} /\ TaskGoes(t, "cache")
    <3>1. /\ spc'[t] = "cache" /\ work' = work
          /\ \A u \in Tasks : u # t => spc'[u] = spc[u]
      BY <1>0, <2>1 DEF TaskGoes
    <3>2. ResentBefore'
      BY <1>s, <2>0, <2>1, <3>1 DEF ResentBefore
    <3>3. GroupSent' \subseteq GroupSent \cup {work[t].carries}
      BY <2>1 DEF GroupSent
    <3>4. work[t].carries.id = work[t].id
      BY <2>0 DEF ResentBefore
    <3>5. ResendableUntilResent'
      BY <2>0, <2>1, <3>1, <3>3, <3>4 DEF ResendableUntilResent
    <3>6. QED BY <2>0, <3>2, <3>5 DEF CacheOK
  <2>2. CASE UNCHANGED net /\ TaskDone(t)
    <3>1. /\ spc'[t] = "idle"
          /\ \A u \in Tasks : u # t => spc'[u] = spc[u] /\ work'[u] = work[u]
      BY <1>0, <2>2 DEF TaskDone
    <3>2. QED BY <2>0, <2>2, <3>1, ResendKept DEF GroupSent, CacheOK
  <2>3. QED BY <1>7, <2>1, <2>2 DEF SendGroup
<1>8. CASE Resend(t)
  <2> DEFINE sent == {[type |-> "resend", to |-> r, id |-> work[t].id] : r \in work[t].to}
  <2>1. (\A p \in sent : p.type # "group") /\ (net' = net \cup sent \/ net' = net)
    BY <1>8 DEF Resend, SendAgain
  <2>2. spc'[t] = "cache" => \E p \in net' : p.type = "resend" /\ p.id = work[t].id
    <3>1. t \in Handlers /\ work[t].to # {}
      BY <1>0, <1>8 DEF Resend, ResentBefore
    <3>2. \E p \in sent : p.type = "resend" /\ p.id = work[t].id
      <4>1. PICK r \in work[t].to : TRUE
        BY <3>1
      <4>2. [type |-> "resend", to |-> r, id |-> work[t].id] \in sent
        BY <4>1
      <4>3. QED BY <4>2
    <3>3. spc'[t] = "cache" => net' = net \cup sent
      BY <1>0, <1>8 DEF Resend, SendAgain, TaskDone
    <3>4. QED BY <3>2, <3>3
  <2> HIDE DEF sent
  <2>3. GroupSent' = GroupSent /\ net \subseteq net' /\ UNCHANGED <<recent, gaveWay>>
    BY <1>8, <2>1, SameGroupSent DEF GroupSent, Resend, authorVars
  <2>4. /\ spc'[t] \in {"cache", "idle"} /\ spc[t] = "resend"
        /\ spc'[t] # "idle" => work' = work
        /\ \A u \in Tasks : u # t => spc'[u] = spc[u] /\ work'[u] = work[u]
    BY <1>0, <1>8 DEF Resend, TaskGoes, TaskDone
  <2>5. QED BY <2>2, <2>3, <2>4, ResendKept DEF CacheOK
<1>9. CASE CacheMessage(t)
  <2>1. Cache(work[t].id) /\ net' = net
    BY <1>9 DEF CacheMessage
  <2>2. /\ CacheOK' /\ recent.messages \cup gaveWay \subseteq recent'.messages \cup gaveWay'
        /\ work[t].id \in recent'.messages \cup gaveWay'
    BY <2>1, CacheKeeps DEF CacheOK
  <2>3. /\ spc'[t] \in {"mark", "idle"} /\ spc[t] = "cache"
        /\ spc'[t] # "idle" => work' = work
        /\ \A u \in Tasks : u # t => spc'[u] = spc[u] /\ work'[u] = work[u]
    BY <1>0, <1>9 DEF CacheMessage, TaskGoes, TaskDone
  <2>4. QED BY <2>1, <2>2, <2>3, ResendKept DEF GroupSent
<1>10. CASE MarkRetrySuccess(t)
  <2>1. recent' = [messages |-> recent.messages \ {work[t].id}, order |-> recent.order]
    BY <1>10, RemoveFields DEF MarkRetrySuccess
  <2>2. gaveWay' = gaveWay /\ net' = net /\ CacheOK'
    BY <1>10, <2>1 DEF MarkRetrySuccess, CacheOK
  <2>3. \E p \in net : p.type = "resend" /\ p.id = work[t].id
    <3>1. spc[t] = "mark" /\ t \in Handlers
      BY <1>0, <1>10 DEF MarkRetrySuccess
    <3>2. QED BY <3>1 DEF ResentBefore
  <2>4. /\ spc'[t] = "idle" /\ spc[t] = "mark"
        /\ \A u \in Tasks : u # t => spc'[u] = spc[u] /\ work'[u] = work[u]
    BY <1>0, <1>10 DEF MarkRetrySuccess, TaskDone
  <2>5. QED BY <2>1, <2>2, <2>3, <2>4, ResendKept DEF GroupSent
<1>11. QED
  BY <1>1, <1>2, <1>3, <1>4, <1>5, <1>6, <1>7, <1>8, <1>9, <1>10 DEF TaskStep

(* The retry manager forgets a message that was sent for its age, for the  *)
(* capacity of the cache or because it was sent again: a handler that      *)
(* comes to mark_retry_success has sent the message, whatever the other    *)
(* tasks cache and remove in between.                                      *)
THEOREM ResendableKept == Spec => []ResendableUntilResent
<1>1. Init => ResendInv
  BY DEF Init, ResendInv, AuthorTypeOK, Labels, CacheOK, EmptyCache, ResentBefore,
         ResendableUntilResent, GroupSent
<1>2. ResendInv /\ AuthorTypeOK' /\ [Next]_vars => ResendInv'
  <2> SUFFICES ASSUME ResendInv, AuthorTypeOK', [Next]_vars
               PROVE  CacheOK' /\ ResentBefore' /\ ResendableUntilResent'
    BY DEF ResendInv
  <2>0. CacheOK /\ ResentBefore /\ ResendableUntilResent /\ net \subseteq Packet
    BY DEF ResendInv, AuthorTypeOK
  <2>1. ASSUME NEW t \in Tasks, TaskStep(t)
        PROVE  CacheOK' /\ ResentBefore' /\ ResendableUntilResent'
    BY <2>1, TaskResend
  <2>2. ASSUME NEW r \in Members, MemberStep(r)
        PROVE  CacheOK' /\ ResentBefore' /\ ResendableUntilResent'
    <3>1. PICK S \in SUBSET Request : net' = net \cup S
      BY <2>0, <2>2, MemberAdds
    <3>2. UNCHANGED <<authorVars, taskVars>>
      BY <2>0, <2>2, MemberAdds
    <3>3. GroupSent' = GroupSent
      BY <3>1, SameGroupSent DEF Request
    <3>4. QED
      BY <2>0, <3>1, <3>2, <3>3, ResendKept DEF authorVars, taskVars, CacheOK
  <2>3. CASE DeleteSenderKey
    BY <2>0, <2>3, ResendKept DEF DeleteSenderKey, taskVars, GroupSent, CacheOK
  <2>4. CASE UNCHANGED vars
    BY <2>0, <2>4, ResendKept DEF vars, authorVars, taskVars, GroupSent, CacheOK
  <2>5. QED BY <2>1, <2>2, <2>3, <2>4 DEF Next
<1>3. ResendInv => ResendableUntilResent
  BY DEF ResendInv
<1>4. QED BY <1>1, <1>2, <1>3, AuthorTypeCorrect, PTL DEF Spec

-----------------------------------------------------------------------------
(* The sender-key records of the members.                                  *)

Holds(s, n) == \E i \in 1 .. Len(s.stored) : s.stored[i] = n

\* The chain is past n and no message key is left for it.
Past(s, n) == n < s.iteration /\ ~Holds(s, n)

\* Stored message keys are for iterations behind the chain, one for each.
StateOK(s) ==
  /\ s \in State
  /\ \A i \in 1 .. Len(s.stored) : s.stored[i] < s.iteration
  /\ \A i, j \in 1 .. Len(s.stored) : s.stored[i] = s.stored[j] => i = j

RecordOK(rec) ==
  /\ rec \in Seq(State)
  /\ \A i \in 1 .. Len(rec) : StateOK(rec[i])
  /\ \A i, j \in 1 .. Len(rec) : rec[i].key = rec[j].key => i = j

\* The chain has passed what was accepted, unless the key has given way.
AcceptedPast(rec, acc, gone) ==
  \A m \in acc :
    m.key \in gone \/ \E i \in 1 .. Len(rec) : rec[i].key = m.key /\ Past(rec[i], m.iteration)

\* What the chain has passed is lost, stored or accepted.
Accounted(rec, acc) ==
  \A i \in 1 .. Len(rec) : \A n \in Nat : n < rec[i].iteration =>
    \/ n \in rec[i].lost \/ Holds(rec[i], n)
    \/ \E m \in acc : m.key = rec[i].key /\ m.iteration = n

LEMMA RemoveAtFacts ==
  ASSUME NEW S, NEW seq \in Seq(S), NEW i \in 1 .. Len(seq)
  PROVE  /\ RemoveAt(seq, i) \in Seq(S)
         /\ Len(RemoveAt(seq, i)) = Len(seq) - 1
         /\ \A k \in 1 .. Len(seq) - 1 :
              RemoveAt(seq, i)[k] = IF k < i THEN seq[k] ELSE seq[k + 1]
<1> DEFINE a == SubSeq(seq, 1, i - 1)
           b == SubSeq(seq, i + 1, Len(seq))
<1>1. a \in Seq(S) /\ Len(a) = i - 1 /\ \A k \in 1 .. i - 1 : a[k] = seq[k]
  OBVIOUS
<1>2. b \in Seq(S) /\ Len(b) = Len(seq) - i /\ \A k \in 1 .. Len(seq) - i : b[k] = seq[k + i]
  OBVIOUS
<1>3. RemoveAt(seq, i) = a \o b
  BY DEF RemoveAt
<1> HIDE DEF a, b
<1>4. /\ a \o b \in Seq(S) /\ Len(a \o b) = Len(a) + Len(b)
      /\ \A k \in 1 .. Len(a) + Len(b) :
           (a \o b)[k] = IF k <= Len(a) THEN a[k] ELSE b[k - Len(a)]
  BY <1>1, <1>2, ConcatProperties
<1>5. Len(a) = i - 1 /\ Len(b) = Len(seq) - i /\ Len(seq) \in Nat /\ i \in Nat
  BY <1>1, <1>2
<1>6. ASSUME NEW k \in 1 .. Len(seq) - 1
      PROVE  (a \o b)[k] = IF k < i THEN seq[k] ELSE seq[k + 1]
  <2>1. CASE k < i
    BY <1>1, <1>4, <1>5, <2>1
  <2>2. CASE ~ k < i
    <3>1. k - (i - 1) \in 1 .. Len(seq) - i /\ k \in 1 .. Len(a) + Len(b)
          /\ ~ k <= Len(a) /\ k - (i - 1) + i = k + 1
      BY <1>5, <2>2
    <3>2. (a \o b)[k] = b[k - (i - 1)]
      BY <1>4, <1>5, <3>1
    <3>3. QED BY <1>2, <2>2, <3>1, <3>2
  <2>3. QED BY <2>1, <2>2
<1>7. QED BY <1>3, <1>4, <1>5, <1>6

\* The index that is found is the only one.
LEMMA IndexFound ==
  ASSUME NEW rec, RecordOK(rec), NEW key, key \in KeysOf(rec)
  PROVE  /\ IndexOf(rec, key) \in 1 .. Len(rec) /\ rec[IndexOf(rec, key)].key = key
         /\ \A i \in 1 .. Len(rec) : rec[i].key = key => i = IndexOf(rec, key)
<1>1. DOMAIN rec = 1 .. Len(rec)
  BY DEF RecordOK
<1>2. \E i \in DOMAIN rec : rec[i].key = key
  BY DEF KeysOf
<1>3. IndexOf(rec, key) \in DOMAIN rec /\ rec[IndexOf(rec, key)].key = key
  BY <1>2 DEF IndexOf
<1>4. QED BY <1>1, <1>3 DEF RecordOK

\* What a distribution makes of one state.
LEMMA FollowState ==
  ASSUME NEW s, StateOK(s), NEW d \in Position
  PROVE  /\ StateOK(Follow(s, d)) /\ Follow(s, d).key = s.key
         /\ Follow(s, d).iteration >= s.iteration
         /\ Follow(s, d).stored = s.stored
         /\ s.lost \subseteq Follow(s, d).lost
         /\ s.iteration .. Follow(s, d).iteration - 1 \subseteq Follow(s, d).lost
<1> DEFINE t == [s EXCEPT !.iteration = d.iteration,
                          !.lost = @ \cup s.iteration .. d.iteration - 1]
<1>1. s.iteration \in Nat /\ d.iteration \in Nat /\ s \in State
  BY DEF StateOK, State, Position
<1>2. CASE d.iteration > s.iteration
  <2>1. Follow(s, d) = t
    BY <1>2 DEF Follow
  <2>2. t \in State
    <3>1. s.lost \subseteq Nat
      BY <1>1 DEF State
    <3>2. s.iteration .. d.iteration - 1 \subseteq Nat
      BY <1>1
    <3>3. PICK lost : lost = s.lost \cup s.iteration .. d.iteration - 1
      OBVIOUS
    <3>4. lost \in SUBSET Nat
      BY <3>1, <3>2, <3>3
    <3>5. [s EXCEPT !.iteration = d.iteration, !.lost = lost] \in State
      BY <1>1, <3>4 DEF State
    <3>6. QED BY <3>3, <3>5
  <2>3. /\ t.key = s.key /\ t.iteration = d.iteration /\ t.stored = s.stored
        /\ t.lost = s.lost \cup s.iteration .. d.iteration - 1
    BY <1>1 DEF State
  <2> HIDE DEF t
  <2>4. StateOK(t)
    BY <1>1, <1>2, <2>2, <2>3 DEF StateOK, State
  <2>5. QED BY <1>1, <1>2, <2>1, <2>3, <2>4
<1>3. CASE ~ d.iteration > s.iteration
  BY <1>1, <1>3 DEF Follow
<1>4. QED BY <1>2, <1>3

LEMMA NewStateOK ==
  ASSUME NEW d \in Position
  PROVE  /\ StateOK(NewState(d)) /\ NewState(d).key = d.key
         /\ NewState(d).iteration = d.iteration
         /\ \A n \in Nat : n < d.iteration => n \in NewState(d).lost
<1>1. d.key \in Nat /\ d.iteration \in Nat
  BY DEF Position
<1>2. NewState(d) \in State
  BY <1>1 DEF NewState, State
<1>3. NewState(d).stored = <<>> /\ NewState(d).lost = 0 .. d.iteration - 1
  BY DEF NewState
<1>4. StateOK(NewState(d))
  BY <1>2, <1>3 DEF StateOK
<1>5. QED BY <1>1, <1>3, <1>4 DEF NewState

\* A distribution keeps states of other keys, moves on the state of its key, or makes it.
LEMMA ApplyShape ==
  ASSUME NEW rec, RecordOK(rec), NEW d \in Position
  PROVE  LET new == ApplyDistribution(rec, d) IN
         /\ RecordOK(new)
         /\ \A k \in 1 .. Len(new) :
              \/ \E j \in 1 .. Len(rec) : new[k] = rec[j]
              \/ \E j \in 1 .. Len(rec) : rec[j].key = d.key /\ new[k] = Follow(rec[j], d)
              \/ d.key \notin KeysOf(rec) /\ new[k] = NewState(d)
<1> DEFINE known == d.key \in KeysOf(rec)
           i == IndexOf(rec, d.key)
           first == IF known THEN Follow(rec[i], d) ELSE NewState(d)
           others == IF known THEN RemoveAt(rec, i) ELSE rec
           all == <<first>> \o others
           new == ApplyDistribution(rec, d)
<1>1. new = IF Len(all) > MaxStates THEN SubSeq(all, 1, MaxStates) ELSE all
  BY DEF ApplyDistribution, StateOf
<1>2. known => /\ i \in 1 .. Len(rec) /\ rec[i].key = d.key
               /\ \A j \in 1 .. Len(rec) : rec[j].key = d.key => j = i
  BY IndexFound
<1>3. rec \in Seq(State) /\ (\A j \in 1 .. Len(rec) : StateOK(rec[j]))
      /\ DOMAIN rec = 1 .. Len(rec)
  BY DEF RecordOK
<1>4. StateOK(first) /\ first.key = d.key
  BY <1>2, <1>3, FollowState, NewStateOK
<1>5. /\ others \in Seq(State)
      /\ \A k \in 1 .. Len(others) : \E j \in 1 .. Len(rec) :
           others[k] = rec[j] /\ rec[j].key # d.key
      /\ \A k, l \in 1 .. Len(others) : others[k].key = others[l].key => k = l
  <2>1. CASE known
    <3>1. /\ others \in Seq(State) /\ Len(others) = Len(rec) - 1
          /\ \A k \in 1 .. Len(rec) - 1 : others[k] = IF k < i THEN rec[k] ELSE rec[k + 1]
      BY <1>2, <1>3, <2>1, RemoveAtFacts
    <3> HIDE DEF others
    <3>2. ASSUME NEW k \in 1 .. Len(others)
          PROVE  \E j \in 1 .. Len(rec) : others[k] = rec[j] /\ j # i
                                          /\ j = IF k < i THEN k ELSE k + 1
      BY <1>2, <1>3, <2>1, <3>1
    <3>3. ASSUME NEW k \in 1 .. Len(others), NEW l \in 1 .. Len(others),
                 others[k].key = others[l].key
          PROVE  k = l
      <4>1. PICK j \in 1 .. Len(rec) : others[k] = rec[j] /\ j = IF k < i THEN k ELSE k + 1
        BY <3>2
      <4>2. PICK h \in 1 .. Len(rec) : others[l] = rec[h] /\ h = IF l < i THEN l ELSE l + 1
        BY <3>2
      <4>3. j = h
        BY <3>3, <4>1, <4>2 DEF RecordOK
      <4>4. QED BY <1>2, <2>1, <4>1, <4>2, <4>3
    <3>4. QED BY <1>2, <2>1, <3>1, <3>2, <3>3
  <2>2. CASE ~known
    <3>1. \A j \in 1 .. Len(rec) : rec[j].key # d.key
      BY <1>3, <2>2 DEF KeysOf
    <3>2. QED BY <1>3, <2>2, <3>1 DEF RecordOK
  <2>3. QED BY <2>1, <2>2
<1>6. first \in State
  BY <1>4 DEF StateOK
<1> HIDE DEF known, i, first, others
<1>7. /\ all \in Seq(State) /\ Len(all) = 1 + Len(others) /\ Len(others) \in Nat
      /\ all[1] = first /\ \A k \in 1 .. Len(others) : all[k + 1] = others[k]
  <2>1. <<first>> \in Seq(State) /\ Len(<<first>>) = 1 /\ <<first>>[1] = first
    BY <1>6
  <2>2. /\ all \in Seq(State) /\ Len(all) = 1 + Len(others)
        /\ \A k \in 1 .. 1 + Len(others) :
             all[k] = IF k <= 1 THEN <<first>>[k] ELSE others[k - 1]
    BY <1>5, <2>1, ConcatProperties
  <2>3. Len(others) \in Nat
    BY <1>5
  <2> HIDE DEF all
  <2>4. all[1] = first
    BY <2>1, <2>2, <2>3
  <2>5. ASSUME NEW k \in 1 .. Len(others) PROVE all[k + 1] = others[k]
    <3>1. k + 1 \in 1 .. 1 + Len(others) /\ ~ k + 1 <= 1 /\ (k + 1) - 1 = k
      BY <2>3
    <3>2. QED BY <2>2, <3>1
  <2>6. QED BY <2>2, <2>3, <2>4, <2>5
<1> HIDE DEF all
<1>8. /\ new \in Seq(State) /\ Len(new) <= Len(all) /\ Len(new) \in Nat
      /\ \A k \in 1 .. Len(new) : new[k] = all[k]
  <2>1. CASE Len(all) > MaxStates
    BY <1>1, <1>7, <2>1, RecordAssumption
  <2>2. CASE ~ Len(all) > MaxStates
    BY <1>1, <1>7, <2>2
  <2>3. QED BY <2>1, <2>2
<1> HIDE DEF new
<1>9. ASSUME NEW k \in 1 .. Len(new)
      PROVE  \/ k = 1 /\ new[k] = first
             \/ \E l \in 1 .. Len(others) : k = l + 1 /\ new[k] = others[l]
  <2>1. CASE k = 1
    BY <1>7, <1>8, <2>1
  <2>2. CASE k # 1
    <3>1. k - 1 \in 1 .. Len(others) /\ k = (k - 1) + 1
      BY <1>7, <1>8, <2>2
    <3>2. QED BY <1>7, <1>8, <3>1
  <2>3. QED BY <2>1, <2>2
<1>10. \A k \in 1 .. Len(others) : StateOK(others[k]) /\ others[k].key # d.key
  BY <1>3, <1>5
<1>11. ASSUME NEW k \in 1 .. Len(new), NEW l \in 1 .. Len(new), new[k].key = new[l].key
       PROVE  k = l
  <2>1. CASE k = 1
    <3>1. new[k] = first
      BY <1>7, <1>8, <2>1
    <3>2. ASSUME NEW j \in 1 .. Len(others), new[l] = others[j] PROVE FALSE
      BY <1>4, <1>10, <1>11, <3>1, <3>2
    <3>3. QED BY <1>9, <2>1, <3>2
  <2>2. CASE l = 1
    <3>1. new[l] = first
      BY <1>7, <1>8, <2>2
    <3>2. ASSUME NEW j \in 1 .. Len(others), new[k] = others[j] PROVE FALSE
      BY <1>4, <1>10, <1>11, <3>1, <3>2
    <3>3. QED BY <1>9, <2>2, <3>2
  <2>3. CASE k # 1 /\ l # 1
    <3>1. PICK j \in 1 .. Len(others) : k = j + 1 /\ new[k] = others[j]
      BY <1>9, <2>3
    <3>2. PICK h \in 1 .. Len(others) : l = h + 1 /\ new[l] = others[h]
      BY <1>9, <2>3
    <3>3. QED BY <1>5, <1>11, <3>1, <3>2
  <2>4. QED BY <2>1, <2>2, <2>3
<1>12. RecordOK(new)
  <2>1. \A k \in 1 .. Len(new) : StateOK(new[k])
    BY <1>4, <1>9, <1>10
  <2>2. QED BY <1>8, <1>11, <2>1 DEF RecordOK
<1>13. ASSUME NEW k \in 1 .. Len(new)
       PROVE  \/ \E j \in 1 .. Len(rec) : new[k] = rec[j]
              \/ \E j \in 1 .. Len(rec) : rec[j].key = d.key /\ new[k] = Follow(rec[j], d)
              \/ d.key \notin KeysOf(rec) /\ new[k] = NewState(d)
  <2>1. CASE new[k] = first
    BY <1>2, <2>1 DEF first, known
  <2>2. ASSUME NEW l \in 1 .. Len(others), new[k] = others[l]
        PROVE  \E j \in 1 .. Len(rec) : new[k] = rec[j]
    BY <1>5, <2>2
  <2>3. QED BY <1>9, <2>1, <2>2
<1>14. QED BY <1>12, <1>13 DEF new

\* The chain moves past n: what it passes is stored or lost.
LEMMA Advanced ==
  ASSUME NEW s, StateOK(s), NEW n \in Nat, n >= s.iteration
  PROVE  LET t == AdvanceTo(s, n) IN
         /\ StateOK(t) /\ t.key = s.key /\ t.iteration = n + 1
         /\ \A k \in Nat : Holds(t, k) => Holds(s, k) \/ (s.iteration <= k /\ k < n)
         /\ s.lost \subseteq t.lost
         /\ \A k \in Nat : Holds(s, k) \/ (s.iteration <= k /\ k < n)
              => Holds(t, k) \/ k \in t.lost
<1> DEFINE gap == [i \in 1 .. n - s.iteration |-> s.iteration + i - 1]
           all == s.stored \o gap
           excess == IF Len(all) > MaxStored THEN Len(all) - MaxStored ELSE 0
           kept == SubSeq(all, excess + 1, Len(all))
           passed == {all[i] : i \in 1 .. excess}
           t == AdvanceTo(s, n)
<1>1. /\ s \in State /\ s.key \in Nat /\ s.iteration \in Nat /\ s.stored \in Seq(Nat)
      /\ s.lost \subseteq Nat
  BY DEF StateOK, State
<1>2. PICK len \in Nat : len = Len(s.stored)
  BY <1>1
<1>3. PICK more \in Nat : more = n - s.iteration
  BY <1>1
<1>4. gap \in Seq(Nat) /\ Len(gap) = more /\ \A i \in 1 .. more : gap[i] = s.iteration + i - 1
  <2>1. \A i \in 1 .. more : s.iteration + i - 1 \in Nat
    BY <1>1
  <2>2. gap = [i \in 1 .. more |-> s.iteration + i - 1]
    BY <1>3
  <2>3. PICK g : g = gap
    OBVIOUS
  <2>4. g \in [1 .. more -> Nat] /\ \A i \in 1 .. more : g[i] = s.iteration + i - 1
    BY <2>1, <2>2, <2>3
  <2>5. g \in Seq(Nat) /\ Len(g) = more
    BY <2>4
  <2>6. QED BY <2>3, <2>4, <2>5
<1>5. t = [s EXCEPT !.iteration = n + 1, !.stored = kept, !.lost = @ \cup passed]
  BY DEF AdvanceTo
<1> HIDE DEF gap, t
<1>6. /\ all \in Seq(Nat) /\ Len(all) = len + more
      /\ \A i \in 1 .. len + more : all[i] = IF i <= len THEN s.stored[i] ELSE gap[i - len]
  BY <1>1, <1>2, <1>4, ConcatProperties
<1> HIDE DEF all
<1>7. ASSUME NEW i \in 1 .. len + more
      PROVE  /\ all[i] \in Nat
             /\ i <= len => all[i] = s.stored[i] /\ all[i] < s.iteration
             /\ i > len => all[i] = s.iteration + (i - len) - 1 /\ s.iteration <= all[i]
             /\ all[i] < n + 1 /\ (i > len => all[i] < n)
  <2>1. CASE i <= len
    <3>1. all[i] = s.stored[i] /\ i \in 1 .. Len(s.stored)
      BY <1>2, <1>6, <2>1
    <3>2. s.stored[i] \in Nat /\ s.stored[i] < s.iteration
      BY <1>1, <3>1 DEF StateOK
    <3>3. PICK v : v = all[i]
      OBVIOUS
    <3>4. v \in Nat /\ v < s.iteration /\ v < n + 1 /\ v = s.stored[i] /\ ~ i > len
      BY <1>1, <2>1, <3>1, <3>2, <3>3
    <3>5. QED BY <3>3, <3>4
  <2>2. CASE i > len
    <3>1. i - len \in 1 .. more /\ ~ i <= len
      BY <2>2
    <3>2. all[i] = s.iteration + (i - len) - 1
      BY <1>4, <1>6, <3>1
    <3>3. s.iteration <= all[i] /\ all[i] < n /\ all[i] \in Nat
      <4>1. PICK it \in Nat, off \in 1 .. more : it = s.iteration /\ off = i - len
        BY <1>1, <3>1
      <4>2. all[i] = it + off - 1 /\ more = n - it
        BY <1>3, <3>2, <4>1
      <4>3. it <= it + off - 1 /\ it + off - 1 < n /\ it + off - 1 \in Nat
        BY <4>2
      <4>4. QED BY <4>1, <4>2, <4>3
    <3>4. QED BY <1>1, <2>2, <3>1, <3>2, <3>3
  <2>3. QED BY <2>1, <2>2
<1>8. ASSUME NEW i \in 1 .. len + more, NEW j \in 1 .. len + more, all[i] = all[j] PROVE i = j
  <2>1. CASE i <= len /\ j <= len
    <3>1. s.stored[i] = s.stored[j] /\ i \in 1 .. Len(s.stored) /\ j \in 1 .. Len(s.stored)
      BY <1>2, <1>7, <1>8, <2>1
    <3>2. QED BY <3>1 DEF StateOK
  <2>2. CASE i > len /\ j > len
    BY <1>1, <1>7, <1>8, <2>2
  <2>3. CASE (i <= len /\ j > len) \/ (i > len /\ j <= len)
    BY <1>1, <1>7, <1>8, <2>3
  <2>4. QED BY <2>1, <2>2, <2>3
<1>9. PICK e \in Nat : e = excess /\ e <= len + more
  <2>1. MaxStored \in Nat
    BY RecordAssumption
  <2>2. Len(all) = len + more
    BY <1>6
  <2>3. excess \in Nat /\ excess <= len + more
    BY <2>1, <2>2
  <2>4. QED BY <2>3
<1>10. kept \in Seq(Nat) /\ Len(kept) = len + more - e
       /\ \A i \in 1 .. len + more - e : kept[i] = all[e + i]
  <2>1. e + 1 \in Int /\ len + more \in Int /\ \A i \in e + 1 .. len + more : all[i] \in Nat
    BY <1>7, <1>9
  <2>2. kept = SubSeq(all, e + 1, len + more)
    BY <1>6, <1>9
  <2> HIDE DEF kept
  <2>3. /\ kept \in Seq(Nat)
        /\ Len(kept) = IF e + 1 <= len + more THEN len + more - (e + 1) + 1 ELSE 0
        /\ \A i \in 1 .. len + more - (e + 1) + 1 : kept[i] = all[e + 1 + i - 1]
    BY <2>1, <2>2, SubSeqProperties
  <2>4. \A i \in 1 .. len + more - e : kept[i] = all[e + i]
    <3> SUFFICES ASSUME NEW i \in 1 .. len + more - e PROVE kept[i] = all[e + i]
      OBVIOUS
    <3>1. i \in 1 .. len + more - (e + 1) + 1 /\ e + 1 + i - 1 = e + i
      BY <1>9
    <3>2. QED BY <2>3, <3>1
  <2>5. (IF e + 1 <= len + more THEN len + more - (e + 1) + 1 ELSE 0) = len + more - e
    BY <1>9
  <2>6. QED BY <2>3, <2>4, <2>5
<1> HIDE DEF kept
<1>11. passed \subseteq Nat /\ passed = {all[i] : i \in 1 .. e}
  BY <1>7, <1>9
<1> HIDE DEF passed, excess
<1>12. /\ t \in State /\ t.key = s.key /\ t.iteration = n + 1 /\ t.stored = kept
       /\ t.lost = s.lost \cup passed
  <2>1. PICK lost : lost = s.lost \cup passed
    OBVIOUS
  <2>2. lost \in SUBSET Nat
    BY <1>1, <1>11, <2>1
  <2>3. t = [s EXCEPT !.iteration = n + 1, !.stored = kept, !.lost = lost]
    BY <1>5, <2>1
  <2>4. t = [key |-> s.key, iteration |-> n + 1, stored |-> kept, lost |-> lost]
    BY <1>1, <2>3 DEF State
  <2>5. QED BY <1>1, <1>10, <2>1, <2>2, <2>4 DEF State
<1>13. StateOK(t)
  <2>1. ASSUME NEW i \in 1 .. Len(t.stored) PROVE t.stored[i] < t.iteration
    BY <1>7, <1>10, <1>12
  <2>2. ASSUME NEW i \in 1 .. Len(t.stored), NEW j \in 1 .. Len(t.stored),
               t.stored[i] = t.stored[j]
        PROVE  i = j
    <3>1. e + i \in 1 .. len + more /\ e + j \in 1 .. len + more /\ all[e + i] = all[e + j]
      BY <1>10, <1>12, <2>2
    <3>2. e + i = e + j
      BY <1>8, <3>1
    <3>3. QED BY <1>10, <1>12, <3>2
  <2>3. QED BY <1>12, <2>1, <2>2 DEF StateOK
<1>14. ASSUME NEW k \in Nat, Holds(t, k)
       PROVE  Holds(s, k) \/ (s.iteration <= k /\ k < n)
  <2>1. PICK i \in 1 .. len + more - e : kept[i] = k
    BY <1>10, <1>12, <1>14 DEF Holds
  <2>2. e + i \in 1 .. len + more /\ all[e + i] = k
    BY <1>10, <2>1
  <2>3. CASE e + i <= len
    BY <1>2, <1>7, <2>2, <2>3 DEF Holds
  <2>4. CASE e + i > len
    BY <1>7, <2>2, <2>4
  <2>5. QED BY <2>3, <2>4
<1>15. ASSUME NEW k \in Nat, Holds(s, k) \/ (s.iteration <= k /\ k < n)
       PROVE  Holds(t, k) \/ k \in t.lost
  <2>1. PICK i \in 1 .. len + more : all[i] = k
    <3>1. CASE Holds(s, k)
      <4>1. PICK i \in 1 .. Len(s.stored) : s.stored[i] = k
        BY <3>1 DEF Holds
      <4>2. i \in 1 .. len + more /\ i <= len
        BY <1>2
      <4>3. QED BY <1>7, <4>1, <4>2
    <3>2. CASE s.iteration <= k /\ k < n
      <4>1. PICK i \in Int : i = len + (k - s.iteration + 1)
        BY <1>1
      <4>2. PICK start \in Nat : start = s.iteration
        BY <1>1
      <4>3. more = n - start /\ i = len + (k - start + 1) /\ start <= k /\ k < n
        BY <1>3, <3>2, <4>1, <4>2
      <4>4. i >= 1 /\ i <= len + more /\ i > len /\ start + (i - len) - 1 = k
        BY <4>3
      <4>5. i \in 1 .. len + more
        BY <4>4
      <4>6. all[i] = k
        BY <1>7, <4>2, <4>4, <4>5
      <4>7. QED BY <4>5, <4>6
    <3>3. QED BY <1>15, <3>1, <3>2
  <2>2. CASE i <= e
    BY <1>11, <1>12, <2>1, <2>2
  <2>3. CASE i > e
    <3>1. i - e \in 1 .. len + more - e /\ e + (i - e) = i
      BY <2>3
    <3>2. kept[i - e] = k
      BY <1>10, <2>1, <3>1
    <3>3. QED BY <1>10, <1>12, <3>1, <3>2 DEF Holds
  <2>4. QED BY <2>2, <2>3
<1>16. QED BY <1>12, <1>13, <1>14, <1>15 DEF t

\* The message key of n is taken once: it was ahead or stored, and then neither.
LEMMA KeyTaken ==
  ASSUME NEW s, StateOK(s), NEW n \in Nat
  PROVE  LET t == TakeMessageKey(s, n) IN
         /\ t # None =>
              /\ StateOK(t) /\ t.key = s.key
              /\ ~Past(s, n) /\ Past(t, n)
              /\ \A k \in Nat : Past(s, k) => Past(t, k)
              /\ s.lost \subseteq t.lost
              /\ \A k \in Nat : Holds(s, k) \/ (s.iteration <= k /\ k < t.iteration)
                   => Holds(t, k) \/ k \in t.lost \/ k = n
         /\ Holds(s, n) \/ (s.iteration <= n /\ n - s.iteration <= MaxJump) => t # None
<1> DEFINE t == TakeMessageKey(s, n)
<1>1. /\ s \in State /\ s.iteration \in Nat /\ s.stored \in Seq(Nat) /\ Len(s.stored) \in Nat
      /\ Contains(s.stored, n) <=> Holds(s, n)
  BY DEF StateOK, State, Contains, Holds
<1>2. Holds(s, n) => n < s.iteration
  BY <1>1 DEF StateOK, Holds
<1>3. None \notin State
  BY RecordAssumption
<1>4. CASE Holds(s, n)
  <2> DEFINE i == CHOOSE j \in 1 .. Len(s.stored) : s.stored[j] = n
             rest == RemoveAt(s.stored, i)
             u == [s EXCEPT !.stored = rest]
  <2>1. t = u
    BY <1>1, <1>2, <1>4 DEF TakeMessageKey
  <2>2. i \in 1 .. Len(s.stored) /\ s.stored[i] = n
    BY <1>4 DEF Holds
  <2> HIDE DEF i, t
  <2>3. PICK len \in Nat : len = Len(s.stored)
    BY <1>1
  <2>4. /\ rest \in Seq(Nat) /\ Len(rest) = len - 1
        /\ \A k \in 1 .. len - 1 : rest[k] = IF k < i THEN s.stored[k] ELSE s.stored[k + 1]
    BY <1>1, <2>2, <2>3, RemoveAtFacts
  <2> HIDE DEF rest
  <2>5. u \in State /\ u.key = s.key /\ u.iteration = s.iteration /\ u.stored = rest
        /\ u.lost = s.lost
    BY <1>1, <2>4 DEF State
  <2> HIDE DEF u
  <2>6. ASSUME NEW k \in 1 .. len - 1
        PROVE  \E j \in 1 .. len : j # i /\ j = (IF k < i THEN k ELSE k + 1) /\ rest[k] = s.stored[j]
    BY <2>2, <2>3, <2>4
  <2>7. StateOK(u)
    <3>1. ASSUME NEW k \in 1 .. Len(u.stored) PROVE u.stored[k] < u.iteration
      BY <2>3, <2>4, <2>5, <2>6 DEF StateOK
    <3>2. ASSUME NEW k \in 1 .. Len(u.stored), NEW l \in 1 .. Len(u.stored),
                 u.stored[k] = u.stored[l]
          PROVE  k = l
      <4>1. PICK j \in 1 .. len : j = (IF k < i THEN k ELSE k + 1) /\ rest[k] = s.stored[j]
        BY <2>4, <2>5, <2>6
      <4>2. PICK h \in 1 .. len : h = (IF l < i THEN l ELSE l + 1) /\ rest[l] = s.stored[h]
        BY <2>4, <2>5, <2>6
      <4>3. j = h
        BY <2>3, <2>5, <3>2, <4>1, <4>2 DEF StateOK
      <4>4. k \in Nat /\ l \in Nat /\ i \in Nat
        BY <2>2, <2>4, <2>5
      <4>5. QED BY <4>1, <4>2, <4>3, <4>4
    <3>3. QED BY <2>5, <3>1, <3>2 DEF StateOK
  <2>8. ASSUME NEW k \in Nat, Holds(u, k) PROVE Holds(s, k) /\ k # n
    <3>1. PICK l \in 1 .. len - 1 : rest[l] = k
      BY <2>4, <2>5, <2>8 DEF Holds
    <3>2. PICK j \in 1 .. len : j # i /\ rest[l] = s.stored[j]
      BY <2>6
    <3>3. QED BY <2>2, <2>3, <3>1, <3>2 DEF Holds, StateOK
  <2>9. ASSUME NEW k \in Nat, Holds(s, k), k # n PROVE Holds(u, k)
    <3>1. PICK j \in 1 .. len : s.stored[j] = k
      BY <2>3, <2>9 DEF Holds
    <3>2. j # i /\ i \in 1 .. len
      BY <2>2, <2>3, <2>9, <3>1
    <3>3. CASE j < i
      <4>1. j \in 1 .. len - 1 /\ rest[j] = k
        BY <2>4, <3>1, <3>2, <3>3
      <4>2. QED BY <2>4, <2>5, <4>1 DEF Holds
    <3>4. CASE j > i
      <4>1. j - 1 \in 1 .. len - 1 /\ ~ j - 1 < i /\ (j - 1) + 1 = j
        BY <3>2, <3>4
      <4>2. rest[j - 1] = k
        BY <2>4, <3>1, <4>1
      <4>3. QED BY <2>4, <2>5, <4>1, <4>2 DEF Holds
    <3>5. QED BY <3>2, <3>3, <3>4
  <2>10. t # None /\ ~Past(s, n) /\ Past(u, n) /\ \A k \in Nat : Past(s, k) => Past(u, k)
    BY <1>2, <1>3, <1>4, <2>1, <2>5, <2>8 DEF Past
  <2>11. \A k \in Nat : ~ (s.iteration <= k /\ k < u.iteration)
    BY <1>1, <2>5
  <2>12. QED BY <2>1, <2>5, <2>7, <2>9, <2>10, <2>11 DEF t
<1>5. CASE ~Holds(s, n) /\ n < s.iteration
  BY <1>1, <1>5 DEF TakeMessageKey
<1>6. CASE n >= s.iteration /\ n - s.iteration > MaxJump
  <2>1. t = None
    BY <1>1, <1>6 DEF TakeMessageKey
  <2>2. ~ n - s.iteration <= MaxJump /\ ~Holds(s, n)
    BY <1>1, <1>2, <1>6, RecordAssumption
  <2>3. QED BY <2>1, <2>2
<1>7. CASE n >= s.iteration /\ ~ n - s.iteration > MaxJump
  <2> DEFINE u == AdvanceTo(s, n)
  <2>1. t = u
    BY <1>1, <1>7 DEF TakeMessageKey
  <2>2. /\ StateOK(u) /\ u.key = s.key /\ u.iteration = n + 1
        /\ \A k \in Nat : Holds(u, k) => Holds(s, k) \/ (s.iteration <= k /\ k < n)
        /\ s.lost \subseteq u.lost
        /\ \A k \in Nat : Holds(s, k) \/ (s.iteration <= k /\ k < n)
             => Holds(u, k) \/ k \in u.lost
    BY <1>7, Advanced
  <2> HIDE DEF u, t
  <2>3. t # None
    BY <1>3, <2>1, <2>2 DEF StateOK
  <2>4. ~Past(s, n) /\ Past(u, n)
    BY <1>1, <1>2, <1>7, <2>2 DEF Past
  <2>5. \A k \in Nat : Past(s, k) => Past(u, k)
    BY <1>1, <1>7, <2>2 DEF Past
  <2>6. \A k \in Nat : Holds(s, k) \/ (s.iteration <= k /\ k < u.iteration)
          => Holds(u, k) \/ k \in u.lost \/ k = n
    <3>1. \A k \in Nat : k < n + 1 => k < n \/ k = n
      OBVIOUS
    <3>2. QED BY <2>2, <3>1
  <2>7. QED BY <2>1, <2>2, <2>3, <2>4, <2>5, <2>6 DEF t
<1>8. QED BY <1>1, <1>4, <1>5, <1>6, <1>7

\* A distribution keeps what is known of a record; a state may give way.
LEMMA ApplyKeeps ==
  ASSUME NEW rec, RecordOK(rec), NEW d \in Position, NEW acc \in SUBSET Message, NEW gone,
         AcceptedPast(rec, acc, gone), Accounted(rec, acc)
  PROVE  LET new == ApplyDistribution(rec, d) IN
         /\ RecordOK(new) /\ Accounted(new, acc)
         /\ AcceptedPast(new, acc, gone \cup (KeysOf(rec) \ KeysOf(new)))
<1> DEFINE new == ApplyDistribution(rec, d)
<1>1. /\ RecordOK(new)
      /\ \A k \in 1 .. Len(new) :
           \/ \E j \in 1 .. Len(rec) : new[k] = rec[j]
           \/ \E j \in 1 .. Len(rec) : rec[j].key = d.key /\ new[k] = Follow(rec[j], d)
           \/ d.key \notin KeysOf(rec) /\ new[k] = NewState(d)
  BY ApplyShape
<1> HIDE DEF new
<1>2. \A j \in 1 .. Len(rec) : StateOK(rec[j])
  BY DEF RecordOK
<1>3. DOMAIN rec = 1 .. Len(rec) /\ DOMAIN new = 1 .. Len(new)
  BY <1>1 DEF RecordOK
<1>f. ASSUME NEW k \in 1 .. Len(new), NEW j \in 1 .. Len(rec), new[k] = Follow(rec[j], d)
      PROVE  /\ new[k].key = rec[j].key /\ new[k].stored = rec[j].stored
             /\ new[k].iteration >= rec[j].iteration
             /\ rec[j].lost \subseteq new[k].lost
             /\ rec[j].iteration .. new[k].iteration - 1 \subseteq new[k].lost
             /\ rec[j].iteration \in Nat /\ new[k].iteration \in Nat
  <2>1. StateOK(rec[j]) /\ StateOK(new[k])
    BY <1>1, <1>2 DEF RecordOK
  <2>2. rec[j].iteration \in Nat /\ new[k].iteration \in Nat
    BY <2>1 DEF StateOK, State
  <2>3. QED BY <1>f, <2>1, <2>2, FollowState
<1>4. ASSUME NEW k \in 1 .. Len(new), NEW n \in Nat, n < new[k].iteration
      PROVE  \/ n \in new[k].lost \/ Holds(new[k], n)
             \/ \E m \in acc : m.key = new[k].key /\ m.iteration = n
  <2>1. ASSUME NEW j \in 1 .. Len(rec), new[k] = rec[j]
        PROVE  \/ n \in new[k].lost \/ Holds(new[k], n)
               \/ \E m \in acc : m.key = new[k].key /\ m.iteration = n
    BY <1>4, <2>1 DEF Accounted
  <2>2. ASSUME NEW j \in 1 .. Len(rec), new[k] = Follow(rec[j], d)
        PROVE  \/ n \in new[k].lost \/ Holds(new[k], n)
               \/ \E m \in acc : m.key = new[k].key /\ m.iteration = n
    <3>1. /\ new[k].key = rec[j].key /\ new[k].stored = rec[j].stored
          /\ rec[j].lost \subseteq new[k].lost
          /\ rec[j].iteration .. new[k].iteration - 1 \subseteq new[k].lost
          /\ rec[j].iteration \in Nat /\ new[k].iteration \in Nat
      BY <1>f, <2>2
    <3>2. CASE n < rec[j].iteration
      <4>1. \/ n \in rec[j].lost \/ Holds(rec[j], n)
            \/ \E m \in acc : m.key = rec[j].key /\ m.iteration = n
        BY <3>2 DEF Accounted
      <4>2. Holds(rec[j], n) => Holds(new[k], n)
        BY <3>1 DEF Holds
      <4>3. QED BY <3>1, <4>1, <4>2
    <3>3. CASE ~ n < rec[j].iteration
      <4>1. n \in rec[j].iteration .. new[k].iteration - 1
        BY <1>4, <3>1, <3>3
      <4>2. QED BY <3>1, <4>1
    <3>4. QED BY <3>2, <3>3
  <2>3. CASE new[k] = NewState(d)
    BY <1>4, <2>3, NewStateOK
  <2>4. QED BY <1>1, <2>1, <2>2, <2>3
<1>5. ASSUME NEW m \in acc, m.key \notin gone, m.key \in KeysOf(new)
      PROVE  \E k \in 1 .. Len(new) : new[k].key = m.key /\ Past(new[k], m.iteration)
  <2>1. PICK i \in 1 .. Len(rec) : rec[i].key = m.key /\ Past(rec[i], m.iteration)
    BY <1>5 DEF AcceptedPast
  <2>2. PICK k \in 1 .. Len(new) : new[k].key = m.key
    BY <1>3, <1>5 DEF KeysOf
  <2>3. m.iteration \in Nat
    BY DEF Message
  <2>4. ASSUME NEW j \in 1 .. Len(rec), new[k] = rec[j] PROVE Past(new[k], m.iteration)
    <3>1. j = i
      BY <2>1, <2>2, <2>4 DEF RecordOK
    <3>2. QED BY <2>1, <2>4, <3>1
  <2>5. ASSUME NEW j \in 1 .. Len(rec), new[k] = Follow(rec[j], d)
        PROVE  Past(new[k], m.iteration)
    <3>1. /\ new[k].key = rec[j].key /\ new[k].stored = rec[j].stored
          /\ new[k].iteration >= rec[j].iteration
          /\ rec[j].iteration \in Nat /\ new[k].iteration \in Nat
      BY <1>f, <2>5
    <3>2. j = i
      BY <2>1, <2>2, <3>1 DEF RecordOK
    <3>3. QED BY <2>1, <2>3, <3>1, <3>2 DEF Past, Holds
  <2>6. ASSUME d.key \notin KeysOf(rec), new[k] = NewState(d) PROVE FALSE
    <3>1. rec[i].key = d.key
      BY <2>1, <2>2, <2>6, NewStateOK
    <3>2. QED BY <1>3, <2>6, <3>1 DEF KeysOf
  <2>7. QED BY <1>1, <2>2, <2>4, <2>5, <2>6
<1>6. ASSUME NEW m \in acc, m.key \notin gone
      PROVE  m.key \in KeysOf(rec)
  BY <1>3, <1>6 DEF AcceptedPast, KeysOf
<1>7. Accounted(new, acc)
  BY <1>4 DEF Accounted
<1>8. AcceptedPast(new, acc, gone \cup (KeysOf(rec) \ KeysOf(new)))
  BY <1>5, <1>6 DEF AcceptedPast
<1>9. QED BY <1>1, <1>7, <1>8 DEF new

\* A message that is decrypted was not accepted before, unless its key gave way.
LEMMA DecryptKeeps ==
  ASSUME NEW rec, RecordOK(rec), NEW m \in Message, NEW acc \in SUBSET Message, NEW gone,
         AcceptedPast(rec, acc, gone), Accounted(rec, acc), DecryptGroup(rec, m) # None
  PROVE  LET new == DecryptGroup(rec, m) IN
         /\ RecordOK(new) /\ KeysOf(new) = KeysOf(rec)
         /\ Accounted(new, acc \cup {m})
         /\ AcceptedPast(new, acc \cup {m}, gone)
         /\ m \in acc => m.key \in gone
<1> DEFINE new == DecryptGroup(rec, m)
           i == IndexOf(rec, m.key)
           s == rec[i]
           t == TakeMessageKey(s, m.iteration)
<1>1. m.key \in KeysOf(rec) /\ t # None
  BY DEF DecryptGroup, StateOf
<1>2. new = [j \in DOMAIN rec |-> IF rec[j].key = m.key THEN t ELSE rec[j]]
  BY <1>1 DEF DecryptGroup, StateOf
<1>3. /\ i \in 1 .. Len(rec) /\ s.key = m.key
      /\ \A j \in 1 .. Len(rec) : rec[j].key = m.key => j = i
  BY <1>1, IndexFound
<1>4. StateOK(s) /\ m.iteration \in Nat
  BY <1>3 DEF RecordOK, Message
<1>5. /\ StateOK(t) /\ t.key = s.key
      /\ ~Past(s, m.iteration) /\ Past(t, m.iteration)
      /\ \A k \in Nat : Past(s, k) => Past(t, k)
      /\ s.lost \subseteq t.lost
      /\ \A k \in Nat : Holds(s, k) \/ (s.iteration <= k /\ k < t.iteration)
           => Holds(t, k) \/ k \in t.lost \/ k = m.iteration
  BY <1>1, <1>4, KeyTaken
<1> HIDE DEF t, i, new
<1>6. rec \in Seq(State) /\ DOMAIN rec = 1 .. Len(rec) /\ Len(rec) \in Nat
  BY DEF RecordOK
<1>7. t \in State /\ t.iteration \in Nat /\ s.iteration \in Nat
  BY <1>4, <1>5 DEF StateOK, State
<1>8. /\ new \in Seq(State) /\ Len(new) = Len(rec) /\ new[i] = t
      /\ \A j \in 1 .. Len(rec) : j # i => new[j] = rec[j]
  <2>1. \A j \in 1 .. Len(rec) : rec[j] \in State
    BY <1>6
  <2>2. new \in [1 .. Len(rec) -> State]
    BY <1>2, <1>6, <1>7, <2>1
  <2>3. new \in Seq(State) /\ Len(new) = Len(rec)
    BY <1>6, <2>2
  <2>4. QED BY <1>2, <1>3, <1>6, <2>3
<1>9. \A j \in 1 .. Len(rec) : new[j].key = rec[j].key
  BY <1>3, <1>5, <1>8
<1>10. RecordOK(new)
  <2>1. \A j \in 1 .. Len(rec) : StateOK(new[j])
    BY <1>5, <1>8 DEF RecordOK
  <2>2. \A j, k \in 1 .. Len(rec) : new[j].key = new[k].key => j = k
    BY <1>9 DEF RecordOK
  <2>3. QED BY <1>8, <2>1, <2>2 DEF RecordOK
<1>11. KeysOf(new) = KeysOf(rec)
  <2>1. DOMAIN new = DOMAIN rec
    BY <1>2
  <2>2. QED BY <1>6, <1>9, <2>1 DEF KeysOf
<1>12. ASSUME NEW j \in 1 .. Len(new), NEW n \in Nat, n < new[j].iteration
       PROVE  \/ n \in new[j].lost \/ Holds(new[j], n)
              \/ \E a \in acc \cup {m} : a.key = new[j].key /\ a.iteration = n
  <2>1. CASE j # i
    BY <1>8, <1>12, <2>1 DEF Accounted
  <2>2. CASE j = i /\ n < s.iteration
    <3>1. \/ n \in s.lost \/ Holds(s, n) \/ \E a \in acc : a.key = s.key /\ a.iteration = n
      BY <1>3, <2>2 DEF Accounted
    <3>2. QED BY <1>3, <1>5, <1>8, <2>2, <3>1
  <2>3. CASE j = i /\ ~ n < s.iteration
    <3>1. s.iteration <= n /\ n < t.iteration
      BY <1>7, <1>8, <1>12, <2>3
    <3>2. QED BY <1>3, <1>5, <1>8, <2>3, <3>1
  <2>4. QED BY <2>1, <2>2, <2>3
<1>13. AcceptedPast(new, acc \cup {m}, gone)
  <2>1. ASSUME NEW a \in acc, a.key \notin gone
        PROVE  \E j \in 1 .. Len(new) : new[j].key = a.key /\ Past(new[j], a.iteration)
    <3>1. PICK j \in 1 .. Len(rec) : rec[j].key = a.key /\ Past(rec[j], a.iteration)
      BY <2>1 DEF AcceptedPast
    <3>2. a.iteration \in Nat
      BY DEF Message
    <3>3. CASE j = i
      BY <1>5, <1>8, <1>9, <3>1, <3>2, <3>3
    <3>4. CASE j # i
      BY <1>8, <3>1, <3>4
    <3>5. QED BY <3>3, <3>4
  <2>2. new[i].key = m.key /\ Past(new[i], m.iteration) /\ i \in 1 .. Len(new)
    BY <1>3, <1>5, <1>8
  <2>3. QED BY <2>1, <2>2 DEF AcceptedPast
<1>14. ASSUME m \in acc, m.key \notin gone PROVE FALSE
  <2>1. PICK j \in 1 .. Len(rec) : rec[j].key = m.key /\ Past(rec[j], m.iteration)
    BY <1>14 DEF AcceptedPast
  <2>2. QED BY <1>3, <1>5, <2>1
<1>15. Accounted(new, acc \cup {m})
  BY <1>12 DEF Accounted
<1>16. QED BY <1>10, <1>11, <1>13, <1>14, <1>15 DEF new

MemberTypeOK ==
  /\ record \in [Members -> {None} \cup Seq(State)]
  /\ cached \in [Members -> {None} \cup Position]
  /\ evicted \in [Members -> SUBSET Nat]
  /\ accepted \in [Members -> SUBSET Message]
  /\ twice \in [Members -> SUBSET Message]

RecordsOK ==
  \A r \in Members : /\ RecordOK(Records(r))
                     /\ AcceptedPast(Records(r), accepted[r], evicted[r])
                     /\ Accounted(Records(r), accepted[r])

AcceptedSent == \A r \in Members : accepted[r] \subseteq GroupSent

MemberInv == MemberTypeOK /\ RecordsOK /\ AcceptedSent /\ GroupAtMostOnce

LEMMA PacketTypes ==
  ASSUME net \subseteq Packet, NEW p \in net
  PROVE  /\ p.type = "group" => p \in Message
         /\ p.type = "distribution" => [key |-> p.key, iteration |-> p.iteration] \in Position
  BY DEF Packet, Message, Position

\* What was sent stays sent.
LEMMA NetGrows ==
  ASSUME net \subseteq Packet, [Next]_vars
  PROVE  net \subseteq net'
<1>1. ASSUME NEW t \in Tasks, TaskStep(t) PROVE net \subseteq net'
  BY <1>1 DEF TaskStep, StartGroupSend, LoadDistribution, Distribute, CacheDistribution,
              EncryptGroup, SendGroup, Resend, SendAgain, CacheMessage, MarkRetrySuccess,
              TakeRetryReceipt
<1>2. ASSUME NEW r \in Members, MemberStep(r) PROVE net \subseteq net'
  BY <1>2, MemberAdds
<1>3. QED BY <1>1, <1>2 DEF Next, vars, DeleteSenderKey

LEMMA MembersKept ==
  ASSUME MemberInv, UNCHANGED memberVars, net \subseteq net'
  PROVE  MemberInv'
<1>1. MemberTypeOK' /\ RecordsOK' /\ GroupAtMostOnce'
  BY DEF MemberInv, memberVars, MemberTypeOK, RecordsOK, Records, GroupAtMostOnce
<1>2. AcceptedSent'
  BY DEF MemberInv, memberVars, AcceptedSent, GroupSent
<1>3. QED BY <1>1, <1>2 DEF MemberInv

LEMMA KeysAreNat ==
  ASSUME NEW rec, RecordOK(rec)
  PROVE  KeysOf(rec) \subseteq Nat
<1>1. DOMAIN rec = 1 .. Len(rec) /\ \A i \in 1 .. Len(rec) : rec[i] \in State
  BY DEF RecordOK, StateOK
<1>2. QED BY <1>1 DEF KeysOf, State

\* A member stores a record that knows what it accepted.
LEMMA MemberStores ==
  ASSUME MemberInv, net \subseteq net', NEW r \in Members, NEW rec, RecordOK(rec),
         Store(r, rec, KeysOf(Records(r))),
         NEW acc \in SUBSET Message, acc \subseteq GroupSent,
         NEW dup \in SUBSET Message, \A m \in dup : m.key \in evicted'[r],
         AcceptedPast(rec, accepted[r] \cup acc,
                      evicted[r] \cup (KeysOf(Records(r)) \ KeysOf(rec))),
         Accounted(rec, accepted[r] \cup acc),
         accepted' = [accepted EXCEPT ![r] = @ \cup acc],
         twice' = [twice EXCEPT ![r] = @ \cup dup],
         cached' \in [Members -> {None} \cup Position]
  PROVE  MemberInv'
<1> USE DEF MemberInv, MemberTypeOK
<1>1. rec \in Seq(State) /\ rec # None
  BY RecordAssumption DEF RecordOK
<1>2. /\ record' = [record EXCEPT ![r] = rec]
      /\ evicted' = [evicted EXCEPT ![r] = @ \cup (KeysOf(Records(r)) \ KeysOf(rec))]
  BY DEF Store
<1>3. KeysOf(Records(r)) \subseteq Nat
  BY KeysAreNat DEF RecordsOK
<1>4. PICK gone : gone = evicted[r] \cup (KeysOf(Records(r)) \ KeysOf(rec))
  OBVIOUS
<1>5. gone \in SUBSET Nat /\ evicted' = [evicted EXCEPT ![r] = gone]
  BY <1>2, <1>3, <1>4
<1>6. /\ record'[r] = rec /\ evicted'[r] = gone /\ accepted'[r] = accepted[r] \cup acc
      /\ twice'[r] = twice[r] \cup dup
  BY <1>2, <1>5
<1>7. ASSUME NEW q \in Members, q # r
      PROVE  /\ record'[q] = record[q] /\ evicted'[q] = evicted[q]
             /\ accepted'[q] = accepted[q] /\ twice'[q] = twice[q]
  BY <1>2, <1>5, <1>7
<1>8. MemberTypeOK'
  BY <1>1, <1>2, <1>5
<1>9. Records(r)' = rec /\ \A q \in Members : q # r => Records(q)' = Records(q)
  BY <1>1, <1>6, <1>7 DEF Records
<1>10. RecordsOK'
  <2> SUFFICES ASSUME NEW q \in Members
               PROVE  /\ RecordOK(Records(q)')
                      /\ AcceptedPast(Records(q)', accepted'[q], evicted'[q])
                      /\ Accounted(Records(q)', accepted'[q])
    BY DEF RecordsOK, RecordOK, AcceptedPast, Accounted
  <2>1. CASE q = r BY <1>4, <1>6, <1>9, <2>1
  <2>2. CASE q # r BY <1>7, <1>9, <2>2 DEF RecordsOK
  <2>3. QED BY <2>1, <2>2
<1>11. AcceptedSent'
  BY <1>6, <1>7 DEF AcceptedSent, GroupSent
<1>12. GroupAtMostOnce'
  <2> SUFFICES ASSUME NEW q \in Members, NEW m \in twice'[q] PROVE m.key \in evicted'[q]
    BY DEF GroupAtMostOnce
  <2>1. CASE q = r BY <1>4, <1>6, <2>1 DEF GroupAtMostOnce
  <2>2. CASE q # r BY <1>7, <2>2 DEF GroupAtMostOnce
  <2>3. QED BY <2>1, <2>2
<1>13. QED BY <1>8, <1>10, <1>11, <1>12

LEMMA MemberReceives ==
  ASSUME MemberInv, net \subseteq Packet, NEW r \in Members, MemberStep(r)
  PROVE  MemberInv'
<1> USE DEF MemberInv
<1>0. net \subseteq net'
  BY MemberAdds
<1>1. PICK p \in net : ReceiveDistribution(r, p) \/ ReceiveGroup(r, p) \/ RequestRetry(r, p)
  BY DEF MemberStep
<1>2. PICK old : old = Records(r)
  OBVIOUS
<1>3. /\ RecordOK(old) /\ AcceptedPast(old, accepted[r], evicted[r])
      /\ Accounted(old, accepted[r]) /\ accepted[r] \in SUBSET Message
  BY <1>2 DEF RecordsOK, MemberTypeOK
<1>4. CASE ReceiveDistribution(r, p)
  <2>1. PICK d \in Position : d = [key |-> p.key, iteration |-> p.iteration]
    BY <1>4, PacketTypes DEF ReceiveDistribution
  <2>2. PICK new : new = ApplyDistribution(old, d)
    OBVIOUS
  <2>3. /\ Store(r, new, KeysOf(old)) /\ UNCHANGED <<accepted, twice>>
        /\ cached' \in {cached, [cached EXCEPT ![r] = IF Replaces(d, @) THEN d ELSE @]}
    BY <1>2, <1>4, <2>1, <2>2 DEF ReceiveDistribution
  <2>4. /\ RecordOK(new) /\ Accounted(new, accepted[r])
        /\ AcceptedPast(new, accepted[r], evicted[r] \cup (KeysOf(old) \ KeysOf(new)))
    BY <1>3, <2>2, ApplyKeeps
  <2>5. cached' \in [Members -> {None} \cup Position]
    BY <2>3 DEF MemberTypeOK
  <2>6. PICK none \in SUBSET Message : none = {}
    OBVIOUS
  <2>7. /\ accepted' = [accepted EXCEPT ![r] = @ \cup none]
        /\ twice' = [twice EXCEPT ![r] = @ \cup none]
        /\ accepted[r] \cup none = accepted[r] /\ none \subseteq GroupSent
    BY <2>3, <2>6 DEF MemberTypeOK
  <2>8. /\ \A m \in none : m.key \in evicted'[r]
        /\ AcceptedPast(new, accepted[r] \cup none,
                        evicted[r] \cup (KeysOf(old) \ KeysOf(new)))
        /\ Accounted(new, accepted[r] \cup none)
    BY <2>4, <2>6, <2>7
  <2>9. QED BY <1>0, <1>2, <2>3, <2>4, <2>5, <2>7, <2>8, MemberStores
<1>5. CASE ReceiveGroup(r, p)
  <2>1. p \in Message /\ p \in GroupSent
    BY <1>5, PacketTypes DEF ReceiveGroup, GroupSent
  <2>2. PICK new : new = DecryptWithRetry(r, p)
    OBVIOUS
  <2>3. /\ new # None /\ Store(r, new, KeysOf(old)) /\ UNCHANGED cached
        /\ accepted' = [accepted EXCEPT ![r] = @ \cup {p}]
        /\ twice' = [twice EXCEPT ![r] = @ \cup ({p} \cap accepted[r])]
    BY <1>2, <1>5, <2>2 DEF ReceiveGroup
  <2>4. PICK gone : gone = evicted[r] \cup (KeysOf(old) \ KeysOf(new))
    OBVIOUS
  <2>5. /\ RecordOK(new) /\ Accounted(new, accepted[r] \cup {p})
        /\ AcceptedPast(new, accepted[r] \cup {p}, gone)
        /\ p \in accepted[r] => p.key \in gone
    <3>1. CASE p.key \in KeysOf(old) \/ cached[r] = None
      <4>1. new = DecryptGroup(old, p)
        BY <1>2, <2>2, <3>1 DEF DecryptWithRetry
      <4>2. /\ RecordOK(new) /\ KeysOf(new) = KeysOf(old)
            /\ Accounted(new, accepted[r] \cup {p})
            /\ AcceptedPast(new, accepted[r] \cup {p}, evicted[r])
            /\ p \in accepted[r] => p.key \in evicted[r]
        BY <1>3, <2>1, <2>3, <4>1, DecryptKeeps
      <4>3. gone = evicted[r]
        BY <2>4, <4>2
      <4>4. QED BY <4>2, <4>3
    <3>2. CASE ~ (p.key \in KeysOf(old) \/ cached[r] = None)
      <4>1. PICK mid : mid = ApplyDistribution(old, cached[r])
        OBVIOUS
      <4>2. new = DecryptGroup(mid, p) /\ cached[r] \in Position
        BY <1>2, <2>2, <3>2, <4>1 DEF DecryptWithRetry, MemberTypeOK
      <4>3. PICK lapsed : lapsed = evicted[r] \cup (KeysOf(old) \ KeysOf(mid))
        OBVIOUS
      <4>4. /\ RecordOK(mid) /\ Accounted(mid, accepted[r])
            /\ AcceptedPast(mid, accepted[r], lapsed)
        BY <1>3, <4>1, <4>2, <4>3, ApplyKeeps
      <4>5. /\ RecordOK(new) /\ KeysOf(new) = KeysOf(mid)
            /\ Accounted(new, accepted[r] \cup {p})
            /\ AcceptedPast(new, accepted[r] \cup {p}, lapsed)
            /\ p \in accepted[r] => p.key \in lapsed
        BY <1>3, <2>1, <2>3, <4>2, <4>4, DecryptKeeps
      <4>6. gone = lapsed
        BY <2>4, <4>3, <4>5
      <4>7. QED BY <4>5, <4>6
    <3>3. QED BY <3>1, <3>2
  <2>6. evicted'[r] = gone
    BY <2>3, <2>4 DEF Store, MemberTypeOK
  <2>7. PICK acc \in SUBSET Message : acc = {p}
    BY <2>1
  <2>8. PICK dup \in SUBSET Message : dup = {p} \cap accepted[r]
    BY <2>1
  <2>9. /\ \A m \in dup : m.key \in evicted'[r]
        /\ accepted' = [accepted EXCEPT ![r] = @ \cup acc]
        /\ twice' = [twice EXCEPT ![r] = @ \cup dup] /\ acc \subseteq GroupSent
    BY <2>1, <2>3, <2>5, <2>6, <2>7, <2>8
  <2>10. cached' \in [Members -> {None} \cup Position]
    BY <2>3 DEF MemberTypeOK
  <2>11. QED
    BY <1>0, <1>2, <2>3, <2>4, <2>5, <2>7, <2>9, <2>10, MemberStores
<1>6. CASE RequestRetry(r, p)
  BY <1>0, <1>6, MembersKept DEF RequestRetry
<1>7. QED BY <1>1, <1>4, <1>5, <1>6

LEMMA MembersStep ==
  ASSUME MemberInv, AuthorTypeOK, [Next]_vars
  PROVE  MemberInv'
<1>0. net \subseteq Packet /\ net \subseteq net'
  BY NetGrows DEF AuthorTypeOK
<1>1. ASSUME NEW t \in Tasks, TaskStep(t) PROVE UNCHANGED memberVars
  BY <1>1 DEF TaskStep, StartGroupSend, LoadDistribution, Distribute, CacheDistribution,
              EncryptGroup, SendGroup, Resend, CacheMessage, MarkRetrySuccess, TakeRetryReceipt
<1>2. ASSUME NEW r \in Members, MemberStep(r) PROVE MemberInv'
  BY <1>0, <1>2, MemberReceives
<1>3. QED
  BY <1>0, <1>1, <1>2, MembersKept DEF Next, vars, DeleteSenderKey

LEMMA MembersInit ==
  ASSUME Init
  PROVE  MemberInv
<1>1. MemberTypeOK /\ AcceptedSent /\ GroupAtMostOnce
  BY DEF Init, MemberTypeOK, AcceptedSent, GroupAtMostOnce
<1>2. \A r \in Members : Records(r) = <<>>
  BY DEF Init, Records
<1>3. RecordOK(<<>>)
  BY DEF RecordOK
<1>4. RecordsOK
  <2>1. AcceptedPast(<<>>, {}, {}) /\ Accounted(<<>>, {})
    BY DEF AcceptedPast, Accounted
  <2>2. QED BY <1>2, <1>3, <2>1 DEF Init, RecordsOK
<1>5. QED BY <1>1, <1>4 DEF MemberInv

(* A member decrypts a group message at most once, however often it and    *)
(* the distributions of its key arrive, also when a message is tried again *)
(* after the cached distribution: only the eviction of the key's state     *)
(* makes the record forget what the chain has passed.                      *)
THEOREM GroupOnce == Spec => []GroupAtMostOnce
<1>1. Init => MemberInv
  BY MembersInit
<1>2. MemberInv /\ AuthorTypeOK /\ [Next]_vars => MemberInv'
  BY MembersStep
<1>3. MemberInv => GroupAtMostOnce
  BY DEF MemberInv
<1>4. QED BY <1>1, <1>2, <1>3, AuthorTypeCorrect, PTL DEF Spec

-----------------------------------------------------------------------------
(* What a member can decrypt.                                              *)

\* The senders that have begun a message and not encrypted it.
Pending == {t \in Senders : spc[t] \in {"load", "distribute", "cacheDistribution", "encrypt"}}

EncryptedBelow ==
  /\ \A m \in GroupSent : m.iteration < MaxTasks
  /\ \A t \in Tasks : spc[t] = "send" => work[t].carries.iteration < MaxTasks

\* Every iteration is for a message that was begun.
BegunBound ==
  /\ IsFiniteSet(Pending) /\ Cardinality(Pending) <= begun /\ begun <= MaxTasks
  /\ own # None => own.iteration + Cardinality(Pending) <= begun

BoundInv == BegunBound /\ EncryptedBelow

LEMMA BegunKept ==
  ASSUME AuthorTypeOK, BegunBound, begun' = begun, Pending' \subseteq Pending,
         own' = own \/ own' = None \/ own'.iteration = 0
  PROVE  BegunBound'
<1>1. begun \in Nat /\ (own = None \/ own.iteration \in Nat)
  BY DEF AuthorTypeOK, Position
<1>2. /\ IsFiniteSet(Pending') /\ Cardinality(Pending') <= Cardinality(Pending)
      /\ Cardinality(Pending') \in Nat /\ Cardinality(Pending) \in Nat
  BY FS_Subset, FS_CardinalityType DEF BegunBound
<1>3. IsFiniteSet(Pending)' /\ Cardinality(Pending)' <= begun'
  BY <1>1, <1>2 DEF BegunBound
<1>4. own' # None => own'.iteration + Cardinality(Pending)' <= begun'
  BY <1>1, <1>2, <1>3 DEF BegunBound
<1>5. QED BY <1>3, <1>4 DEF BegunBound

LEMMA BelowKept ==
  ASSUME EncryptedBelow, GroupSent' = GroupSent,
         \A u \in Tasks : spc'[u] = "send" => spc[u] = "send" /\ work'[u] = work[u]
  PROVE  EncryptedBelow'
  BY DEF EncryptedBelow

\* The bound through one step of a task.
LEMMA TaskBound ==
  ASSUME AuthorTypeOK, BoundInv, NEW t \in Tasks, TaskStep(t)
  PROVE  BegunBound' /\ EncryptedBelow'
<1> USE DEF BoundInv
<1>0. /\ net \subseteq Packet /\ begun \in Nat /\ retries \in Nat
      /\ own = None \/ own \in Position
      /\ spc \in [Tasks -> Labels] /\ work \in [Tasks -> {None} \cup Job]
      /\ \A u \in Tasks : /\ spc[u] # "idle" => work[u] \in Job
                          /\ spc[u] \in {"encrypt", "send"} => u \in Senders
                          /\ spc[u] \in {"resend", "mark"} => u \in Handlers
  BY DEF AuthorTypeOK
<1>s. Senders \subseteq Tasks /\ \A u \in Handlers : u \notin Senders
  BY GroupAssumption DEF Tasks
<1>c. IsFiniteSet(Pending) /\ Cardinality(Pending) \in Nat
  BY FS_CardinalityType DEF BegunBound
<1>1. CASE StartGroupSend(t)
  <2>1. /\ spc'[t] = "load" /\ spc[t] = "idle" /\ t \in Senders
        /\ begun' = begun + 1 /\ begun + retries < MaxTasks
        /\ \A u \in Tasks : u # t => spc'[u] = spc[u] /\ work'[u] = work[u]
        /\ UNCHANGED <<own, net>>
    BY <1>0, <1>1 DEF StartGroupSend
  <2>2. Pending' = Pending \cup {t} /\ t \notin Pending
    BY <1>s, <2>1 DEF Pending
  <2>3. IsFiniteSet(Pending') /\ Cardinality(Pending') = Cardinality(Pending) + 1
    BY <1>c, <2>2, FS_AddElement
  <2>4. begun' <= MaxTasks
    BY <1>0, <2>1, GroupAssumption
  <2>5. own # None => own.iteration \in Nat
    BY <1>0 DEF Position
  <2>6. BegunBound'
    BY <1>0, <1>c, <2>1, <2>3, <2>4, <2>5 DEF BegunBound
  <2>7. QED BY <2>1, <2>6, BelowKept DEF GroupSent
<1>2. ASSUME NEW p \in net, TakeRetryReceipt(t, p) PROVE BegunBound' /\ EncryptedBelow'
  <2>1. t \notin Senders /\ spc[t] = "idle" /\ UNCHANGED <<begun, own, net>>
    BY <1>2, <1>s DEF TakeRetryReceipt
  <2>2. /\ spc'[t] # "send"
        /\ \A u \in Tasks : u # t => spc'[u] = spc[u] /\ work'[u] = work[u]
    BY <1>0, <1>2, <2>1 DEF TakeRetryReceipt, taskVars
  <2>3. Pending' \subseteq Pending
    BY <1>s, <2>1, <2>2 DEF Pending
  <2>4. QED BY <2>1, <2>2, <2>3, BegunKept, BelowKept DEF GroupSent
<1>3. CASE LoadDistribution(t)
  <2>1. /\ spc'[t] = "distribute" /\ spc[t] = "load" /\ UNCHANGED <<begun, net>>
        /\ own' = own \/ own'.iteration = 0
        /\ \A u \in Tasks : u # t => spc'[u] = spc[u] /\ work'[u] = work[u]
    BY <1>0, <1>3 DEF LoadDistribution
  <2>2. Pending' \subseteq Pending
    BY <1>s, <2>1 DEF Pending
  <2>3. QED BY <2>1, <2>2, BegunKept, BelowKept DEF GroupSent
<1>4. CASE Distribute(t)
  <2> DEFINE sent == {[type |-> "distribution", to |-> r, key |-> work[t].carries.key,
                       iteration |-> work[t].carries.iteration] : r \in work[t].to}
  <2>1. (\A p \in sent : p.type # "group") /\ (net' = net \cup sent \/ net' = net)
    BY <1>4 DEF Distribute
  <2> HIDE DEF sent
  <2>2. GroupSent' = GroupSent /\ UNCHANGED <<begun, own>>
    BY <1>4, <2>1, SameGroupSent DEF GroupSent, Distribute, authorVars
  <2>3. /\ spc'[t] \in {"cacheDistribution", "idle"} /\ spc[t] = "distribute"
        /\ \A u \in Tasks : u # t => spc'[u] = spc[u] /\ work'[u] = work[u]
    BY <1>0, <1>4 DEF Distribute, TaskGoes, TaskDone
  <2>4. Pending' \subseteq Pending
    BY <1>s, <2>3 DEF Pending
  <2>5. QED BY <2>2, <2>3, <2>4, BegunKept, BelowKept
<1>5. CASE CacheDistribution(t)
  <2>1. /\ spc'[t] \in {"encrypt", "resend"} /\ spc[t] = "cacheDistribution"
        /\ UNCHANGED <<begun, own, net>>
        /\ \A u \in Tasks : u # t => spc'[u] = spc[u] /\ work'[u] = work[u]
    BY <1>0, <1>5 DEF CacheDistribution, TaskGoes
  <2>2. Pending' \subseteq Pending
    BY <1>s, <2>1 DEF Pending
  <2>3. QED BY <2>1, <2>2, BegunKept, BelowKept DEF GroupSent
<1>6. CASE EncryptGroup(t)
  <2>1. /\ own \in Position /\ own # None /\ t \in Senders
        /\ own' = [own EXCEPT !.iteration = @ + 1] /\ UNCHANGED <<begun, net>>
        /\ spc'[t] = "send" /\ spc[t] = "encrypt"
        /\ work'[t].carries = GroupMessage(t)
        /\ \A u \in Tasks : u # t => spc'[u] = spc[u] /\ work'[u] = work[u]
    BY <1>0, <1>6 DEF EncryptGroup, Job
  <2>2. PICK n \in Nat : n = own.iteration
    BY <2>1 DEF Position
  <2>3. own'.iteration = n + 1 /\ work'[t].carries.iteration = n
    BY <2>1, <2>2 DEF Position, GroupMessage
  <2>4. Pending' = Pending \ {t} /\ t \in Pending
    BY <1>s, <2>1 DEF Pending
  <2>5. IsFiniteSet(Pending') /\ Cardinality(Pending') = Cardinality(Pending) - 1
    BY <1>c, <2>4, FS_RemoveElement
  <2>6. Cardinality(Pending') \in Nat
    BY <2>5, FS_CardinalityType
  <2>7. n + Cardinality(Pending) <= begun /\ begun <= MaxTasks
    BY <2>1, <2>2 DEF BegunBound
  <2>8. BegunBound'
    <3>1. Cardinality(Pending') <= begun /\ (n + 1) + Cardinality(Pending') <= begun
      BY <1>0, <1>c, <2>5, <2>6, <2>7
    <3>2. QED BY <2>1, <2>3, <2>5, <2>7, <3>1 DEF BegunBound
  <2>9. n < MaxTasks
    BY <1>0, <1>c, <2>5, <2>6, <2>7, GroupAssumption
  <2>10. EncryptedBelow'
    BY <2>1, <2>3, <2>9 DEF EncryptedBelow, GroupSent
  <2>11. QED BY <2>8, <2>10
<1>7. CASE SendGroup(t)
  <2>0. spc[t] = "send" /\ UNCHANGED <<own, begun>>
    BY <1>7 DEF SendGroup, authorVars
  <2>1. /\ spc'[t] \in {"cache", "idle"}
        /\ \A u \in Tasks : u # t => spc'[u] = spc[u] /\ work'[u] = work[u]
    BY <1>0, <1>7 DEF SendGroup, TaskGoes, TaskDone
  <2>2. Pending' \subseteq Pending
    BY <1>s, <2>0, <2>1 DEF Pending
  <2>3. GroupSent' \subseteq GroupSent \cup {work[t].carries}
    BY <1>7 DEF SendGroup, GroupSent
  <2>4. EncryptedBelow'
    BY <2>0, <2>1, <2>3 DEF EncryptedBelow
  <2>5. QED BY <2>0, <2>2, <2>4, BegunKept
<1>8. CASE Resend(t)
  <2> DEFINE sent == {[type |-> "resend", to |-> r, id |-> work[t].id] : r \in work[t].to}
  <2>1. (\A p \in sent : p.type # "group") /\ (net' = net \cup sent \/ net' = net)
    BY <1>8 DEF Resend, SendAgain
  <2> HIDE DEF sent
  <2>2. GroupSent' = GroupSent /\ UNCHANGED <<own, begun>>
    BY <1>8, <2>1, SameGroupSent DEF GroupSent, Resend, authorVars
  <2>3. /\ spc'[t] \in {"cache", "idle"} /\ spc[t] = "resend"
        /\ \A u \in Tasks : u # t => spc'[u] = spc[u] /\ work'[u] = work[u]
    BY <1>0, <1>8 DEF Resend, TaskGoes, TaskDone
  <2>4. Pending' \subseteq Pending
    BY <1>s, <2>3 DEF Pending
  <2>5. QED BY <2>2, <2>3, <2>4, BegunKept, BelowKept
<1>9. CASE CacheMessage(t)
  <2>1. /\ spc'[t] \in {"mark", "idle"} /\ spc[t] = "cache" /\ UNCHANGED <<own, begun, net>>
        /\ \A u \in Tasks : u # t => spc'[u] = spc[u] /\ work'[u] = work[u]
    BY <1>0, <1>9 DEF CacheMessage, TaskGoes, TaskDone
  <2>2. Pending' \subseteq Pending
    BY <1>s, <2>1 DEF Pending
  <2>3. QED BY <2>1, <2>2, BegunKept, BelowKept DEF GroupSent
<1>10. CASE MarkRetrySuccess(t)
  <2>1. /\ spc'[t] = "idle" /\ spc[t] = "mark" /\ UNCHANGED <<own, begun, net>>
        /\ \A u \in Tasks : u # t => spc'[u] = spc[u] /\ work'[u] = work[u]
    BY <1>0, <1>10 DEF MarkRetrySuccess, TaskDone
  <2>2. Pending' \subseteq Pending
    BY <1>s, <2>1 DEF Pending
  <2>3. QED BY <2>1, <2>2, BegunKept, BelowKept DEF GroupSent
<1>11. QED
  BY <1>1, <1>2, <1>3, <1>4, <1>5, <1>6, <1>7, <1>8, <1>9, <1>10 DEF TaskStep

LEMMA BoundStep ==
  ASSUME AuthorTypeOK, BoundInv, [Next]_vars
  PROVE  BoundInv'
<1>0. BegunBound /\ EncryptedBelow /\ net \subseteq Packet
  BY DEF BoundInv, AuthorTypeOK
<1>1. ASSUME NEW t \in Tasks, TaskStep(t) PROVE BoundInv'
  BY <1>1, TaskBound DEF BoundInv
<1>2. ASSUME UNCHANGED <<begun, spc, work>>, GroupSent' = GroupSent, own' = own \/ own' = None
      PROVE  BoundInv'
  <2>1. Pending' \subseteq Pending
    BY <1>2 DEF Pending
  <2>2. QED BY <1>0, <1>2, <2>1, BegunKept, BelowKept DEF BoundInv
<1>3. ASSUME NEW r \in Members, MemberStep(r) PROVE BoundInv'
  <2>1. PICK S \in SUBSET Request : net' = net \cup S
    BY <1>0, <1>3, MemberAdds
  <2>2. UNCHANGED <<authorVars, taskVars>>
    BY <1>0, <1>3, MemberAdds
  <2>3. GroupSent' = GroupSent
    BY <2>1, SameGroupSent DEF Request
  <2>4. QED BY <1>2, <2>2, <2>3 DEF authorVars, taskVars
<1>4. CASE DeleteSenderKey
  BY <1>2, <1>4 DEF DeleteSenderKey, taskVars, GroupSent
<1>5. CASE UNCHANGED vars
  BY <1>2, <1>5 DEF vars, authorVars, taskVars, GroupSent
<1>6. QED BY <1>1, <1>3, <1>4, <1>5 DEF Next

LEMMA DecryptsImplied ==
  ASSUME AuthorTypeOK, IterationNeverReused, MemberInv, BoundInv
  PROVE  MemberDecrypts
<1> SUFFICES ASSUME NEW r \in Members, NEW m \in GroupSent, m \notin accepted[r],
                    m.key \in KeysOf(Records(r)),
                    m.iteration \notin StateOf(Records(r), m.key).lost,
                    MaxTasks <= MaxJump + 1
             PROVE  DecryptGroup(Records(r), m) # None
  BY DEF MemberDecrypts
<1>1. PICK rec : rec = Records(r)
  OBVIOUS
<1>2. RecordOK(rec) /\ Accounted(rec, accepted[r]) /\ accepted[r] \subseteq GroupSent
  BY <1>1 DEF MemberInv, RecordsOK, AcceptedSent
<1>3. m \in Message /\ m.iteration < MaxTasks
  BY PacketTypes DEF AuthorTypeOK, GroupSent, BoundInv, EncryptedBelow
<1>4. PICK i \in 1 .. Len(rec) : i = IndexOf(rec, m.key) /\ rec[i].key = m.key
  BY <1>1, <1>2, IndexFound
<1>5. PICK s : s = rec[i]
  OBVIOUS
<1>6. StateOK(s) /\ s.iteration \in Nat /\ m.iteration \in Nat
  BY <1>2, <1>3, <1>4, <1>5 DEF RecordOK, StateOK, State, Message
<1>7. Holds(s, m.iteration) \/ (s.iteration <= m.iteration /\ m.iteration - s.iteration <= MaxJump)
  <2>1. CASE m.iteration < s.iteration
    <3>1. m.iteration \notin s.lost
      BY <1>1, <1>4, <1>5 DEF StateOf
    <3>2. ~ \E a \in accepted[r] : a.key = s.key /\ a.iteration = m.iteration
      BY <1>2, <1>4, <1>5 DEF IterationNeverReused
    <3>3. QED BY <1>2, <1>4, <1>5, <1>6, <2>1, <3>1, <3>2 DEF Accounted
  <2>2. CASE ~ m.iteration < s.iteration
    BY <1>3, <1>6, <2>2, RecordAssumption, GroupAssumption
  <2>3. QED BY <2>1, <2>2
<1>8. PICK t : t = TakeMessageKey(s, m.iteration)
  OBVIOUS
<1>9. t # None
  BY <1>6, <1>7, <1>8, KeyTaken
<1>10. PICK new : new = [j \in DOMAIN rec |-> IF rec[j].key = m.key THEN t ELSE rec[j]]
  OBVIOUS
<1>11. DecryptGroup(rec, m) = new
  BY <1>1, <1>4, <1>5, <1>8, <1>9, <1>10 DEF DecryptGroup, StateOf
<1>12. t \in State
  BY <1>6, <1>8, <1>9, KeyTaken DEF StateOK
<1>13. new \in Seq(State)
  <2>1. rec \in Seq(State) /\ DOMAIN rec = 1 .. Len(rec) /\ Len(rec) \in Nat
    BY <1>2 DEF RecordOK
  <2>2. new \in [1 .. Len(rec) -> State]
    BY <1>10, <1>12, <2>1
  <2>3. QED BY <2>1, <2>2
<1>14. QED BY <1>1, <1>11, <1>13, RecordAssumption

(* While a member has the state of a sender key, every message of it that  *)
(* was not accepted decrypts, whatever arrived before: what its chain has  *)
(* passed is stored, accepted or lost to a newer distribution or the limit *)
(* on stored keys, and no message is too far ahead.                        *)
THEOREM MemberDecryptsAlways == Spec => []MemberDecrypts
<1>1. Init => MemberInv /\ BoundInv
  <2>1. Init => Pending = {}
    BY GroupAssumption DEF Init, Pending, Tasks
  <2>2. Init => BoundInv
    BY <2>1, FS_EmptySet, GroupAssumption
    DEF Init, BoundInv, BegunBound, EncryptedBelow, GroupSent
  <2>3. QED BY <2>2, MembersInit
<1>2. MemberInv /\ BoundInv /\ AuthorTypeOK /\ [Next]_vars => MemberInv' /\ BoundInv'
  BY MembersStep, BoundStep
<1>3. AuthorTypeOK /\ IterationNeverReused /\ MemberInv /\ BoundInv => MemberDecrypts
  BY DecryptsImplied
<1>4. QED BY <1>1, <1>2, <1>3, AuthorTypeCorrect, IterationUnique, PTL DEF Spec

=============================================================================
