--------------------------- MODULE GroupMessages ---------------------------
(***************************************************************************)
(* Messages to a group: the client as the author that distributes its      *)
(* sender key, encrypts and sends, and that answers retry receipts         *)
(* (wa-client/src/lib.rs, wa-core/src/signal.rs, retry.rs), and the client *)
(* as a member that receives what the author sent.                         *)
(*                                                                         *)
(* Several tasks of the author send at a time, and each handler of the     *)
(* author answers one retry receipt at a time.  Each lock of the provider  *)
(* or of the retry manager, and each send, is one step.  The network keeps *)
(* what was sent: it may deliver it late, out of order, again, or never.   *)
(*                                                                         *)
(* The pairwise messages that carry distributions and resent messages are  *)
(* those of SignalSession; here they always decrypt.  A member is one      *)
(* device with one incoming processor, which takes one message at a time.  *)
(***************************************************************************)
EXTENDS SenderKeyRecord, RecentMessages

CONSTANTS Members,
          Senders,    \* concurrent sending tasks of the author
          Handlers,   \* processors of the author that answer retry receipts
          MaxTasks,   \* bound: group messages begun and retry receipts taken
          MaxKeys     \* bound: sender keys created

ASSUME GroupAssumption ==
  /\ Senders \cap Handlers = {}
  /\ MaxTasks \in Nat /\ MaxKeys \in Nat \ {0}
  /\ None \notin [key : Nat, iteration : Nat]

Tasks == Senders \cup Handlers

VARIABLES own,       \* the author's sender key and the iteration it is at, or None
          keys,      \* sender keys created so far
          begun,     \* group messages begun so far
          retries,   \* retry receipts taken so far
          recent,    \* the author's recent messages
          gaveWay,   \* messages that left the cache by age or capacity
          net,       \* everything sent
          spc, work, \* task -> position, what it works on
          record,    \* member -> sender-key record of the author, or None
          cached,    \* member -> distribution cached by the repository, or None
          evicted,   \* member -> sender keys whose state gave way to newer ones
          accepted,  \* member -> group messages whose plaintext it was given
          twice      \* member -> those that it was given a second time

authorVars == <<own, keys, begun, retries, recent, gaveWay>>
taskVars == <<spc, work>>
memberVars == <<record, cached, evicted, accepted, twice>>
vars == <<authorVars, net, taskVars, memberVars>>

Init ==
  /\ own = None /\ keys = 0 /\ begun = 0 /\ retries = 0
  /\ recent = EmptyCache /\ gaveWay = {} /\ net = {}
  /\ spc = [t \in Tasks |-> "idle"]
  /\ work = [t \in Tasks |-> None]
  /\ record = [r \in Members |-> None]
  /\ cached = [r \in Members |-> None]
  /\ evicted = [r \in Members |-> {}]
  /\ accepted = [r \in Members |-> {}]
  /\ twice = [r \in Members |-> {}]

GroupSent == {p \in net : p.type = "group"}

-----------------------------------------------------------------------------
(* The author's tasks.                                                     *)

TaskGoes(t, label) == spc' = [spc EXCEPT ![t] = label] /\ UNCHANGED work

TaskDone(t) ==
  /\ spc' = [spc EXCEPT ![t] = "idle"]
  /\ work' = [work EXCEPT ![t] = None]

\* relay_group_sender_key_proto_message_with_encryptors has the devices of all
\* members and a session with each.
StartGroupSend(t) ==
  /\ t \in Senders /\ spc[t] = "idle" /\ begun + retries < MaxTasks
  /\ begun' = begun + 1
  /\ work' = [work EXCEPT ![t] = [id |-> <<"message", begun'>>, to |-> Members,
                                  serial |-> begun' + retries,
                                  carries |-> None]]
  /\ spc' = [spc EXCEPT ![t] = "load"]
  /\ UNCHANGED <<own, keys, retries, recent, gaveWay, net, memberVars>>

\* handle_retry_receipt_with_bundle renews the pairwise session (SignalSession),
\* then prepares a resend to the member that asks, or has nothing to do when the
\* message is not cached or too old.
TakeRetryReceipt(t, p) ==
  /\ t \in Handlers /\ spc[t] = "idle" /\ begun + retries < MaxTasks
  /\ p.type = "retry"
  /\ retries' = retries + 1
  /\ \E old \in TooOld(recent) :
       /\ recent' = PurgeRecent(recent, old)
       /\ gaveWay' = gaveWay \cup old
  /\ IF p.id \in recent'.messages
     THEN /\ work' = [work EXCEPT ![t] = [id |-> p.id, to |-> {p.from},
                                          serial |-> begun + retries',
                                          carries |-> None]]
          /\ spc' = [spc EXCEPT ![t] = "load"]
     ELSE UNCHANGED taskVars
  /\ UNCHANGED <<own, keys, begun, net, memberVars>>

\* Mutant: the distribution tells the iteration after the next message.
LoadNextDistribution(t) ==
  /\ spc[t] = "load"
  /\ own # None \/ keys < MaxKeys
  /\ own' = IF own = None THEN [key |-> keys + 1, iteration |-> 0] ELSE own
  /\ keys' = IF own = None THEN keys + 1 ELSE keys
  /\ work' = [work EXCEPT ![t].carries =
                [key |-> own'.key, iteration |-> own'.iteration + 1]]
  /\ spc' = [spc EXCEPT ![t] = "distribute"]
  /\ UNCHANGED <<begun, retries, recent, gaveWay, net, memberVars>>

\* load_or_create_sender_key_distribution_record
LoadDistribution(t) ==
  /\ spc[t] = "load"
  /\ own # None \/ keys < MaxKeys
  /\ own' = IF own = None THEN [key |-> keys + 1, iteration |-> 0] ELSE own
  /\ keys' = IF own = None THEN keys + 1 ELSE keys
  /\ work' = [work EXCEPT ![t].carries =
                [key |-> own'.key, iteration |-> own'.iteration]]
  /\ spc' = [spc EXCEPT ![t] = "distribute"]
  /\ UNCHANGED <<begun, retries, recent, gaveWay, net, memberVars>>

\* The distribution to each device; any failure before or in the send ends the
\* task.
Distribute(t) ==
  /\ spc[t] = "distribute"
  /\ \/ /\ net' = net \cup {[type |-> "distribution", to |-> r,
                            key |-> work[t].carries.key,
                            iteration |-> work[t].carries.iteration] : r \in work[t].to}
        /\ TaskGoes(t, "cacheDistribution")
     \/ UNCHANGED net /\ TaskDone(t)
  /\ UNCHANGED <<authorVars, memberVars>>

\* add_recent_message forgets the messages that have become too old first.
Cache(id) ==
  \E old \in TooOld(recent) :
    /\ recent' = AddRecent(PurgeRecent(recent, old), id)
    /\ gaveWay' = gaveWay \cup ((recent.messages \cup {id}) \ recent'.messages)

\* The relay of a distribution is cached under an id of its own.
CacheDistribution(t) ==
  /\ spc[t] = "cacheDistribution"
  /\ Cache(<<"distribution", work[t].serial>>)
  /\ TaskGoes(t, IF t \in Senders THEN "encrypt" ELSE "resend")
  /\ UNCHANGED <<own, keys, begun, retries, net, memberVars>>

GroupMessage(t) ==
  [type |-> "group", id |-> work[t].id, key |-> own.key, iteration |-> own.iteration]

\* Mutant: the advanced record is not written back.
EncryptGroupUnstored(t) ==
  /\ spc[t] = "encrypt" /\ own # None
  /\ work' = [work EXCEPT ![t].carries = GroupMessage(t)]
  /\ spc' = [spc EXCEPT ![t] = "send"]
  /\ UNCHANGED <<authorVars, net, memberVars>>

\* encrypt_sender_key_record_message
EncryptGroup(t) ==
  /\ spc[t] = "encrypt" /\ own # None
  /\ work' = [work EXCEPT ![t].carries = GroupMessage(t)]
  /\ own' = [own EXCEPT !.iteration = @ + 1]
  /\ spc' = [spc EXCEPT ![t] = "send"]
  /\ UNCHANGED <<keys, begun, retries, recent, gaveWay, net, memberVars>>

SendGroup(t) ==
  /\ spc[t] = "send"
  /\ \/ net' = net \cup {work[t].carries} /\ TaskGoes(t, "cache")
     \/ UNCHANGED net /\ TaskDone(t)
  /\ UNCHANGED <<authorVars, memberVars>>

SendAgain(t) ==
  net' = net \cup {[type |-> "resend", to |-> r, id |-> work[t].id] : r \in work[t].to}

\* Mutant: the resend is taken for done before it is sent.
ResendMarkedFirst(t) ==
  /\ spc[t] = "resend"
  /\ recent' = RemoveRecent(recent, work[t].id)
  /\ \/ /\ SendAgain(t)
        /\ TaskGoes(t, "cache")
     \/ UNCHANGED net /\ TaskDone(t)
  /\ UNCHANGED <<own, keys, begun, retries, gaveWay, memberVars>>

\* execute_retry_resends_with_device_identity sends the message pairwise.
Resend(t) ==
  /\ spc[t] = "resend"
  /\ \/ /\ SendAgain(t)
        /\ TaskGoes(t, "cache")
     \/ UNCHANGED net /\ TaskDone(t)
  /\ UNCHANGED <<authorVars, memberVars>>

\* What was sent is cached after it was sent, what was sent again too.
CacheMessage(t) ==
  /\ spc[t] = "cache"
  /\ Cache(work[t].id)
  /\ IF t \in Senders THEN TaskDone(t) ELSE TaskGoes(t, "mark")
  /\ UNCHANGED <<own, keys, begun, retries, net, memberVars>>

\* mark_retry_success
MarkRetrySuccess(t) ==
  /\ spc[t] = "mark"
  /\ recent' = RemoveRecent(recent, work[t].id)
  /\ TaskDone(t)
  /\ UNCHANGED <<own, keys, begun, retries, gaveWay, net, memberVars>>

\* delete_sender_key_record, which the application calls while it does not send.
DeleteSenderKey ==
  /\ own # None /\ keys < MaxKeys
  /\ \A t \in Senders : spc[t] = "idle"
  /\ own' = None
  /\ UNCHANGED <<keys, begun, retries, recent, gaveWay, net, taskVars, memberVars>>

-----------------------------------------------------------------------------
(* The members.                                                            *)

Records(r) == IF record[r] = None THEN <<>> ELSE record[r]

Store(r, rec, known) ==
  /\ record' = [record EXCEPT ![r] = rec]
  /\ evicted' = [evicted EXCEPT ![r] = @ \cup (known \ KeysOf(rec))]

\* should_replace_cached_signal_sender_key_distribution
Replaces(d, old) == old = None \/ old.key # d.key \/ old.iteration <= d.iteration

\* process_sender_key_distribution: the record of the provider first, then the
\* cache of the repository, unless the client stops in between.
ReceiveDistribution(r, p) ==
  LET d == [key |-> p.key, iteration |-> p.iteration] IN
  /\ p.type = "distribution" /\ p.to = r
  /\ Store(r, ApplyDistribution(Records(r), d), KeysOf(Records(r)))
  /\ cached' \in {cached, [cached EXCEPT ![r] = IF Replaces(d, @) THEN d ELSE @]}
  /\ UNCHANGED <<authorVars, net, taskVars, accepted, twice>>

\* The record after the message is decrypted, or None.  A message of a key
\* without a state is tried again after the cached distribution.
DecryptWithRetry(r, m) ==
  IF m.key \in KeysOf(Records(r)) \/ cached[r] = None
  THEN DecryptGroup(Records(r), m)
  ELSE DecryptGroup(ApplyDistribution(Records(r), cached[r]), m)

ReceiveGroup(r, m) ==
  LET rec == DecryptWithRetry(r, m) IN
  /\ m.type = "group" /\ rec # None
  /\ Store(r, rec, KeysOf(Records(r)))
  /\ accepted' = [accepted EXCEPT ![r] = @ \cup {m}]
  /\ twice' = [twice EXCEPT ![r] = @ \cup ({m} \cap accepted[r])]
  /\ UNCHANGED <<authorVars, net, taskVars, cached>>

\* Another client asks the author for a message that it cannot decrypt.
RequestRetry(r, m) ==
  /\ m.type = "group" /\ DecryptWithRetry(r, m) = None
  /\ begun + retries < MaxTasks
  /\ net' = net \cup {[type |-> "retry", from |-> r, id |-> m.id]}
  /\ UNCHANGED <<authorVars, taskVars, memberVars>>

-----------------------------------------------------------------------------
TaskStep(t) ==
  \/ StartGroupSend(t) \/ LoadDistribution(t) \/ Distribute(t) \/ CacheDistribution(t)
  \/ EncryptGroup(t) \/ SendGroup(t) \/ Resend(t) \/ CacheMessage(t) \/ MarkRetrySuccess(t)
  \/ \E p \in net : TakeRetryReceipt(t, p)

MemberStep(r) ==
  \E p \in net : ReceiveDistribution(r, p) \/ ReceiveGroup(r, p) \/ RequestRetry(r, p)

Next ==
  \/ \E t \in Tasks : TaskStep(t)
  \/ \E r \in Members : MemberStep(r)
  \/ DeleteSenderKey

Spec == Init /\ [][Next]_vars

-----------------------------------------------------------------------------
(* Properties.                                                             *)

(* encrypt_sender_key_record_message never encrypts two messages under one *)
(* iteration of a sender key, whatever tasks send to the group at a time.  *)
IterationNeverReused ==
  \A m1, m2 \in GroupSent :
    m1.key = m2.key /\ m1.iteration = m2.iteration => m1 = m2

(* relay_group_sender_key_proto_message_with_encryptors sends every member *)
(* a distribution from which a group message can be decrypted before it    *)
(* sends the message, also when tasks interleave and some of them fail.    *)
DistributedFirst ==
  \A m \in GroupSent, r \in Members :
    \E d \in net : /\ d.type = "distribution" /\ d.to = r
                   /\ d.key = m.key /\ d.iteration <= m.iteration

(* A group message is decrypted at most once by a member, however often    *)
(* it and the distributions of its key arrive (as long as the state of the *)
(* key has not given way to those of newer keys).                          *)
GroupAtMostOnce ==
  \A r \in Members : \A m \in twice[r] : m.key \in evicted[r]

(* While a member has the state of a sender key, no order of arrival makes *)
(* a message of it undecryptable, but for the iterations that a newer      *)
(* distribution passed over or that gave way at the limit on stored keys   *)
(* (as long as no message can reach the limit on forward jumps).           *)
MemberDecrypts ==
  \A r \in Members, m \in GroupSent :
    (/\ m \notin accepted[r] /\ m.key \in KeysOf(Records(r))
     /\ m.iteration \notin StateOf(Records(r), m.key).lost
     /\ MaxTasks <= MaxJump + 1)
    => DecryptGroup(Records(r), m) # None

(* A message that was sent can be sent again until it has been: the retry  *)
(* manager forgets it for its age, for the capacity of the cache or after  *)
(* a resend that went out, and never for a resend that failed.             *)
ResendableUntilResent ==
  \A m \in GroupSent :
    \/ m.id \in recent.messages \cup gaveWay
    \/ \E t \in Tasks : spc[t] = "cache" /\ work[t].id = m.id
    \/ \E p \in net : p.type = "resend" /\ p.id = m.id
=============================================================================
