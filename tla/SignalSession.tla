--------------------------- MODULE SignalSession ---------------------------
(***************************************************************************)
(* One-to-one Signal sessions between two parties: the provider of         *)
(* wa-core/src/signal.rs over its locked and transactional records, as     *)
(* used by the send path (assert_sessions, encrypt_message) and by the     *)
(* receive path (decrypt_inbound_message) of each party.                   *)
(*                                                                         *)
(* The network keeps every message ever sent: it may deliver a message     *)
(* late, out of order, again, or never.  Each lock-and-transaction is one  *)
(* step; tasks of the same party interleave between them.                  *)
(*                                                                         *)
(* Both identities are fixed and the signed pre-keys are not rotated.      *)
(***************************************************************************)
EXTENDS SignalRatchet, FiniteSets

CONSTANTS Parties,
          Senders,    \* the sending tasks, <<party, id>>
          Receivers,  \* the incoming processors, <<party, id>>
          OneTimeKeys,\* ids of the one-time pre-keys each party uploaded
          MaxSends,   \* bound: messages each party sends
          MaxFetches  \* bound: pre-key bundles each party fetches

KeyPair == Parties \X Nat
Agreement == [base : KeyPair, signed : KeyPair, oneTime : OneTimeKeys \cup {None}]
RootKey == Seq(Agreement \cup SUBSET KeyPair) \ {<<>>}
MessageChain == [key : RootKey, counter : Nat]
SkippedKey == [ratchet : KeyPair, counter : Nat, key : RootKey]
Record == [root : RootKey, send : MessageChain \cup {Uninitialized},
           recv : MessageChain \cup {None}, remote : KeyPair \cup {None},
           local : KeyPair, prev : Nat, skipped : Seq(SkippedKey),
           lost : SUBSET SkippedKey, inboundBase : KeyPair \cup {None}]

ASSUME SessionAssumption ==
  /\ IsFiniteSet(Parties) /\ Cardinality(Parties) = 2
  /\ None \notin OneTimeKeys /\ None \notin KeyPair /\ None \notin MessageChain
  /\ None \notin Record
  /\ \A t \in Senders \cup Receivers : t[1] \in Parties
  /\ MaxSends \in Nat /\ MaxFetches \in Nat

VARIABLES session,  \* party -> provider record of its peer, or None
          native,   \* party -> injected bundle of its peer, or None
          preKeys,  \* party -> one-time pre-keys in its store
          server,   \* party -> one-time pre-keys the server can hand out
          keyCount, \* party -> key pairs generated so far
          fetches,  \* party -> bundles fetched so far
          net,      \* the messages sent
          accepted, \* messages whose plaintext a receiver was given
          twice,    \* messages whose plaintext was given a second time
          spc, bundle,   \* sending task -> position, bundle it has read
          rpc, incoming  \* processor -> position, message it works on

sendVars == <<spc, bundle>>
receiveVars == <<rpc, incoming>>
partyVars == <<session, native, preKeys, server, keyCount, fetches>>
netVars == <<net, accepted, twice>>
vars == <<partyVars, netVars, sendVars, receiveVars>>

Peer(p) == CHOOSE q \in Parties : q # p

Sent(p) == {m \in net : m.from = p}

Init ==
  /\ session = [p \in Parties |-> None]
  /\ native = [p \in Parties |-> None]
  /\ preKeys = [p \in Parties |-> OneTimeKeys]
  /\ server = [p \in Parties |-> OneTimeKeys]
  /\ keyCount = [p \in Parties |-> 0]
  /\ fetches = [p \in Parties |-> 0]
  /\ net = {} /\ accepted = {} /\ twice = {}
  /\ spc = [t \in Senders |-> "idle"]
  /\ bundle = [t \in Senders |-> None]
  /\ rpc = [t \in Receivers |-> "idle"]
  /\ incoming = [t \in Receivers |-> None]

-----------------------------------------------------------------------------
(* Sending.  t = <<p, s>> is sending task s of party p.                    *)

SenderGoes(t, label) == spc' = [spc EXCEPT ![t] = label]

SenderDone(t) ==
  /\ spc' = [spc EXCEPT ![t] = "idle"]
  /\ bundle' = [bundle EXCEPT ![t] = None]

\* assert_sessions looks for a session before a first send; the send of a
\* retry forces a new bundle.
StartSend(t) ==
  LET p == t[1] IN
  /\ spc[t] = "idle"
  /\ Cardinality(Sent(p)) < MaxSends
  /\ \/ native[p] = None /\ session[p] = None /\ SenderGoes(t, "fetch")
     \/ (native[p] # None \/ session[p] # None) /\ SenderGoes(t, "read")
  /\ UNCHANGED <<partyVars, netVars, bundle, receiveVars>>

StartForcedSend(t) ==
  /\ spc[t] = "idle"
  /\ Cardinality(Sent(t[1])) < MaxSends
  /\ SenderGoes(t, "fetch")
  /\ UNCHANGED <<partyVars, netVars, bundle, receiveVars>>

\* A retry that asks for a new session deletes the old one first.
DeleteSessions(t) ==
  /\ spc[t] = "idle"
  /\ Cardinality(Sent(t[1])) < MaxSends
  /\ native' = [native EXCEPT ![t[1]] = None]
  /\ session' = [session EXCEPT ![t[1]] = None]
  /\ SenderGoes(t, "fetch")
  /\ UNCHANGED <<preKeys, server, keyCount, fetches, netVars, bundle, receiveVars>>

\* The server hands out a one-time pre-key once, and none when all are gone.
\* inject_e2e_session stores the bundle and drops the provider session.
FetchAndInject(t) ==
  LET p == t[1]  q == Peer(p) IN
  /\ spc[t] = "fetch" /\ fetches[p] < MaxFetches
  /\ \E k \in IF server[q] = {} THEN {None} ELSE server[q] :
       /\ native' = [native EXCEPT ![p] = [oneTime |-> k]]
       /\ server' = [server EXCEPT ![q] = @ \ {k}]
  /\ session' = [session EXCEPT ![p] = None]
  /\ fetches' = [fetches EXCEPT ![p] = @ + 1]
  /\ SenderGoes(t, "read")
  /\ UNCHANGED <<preKeys, keyCount, netVars, bundle, receiveVars>>

FetchFails(t) ==
  /\ spc[t] = "fetch"
  /\ SenderDone(t)
  /\ UNCHANGED <<partyVars, netVars, receiveVars>>

ReadBundle(t) ==
  /\ spc[t] = "read"
  /\ bundle' = [bundle EXCEPT ![t] = native[t[1]]]
  /\ SenderGoes(t, "encrypt")
  /\ UNCHANGED <<partyVars, netVars, receiveVars>>

Send(p, whisper, pre) ==
  net' = net \cup {[from |-> p, body |-> Cardinality(Sent(p)), pre |-> pre,
                    ratchet |-> whisper.ratchet, counter |-> whisper.counter,
                    prev |-> whisper.prev, key |-> whisper.key]}

\* Mutant: the advanced record is not written back.
EncryptWithoutStore(t) ==
  LET p == t[1]
      rec == WithSendingChain(session[p], <<p, keyCount[p] + 1>>) IN
  /\ spc[t] = "encrypt" /\ session[p] # None
  /\ Cardinality(Sent(p)) < MaxSends
  /\ Send(p, Whisper(rec), None)
  /\ SenderDone(t)
  /\ UNCHANGED <<partyVars, accepted, twice, receiveVars>>

\* encrypt_existing_session_record_message found a session.
EncryptExisting(t) ==
  LET p == t[1]
      rec == WithSendingChain(session[p], <<p, keyCount[p] + 1>>) IN
  /\ spc[t] = "encrypt" /\ session[p] # None /\ CanEncrypt(session[p])
  /\ Cardinality(Sent(p)) < MaxSends
  /\ Send(p, Whisper(rec), None)
  /\ session' = [session EXCEPT ![p] = AfterSend(rec)]
  /\ keyCount' = [keyCount EXCEPT ![p] = @ + (IF rec = session[p] THEN 0 ELSE 1)]
  /\ SenderDone(t)
  /\ UNCHANGED <<native, preKeys, server, fetches, accepted, twice, receiveVars>>

\* A peer that runs libsignal repeats the pre-key header in every message
\* until it has received one.
EncryptUnanswered(t) ==
  LET p == t[1]  rec == session[p] IN
  /\ spc[t] = "encrypt" /\ rec # None
  /\ rec.recv = None
  /\ Cardinality(Sent(p)) < MaxSends
  /\ Send(p, Whisper(rec), [base |-> rec.root[1].base, oneTime |-> rec.root[1].oneTime])
  /\ session' = [session EXCEPT ![p] = AfterSend(rec)]
  /\ SenderDone(t)
  /\ UNCHANGED <<native, preKeys, server, keyCount, fetches, accepted, twice, receiveVars>>

\* No session: go on with the bundle, or fail without one.
EncryptMissing(t) ==
  /\ spc[t] = "encrypt" /\ session[t[1]] = None
  /\ \/ bundle[t] = None /\ SenderDone(t)
     \/ bundle[t] # None /\ SenderGoes(t, "first") /\ UNCHANGED bundle
  /\ UNCHANGED <<partyVars, netVars, receiveVars>>

\* encrypt_signal_outbound_pre_key_session_message, then the new session is
\* stored whatever another task has stored meanwhile.
SendFirst(t) ==
  LET p == t[1]
      base == <<p, keyCount[p] + 1>>
      rec == OutboundRecord(base, <<p, keyCount[p] + 2>>, Peer(p), bundle[t].oneTime)
  IN
  /\ spc[t] = "first"
  /\ Cardinality(Sent(p)) < MaxSends
  /\ Send(p, Whisper(rec), [base |-> base, oneTime |-> bundle[t].oneTime])
  /\ session' = [session EXCEPT ![p] = AfterSend(rec)]
  /\ keyCount' = [keyCount EXCEPT ![p] = @ + 2]
  /\ SenderDone(t)
  /\ UNCHANGED <<native, preKeys, server, fetches, accepted, twice, receiveVars>>

-----------------------------------------------------------------------------
(* Receiving.  t = <<p, r>> is incoming processor r of party p.            *)

ReceiverGoes(t, label) ==
  rpc' = [rpc EXCEPT ![t] = label] /\ UNCHANGED incoming

ReceiverDone(t) ==
  /\ rpc' = [rpc EXCEPT ![t] = "idle"]
  /\ incoming' = [incoming EXCEPT ![t] = None]

Accept(m) ==
  /\ accepted' = accepted \cup {m}
  /\ twice' = twice \cup ({m} \cap accepted)

\* decrypt_session_record_message; a failure changes nothing.
DecryptWithSession(p, m) ==
  LET rec == Decrypt(session[p], m) IN
  /\ rec # None
  /\ session' = [session EXCEPT ![p] = rec]
  /\ Accept(m)
  /\ UNCHANGED <<native, preKeys, server, keyCount, fetches, net>>

ReceiveMessage(t, m) ==
  /\ rpc[t] = "idle" /\ m.from = Peer(t[1]) /\ m.pre = None
  /\ DecryptWithSession(t[1], m)
  /\ UNCHANGED <<sendVars, receiveVars>>

\* load_local_pre_key: with the one-time key in store a session is set up,
\* otherwise the message may belong to the session it has set up before.
ReceivePreKey(t, m) ==
  /\ rpc[t] = "idle" /\ m.from = Peer(t[1]) /\ m.pre # None
  /\ rpc' = [rpc EXCEPT ![t] = IF m.pre.oneTime \in preKeys[t[1]]
                               THEN "bootstrap" ELSE "replay"]
  /\ incoming' = [incoming EXCEPT ![t] = m]
  /\ UNCHANGED <<partyVars, netVars, sendVars>>

\* The base key of the record tells whether the message set up this session.
RecogniseReplay(t) ==
  LET p == t[1]  m == incoming[t]
      known == session[p] # None /\ session[p].inboundBase = m.pre.base IN
  /\ rpc[t] = "replay"
  /\ \/ known /\ ReceiverGoes(t, "decrypt")
     \/ ~known /\ m.pre.oneTime = None /\ ReceiverGoes(t, "bootstrap")
     \/ ~known /\ m.pre.oneTime # None /\ ReceiverDone(t)
  /\ UNCHANGED <<partyVars, netVars, sendVars>>

DecryptReplay(t) ==
  LET p == t[1]  m == incoming[t] IN
  /\ rpc[t] = "decrypt"
  /\ \/ DecryptWithSession(p, m)
     \/ Decrypt(session[p], m) = None /\ UNCHANGED <<partyVars, netVars>>
  /\ ReceiverDone(t)
  /\ UNCHANGED sendVars

\* Mutant: the one-time key stays in the store.
BootstrapKeepsKey(t) ==
  LET p == t[1]  m == incoming[t]
      rec == Decrypt(InboundRecord(m.pre.base, p, m.pre.oneTime), m) IN
  /\ rpc[t] = "bootstrap"
  /\ session' = [session EXCEPT ![p] = rec]
  /\ Accept(m)
  /\ ReceiverDone(t)
  /\ UNCHANGED <<native, preKeys, server, keyCount, fetches, net, sendVars>>

\* Mutant: the new session is stored although the one-time key is gone.
BootstrapUnchecked(t) ==
  LET p == t[1]  m == incoming[t]
      rec == Decrypt(InboundRecord(m.pre.base, p, m.pre.oneTime), m) IN
  /\ rpc[t] = "bootstrap"
  /\ session' = [session EXCEPT ![p] = rec]
  /\ preKeys' = [preKeys EXCEPT ![p] = @ \ {m.pre.oneTime}]
  /\ Accept(m)
  /\ ReceiverDone(t)
  /\ UNCHANGED <<native, server, keyCount, fetches, net, sendVars>>

\* The bootstrap record decrypts the message; one transaction then consumes
\* the one-time key, unless it is gone by now, and stores the session.
Bootstrap(t) ==
  LET p == t[1]  m == incoming[t]
      rec == Decrypt(InboundRecord(m.pre.base, p, m.pre.oneTime), m)
      fails == rec = None \/ m.pre.oneTime \notin preKeys[p] \cup {None} IN
  /\ rpc[t] = "bootstrap"
  /\ \/ fails /\ UNCHANGED <<partyVars, netVars>>
     \/ /\ ~fails
        /\ session' = [session EXCEPT ![p] = rec]
        /\ preKeys' = [preKeys EXCEPT ![p] = @ \ {m.pre.oneTime}]
        /\ Accept(m)
        /\ UNCHANGED <<native, server, keyCount, fetches, net>>
  /\ ReceiverDone(t)
  /\ UNCHANGED sendVars

-----------------------------------------------------------------------------
SenderStep(t) ==
  \/ StartSend(t) \/ StartForcedSend(t) \/ DeleteSessions(t)
  \/ FetchAndInject(t) \/ FetchFails(t) \/ ReadBundle(t) \/ EncryptExisting(t) \/ EncryptUnanswered(t)
  \/ EncryptMissing(t) \/ SendFirst(t)

ReceiverStep(t) ==
  \/ \E m \in net : ReceiveMessage(t, m) \/ ReceivePreKey(t, m)
  \/ RecogniseReplay(t) \/ DecryptReplay(t) \/ Bootstrap(t)

Next ==
  \/ \E t \in Senders : SenderStep(t)
  \/ \E t \in Receivers : ReceiverStep(t)

Spec == Init /\ [][Next]_vars

-----------------------------------------------------------------------------
(* Properties.                                                             *)

\* The X3DH agreement that a record or a message belongs to.
SessionOf(x) == IF "root" \in DOMAIN x THEN x.root[1] ELSE x.key[1]

OneTime(m) == SessionOf(m).oneTime # None

(* Whatever message arrives in whatever order, the record that the ratchet *)
(* produces passes validate_signal_provider_session_record: validation     *)
(* never refuses a message that verifies.                                  *)
ValidationNeverRefuses ==
  \A m \in net :
    LET rec == session[Peer(m.from)] IN
    rec # None => LET r == Advance(rec, m) IN r # None => Valid(r)

(* encrypt_existing_session_record_message never encrypts two messages     *)
(* under one key, whatever tasks of a party send at the same time.         *)
KeyNeverReused ==
  \A m1, m2 \in net :
    m1.key = m2.key /\ m1.counter = m2.counter => m1 = m2

(* A message of a session set up with a one-time pre-key is decrypted at   *)
(* most once, however often the network or the server delivers it and      *)
(* whichever processor takes it.                                           *)
AtMostOnce == \A m \in twice : ~OneTime(m)

(* store_inbound_pre_key_session_records consumes a one-time pre-key for   *)
(* one session only, although several first messages may name it.          *)
PreKeyUsedOnce ==
  \A m1, m2 \in accepted :
    (/\ m1.pre # None /\ m2.pre # None /\ OneTime(m1)
     /\ m1.from = m2.from /\ m1.pre.oneTime = m2.pre.oneTime)
    => m1.pre.base = m2.pre.base

(* While both ends are in one session, no order of delivery makes a        *)
(* message undecryptable: the keys of skipped messages and of superseded   *)
(* chains are kept, and only those that gave way at the limit on them are  *)
(* lost (as long as no message can reach the limit on forward jumps).      *)
SameSessionDecrypts ==
  \A m \in net \ accepted :
    LET rec == session[Peer(m.from)] IN
    (/\ rec # None /\ SessionOf(rec) = SessionOf(m) /\ OneTime(m)
     /\ \A k \in rec.lost : ~(SameKey(k, m) /\ k.key = m.key)
     /\ MaxSends <= MaxJump + 1)
    => Decrypt(rec, m) # None
=============================================================================
