--------------------------- MODULE SessionRecords ---------------------------
(***************************************************************************)
(* The records a client keeps of one peer device under several addresses   *)
(* (its phone number and its LID): the injected bundle and the identity it *)
(* came with, the provider's session and the identity that session is for. *)
(* Tasks assert, refresh, delete, migrate and encrypt with them at once    *)
(* (wa-core/src/signal.rs, assert_sessions and apply_retry_session_action  *)
(* of wa-client/src/lib.rs).                                               *)
(*                                                                         *)
(* A transaction under the lock of one address is one step that waits for  *)
(* the lock; an operation on several addresses takes their locks one by    *)
(* one.  A session is its identity, the ratchet it was made with and the   *)
(* index of its next message; receiving is the subject of SignalSession.   *)
(***************************************************************************)
EXTENDS Integers, FiniteSets

CONSTANTS Tasks,
          Addresses,     \* numbered in the order of their lock keys
          Query,         \* address -> the one bundles are asked for (LID)
          MaxIdentities, \* bound: identities the peer has, one per reinstall
          MaxOperations, \* bound: operations begun
          None

Identities == 1 .. MaxIdentities

Sessions == [identity : Identities, ratchet : Nat, next : Nat]

ASSUME RecordsAssumption ==
  /\ Addresses \subseteq Nat /\ IsFiniteSet(Addresses)
  /\ Query \in [Addresses -> Addresses]
  /\ MaxIdentities \in Nat \ {0} /\ MaxOperations \in Nat
  /\ None \notin Nat /\ None \notin Sessions

VARIABLES peer,      \* identity of the peer's present installation
          native,    \* address -> identity in the injected bundle, or None
          nativeId,  \* address -> identity stored beside it, or None
          provider,  \* address -> session of the provider, or None
          providerId,\* address -> identity stored beside it, or None
          ratchets,  \* ratchets made so far
          sent,      \* message keys used: <<ratchet, index>>
          reused,    \* ratchets a key of which was used a second time
          copied,    \* ratchets copied from one address to another
          asserted,  \* addresses a task found or made usable, since intact
          operations,\* operations begun
          pc,        \* task -> position
          at,        \* task -> address it works for
          read,      \* task -> identity or session it has read, or None
          work,      \* task -> addresses still to lock
          holds      \* task -> addresses locked

recordVars == <<native, nativeId, provider, providerId>>
keyVars == <<ratchets, sent, reused, copied>>
taskVars == <<pc, at, read, work, holds>>
lockVars == <<work, holds>>
vars == <<peer, recordVars, keyVars, asserted, operations, taskVars>>

Init ==
  /\ peer = 1
  /\ native = [a \in Addresses |-> None]
  /\ nativeId = [a \in Addresses |-> None]
  /\ provider = [a \in Addresses |-> None]
  /\ providerId = [a \in Addresses |-> None]
  /\ ratchets = 0
  /\ sent = {} /\ reused = {} /\ copied = {} /\ asserted = {}
  /\ operations = 0
  /\ pc = [t \in Tasks |-> "idle"]
  /\ at = [t \in Tasks |-> None]
  /\ read = [t \in Tasks |-> None]
  /\ work = [t \in Tasks |-> {}]
  /\ holds = [t \in Tasks |-> {}]

-----------------------------------------------------------------------------
(* Records and locks.                                                      *)

Free(a) == \A t \in Tasks : a \notin holds[t]

NativeValid(a) == native[a] # None /\ nativeId[a] = native[a]

ProviderValid(a) ==
  provider[a] # None /\ providerId[a] = provider[a].identity

\* Mutant: an identity that is stored is replaced without a word.
AcceptsAny(a, i) == TRUE

\* A stored identity is never replaced by another one.
Accepts(a, i) == providerId[a] \in {None, i}

\* The pair the provider has at address a from now on.
StorePair(a, s, i) ==
  /\ provider' = [provider EXCEPT ![a] = s]
  /\ providerId' = [providerId EXCEPT ![a] = i]

InjectAt(a, i) ==
  /\ native' = [native EXCEPT ![a] = i]
  /\ nativeId' = [nativeId EXCEPT ![a] = i]
  /\ StorePair(a, None, None)

Fresh(i) == [identity |-> i, ratchet |-> ratchets + 1, next |-> 0]

Goes(t, label) == pc' = [pc EXCEPT ![t] = label]

\* The operation of t is over.
Ends(t) ==
  /\ Goes(t, "idle")
  /\ at' = [at EXCEPT ![t] = None] /\ read' = [read EXCEPT ![t] = None]

\* The operation of t goes on, with what it has read.
Reads(t, label, v) ==
  /\ Goes(t, label)
  /\ read' = [read EXCEPT ![t] = v] /\ UNCHANGED at

Moves(t, label) == Goes(t, label) /\ UNCHANGED <<at, read>>

Begins(t, label, a) ==
  /\ pc[t] = "idle" /\ operations < MaxOperations
  /\ operations' = operations + 1
  /\ at' = [at EXCEPT ![t] = a]
  /\ Goes(t, label)

-----------------------------------------------------------------------------
(* assert_sessions for one address: look for a session, copy the one of    *)
(* the queried address, or fetch a bundle.                                 *)

StartAssert(t) ==
  /\ \E a \in Addresses, label \in {"native", "fetch"} : Begins(t, label, a)
  /\ UNCHANGED <<peer, recordVars, keyVars, asserted, read, lockVars>>

\* A retry receipt that brings a bundle, when no other address has a session.
StartBundle(t) ==
  /\ \E a \in Addresses : Begins(t, "inject at", a)
  /\ \E i \in 1 .. peer : read' = [read EXCEPT ![t] = i]
  /\ UNCHANGED <<peer, recordVars, keyVars, asserted, lockVars>>

\* The address of t is usable: nothing else to do for it.
Asserted(t) ==
  /\ asserted' = asserted \cup {at[t]}
  /\ Ends(t)

Searches(t, label) == Moves(t, label) /\ UNCHANGED asserted

ValidateNative(t) ==
  /\ pc[t] = "native"
  /\ \/ NativeValid(at[t]) /\ Asserted(t)
     \/ ~NativeValid(at[t]) /\ Searches(t, "provider")
  /\ UNCHANGED <<peer, recordVars, keyVars, operations, lockVars>>

ValidateProvider(t) ==
  /\ pc[t] = "provider" /\ Free(at[t])
  /\ \/ ProviderValid(at[t]) /\ Asserted(t)
     \/ /\ ~ProviderValid(at[t])
        /\ Searches(t, IF Query[at[t]] = at[t] THEN "fetch" ELSE "alias native")
  /\ UNCHANGED <<peer, recordVars, keyVars, operations, lockVars>>

AliasNative(t) ==
  LET q == Query[at[t]] IN
  /\ pc[t] = "alias native" /\ Free(q)
  /\ \/ /\ NativeValid(q)
        /\ Reads(t, "inject at", native[q]) /\ UNCHANGED asserted
     \/ ~NativeValid(q) /\ Searches(t, "alias provider")
  /\ UNCHANGED <<peer, recordVars, keyVars, operations, lockVars>>

AliasProvider(t) ==
  LET q == Query[at[t]] IN
  /\ pc[t] = "alias provider" /\ Free(q)
  /\ Searches(t, IF ProviderValid(q) THEN "load session" ELSE "fetch")
  /\ UNCHANGED <<peer, recordVars, keyVars, operations, lockVars>>

\* Loaded without a lock, after the validation.
LoadSession(t) ==
  LET q == Query[at[t]] IN
  /\ pc[t] = "load session"
  /\ \/ provider[q] = None /\ Moves(t, "fetch")
     \/ provider[q] # None /\ Reads(t, "load identity", provider[q])
  /\ UNCHANGED <<peer, recordVars, keyVars, asserted, operations, lockVars>>

\* The identity beside it may by now be that of another session: the copy is
\* refused then, and wherever it is not the identity the address has.
LoadIdentity(t) ==
  LET i == providerId[Query[at[t]]] IN
  /\ pc[t] = "load identity"
  /\ \/ i = None /\ Reads(t, "fetch", None) /\ UNCHANGED asserted
     \/ i = read[t].identity /\ Searches(t, "copy")
     \/ i \notin {None, read[t].identity} /\ Ends(t) /\ UNCHANGED asserted
  /\ UNCHANGED <<peer, recordVars, keyVars, operations, lockVars>>

\* Mutant: the session is copied, the identity it is for is not.
CopySessionOnly(t) ==
  LET s == read[t] IN
  /\ pc[t] = "copy" /\ Free(at[t])
  /\ provider' = [provider EXCEPT ![at[t]] = s]
  /\ copied' = copied \cup {s.ratchet}
  /\ Asserted(t)
  /\ UNCHANGED <<peer, native, nativeId, providerId, ratchets, sent, reused,
                 operations, lockVars>>

Copy(t) ==
  LET a == at[t]  s == read[t] IN
  /\ pc[t] = "copy" /\ Free(a)
  /\ \/ /\ Accepts(a, s.identity)
        /\ StorePair(a, s, s.identity)
        /\ copied' = copied \cup {s.ratchet}
        /\ Asserted(t)
     \/ /\ ~Accepts(a, s.identity) /\ Ends(t)
        /\ UNCHANGED <<provider, providerId, copied, asserted>>
  /\ UNCHANGED <<peer, native, nativeId, ratchets, sent, reused, operations, lockVars>>

\* The answer carries the peer's bundle of the moment, or none.
Fetch(t) ==
  /\ pc[t] = "fetch"
  /\ \/ Reads(t, "inject", peer)
     \/ Ends(t)
  /\ UNCHANGED <<peer, recordVars, keyVars, asserted, operations, lockVars>>

\* The bundle goes to the queried address, then to the one asked about.
InjectQueried(t) ==
  LET q == Query[at[t]] IN
  /\ pc[t] = "inject" /\ Free(q)
  /\ InjectAt(q, read[t])
  /\ \/ q = at[t] /\ Asserted(t)
     \/ q # at[t] /\ Searches(t, "inject at")
  /\ UNCHANGED <<peer, keyVars, operations, lockVars>>

InjectAsked(t) ==
  /\ pc[t] = "inject at" /\ Free(at[t])
  /\ InjectAt(at[t], read[t])
  /\ Asserted(t)
  /\ UNCHANGED <<peer, keyVars, operations, lockVars>>

-----------------------------------------------------------------------------
(* encrypt_message: the bundle is read first, the provider's session is    *)
(* tried next, and a session is made of the bundle when there is none.     *)

StartEncrypt(t) ==
  /\ \E a \in Addresses : Begins(t, "read", a)
  /\ UNCHANGED <<peer, recordVars, keyVars, asserted, read, lockVars>>

ReadBundle(t) ==
  /\ pc[t] = "read" /\ Free(at[t])
  /\ Reads(t, "encrypt", IF NativeValid(at[t]) THEN native[at[t]] ELSE None)
  /\ UNCHANGED <<peer, recordVars, keyVars, asserted, operations, lockVars>>

\* A message is encrypted with message key k of its session.
Uses(k) ==
  /\ sent' = sent \cup {k}
  /\ reused' = IF k \in sent THEN reused \cup {k[1]} ELSE reused

EncryptExisting(t) ==
  LET a == at[t] IN
  /\ pc[t] = "encrypt" /\ Free(a) /\ ProviderValid(a)
  /\ Uses(<<provider[a].ratchet, provider[a].next>>)
  /\ provider' = [provider EXCEPT ![a].next = @ + 1]
  /\ Ends(t)
  /\ UNCHANGED <<peer, native, nativeId, providerId, ratchets, copied, asserted,
                 operations, lockVars>>

\* No session: one is made of the bundle.  The send fails without a bundle,
\* and with a session whose identity is another one.
EncryptMissing(t) ==
  LET mismatch == provider[at[t]] # None /\ providerId[at[t]] # None IN
  /\ pc[t] = "encrypt" /\ Free(at[t]) /\ ~ProviderValid(at[t])
  /\ IF read[t] = None \/ mismatch THEN Ends(t) ELSE Moves(t, "first")
  /\ UNCHANGED <<peer, recordVars, keyVars, asserted, operations, lockVars>>

StoreFirst(t) ==
  LET a == at[t]  i == read[t] IN
  /\ pc[t] = "first" /\ Free(a)
  /\ Ends(t)
  /\ \/ /\ Accepts(a, i)
        /\ StorePair(a, [Fresh(i) EXCEPT !.next = 1], i)
        /\ Uses(<<ratchets + 1, 0>>)
        /\ ratchets' = ratchets + 1
     \/ ~Accepts(a, i) /\ UNCHANGED <<provider, providerId, ratchets, sent, reused>>
  /\ UNCHANGED <<peer, native, nativeId, copied, asserted, operations, lockVars>>

-----------------------------------------------------------------------------
(* Operations on several addresses: their locks are taken in order.        *)

\* A retry deletes the sessions of the participant's addresses; so does a
\* notification that devices were removed.
StartDelete(t) ==
  /\ \E as \in (SUBSET Addresses) \ {{}} :
       /\ \E a \in Addresses : Begins(t, "delete", a)
       /\ work' = [work EXCEPT ![t] = as]
  /\ UNCHANGED <<peer, recordVars, keyVars, asserted, read, holds>>

\* at[t] is the address migrated from.
StartMigrate(t) ==
  /\ \E from \in Addresses, to \in Addresses :
       /\ from # to
       /\ Begins(t, "migrate", from)
       /\ work' = [work EXCEPT ![t] = {from, to}]
  /\ UNCHANGED <<peer, recordVars, keyVars, asserted, read, holds>>

\* Mutant: the locks are taken in the order the addresses are given.
LockAsGiven(t) == IF at[t] \in work[t] THEN at[t] ELSE CHOOSE a \in work[t] : TRUE

NextLock(t) == CHOOSE a \in work[t] : \A b \in work[t] : a <= b

TakeLock(t) ==
  /\ work[t] # {} /\ Free(NextLock(t))
  /\ holds' = [holds EXCEPT ![t] = @ \cup {NextLock(t)}]
  /\ work' = [work EXCEPT ![t] = @ \ {NextLock(t)}]
  /\ UNCHANGED <<peer, recordVars, keyVars, asserted, operations, pc, at, read>>

Release(t) == holds' = [holds EXCEPT ![t] = {}] /\ UNCHANGED work

Cleared(f, as) == [a \in Addresses |-> IF a \in as THEN None ELSE f[a]]

\* What follows: nothing, a forced refresh of an address, or the bundle the
\* retry receipt brought, injected at an address that was not deleted.
DeleteSessions(t) ==
  /\ pc[t] = "delete" /\ work[t] = {}
  /\ native' = Cleared(native, holds[t])
  /\ provider' = Cleared(provider, holds[t])
  /\ providerId' = Cleared(providerId, holds[t])
  /\ asserted' = asserted \ holds[t]
  /\ Release(t)
  /\ \/ Ends(t)
     \/ at[t] \in holds[t] /\ Moves(t, "fetch")
     \/ /\ at[t] \notin holds[t]
        /\ \E i \in 1 .. peer : Reads(t, "inject at", i)
  /\ UNCHANGED <<peer, nativeId, keyVars, operations>>

\* Records move only to an address that has none of their kind.
MovesNative(from, to) ==
  /\ native[to] = None /\ nativeId[to] = None
  /\ nativeId[from] # None /\ native[from] \in {None, nativeId[from]}

MovesProvider(from, to) ==
  /\ provider[to] = None /\ providerId[to] = None
  /\ providerId[from] # None
  /\ provider[from] = None \/ ProviderValid(from)

\* Mutant: the source keeps its records.
CopiedTo(f, from, to) == [f EXCEPT ![to] = f[from]]

Moved(f, from, to) == [f EXCEPT ![to] = f[from], ![from] = None]

Migrate(t) ==
  LET from == at[t]  to == CHOOSE b \in holds[t] : b # from IN
  /\ pc[t] = "migrate" /\ work[t] = {}
  /\ IF MovesNative(from, to)
       THEN native' = Moved(native, from, to) /\ nativeId' = Moved(nativeId, from, to)
       ELSE UNCHANGED <<native, nativeId>>
  /\ IF MovesProvider(from, to)
       THEN /\ provider' = Moved(provider, from, to)
            /\ providerId' = Moved(providerId, from, to)
       ELSE UNCHANGED <<provider, providerId>>
  /\ asserted' = IF MovesNative(from, to) \/ MovesProvider(from, to)
                   THEN asserted \ {from} ELSE asserted
  /\ Ends(t) /\ Release(t)
  /\ UNCHANGED <<peer, keyVars, operations>>

-----------------------------------------------------------------------------
(* Operations of one transaction.                                          *)

Counts == operations < MaxOperations /\ operations' = operations + 1

\* Mutant: a changed identity leaves the sessions alone.
SaveIdentityOnly(a, i) ==
  /\ Counts /\ Free(a)
  /\ nativeId[a] # i
  /\ nativeId' = [nativeId EXCEPT ![a] = i]
  /\ UNCHANGED <<peer, native, provider, providerId, asserted, keyVars, taskVars>>

\* save_identity: sessions with another identity are dropped.
SaveIdentity(a, i) ==
  /\ Counts /\ Free(a)
  /\ nativeId[a] # i
  /\ nativeId' = [nativeId EXCEPT ![a] = i]
  /\ \/ nativeId[a] = None /\ UNCHANGED <<native, provider, providerId, asserted>>
     \/ /\ nativeId[a] # None
        /\ native' = [native EXCEPT ![a] = None]
        /\ StorePair(a, None, None)
        /\ asserted' = asserted \ {a}
  /\ UNCHANGED <<peer, keyVars, taskVars>>

\* A first message that an installation of the peer sent, the present one or
\* an earlier one, decrypts: its session replaces the one there is.
StoreInbound(a, i) ==
  /\ Counts /\ Free(a)
  /\ i <= peer /\ Accepts(a, i)
  /\ StorePair(a, Fresh(i), i)
  /\ ratchets' = ratchets + 1
  /\ UNCHANGED <<peer, native, nativeId, sent, reused, copied, asserted, taskVars>>

\* delete_session_record and delete_identity_record take the other of the
\* two records with them.
DeleteProviderRecords(a) ==
  /\ Counts /\ Free(a)
  /\ provider[a] # None
  /\ StorePair(a, None, None)
  /\ asserted' = asserted \ {a}
  /\ UNCHANGED <<peer, native, nativeId, keyVars, taskVars>>

\* The peer installs anew: a new identity.
Reinstall ==
  /\ peer < MaxIdentities
  /\ peer' = peer + 1
  /\ UNCHANGED <<recordVars, keyVars, asserted, operations, taskVars>>

-----------------------------------------------------------------------------
AssertStep(t) ==
  \/ StartAssert(t) \/ StartBundle(t)
  \/ ValidateNative(t) \/ ValidateProvider(t)
  \/ AliasNative(t) \/ AliasProvider(t) \/ LoadSession(t) \/ LoadIdentity(t)
  \/ Copy(t) \/ Fetch(t) \/ InjectQueried(t) \/ InjectAsked(t)

EncryptStep(t) ==
  \/ StartEncrypt(t) \/ ReadBundle(t) \/ EncryptExisting(t)
  \/ EncryptMissing(t) \/ StoreFirst(t)

LockedStep(t) ==
  \/ StartDelete(t) \/ StartMigrate(t) \/ TakeLock(t)
  \/ DeleteSessions(t) \/ Migrate(t)

Next ==
  \/ \E t \in Tasks : AssertStep(t) \/ EncryptStep(t) \/ LockedStep(t)
  \/ \E a \in Addresses, i \in Identities : SaveIdentity(a, i) \/ StoreInbound(a, i)
  \/ \E a \in Addresses : DeleteProviderRecords(a)
  \/ Reinstall

Spec == Init /\ [][Next]_vars

-----------------------------------------------------------------------------
\* What a task works for and what it has read, by the label it is at.
AtOK(label, a) == a \in IF label = "idle" THEN {None} ELSE Addresses

ReadOK(label, v) ==
  CASE label \in {"load identity", "copy"} -> v \in Sessions
    [] label \in {"inject", "inject at", "first"} -> v \in Identities
    [] label = "encrypt" -> v \in Identities \cup {None}
    [] label \in {"idle", "native", "provider", "alias native", "alias provider",
                  "load session", "fetch", "read", "delete", "migrate"} -> v = None

TasksOK ==
  /\ DOMAIN pc = Tasks /\ DOMAIN at = Tasks /\ DOMAIN read = Tasks
  /\ \A t \in Tasks : AtOK(pc[t], at[t]) /\ ReadOK(pc[t], read[t])

TypeOK ==
  /\ peer \in Identities
  /\ native \in [Addresses -> Identities \cup {None}]
  /\ nativeId \in [Addresses -> Identities \cup {None}]
  /\ provider \in [Addresses -> Sessions \cup {None}]
  /\ providerId \in [Addresses -> Identities \cup {None}]
  /\ ratchets \in Nat /\ operations \in Nat
  /\ sent \subseteq Nat \X Nat /\ reused \subseteq Nat /\ copied \subseteq Nat
  /\ asserted \subseteq Addresses
  /\ work \in [Tasks -> SUBSET Addresses]
  /\ holds \in [Tasks -> SUBSET Addresses]
  /\ TasksOK

\* No record is ever kept beside one of another identity: a bundle has the
\* identity stored with it, a session of the provider the one it is for
\* (encrypt_existing_session_record_message fails for good on such a pair).
PairsAgree ==
  \A a \in Addresses :
    /\ native[a] # None => nativeId[a] = native[a]
    /\ provider[a] # None => providerId[a] = provider[a].identity
    /\ provider[a] = None => providerId[a] = None

\* An address that assert_sessions reported and nothing has deleted since can
\* be encrypted to, whatever other tasks inject, copy, migrate or receive.
AssertedUsable == \A a \in asserted : NativeValid(a) \/ ProviderValid(a)

\* Two messages are never encrypted with one key, except by sessions that
\* assert_sessions copied from the queried address to its alias.
KeyUsedOnce == reused \subseteq copied

\* Tasks that take the locks of several addresses never wait for each other
\* in a circle.
NoCircularWait ==
  ~ \E ts \in (SUBSET Tasks) \ {{}} : \A t \in ts :
       work[t] # {} /\ \E u \in ts \ {t} : NextLock(t) \in holds[u]

\* The identity the provider trusts at an address is never exchanged for
\* another one: it has to be dropped first, with its session.
IdentityPinned ==
  [][\A a \in Addresses :
       providerId[a] # None /\ providerId'[a] # None => providerId'[a] = providerId[a]]_vars
=============================================================================
