---------------------------- MODULE RecordProofs ----------------------------
(***************************************************************************)
(* Invariance proofs for SessionRecords: for every set of tasks and of     *)
(* addresses, and for every bound.                                         *)
(***************************************************************************)
EXTENDS SessionRecords, FiniteSetTheorems, WellFoundedInduction, TLAPS

-----------------------------------------------------------------------------
(* Locks.                                                                  *)

\* A nonempty set of addresses has a least and a greatest one.
LEMMA Extremes ==
  ASSUME NEW S \in SUBSET Addresses, S # {}
  PROVE  /\ \E a \in S : \A b \in S : a <= b
         /\ \E a \in S : \A b \in S : b <= a
<1> DEFINE R == StrictSubsetOrdering(Addresses)
           Below(a) == {b \in S : b <= a}
           Above(a) == {b \in S : a <= b}
<1>1. IsWellFoundedOn(R, SUBSET Addresses)
  BY FS_StrictSubsetOrderingWellFounded, FS_FiniteSubsetsOfFinite, RecordsAssumption
<1>2. S \subseteq Nat
  BY RecordsAssumption
<1>3. \E a \in S : \A b \in S : a <= b
  <2> DEFINE T == {Below(a) : a \in S}
  <2>1. T \subseteq SUBSET Addresses /\ T # {}
    OBVIOUS
  <2> HIDE DEF R, T
  <2>2. PICK x \in T : \A y \in T : <<y, x>> \notin R
    BY <1>1, <2>1, WFMin
  <2>3. PICK a \in S : x = Below(a)
    BY DEF T
  <2>4. ASSUME NEW b \in S, b < a PROVE FALSE
    <3>1. Below(b) \in T
      BY DEF T
    <3>2. Below(b) \subseteq x /\ a \in x /\ a \notin Below(b)
      <4>1. a \in Nat /\ b \in Nat
        BY <1>2
      <4>2. \A c \in S : c <= b => c <= a
        BY <1>2, <2>4, <4>1
      <4>3. a <= a /\ ~(a <= b)
        BY <2>4, <4>1
      <4>4. QED BY <2>3, <4>2, <4>3
    <3>3. <<Below(b), x>> \in R
      BY <2>1, <3>1, <3>2 DEF R, StrictSubsetOrdering
    <3>4. QED BY <2>2, <3>1, <3>3
  <2>5. QED BY <1>2, <2>4
<1>4. \E a \in S : \A b \in S : b <= a
  <2> DEFINE T == {Above(a) : a \in S}
  <2>1. T \subseteq SUBSET Addresses /\ T # {}
    OBVIOUS
  <2> HIDE DEF R, T
  <2>2. PICK x \in T : \A y \in T : <<y, x>> \notin R
    BY <1>1, <2>1, WFMin
  <2>3. PICK a \in S : x = Above(a)
    BY DEF T
  <2>4. ASSUME NEW b \in S, a < b PROVE FALSE
    <3>1. Above(b) \in T
      BY DEF T
    <3>2. Above(b) \subseteq x /\ a \in x /\ a \notin Above(b)
      <4>1. a \in Nat /\ b \in Nat
        BY <1>2
      <4>2. \A c \in S : b <= c => a <= c
        BY <1>2, <2>4, <4>1
      <4>3. a <= a /\ ~(b <= a)
        BY <2>4, <4>1
      <4>4. QED BY <2>3, <4>2, <4>3
    <3>3. <<Above(b), x>> \in R
      BY <2>1, <3>1, <3>2 DEF R, StrictSubsetOrdering
    <3>4. QED BY <2>2, <3>1, <3>3
  <2>5. QED BY <1>2, <2>4
<1>5. QED BY <1>3, <1>4

\* The next lock is the least one left to take.
LEMMA LeastLock ==
  ASSUME work \in [Tasks -> SUBSET Addresses], NEW t \in Tasks, work[t] # {}
  PROVE  NextLock(t) \in work[t] /\ \A b \in work[t] : NextLock(t) <= b
<1>1. \E a \in work[t] : \A b \in work[t] : a <= b
  BY Extremes
<1>2. QED BY <1>1 DEF NextLock

-----------------------------------------------------------------------------
(* Types.                                                                  *)

\* The steps that change nothing but the task that takes them.
Quiet(t) ==
  \/ StartAssert(t) \/ StartBundle(t) \/ ValidateNative(t) \/ ValidateProvider(t)
  \/ AliasNative(t) \/ AliasProvider(t) \/ LoadSession(t) \/ LoadIdentity(t)
  \/ Fetch(t) \/ StartEncrypt(t) \/ ReadBundle(t) \/ EncryptMissing(t)
  \/ StartDelete(t) \/ StartMigrate(t) \/ TakeLock(t)

RecordsOK ==
  /\ native \in [Addresses -> Identities \cup {None}]
  /\ nativeId \in [Addresses -> Identities \cup {None}]
  /\ provider \in [Addresses -> Sessions \cup {None}]
  /\ providerId \in [Addresses -> Identities \cup {None}]

\* The types of tasks through a step of one of them.
LEMMA OneTaskMoves ==
  ASSUME TasksOK, NEW t \in Tasks, NEW label, NEW a, NEW v,
         pc' = [pc EXCEPT ![t] = label],
         (at' = at /\ a = at[t]) \/ at' = [at EXCEPT ![t] = a],
         (read' = read /\ v = read[t]) \/ read' = [read EXCEPT ![t] = v],
         AtOK(label, a), ReadOK(label, v)
  PROVE  TasksOK'
<1>1. /\ DOMAIN pc' = Tasks /\ DOMAIN at' = Tasks /\ DOMAIN read' = Tasks
      /\ pc'[t] = label /\ at'[t] = a /\ read'[t] = v
      /\ \A u \in Tasks \ {t} : pc'[u] = pc[u] /\ at'[u] = at[u] /\ read'[u] = read[u]
  BY DEF TasksOK
<1>2. \A u \in Tasks : AtOK(pc'[u], at'[u]) /\ ReadOK(pc'[u], read'[u])
  BY <1>1 DEF TasksOK
<1>3. QED BY <1>1, <1>2 DEF TasksOK, AtOK, ReadOK

LEMMA EndsTypes ==
  ASSUME TasksOK, NEW t \in Tasks, Ends(t)
  PROVE  TasksOK'
<1>1. AtOK("idle", None) /\ ReadOK("idle", None)
  BY DEF AtOK, ReadOK
<1>2. QED BY <1>1, OneTaskMoves DEF Ends, Goes

LEMMA MovesTypes ==
  ASSUME TasksOK, NEW t \in Tasks, NEW label, Moves(t, label),
         label # "idle", pc[t] # "idle", ReadOK(label, read[t])
  PROVE  TasksOK'
<1>1. AtOK(label, at[t])
  BY DEF AtOK, TasksOK
<1>2. QED BY <1>1, OneTaskMoves DEF Moves, Goes

LEMMA ReadsTypes ==
  ASSUME TasksOK, NEW t \in Tasks, NEW label, NEW v, Reads(t, label, v),
         label # "idle", pc[t] # "idle", ReadOK(label, v)
  PROVE  TasksOK'
<1>1. AtOK(label, at[t])
  BY DEF AtOK, TasksOK
<1>2. QED BY <1>1, OneTaskMoves DEF Reads, Goes

LEMMA BeginsTypes ==
  ASSUME TasksOK, NEW t \in Tasks, NEW label, NEW a \in Addresses, NEW v,
         Begins(t, label, a), label # "idle",
         (read' = read /\ v = read[t]) \/ read' = [read EXCEPT ![t] = v],
         ReadOK(label, v)
  PROVE  TasksOK'
<1>1. AtOK(label, a)
  BY DEF AtOK
<1>2. QED BY <1>1, OneTaskMoves DEF Begins, Goes

\* The labels at which a task has read nothing.
LEMMA ReadsNothing ==
  ASSUME TasksOK, NEW t \in Tasks,
         pc[t] \in {"idle", "native", "provider", "alias native", "alias provider",
                    "load session", "fetch", "read", "delete", "migrate"}
  PROVE  /\ read[t] = None
         /\ \A label \in {"idle", "native", "provider", "alias native", "alias provider",
                         "load session", "fetch", "read", "delete", "migrate"} :
              ReadOK(label, read[t])
<1>1. ReadOK(pc[t], read[t])
  BY DEF TasksOK
<1>2. read[t] = None
  BY <1>1 DEF ReadOK
<1>3. QED BY <1>2 DEF ReadOK

LEMMA QuietTypes ==
  ASSUME TypeOK, NEW t \in Tasks, Quiet(t)
  PROVE  TasksOK'
<1>0. TasksOK /\ RecordsOK
  BY DEF TypeOK, RecordsOK
<1>1. CASE StartAssert(t)
  <2>1. PICK a \in Addresses, label \in {"native", "fetch"} : Begins(t, label, a)
    BY <1>1 DEF StartAssert
  <2>2. pc[t] = "idle" /\ read' = read
    BY <1>1, <2>1 DEF StartAssert, Begins
  <2>3. ReadOK(label, read[t])
    BY <1>0, <2>2, ReadsNothing
  <2>4. QED BY <1>0, <2>1, <2>2, <2>3, BeginsTypes
<1>2. CASE StartBundle(t)
  <2>1. PICK a \in Addresses : Begins(t, "inject at", a)
    BY <1>2 DEF StartBundle
  <2>2. PICK i \in 1 .. peer : read' = [read EXCEPT ![t] = i]
    BY <1>2 DEF StartBundle
  <2>3. ReadOK("inject at", i)
    BY <2>2, RecordsAssumption DEF TypeOK, Identities, ReadOK
  <2>4. QED BY <1>0, <2>1, <2>2, <2>3, BeginsTypes
<1>3. CASE ValidateNative(t)
  <2>1. CASE Ends(t)
    BY <1>0, <2>1, EndsTypes
  <2>2. CASE Moves(t, "provider")
    <3>1. ReadOK("provider", read[t]) /\ pc[t] # "idle"
      BY <1>0, <1>3, ReadsNothing DEF ValidateNative
    <3>2. QED BY <1>0, <2>2, <3>1, MovesTypes
  <2>3. QED BY <1>3, <2>1, <2>2 DEF ValidateNative, Asserted, Searches
<1>4. CASE ValidateProvider(t)
  <2>1. CASE Ends(t)
    BY <1>0, <2>1, EndsTypes
  <2>2. ASSUME NEW label \in {"fetch", "alias native"}, Moves(t, label) PROVE TasksOK'
    <3>1. ReadOK(label, read[t]) /\ pc[t] # "idle"
      BY <1>0, <1>4, ReadsNothing DEF ValidateProvider
    <3>2. QED BY <1>0, <2>2, <3>1, MovesTypes
  <2>3. QED BY <1>4, <2>1, <2>2 DEF ValidateProvider, Asserted, Searches
<1>5. CASE AliasNative(t)
  <2> DEFINE q == Query[at[t]]
  <2>0. pc[t] = "alias native" /\ at[t] \in Addresses /\ q \in Addresses
    BY <1>0, <1>5, RecordsAssumption DEF AliasNative, TasksOK, AtOK
  <2>1. CASE NativeValid(q) /\ Reads(t, "inject at", native[q])
    <3>1. ReadOK("inject at", native[q])
      BY <1>0, <2>0, <2>1 DEF RecordsOK, NativeValid, ReadOK
    <3>2. QED BY <1>0, <2>0, <2>1, <3>1, ReadsTypes
  <2>2. CASE Moves(t, "alias provider")
    <3>1. ReadOK("alias provider", read[t])
      BY <1>0, <2>0, ReadsNothing
    <3>2. QED BY <1>0, <2>0, <2>2, <3>1, MovesTypes
  <2>3. QED BY <1>5, <2>1, <2>2 DEF AliasNative, Searches
<1>6. CASE AliasProvider(t)
  <2>0. pc[t] = "alias provider"
    BY <1>6 DEF AliasProvider
  <2>1. ASSUME NEW label \in {"fetch", "load session"}, Moves(t, label) PROVE TasksOK'
    <3>1. ReadOK(label, read[t])
      BY <1>0, <2>0, ReadsNothing
    <3>2. QED BY <1>0, <2>0, <2>1, <3>1, MovesTypes
  <2>2. QED BY <1>6, <2>1 DEF AliasProvider, Searches
<1>7. CASE LoadSession(t)
  <2> DEFINE q == Query[at[t]]
  <2>0. pc[t] = "load session" /\ at[t] \in Addresses /\ q \in Addresses
    BY <1>0, <1>7, RecordsAssumption DEF LoadSession, TasksOK, AtOK
  <2>1. CASE Moves(t, "fetch")
    <3>1. ReadOK("fetch", read[t])
      BY <1>0, <2>0, ReadsNothing
    <3>2. QED BY <1>0, <2>0, <2>1, <3>1, MovesTypes
  <2>2. CASE provider[q] # None /\ Reads(t, "load identity", provider[q])
    <3>1. ReadOK("load identity", provider[q])
      BY <1>0, <2>0, <2>2 DEF RecordsOK, ReadOK
    <3>2. QED BY <1>0, <2>0, <2>2, <3>1, ReadsTypes
  <2>3. QED BY <1>7, <2>1, <2>2 DEF LoadSession
<1>8. CASE LoadIdentity(t)
  <2>0. pc[t] = "load identity" /\ read[t] \in Sessions
    BY <1>0, <1>8 DEF LoadIdentity, TasksOK, ReadOK
  <2>1. CASE Reads(t, "fetch", None)
    <3>1. ReadOK("fetch", None)
      BY DEF ReadOK
    <3>2. QED BY <1>0, <2>0, <2>1, <3>1, ReadsTypes
  <2>2. CASE Moves(t, "copy")
    <3>1. ReadOK("copy", read[t])
      BY <2>0 DEF ReadOK
    <3>2. QED BY <1>0, <2>0, <2>2, <3>1, MovesTypes
  <2>3. CASE Ends(t)
    BY <1>0, <2>3, EndsTypes
  <2>4. QED BY <1>8, <2>1, <2>2, <2>3 DEF LoadIdentity, Searches
<1>9. CASE Fetch(t)
  <2>1. CASE Reads(t, "inject", peer)
    <3>1. ReadOK("inject", peer) /\ pc[t] # "idle"
      BY <1>9 DEF Fetch, TypeOK, ReadOK
    <3>2. QED BY <1>0, <2>1, <3>1, ReadsTypes
  <2>2. CASE Ends(t)
    BY <1>0, <2>2, EndsTypes
  <2>3. QED BY <1>9, <2>1, <2>2 DEF Fetch
<1>10. CASE StartEncrypt(t)
  <2>1. PICK a \in Addresses : Begins(t, "read", a)
    BY <1>10 DEF StartEncrypt
  <2>2. pc[t] = "idle" /\ read' = read
    BY <1>10, <2>1 DEF StartEncrypt, Begins
  <2>3. ReadOK("read", read[t])
    BY <1>0, <2>2, ReadsNothing
  <2>4. QED BY <1>0, <2>1, <2>2, <2>3, BeginsTypes
<1>11. CASE ReadBundle(t)
  <2> DEFINE i == IF NativeValid(at[t]) THEN native[at[t]] ELSE None
  <2>1. pc[t] = "read" /\ at[t] \in Addresses
    BY <1>0, <1>11 DEF ReadBundle, TasksOK, AtOK
  <2>2. ReadOK("encrypt", i)
    BY <1>0, <2>1 DEF RecordsOK, ReadOK
  <2>3. Reads(t, "encrypt", i)
    BY <1>11 DEF ReadBundle
  <2>4. QED BY <1>0, <2>1, <2>2, <2>3, ReadsTypes
<1>12. CASE EncryptMissing(t)
  <2>1. pc[t] = "encrypt" /\ read[t] \in Identities \cup {None}
    BY <1>0, <1>12 DEF EncryptMissing, TasksOK, ReadOK
  <2>2. CASE Ends(t)
    BY <1>0, <2>2, EndsTypes
  <2>3. CASE read[t] # None /\ Moves(t, "first")
    <3>1. ReadOK("first", read[t])
      BY <2>1, <2>3 DEF ReadOK
    <3>2. QED BY <1>0, <2>1, <2>3, <3>1, MovesTypes
  <2>4. QED BY <1>12, <2>2, <2>3 DEF EncryptMissing
<1>13. CASE StartDelete(t)
  <2>1. PICK a \in Addresses : Begins(t, "delete", a)
    BY <1>13 DEF StartDelete
  <2>2. pc[t] = "idle" /\ read' = read
    BY <1>13, <2>1 DEF StartDelete, Begins
  <2>3. ReadOK("delete", read[t])
    BY <1>0, <2>2, ReadsNothing
  <2>4. QED BY <1>0, <2>1, <2>2, <2>3, BeginsTypes
<1>14. CASE StartMigrate(t)
  <2>1. PICK a \in Addresses : Begins(t, "migrate", a)
    BY <1>14 DEF StartMigrate
  <2>2. pc[t] = "idle" /\ read' = read
    BY <1>14, <2>1 DEF StartMigrate, Begins
  <2>3. ReadOK("migrate", read[t])
    BY <1>0, <2>2, ReadsNothing
  <2>4. QED BY <1>0, <2>1, <2>2, <2>3, BeginsTypes
<1>15. CASE TakeLock(t)
  BY <1>0, <1>15 DEF TakeLock, TasksOK, AtOK, ReadOK
<1>16. QED
  BY <1>1, <1>2, <1>3, <1>4, <1>5, <1>6, <1>7, <1>8, <1>9, <1>10, <1>11, <1>12,
     <1>13, <1>14, <1>15 DEF Quiet

\* What a quiet step leaves as it is.
LEMMA QuietKeeps ==
  ASSUME NEW t \in Tasks, Quiet(t)
  PROVE  /\ UNCHANGED <<peer, recordVars, keyVars>>
         /\ operations' \in {operations, operations + 1}
         /\ \/ asserted' = asserted
            \/ /\ pc[t] # "idle"
               /\ NativeValid(at[t]) \/ ProviderValid(at[t])
               /\ asserted' = asserted \cup {at[t]}
<1> USE DEF Begins, Searches, Asserted, recordVars, keyVars
<1>1. CASE StartAssert(t) \/ StartBundle(t) \/ StartEncrypt(t)
  BY <1>1 DEF StartAssert, StartBundle, StartEncrypt
<1>2. CASE ValidateNative(t) \/ ValidateProvider(t)
  BY <1>2 DEF ValidateNative, ValidateProvider
<1>3. CASE AliasNative(t) \/ AliasProvider(t) \/ LoadSession(t) \/ LoadIdentity(t)
  BY <1>3 DEF AliasNative, AliasProvider, LoadSession, LoadIdentity
<1>4. CASE Fetch(t) \/ ReadBundle(t) \/ EncryptMissing(t)
  BY <1>4 DEF Fetch, ReadBundle, EncryptMissing
<1>5. CASE StartDelete(t) \/ StartMigrate(t) \/ TakeLock(t)
  BY <1>5 DEF StartDelete, StartMigrate, TakeLock
<1>6. QED BY <1>1, <1>2, <1>3, <1>4, <1>5 DEF Quiet

\* The locks and what is left to lock stay sets of addresses.
LEMMA LockTypes ==
  ASSUME TypeOK, NEW t \in Tasks, Quiet(t)
  PROVE  /\ work' \in [Tasks -> SUBSET Addresses]
         /\ holds' \in [Tasks -> SUBSET Addresses]
<1>0. /\ work \in [Tasks -> SUBSET Addresses]
      /\ holds \in [Tasks -> SUBSET Addresses]
  BY DEF TypeOK
<1>1. CASE StartDelete(t)
  BY <1>0, <1>1 DEF StartDelete
<1>2. CASE StartMigrate(t)
  <2>1. PICK from \in Addresses, to \in Addresses : work' = [work EXCEPT ![t] = {from, to}]
    BY <1>2 DEF StartMigrate
  <2>2. {from, to} \in SUBSET Addresses
    BY <2>1
  <2>3. holds' = holds
    BY <1>2 DEF StartMigrate
  <2> QED BY <1>0, <2>1, <2>2, <2>3
<1>3. CASE TakeLock(t)
  <2>1. NextLock(t) \in work[t]
    BY <1>0, <1>3, LeastLock DEF TakeLock
  <2>2. QED BY <1>0, <1>3, <2>1 DEF TakeLock
<1>4. CASE ~StartDelete(t) /\ ~StartMigrate(t) /\ ~TakeLock(t)
  BY <1>0, <1>4 DEF Quiet, StartAssert, StartBundle, ValidateNative, ValidateProvider,
     AliasNative, AliasProvider, LoadSession, LoadIdentity, Fetch, StartEncrypt,
     ReadBundle, EncryptMissing, lockVars
<1>5. QED BY <1>1, <1>2, <1>3, <1>4

\* Where a task works for an address, and what it has read there.
LEMMA TaskReads ==
  ASSUME TypeOK, NEW t \in Tasks
  PROVE  /\ pc[t] # "idle" => at[t] \in Addresses /\ Query[at[t]] \in Addresses
         /\ pc[t] \in {"load identity", "copy"} => read[t] \in Sessions
         /\ pc[t] \in {"inject", "inject at", "first"} => read[t] \in Identities
         /\ pc[t] = "migrate" => read[t] = None
BY RecordsAssumption DEF TypeOK, TasksOK, AtOK, ReadOK

\* The types of the records when the pair of one address is stored.
LEMMA PairTypes ==
  ASSUME RecordsOK, NEW a \in Addresses, NEW s \in Sessions \cup {None},
         NEW i \in Identities \cup {None}, StorePair(a, s, i)
  PROVE  /\ provider' \in [Addresses -> Sessions \cup {None}]
         /\ providerId' \in [Addresses -> Identities \cup {None}]
BY DEF RecordsOK, StorePair

LEMMA BusyTypes ==
  ASSUME TypeOK, NEW t \in Tasks, ~Quiet(t),
         AssertStep(t) \/ EncryptStep(t) \/ LockedStep(t)
  PROVE  TypeOK'
<1>0. TasksOK /\ RecordsOK
  BY DEF TypeOK, RecordsOK
<1>1. CASE Copy(t)
  <2> DEFINE s == read[t]  a == at[t]
  <2>1. a \in Addresses /\ s \in Sessions /\ s.identity \in Identities /\ s.ratchet \in Nat
    BY <1>1, TaskReads DEF Copy, Sessions
  <2>2. TasksOK'
    BY <1>0, <1>1, EndsTypes DEF Copy, Asserted
  <2>3. /\ provider' \in [Addresses -> Sessions \cup {None}]
        /\ providerId' \in [Addresses -> Identities \cup {None}]
    BY <1>0, <1>1, <2>1, PairTypes DEF Copy, RecordsOK
  <2>4. copied' \subseteq Nat /\ asserted' \subseteq Addresses
    BY <1>1, <2>1 DEF Copy, Asserted, TypeOK
  <2>5. QED BY <1>1, <2>2, <2>3, <2>4 DEF Copy, TypeOK, lockVars
<1>2. CASE InjectQueried(t)
  <2> DEFINE q == Query[at[t]]
  <2>1. pc[t] = "inject" /\ q \in Addresses /\ at[t] \in Addresses /\ read[t] \in Identities
    BY <1>2, TaskReads DEF InjectQueried
  <2>2. CASE q = at[t] /\ Asserted(t)
    <3>1. TasksOK'
      BY <1>0, <2>2, EndsTypes DEF Asserted
    <3>2. RecordsOK'
      BY <1>0, <1>2, <2>1, PairTypes DEF InjectQueried, InjectAt, RecordsOK
    <3>3. QED BY <1>2, <2>1, <2>2, <3>1, <3>2
            DEF InjectQueried, Asserted, TypeOK, RecordsOK, keyVars, lockVars
  <2>3. CASE Searches(t, "inject at")
    <3>1. ReadOK("inject at", read[t])
      BY <2>1 DEF ReadOK
    <3>2. TasksOK'
      BY <1>0, <2>1, <2>3, <3>1, MovesTypes DEF Searches
    <3>3. RecordsOK'
      BY <1>0, <1>2, <2>1, PairTypes DEF InjectQueried, InjectAt, RecordsOK
    <3>4. QED BY <1>2, <2>3, <3>2, <3>3
            DEF InjectQueried, Searches, TypeOK, RecordsOK, keyVars, lockVars
  <2>4. QED BY <1>2, <2>2, <2>3 DEF InjectQueried
<1>3. CASE InjectAsked(t)
  <2>1. at[t] \in Addresses /\ read[t] \in Identities
    BY <1>3, TaskReads DEF InjectAsked
  <2>2. TasksOK'
    BY <1>0, <1>3, EndsTypes DEF InjectAsked, Asserted
  <2>3. RecordsOK'
    BY <1>0, <1>3, <2>1, PairTypes DEF InjectAsked, InjectAt, RecordsOK
  <2>4. QED BY <1>3, <2>1, <2>2, <2>3
          DEF InjectAsked, Asserted, TypeOK, RecordsOK, keyVars, lockVars
<1>4. CASE EncryptExisting(t)
  <2> DEFINE a == at[t]
  <2>1. a \in Addresses /\ provider[a] \in Sessions
    BY <1>0, <1>4, TaskReads DEF EncryptExisting, ProviderValid, RecordsOK
  <2>2. [provider[a] EXCEPT !.next = @ + 1] \in Sessions
    BY <2>1 DEF Sessions
  <2>3. TasksOK'
    BY <1>0, <1>4, EndsTypes DEF EncryptExisting
  <2>4. provider' \in [Addresses -> Sessions \cup {None}]
    BY <1>0, <1>4, <2>1, <2>2 DEF EncryptExisting, RecordsOK
  <2>5. provider[a].ratchet \in Nat /\ provider[a].next \in Nat
    BY <2>1 DEF Sessions
  <2>6. sent' \subseteq Nat \X Nat /\ reused' \subseteq Nat
    BY <1>4, <2>5 DEF EncryptExisting, Uses, TypeOK
  <2>7. QED BY <1>4, <2>3, <2>4, <2>6 DEF EncryptExisting, TypeOK, lockVars
<1>5. CASE StoreFirst(t)
  <2> DEFINE a == at[t]  i == read[t]
  <2>1. a \in Addresses /\ i \in Identities
    BY <1>5, TaskReads DEF StoreFirst
  <2>2. TasksOK'
    BY <1>0, <1>5, EndsTypes DEF StoreFirst
  <2>3. [Fresh(i) EXCEPT !.next = 1] \in Sessions
    BY <2>1 DEF Fresh, Sessions, TypeOK
  <2>4. /\ provider' \in [Addresses -> Sessions \cup {None}]
        /\ providerId' \in [Addresses -> Identities \cup {None}]
    BY <1>0, <1>5, <2>1, <2>3, PairTypes DEF StoreFirst, RecordsOK
  <2>5. ratchets' \in Nat /\ sent' \subseteq Nat \X Nat /\ reused' \subseteq Nat
    BY <1>5 DEF StoreFirst, Uses, TypeOK
  <2>6. QED BY <1>5, <2>2, <2>4, <2>5 DEF StoreFirst, TypeOK, lockVars
<1>6. CASE DeleteSessions(t)
  <2>1. TasksOK'
    <3>1. CASE Ends(t)
      BY <1>0, <3>1, EndsTypes
    <3>2. CASE Moves(t, "fetch")
      <4>1. ReadOK("fetch", read[t])
        BY <1>0, <1>6, ReadsNothing DEF DeleteSessions
      <4>2. QED BY <1>0, <1>6, <3>2, <4>1, MovesTypes DEF DeleteSessions
    <3>3. ASSUME NEW i \in 1 .. peer, Reads(t, "inject at", i) PROVE TasksOK'
      <4>1. ReadOK("inject at", i)
        BY RecordsAssumption DEF TypeOK, Identities, ReadOK
      <4>2. QED BY <1>0, <1>6, <3>3, <4>1, ReadsTypes DEF DeleteSessions
    <3>4. QED BY <1>6, <3>1, <3>2, <3>3 DEF DeleteSessions
  <2>2. RecordsOK'
    BY <1>0, <1>6 DEF DeleteSessions, Cleared, RecordsOK
  <2>3. /\ work' \in [Tasks -> SUBSET Addresses] /\ holds' \in [Tasks -> SUBSET Addresses]
        /\ asserted' \subseteq Addresses
    BY <1>6 DEF DeleteSessions, Release, TypeOK
  <2>4. QED BY <1>6, <2>1, <2>2, <2>3 DEF DeleteSessions, TypeOK, RecordsOK, keyVars
<1>7. CASE Migrate(t)
  <2>1. TasksOK'
    BY <1>0, <1>7, EndsTypes DEF Migrate
  <2>2. at[t] \in Addresses
    BY <1>7, TaskReads DEF Migrate
  <2>3. RecordsOK'
    BY <1>0, <1>7, <2>2 DEF Migrate, Moved, RecordsOK
  <2>4. /\ work' \in [Tasks -> SUBSET Addresses] /\ holds' \in [Tasks -> SUBSET Addresses]
        /\ asserted' \subseteq Addresses
    BY <1>7 DEF Migrate, Release, TypeOK
  <2>5. QED BY <1>7, <2>1, <2>3, <2>4 DEF Migrate, TypeOK, RecordsOK, keyVars
<1>8. QED
  BY <1>1, <1>2, <1>3, <1>4, <1>5, <1>6, <1>7
     DEF AssertStep, EncryptStep, LockedStep, Quiet

LEMMA EnvironmentTypes ==
  ASSUME TypeOK,
         \/ \E a \in Addresses, i \in Identities : SaveIdentity(a, i) \/ StoreInbound(a, i)
         \/ \E a \in Addresses : DeleteProviderRecords(a)
         \/ Reinstall
  PROVE  TypeOK'
<1>0. TasksOK /\ RecordsOK
  BY DEF TypeOK, RecordsOK
<1>1. ASSUME NEW a \in Addresses, NEW i \in Identities, SaveIdentity(a, i) PROVE TypeOK'
  <2>1. TasksOK'
    BY <1>0, <1>1 DEF SaveIdentity, TasksOK, AtOK, ReadOK, taskVars
  <2>2. RecordsOK'
    BY <1>0, <1>1, PairTypes DEF SaveIdentity, RecordsOK
  <2>3. QED BY <1>1, <2>1, <2>2 DEF SaveIdentity, Counts, TypeOK, RecordsOK, keyVars, taskVars
<1>2. ASSUME NEW a \in Addresses, NEW i \in Identities, StoreInbound(a, i) PROVE TypeOK'
  <2>1. TasksOK'
    BY <1>0, <1>2 DEF StoreInbound, TasksOK, AtOK, ReadOK, taskVars
  <2>2. Fresh(i) \in Sessions
    BY DEF Fresh, Sessions, TypeOK
  <2>3. RecordsOK'
    BY <1>0, <1>2, <2>2, PairTypes DEF StoreInbound, RecordsOK
  <2>4. QED BY <1>2, <2>1, <2>3 DEF StoreInbound, Counts, TypeOK, RecordsOK, taskVars
<1>3. ASSUME NEW a \in Addresses, DeleteProviderRecords(a) PROVE TypeOK'
  <2>1. TasksOK'
    BY <1>0, <1>3 DEF DeleteProviderRecords, TasksOK, AtOK, ReadOK, taskVars
  <2>2. RecordsOK'
    BY <1>0, <1>3, PairTypes DEF DeleteProviderRecords, RecordsOK
  <2>3. QED BY <1>3, <2>1, <2>2
          DEF DeleteProviderRecords, Counts, TypeOK, RecordsOK, keyVars, taskVars
<1>4. CASE Reinstall
  <2>1. TasksOK'
    BY <1>0, <1>4 DEF Reinstall, TasksOK, AtOK, ReadOK, taskVars
  <2>2. peer' \in Identities
    BY <1>4, RecordsAssumption DEF Reinstall, TypeOK, Identities
  <2>3. QED BY <1>4, <2>1, <2>2 DEF Reinstall, TypeOK, recordVars, keyVars, taskVars
<1>5. QED BY <1>1, <1>2, <1>3, <1>4

\* TypeOK is an invariant: a task past the reading of a bundle or of a session
\* has one, and only addresses of the peer are ever locked.
THEOREM RecordsTypeCorrect == Spec => []TypeOK
<1>1. Init => TypeOK
  BY RecordsAssumption DEF Init, TypeOK, TasksOK, AtOK, ReadOK, Identities
<1>2. TypeOK /\ [Next]_vars => TypeOK'
  <2> SUFFICES ASSUME TypeOK, [Next]_vars PROVE TypeOK'
    OBVIOUS
  <2>1. ASSUME NEW t \in Tasks, Quiet(t) PROVE TypeOK'
    <3>1. TasksOK'
      BY <2>1, QuietTypes
    <3>2. /\ UNCHANGED <<peer, recordVars, keyVars>>
          /\ operations' \in Nat /\ asserted' \subseteq Addresses
      <4>1. operations \in Nat /\ asserted \subseteq Addresses
        BY DEF TypeOK
      <4>2. pc[t] # "idle" => at[t] \in Addresses
        BY TaskReads
      <4>3. asserted' = asserted \/ (pc[t] # "idle" /\ asserted' = asserted \cup {at[t]})
        BY <2>1, QuietKeeps
      <4>4. asserted' \subseteq Addresses
        BY <4>1, <4>2, <4>3
      <4>5. operations' \in Nat
        BY <2>1, <4>1, QuietKeeps
      <4>6. QED BY <2>1, <4>4, <4>5, QuietKeeps
    <3>3. QED BY <2>1, <3>1, <3>2, LockTypes DEF TypeOK, recordVars, keyVars
  <2>2. ASSUME NEW t \in Tasks, ~Quiet(t), AssertStep(t) \/ EncryptStep(t) \/ LockedStep(t)
        PROVE TypeOK'
    BY <2>2, BusyTypes
  <2>3. CASE UNCHANGED vars
    BY <2>3 DEF vars, recordVars, keyVars, taskVars, TypeOK, TasksOK, AtOK, ReadOK
  <2>4. QED BY <2>1, <2>2, <2>3, EnvironmentTypes DEF Next
<1>3. QED BY <1>1, <1>2, PTL DEF Spec

-----------------------------------------------------------------------------
(* Pairs of records.                                                       *)

\* The steps that change a record, as they leave the pairs.
Busy(t) ==
  \/ Copy(t) \/ InjectQueried(t) \/ InjectAsked(t) \/ EncryptExisting(t)
  \/ StoreFirst(t) \/ DeleteSessions(t) \/ Migrate(t)

LEMMA StepCases ==
  ASSUME [Next]_vars
  PROVE  \/ \E t \in Tasks : Quiet(t)
         \/ \E t \in Tasks : Busy(t)
         \/ \E a \in Addresses, i \in Identities : SaveIdentity(a, i)
         \/ \E a \in Addresses, i \in Identities : StoreInbound(a, i)
         \/ \E a \in Addresses : DeleteProviderRecords(a)
         \/ UNCHANGED <<recordVars, keyVars, asserted, taskVars>>
BY DEF Next, AssertStep, EncryptStep, LockedStep, Quiet, Busy, Reinstall, vars

\* A record map after what it has at one address has moved to another.
LEMMA MovedAt ==
  ASSUME NEW f, DOMAIN f = Addresses, NEW from, NEW to, NEW a \in Addresses
  PROVE  Moved(f, from, to)[a] = IF a = from THEN None ELSE IF a = to THEN f[from] ELSE f[a]
BY DEF Moved

\* Every step keeps the two records of an address in step.
LEMMA PairsKept ==
  ASSUME TypeOK, PairsAgree, [Next]_vars
  PROVE  PairsAgree'
<1>0. RecordsOK
  BY DEF TypeOK, RecordsOK
<1>1. ASSUME NEW t \in Tasks, Quiet(t) PROVE PairsAgree'
  BY <1>1, QuietKeeps DEF PairsAgree, recordVars
<1>2. ASSUME NEW t \in Tasks, Busy(t) PROVE PairsAgree'
  <2>1. CASE Copy(t)
    <3>1. at[t] \in Addresses /\ read[t] \in Sessions
      BY <2>1, TaskReads DEF Copy
    <3>2. QED BY <1>0, <2>1, <3>1, RecordsAssumption
            DEF Copy, StorePair, PairsAgree, RecordsOK
  <2>2. CASE InjectQueried(t)
    BY <1>0, <2>2, TaskReads DEF InjectQueried, InjectAt, StorePair, PairsAgree, RecordsOK
  <2>3. CASE InjectAsked(t)
    BY <1>0, <2>3, TaskReads DEF InjectAsked, InjectAt, StorePair, PairsAgree, RecordsOK
  <2>4. CASE EncryptExisting(t)
    <3> DEFINE s == [provider[at[t]] EXCEPT !.next = @ + 1]
    <3>1. at[t] \in Addresses /\ provider[at[t]] \in Sessions
      BY <1>0, <2>4, TaskReads DEF EncryptExisting, ProviderValid, RecordsOK
    <3>2. s \in Sessions /\ s.identity = provider[at[t]].identity
      BY <3>1 DEF Sessions
    <3>3. provider' = [provider EXCEPT ![at[t]] = s]
      BY <2>4 DEF EncryptExisting
    <3> HIDE DEF s
    <3>4. QED BY <1>0, <2>4, <3>1, <3>2, <3>3, RecordsAssumption
            DEF EncryptExisting, ProviderValid, PairsAgree, RecordsOK
  <2>5. CASE StoreFirst(t)
    <3>1. at[t] \in Addresses /\ read[t] \in Identities
      BY <2>5, TaskReads DEF StoreFirst
    <3>2. CASE /\ StorePair(at[t], [Fresh(read[t]) EXCEPT !.next = 1], read[t])
               /\ UNCHANGED <<native, nativeId>>
      <4>1. [Fresh(read[t]) EXCEPT !.next = 1] \in Sessions
        BY <3>1 DEF Fresh, Sessions, TypeOK
      <4>2. [Fresh(read[t]) EXCEPT !.next = 1].identity = read[t]
        BY DEF Fresh
      <4>3. PICK x \in Sessions, i \in Identities :
              /\ x = [Fresh(read[t]) EXCEPT !.next = 1] /\ i = read[t]
              /\ x.identity = i
        BY <3>1, <4>1, <4>2
      <4>4. /\ provider' = [provider EXCEPT ![at[t]] = x]
            /\ providerId' = [providerId EXCEPT ![at[t]] = i]
            /\ UNCHANGED <<native, nativeId>>
        BY <3>2, <4>3 DEF StorePair
      <4>5. ASSUME NEW a \in Addresses
            PROVE  /\ native'[a] = native[a] /\ nativeId'[a] = nativeId[a]
                   /\ provider'[a] = IF a = at[t] THEN x ELSE provider[a]
                   /\ providerId'[a] = IF a = at[t] THEN i ELSE providerId[a]
        BY <1>0, <3>1, <4>4 DEF RecordsOK
      <4>6. x # None
        BY RecordsAssumption DEF Sessions
      <4>7. QED BY <4>3, <4>5, <4>6 DEF PairsAgree
    <3>3. CASE UNCHANGED recordVars
      BY <3>3 DEF PairsAgree, recordVars
    <3>4. QED BY <2>5, <3>2, <3>3 DEF StoreFirst, recordVars
  <2>6. CASE DeleteSessions(t)
    BY <1>0, <2>6 DEF DeleteSessions, Cleared, PairsAgree, RecordsOK
  <2>7. CASE Migrate(t)
    <3>1. at[t] \in Addresses
      BY <2>7, TaskReads DEF Migrate
    <3>2. PICK from, to :
            /\ from \in Addresses
            /\ IF MovesNative(from, to)
                 THEN native' = Moved(native, from, to) /\ nativeId' = Moved(nativeId, from, to)
                 ELSE UNCHANGED <<native, nativeId>>
            /\ IF MovesProvider(from, to)
                 THEN /\ provider' = Moved(provider, from, to)
                      /\ providerId' = Moved(providerId, from, to)
                 ELSE UNCHANGED <<provider, providerId>>
      BY <2>7, <3>1 DEF Migrate
    <3>3. ASSUME NEW a \in Addresses PROVE native'[a] # None => nativeId'[a] = native'[a]
      <4>1. CASE MovesNative(from, to)
        <5>0. DOMAIN native = Addresses /\ DOMAIN nativeId = Addresses
          BY <1>0 DEF RecordsOK
        <5>1. native' = Moved(native, from, to) /\ nativeId' = Moved(nativeId, from, to)
          BY <3>2, <4>1
        <5>2. native'[a] = IF a = from THEN None ELSE IF a = to THEN native[from] ELSE native[a]
          BY <5>1, <5>0, MovedAt
        <5>3. nativeId'[a] = IF a = from THEN None ELSE IF a = to THEN nativeId[from] ELSE nativeId[a]
          BY <5>1, <5>0, MovedAt
        <5>4. QED BY <3>2, <5>2, <5>3 DEF PairsAgree
      <4>2. CASE ~ MovesNative(from, to)
        BY <3>2, <4>2 DEF PairsAgree
      <4>3. QED BY <4>1, <4>2
    <3>4. ASSUME NEW a \in Addresses
          PROVE  /\ provider'[a] # None => providerId'[a] = provider'[a].identity
                 /\ provider'[a] = None => providerId'[a] = None
      <4>1. CASE MovesProvider(from, to)
        <5>0. DOMAIN provider = Addresses /\ DOMAIN providerId = Addresses
          BY <1>0 DEF RecordsOK
        <5>1. provider' = Moved(provider, from, to) /\ providerId' = Moved(providerId, from, to)
          BY <3>2, <4>1
        <5>2. provider'[a] = IF a = from THEN None ELSE IF a = to THEN provider[from] ELSE provider[a]
          BY <5>1, <5>0, MovedAt
        <5>3. providerId'[a] = IF a = from THEN None ELSE IF a = to THEN providerId[from] ELSE providerId[a]
          BY <5>1, <5>0, MovedAt
        <5>4. QED BY <3>2, <5>2, <5>3 DEF PairsAgree
      <4>2. CASE ~ MovesProvider(from, to)
        BY <3>2, <4>2 DEF PairsAgree
      <4>3. QED BY <4>1, <4>2
    <3>5. QED BY <3>3, <3>4 DEF PairsAgree
  <2>8. QED BY <1>2, <2>1, <2>2, <2>3, <2>4, <2>5, <2>6, <2>7 DEF Busy
<1>3. ASSUME NEW a \in Addresses, NEW i \in Identities, SaveIdentity(a, i) PROVE PairsAgree'
  BY <1>0, <1>3 DEF SaveIdentity, StorePair, PairsAgree, RecordsOK
<1>4. ASSUME NEW a \in Addresses, NEW i \in Identities, StoreInbound(a, i) PROVE PairsAgree'
  <2>1. Fresh(i) \in Sessions /\ Fresh(i).identity = i
    BY DEF Fresh, Sessions, TypeOK
  <2>2. QED BY <1>0, <1>4, <2>1, RecordsAssumption
          DEF StoreInbound, StorePair, PairsAgree, RecordsOK
<1>5. ASSUME NEW a \in Addresses, DeleteProviderRecords(a) PROVE PairsAgree'
  BY <1>0, <1>5 DEF DeleteProviderRecords, StorePair, PairsAgree, RecordsOK
<1>6. CASE UNCHANGED <<recordVars, keyVars, asserted, taskVars>>
  BY <1>6 DEF PairsAgree, recordVars
<1>7. QED BY <1>1, <1>2, <1>3, <1>4, <1>5, <1>6, StepCases

\* PairsAgree: no transaction leaves a record beside an identity that is not
\* its own, in whatever order tasks run them.
THEOREM RecordsPaired == Spec => []PairsAgree
<1>1. Init => PairsAgree
  BY DEF Init, PairsAgree
<1>2. TypeOK /\ PairsAgree /\ [Next]_vars => PairsAgree'
  BY PairsKept
<1>3. QED BY <1>1, <1>2, RecordsTypeCorrect, PTL DEF Spec

-----------------------------------------------------------------------------
(* Trusted identities.                                                     *)

Pinned ==
  \A a \in Addresses :
    providerId[a] # None /\ providerId'[a] # None => providerId'[a] = providerId[a]

LEMMA PinnedStep ==
  ASSUME TypeOK, [Next]_vars
  PROVE  Pinned
<1>0. RecordsOK
  BY DEF TypeOK, RecordsOK
<1>1. ASSUME NEW a \in Addresses, NEW s, NEW i, StorePair(a, s, i), Accepts(a, i) \/ i = None
      PROVE Pinned
  BY <1>0, <1>1 DEF StorePair, Accepts, RecordsOK, Pinned
<1>2. CASE providerId' = providerId
  BY <1>2 DEF Pinned
<1>3. ASSUME NEW t \in Tasks, Busy(t) PROVE Pinned
  <2>1. pc[t] # "idle" => at[t] \in Addresses /\ Query[at[t]] \in Addresses
    BY TaskReads
  <2>2. CASE Copy(t)
    BY <1>1, <1>2, <2>1, <2>2 DEF Copy
  <2>3. CASE InjectQueried(t)
    BY <1>1, <2>1, <2>3 DEF InjectQueried, InjectAt
  <2>4. CASE InjectAsked(t)
    BY <1>1, <2>1, <2>4 DEF InjectAsked, InjectAt
  <2>5. CASE EncryptExisting(t)
    BY <1>2, <2>5 DEF EncryptExisting
  <2>6. CASE StoreFirst(t)
    BY <1>1, <1>2, <2>1, <2>6 DEF StoreFirst
  <2>7. CASE DeleteSessions(t)
    BY <1>0, <2>7 DEF DeleteSessions, Cleared, RecordsOK, Pinned
  <2>8. CASE Migrate(t)
    BY <1>0, <1>2, <2>1, <2>8 DEF Migrate, Moved, MovesProvider, RecordsOK, Pinned
  <2>9. QED BY <1>3, <2>2, <2>3, <2>4, <2>5, <2>6, <2>7, <2>8 DEF Busy
<1>4. ASSUME NEW a \in Addresses, NEW i \in Identities, SaveIdentity(a, i) PROVE Pinned
  BY <1>1, <1>2, <1>4 DEF SaveIdentity
<1>5. ASSUME NEW a \in Addresses, NEW i \in Identities, StoreInbound(a, i) PROVE Pinned
  BY <1>1, <1>5 DEF StoreInbound
<1>6. ASSUME NEW a \in Addresses, DeleteProviderRecords(a) PROVE Pinned
  BY <1>1, <1>6 DEF DeleteProviderRecords
<1>7. ASSUME NEW t \in Tasks, Quiet(t) PROVE Pinned
  BY <1>2, <1>7, QuietKeeps DEF recordVars
<1>8. CASE UNCHANGED <<recordVars, keyVars, asserted, taskVars>>
  BY <1>2, <1>8 DEF recordVars
<1>9. QED BY <1>3, <1>4, <1>5, <1>6, <1>7, <1>8, StepCases

\* IdentityPinned: an identity the provider trusts gives way to another only
\* after it was dropped with its session.
THEOREM IdentityStays == Spec => IdentityPinned
<1>1. TypeOK /\ [Next]_vars => [Pinned]_vars
  BY PinnedStep
<1>2. QED BY <1>1, RecordsTypeCorrect, PTL DEF Spec, IdentityPinned, Pinned

-----------------------------------------------------------------------------
(* Usable addresses.                                                       *)

LEMMA UsableKept ==
  ASSUME TypeOK, PairsAgree, AssertedUsable, [Next]_vars
  PROVE  AssertedUsable'
<1> USE DEF AssertedUsable, NativeValid, ProviderValid
<1>0. RecordsOK /\ asserted \subseteq Addresses
  BY DEF TypeOK, RecordsOK
<1>1. ASSUME NEW t \in Tasks, Quiet(t) PROVE AssertedUsable'
  BY <1>1, QuietKeeps DEF recordVars
<1>2. ASSUME NEW t \in Tasks, Busy(t) PROVE AssertedUsable'
  <2>1. CASE Copy(t)
    <3>1. at[t] \in Addresses /\ read[t] \in Sessions
      BY <2>1, TaskReads DEF Copy
    <3>2. QED BY <1>0, <2>1, <3>1, RecordsAssumption
            DEF Copy, Asserted, StorePair, RecordsOK
  <2>2. CASE InjectQueried(t)
    <3>1. Query[at[t]] \in Addresses /\ read[t] \in Identities
      BY <2>2, TaskReads DEF InjectQueried
    <3>2. read[t] # None
      BY <3>1, RecordsAssumption DEF Identities
    <3>3. /\ native' = [native EXCEPT ![Query[at[t]]] = read[t]]
          /\ nativeId' = [nativeId EXCEPT ![Query[at[t]]] = read[t]]
          /\ provider' = [provider EXCEPT ![Query[at[t]]] = None]
          /\ providerId' = [providerId EXCEPT ![Query[at[t]]] = None]
      BY <2>2 DEF InjectQueried, InjectAt, StorePair
    <3>4. asserted' \subseteq asserted \cup {Query[at[t]]}
      BY <2>2 DEF InjectQueried, Asserted, Searches
    <3>5. QED BY <1>0, <3>1, <3>2, <3>3, <3>4 DEF RecordsOK
  <2>3. CASE InjectAsked(t)
    <3>1. at[t] \in Addresses /\ read[t] \in Identities
      BY <2>3, TaskReads DEF InjectAsked
    <3>2. read[t] # None
      BY <3>1, RecordsAssumption DEF Identities
    <3>3. QED BY <1>0, <2>3, <3>1, <3>2
            DEF InjectAsked, Asserted, InjectAt, StorePair, RecordsOK
  <2>4. CASE EncryptExisting(t)
    <3> DEFINE s == [provider[at[t]] EXCEPT !.next = @ + 1]
    <3>1. at[t] \in Addresses /\ provider[at[t]] \in Sessions
      BY <1>0, <2>4, TaskReads DEF EncryptExisting, RecordsOK
    <3>2. s \in Sessions /\ s.identity = provider[at[t]].identity
      BY <3>1 DEF Sessions
    <3>3. provider' = [provider EXCEPT ![at[t]] = s]
      BY <2>4 DEF EncryptExisting
    <3> HIDE DEF s
    <3>4. QED BY <1>0, <2>4, <3>1, <3>2, <3>3, RecordsAssumption
            DEF EncryptExisting, RecordsOK
  <2>5. CASE StoreFirst(t)
    <3> DEFINE s == [Fresh(read[t]) EXCEPT !.next = 1]
    <3>1. at[t] \in Addresses /\ read[t] \in Identities
      BY <2>5, TaskReads DEF StoreFirst
    <3>2. s \in Sessions /\ s.identity = read[t]
      BY <3>1 DEF Fresh, Sessions, TypeOK
    <3>3. StorePair(at[t], s, read[t]) \/ UNCHANGED <<provider, providerId>>
      BY <2>5 DEF StoreFirst
    <3> HIDE DEF s
    <3>4. QED BY <1>0, <2>5, <3>1, <3>2, <3>3, RecordsAssumption
            DEF StoreFirst, StorePair, RecordsOK
  <2>6. CASE DeleteSessions(t)
    BY <1>0, <2>6 DEF DeleteSessions, Cleared, RecordsOK
  <2>7. CASE Migrate(t)
    <3>1. at[t] \in Addresses
      BY <2>7, TaskReads DEF Migrate
    <3>2. QED BY <1>0, <2>7, <3>1 DEF Migrate, Moved, MovesNative, MovesProvider, PairsAgree, RecordsOK
  <2>8. QED BY <1>2, <2>1, <2>2, <2>3, <2>4, <2>5, <2>6, <2>7 DEF Busy
<1>3. ASSUME NEW a \in Addresses, NEW i \in Identities, SaveIdentity(a, i) PROVE AssertedUsable'
  BY <1>0, <1>3 DEF SaveIdentity, StorePair, PairsAgree, RecordsOK
<1>4. ASSUME NEW a \in Addresses, NEW i \in Identities, StoreInbound(a, i) PROVE AssertedUsable'
  <2>1. Fresh(i) \in Sessions /\ Fresh(i).identity = i
    BY DEF Fresh, Sessions, TypeOK
  <2>2. QED BY <1>0, <1>4, <2>1, RecordsAssumption DEF StoreInbound, StorePair, RecordsOK
<1>5. ASSUME NEW a \in Addresses, DeleteProviderRecords(a) PROVE AssertedUsable'
  BY <1>0, <1>5 DEF DeleteProviderRecords, StorePair, RecordsOK
<1>6. CASE UNCHANGED <<recordVars, keyVars, asserted, taskVars>>
  BY <1>6 DEF recordVars
<1>7. QED BY <1>1, <1>2, <1>3, <1>4, <1>5, <1>6, StepCases

\* AssertedUsable: whatever else happens to the records of an address that was
\* reported usable, a send to it finds a session or a bundle, until a deletion.
THEOREM AssertedStaysUsable == Spec => []AssertedUsable
<1>1. Init => AssertedUsable
  BY DEF Init, AssertedUsable
<1>2. TypeOK /\ PairsAgree /\ AssertedUsable /\ [Next]_vars => AssertedUsable'
  BY UsableKept
<1>3. QED BY <1>1, <1>2, RecordsTypeCorrect, RecordsPaired, PTL DEF Spec

-----------------------------------------------------------------------------
(* Message keys.                                                           *)

\* Ratchets are numbered as they are made; a session that was not copied is at
\* one address only and is past every message encrypted with it.
RatchetsKnown ==
  /\ \A a \in Addresses : provider[a] # None => provider[a].ratchet <= ratchets
  /\ \A k \in sent : k[1] <= ratchets

SessionsApart ==
  \A a, b \in Addresses :
    a # b /\ provider[a] # None /\ provider[b] # None
          /\ provider[a].ratchet = provider[b].ratchet
      => provider[a].ratchet \in copied

SentPassed ==
  \A k \in sent, a \in Addresses :
    provider[a] # None /\ provider[a].ratchet = k[1]
      => k[1] \in copied \/ k[2] < provider[a].next

LoadedKnown ==
  \A t \in Tasks : pc[t] \in {"load identity", "copy"} =>
    read[t].ratchet \in Nat /\ read[t].ratchet <= ratchets

StoredInv == RatchetsKnown /\ SessionsApart /\ SentPassed /\ KeyUsedOnce

\* A step that only drops sessions.
LEMMA DropsKeep ==
  ASSUME StoredInv, UNCHANGED keyVars,
         \A a \in Addresses : provider'[a] \in {provider[a], None}
  PROVE  StoredInv'
<1>1. RatchetsKnown'
  BY DEF StoredInv, RatchetsKnown, keyVars
<1>2. SessionsApart'
  BY DEF StoredInv, SessionsApart, keyVars
<1>3. SentPassed'
  BY DEF StoredInv, SentPassed, keyVars
<1>4. KeyUsedOnce'
  BY DEF StoredInv, KeyUsedOnce, keyVars
<1>5. QED BY <1>1, <1>2, <1>3, <1>4 DEF StoredInv

\* A step that stores a session with a new ratchet, whose first n messages it
\* encrypts.
LEMMA FreshKeeps ==
  ASSUME TypeOK, StoredInv, NEW a \in Addresses, NEW s \in Sessions,
         s.ratchet = ratchets + 1,
         provider' = [provider EXCEPT ![a] = s],
         ratchets' = ratchets + 1, UNCHANGED copied,
         \/ UNCHANGED <<sent, reused>>
         \/ s.next = 1 /\ Uses(<<ratchets + 1, 0>>)
  PROVE  StoredInv'
<1>0. /\ RecordsOK /\ ratchets \in Nat /\ sent \subseteq Nat \X Nat
  BY DEF TypeOK, RecordsOK
<1>1. /\ sent' \subseteq sent \cup {<<ratchets + 1, 0>>}
      /\ <<ratchets + 1, 0>> \in sent' => <<ratchets + 1, 0>> \in sent \/ s.next = 1
  BY DEF Uses
<1>2. \A k \in sent : k[1] \in Nat /\ k[2] \in Nat /\ k[1] <= ratchets
  BY <1>0 DEF StoredInv, RatchetsKnown
<1>3. <<ratchets + 1, 0>> \notin sent
  BY <1>0, <1>2
<1>4. reused' = reused
  BY <1>3 DEF Uses
<1>5. \A b \in Addresses \ {a} : provider'[b] = provider[b]
  BY <1>0 DEF RecordsOK
<1>6. provider'[a] = s
  BY <1>0 DEF RecordsOK
<1>7. \A b \in Addresses : provider[b] # None =>
        provider[b].ratchet \in Nat /\ provider[b].ratchet <= ratchets
  BY <1>0 DEF RecordsOK, Sessions, StoredInv, RatchetsKnown
<1>8. RatchetsKnown'
  BY <1>0, <1>1, <1>2, <1>5, <1>6, <1>7 DEF RatchetsKnown
<1>9. SessionsApart'
  <2> SUFFICES ASSUME NEW b \in Addresses, NEW c \in Addresses, b # c,
                      provider'[b] # None, provider'[c] # None,
                      provider'[b].ratchet = provider'[c].ratchet
               PROVE  provider'[b].ratchet \in copied
    BY DEF SessionsApart
  <2>1. b # a /\ c # a
    BY <1>0, <1>5, <1>6, <1>7
  <2>2. QED BY <1>5, <2>1 DEF StoredInv, SessionsApart
<1>10. SentPassed'
  <2> SUFFICES ASSUME NEW k \in sent', NEW b \in Addresses,
                      provider'[b] # None, provider'[b].ratchet = k[1]
               PROVE  k[1] \in copied \/ k[2] < provider'[b].next
    BY DEF SentPassed
  <2>1. CASE k \in sent
    <3>1. b # a
      BY <1>0, <1>2, <1>6, <2>1
    <3>2. QED BY <1>5, <2>1, <3>1 DEF StoredInv, SentPassed
  <2>2. CASE k = <<ratchets + 1, 0>> /\ s.next = 1
    <3>1. b = a
      BY <1>0, <1>5, <1>7, <2>2
    <3>2. QED BY <1>6, <2>2, <3>1
  <2>3. QED BY <1>1, <1>3, <2>1, <2>2
<1>11. KeyUsedOnce'
  BY <1>4 DEF StoredInv, KeyUsedOnce
<1>12. QED BY <1>8, <1>9, <1>10, <1>11 DEF StoredInv

LEMMA CopyKeeps ==
  ASSUME TypeOK, StoredInv, LoadedKnown, NEW t \in Tasks, Copy(t)
  PROVE  StoredInv'
<1> DEFINE a == at[t]  s == read[t]
<1>0. RecordsOK /\ a \in Addresses /\ s \in Sessions /\ s.ratchet <= ratchets
  BY TaskReads DEF TypeOK, RecordsOK, Copy, LoadedKnown
<1>1. CASE UNCHANGED <<provider, keyVars>>
  BY <1>1, DropsKeep
<1>2. CASE /\ provider' = [provider EXCEPT ![a] = s]
           /\ copied' = copied \cup {s.ratchet}
           /\ UNCHANGED <<ratchets, sent, reused>>
  <2>1. provider'[a] = s /\ \A b \in Addresses \ {a} : provider'[b] = provider[b]
    BY <1>0, <1>2 DEF RecordsOK
  <2> HIDE DEF a, s
  <2>2. RatchetsKnown'
    BY <1>0, <1>2, <2>1 DEF StoredInv, RatchetsKnown
  <2>3. SessionsApart'
    <3> SUFFICES ASSUME NEW b \in Addresses, NEW c \in Addresses, b # c,
                        provider'[b] # None, provider'[c] # None,
                        provider'[b].ratchet = provider'[c].ratchet
                 PROVE  provider'[b].ratchet \in copied'
      BY DEF SessionsApart
    <3>1. CASE b = a \/ c = a
      BY <1>2, <2>1, <3>1
    <3>2. CASE b # a /\ c # a
      BY <1>2, <2>1, <3>2 DEF StoredInv, SessionsApart
    <3>3. QED BY <3>1, <3>2
  <2>4. SentPassed'
    BY <1>0, <1>2, <2>1 DEF StoredInv, SentPassed
  <2>5. KeyUsedOnce'
    BY <1>2 DEF StoredInv, KeyUsedOnce
  <2>6. QED BY <2>2, <2>3, <2>4, <2>5 DEF StoredInv
<1>3. QED BY <1>1, <1>2 DEF Copy, StorePair, keyVars

LEMMA EncryptKeeps ==
  ASSUME TypeOK, StoredInv, NEW t \in Tasks, EncryptExisting(t)
  PROVE  StoredInv'
<1> DEFINE a == at[t]  r == provider[a].ratchet  n == provider[a].next
<1>0. /\ RecordsOK /\ a \in Addresses /\ provider[a] \in Sessions /\ provider[a] # None
      /\ sent \subseteq Nat \X Nat
  BY TaskReads DEF TypeOK, RecordsOK, EncryptExisting, ProviderValid
<1>1. r \in Nat /\ n \in Nat
  BY <1>0 DEF Sessions
<1>2. /\ UNCHANGED <<ratchets, copied>>
      /\ sent' = sent \cup {<<r, n>>}
      /\ reused' = IF <<r, n>> \in sent THEN reused \cup {r} ELSE reused
      /\ provider' = [provider EXCEPT ![a].next = @ + 1]
  BY DEF EncryptExisting, Uses
<1>3. provider'[a].ratchet = r /\ provider'[a].next = n + 1 /\ provider'[a] # None
  <2>1. [provider[a] EXCEPT !.next = @ + 1] \in Sessions
    BY <1>0 DEF Sessions
  <2>2. provider'[a] = [provider[a] EXCEPT !.next = @ + 1]
    BY <1>0, <1>2 DEF RecordsOK
  <2>3. QED BY <1>0, <2>1, <2>2, RecordsAssumption DEF Sessions
<1>4. \A b \in Addresses \ {a} : provider'[b] = provider[b]
  BY <1>0, <1>2 DEF RecordsOK
<1>5. \A k \in sent : k[1] \in Nat /\ k[2] \in Nat
  BY <1>0
<1> HIDE DEF a, r, n
<1>6. RatchetsKnown'
  BY <1>0, <1>2, <1>3, <1>4 DEF StoredInv, RatchetsKnown, r
<1>7. SessionsApart'
  BY <1>0, <1>2, <1>3, <1>4 DEF StoredInv, SessionsApart, r
<1>8. SentPassed'
  <2> SUFFICES ASSUME NEW k \in sent', NEW b \in Addresses,
                      provider'[b] # None, provider'[b].ratchet = k[1]
               PROVE  k[1] \in copied' \/ k[2] < provider'[b].next
    BY DEF SentPassed
  <2>1. CASE k \in sent /\ b # a
    BY <1>2, <1>4, <2>1 DEF StoredInv, SentPassed
  <2>2. CASE k \in sent /\ b = a
    <3>1. k[1] \in copied \/ k[2] < n
      BY <1>0, <1>3, <2>2 DEF StoredInv, SentPassed, r, n
    <3>2. QED BY <1>1, <1>2, <1>3, <1>5, <2>2, <3>1
  <2>3. CASE k = <<r, n>> /\ b = a
    BY <1>1, <1>3, <2>3
  <2>4. CASE k = <<r, n>> /\ b # a
    BY <1>0, <1>2, <1>4, <2>4 DEF StoredInv, SessionsApart, r
  <2>5. QED BY <1>2, <2>1, <2>2, <2>3, <2>4
<1>9. KeyUsedOnce'
  <2>1. <<r, n>> \in sent => r \in copied
    BY <1>0, <1>1 DEF StoredInv, SentPassed, r, n
  <2>2. QED BY <1>2, <2>1 DEF StoredInv, KeyUsedOnce
<1>10. QED BY <1>6, <1>7, <1>8, <1>9 DEF StoredInv

LEMMA MigrateKeeps ==
  ASSUME TypeOK, StoredInv, NEW t \in Tasks, Migrate(t)
  PROVE  StoredInv'
<1> DEFINE from == at[t]  to == CHOOSE b \in holds[t] : b # from
<1>0. RecordsOK /\ from \in Addresses /\ UNCHANGED keyVars
  BY TaskReads DEF TypeOK, RecordsOK, Migrate
<1>1. CASE UNCHANGED provider
  BY <1>0, <1>1, DropsKeep
<1>2. CASE MovesProvider(from, to) /\ provider' = Moved(provider, from, to)
  <2>1. /\ provider'[from] = None
        /\ to \in Addresses => provider'[to] \in {provider[from], None}
        /\ \A b \in Addresses \ {from, to} : provider'[b] = provider[b]
    BY <1>0, <1>2 DEF Moved, RecordsOK
  <2> HIDE DEF from, to
  <2>2. RatchetsKnown'
    BY <1>0, <2>1 DEF StoredInv, RatchetsKnown, keyVars
  <2>3. SessionsApart'
    BY <1>0, <2>1 DEF StoredInv, SessionsApart, keyVars
  <2>4. SentPassed'
    BY <1>0, <2>1 DEF StoredInv, SentPassed, keyVars
  <2>5. KeyUsedOnce'
    BY <1>0 DEF StoredInv, KeyUsedOnce, keyVars
  <2>6. QED BY <2>2, <2>3, <2>4, <2>5 DEF StoredInv
<1>3. QED BY <1>1, <1>2 DEF Migrate

\* The order of ratchet numbers is transitive.
LEMMA LeqTrans ==
  ASSUME NEW x \in Nat, NEW y \in Nat, NEW z \in Nat, x <= y, y <= z
  PROVE  x <= z
OBVIOUS

\* A session in the hands of a task was loaded from some address.
LEMMA LoadedKept ==
  ASSUME TypeOK, StoredInv, LoadedKnown, NEW t \in Tasks, Quiet(t) \/ Busy(t),
         ratchets' \in Nat, ratchets <= ratchets'
  PROVE  LoadedKnown'
<1>0. TasksOK /\ RecordsOK /\ ratchets \in Nat /\ DOMAIN pc = Tasks /\ DOMAIN read = Tasks
  BY DEF TypeOK, TasksOK, RecordsOK
<1>1. \A u \in Tasks : pc[u] \in {"load identity", "copy"} =>
        read[u].ratchet \in Nat /\ read[u].ratchet <= ratchets'
  <2> TAKE u \in Tasks
  <2> HAVE pc[u] \in {"load identity", "copy"}
  <2>1. read[u].ratchet \in Nat /\ read[u].ratchet <= ratchets
    BY DEF LoadedKnown
  <2>2. ratchets \in Nat /\ ratchets' \in Nat /\ ratchets <= ratchets'
    BY <1>0
  <2>3. QED BY <2>1, <2>2, LeqTrans
<1>2. ASSUME pc'[t] \notin {"load identity", "copy"},
             \A u \in Tasks \ {t} : pc'[u] = pc[u] /\ read'[u] = read[u]
      PROVE LoadedKnown'
  BY <1>1, <1>2 DEF LoadedKnown
<1>4. CASE LoadSession(t)
  <2>1. CASE Moves(t, "fetch")
    <3>1. pc'[t] = "fetch" /\ \A u \in Tasks \ {t} : pc'[u] = pc[u] /\ read'[u] = read[u]
      BY <1>0, <2>1 DEF Moves, Goes
    <3>2. QED BY <1>2, <3>1
  <2>2. CASE /\ provider[Query[at[t]]] # None
             /\ Reads(t, "load identity", provider[Query[at[t]]])
    <3> DEFINE s == provider[Query[at[t]]]
    <3>1. s \in Sessions /\ s.ratchet \in Nat /\ s.ratchet <= ratchets
      BY <1>0, <1>4, <2>2, TaskReads DEF LoadSession, RecordsOK, Sessions, StoredInv, RatchetsKnown
    <3>2. pc' = [pc EXCEPT ![t] = "load identity"] /\ read' = [read EXCEPT ![t] = s]
      BY <2>2 DEF Reads, Goes
    <3> HIDE DEF s
    <3>3. pc'[t] = "load identity" /\ read'[t] = s
      BY <1>0, <3>2
    <3>4. \A u \in Tasks \ {t} : pc'[u] = pc[u] /\ read'[u] = read[u]
      BY <1>0, <3>2
    <3>5. s.ratchet <= ratchets'
      BY <1>0, <3>1
    <3>6. QED BY <1>1, <3>1, <3>3, <3>4, <3>5 DEF LoadedKnown
  <2>3. QED BY <1>4, <2>1, <2>2 DEF LoadSession
<1>5. CASE LoadIdentity(t)
  <2>1. CASE Moves(t, "copy")
    BY <1>0, <1>1, <1>5, <2>1 DEF LoadIdentity, Moves, Goes, LoadedKnown
  <2>2. CASE Reads(t, "fetch", None)
    <3>1. pc'[t] = "fetch" /\ \A u \in Tasks \ {t} : pc'[u] = pc[u] /\ read'[u] = read[u]
      BY <1>0, <2>2 DEF Reads, Goes
    <3>2. QED BY <1>2, <3>1
  <2>3. CASE Ends(t)
    <3>1. pc'[t] = "idle" /\ \A u \in Tasks \ {t} : pc'[u] = pc[u] /\ read'[u] = read[u]
      BY <1>0, <2>3 DEF Ends, Goes
    <3>2. QED BY <1>2, <3>1
  <2>4. QED BY <1>5, <2>1, <2>2, <2>3 DEF LoadIdentity, Searches
<1>6. CASE TakeLock(t)
  BY <1>1, <1>6 DEF TakeLock, LoadedKnown
<1>7. CASE Busy(t) \/ (Quiet(t) /\ ~LoadSession(t) /\ ~LoadIdentity(t) /\ ~TakeLock(t))
  <2>1. /\ pc'[t] \notin {"load identity", "copy"}
        /\ \A u \in Tasks \ {t} : pc'[u] = pc[u] /\ read'[u] = read[u]
    <3> USE DEF Begins, Goes, Ends, Moves, Reads, Searches, Asserted
    <3>1. CASE StartAssert(t) \/ StartBundle(t) \/ StartEncrypt(t) \/ StartDelete(t) \/ StartMigrate(t)
      BY <1>0, <3>1 DEF StartAssert, StartBundle, StartEncrypt, StartDelete, StartMigrate
    <3>2. CASE ValidateNative(t) \/ ValidateProvider(t) \/ AliasNative(t)
      BY <1>0, <3>2 DEF ValidateNative, ValidateProvider, AliasNative
    <3>3. CASE AliasProvider(t) \/ Fetch(t) \/ ReadBundle(t) \/ EncryptMissing(t)
      BY <1>0, <3>3 DEF AliasProvider, Fetch, ReadBundle, EncryptMissing
    <3>4. CASE Copy(t) \/ InjectQueried(t) \/ InjectAsked(t)
      BY <1>0, <3>4 DEF Copy, InjectQueried, InjectAsked
    <3>5. CASE EncryptExisting(t) \/ StoreFirst(t) \/ Migrate(t)
      BY <1>0, <3>5 DEF EncryptExisting, StoreFirst, Migrate
    <3>6. CASE DeleteSessions(t)
      BY <1>0, <3>6 DEF DeleteSessions
    <3>7. QED BY <1>7, <3>1, <3>2, <3>3, <3>4, <3>5, <3>6 DEF Busy, Quiet
  <2>2. QED BY <1>2, <2>1
<1>8. QED BY <1>4, <1>5, <1>6, <1>7

LEMMA KeysKept ==
  ASSUME TypeOK, StoredInv, LoadedKnown, [Next]_vars
  PROVE  StoredInv' /\ LoadedKnown'
<1>0. RecordsOK /\ TasksOK /\ ratchets \in Nat
  BY DEF TypeOK, RecordsOK
<1>2. ASSUME NEW t \in Tasks, Quiet(t) PROVE StoredInv' /\ LoadedKnown'
  <2>1. UNCHANGED <<provider, keyVars>> /\ ratchets' = ratchets
    BY <1>2, QuietKeeps DEF recordVars, keyVars
  <2>2. StoredInv'
    BY <2>1, DropsKeep
  <2>3. QED BY <1>0, <1>2, <2>1, <2>2, LoadedKept
<1>3. ASSUME NEW t \in Tasks, Busy(t) PROVE StoredInv' /\ LoadedKnown'
  <2>1. ratchets' \in {ratchets, ratchets + 1}
    BY <1>3 DEF Busy, Copy, InjectQueried, InjectAsked, EncryptExisting, StoreFirst,
       DeleteSessions, Migrate, keyVars
  <2>2. StoredInv'
    <3>1. CASE InjectQueried(t) \/ InjectAsked(t)
      <4>1. PICK a \in Addresses : provider' = [provider EXCEPT ![a] = None]
        BY <3>1, TaskReads DEF InjectQueried, InjectAsked, InjectAt, StorePair
      <4>2. UNCHANGED keyVars
        BY <3>1 DEF InjectQueried, InjectAsked
      <4>3. QED BY <1>0, <4>1, <4>2, DropsKeep DEF RecordsOK
    <3>2. CASE DeleteSessions(t)
      <4>1. \A a \in Addresses : provider'[a] \in {provider[a], None}
        BY <3>2 DEF DeleteSessions, Cleared
      <4>2. QED BY <3>2, <4>1, DropsKeep DEF DeleteSessions
    <3>3. CASE StoreFirst(t)
      <4> DEFINE s == [Fresh(read[t]) EXCEPT !.next = 1]
      <4>1. at[t] \in Addresses /\ read[t] \in Identities
        BY <3>3, TaskReads DEF StoreFirst
      <4>2. s \in Sessions /\ s.ratchet = ratchets + 1 /\ s.next = 1
        BY <1>0, <4>1 DEF Fresh, Sessions
      <4>3. \/ /\ provider' = [provider EXCEPT ![at[t]] = s] /\ ratchets' = ratchets + 1
               /\ Uses(<<ratchets + 1, 0>>) /\ UNCHANGED copied
            \/ UNCHANGED <<provider, keyVars>>
        BY <3>3 DEF StoreFirst, StorePair, keyVars
      <4> HIDE DEF s
      <4>4. QED BY <4>1, <4>2, <4>3, FreshKeeps, DropsKeep
    <3>4. QED BY <1>3, <3>1, <3>2, <3>3, CopyKeeps, EncryptKeeps, MigrateKeeps DEF Busy
  <2>3. ratchets' \in Nat /\ ratchets <= ratchets'
    BY <1>0, <2>1
  <2>4. LoadedKnown'
    BY <1>3, <2>3, LoadedKept
  <2>5. QED BY <2>2, <2>4
<1>4. ASSUME NEW a \in Addresses, NEW i \in Identities, SaveIdentity(a, i)
      PROVE StoredInv' /\ LoadedKnown'
  <2>1. StoredInv'
    BY <1>0, <1>4, DropsKeep DEF SaveIdentity, StorePair, RecordsOK
  <2>2. QED BY <1>4, <2>1 DEF SaveIdentity, keyVars, taskVars, LoadedKnown
<1>5. ASSUME NEW a \in Addresses, NEW i \in Identities, StoreInbound(a, i)
      PROVE StoredInv' /\ LoadedKnown'
  <2>1. Fresh(i) \in Sessions /\ Fresh(i).ratchet = ratchets + 1
    BY <1>0 DEF Fresh, Sessions
  <2>2. StoredInv'
    BY <1>5, <2>1, FreshKeeps DEF StoreInbound, StorePair
  <2>3. LoadedKnown'
    <3>1. ratchets' = ratchets + 1 /\ pc' = pc /\ read' = read
      BY <1>5 DEF StoreInbound, taskVars
    <3>2. ASSUME NEW u \in Tasks, pc[u] \in {"load identity", "copy"}
          PROVE  read[u].ratchet \in Nat /\ read[u].ratchet <= ratchets + 1
      <4>1. read[u].ratchet \in Nat /\ read[u].ratchet <= ratchets
        BY <3>2 DEF LoadedKnown
      <4>2. QED BY <1>0, <4>1
    <3>3. QED BY <3>1, <3>2 DEF LoadedKnown
  <2>4. QED BY <2>2, <2>3
<1>6. ASSUME NEW a \in Addresses, DeleteProviderRecords(a) PROVE StoredInv' /\ LoadedKnown'
  <2>1. StoredInv'
    BY <1>0, <1>6, DropsKeep DEF DeleteProviderRecords, StorePair, RecordsOK
  <2>2. QED BY <1>6, <2>1 DEF DeleteProviderRecords, keyVars, taskVars, LoadedKnown
<1>7. CASE UNCHANGED <<recordVars, keyVars, asserted, taskVars>>
  <2>1. StoredInv'
    BY <1>7, DropsKeep DEF recordVars
  <2>2. QED BY <1>7, <2>1 DEF keyVars, taskVars, LoadedKnown
<1>8. QED BY <1>2, <1>3, <1>4, <1>5, <1>6, <1>7, StepCases

\* KeyUsedOnce: a message key is used a second time only by a session that
\* assert_sessions copied; moving, deleting, replacing and remaking sessions
\* never brings one back.
THEOREM KeysUsedOnce == Spec => []KeyUsedOnce
<1> DEFINE KeyInv == StoredInv /\ LoadedKnown
<1>1. Init => KeyInv
  BY DEF Init, StoredInv, RatchetsKnown, SessionsApart, SentPassed, KeyUsedOnce, LoadedKnown
<1>2. TypeOK /\ KeyInv /\ [Next]_vars => KeyInv'
  BY KeysKept
<1>3. KeyInv => KeyUsedOnce
  BY DEF StoredInv
<1>4. QED BY <1>1, <1>2, <1>3, RecordsTypeCorrect, PTL DEF Spec

-----------------------------------------------------------------------------
(* Waiting for locks.                                                      *)

\* A task holds locks only while it takes more or uses them, and takes them in
\* ascending order.
LocksOrdered ==
  \A t \in Tasks :
    /\ pc[t] \notin {"delete", "migrate"} => work[t] = {} /\ holds[t] = {}
    /\ \A a \in holds[t], b \in work[t] : a < b

LEMMA OrderKept ==
  ASSUME TypeOK, LocksOrdered, [Next]_vars
  PROVE  LocksOrdered'
<1>0. /\ work \in [Tasks -> SUBSET Addresses] /\ holds \in [Tasks -> SUBSET Addresses]
      /\ DOMAIN pc = Tasks /\ Addresses \subseteq Nat
  BY RecordsAssumption DEF TypeOK, TasksOK
<1>1. ASSUME NEW t \in Tasks, StartDelete(t) \/ StartMigrate(t) PROVE LocksOrdered'
  <2>1. /\ pc[t] = "idle" /\ holds' = holds
        /\ \E label \in {"delete", "migrate"} : pc' = [pc EXCEPT ![t] = label]
        /\ \E as : work' = [work EXCEPT ![t] = as]
    BY <1>1 DEF StartDelete, StartMigrate, Begins, Goes
  <2>2. holds[t] = {}
    BY <2>1 DEF LocksOrdered
  <2>3. QED BY <1>0, <2>1, <2>2 DEF LocksOrdered
<1>2. ASSUME NEW t \in Tasks, TakeLock(t) PROVE LocksOrdered'
  <2>1. NextLock(t) \in work[t] /\ \A b \in work[t] : NextLock(t) <= b
    BY <1>0, <1>2, LeastLock DEF TakeLock
  <2>2. /\ pc' = pc
        /\ holds' = [holds EXCEPT ![t] = @ \cup {NextLock(t)}]
        /\ work' = [work EXCEPT ![t] = @ \ {NextLock(t)}]
    BY <1>2 DEF TakeLock
  <2>3. pc[t] \in {"delete", "migrate"}
    BY <1>2 DEF TakeLock, LocksOrdered
  <2>4. \A a \in holds'[t], b \in work'[t] : a < b
    BY <1>0, <2>1, <2>2 DEF LocksOrdered
  <2>5. QED BY <1>0, <2>2, <2>3, <2>4 DEF LocksOrdered
<1>3. ASSUME NEW t \in Tasks, DeleteSessions(t) \/ Migrate(t) PROVE LocksOrdered'
  <2>1. /\ work[t] = {} /\ work' = work /\ holds' = [holds EXCEPT ![t] = {}]
        /\ \E label : pc' = [pc EXCEPT ![t] = label]
    BY <1>3 DEF DeleteSessions, Migrate, Release, Ends, Moves, Reads, Goes
  <2>2. QED BY <1>0, <2>1 DEF LocksOrdered
<1>4. ASSUME NEW t \in Tasks, pc[t] \notin {"delete", "migrate"}, UNCHANGED lockVars,
             NEW label, pc' = [pc EXCEPT ![t] = label]
      PROVE LocksOrdered'
  BY <1>0, <1>4 DEF LocksOrdered, lockVars
<1>5. ASSUME NEW t \in Tasks, Quiet(t) \/ Busy(t), ~StartDelete(t), ~StartMigrate(t),
             ~TakeLock(t), ~DeleteSessions(t), ~Migrate(t)
      PROVE LocksOrdered'
  <2>1. /\ pc[t] \notin {"delete", "migrate"} /\ UNCHANGED lockVars
        /\ \E label : pc' = [pc EXCEPT ![t] = label]
    <3> USE DEF Begins, Goes, Ends, Moves, Reads, Searches, Asserted
    <3>1. CASE StartAssert(t) \/ StartBundle(t) \/ StartEncrypt(t)
      BY <3>1 DEF StartAssert, StartBundle, StartEncrypt
    <3>2. CASE ValidateNative(t) \/ ValidateProvider(t) \/ AliasNative(t)
      BY <3>2 DEF ValidateNative, ValidateProvider, AliasNative
    <3>3. CASE AliasProvider(t) \/ LoadSession(t) \/ LoadIdentity(t)
      BY <3>3 DEF AliasProvider, LoadSession, LoadIdentity
    <3>4. CASE Fetch(t) \/ ReadBundle(t) \/ EncryptMissing(t)
      BY <3>4 DEF Fetch, ReadBundle, EncryptMissing
    <3>5. CASE Copy(t) \/ InjectQueried(t) \/ InjectAsked(t)
      BY <3>5 DEF Copy, InjectQueried, InjectAsked
    <3>6. CASE EncryptExisting(t) \/ StoreFirst(t)
      BY <3>6 DEF EncryptExisting, StoreFirst
    <3>7. QED BY <1>5, <3>1, <3>2, <3>3, <3>4, <3>5, <3>6 DEF Busy, Quiet
  <2>2. QED BY <1>4, <2>1
<1>6. CASE UNCHANGED taskVars
  BY <1>6 DEF LocksOrdered, taskVars
<1>7. ASSUME NEW a \in Addresses, NEW i \in Identities,
             SaveIdentity(a, i) \/ StoreInbound(a, i) \/ DeleteProviderRecords(a)
      PROVE LocksOrdered'
  BY <1>6, <1>7 DEF SaveIdentity, StoreInbound, DeleteProviderRecords
<1>8. Identities # {}
  BY RecordsAssumption DEF Identities
<1>9. QED BY <1>1, <1>2, <1>3, <1>5, <1>6, <1>7, <1>8, StepCases DEF Busy

\* NoCircularWait: locks taken in the order of their keys are never waited for
\* in a circle, whatever sets of addresses tasks ask for.
THEOREM LocksNeverCircular == Spec => []NoCircularWait
<1>1. Init => LocksOrdered
  BY DEF Init, LocksOrdered
<1>2. TypeOK /\ LocksOrdered /\ [Next]_vars => LocksOrdered'
  BY OrderKept
<1>3. TypeOK /\ LocksOrdered => NoCircularWait
  <2> SUFFICES ASSUME TypeOK, LocksOrdered, NEW ts \in (SUBSET Tasks) \ {{}},
                      \A t \in ts : /\ work[t] # {}
                                    /\ \E u \in ts \ {t} : NextLock(t) \in holds[u]
               PROVE  FALSE
    BY DEF NoCircularWait
  <2> DEFINE W == {NextLock(t) : t \in ts}
  <2>0. work \in [Tasks -> SUBSET Addresses]
    BY DEF TypeOK
  <2>1. \A t \in ts : NextLock(t) \in work[t] /\ work[t] \subseteq Addresses
    BY <2>0, LeastLock
  <2>2. W \in SUBSET Addresses /\ W # {}
    <3>1. \A t \in ts : NextLock(t) \in Addresses
      BY <2>1
    <3>2. PICK t \in Tasks : t \in ts
      BY ts # {}, ts \in SUBSET Tasks
    <3>3. NextLock(t) \in W
      BY <3>2
    <3>4. W \subseteq Addresses
      BY <3>1
    <3>5. QED BY <3>3, <3>4
  <2> HIDE DEF W
  <2>3. PICK w \in W : \A v \in W : v <= w
    BY <2>2, Extremes
  <2>4. PICK t \in ts : w = NextLock(t)
    BY DEF W
  <2>5. PICK u \in ts : w \in holds[u]
    BY <2>4
  <2>6. w < NextLock(u)
    BY <2>1, <2>5 DEF LocksOrdered
  <2>7. NextLock(u) \in W
    BY DEF W
  <2>8. w \in Nat /\ NextLock(u) \in Nat /\ NextLock(u) <= w
    BY <2>2, <2>3, <2>7, RecordsAssumption
  <2>9. QED BY <2>6, <2>8
<1>4. QED BY <1>1, <1>2, <1>3, RecordsTypeCorrect, PTL DEF Spec

=============================================================================
