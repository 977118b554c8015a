------------------------- MODULE PlaceholderProofs -------------------------
(***************************************************************************)
(* Invariance proofs for PlaceholderResend, for every set of requesters,   *)
(* every finite set of ids, every capacity and every time to live.         *)
(***************************************************************************)
EXTENDS PlaceholderResend, FiniteSetTheorems, TLAPS

-----------------------------------------------------------------------------
(* Type correctness.                                                       *)

(* The clock readings, records, queue and tasks of the tracker keep their  *)
(* types through every operation of placeholder.rs and its callers.        *)
THEOREM TypeCorrect == Spec => []TypeOK
<1>1. Init => TypeOK
  BY PlaceholderAssumption DEF Init, TypeOK
<1>2. TypeOK /\ [Next]_vars => TypeOK'
  <2> SUFFICES ASSUME TypeOK, [Next]_vars PROVE TypeOK'
    OBVIOUS
  <2> USE DEF TypeOK, tracker, tasks
  <2>1. CASE PurgeExpired BY <2>1 DEF PurgeExpired, Lose
  <2>2. CASE Clear BY <2>2 DEF Clear, Lose
  <2>3. CASE ClockMoves BY <2>3 DEF ClockMoves
  <2>4. CASE \E id \in Ids : Respond(id) BY <2>4 DEF Respond, Lose
  <2>5. ASSUME NEW t \in Requesters, RequesterStep(t) PROVE TypeOK'
    <3>1. CASE \E S \in SUBSET Ids : StartRequest(t, S)
      BY <3>1 DEF StartRequest
    <3>2. CASE \E id \in Ids : StartUnlessPending(t, id)
      BY <3>2 DEF StartUnlessPending, Lose
    <3>3. ASSUME NEW id \in Ids, Begin(t, id) PROVE TypeOK'
      <4> DEFINE live == records \ Expired(started[t])
                 q == Append(order, id)
      <4>1. live \subseteq Ids /\ q \in Seq(Ids)
        BY DEF Expired
      <4>2. started[t] \in Nat
        BY PlaceholderAssumption
      <4> HIDE DEF live, q
      <4>3. PICK k \in 0 .. Len(q) : /\ records' = (live \cup {id}) \ Prefix(q, k)
                                     /\ order' = SubSeq(q, k + 1, Len(q))
        BY <3>3 DEF Begin, live, q
      <4>4. records' \subseteq Ids
        BY <4>1, <4>3
      <4>5. order' \in Seq(Ids)
        BY <4>1, <4>3
      <4>6. QED
        BY <3>3, <4>2, <4>4, <4>5 DEF Begin
    <3>4. CASE \E id \in Ids : BeginRefused(t, id)
      BY <3>4 DEF BeginRefused, Lose
    <3>5. CASE \E id \in Ids : Rollback(t, id)
      BY <3>5 DEF Rollback, Lose
    <3>6. CASE RelayEnds(t)
      BY <3>6 DEF RelayEnds, Leave
    <3>7. CASE RelayFails(t)
      BY <3>7 DEF RelayFails
    <3>8. QED
      BY <2>5, <3>1, <3>2, <3>3, <3>4, <3>5, <3>6, <3>7 DEF RequesterStep
  <2>6. CASE UNCHANGED vars BY <2>6 DEF vars
  <2>7. QED BY <2>1, <2>2, <2>3, <2>4, <2>5, <2>6 DEF Next
<1>3. QED BY <1>1, <1>2, PTL DEF Spec

-----------------------------------------------------------------------------
(* The capacity.                                                           *)

\* Every record has an entry in the queue, so popping can always reach it.
Reachable == records \subseteq Range(order)

\* enforce_capacity leaves at most Capacity records, all of them in the rest
\* of the queue.
LEMMA PopsFit ==
  ASSUME NEW q \in Seq(Ids), NEW R \in SUBSET Ids, R \subseteq Range(q),
         NEW k \in 0 .. Len(q), Pops(R, q, k)
  PROVE  /\ Cardinality(R \ Prefix(q, k)) <= Capacity
         /\ R \ Prefix(q, k) \subseteq Range(SubSeq(q, k + 1, Len(q)))
<1>1. Cardinality(R \ Prefix(q, k)) <= Capacity
  <2>1. CASE k = Len(q)
    <3>1. R \ Prefix(q, k) = {}
      BY <2>1 DEF Range, Prefix
    <3>2. Cardinality(R \ Prefix(q, k)) = 0
      BY <3>1, FS_EmptySet, Zenon
    <3>3. QED BY <3>2, PlaceholderAssumption
  <2>2. CASE k # Len(q)
    BY <2>2 DEF Pops
  <2>3. QED BY <2>1, <2>2
<1>2. ASSUME NEW x \in R \ Prefix(q, k)
      PROVE  x \in Range(SubSeq(q, k + 1, Len(q)))
  <2>1. PICK i \in 1 .. Len(q) : x = q[i]
    BY DEF Range
  <2>2. i > k
    BY <2>1 DEF Prefix
  <2> DEFINE s == SubSeq(q, k + 1, Len(q))
  <2>3. i - k \in DOMAIN s /\ s[i - k] = q[i]
    BY <2>2
  <2> HIDE DEF s
  <2>4. x \in Range(s)
    BY <2>1, <2>3 DEF Range
  <2>5. QED BY <2>4 DEF s
<1>3. QED BY <1>1, <1>2

\* A step that only drops records keeps them within the capacity.
LEMMA FewerFit ==
  ASSUME TypeOK, PendingBounded, records' \subseteq records
  PROVE  PendingBounded'
<1>1. IsFiniteSet(records)
  BY PlaceholderAssumption, FS_Subset DEF TypeOK
<1>2. /\ IsFiniteSet(records')
      /\ Cardinality(records') <= Cardinality(records)
  BY <1>1, FS_Subset
<1>3. Cardinality(records) \in Nat /\ Cardinality(records') \in Nat
  BY <1>1, <1>2, FS_CardinalityType
<1>4. QED BY <1>2, <1>3, PlaceholderAssumption DEF PendingBounded

(* However requests, answers, purges and evictions interleave, and however *)
(* many stale entries the queue holds, enforce_capacity of placeholder.rs  *)
(* keeps at most Capacity ids pending.                                     *)
THEOREM PendingStaysBounded == Spec => []PendingBounded
<1> DEFINE Inv == Reachable /\ PendingBounded
<1>1. Init => Inv
  BY FS_EmptySet, PlaceholderAssumption DEF Init, Reachable, PendingBounded
<1>2. TypeOK /\ Inv /\ [Next]_vars => Inv'
  <2> SUFFICES ASSUME TypeOK, Reachable, PendingBounded, [Next]_vars
               PROVE  Reachable' /\ PendingBounded'
    OBVIOUS
  <2>1. CASE records' \subseteq records /\ order' = order
    BY <2>1, FewerFit DEF Reachable
  <2>2. CASE Clear
    BY <2>2, FewerFit DEF Clear, Reachable
  <2>3. ASSUME NEW t \in Requesters, NEW id \in Ids, Begin(t, id)
        PROVE  Reachable' /\ PendingBounded'
    <3> DEFINE R == (records \ Expired(started[t])) \cup {id}
               q == Append(order, id)
    <3>1. R \subseteq Ids /\ q \in Seq(Ids)
      BY DEF TypeOK
    <3>2. R \subseteq Range(q)
      <4>1. q[Len(q)] = id /\ Len(q) \in DOMAIN q
        BY DEF TypeOK
      <4>2. \A i \in DOMAIN order : i \in DOMAIN q /\ q[i] = order[i]
        BY DEF TypeOK
      <4>3. Range(order) \cup {id} \subseteq Range(q)
        BY <4>1, <4>2 DEF Range
      <4>4. QED BY <4>3 DEF Reachable
    <3>3. PICK k \in 0 .. Len(q) : /\ Pops(R, q, k)
                                   /\ records' = R \ Prefix(q, k)
                                   /\ order' = SubSeq(q, k + 1, Len(q))
      BY <2>3 DEF Begin
    <3> HIDE DEF R, q
    <3>4. QED
      BY <3>1, <3>2, <3>3, PopsFit DEF Reachable, PendingBounded
  <2>4. QED
    BY <2>1, <2>2, <2>3
    DEF Next, vars, tracker, PurgeExpired, ClockMoves, Respond, RequesterStep, StartRequest,
        StartUnlessPending, BeginRefused, Rollback, RelayEnds, Leave, RelayFails
<1>3. QED BY <1>1, <1>2, TypeCorrect, PTL DEF Spec

-----------------------------------------------------------------------------
(* De-duplication.                                                         *)

\* A requester still has the record of every id it has not lost.
Held == \A t \in Requesters : recorded[t] \ lost[t] \subseteq records

\* Only what a requester recorded can be lost to it.
LostWasRecorded == \A t \in Requesters : lost[t] \subseteq recorded[t]

\* A step that drops the records S, and tells their holders.
LEMMA DropKeepsHolders ==
  ASSUME TypeOK, Held, LostWasRecorded, OneHolder, NEW S,
         records' = records \ S, lost' = Lose(S), recorded' = recorded
  PROVE  Held' /\ LostWasRecorded' /\ OneHolder'
BY DEF TypeOK, Held, LostWasRecorded, OneHolder, Lose

(* begin_request and the rollbacks of request_placeholder_resend, which    *)
(* resolve by id, never leave two tasks with live requests for one id.     *)
THEOREM OneHolderPerId == Spec => []OneHolder
<1> DEFINE Inv == Held /\ LostWasRecorded /\ OneHolder
<1>1. Init => Inv
  BY DEF Init, Held, LostWasRecorded, OneHolder
<1>2. TypeOK /\ Inv /\ [Next]_vars => Inv'
  <2> SUFFICES ASSUME TypeOK, Held, LostWasRecorded, OneHolder, [Next]_vars
               PROVE  Held' /\ LostWasRecorded' /\ OneHolder'
    OBVIOUS
  <2> USE DEF tracker, tasks
  <2>1. CASE PurgeExpired
    BY <2>1, DropKeepsHolders DEF PurgeExpired
  <2>2. CASE Clear
    <3>1. records' = records \ records
      BY <2>2 DEF Clear
    <3>2. QED BY <2>2, <3>1, DropKeepsHolders DEF Clear
  <2>3. CASE UNCHANGED <<records, recorded, lost>>
    BY <2>3 DEF Held, LostWasRecorded, OneHolder
  <2>4. CASE \E id \in Ids : Respond(id)
    BY <2>4, DropKeepsHolders DEF Respond
  <2>5. ASSUME NEW t \in Requesters, RequesterStep(t)
        PROVE  Held' /\ LostWasRecorded' /\ OneHolder'
    <3>1. CASE \E S \in SUBSET Ids : StartRequest(t, S)
      BY <2>3, <3>1 DEF StartRequest
    <3>2. CASE \E id \in Ids : StartUnlessPending(t, id)
      BY <3>2, DropKeepsHolders DEF StartUnlessPending
    <3>3. ASSUME NEW id \in Ids, Begin(t, id)
          PROVE  Held' /\ LostWasRecorded' /\ OneHolder'
      <4> DEFINE E == Expired(started[t])
      <4>1. id \notin records \ E
        BY <3>3 DEF Begin
      <4>2. records' \subseteq (records \ E) \cup {id}
        BY <3>3 DEF Begin
      <4>3. recorded' = [recorded EXCEPT ![t] = @ \cup {id}]
        BY <3>3 DEF Begin
      <4>4. \A u \in Requesters :
              lost'[u] = lost[u] \cup (recorded[u] \cap E)
                                 \cup (recorded'[u] \cap (((records \ E) \cup {id}) \ records'))
        BY <3>3 DEF Begin
      <4> HIDE DEF E
      <4>5. \A u \in Requesters : u # t => recorded'[u] = recorded[u]
        BY <4>3 DEF TypeOK
      <4>6. recorded'[t] = recorded[t] \cup {id}
        BY <4>3 DEF TypeOK
      <4>7. \A u \in Requesters :
              recorded'[u] \ lost'[u] \subseteq (recorded[u] \ lost[u]) \cup (IF u = t THEN {id} ELSE {})
        BY <4>4, <4>5, <4>6
      <4>8. \A u \in Requesters : u # t => id \notin recorded'[u] \ lost'[u]
        BY <4>1, <4>4, <4>5 DEF Held
      <4>9. Held'
        BY <4>2, <4>4, <4>5, <4>6 DEF Held
      <4>10. LostWasRecorded'
        BY <4>4, <4>5, <4>6 DEF LostWasRecorded
      <4>11. OneHolder'
        BY <4>7, <4>8 DEF OneHolder
      <4>12. QED BY <4>9, <4>10, <4>11
    <3>4. CASE \E id \in Ids : BeginRefused(t, id)
      <4>1. PICK id \in Ids : BeginRefused(t, id)
        BY <3>4
      <4> DEFINE E == Expired(started[t])
      <4>2. records' = records \ E /\ lost' = Lose(records \ (records \ E)) /\ recorded' = recorded
        BY <4>1 DEF BeginRefused
      <4>3. records' = records \ (records \ (records \ E))
        BY <4>2
      <4>4. QED BY <4>2, <4>3, DropKeepsHolders
    <3>5. CASE \E id \in Ids : Rollback(t, id)
      <4>1. PICK id \in Ids : Rollback(t, id)
        BY <3>5
      <4>2. /\ records' = records \ {id}
            /\ recorded'[t] = recorded[t] \ {id} /\ lost'[t] = lost[t] \ {id}
            /\ \A u \in Requesters : u # t => recorded'[u] = recorded[u]
            /\ id \in recorded[t]
        BY <4>1 DEF Rollback, TypeOK
      <4>3. \A u \in Requesters : u # t =>
              lost'[u] = IF id \in lost[t] THEN lost[u] \cup (recorded[u] \cap {id}) ELSE lost[u]
        BY <4>1 DEF Rollback, TypeOK, Lose
      <4>4. \A u \in Requesters : u # t => id \notin recorded'[u] \ lost'[u]
        BY <4>2, <4>3 DEF OneHolder
      <4>5. Held'
        BY <4>2, <4>3, <4>4 DEF Held
      <4>6. LostWasRecorded'
        BY <4>2, <4>3 DEF LostWasRecorded
      <4>7. OneHolder'
        BY <4>2, <4>3 DEF OneHolder
      <4>8. QED BY <4>5, <4>6, <4>7
    <3>6. CASE RelayEnds(t)
      BY <3>6 DEF RelayEnds, Leave, Held, LostWasRecorded, OneHolder, TypeOK
    <3>7. CASE RelayFails(t)
      BY <2>3, <3>7 DEF RelayFails
    <3>8. QED
      BY <2>5, <3>1, <3>2, <3>3, <3>4, <3>5, <3>6, <3>7 DEF RequesterStep
  <2>6. QED
    BY <2>1, <2>2, <2>3, <2>4, <2>5 DEF Next, ClockMoves, vars
<1>3. QED BY <1>1, <1>2, TypeCorrect, PTL DEF Spec

(* A request_placeholder_resend that is refused, or whose relay fails,     *)
(* leaves no record behind: what is pending was or is being requested.     *)
THEOREM PendingStaysWanted == Spec => []PendingIsWanted
<1>1. Init => PendingIsWanted
  BY DEF Init, PendingIsWanted
<1>2. TypeOK /\ PendingIsWanted /\ [Next]_vars => PendingIsWanted'
  <2> SUFFICES ASSUME TypeOK, PendingIsWanted, [Next]_vars PROVE PendingIsWanted'
    OBVIOUS
  <2> USE DEF tracker, tasks, PendingIsWanted
  <2>1. CASE /\ records' \subseteq records /\ recorded' = recorded
             /\ requested \cap records' \subseteq requested'
    BY <2>1
  <2>2. CASE PurgeExpired BY <2>1, <2>2 DEF PurgeExpired
  <2>3. CASE Clear BY <2>3 DEF Clear
  <2>4. CASE \E id \in Ids : Respond(id) BY <2>1, <2>4 DEF Respond
  <2>5. ASSUME NEW t \in Requesters, RequesterStep(t) PROVE PendingIsWanted'
    <3>1. CASE \E S \in SUBSET Ids : StartRequest(t, S)
      BY <2>1, <3>1 DEF StartRequest
    <3>2. CASE \E id \in Ids : StartUnlessPending(t, id)
      BY <2>1, <3>2 DEF StartUnlessPending
    <3>3. ASSUME NEW id \in Ids, Begin(t, id) PROVE PendingIsWanted'
      <4>1. records' \subseteq records \cup {id}
        BY <3>3 DEF Begin
      <4>2. requested' = (requested \cap records') \ {id}
        BY <3>3 DEF Begin
      <4>3. \A u \in Requesters : recorded[u] \subseteq recorded'[u]
        BY <3>3 DEF Begin, TypeOK
      <4>4. id \in recorded'[t]
        BY <3>3 DEF Begin, TypeOK
      <4>5. QED BY <4>1, <4>2, <4>3, <4>4
    <3>4. CASE \E id \in Ids : BeginRefused(t, id)
      BY <2>1, <3>4 DEF BeginRefused
    <3>5. CASE \E id \in Ids : Rollback(t, id)
      BY <3>5 DEF Rollback, TypeOK
    <3>6. CASE RelayEnds(t)
      <4>1. requested' = requested \cup (recorded[t] \cap records) /\ records' = records
        BY <3>6 DEF RelayEnds, Leave
      <4>2. \A u \in Requesters : u # t => recorded'[u] = recorded[u]
        BY <3>6 DEF RelayEnds, Leave, TypeOK
      <4>3. QED BY <4>1, <4>2
    <3>7. CASE RelayFails(t)
      BY <2>1, <3>7 DEF RelayFails
    <3>8. QED
      BY <2>5, <3>1, <3>2, <3>3, <3>4, <3>5, <3>6, <3>7 DEF RequesterStep
  <2>6. QED
    BY <2>1, <2>2, <2>3, <2>4, <2>5 DEF Next, ClockMoves, vars
<1>3. QED BY <1>1, <1>2, TypeCorrect, PTL DEF Spec
=============================================================================
