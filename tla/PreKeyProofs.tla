---------------------------- MODULE PreKeyProofs ----------------------------
(***************************************************************************)
(* Invariance proofs for PreKeys, for all counts and bounds.               *)
(***************************************************************************)
EXTENDS PreKeys, TLAPS

\* The copy of the client never differs from the store in its counters.
Counters ==
  /\ 1 <= creds.first /\ creds.first <= creds.next
  /\ creds.next <= MaxId + 1
  /\ mem.first = creds.first /\ mem.next = creds.next

\* Only an upload or a rotation awaits the server.
Positions ==
  /\ pending # None => pc \in {"upload", "rotate"}
  /\ pc \in {"rotate", "save"} => rotated \in Key

\* A key that the server has, had, or may still get.
Offered(k) ==
  \/ k \in served \cup handed
  \/ \E r \in late : k \in r.keys
  \/ pending # None /\ k \in pending.keys

\* Such a key has an id below the next one to be generated.
OfferedKnown ==
  \A k \in Key : Offered(k) =>
    /\ k.id \in 1 .. creds.next - 1
    /\ (keys[k.id] = k.pair \/ k \in used)

\* What the running upload will confirm.
BatchUploaded ==
  /\ pc = "upload" /\ pending # None =>
       \A id \in creds.first .. batch : \E k \in pending.keys : k.id = id
  /\ (pc = "upload" /\ pending = None) \/ pc = "confirm" =>
       creds.first .. batch \subseteq uploaded

\* The signed pre-key of the server, along a rotation and otherwise.
SignedSync ==
  /\ pc = "upload" /\ pending # None => pending.signed = creds.signed
  /\ pc = "rotate" /\ pending # None => pending.signed = rotated
  /\ pc \in {"upload", "confirm"} => mem.signed = creds.signed
  /\ ~doubt /\ ((pc = "rotate" /\ pending = None) \/ pc = "save") => signed = rotated
  /\ ~doubt /\ ~((pc = "rotate" /\ pending = None) \/ pc = "save") =>
       signed = creds.signed /\ mem.signed = creds.signed

IInv ==
  /\ TypeOK /\ Counters /\ Positions
  /\ OfferedKnown /\ BatchUploaded /\ ConfirmedWasUploaded /\ SignedSync

-----------------------------------------------------------------------------
(* What an upload prepares.                                                *)

LEMMA MissingType ==
  ASSUME TypeOK, Counters
  PROVE  /\ Missing \in Nat
         /\ creds.first + want - 1 <= creds.next + Missing - 1
BY DEF TypeOK, Credentials, Counters, Missing

LEMMA GeneratedFacts ==
  ASSUME TypeOK, Counters
  PROVE  /\ Generated \in [Ids -> Nat]
         /\ \A id \in 1 .. creds.next - 1 : Generated[id] = keys[id]
<1>1. Missing \in Nat BY MissingType
<1>2. ASSUME NEW id \in Ids PROVE Generated[id] \in Nat
  BY <1>1 DEF Generated, TypeOK, Credentials, Ids, Counters
<1>3. Generated \in [Ids -> Nat]
  BY <1>2 DEF Generated
<1>4. ASSUME NEW id \in 1 .. creds.next - 1 PROVE Generated[id] = keys[id]
  <2>1. id \in Ids
    BY PreKeyAssumption DEF TypeOK, Credentials, Counters, Ids
  <2>2. id \notin creds.next .. creds.next + Missing - 1
    BY <1>1 DEF TypeOK, Credentials
  <2>3. QED BY <2>1, <2>2 DEF Generated
<1>5. QED BY <1>3, <1>4

LEMMA BatchIds ==
  ASSUME TypeOK, Counters, creds.next + Missing - 1 <= MaxId
  PROVE  /\ Batch \subseteq Ids
         /\ Batch \subseteq 1 .. creds.next + Missing - 1
<1>1. Missing \in Nat /\ creds.first + want - 1 <= creds.next + Missing - 1
  BY MissingType
<1>2. creds.first \in Nat /\ creds.first >= 1 /\ creds.next \in Nat /\ want \in Nat
  BY PreKeyAssumption DEF TypeOK, Credentials, Counters, Ids
<1>3. QED
  BY <1>1, <1>2, PreKeyAssumption DEF Batch, Ids

-----------------------------------------------------------------------------
(* Types and counters.                                                     *)

LEMMA TypeStep ==
  ASSUME TypeOK, Counters, Positions, [Next]_vars
  PROVE  TypeOK'
<1> USE DEF TypeOK, store, client, server, history, Done
<1>1. CASE \E n \in {Initial, Min} : StartUpload(n)
  BY <1>1, PreKeyAssumption DEF StartUpload
<1>2. CASE StartMaintenance BY <1>2 DEF StartMaintenance
<1>3. CASE CountAnswered BY <1>3, PreKeyAssumption DEF CountAnswered
<1>4. CASE Prepare
  <2>1. Missing \in Nat /\ Generated \in [Ids -> Nat] /\ Batch \subseteq Ids
    BY <1>4, MissingType, GeneratedFacts, BatchIds DEF Prepare
  <2>2. keys' \in [Ids -> Nat] /\ made' \in Nat
    BY <1>4, <2>1 DEF Prepare
  <2>3. creds' \in Credentials /\ mem' \in Credentials
    BY <1>4, <2>1 DEF Prepare, Credentials
  <2>4. pending' \in Request
    <3>1. \A id \in Batch : [id |-> id, pair |-> Generated[id]] \in Key
      BY <2>1 DEF Key, Ids
    <3>2. creds.signed \in Key
      BY DEF Credentials
    <3>3. QED BY <1>4, <3>1, <3>2 DEF Prepare, Request
  <2>5. batch' \in Nat
    BY <1>4 DEF Prepare, Credentials, Counters
  <2>6. /\ pc' = "upload" /\ want' = 0
        /\ UNCHANGED <<rotated, late, served, handed, signed, used, uploaded, doubt>>
    BY <1>4 DEF Prepare
  <2>7. QED BY <2>2, <2>3, <2>4, <2>5, <2>6
<1>5. CASE PrepareFails BY <1>5 DEF PrepareFails
<1>6. CASE Confirm BY <1>6 DEF Confirm, Credentials
<1>7. CASE ConfirmFails BY <1>7 DEF ConfirmFails
<1>8. CASE StartRotation
  <2>1. rotated' \in Key
    BY <1>8 DEF StartRotation, Key, Credentials
  <2>2. pending' \in Request
    BY <1>8, <2>1 DEF StartRotation, Request
  <2>3. QED BY <1>8, <2>1, <2>2 DEF StartRotation
<1>9. CASE SaveRotated \/ SaveRotatedFails
  <2>1. rotated \in Key /\ mem' = [mem EXCEPT !.signed = rotated]
    BY <1>9 DEF SaveRotated, SaveRotatedFails, Positions
  <2>2. mem' \in Credentials
    BY <2>1 DEF Credentials
  <2>3. CASE SaveRotated BY <2>2, <2>3 DEF SaveRotated
  <2>4. CASE SaveRotatedFails
    <3>1. doubt' \in BOOLEAN
      BY <2>4 DEF SaveRotatedFails
    <3>2. QED BY <2>2, <2>4, <3>1 DEF SaveRotatedFails
  <2>5. QED BY <1>9, <2>3, <2>4
<1>10. CASE SavePairing BY <1>10 DEF SavePairing
<1>11. CASE Answered BY <1>11 DEF Answered
<1>12. CASE Rejected BY <1>12 DEF Rejected
<1>13. CASE GiveUp /\ (mem' = mem \/ mem' = creds)
  <2>1. late' \subseteq Request
    BY <1>13 DEF GiveUp
  <2>2. QED BY <1>13, <2>1 DEF GiveUp
<1>14. ASSUME NEW r \in Request, Apply(r)
       PROVE  /\ served' \subseteq Key /\ signed' \in Key /\ uploaded' \subseteq Nat
              /\ handed' = handed /\ used' = used
  BY <1>14 DEF Apply, Request, Key
<1>15. CASE ServerApplies BY <1>14, <1>15 DEF ServerApplies
<1>16. CASE \E r \in late : LateApplies(r) BY <1>14, <1>16 DEF LateApplies
<1>17. CASE \E k \in served : HandOut(k) BY <1>17 DEF HandOut
<1>18. CASE \E k \in handed : Consume(k)
  <2>1. PICK k \in handed : Consume(k)
    BY <1>18
  <2>2. keys' \in [Ids -> Nat]
    BY <2>1 DEF Consume
  <2>3. used' \subseteq Key /\ handed' \subseteq Key
    BY <2>1 DEF Consume
  <2>4. QED BY <2>1, <2>2, <2>3 DEF Consume
<1>19. CASE UNCHANGED vars BY <1>19 DEF vars
<1>20. QED
  BY <1>1, <1>2, <1>3, <1>4, <1>5, <1>6, <1>7, <1>8, <1>9, <1>10, <1>11, <1>12, <1>13,
     <1>15, <1>16, <1>17, <1>18, <1>19
  DEF Next, ClientStep, ServerStep, QueryFails, Restart

LEMMA CountersStep ==
  ASSUME TypeOK, Counters, [Next]_vars
  PROVE  Counters'
<1> USE DEF Counters, TypeOK, Credentials
<1>1. CASE Prepare
  BY <1>1, MissingType, PreKeyAssumption DEF Prepare
<1>2. CASE Confirm
  BY <1>2, PreKeyAssumption DEF Confirm
<1>3. CASE SaveRotated \/ SaveRotatedFails \/ SavePairing
  BY <1>3 DEF SaveRotated, SaveRotatedFails, SavePairing, store, client
<1>4. CASE creds' = creds /\ mem' \in {mem, creds}
  BY <1>4
<1>5. QED
  BY <1>1, <1>2, <1>3, <1>4
  DEF Next, ClientStep, ServerStep, vars, store, client, StartUpload, StartMaintenance,
      CountAnswered, PrepareFails, ConfirmFails, StartRotation, Answered, Rejected, GiveUp,
      QueryFails, Restart, ServerApplies, LateApplies, HandOut, Consume

LEMMA PositionsStep ==
  ASSUME TypeOK, Positions, [Next]_vars
  PROVE  Positions'
<1> USE DEF Positions, store, client, server, history, Done
<1>1. CASE StartRotation
  BY <1>1 DEF StartRotation, TypeOK, Credentials, Key
<1>2. CASE ~StartRotation
  BY <1>2
  DEF Next, ClientStep, ServerStep, vars, StartUpload, StartMaintenance, CountAnswered,
      Prepare, PrepareFails, Confirm, ConfirmFails, SaveRotated, SaveRotatedFails,
      SavePairing, Answered, Rejected, GiveUp, QueryFails, Restart, ServerApplies,
      LateApplies, HandOut, Consume
<1>3. QED BY <1>1, <1>2

-----------------------------------------------------------------------------
(* The keys the server may offer.                                          *)

LEMMA OfferedStep ==
  ASSUME TypeOK, Counters, OfferedKnown, [Next]_vars
  PROVE  OfferedKnown'
<1> USE DEF store, client, server, history, Done
<1>1. CASE Prepare
  <2>1. /\ Missing \in Nat /\ Generated \in [Ids -> Nat]
        /\ \A id \in 1 .. creds.next - 1 : Generated[id] = keys[id]
        /\ Batch \subseteq 1 .. creds.next + Missing - 1
    BY <1>1, MissingType, GeneratedFacts, BatchIds DEF Prepare
  <2>2. /\ keys' = Generated /\ used' = used
        /\ creds'.next = creds.next + Missing /\ creds.next \in Nat
    BY <1>1 DEF Prepare, TypeOK, Credentials
  <2>3. SUFFICES ASSUME NEW k \in Key, Offered(k)'
                 PROVE  /\ k.id \in 1 .. creds'.next - 1
                        /\ (keys'[k.id] = k.pair \/ k \in used')
    BY DEF OfferedKnown
  <2>4. CASE Offered(k)
    <3>1. k.id \in 1 .. creds.next - 1 /\ (keys[k.id] = k.pair \/ k \in used)
      BY <2>4 DEF OfferedKnown
    <3>2. QED BY <3>1, <2>1, <2>2
  <2>5. CASE ~Offered(k)
    <3>1. k \in pending'.keys
      BY <1>1, <2>3, <2>5 DEF Offered, Prepare
    <3>2. PICK id \in Batch : k = [id |-> id, pair |-> Generated[id]]
      BY <1>1, <3>1 DEF Prepare
    <3>3. QED BY <3>2, <2>1, <2>2
  <2>6. QED BY <2>4, <2>5
<1>2. CASE \E k \in handed : Consume(k)
  <2>1. PICK k \in handed : Consume(k)
    BY <1>2
  <2>2. k \in Key /\ Offered(k)
    BY DEF TypeOK, Offered
  <2>3. k.id \in Ids
    BY <2>2, PreKeyAssumption DEF OfferedKnown, Counters, TypeOK, Credentials, Ids, Key
  <2>4. SUFFICES ASSUME NEW k2 \in Key, Offered(k2)'
                 PROVE  /\ k2.id \in 1 .. creds'.next - 1
                        /\ (keys'[k2.id] = k2.pair \/ k2 \in used')
    BY DEF OfferedKnown
  <2>5. Offered(k2)
    BY <2>1, <2>4 DEF Consume, Offered
  <2>6. k2.id \in 1 .. creds.next - 1 /\ (keys[k2.id] = k2.pair \/ k2 \in used)
    BY <2>5 DEF OfferedKnown
  <2>7. creds' = creds /\ used' = used \cup {k} /\ keys' = [keys EXCEPT ![k.id] = 0]
        /\ keys[k.id] = k.pair
    BY <2>1 DEF Consume
  <2>8. CASE k2.id = k.id /\ keys[k2.id] = k2.pair
    <3>1. k2 = k
      <4>1. k = [id |-> k.id, pair |-> k.pair]
        BY <2>2 DEF Key
      <4>2. k2 = [id |-> k2.id, pair |-> k2.pair]
        BY DEF Key
      <4>3. k2.pair = k.pair /\ k2.id = k.id
        BY <2>7, <2>8
      <4>4. QED BY <4>1, <4>2, <4>3
    <3>2. QED BY <3>1, <2>6, <2>7
  <2>9. CASE k2.id # k.id
    <3>1. keys'[k2.id] = keys[k2.id]
      <4>1. k2.id \in Ids
        BY <2>6, PreKeyAssumption DEF Counters, TypeOK, Credentials, Ids
      <4>2. QED BY <4>1, <2>7, <2>9 DEF TypeOK
    <3>2. QED BY <3>1, <2>6, <2>7
  <2>10. QED BY <2>6, <2>7, <2>8, <2>9
<1>3. ASSUME keys' = keys, used' = used, creds'.next = creds.next,
             \A k \in Key : Offered(k)' => Offered(k)
      PROVE  OfferedKnown'
  BY <1>3 DEF OfferedKnown
<1>4. CASE SaveRotated \/ SavePairing \/ Confirm
  <2>1. creds'.next = creds.next
    BY <1>4 DEF SaveRotated, SavePairing, Confirm, Counters, TypeOK, Credentials
  <2>2. QED BY <1>3, <1>4, <2>1 DEF SaveRotated, SavePairing, Confirm, Offered
<1>5. CASE StartRotation
  BY <1>3, <1>5 DEF StartRotation, Offered
<1>6. CASE GiveUp
  BY <1>3, <1>6 DEF GiveUp, Offered
<1>7. CASE ServerApplies
  BY <1>3, <1>7 DEF ServerApplies, Apply, Offered
<1>8. CASE \E r \in late : LateApplies(r)
  BY <1>3, <1>8 DEF LateApplies, Apply, Offered
<1>9. CASE \E k \in served : HandOut(k)
  BY <1>3, <1>9 DEF HandOut, Offered
<1>10. CASE Rejected
  BY <1>3, <1>10 DEF Rejected, Offered
<1>11. CASE UNCHANGED <<store, server, used>>
  BY <1>3, <1>11 DEF Offered
<1>12. QED
  BY <1>1, <1>2, <1>4, <1>5, <1>6, <1>7, <1>8, <1>9, <1>10, <1>11
  DEF Next, ClientStep, ServerStep, vars, StartUpload, StartMaintenance, CountAnswered,
      PrepareFails, ConfirmFails, SaveRotatedFails, Answered, QueryFails, Restart

-----------------------------------------------------------------------------
(* What is confirmed has been uploaded.                                    *)

LEMMA BatchStep ==
  ASSUME TypeOK, Counters, Positions, BatchUploaded, ConfirmedWasUploaded, [Next]_vars
  PROVE  BatchUploaded' /\ ConfirmedWasUploaded'
<1> USE DEF store, client, server, history, Done
<1>1. CASE Prepare
  <2>1. pending' = [keys |-> {[id |-> id, pair |-> Generated[id]] : id \in Batch},
                    signed |-> creds.signed]
        /\ batch' = creds.first + want - 1 /\ creds'.first = creds.first
        /\ uploaded' = uploaded /\ pc' = "upload"
    BY <1>1 DEF Prepare, TypeOK, Credentials
  <2>2. pending' # None
    <3>1. pending' \in Request
      <4>1. Generated \in [Ids -> Nat] /\ Batch \subseteq Ids
        BY <1>1, GeneratedFacts, BatchIds DEF Prepare
      <4>2. \A id \in Batch : [id |-> id, pair |-> Generated[id]] \in Key
        BY <4>1 DEF Key, Ids
      <4>3. creds.signed \in Key
        BY DEF TypeOK, Credentials
      <4>4. QED BY <2>1, <4>2, <4>3 DEF Request
    <3>2. QED BY <3>1, NoneAssumption
  <2>3. ASSUME NEW id \in creds.first .. creds.first + want - 1
        PROVE  \E k \in pending'.keys : k.id = id
    <3>1. [id |-> id, pair |-> Generated[id]] \in pending'.keys
      BY <2>1 DEF Batch
    <3>2. QED BY <3>1
  <2>4. QED BY <2>1, <2>2, <2>3 DEF BatchUploaded, ConfirmedWasUploaded
<1>2. CASE ServerApplies
  <2>1. /\ pending # None /\ pending' = None /\ creds' = creds /\ batch' = batch /\ pc' = pc
        /\ uploaded' = uploaded \cup {k.id : k \in pending.keys}
    BY <1>2 DEF ServerApplies, Apply
  <2>2. pc # "confirm"
    BY <2>1 DEF Positions
  <2>3. CASE pc = "upload"
    <3>1. creds.first .. batch \subseteq uploaded'
      BY <2>1, <2>3 DEF BatchUploaded
    <3>2. QED BY <2>1, <3>1 DEF BatchUploaded, ConfirmedWasUploaded
  <2>4. CASE pc # "upload"
    BY <2>1, <2>2, <2>4 DEF BatchUploaded, ConfirmedWasUploaded
  <2>5. QED BY <2>3, <2>4
<1>3. CASE Confirm
  <2>1. creds.first .. batch \subseteq uploaded /\ pc' = "idle" /\ uploaded' = uploaded
    BY <1>3 DEF Confirm, BatchUploaded
  <2>2. creds'.first = IF creds.first > batch + 1 THEN creds.first ELSE batch + 1
    BY <1>3 DEF Confirm, TypeOK, Credentials
  <2>3. 1 .. creds'.first - 1 \subseteq uploaded
    BY <2>1, <2>2 DEF ConfirmedWasUploaded, TypeOK, Credentials
  <2>4. QED BY <2>1, <2>3 DEF BatchUploaded, ConfirmedWasUploaded
<1>4. CASE Answered
  BY <1>4 DEF Answered, BatchUploaded, ConfirmedWasUploaded
<1>5. ASSUME creds'.first = creds.first, uploaded \subseteq uploaded',
             \/ pc' \notin {"upload", "confirm"}
             \/ pc' = pc /\ pending' = pending /\ batch' = batch
      PROVE  BatchUploaded' /\ ConfirmedWasUploaded'
  BY <1>5 DEF BatchUploaded, ConfirmedWasUploaded
<1>6. CASE SaveRotated \/ SavePairing
  <2>1. creds'.first = creds.first
    BY <1>6 DEF SaveRotated, SavePairing, Counters, TypeOK, Credentials
  <2>2. QED BY <1>5, <1>6, <2>1 DEF SaveRotated, SavePairing
<1>7. CASE \E r \in late : LateApplies(r)
  BY <1>5, <1>7 DEF LateApplies, Apply
<1>8. CASE GiveUp
  BY <1>5, <1>8 DEF GiveUp
<1>9. CASE \/ \E n \in {Initial, Min} : StartUpload(n)
           \/ StartMaintenance \/ CountAnswered \/ PrepareFails \/ ConfirmFails
           \/ StartRotation \/ SaveRotatedFails \/ Rejected
  BY <1>5, <1>9
  DEF StartUpload, StartMaintenance, CountAnswered, PrepareFails, ConfirmFails, StartRotation,
      SaveRotatedFails, Rejected
<1>10. CASE \/ \E k \in served : HandOut(k)
            \/ \E k \in handed : Consume(k)
            \/ UNCHANGED vars
  BY <1>5, <1>10 DEF HandOut, Consume, vars
<1>11. QED
  BY <1>1, <1>2, <1>3, <1>4, <1>6, <1>7, <1>8, <1>9, <1>10
  DEF Next, ClientStep, ServerStep, QueryFails, Restart

-----------------------------------------------------------------------------
(* The signed pre-key.                                                     *)

LEMMA SignedStep ==
  ASSUME TypeOK, Positions, SignedSync, [Next]_vars
  PROVE  SignedSync'
<1> USE DEF SignedSync, store, client, server, history, Done
<1>1. CASE \E n \in {Initial, Min} : StartUpload(n)
  BY <1>1 DEF StartUpload
<1>2. CASE StartMaintenance \/ CountAnswered
  BY <1>2 DEF StartMaintenance, CountAnswered
<1>3. CASE Prepare
  <2>1. pc = "prepare" /\ pc' = "upload" /\ pending'.signed = creds.signed
        /\ mem' = creds' /\ signed' = signed /\ doubt' = doubt
    BY <1>3 DEF Prepare
  <2>2. creds'.signed = creds.signed
    BY <1>3 DEF Prepare, TypeOK, Credentials
  <2>3. QED BY <2>1, <2>2
<1>4. CASE PrepareFails \/ ConfirmFails
  BY <1>4 DEF PrepareFails, ConfirmFails
<1>5. CASE Confirm
  <2>1. creds'.signed = creds.signed
    BY <1>5 DEF Confirm, TypeOK, Credentials
  <2>2. QED BY <1>5, <2>1 DEF Confirm
<1>6. CASE StartRotation
  <2>1. pending'.signed = rotated' /\ pending' # None
    <3>1. rotated' \in Key
      BY <1>6 DEF StartRotation, TypeOK, Credentials, Key
    <3>2. pending' \in Request
      BY <1>6, <3>1 DEF StartRotation, Request
    <3>3. QED BY <1>6, <3>2, NoneAssumption DEF StartRotation
  <2>2. QED BY <1>6, <2>1 DEF StartRotation
<1>7. CASE SaveRotated
  <2>1. creds'.signed = rotated /\ mem'.signed = rotated
    BY <1>7 DEF SaveRotated, TypeOK, Credentials
  <2>2. QED BY <1>7, <2>1 DEF SaveRotated
<1>8. CASE SaveRotatedFails BY <1>8 DEF SaveRotatedFails
<1>9. CASE SavePairing BY <1>9 DEF SavePairing
<1>10. CASE Answered BY <1>10 DEF Answered
<1>11. CASE Rejected BY <1>11 DEF Rejected, Positions
<1>12. CASE GiveUp /\ (mem' = mem \/ mem' = creds)
  <2>1. /\ pc' = "idle" /\ creds' = creds /\ signed' = signed
        /\ doubt' = (doubt \/ pc \in {"rotate", "save"})
    BY <1>12 DEF GiveUp
  <2>2. CASE doubt' BY <2>1, <2>2
  <2>3. CASE ~doubt' BY <1>12, <2>1, <2>3
  <2>4. QED BY <2>2, <2>3
<1>13. CASE ServerApplies BY <1>13 DEF ServerApplies, Apply, Positions
<1>14. CASE \E r \in late : LateApplies(r) BY <1>14 DEF LateApplies, Apply
<1>15. CASE \E k \in served : HandOut(k) BY <1>15 DEF HandOut
<1>16. CASE \E k \in handed : Consume(k) BY <1>16 DEF Consume
<1>17. CASE UNCHANGED vars BY <1>17 DEF vars
<1>18. QED
  BY <1>1, <1>2, <1>3, <1>4, <1>5, <1>6, <1>7, <1>8, <1>9, <1>10, <1>11, <1>12, <1>13,
     <1>14, <1>15, <1>16, <1>17
  DEF Next, ClientStep, ServerStep, QueryFails, Restart

-----------------------------------------------------------------------------
(* The invariant and what follows from it.                                 *)

LEMMA InitInv ==
  ASSUME Init
  PROVE  IInv
<1> DEFINE skey == [id |-> 1, pair |-> 1]
<1>1. skey \in Key
  BY DEF Key
<1>2. creds = [next |-> 1, first |-> 1, signed |-> skey] /\ mem = creds /\ signed = skey
  BY DEF Init
<1>3. creds \in Credentials
  BY <1>1, <1>2 DEF Credentials
<1> HIDE DEF skey
<1>4. TypeOK
  BY <1>1, <1>2, <1>3 DEF Init, TypeOK
<1>5. Counters /\ Positions
  BY <1>2, PreKeyAssumption DEF Init, Counters, Positions
<1>6. OfferedKnown
  BY DEF Init, OfferedKnown, Offered
<1>7. BatchUploaded /\ ConfirmedWasUploaded
  BY <1>2 DEF Init, BatchUploaded, ConfirmedWasUploaded
<1>8. SignedSync
  BY <1>2 DEF Init, SignedSync
<1>9. QED BY <1>4, <1>5, <1>6, <1>7, <1>8 DEF IInv

LEMMA StepInv ==
  ASSUME IInv, [Next]_vars
  PROVE  IInv'
BY TypeStep, CountersStep, PositionsStep, OfferedStep, BatchStep, SignedStep DEF IInv

LEMMA InvHolds == Spec => []IInv
BY InitInv, StepInv, PTL DEF Spec

(* The credentials, keys, requests and the server of PreKeys keep their    *)
(* types, for all counts and bounds.                                       *)
THEOREM TypeCorrect == Spec => []TypeOK
<1>1. IInv => TypeOK BY DEF IInv
<1>2. QED BY <1>1, InvHolds, PTL

(* prepare_pre_keys_in_tx never generates an id again that the server has  *)
(* or may still get: any key a peer may use is in the store.               *)
THEOREM ServedKeysStored == Spec => []ServedKeyIsStored
<1>1. IInv => ServedKeyIsStored
  BY DEF IInv, TypeOK, OfferedKnown, Offered, ServedKeyIsStored
<1>2. QED BY <1>1, InvHolds, PTL

(* confirm_pre_key_upload advances first_unuploaded_pre_key_id over ids    *)
(* that the server has taken only.                                         *)
THEOREM ConfirmedUploaded == Spec => []ConfirmedWasUploaded
<1>1. IInv => ConfirmedWasUploaded BY DEF IInv
<1>2. QED BY <1>1, InvHolds, PTL

(* Uploads, rotations and saves of the credentials keep the signed pre-key *)
(* of the server and of the store in step.                                 *)
THEOREM SignedKeysInStep == Spec => []SignedKeyInStep
<1>1. IInv => SignedKeyInStep
  BY DEF IInv, SignedSync, SignedKeyInStep
<1>2. QED BY <1>1, InvHolds, PTL
=============================================================================
