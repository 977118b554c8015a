---------------------------- MODULE IncomingProofs ----------------------------
(****************************************************************************)
(* Proofs about IncomingEvents, for every set of keys and every bound: no   *)
(* answered event is lost but with the node in work; the buffer, the        *)
(* transactions and the replays implement DurableEvents; a processor that   *)
(* goes on receiving has skipped no event; the newest event of a record     *)
(* wins, in spite of the replays.                                           *)
(****************************************************************************)
EXTENDS IncomingEvents, SequenceTheorems, FiniteSetTheorems, WellFoundedInduction, TLAPS

-----------------------------------------------------------------------------
(* Maps.                                                                    *)

IsMap(map) == map = [k \in DOMAIN map |-> map[k]]

\* A map of one entry.
LEMMA EntryMap ==
  ASSUME NEW key, NEW value
  PROVE  DOMAIN Entry(key, value) = {key} /\ Entry(key, value)[key] = value
BY DEF Entry

\* The empty sequence is the empty map.
LEMMA EmptyMap == DOMAIN << >> = {} /\ IsMap(<< >>)
BY DEF IsMap

\* A map without some keys.
LEMMA WithoutMap ==
  ASSUME NEW map, NEW keys
  PROVE  /\ DOMAIN Without(map, keys) = DOMAIN map \ keys
         /\ \A k \in DOMAIN map \ keys : Without(map, keys)[k] = map[k]
         /\ IsMap(Without(map, keys))
BY DEF Without, IsMap

\* A map written over another has the keys of both.
LEMMA OverMap ==
  ASSUME NEW new, NEW map
  PROVE  /\ DOMAIN Over(new, map) = DOMAIN new \cup DOMAIN map
         /\ \A k \in DOMAIN new : Over(new, map)[k] = new[k]
         /\ \A k \in DOMAIN map \ DOMAIN new : Over(new, map)[k] = map[k]
         /\ IsMap(Over(new, map))
BY DEF Over, IsMap

\* Two maps are the same when they agree at every key.
LEMMA SameMap ==
  ASSUME NEW map1, NEW map2, IsMap(map1), IsMap(map2), DOMAIN map1 = DOMAIN map2,
         \A k \in DOMAIN map1 : map1[k] = map2[k]
  PROVE  map1 = map2
BY DEF IsMap

\* Writing b over a and then c over the result is writing c-over-b over a.
LEMMA OverAssociates ==
  ASSUME NEW a, NEW b, NEW c
  PROVE  Over(c, Over(b, a)) = Over(Over(c, b), a)
BY DEF Over

\* A merge has the keys of both maps.
LEMMA MergeMap ==
  ASSUME NEW map, NEW new
  PROVE  /\ DOMAIN MergeEach(map, new) = DOMAIN map \cup DOMAIN new
         /\ \A k \in DOMAIN map \ DOMAIN new : MergeEach(map, new)[k] = map[k]
         /\ \A k \in DOMAIN map \cap DOMAIN new : MergeEach(map, new)[k] = Over(new[k], map[k])
         /\ \A k \in DOMAIN new \ DOMAIN map : MergeEach(map, new)[k] = new[k]
         /\ IsMap(MergeEach(map, new))
BY DEF MergeEach, IsMap

\* Merging field by field associates.
LEMMA MergeAssociates ==
  ASSUME NEW a, NEW b, NEW c
  PROVE  MergeEach(a, MergeEach(b, c)) = MergeEach(MergeEach(a, b), c)
<1>1. \A x, y, z : Over(z, Over(y, x)) = Over(Over(z, y), x)
  BY OverAssociates
<1>2. QED BY <1>1 DEF MergeEach

\* Merging with nothing changes nothing.
LEMMA MergeNothing ==
  ASSUME NEW map, IsMap(map)
  PROVE  MergeEach(map, << >>) = map /\ MergeEach(<< >>, map) = map
BY DEF MergeEach, IsMap

\* Writing nothing over a map, or a map over nothing, changes nothing.
LEMMA OverNothing ==
  ASSUME NEW map, IsMap(map)
  PROVE  Over(<< >>, map) = map /\ Over(map, << >>) = map
BY DEF Over, IsMap

-----------------------------------------------------------------------------
(* The buffer and the store.                                                *)

Shaped(b) ==
  b = [upsert |-> b.upsert, update |-> b.update, delete |-> b.delete,
       contacts |-> b.contacts, receipts |-> b.receipts, immediate |-> b.immediate]

StoreShaped(s) ==
  /\ s = [messages |-> s.messages, updates |-> s.updates,
          contacts |-> s.contacts, receipts |-> s.receipts]
  /\ IsMap(s.messages) /\ IsMap(s.contacts) /\ IsMap(s.receipts)

\* No key is in two of the maps for messages.
Apart(b) ==
  /\ DOMAIN b.upsert \cap DOMAIN b.update = {}
  /\ (DOMAIN b.upsert \cup DOMAIN b.update) \cap b.delete = {}

\* An empty batch has no event of any kind.
LEMMA EmptyShaped ==
  /\ Shaped(EmptyBatch) /\ Apart(EmptyBatch)
  /\ EmptyBatch.upsert = << >> /\ EmptyBatch.update = << >> /\ EmptyBatch.delete = {}
  /\ EmptyBatch.contacts = << >> /\ EmptyBatch.receipts = << >>
BY EmptyMap DEF Shaped, Apart, EmptyBatch

\* What ApplyBatch makes of each field.
LEMMA AppliedFields ==
  ASSUME NEW b, NEW e, Shaped(b)
  PROVE  LET r == ApplyBatch(b, e)
             arrived == Over(e.upsert, b.upsert)
             here == DOMAIN e.update \cap DOMAIN arrived
             gone == b.delete \ DOMAIN e.upsert
         IN  /\ Shaped(r)
             /\ r.upsert = Without(MergeEach(arrived,
                                     Without(e.update, DOMAIN e.update \ here)), e.delete)
             /\ r.update = Without(MergeEach(Without(b.update, DOMAIN e.upsert),
                                     Without(e.update, here \cup gone)), e.delete)
             /\ r.delete = gone \cup e.delete
             /\ r.contacts = MergeEach(b.contacts, e.contacts)
             /\ r.receipts = Over(e.receipts, b.receipts)
<1> DEFINE b1 == ApplyUpsert(b, e.upsert)
           b2 == ApplyUpdate(b1, e.update)
           b3 == ApplyDelete(b2, e.delete)
           r == ApplyBatch(b, e)
<1>1. /\ Shaped(b1)
      /\ b1.upsert = Over(e.upsert, b.upsert)
      /\ b1.update = Without(b.update, DOMAIN e.upsert)
      /\ b1.delete = b.delete \ DOMAIN e.upsert
      /\ b1.contacts = b.contacts /\ b1.receipts = b.receipts
  <2>1. b1 = [b EXCEPT !.delete = @ \ DOMAIN e.upsert,
                       !.update = Without(@, DOMAIN e.upsert),
                       !.upsert = Over(e.upsert, @)]
    BY DEF ApplyUpsert
  <2> HIDE DEF b1
  <2>2. QED BY <2>1 DEF Shaped
<1> DEFINE here == DOMAIN e.update \cap DOMAIN b1.upsert
<1>2. /\ Shaped(b2)
      /\ b2.upsert = MergeEach(b1.upsert, Without(e.update, DOMAIN e.update \ here))
      /\ b2.update = MergeEach(b1.update, Without(e.update, here \cup b1.delete))
      /\ b2.delete = b1.delete
      /\ b2.contacts = b1.contacts /\ b2.receipts = b1.receipts
  <2>1. b2 = [b1 EXCEPT
                !.upsert = MergeEach(@, Without(e.update, DOMAIN e.update \ here)),
                !.update = MergeEach(@, Without(e.update, here \cup b1.delete))]
    BY DEF ApplyUpdate
  <2> HIDE DEF b1, b2
  <2>2. QED BY <1>1, <2>1 DEF Shaped
<1>3. /\ Shaped(b3)
      /\ b3.upsert = Without(b2.upsert, e.delete)
      /\ b3.update = Without(b2.update, e.delete)
      /\ b3.delete = b2.delete \cup e.delete
      /\ b3.contacts = b2.contacts /\ b3.receipts = b2.receipts
  <2>1. b3 = [b2 EXCEPT !.upsert = Without(@, e.delete), !.update = Without(@, e.delete),
                        !.delete = @ \cup e.delete]
    BY DEF ApplyDelete
  <2> HIDE DEF b2, b3
  <2>2. QED BY <1>2, <2>1 DEF Shaped
<1>4. /\ r = [b3 EXCEPT !.contacts = MergeEach(@, e.contacts),
                        !.receipts = Over(e.receipts, @),
                        !.immediate = @ \o e.immediate]
  BY DEF ApplyBatch
<1>5. /\ Shaped(r)
      /\ r.upsert = b3.upsert /\ r.update = b3.update /\ r.delete = b3.delete
      /\ r.contacts = MergeEach(b3.contacts, e.contacts)
      /\ r.receipts = Over(e.receipts, b3.receipts)
  <2> HIDE DEF b3, r
  <2>1. QED BY <1>3, <1>4 DEF Shaped
<1> HIDE DEF b1, b2, b3, r
<1>6. here = DOMAIN e.update \cap DOMAIN Over(e.upsert, b.upsert)
  BY <1>1
<1>7. QED BY <1>1, <1>2, <1>3, <1>5, <1>6 DEF r

\* A buffer stays apart when a batch is applied.
LEMMA AppliedApart ==
  ASSUME NEW b, NEW e, Shaped(b), Apart(b)
  PROVE  Apart(ApplyBatch(b, e))
<1> DEFINE r == ApplyBatch(b, e)
           here == DOMAIN e.update \cap (DOMAIN e.upsert \cup DOMAIN b.upsert)
           gone == b.delete \ DOMAIN e.upsert
<1>1. /\ DOMAIN r.upsert = (DOMAIN e.upsert \cup DOMAIN b.upsert) \ e.delete
      /\ DOMAIN r.update = ((DOMAIN b.update \ DOMAIN e.upsert)
                              \cup (DOMAIN e.update \ (here \cup gone))) \ e.delete
      /\ r.delete = gone \cup e.delete
  <2> DEFINE arrived == Over(e.upsert, b.upsert)
             in == DOMAIN e.update \cap DOMAIN arrived
  <2>1. /\ r.upsert = Without(MergeEach(arrived,
                                Without(e.update, DOMAIN e.update \ in)), e.delete)
        /\ r.update = Without(MergeEach(Without(b.update, DOMAIN e.upsert),
                                Without(e.update, in \cup gone)), e.delete)
        /\ r.delete = gone \cup e.delete
    BY AppliedFields
  <2>2. DOMAIN arrived = DOMAIN e.upsert \cup DOMAIN b.upsert
    BY OverMap
  <2> HIDE DEF arrived, r
  <2>3. QED BY <2>1, <2>2 DEF Without, MergeEach
<1> HIDE DEF r
<1>2. Apart(r)
  BY <1>1 DEF Apart
<1>3. QED BY <1>2 DEF r

\* The transaction for messages, key by key.
LEMMA StoredMessages ==
  ASSUME NEW s, NEW b, StoreShaped(s), Apart(b)
  PROVE  LET v == PersistMessages(s, b) IN
         /\ StoreShaped(v)
         /\ v.contacts = s.contacts /\ v.receipts = s.receipts
         /\ DOMAIN v.messages = (DOMAIN b.upsert \cup DOMAIN s.messages) \ b.delete
         /\ DOMAIN v.updates \subseteq
              DOMAIN s.updates
                \cup (DOMAIN b.update \ (DOMAIN b.upsert \cup DOMAIN s.messages))
         /\ \A k \in DOMAIN v.messages \ DOMAIN s.updates :
              v.messages[k] = IF k \in DOMAIN b.upsert THEN b.upsert[k]
                              ELSE IF k \in DOMAIN b.update
                              THEN Over(b.update[k], s.messages[k])
                              ELSE s.messages[k]
<1> DEFINE v == PersistMessages(s, b)
           arrived == [k \in DOMAIN b.upsert |->
                         IF k \in DOMAIN s.updates
                         THEN Over(s.updates[k], b.upsert[k]) ELSE b.upsert[k]]
           stored == Over(arrived, s.messages)
           known == DOMAIN b.update \cap DOMAIN stored
           merged == MergeEach(stored, Without(b.update, DOMAIN b.update \ known))
           waiting == Over(Without(b.update, known),
                           Without(s.updates, known \cup DOMAIN b.upsert))
<1>1. v = [s EXCEPT !.messages = Without(merged, b.delete),
                    !.updates = Without(waiting, b.delete)]
  BY DEF PersistMessages
<1>2. /\ StoreShaped(v)
      /\ v.messages = Without(merged, b.delete) /\ v.updates = Without(waiting, b.delete)
      /\ v.contacts = s.contacts /\ v.receipts = s.receipts
  <2>1. IsMap(Without(merged, b.delete))
    BY WithoutMap
  <2> HIDE DEF v, merged, waiting
  <2>2. QED BY <1>1, <2>1 DEF StoreShaped
<1> HIDE DEF v
<1>3. /\ DOMAIN stored = DOMAIN b.upsert \cup DOMAIN s.messages
      /\ \A k \in DOMAIN stored \ DOMAIN s.updates :
           stored[k] = IF k \in DOMAIN b.upsert THEN b.upsert[k] ELSE s.messages[k]
  BY DEF Over
<1> HIDE DEF stored
<1>4. /\ DOMAIN merged = DOMAIN stored
      /\ \A k \in DOMAIN merged :
           merged[k] = IF k \in DOMAIN b.update THEN Over(b.update[k], stored[k])
                       ELSE stored[k]
  BY DEF MergeEach, Without
<1>5. DOMAIN waiting \subseteq DOMAIN s.updates \cup (DOMAIN b.update \ DOMAIN stored)
  BY DEF Over, Without
<1> HIDE DEF merged, waiting
<1>6. /\ DOMAIN v.messages = DOMAIN stored \ b.delete
      /\ \A k \in DOMAIN v.messages : v.messages[k] = merged[k]
      /\ DOMAIN v.updates \subseteq DOMAIN waiting
  BY <1>2, <1>4 DEF Without
<1>7. ASSUME NEW k \in DOMAIN v.messages \ DOMAIN s.updates
      PROVE  v.messages[k] = IF k \in DOMAIN b.upsert THEN b.upsert[k]
                             ELSE IF k \in DOMAIN b.update
                             THEN Over(b.update[k], s.messages[k])
                             ELSE s.messages[k]
  BY <1>3, <1>4, <1>6, <1>7 DEF Apart
<1>8. QED BY <1>2, <1>3, <1>5, <1>6, <1>7 DEF v

\* Storing no message changes none but those whose updates wait.
LEMMA StoredNothing ==
  ASSUME NEW s, StoreShaped(s)
  PROVE  LET v == PersistMessages(s, EmptyBatch) IN
         /\ DOMAIN v.messages = DOMAIN s.messages
         /\ \A k \in DOMAIN s.messages \ DOMAIN s.updates : v.messages[k] = s.messages[k]
<1> DEFINE v == PersistMessages(s, EmptyBatch)
<1>1. /\ DOMAIN v.messages =
           (DOMAIN EmptyBatch.upsert \cup DOMAIN s.messages) \ EmptyBatch.delete
      /\ \A k \in DOMAIN v.messages \ DOMAIN s.updates :
           v.messages[k] = IF k \in DOMAIN EmptyBatch.upsert THEN EmptyBatch.upsert[k]
                           ELSE IF k \in DOMAIN EmptyBatch.update
                           THEN Over(EmptyBatch.update[k], s.messages[k])
                           ELSE s.messages[k]
  BY StoredMessages, EmptyShaped
<1>2. /\ DOMAIN EmptyBatch.upsert = {} /\ DOMAIN EmptyBatch.update = {}
      /\ EmptyBatch.delete = {}
  BY EmptyShaped, EmptyMap
<1> HIDE DEF v
<1>3. QED BY <1>1, <1>2 DEF v

\* What the other two transactions make of each field.
LEMMA StoredRest ==
  ASSUME NEW s, NEW b, StoreShaped(s)
  PROVE  /\ StoreShaped(PersistState(s, b)) /\ StoreShaped(PersistInteractions(s, b))
         /\ PersistState(s, b).messages = s.messages
         /\ PersistState(s, b).updates = s.updates
         /\ PersistState(s, b).contacts = MergeEach(s.contacts, b.contacts)
         /\ PersistState(s, b).receipts = s.receipts
         /\ PersistInteractions(s, b).messages = s.messages
         /\ PersistInteractions(s, b).updates = s.updates
         /\ PersistInteractions(s, b).contacts = s.contacts
         /\ PersistInteractions(s, b).receipts = Over(b.receipts, s.receipts)
<1>1. IsMap(MergeEach(s.contacts, b.contacts)) /\ IsMap(Over(b.receipts, s.receipts))
  BY MergeMap, OverMap
<1> DEFINE p == PersistState(s, b)
           q == PersistInteractions(s, b)
<1>2. p = [s EXCEPT !.contacts = MergeEach(@, b.contacts)]
  BY DEF PersistState
<1>3. q = [s EXCEPT !.receipts = Over(b.receipts, @)]
  BY DEF PersistInteractions
<1> HIDE DEF p, q
<1>4. /\ StoreShaped(p) /\ p.messages = s.messages /\ p.updates = s.updates
      /\ p.contacts = MergeEach(s.contacts, b.contacts) /\ p.receipts = s.receipts
  BY <1>1, <1>2 DEF StoreShaped
<1>5. /\ StoreShaped(q) /\ q.messages = s.messages /\ q.updates = s.updates
      /\ q.contacts = s.contacts /\ q.receipts = Over(b.receipts, s.receipts)
  BY <1>1, <1>3 DEF StoreShaped
<1>6. QED BY <1>4, <1>5 DEF p, q

\* Two maps are the same, each without some keys.
SameBut(map1, keys1, map2, keys2) == Without(map1, keys1) = Without(map2, keys2)

\* A batch applied to the buffer changes the records as one plain application of
\* its upserts, updates and deletes does, at every key whose updates have all
\* found a message.
LEMMA AppliedIsPlain ==
  ASSUME NEW s, NEW b, NEW e, NEW marked, NEW marked2,
         StoreShaped(s), Shaped(b), Apart(b),
         DOMAIN s.updates \subseteq marked,
         DOMAIN b.update \ marked \subseteq DOMAIN s.messages,
         marked2 = marked \cup (DOMAIN e.update \
                     (DOMAIN PersistMessages(s, b).messages \cup DOMAIN e.upsert))
  PROVE  /\ SameBut(PersistMessages(s, ApplyBatch(b, e)).messages, marked2,
                    Promise!Overlay(
                        Over(e.upsert, Without(PersistMessages(s, b).messages, marked)),
                        e.update),
                    e.delete \cup marked2)
         /\ DOMAIN ApplyBatch(b, e).update \ marked2 \subseteq DOMAIN s.messages
<1> DEFINE v == PersistMessages(s, b).messages
           r == ApplyBatch(b, e)
           w == PersistMessages(s, r).messages
           before == Without(v, marked)
           held == Over(e.upsert, before)
           plain == Promise!Overlay(held, e.update)
           here == DOMAIN e.update \cap (DOMAIN e.upsert \cup DOMAIN b.upsert)
           gone == b.delete \ DOMAIN e.upsert
<1>1. Shaped(r) /\ Apart(r)
  BY AppliedFields, AppliedApart
<1>2. /\ r.delete = gone \cup e.delete
      /\ DOMAIN r.upsert = (DOMAIN e.upsert \cup DOMAIN b.upsert) \ e.delete
      /\ DOMAIN r.update = ((DOMAIN b.update \ DOMAIN e.upsert)
                              \cup (DOMAIN e.update \ (here \cup gone))) \ e.delete
      /\ \A k \in DOMAIN r.upsert :
           LET old == IF k \in DOMAIN e.upsert THEN e.upsert[k] ELSE b.upsert[k]
           IN  r.upsert[k] = IF k \in DOMAIN e.update THEN Over(e.update[k], old) ELSE old
      /\ \A k \in DOMAIN r.update :
           r.update[k] = IF k \notin DOMAIN e.update THEN b.update[k]
                         ELSE IF k \in DOMAIN b.update THEN Over(e.update[k], b.update[k])
                         ELSE e.update[k]
  <2> DEFINE arrived == Over(e.upsert, b.upsert)
             in == DOMAIN e.update \cap DOMAIN arrived
             up == MergeEach(arrived, Without(e.update, DOMAIN e.update \ in))
             ud == MergeEach(Without(b.update, DOMAIN e.upsert), Without(e.update, in \cup gone))
  <2>1. /\ r.upsert = Without(up, e.delete) /\ r.update = Without(ud, e.delete)
        /\ r.delete = gone \cup e.delete
    BY AppliedFields
  <2>2. /\ DOMAIN arrived = DOMAIN e.upsert \cup DOMAIN b.upsert
        /\ \A k \in DOMAIN arrived :
             arrived[k] = IF k \in DOMAIN e.upsert THEN e.upsert[k] ELSE b.upsert[k]
    BY DEF Over
  <2> HIDE DEF arrived, r
  <2>3. /\ DOMAIN up = DOMAIN arrived
        /\ \A k \in DOMAIN up :
             up[k] = IF k \in DOMAIN e.update THEN Over(e.update[k], arrived[k])
                     ELSE arrived[k]
    BY DEF MergeEach, Without
  <2>4. /\ DOMAIN ud = (DOMAIN b.update \ DOMAIN e.upsert)
                         \cup (DOMAIN e.update \ (here \cup gone))
        /\ \A k \in DOMAIN ud :
             ud[k] = IF k \notin DOMAIN e.update THEN b.update[k]
                     ELSE IF k \in DOMAIN b.update THEN Over(e.update[k], b.update[k])
                     ELSE e.update[k]
    BY <2>2 DEF MergeEach, Without, Apart
  <2> HIDE DEF up, ud
  <2>5. QED BY <2>1, <2>2, <2>3, <2>4 DEF Without
<1>3. /\ DOMAIN v = (DOMAIN b.upsert \cup DOMAIN s.messages) \ b.delete
      /\ \A k \in DOMAIN v \ marked :
           v[k] = IF k \in DOMAIN b.upsert THEN b.upsert[k]
                  ELSE IF k \in DOMAIN b.update THEN Over(b.update[k], s.messages[k])
                  ELSE s.messages[k]
  BY StoredMessages
<1> HIDE DEF r
<1>4. /\ DOMAIN w = (DOMAIN r.upsert \cup DOMAIN s.messages) \ r.delete
      /\ \A k \in DOMAIN w \ marked :
           w[k] = IF k \in DOMAIN r.upsert THEN r.upsert[k]
                  ELSE IF k \in DOMAIN r.update THEN Over(r.update[k], s.messages[k])
                  ELSE s.messages[k]
  BY <1>1, StoredMessages
<1> HIDE DEF v, w
<1>5. /\ DOMAIN before = DOMAIN v \ marked
      /\ \A k \in DOMAIN before : before[k] = v[k]
  BY DEF Without
<1> HIDE DEF before
<1>6. /\ DOMAIN held = DOMAIN e.upsert \cup (DOMAIN v \ marked)
      /\ \A k \in DOMAIN held : held[k] = IF k \in DOMAIN e.upsert THEN e.upsert[k] ELSE v[k]
  BY <1>5 DEF Over
<1> HIDE DEF held
<1>7. /\ DOMAIN plain = DOMAIN held
      /\ \A k \in DOMAIN plain :
           plain[k] = IF k \in DOMAIN e.update THEN Over(e.update[k], held[k]) ELSE held[k]
  BY DEF Promise!Overlay, Promise!Over, Over
<1> HIDE DEF plain
<1>8. marked2 = marked \cup (DOMAIN e.update \ DOMAIN held)
  BY <1>6 DEF v
<1>9. DOMAIN r.update \ marked2 \subseteq DOMAIN s.messages
  BY <1>2, <1>3, <1>6, <1>8
<1>10. DOMAIN w \ marked2 = DOMAIN plain \ (e.delete \cup marked2)
  BY <1>2, <1>3, <1>4, <1>6, <1>7, <1>8 DEF Apart
<1>11. ASSUME NEW k \in DOMAIN w \ marked2
       PROVE  w[k] = plain[k]
  <2>1. /\ k \notin marked /\ k \notin marked2 /\ k \in DOMAIN held /\ k \in DOMAIN plain
        /\ k \notin e.delete /\ k \notin gone
    BY <1>2, <1>4, <1>7, <1>8, <1>10, <1>11
  <2>2. CASE k \in DOMAIN e.upsert \/ k \in DOMAIN b.upsert
    BY <1>2, <1>3, <1>4, <1>6, <1>7, <2>1, <2>2 DEF Apart
  <2>3. CASE k \notin DOMAIN e.upsert /\ k \notin DOMAIN b.upsert
    <3>1. /\ k \in DOMAIN s.messages /\ k \in DOMAIN v /\ held[k] = v[k]
          /\ w[k] = IF k \in DOMAIN r.update THEN Over(r.update[k], s.messages[k])
                    ELSE s.messages[k]
      BY <1>2, <1>3, <1>4, <1>6, <2>1, <2>3
    <3>2. k \in DOMAIN r.update <=> k \in DOMAIN b.update \/ k \in DOMAIN e.update
      BY <1>2, <2>1, <2>3
    <3>3. v[k] = IF k \in DOMAIN b.update THEN Over(b.update[k], s.messages[k])
                 ELSE s.messages[k]
      BY <1>3, <2>1, <2>3, <3>1
    <3>4. CASE k \in DOMAIN b.update /\ k \in DOMAIN e.update
      BY <1>2, <1>7, <2>1, <3>1, <3>2, <3>3, <3>4, OverAssociates
    <3>5. CASE k \notin DOMAIN b.update \/ k \notin DOMAIN e.update
      BY <1>2, <1>7, <2>1, <3>1, <3>2, <3>3, <3>5
    <3>6. QED BY <3>4, <3>5
  <2>4. QED BY <2>2, <2>3
<1>12. SameBut(w, marked2, plain, e.delete \cup marked2)
  BY <1>10, <1>11 DEF Without, SameBut
<1>13. QED BY <1>8, <1>9, <1>12 DEF v, w, r, before, held, plain

-----------------------------------------------------------------------------
(* What passes through the hub and the processor.                           *)

Working == {"process", "respond", "messages", "state", "interactions", "effects"}
Issued == UNION {MessageItems(n) \cup OtherItems(n) : n \in Nat}
HubEvents == [type : {"node", "closed", "other"}, items : Seq(Nat)]

IssuedNode(event) ==
  /\ ToSet(event.items) \subseteq DOMAIN stream
  /\ event.type = "node" => event.items # << >>

\* The items in the hub and in work have been issued, and the processor answers
\* the items of its node one after the other.
PassInv ==
  /\ stream \in Seq(Issued)
  /\ unanswered \subseteq DOMAIN stream
  /\ opened \subseteq DOMAIN stream
  /\ hub \in Seq(HubEvents)
  /\ \A i \in DOMAIN hub : IssuedNode(hub[i])
  /\ pc \in Working \cup {"off", "recv", "ended"}
  /\ node \in Seq(Nat) /\ ToSet(node) \subseteq DOMAIN stream
  /\ answers \in Seq([item : Nat, ok : BOOLEAN])
  /\ pc = "process" => Len(answers) < Len(node)
  /\ pc = "respond" => answers # << >>
  /\ pc \notin {"process", "respond"} => answers = << >>

\* A subscriber's events are those it had and those it hears.
LEMMA Heard ==
  ASSUME hub \in Seq(HubEvents), NEW events \in Seq(HubEvents), Hear(events)
  PROVE  /\ hub' \in Seq(HubEvents)
         /\ \A i \in DOMAIN hub' : \/ \E j \in DOMAIN hub : hub'[i] = hub[j]
                                   \/ \E j \in DOMAIN events : hub'[i] = events[j]
<1> DEFINE all == hub \o events
           over == IF Len(all) > HubCapacity THEN Len(all) - HubCapacity ELSE 0
<1>1. CASE ~ Subscribed
  BY <1>1 DEF Hear
<1>2. CASE Subscribed
  <2>1. /\ all \in Seq(HubEvents)
        /\ Len(all) = Len(hub) + Len(events)
        /\ \A i \in DOMAIN all : all[i] = IF i <= Len(hub) THEN hub[i] ELSE events[i - Len(hub)]
    OBVIOUS
  <2>2. over \in 0 .. Len(all)
    BY <2>1, IncomingAssumption
  <2>3. hub' = SubSeq(all, over + 1, Len(all))
    BY <1>2 DEF Hear
  <2> HIDE DEF all, over
  <2>4. /\ hub' \in Seq(HubEvents)
        /\ \A i \in DOMAIN hub' : i + over \in DOMAIN all /\ hub'[i] = all[i + over]
    BY <2>1, <2>2, <2>3
  <2>5. ASSUME NEW i \in DOMAIN hub'
        PROVE  \/ \E j \in DOMAIN hub : hub'[i] = hub[j]
               \/ \E j \in DOMAIN events : hub'[i] = events[j]
    <3>1. CASE i + over <= Len(hub)
      <4>1. i + over \in DOMAIN hub
        BY <2>1, <2>2, <2>4, <3>1
      <4>2. QED BY <2>1, <2>4, <3>1, <4>1
    <3>2. CASE i + over > Len(hub)
      <4>1. i + over - Len(hub) \in DOMAIN events
        BY <2>1, <2>2, <2>4, <3>2
      <4>2. QED BY <2>1, <2>2, <2>4, <3>2, <4>1
    <3>3. QED BY <2>2, <2>4, <3>1, <3>2
  <2>6. QED BY <2>4, <2>5
<1>3. QED BY <1>1, <1>2

\* A node that is heard has been issued.
LEMMA HeardNode ==
  ASSUME PassInv, NEW items \in Seq(Nat), HearNode(items), items # << >>,
         DOMAIN stream \subseteq DOMAIN stream', ToSet(items) \subseteq DOMAIN stream'
  PROVE  hub' \in Seq(HubEvents) /\ \A i \in DOMAIN hub' : IssuedNode(hub[i])'
<1> DEFINE events == << NodeEvent(items) >>
<1>1. /\ events \in Seq(HubEvents) /\ Hear(events)
      /\ events[1].items = items /\ DOMAIN events = {1}
  BY DEF HearNode, NodeEvent, HubEvents
<1>2. /\ hub' \in Seq(HubEvents)
      /\ \A i \in DOMAIN hub' : \/ \E j \in DOMAIN hub : hub'[i] = hub[j]
                                \/ \E j \in DOMAIN events : hub'[i] = events[j]
  BY <1>1, Heard DEF PassInv
<1> HIDE DEF events
<1>3. ASSUME NEW i \in DOMAIN hub'
      PROVE  IssuedNode(hub[i])'
  <2>1. CASE \E j \in DOMAIN hub : hub'[i] = hub[j]
    BY <2>1 DEF PassInv, IssuedNode
  <2>2. CASE hub'[i] = events[1]
    BY <1>1, <2>2 DEF IssuedNode
  <2>3. QED BY <1>1, <1>2, <2>1, <2>2
<1>4. QED BY <1>2, <1>3

\* Events that are no nodes bring no item.
LEMMA HeardOther ==
  ASSUME PassInv, NEW events \in Seq({ClosedEvent, OtherEvent}), Hear(events),
         UNCHANGED stream
  PROVE  hub' \in Seq(HubEvents) /\ \A i \in DOMAIN hub' : IssuedNode(hub[i])'
<1>1. {ClosedEvent, OtherEvent} \subseteq HubEvents
  BY DEF ClosedEvent, OtherEvent, HubEvents
<1>2. events \in Seq(HubEvents)
  BY <1>1
<1>3. /\ hub' \in Seq(HubEvents)
      /\ \A i \in DOMAIN hub' : \/ \E j \in DOMAIN hub : hub'[i] = hub[j]
                                \/ \E j \in DOMAIN events : hub'[i] = events[j]
  BY <1>2, Heard DEF PassInv
<1>4. ASSUME NEW i \in DOMAIN hub'
      PROVE  IssuedNode(hub[i])'
  <2>1. CASE \E j \in DOMAIN hub : hub'[i] = hub[j]
    BY <2>1 DEF PassInv, IssuedNode
  <2>2. CASE hub'[i] \in {ClosedEvent, OtherEvent}
    BY <2>2 DEF IssuedNode, ClosedEvent, OtherEvent, ToSet
  <2>3. QED BY <1>3, <2>1, <2>2
<1>5. QED BY <1>3, <1>4

\* The unanswered items, in order, are a sequence that is not empty.
LEMMA BacklogItems ==
  ASSUME PassInv, unanswered # {}, NEW items \in InOrder(unanswered)
  PROVE  items \in Seq(Nat) /\ items # << >> /\ ToSet(items) \subseteq unanswered
<1>1. DOMAIN stream = 1 .. Len(stream) /\ Len(stream) \in Nat
  BY DEF PassInv
<1>2. IsFiniteSet(unanswered)
  <2>1. IsFiniteSet(1 .. Len(stream))
    BY <1>1, FS_Interval
  <2>2. QED BY <1>1, <2>1, FS_Subset DEF PassInv
<1>3. Cardinality(unanswered) \in Nat \ {0}
  BY <1>2, FS_CardinalityType, FS_EmptySet
<1>4. items \in [1 .. Cardinality(unanswered) -> unanswered]
  BY DEF InOrder
<1>5. unanswered \subseteq Nat
  BY <1>1 DEF PassInv
<1>6. Len(items) = Cardinality(unanswered) /\ items \in Seq(unanswered)
  BY <1>3, <1>4
<1>7. items \in Seq(Nat) /\ items # << >>
  <2>1. \A i \in 1 .. Len(items) : items[i] \in Nat
    BY <1>4, <1>5, <1>6
  <2>2. QED BY <1>3, <1>6, <2>1
<1>8. ToSet(items) \subseteq unanswered
  BY <1>4 DEF ToSet
<1>9. QED BY <1>7, <1>8

\* The server issues an item.
LEMMA PassIssue ==
  ASSUME PassInv, ServerIssue
  PROVE  PassInv'
<1>1. PICK item \in MessageItems(Len(stream) + 1) \cup OtherItems(Len(stream) + 1) :
        stream' = Append(stream, item)
  BY DEF ServerIssue
<1>2. item \in Issued
  BY DEF PassInv, Issued
<1>3. /\ stream' \in Seq(Issued) /\ Len(stream') = Len(stream) + 1
      /\ DOMAIN stream' = 1 .. Len(stream) + 1 /\ DOMAIN stream = 1 .. Len(stream)
      /\ Len(stream) \in Nat
  BY <1>1, <1>2 DEF PassInv
<1>4. unanswered' \subseteq DOMAIN stream' /\ opened' \subseteq DOMAIN stream'
  BY <1>3 DEF ServerIssue, PassInv
<1>5. hub' \in Seq(HubEvents) /\ \A i \in DOMAIN hub' : IssuedNode(hub[i])'
  <2>1. CASE link = "up"
    <3>0. PICK items : items = << Len(stream') >>
      OBVIOUS
    <3>1. HearNode(items)
      BY <2>1, <3>0 DEF ServerIssue
    <3>2. items \in Seq(Nat) /\ items # << >> /\ ToSet(items) \subseteq DOMAIN stream'
      BY <1>3, <3>0 DEF ToSet
    <3>3. DOMAIN stream \subseteq DOMAIN stream'
      BY <1>3
    <3>4. QED BY <3>1, <3>2, <3>3, HeardNode
  <2>2. CASE link # "up"
    <3>1. hub' = hub
      BY <2>2 DEF ServerIssue, queue
    <3>2. DOMAIN stream \subseteq DOMAIN stream'
      BY <1>3
    <3>3. QED BY <3>1, <3>2 DEF PassInv, IssuedNode
  <2>3. QED BY <2>1, <2>2
<1>6. UNCHANGED <<pc, node, answers>>
  BY DEF ServerIssue
<1>7. QED BY <1>3, <1>4, <1>5, <1>6 DEF PassInv

\* Connections come and go, and the backlog is delivered.
LEMMA PassNetwork ==
  ASSUME PassInv, Connect \/ DeliverBacklog \/ LinkDies \/ Disconnect
  PROVE  PassInv'
<1>1. CASE Connect
  BY <1>1 DEF Connect, PassInv, IssuedNode, server, queue, history, Subscribed, Working
<1>2. CASE DeliverBacklog
  <2>1. hub' \in Seq(HubEvents) /\ \A i \in DOMAIN hub' : IssuedNode(hub[i])'
    <3>1. CASE unanswered = {}
      <4>1. UNCHANGED <<queue, stream>>
        BY <1>2, <3>1 DEF DeliverBacklog, server
      <4>2. hub' = hub /\ stream' = stream
        BY <4>1 DEF queue
      <4>3. QED BY <4>2 DEF PassInv, IssuedNode
    <3>2. CASE unanswered # {}
      <4>1. PICK items \in InOrder(unanswered) : HearNode(items)
        BY <1>2, <3>2 DEF DeliverBacklog
      <4>2. DOMAIN stream \subseteq DOMAIN stream' /\ unanswered \subseteq DOMAIN stream'
        BY <1>2 DEF DeliverBacklog, PassInv, server
      <4>3. items \in Seq(Nat) /\ items # << >> /\ ToSet(items) \subseteq DOMAIN stream'
        BY <3>2, <4>2, BacklogItems
      <4>4. QED BY <4>1, <4>2, <4>3, HeardNode
    <3>3. QED BY <3>1, <3>2
  <2>2. QED BY <1>2, <2>1 DEF DeliverBacklog, PassInv, server
<1>3. CASE LinkDies
  BY <1>3 DEF LinkDies, PassInv, IssuedNode, server, queue
<1>4. CASE Disconnect
  <2>1. << ClosedEvent >> \in Seq({ClosedEvent, OtherEvent})
    OBVIOUS
  <2>2. hub' \in Seq(HubEvents) /\ \A i \in DOMAIN hub' : IssuedNode(hub[i])'
    BY <1>4, <2>1, HeardOther DEF Disconnect, server
  <2>3. QED BY <1>4, <2>2 DEF Disconnect, PassInv, server
<1>5. QED BY <1>1, <1>2, <1>3, <1>4

\* The processor ends with nothing left in work.
LEMMA PassEnds ==
  ASSUME PassInv, NEW state \in {"off", "ended"}, Ends(state),
         UNCHANGED server, opened' \subseteq DOMAIN stream
  PROVE  PassInv'
<1>1. /\ node' = << >> /\ answers' = << >> /\ hub' = << >> /\ pc' = state
      /\ UNCHANGED <<stream, unanswered>>
  BY DEF Ends, server
<1>2. /\ << >> \in Seq(Nat) /\ << >> \in Seq(HubEvents) /\ DOMAIN << >> = {}
      /\ << >> \in Seq([item : Nat, ok : BOOLEAN])
  BY EmptyMap
<1>3. ToSet(<< >>) = {}
  BY <1>2 DEF ToSet
<1>4. QED BY <1>1, <1>2, <1>3 DEF PassInv, Working

\* The item in work.
LEMMA InWork ==
  ASSUME PassInv, pc = "process"
  PROVE  /\ Len(answers) + 1 \in DOMAIN node
         /\ node[Len(answers) + 1] \in ToSet(node)
         /\ node[Len(answers) + 1] \in DOMAIN stream
         /\ node[Len(answers) + 1] \in Nat
BY DEF PassInv, ToSet

\* The processor takes nodes from the hub and works on them.
LEMMA PassProcessor ==
  ASSUME PassInv,
         \/ Spawn \/ RecvEnd \/ RecvNode \/ RecvOther \/ ProcessItem \/ ProcessOverflow
         \/ Respond \/ RespondFails \/ Persist \/ PersistFails \/ Emit \/ Crash
  PROVE  PassInv'
<1>1. CASE Spawn
  BY <1>1 DEF Spawn, PassInv, IssuedNode, server, Working
<1>2. CASE RecvEnd
  BY <1>2, PassEnds DEF RecvEnd, PassInv
<1>3. CASE RecvNode
  <2>1. /\ hub # << >> /\ Head(hub) \in HubEvents /\ IssuedNode(Head(hub))
        /\ Head(hub).type = "node"
    BY <1>3 DEF RecvNode, PassInv
  <2>2. node' \in Seq(Nat) /\ ToSet(node') \subseteq DOMAIN stream /\ Len(node') > 0
    BY <1>3, <2>1 DEF RecvNode, HubEvents, IssuedNode
  <2>3. hub' \in Seq(HubEvents) /\ \A i \in DOMAIN hub' : IssuedNode(hub[i])'
    BY <1>3 DEF RecvNode, PassInv, IssuedNode, server
  <2>4. QED BY <1>3, <2>2, <2>3 DEF RecvNode, PassInv, Working, server
<1>4. CASE RecvOther
  BY <1>4 DEF RecvOther, PassInv, IssuedNode, server
<1>5. CASE ProcessItem
  <2> DEFINE n == node[Len(answers) + 1]
             answer == [item |-> n, ok |-> ~ (stream[n].sealed /\ n \in opened)]
  <2>1. /\ pc = "process" /\ answers' = Append(answers, answer)
        /\ pc' = IF n = Last(node) THEN "respond" ELSE "process"
        /\ opened' \subseteq opened \cup {n}
        /\ UNCHANGED <<stream, unanswered, hub, node>>
    BY <1>5 DEF ProcessItem, server
  <2>2. n \in Nat /\ n \in DOMAIN stream /\ Len(answers) + 1 \in DOMAIN node
    BY <2>1, InWork
  <2>3. answer \in [item : Nat, ok : BOOLEAN]
    BY <2>2
  <2>4. /\ answers' \in Seq([item : Nat, ok : BOOLEAN])
        /\ Len(answers') = Len(answers) + 1 /\ answers' # << >>
    BY <2>1, <2>3 DEF PassInv
  <2>5. pc' = "process" => Len(answers') < Len(node')
    BY <2>1, <2>2, <2>4 DEF Last, PassInv
  <2> HIDE DEF n, answer
  <2>6. QED BY <2>1, <2>2, <2>4, <2>5 DEF PassInv, IssuedNode, Working
<1>6. CASE ProcessOverflow
  BY <1>6, InWork, PassEnds DEF ProcessOverflow, PassInv
<1>7. CASE Respond
  <2>1. /\ pc = "respond" /\ answers' = Tail(answers)
        /\ pc' = IF Len(answers) > 1 THEN pc ELSE "messages"
        /\ unanswered' \subseteq unanswered
        /\ UNCHANGED <<stream, hub, opened, node>>
    BY <1>7 DEF Respond, queue
  <2>2. answers' \in Seq([item : Nat, ok : BOOLEAN]) /\ Len(answers') = Len(answers) - 1
    BY <2>1 DEF PassInv
  <2>3. \/ pc' = "respond" /\ answers' # << >>
        \/ pc' = "messages" /\ answers' = << >>
    <3>1. Len(answers) \in Nat \ {0}
      BY <2>1 DEF PassInv
    <3>2. CASE Len(answers) > 1
      <4>1. Len(answers') > 0
        BY <2>2, <3>1, <3>2
      <4>2. answers' # << >>
        BY <4>1
      <4>3. pc' = "respond"
        BY <2>1, <3>2
      <4>4. QED BY <4>2, <4>3
    <3>3. CASE ~ (Len(answers) > 1)
      <4>1. Len(answers') = 0
        BY <2>2, <3>1, <3>3
      <4>2. QED BY <2>1, <2>2, <3>3, <4>1
    <3>4. QED BY <3>1, <3>2, <3>3
  <2>4. QED BY <2>1, <2>2, <2>3 DEF PassInv, IssuedNode, Working
<1>8. CASE RespondFails
  BY <1>8, PassEnds DEF RespondFails, PassInv
<1>9. CASE Persist
  <2>1. /\ pc \in {"messages", "state", "interactions"}
        /\ pc' \in {"state", "interactions", "effects"}
        /\ UNCHANGED <<server, queue, node, answers, opened>>
    BY <1>9 DEF Persist, PersistStep
  <2>2. QED BY <2>1 DEF PassInv, IssuedNode, queue, Working, server
<1>10. CASE PersistFails
  BY <1>10, PassEnds DEF PersistFails, PassInv
<1>11. CASE Emit
  <2> DEFINE grouped == [batch EXCEPT !.immediate = << >>] # EmptyBatch
             events == [i \in 1..(Len(batch.immediate) + IF grouped THEN 1 ELSE 0) |->
                          OtherEvent]
  <2>1. Hear(events) /\ UNCHANGED stream
    BY <1>11 DEF Emit, server
  <2>2. events \in Seq({ClosedEvent, OtherEvent})
    OBVIOUS
  <2> HIDE DEF events
  <2>3. hub' \in Seq(HubEvents) /\ \A i \in DOMAIN hub' : IssuedNode(hub[i])'
    BY <2>1, <2>2, HeardOther
  <2>4. /\ pc = "effects" /\ pc' = "recv" /\ node' = << >>
        /\ UNCHANGED <<stream, unanswered, opened, answers>>
    BY <1>11 DEF Emit, server
  <2>5. << >> \in Seq(Nat) /\ ToSet(<< >>) = {}
    BY EmptyMap DEF ToSet
  <2>6. QED BY <2>3, <2>4, <2>5 DEF PassInv
<1>12. CASE Crash
  BY <1>12, PassEnds DEF Crash, PassInv
<1>13. QED BY <1>1, <1>2, <1>3, <1>4, <1>5, <1>6, <1>7, <1>8, <1>9, <1>10, <1>11, <1>12

\* Only items that were issued pass.
LEMMA PassAlways == Spec => []PassInv
<1>1. Init => PassInv
  BY EmptyMap DEF Init, PassInv, IssuedNode, ToSet
<1>2. PassInv /\ [Next]_vars => PassInv'
  <2> SUFFICES ASSUME PassInv, [Next]_vars PROVE PassInv'
    OBVIOUS
  <2>1. CASE UNCHANGED vars
    BY <2>1 DEF vars, PassInv, IssuedNode
  <2>2. QED BY <2>1, PassIssue, PassNetwork, PassProcessor DEF Next
<1>3. QED BY <1>1, <1>2, PTL DEF Spec

-----------------------------------------------------------------------------
(* No answered event is lost but with the node in work.                     *)

\* What is in the buffer or the batch comes from the node in work, a positive
\* answer is only prepared for it, and it is stored before the node is left.
AckInv ==
  /\ pc \notin Working => node = << >> /\ taken = {}
  /\ taken \subseteq ToSet(node)
  /\ \A i \in DOMAIN answers : answers[i].ok => answers[i].item \in taken
  /\ acked \subseteq kept \cup lost \cup taken
  /\ pc = "effects" => taken \subseteq kept

\* The processor ends: what it had answered and not stored is lost.
LEMMA AckEnds ==
  ASSUME AckInv, NEW state \in {"off", "ended"}, Ends(state)
  PROVE  AckInv'
<1>1. /\ node' = << >> /\ answers' = << >> /\ taken' = {} /\ pc' = state
      /\ lost' = lost \cup ((ToSet(node) \cap taken \cap acked) \ kept)
      /\ acked' = acked /\ kept' = kept
  BY DEF Ends
<1>2. acked \subseteq kept \cup lost'
  BY <1>1 DEF AckInv
<1>3. DOMAIN answers' = {}
  BY <1>1, EmptyMap
<1>4. QED BY <1>1, <1>2, <1>3 DEF AckInv, Working

\* Every step keeps account of what was answered.
LEMMA AckStep ==
  ASSUME PassInv, AckInv, Next
  PROVE  AckInv'
<1>1. CASE ServerIssue \/ Connect \/ DeliverBacklog \/ LinkDies \/ Disconnect \/ Spawn
            \/ RecvOther
  <2>1. /\ UNCHANGED <<node, answers, taken, acked, kept, lost>>
        /\ pc' = pc \/ (pc \notin Working /\ pc' \notin Working)
    BY <1>1 DEF ServerIssue, Connect, DeliverBacklog, LinkDies, Disconnect, Spawn, RecvOther,
                history, Subscribed, Working, PassInv
  <2>2. pc' = "effects" => pc = "effects"
    BY <2>1 DEF Working
  <2>3. QED BY <2>1, <2>2 DEF AckInv
<1>2. CASE RecvNode
  <2>1. /\ pc = "recv" /\ pc' = "process" /\ taken = {} /\ answers = << >>
        /\ UNCHANGED <<answers, taken, acked, kept, lost>>
    BY <1>2 DEF RecvNode, history, AckInv, PassInv, Working
  <2>2. DOMAIN answers' = {}
    BY <2>1, EmptyMap
  <2>3. QED BY <2>1, <2>2 DEF AckInv, Working
<1>3. CASE ProcessItem
  <2> DEFINE n == node[Len(answers) + 1]
             refused == stream[n].sealed /\ n \in opened
             answer == [item |-> n, ok |-> ~ refused]
  <2>1. /\ pc = "process" /\ pc' \in {"process", "respond"}
        /\ answers' = Append(answers, answer)
        /\ taken' = IF refused THEN taken ELSE taken \cup {n}
        /\ UNCHANGED <<node, acked, kept, lost>>
    BY <1>3 DEF ProcessItem
  <2>2. n \in ToSet(node)
    BY <2>1, InWork
  <2>3. answer.item = n /\ answer.ok = ~ refused
    OBVIOUS
  <2> HIDE DEF n, refused, answer
  <2>4. /\ DOMAIN answers' = 1 .. Len(answers) + 1 /\ DOMAIN answers = 1 .. Len(answers)
        /\ answers'[Len(answers) + 1] = answer
        /\ \A i \in 1 .. Len(answers) : answers'[i] = answers[i]
        /\ Len(answers) \in Nat
    BY <2>1 DEF PassInv
  <2>5. ASSUME NEW i \in DOMAIN answers', answers'[i].ok
        PROVE  answers'[i].item \in taken'
    <3>1. CASE i = Len(answers) + 1
      BY <2>1, <2>3, <2>4, <2>5, <3>1
    <3>2. CASE i \in DOMAIN answers
      BY <2>1, <2>4, <2>5, <3>2 DEF AckInv
    <3>3. QED BY <2>4, <3>1, <3>2
  <2>6. QED BY <2>1, <2>2, <2>5 DEF AckInv, Working
<1>4. CASE Respond
  <2>1. /\ pc = "respond" /\ answers # << >> /\ answers' = Tail(answers)
        /\ pc' \in {"respond", "messages"}
        /\ acked' = IF Head(answers).ok THEN acked \cup {Head(answers).item} ELSE acked
        /\ UNCHANGED <<node, taken, kept, lost>>
    BY <1>4 DEF Respond, PassInv
  <2>2. /\ 1 \in DOMAIN answers /\ Head(answers) = answers[1]
        /\ \A i \in DOMAIN answers' : i + 1 \in DOMAIN answers /\ answers'[i] = answers[i + 1]
    BY <2>1 DEF PassInv
  <2>3. QED BY <2>1, <2>2 DEF AckInv, Working
<1>5. CASE Persist
  <2>1. /\ pc \in Working /\ pc' \in Working
        /\ kept' = IF pc' = "effects" THEN kept \cup taken ELSE kept
        /\ UNCHANGED <<node, answers, taken, acked, lost>>
    BY <1>5 DEF Persist, PersistStep, Working
  <2>2. QED BY <2>1 DEF AckInv
<1>6. CASE Emit
  <2>1. /\ pc = "effects" /\ pc' = "recv" /\ node' = << >> /\ taken' = {}
        /\ answers = << >> /\ UNCHANGED <<answers, acked, kept, lost>>
    BY <1>6 DEF Emit, PassInv
  <2>2. DOMAIN answers' = {}
    BY <2>1, EmptyMap
  <2>3. QED BY <2>1, <2>2 DEF AckInv, Working
<1>7. CASE RecvEnd
  BY <1>7, AckEnds DEF RecvEnd
<1>8. CASE ProcessOverflow
  BY <1>8, AckEnds DEF ProcessOverflow
<1>9. CASE RespondFails
  BY <1>9, AckEnds DEF RespondFails
<1>10. CASE PersistFails
  BY <1>10, AckEnds DEF PersistFails
<1>11. CASE Crash
  BY <1>11, AckEnds DEF Crash
<1>12. QED BY <1>1, <1>2, <1>3, <1>4, <1>5, <1>6, <1>7, <1>8, <1>9, <1>10, <1>11 DEF Next

\* What was answered is always stored, lost or in work.
LEMMA AckAlways == Spec => []AckInv
<1>1. Init => AckInv
  BY EmptyMap DEF Init, AckInv, ToSet, Working
<1>2. PassInv /\ AckInv /\ [Next]_vars => AckInv'
  <2>1. CASE UNCHANGED vars
    BY <2>1 DEF vars, AckInv
  <2>2. QED BY <2>1, AckStep
<1>3. QED BY <1>1, <1>2, PassAlways, PTL DEF Spec

\* The processor answers before it stores, and the server never delivers an
\* answered item again: what ends the processor in between (a failed write, a
\* full buffer, a lost connection, a crash) costs items of the node in work, and
\* never one of a node it had finished.
THEOREM AckedAlwaysSafe == Spec => []AckedIsSafe
<1>1. AckInv => AckedIsSafe
  BY DEF AckInv, AckedIsSafe
<1>2. QED BY <1>1, AckAlways, PTL

-----------------------------------------------------------------------------
(* The buffer, the transactions and the replays implement DurableEvents.    *)

\* The buffer holds events only while nodes are processed and answered, the batch
\* only while it is stored; an update that waits in the buffer, the batch or the
\* store for its message is one of a key that is early, or finds it stored.
RefInv ==
  /\ Shaped(buf) /\ Apart(buf) /\ Shaped(batch) /\ Apart(batch) /\ StoreShaped(store)
  /\ pc \notin {"process", "respond"} => buf = EmptyBatch
  /\ pc \notin {"messages", "state", "interactions", "effects"} => batch = EmptyBatch
  /\ DOMAIN store.updates \subseteq early
  /\ DOMAIN Held({"messages"}).update \ early \subseteq DOMAIN store.messages

\* With nothing held the records are the stored ones.
LEMMA ViewOfNothing ==
  ASSUME NEW s, NEW marked, StoreShaped(s), DOMAIN s.updates \subseteq marked
  PROVE  /\ Without(PersistMessages(s, EmptyBatch).messages, marked)
              = Without(s.messages, marked)
         /\ PersistState(s, EmptyBatch).contacts = s.contacts
         /\ PersistInteractions(s, EmptyBatch).receipts = s.receipts
<1> DEFINE v == PersistMessages(s, EmptyBatch).messages
<1>1. /\ DOMAIN v = DOMAIN s.messages
      /\ \A k \in DOMAIN s.messages \ DOMAIN s.updates : v[k] = s.messages[k]
  BY StoredNothing
<1> HIDE DEF v
<1>2. Without(v, marked) = Without(s.messages, marked)
  BY <1>1 DEF Without
<1>3. /\ PersistState(s, EmptyBatch).contacts = MergeEach(s.contacts, << >>)
      /\ PersistInteractions(s, EmptyBatch).receipts = Over(<< >>, s.receipts)
  BY StoredRest, EmptyShaped
<1>4. IsMap(s.contacts) /\ IsMap(s.receipts)
  BY DEF StoreShaped
<1>5. MergeEach(s.contacts, << >>) = s.contacts /\ Over(<< >>, s.receipts) = s.receipts
  BY <1>4, MergeNothing, OverNothing
<1>6. QED BY <1>2, <1>3, <1>5 DEF v

\* A refused item adds nothing.
LEMMA AppliedNothing ==
  ASSUME NEW s, NEW b, NEW marked, StoreShaped(s), Shaped(b), Apart(b),
         DOMAIN s.updates \subseteq marked,
         DOMAIN b.update \ marked \subseteq DOMAIN s.messages
  PROVE  LET r == ApplyBatch(b, EmptyBatch)
         IN  /\ Without(PersistMessages(s, r).messages, marked)
                  = Without(PersistMessages(s, b).messages, marked)
             /\ PersistState(s, r).contacts = PersistState(s, b).contacts
             /\ PersistInteractions(s, r).receipts = PersistInteractions(s, b).receipts
             /\ DOMAIN r.update \ marked \subseteq DOMAIN s.messages
<1> DEFINE r == ApplyBatch(b, EmptyBatch)
           v == PersistMessages(s, b).messages
           w == PersistMessages(s, r).messages
           before == Without(v, marked)
<1>1. /\ EmptyBatch.upsert = << >> /\ EmptyBatch.update = << >> /\ EmptyBatch.delete = {}
      /\ EmptyBatch.contacts = << >> /\ EmptyBatch.receipts = << >> /\ DOMAIN << >> = {}
  BY EmptyShaped, EmptyMap
<1>2. marked = marked \cup (DOMAIN EmptyBatch.update \
                   (DOMAIN v \cup DOMAIN EmptyBatch.upsert))
  BY <1>1
<1>3. /\ SameBut(w, marked, Promise!Overlay(Over(<< >>, before), << >>), {} \cup marked)
      /\ DOMAIN r.update \ marked \subseteq DOMAIN s.messages
  <2>1. ASSUME NEW e, NEW all, e = EmptyBatch,
               all = marked \cup (DOMAIN e.update \
                       (DOMAIN PersistMessages(s, b).messages \cup DOMAIN e.upsert))
        PROVE  /\ SameBut(PersistMessages(s, ApplyBatch(b, e)).messages, all,
                          Promise!Overlay(Over(e.upsert, before), e.update),
                          e.delete \cup all)
               /\ DOMAIN ApplyBatch(b, e).update \ all \subseteq DOMAIN s.messages
    BY <2>1, AppliedIsPlain
  <2> HIDE DEF before
  <2>2. QED BY <1>1, <1>2, <2>1
<1>4. Without(Promise!Overlay(Over(<< >>, before), << >>), {} \cup marked) = before
  <2> HIDE DEF v
  <2>1. QED BY <1>1 DEF Promise!Overlay, Over, Without
<1>5. /\ r.contacts = MergeEach(b.contacts, << >>) /\ r.receipts = Over(<< >>, b.receipts)
  <2>1. ASSUME NEW e, e = EmptyBatch
        PROVE  /\ ApplyBatch(b, e).contacts = MergeEach(b.contacts, e.contacts)
               /\ ApplyBatch(b, e).receipts = Over(e.receipts, b.receipts)
    BY AppliedFields
  <2>2. /\ r.contacts = MergeEach(b.contacts, EmptyBatch.contacts)
        /\ r.receipts = Over(EmptyBatch.receipts, b.receipts)
    BY <2>1
  <2> HIDE DEF r
  <2>3. QED BY <1>1, <2>2
<1> HIDE DEF r, v, w
<1>6. PersistState(s, r).contacts = PersistState(s, b).contacts
  <2>1. /\ PersistState(s, r).contacts = MergeEach(s.contacts, MergeEach(b.contacts, << >>))
        /\ PersistState(s, b).contacts = MergeEach(s.contacts, b.contacts)
    BY <1>5, StoredRest
  <2>2. MergeEach(s.contacts, MergeEach(b.contacts, << >>))
          = MergeEach(MergeEach(s.contacts, b.contacts), << >>)
    BY MergeAssociates
  <2>3. IsMap(MergeEach(s.contacts, b.contacts))
    BY MergeMap
  <2>4. QED BY <2>1, <2>2, <2>3, MergeNothing
<1>7. PersistInteractions(s, r).receipts = PersistInteractions(s, b).receipts
  <2>1. /\ PersistInteractions(s, r).receipts = Over(Over(<< >>, b.receipts), s.receipts)
        /\ PersistInteractions(s, b).receipts = Over(b.receipts, s.receipts)
    BY <1>5, StoredRest
  <2>2. QED BY <1>1, <2>1 DEF Over
<1>8. QED BY <1>3, <1>4, <1>6, <1>7 DEF r, v, w, SameBut

\* What the processor holds of each kind does not change.
SameHeld ==
  /\ Held({"messages"})' = Held({"messages"})
  /\ Held({"messages", "state"})' = Held({"messages", "state"})
  /\ Held({"messages", "state", "interactions"})' = Held({"messages", "state", "interactions"})

\* While what is held does not change, no record does.
LEMMA SameRecords ==
  ASSUME RefInv, SameHeld, UNCHANGED <<stream, store, opened, early>>
  PROVE  /\ UNCHANGED Promise!vars
         /\ DOMAIN Held({"messages"})'.update \ early' \subseteq DOMAIN store'.messages
<1>1. /\ MessagesView' = MessagesView /\ ContactsView' = ContactsView
      /\ ReceiptsView' = ReceiptsView
  BY DEF SameHeld, MessagesView, ContactsView, ReceiptsView
<1>2. QED BY <1>1 DEF Promise!vars, RefInv, SameHeld

\* Everything up to the processor, and what it does with no event.
LEMMA RefStutter ==
  ASSUME RefInv, PassInv,
         \/ Connect \/ DeliverBacklog \/ LinkDies \/ Disconnect \/ Spawn \/ RecvNode
         \/ RecvOther \/ Respond \/ Emit
  PROVE  RefInv' /\ UNCHANGED Promise!vars
<1>1. UNCHANGED <<stream, store, opened, early>>
  BY DEF Connect, DeliverBacklog, LinkDies, Disconnect, Spawn, RecvNode, RecvOther, Respond,
         Emit, history, server
<1>2. CASE Connect \/ DeliverBacklog \/ LinkDies \/ Disconnect \/ Spawn \/ RecvOther
  <2>1. /\ UNCHANGED <<buf, batch>>
        /\ pc' = pc \/ (pc \notin Working /\ pc' \notin Working)
    BY <1>2 DEF Connect, DeliverBacklog, LinkDies, Disconnect, Spawn, RecvOther, Subscribed,
                PassInv, Working
  <2>2. SameHeld
    BY <2>1 DEF SameHeld, Held, Working
  <2>3. QED BY <1>1, <2>1, <2>2, SameRecords DEF RefInv, Working
<1>3. CASE RecvNode
  <2>1. pc = "recv" /\ pc' = "process" /\ UNCHANGED <<buf, batch>>
    BY <1>3 DEF RecvNode
  <2>2. buf = EmptyBatch /\ batch = EmptyBatch
    BY <2>1 DEF RefInv
  <2>3. SameHeld
    BY <2>1, <2>2 DEF SameHeld, Held
  <2>4. QED BY <1>1, <2>1, <2>2, <2>3, SameRecords DEF RefInv
<1>4. CASE Respond
  <2>1. \/ pc = "respond" /\ pc' = "respond" /\ UNCHANGED <<buf, batch>>
        \/ pc = "respond" /\ pc' = "messages" /\ batch' = buf /\ buf' = EmptyBatch
    BY <1>4 DEF Respond
  <2>2. SameHeld
    BY <2>1 DEF SameHeld, Held
  <2>3. QED BY <1>1, <2>1, <2>2, SameRecords, EmptyShaped DEF RefInv
<1>5. CASE Emit
  <2>1. pc = "effects" /\ pc' = "recv" /\ batch' = EmptyBatch /\ buf' = buf
    BY <1>5 DEF Emit
  <2>2. SameHeld
    BY <2>1 DEF SameHeld, Held
  <2>3. QED BY <1>1, <2>1, <2>2, SameRecords, EmptyShaped DEF RefInv
<1>6. QED BY <1>2, <1>3, <1>4, <1>5

\* An item that is issued changes no record.
LEMMA RefIssue ==
  ASSUME RefInv, PassInv, ServerIssue
  PROVE  RefInv' /\ Promise!Issue
<1>1. PICK item \in MessageItems(Len(stream) + 1) \cup OtherItems(Len(stream) + 1) :
        stream' = Append(stream, item)
  BY DEF ServerIssue
<1>2. item \in Issued
  BY DEF PassInv, Issued
<1>3. Len(stream') = Len(stream) + 1 /\ stream = SubSeq(stream', 1, Len(stream))
  BY <1>1, <1>2 DEF PassInv
<1>4. UNCHANGED <<pc, buf, batch, store, opened, early>>
  BY DEF ServerIssue, history
<1>5. /\ MessagesView' = MessagesView /\ ContactsView' = ContactsView
      /\ ReceiptsView' = ReceiptsView /\ Held({"messages"})' = Held({"messages"})
  BY <1>4 DEF Held, MessagesView, ContactsView, ReceiptsView
<1>6. Promise!Issue
  BY <1>3, <1>4, <1>5 DEF Promise!Issue, Promise!view, Promise!durable
<1>7. QED BY <1>4, <1>5, <1>6 DEF RefInv

\* The processor ends: what it had not stored is gone.
LEMMA RefEnds ==
  ASSUME RefInv, NEW state \in {"off", "ended"}, Ends(state), UNCHANGED stream,
         opened \subseteq opened', opened' \subseteq DOMAIN stream
  PROVE  RefInv' /\ Promise!Lose
<1>1. /\ pc' = state /\ buf' = EmptyBatch /\ batch' = EmptyBatch
      /\ UNCHANGED <<store, early>>
  BY DEF Ends
<1>2. /\ Held({"messages"})' = EmptyBatch /\ Held({"messages", "state"})' = EmptyBatch
      /\ Held({"messages", "state", "interactions"})' = EmptyBatch
  BY <1>1 DEF Held
<1>3. /\ MessagesView' = PersistMessages(store, EmptyBatch).messages
      /\ ContactsView' = PersistState(store, EmptyBatch).contacts
      /\ ReceiptsView' = PersistInteractions(store, EmptyBatch).receipts
  BY <1>1, <1>2 DEF MessagesView, ContactsView, ReceiptsView
<1>4. /\ Without(MessagesView, early)' = Without(store.messages, early)
      /\ ContactsView' = store.contacts /\ ReceiptsView' = store.receipts
  BY <1>1, <1>3, ViewOfNothing DEF RefInv
<1>5. Promise!Lose
  BY <1>1, <1>4 DEF Promise!Lose, Promise!view, Promise!durable
<1>6. DOMAIN EmptyBatch.update = {}
  BY EmptyShaped, EmptyMap
<1>7. QED BY <1>1, <1>2, <1>5, <1>6, EmptyShaped DEF RefInv

\* Each transaction makes the records of its kinds durable and no other.
LEMMA RefPersist ==
  ASSUME RefInv, PassInv, Persist
  PROVE  RefInv' /\ Promise!Commit
<1>1. /\ UNCHANGED <<stream, buf, batch, opened, early>> /\ buf = EmptyBatch
      /\ pc \in {"messages", "state", "interactions"}
      /\ pc' \in {"state", "interactions", "effects"}
  BY DEF Persist, PersistStep, server, RefInv
<1>2. DOMAIN EmptyBatch.update = {}
  BY EmptyShaped, EmptyMap
<1>3. Held({"messages"})' = EmptyBatch
  BY <1>1 DEF Held
<1>4. ASSUME StoreShaped(store'), DOMAIN store'.updates \subseteq early
      PROVE  /\ RefInv'
             /\ Without(MessagesView, early)' = Without(store'.messages, early)
  <2>1. MessagesView' = PersistMessages(store', EmptyBatch).messages
    BY <1>3 DEF MessagesView
  <2>2. Without(MessagesView, early)' = Without(store'.messages, early)
    BY <1>1, <1>4, <2>1, ViewOfNothing
  <2>3. QED BY <1>1, <1>2, <1>3, <1>4, <2>2 DEF RefInv
<1>5. CASE PersistStep("messages", "state", PersistMessages(store, batch))
  <2>1. /\ pc = "messages" /\ pc' = "state" /\ store' = PersistMessages(store, batch)
    BY <1>5 DEF PersistStep
  <2>2. /\ Held({"messages"}) = batch
        /\ Held({"messages", "state"}) = batch /\ Held({"messages", "state"})' = batch
        /\ Held({"messages", "state", "interactions"}) = batch
        /\ Held({"messages", "state", "interactions"})' = batch
    BY <1>1, <2>1 DEF Held
  <2>3. /\ StoreShaped(store') /\ store'.contacts = store.contacts
        /\ store'.receipts = store.receipts
        /\ DOMAIN store'.updates \subseteq
              DOMAIN store.updates
                \cup (DOMAIN batch.update \ (DOMAIN batch.upsert \cup DOMAIN store.messages))
    BY <2>1, StoredMessages DEF RefInv
  <2>4. DOMAIN store'.updates \subseteq early
    BY <2>2, <2>3 DEF RefInv
  <2>5. store'.messages = MessagesView
    BY <2>1, <2>2 DEF MessagesView
  <2>6. ContactsView' = ContactsView /\ ReceiptsView' = ReceiptsView
    <3>1. /\ ContactsView = MergeEach(store.contacts, batch.contacts)
          /\ ReceiptsView = Over(batch.receipts, store.receipts)
      BY <2>2, StoredRest DEF ContactsView, ReceiptsView, RefInv
    <3>2. /\ ContactsView' = PersistState(store', batch).contacts
          /\ ReceiptsView' = PersistInteractions(store', batch).receipts
      BY <2>2 DEF ContactsView, ReceiptsView
    <3>3. QED BY <2>3, <3>1, <3>2, StoredRest
  <2>7. QED BY <1>1, <1>4, <2>3, <2>4, <2>5, <2>6
        DEF Promise!Commit, Promise!view
<1>6. CASE PersistStep("state", "interactions", PersistState(store, batch))
  <2>1. /\ pc = "state" /\ pc' = "interactions" /\ store' = PersistState(store, batch)
    BY <1>6 DEF PersistStep
  <2>2. /\ Held({"messages"}) = EmptyBatch
        /\ Held({"messages", "state"}) = batch /\ Held({"messages", "state"})' = EmptyBatch
        /\ Held({"messages", "state", "interactions"}) = batch
        /\ Held({"messages", "state", "interactions"})' = batch
    BY <1>1, <2>1 DEF Held
  <2>3. /\ StoreShaped(store') /\ store'.messages = store.messages
        /\ store'.updates = store.updates /\ store'.receipts = store.receipts
    BY <2>1, StoredRest DEF RefInv
  <2>4. DOMAIN store'.updates \subseteq early
    BY <2>3 DEF RefInv
  <2>5. Without(MessagesView, early) = Without(store.messages, early)
    BY <2>2, ViewOfNothing DEF MessagesView, RefInv
  <2>6. store'.contacts = ContactsView
    BY <2>1, <2>2 DEF ContactsView
  <2>7. ContactsView' = store'.contacts
    <3>1. ContactsView' = PersistState(store', EmptyBatch).contacts
      BY <2>2 DEF ContactsView
    <3>2. QED BY <2>3, <2>4, <3>1, ViewOfNothing
  <2>8. ReceiptsView' = ReceiptsView
    <3>1. ReceiptsView = PersistInteractions(store, batch).receipts
      BY <2>2 DEF ReceiptsView
    <3>2. ReceiptsView' = PersistInteractions(store', batch).receipts
      BY <2>2 DEF ReceiptsView
    <3>3. QED BY <2>3, <3>1, <3>2, StoredRest DEF RefInv
  <2>9. QED BY <1>1, <1>4, <2>3, <2>4, <2>5, <2>6, <2>7, <2>8
        DEF Promise!Commit, Promise!view
<1>7. CASE PersistStep("interactions", "effects", PersistInteractions(store, batch))
  <2>1. /\ pc = "interactions" /\ pc' = "effects"
        /\ store' = PersistInteractions(store, batch)
    BY <1>7 DEF PersistStep
  <2>2. /\ Held({"messages"}) = EmptyBatch
        /\ Held({"messages", "state"}) = EmptyBatch
        /\ Held({"messages", "state"})' = EmptyBatch
        /\ Held({"messages", "state", "interactions"}) = batch
        /\ Held({"messages", "state", "interactions"})' = EmptyBatch
    BY <1>1, <2>1 DEF Held
  <2>3. /\ StoreShaped(store') /\ store'.messages = store.messages
        /\ store'.updates = store.updates /\ store'.contacts = store.contacts
    BY <2>1, StoredRest DEF RefInv
  <2>4. DOMAIN store'.updates \subseteq early
    BY <2>3 DEF RefInv
  <2>5. /\ Without(MessagesView, early) = Without(store.messages, early)
        /\ ContactsView = store.contacts
    BY <2>2, ViewOfNothing DEF MessagesView, ContactsView, RefInv
  <2>6. store'.receipts = ReceiptsView
    BY <2>1, <2>2 DEF ReceiptsView
  <2>7. ContactsView' = store'.contacts /\ ReceiptsView' = store'.receipts
    <3>1. /\ ContactsView' = PersistState(store', EmptyBatch).contacts
          /\ ReceiptsView' = PersistInteractions(store', EmptyBatch).receipts
      BY <2>2 DEF ContactsView, ReceiptsView
    <3>2. QED BY <2>3, <2>4, <3>1, ViewOfNothing
  <2>8. QED BY <1>1, <1>4, <2>3, <2>4, <2>5, <2>6, <2>7
        DEF Promise!Commit, Promise!view
<1>8. QED BY <1>5, <1>6, <1>7 DEF Persist

\* The instance's operators on maps are the module's own.
LEMMA PromiseMaps ==
  /\ \A new, map : Promise!Over(new, map) = Over(new, map)
  /\ \A map, keys : Promise!Without(map, keys) = Without(map, keys)
BY DEF Promise!Over, Promise!Without, Over, Without

\* Applying an item to the buffer is applying it to the records, once.
LEMMA RefProcess ==
  ASSUME RefInv, PassInv, ProcessItem
  PROVE  RefInv' /\ [Promise!Next]_(Promise!vars)
<1> DEFINE n == node[Len(answers) + 1]
           refused == stream[n].sealed /\ n \in opened
           e == IF refused THEN EmptyBatch ELSE stream[n].batch
<1>1. /\ pc = "process" /\ pc' \in {"process", "respond"}
      /\ buf' = ApplyBatch(buf, e)
      /\ opened' = IF stream[n].sealed THEN opened \cup {n} ELSE opened
      /\ early' = early \cup (DOMAIN e.update \ (DOMAIN MessagesView \cup DOMAIN e.upsert))
      /\ UNCHANGED <<stream, batch, store>>
  BY DEF ProcessItem, server
<1>2. n \in DOMAIN stream
  BY <1>1, InWork
<1> HIDE DEF n
<1>3. /\ Held({"messages"}) = buf /\ Held({"messages"})' = buf'
      /\ Held({"messages", "state"}) = buf /\ Held({"messages", "state"})' = buf'
      /\ Held({"messages", "state", "interactions"}) = buf
      /\ Held({"messages", "state", "interactions"})' = buf'
  BY <1>1 DEF Held
<1>4. /\ MessagesView = PersistMessages(store, buf).messages
      /\ MessagesView' = PersistMessages(store, buf').messages
      /\ ContactsView = PersistState(store, buf).contacts
      /\ ContactsView' = PersistState(store, buf').contacts
      /\ ReceiptsView = PersistInteractions(store, buf).receipts
      /\ ReceiptsView' = PersistInteractions(store, buf').receipts
  BY <1>1, <1>3 DEF MessagesView, ContactsView, ReceiptsView
<1>5. /\ Shaped(buf) /\ Apart(buf) /\ StoreShaped(store) /\ batch = EmptyBatch
      /\ DOMAIN store.updates \subseteq early
      /\ DOMAIN buf.update \ early \subseteq DOMAIN store.messages
  BY <1>1, <1>3 DEF RefInv
<1>6. Shaped(buf') /\ Apart(buf')
  BY <1>1, <1>5, AppliedFields, AppliedApart
<1>7. /\ buf'.contacts = MergeEach(buf.contacts, e.contacts)
       /\ buf'.receipts = Over(e.receipts, buf.receipts)
  <2> HIDE DEF e
  <2>1. QED BY <1>1, <1>5, AppliedFields
<1>8. ASSUME DOMAIN buf'.update \ early' \subseteq DOMAIN store.messages
      PROVE  RefInv'
  BY <1>1, <1>3, <1>5, <1>6, <1>8, EmptyShaped DEF RefInv
<1>9. CASE refused
  <2>1. DOMAIN EmptyBatch.update = {}
    BY EmptyShaped, EmptyMap
  <2>2. early' = early /\ opened' = opened /\ buf' = ApplyBatch(buf, EmptyBatch)
    BY <1>1, <1>9, <2>1
  <2>3. /\ Without(MessagesView', early) = Without(MessagesView, early)
        /\ ContactsView' = ContactsView /\ ReceiptsView' = ReceiptsView
        /\ DOMAIN buf'.update \ early' \subseteq DOMAIN store.messages
    BY <1>4, <1>5, <2>2, AppliedNothing
  <2>4. UNCHANGED Promise!vars
    BY <1>1, <2>2, <2>3 DEF Promise!vars
  <2>5. QED BY <1>8, <2>3, <2>4
<1>10. CASE ~ refused
  <2> DEFINE before == Without(MessagesView, early)
             held == Over(e.upsert, before)
  <2>1. e = stream[n].batch
    BY <1>10
  <2> HIDE DEF e
  <2>2. /\ SameBut(MessagesView', early', Promise!Overlay(held, e.update),
                   e.delete \cup early')
        /\ DOMAIN buf'.update \ early' \subseteq DOMAIN store.messages
    BY <1>1, <1>4, <1>5, AppliedIsPlain
  <2>3. Without(MessagesView, early)'
          = Without(Promise!Overlay(held, e.update), e.delete \cup early')
    BY <2>2 DEF SameBut
  <2>4. early' = early \cup (DOMAIN e.update \ DOMAIN held)
    <3>1. DOMAIN held = DOMAIN e.upsert \cup (DOMAIN MessagesView \ early)
      BY DEF Over, Without
    <3> HIDE DEF held
    <3>2. QED BY <1>1, <3>1
  <2>5. ContactsView' = Over(Promise!Overlay(ContactsView, e.contacts), e.contacts)
    <3>1. /\ ContactsView = MergeEach(store.contacts, buf.contacts)
          /\ ContactsView' = MergeEach(store.contacts, MergeEach(buf.contacts, e.contacts))
      BY <1>4, <1>5, <1>7, StoredRest
    <3>2. ContactsView' = MergeEach(ContactsView, e.contacts)
      BY <3>1, MergeAssociates
    <3>3. MergeEach(ContactsView, e.contacts)
            = Over(Promise!Overlay(ContactsView, e.contacts), e.contacts)
      BY PromiseMaps DEF MergeEach, Over, Promise!Overlay
    <3>4. QED BY <3>2, <3>3
  <2>6. ReceiptsView' = Over(e.receipts, ReceiptsView)
    <3>1. /\ ReceiptsView = Over(buf.receipts, store.receipts)
          /\ ReceiptsView' = Over(Over(e.receipts, buf.receipts), store.receipts)
      BY <1>4, <1>5, <1>7, StoredRest
    <3>2. QED BY <3>1, OverAssociates
  <2>7. Without(store.messages, early)' = Without(Without(store.messages, early), early')
    BY <1>1 DEF Without
  <2>8. Promise!Apply(n)
    <3>1. stream[n].sealed => n \notin opened
      BY <1>10
    <3>2. QED BY <1>1, <2>1, <2>3, <2>4, <2>5, <2>6, <2>7, <3>1, PromiseMaps
          DEF Promise!Apply
  <2>9. QED BY <1>2, <1>8, <2>2, <2>8 DEF Promise!Next
<1>11. QED BY <1>9, <1>10

\* Every step is one of the plain sequence or changes no record.
LEMMA RefNext ==
  ASSUME RefInv, PassInv, PassInv', Next
  PROVE  RefInv' /\ [Promise!Next]_(Promise!vars)
<1>1. CASE ServerIssue
  BY <1>1, RefIssue DEF Promise!Next
<1>2. CASE \/ Connect \/ DeliverBacklog \/ LinkDies \/ Disconnect \/ Spawn \/ RecvNode
           \/ RecvOther \/ Respond \/ Emit
  BY <1>2, RefStutter
<1>3. CASE ProcessItem
  BY <1>3, RefProcess
<1>4. CASE Persist
  BY <1>4, RefPersist DEF Promise!Next
<1>5. CASE RecvEnd \/ ProcessOverflow \/ RespondFails \/ PersistFails \/ Crash
  <2>1. \E state \in {"off", "ended"} : Ends(state)
    BY <1>5 DEF RecvEnd, ProcessOverflow, RespondFails, PersistFails, Crash
  <2>2. stream' = stream /\ opened \subseteq opened'
    BY <1>5 DEF RecvEnd, ProcessOverflow, RespondFails, PersistFails, Crash, server
  <2>3. opened' \subseteq DOMAIN stream
    BY <2>2 DEF PassInv
  <2>4. QED BY <2>1, <2>2, <2>3, RefEnds DEF Promise!Next
<1>6. QED BY <1>1, <1>2, <1>3, <1>4, <1>5 DEF Next

\* At first nothing is held and nothing is stored.
LEMMA RefInit == Init => RefInv /\ Promise!Init
<1> SUFFICES ASSUME Init PROVE RefInv /\ Promise!Init
  OBVIOUS
<1>1. /\ buf = EmptyBatch /\ batch = EmptyBatch /\ store = EmptyStore /\ pc = "off"
      /\ stream = << >> /\ opened = {} /\ early = {}
  BY DEF Init
<1>2. /\ StoreShaped(store) /\ store.messages = << >> /\ store.updates = << >>
      /\ store.contacts = << >> /\ store.receipts = << >>
  BY <1>1, EmptyMap DEF StoreShaped, EmptyStore
<1>3. /\ Held({"messages"}) = EmptyBatch /\ Held({"messages", "state"}) = EmptyBatch
      /\ Held({"messages", "state", "interactions"}) = EmptyBatch
  BY <1>1 DEF Held
<1>4. DOMAIN EmptyBatch.update = {} /\ DOMAIN store.updates = {}
  BY <1>2, EmptyShaped, EmptyMap
<1>5. /\ Without(MessagesView, early) = Without(store.messages, early)
      /\ ContactsView = store.contacts /\ ReceiptsView = store.receipts
  BY <1>2, <1>3, <1>4, ViewOfNothing DEF MessagesView, ContactsView, ReceiptsView
<1>6. Without(store.messages, early) = << >>
  <2>1. DOMAIN Without(<< >>, early) = {} /\ IsMap(Without(<< >>, early))
    BY EmptyMap, WithoutMap
  <2>2. QED BY <1>2, <2>1, EmptyMap, SameMap
<1>7. Promise!Init
  BY <1>1, <1>2, <1>5, <1>6 DEF Promise!Init, Promise!view, Promise!durable
<1>8. RefInv
  BY <1>1, <1>2, <1>3, <1>4, EmptyShaped DEF RefInv
<1>9. QED BY <1>7, <1>8

\* A step of the processor is one of the plain sequence or changes no record.
LEMMA RefStep ==
  ASSUME PassInv, PassInv', RefInv, [Next]_vars
  PROVE  RefInv' /\ [Promise!Next]_(Promise!vars)
<1>1. CASE UNCHANGED vars
  <2>1. UNCHANGED <<stream, pc, buf, batch, store, opened, early>>
    BY <1>1 DEF vars
  <2>2. SameHeld
    BY <2>1 DEF SameHeld, Held
  <2>3. RefInv => UNCHANGED Promise!vars
    BY <2>1, <2>2, SameRecords
  <2>4. RefInv => RefInv'
    BY <2>1, <2>2 DEF RefInv, SameHeld
  <2>5. QED BY <2>3, <2>4
<1>2. QED BY <1>1, RefNext

\* The buffer, the batch and the store keep their shape.
LEMMA RefAlways == Spec => []RefInv
<1>1. PassInv /\ PassInv' /\ RefInv /\ [Next]_vars => RefInv'
  BY RefStep
<1>2. QED BY <1>1, RefInit, PassAlways, PTL DEF Spec

\* Buffering, merging, draining, the transactions, failed writes, crashes and
\* replays never make more of the events than applying each of them in turn and
\* falling back, now and then, to what was stored.
THEOREM ImplementsPromiseAlways == Spec => ImplementsPromise
<1>1. PassInv /\ PassInv' /\ RefInv /\ [Next]_vars => [Promise!Next]_(Promise!vars)
  BY RefStep
<1>2. QED BY <1>1, RefInit, RefAlways, PassAlways, PTL
      DEF Spec, ImplementsPromise, Promise!Spec

-----------------------------------------------------------------------------
(* Sequences of sequences.                                                 *)

\* A nonempty set of numbers has a least one.
LEMMA LeastNumber ==
  ASSUME NEW T \in SUBSET Nat, T # {}
  PROVE  \E n \in T : \A m \in T : n <= m
<1>1. PICK n \in T : \A m \in T : <<m, n>> \notin OpToRel(<, Nat)
  BY NatLessThanWellFounded, WFMin
<1>2. \A m \in T : ~(m < n)
  BY <1>1 DEF OpToRel
<1>3. QED BY <1>2

\* f joins the first of seqs, the first two, and so on.
Joins(f, seqs, n) ==
  f = [i \in 1 .. n |-> IF i = 1 THEN seqs[i] ELSE f[i - 1] \o seqs[i]]

\* The recursive definition of FlattenSeq has a value.
LEMMA JoinsDefined ==
  ASSUME NEW seqs, NEW n \in Nat
  PROVE  \E f : Joins(f, seqs, n)
<1> DEFINE Value(m) == \E f : Joins(f, seqs, m)
           T == {m \in Nat : ~Value(m)}
<1>1. SUFFICES ASSUME T # {} PROVE FALSE
  OBVIOUS
<1>2. PICK m \in T : \A k \in T : m <= k
  <2>1. T \in SUBSET Nat
    OBVIOUS
  <2> HIDE DEF T
  <2>2. QED BY <1>1, <2>1, LeastNumber
<1>3. m \in Nat
  OBVIOUS
<1>4. CASE m = 0
  <2>1. PICK e : e = [i \in 1 .. 0 |-> << >>]
    OBVIOUS
  <2>2. e = [i \in 1 .. 0 |-> IF i = 1 THEN seqs[i] ELSE e[i - 1] \o seqs[i]]
    BY <2>1
  <2>3. QED BY <1>2, <1>4, <2>2 DEF Joins
<1>5. CASE m # 0
  <2>1. m - 1 \in Nat /\ ~(m <= m - 1)
    BY <1>3, <1>5
  <2>2. Value(m - 1)
    BY <1>2, <2>1
  <2>3. PICK f : Joins(f, seqs, m - 1)
    BY <2>2
  <2>4. PICK g : g = [i \in 1 .. m |-> IF i < m THEN f[i]
                                      ELSE IF m = 1 THEN seqs[m] ELSE f[m - 1] \o seqs[m]]
    OBVIOUS
  <2>5. ASSUME NEW i \in 1 .. m
        PROVE  g[i] = IF i = 1 THEN seqs[i] ELSE g[i - 1] \o seqs[i]
    <3>1. CASE i = m
      <4>1. g[i] = IF m = 1 THEN seqs[m] ELSE f[m - 1] \o seqs[m]
        BY <2>4, <3>1
      <4>2. CASE m = 1
        BY <3>1, <4>1, <4>2
      <4>3. CASE m # 1
        <5>1. m - 1 \in 1 .. m /\ m - 1 < m
          BY <1>3, <1>5, <4>3
        <5>2. g[m - 1] = f[m - 1]
          BY <2>4, <5>1
        <5>3. QED BY <3>1, <4>1, <4>3, <5>2
      <4>4. QED BY <4>2, <4>3
    <3>2. CASE i < m
      <4>1. i \in 1 .. m - 1
        BY <1>3, <3>2
      <4>2. f[i] = IF i = 1 THEN seqs[i] ELSE f[i - 1] \o seqs[i]
        BY <2>3, <4>1 DEF Joins
      <4>3. g[i] = f[i]
        BY <2>4, <3>2
      <4>4. i # 1 => g[i - 1] = f[i - 1]
        <5>1. i # 1 => i - 1 \in 1 .. m /\ i - 1 < m
          BY <1>3, <3>2
        <5>2. QED BY <2>4, <5>1
      <4>5. QED BY <4>2, <4>3, <4>4
    <3>3. QED BY <1>3, <3>1, <3>2
  <2>6. g = [i \in 1 .. m |-> IF i = 1 THEN seqs[i] ELSE g[i - 1] \o seqs[i]]
    BY <2>4, <2>5
  <2>7. Value(m)
    BY <2>6 DEF Joins
  <2>8. QED BY <1>2, <2>7
<1>6. QED BY <1>4, <1>5

\* What FlattenSeq returns.
LEMMA Flattened ==
  ASSUME NEW S, NEW seqs \in Seq(Seq(S)), seqs # << >>
  PROVE  \E f : Joins(f, seqs, Len(seqs)) /\ FlattenSeq(seqs) = f[Len(seqs)]
<1>1. Len(seqs) \in Nat /\ Len(seqs) # 0
  OBVIOUS
<1>2. PICK f : f = CHOOSE g : Joins(g, seqs, Len(seqs))
  OBVIOUS
<1>3. Joins(f, seqs, Len(seqs))
  BY <1>1, <1>2, JoinsDefined
<1>4. FlattenSeq(seqs) = f[Len(seqs)]
  BY <1>1, <1>2 DEF FlattenSeq, Joins
<1>5. QED BY <1>3, <1>4

\* No sequence makes an empty one.
LEMMA FlattenNone == FlattenSeq(<< >>) = << >>
BY DEF FlattenSeq

\* One more sequence is joined at the end.
LEMMA FlattenAppend ==
  ASSUME NEW S, NEW seqs \in Seq(Seq(S)), NEW s \in Seq(S)
  PROVE  FlattenSeq(Append(seqs, s)) = FlattenSeq(seqs) \o s
<1> DEFINE all == Append(seqs, s)
           n == Len(seqs)
<1>1. n \in Nat
  OBVIOUS
<1>2. /\ all \in Seq(Seq(S)) /\ Len(all) = n + 1 /\ all # << >>
      /\ all[n + 1] = s /\ \A i \in 1 .. n : all[i] = seqs[i]
  BY AppendProperties
<1> HIDE DEF all
<1>3. PICK g : Joins(g, all, n + 1) /\ FlattenSeq(all) = g[n + 1]
  BY <1>2, Flattened
<1>4. CASE n = 0
  <2>1. g[n + 1] = s
    BY <1>2, <1>3, <1>4 DEF Joins
  <2>2. seqs = << >>
    BY <1>4
  <2>3. << >> \o s = s
    OBVIOUS
  <2>4. QED BY <1>3, <2>1, <2>2, <2>3, FlattenNone DEF all
<1>5. CASE n # 0
  <2>1. PICK f : Joins(f, seqs, n) /\ FlattenSeq(seqs) = f[n]
    BY <1>5, Flattened
  <2> DEFINE T == {i \in 1 .. n : f[i] # g[i]}
  <2>2. T = {}
    <3>1. SUFFICES ASSUME T # {} PROVE FALSE
      OBVIOUS
    <3>2. PICK i \in T : \A k \in T : i <= k
      <4>1. T \in SUBSET Nat
        OBVIOUS
      <4> HIDE DEF T
      <4>2. QED BY <3>1, <4>1, LeastNumber
    <3>3. i \in 1 .. n /\ f[i] # g[i]
      OBVIOUS
    <3>4. f[i] = IF i = 1 THEN seqs[i] ELSE f[i - 1] \o seqs[i]
      BY <2>1, <3>3 DEF Joins
    <3>5. g[i] = IF i = 1 THEN seqs[i] ELSE g[i - 1] \o seqs[i]
      <4>1. i \in 1 .. n + 1 /\ all[i] = seqs[i]
        BY <1>2, <3>3
      <4>2. QED BY <1>3, <4>1 DEF Joins
    <3>6. i # 1 => f[i - 1] = g[i - 1]
      <4>1. i # 1 => i - 1 \in 1 .. n /\ ~(i <= i - 1)
        BY <3>3
      <4>2. QED BY <3>2, <4>1
    <3>7. QED BY <3>3, <3>4, <3>5, <3>6
  <2>3. f[n] = g[n]
    <3>1. n \in 1 .. n
      BY <1>1, <1>5
    <3>2. QED BY <2>2, <3>1
  <2>4. g[n + 1] = g[n] \o s
    <3>1. n + 1 \in 1 .. n + 1 /\ n + 1 # 1 /\ n + 1 - 1 = n
      BY <1>1, <1>5
    <3>2. g[n + 1] = g[n + 1 - 1] \o all[n + 1]
      <4>1. \A i \in 1 .. n + 1 : g[i] = IF i = 1 THEN all[i] ELSE g[i - 1] \o all[i]
        BY <1>3 DEF Joins
      <4>2. PICK k : k = n + 1
        OBVIOUS
      <4>3. k \in 1 .. n + 1 /\ k # 1
        BY <3>1, <4>2
      <4>4. g[k] = g[k - 1] \o all[k]
        BY <4>1, <4>3
      <4>5. k - 1 = n + 1 - 1
        BY <1>1, <4>2
      <4>6. QED BY <4>2, <4>4, <4>5, Zenon
    <3>3. QED BY <1>2, <3>1, <3>2
  <2>5. QED BY <1>3, <2>1, <2>3, <2>4 DEF all
<1>6. QED BY <1>4, <1>5


\* A shortest sequence of a set of sequences, and what is left without its last
\* element.
LEMMA ShortestSeq ==
  ASSUME NEW S, NEW Bad \in SUBSET Seq(Seq(S)), Bad # {}, << >> \notin Bad
  PROVE  \E q \in Seq(Seq(S)), s \in Seq(S) : Append(q, s) \in Bad /\ q \notin Bad
<1> DEFINE T == {Len(q) : q \in Bad}
<1>1. PICK n \in T : \A m \in T : n <= m
  <2>1. T \in SUBSET Nat
    <3>1. \A q \in Bad : Len(q) \in Nat
      OBVIOUS
    <3>2. QED BY <3>1
  <2>2. T # {}
    <3>1. PICK q : q \in Bad
      OBVIOUS
    <3>2. Len(q) \in T
      BY <3>1
    <3>3. QED BY <3>2
  <2> HIDE DEF T
  <2>3. QED BY <2>1, <2>2, LeastNumber
<1>2. PICK b \in Bad : Len(b) = n
  OBVIOUS
<1>3. b \in Seq(Seq(S)) /\ b # << >> /\ n \in Nat /\ n # 0
  BY <1>2
<1>4. PICK q \in Seq(Seq(S)), s \in Seq(S) : b = Append(q, s)
  <2>1. /\ SubSeq(b, 1, n - 1) \in Seq(Seq(S)) /\ b[n] \in Seq(S)
        /\ b = Append(SubSeq(b, 1, n - 1), b[n])
    BY <1>2, <1>3
  <2>2. QED BY <2>1
<1>5. Len(q) = n - 1
  BY <1>2, <1>4
<1>6. q \notin Bad
  <2>1. ~ n <= Len(q)
    BY <1>3, <1>5
  <2>2. QED BY <1>1, <2>1
<1>7. QED BY <1>4, <1>6

\* Joined, sequences of numbers are a sequence of numbers.
LEMMA FlattenType ==
  ASSUME NEW S, NEW s \in Seq(Seq(S))
  PROVE  FlattenSeq(s) \in Seq(S)
<1> DEFINE Bad == {q \in Seq(Seq(S)) : FlattenSeq(q) \notin Seq(S)}
<1>1. SUFFICES ASSUME Bad # {} PROVE FALSE
  OBVIOUS
<1>2. << >> \notin Bad
  <2>1. << >> \in Seq(S)
    OBVIOUS
  <2>2. QED BY <2>1, FlattenNone
<1>3. PICK q \in Seq(Seq(S)), t \in Seq(S) : Append(q, t) \in Bad /\ q \notin Bad
  <2>1. Bad \in SUBSET Seq(Seq(S))
    OBVIOUS
  <2> HIDE DEF Bad
  <2>2. QED BY <1>1, <1>2, <2>1, ShortestSeq
<1>4. FlattenSeq(q) \in Seq(S) /\ FlattenSeq(Append(q, t)) = FlattenSeq(q) \o t
  BY <1>3, FlattenAppend
<1>5. FlattenSeq(q) \o t \in Seq(S)
  BY <1>4
<1>6. QED BY <1>3, <1>4, <1>5

\* Joined one after the other, two sequences of sequences are joined as one.
LEMMA FlattenConcat ==
  ASSUME NEW S, NEW r \in Seq(Seq(S)), NEW s \in Seq(Seq(S))
  PROVE  FlattenSeq(r \o s) = FlattenSeq(r) \o FlattenSeq(s)
<1> DEFINE Bad == {q \in Seq(Seq(S)) : FlattenSeq(r \o q) # FlattenSeq(r) \o FlattenSeq(q)}
<1>1. SUFFICES ASSUME Bad # {} PROVE FALSE
  OBVIOUS
<1>2. << >> \notin Bad
  <2>1. r \o << >> = r
    OBVIOUS
  <2>2. FlattenSeq(r) \o << >> = FlattenSeq(r)
    BY FlattenType
  <2>3. QED BY <2>1, <2>2, FlattenNone
<1>3. PICK q \in Seq(Seq(S)), t \in Seq(S) : Append(q, t) \in Bad /\ q \notin Bad
  <2>1. Bad \in SUBSET Seq(Seq(S))
    OBVIOUS
  <2> HIDE DEF Bad
  <2>2. QED BY <1>1, <1>2, <2>1, ShortestSeq
<1>4. r \o Append(q, t) = Append(r \o q, t) /\ r \o q \in Seq(Seq(S))
  <2>1. PICK x \in Seq(Seq(S)), y \in Seq(Seq(S)) : x = r \o q /\ y = << t >>
    <3>1. r \o q \in Seq(Seq(S))
      BY ConcatProperties
    <3>2. << t >> \in Seq(Seq(S))
      OBVIOUS
    <3>3. QED BY <3>1, <3>2
  <2>2. Append(q, t) = q \o y /\ Append(x, t) = x \o y
    BY <2>1, AppendIsConcat
  <2>3. (r \o q) \o y = r \o (q \o y)
    BY ConcatAssociative, SMTT(30)
  <2>4. QED BY <2>1, <2>2, <2>3
<1>5. /\ FlattenSeq(Append(q, t)) = FlattenSeq(q) \o t
      /\ FlattenSeq(Append(r \o q, t)) = FlattenSeq(r \o q) \o t
  BY <1>3, <1>4, FlattenAppend
<1>6. FlattenSeq(r \o q) = FlattenSeq(r) \o FlattenSeq(q)
  BY <1>3
<1>7. (FlattenSeq(r) \o FlattenSeq(q)) \o t = FlattenSeq(r) \o (FlattenSeq(q) \o t)
  <2>1. PICK x \in Seq(S), y \in Seq(S) : x = FlattenSeq(r) /\ y = FlattenSeq(q)
    BY <1>3, FlattenType
  <2>2. (x \o y) \o t = x \o (y \o t)
    BY ConcatAssociative, SMTT(30)
  <2>3. QED BY <2>1, <2>2
<1>8. FlattenSeq(r \o Append(q, t)) = FlattenSeq(r) \o FlattenSeq(Append(q, t))
  BY <1>4, <1>5, <1>6, <1>7
<1>9. QED BY <1>3, <1>8

\* Empty sequences, joined, are empty.
LEMMA FlattenEmpty ==
  ASSUME NEW s \in Seq({<< >>})
  PROVE  FlattenSeq(s) = << >>
<1> DEFINE Bad == {q \in Seq({<< >>}) : FlattenSeq(q) # << >>}
<1>1. SUFFICES ASSUME Bad # {} PROVE FALSE
  OBVIOUS
<1>2. << >> \notin Bad
  BY FlattenNone
<1>3. PICK q \in Seq(Seq(Nat)), t \in Seq(Nat) : Append(q, t) \in Bad /\ q \notin Bad
  <2>1. Bad \in SUBSET Seq(Seq(Nat))
    <3>1. << >> \in Seq(Nat)
      OBVIOUS
    <3>2. Seq({<< >>}) \subseteq Seq(Seq(Nat))
      BY <3>1, SeqMonotonic
    <3>3. QED BY <3>2
  <2> HIDE DEF Bad
  <2>2. QED BY <1>1, <1>2, <2>1, ShortestSeq
<1>4. Append(q, t) \in Seq({<< >>}) /\ FlattenSeq(Append(q, t)) # << >>
  BY <1>3
<1>5. t = << >> /\ q \in Seq({<< >>})
  <2> DEFINE all == Append(q, t)
             n == Len(q)
  <2>1. n \in Nat
    OBVIOUS
  <2>2. all[n + 1] = t /\ Len(all) = n + 1 /\ \A i \in 1 .. n : all[i] = q[i]
    OBVIOUS
  <2>3. \A i \in 1 .. n + 1 : all[i] = << >>
    BY <1>4, <2>1, <2>2
  <2>4. t = << >> /\ \A i \in 1 .. n : q[i] = << >>
    BY <2>1, <2>2, <2>3
  <2> HIDE DEF all
  <2>5. q = [i \in 1 .. n |-> << >>]
    BY <2>4
  <2> HIDE DEF n
  <2>6. [i \in 1 .. n |-> << >>] \in Seq({<< >>})
    BY <2>1
  <2>7. QED BY <2>4, <2>5, <2>6
<1>6. FlattenSeq(q) = << >>
  BY <1>3, <1>5
<1>7. FlattenSeq(Append(q, t)) = << >>
  <2>1. << >> \o << >> = << >>
    OBVIOUS
  <2>2. QED BY <1>3, <1>5, <1>6, <2>1, FlattenAppend
<1>8. QED BY <1>4, <1>7

-----------------------------------------------------------------------------
(* A processor that runs has skipped nothing.                              *)

\* The items of the nodes among events, in order.
ItemsIn(events) == FlattenSeq([i \in DOMAIN events |-> events[i].items])

Once(items) == \A i, j \in DOMAIN items : items[i] = items[j] => i = j

\* What is left of the node in work.
Rest == SubSeq(node, IF pc = "process" THEN Len(answers) + 1 ELSE Len(node) + 1, Len(node))

\* Each event of E holds a sequence over S.
HoldItems(E, S) == \A e \in E : e.items \in Seq(S)

\* The items of events, one sequence for each.
LEMMA ItemsSeq ==
  ASSUME NEW S, NEW E, HoldItems(E, S), NEW h \in Seq(E)
  PROVE  [i \in DOMAIN h |-> h[i].items] \in Seq(Seq(S))
<1>1. \A i \in 1 .. Len(h) : h[i].items \in Seq(S)
  BY DEF HoldItems
<1>2. DOMAIN h = 1 .. Len(h) /\ Len(h) \in Nat
  OBVIOUS
<1>3. QED BY <1>1, <1>2

\* The items of events that follow others follow theirs.
LEMMA ItemsConcat ==
  ASSUME NEW S, NEW E, HoldItems(E, S), NEW a \in Seq(E), NEW b \in Seq(E)
  PROVE  /\ ItemsIn(a \o b) = ItemsIn(a) \o ItemsIn(b)
         /\ ItemsIn(a) \in Seq(S) /\ ItemsIn(b) \in Seq(S)
<1> DEFINE items(h) == [i \in DOMAIN h |-> h[i].items]
<1>1. items(a) \in Seq(Seq(S)) /\ items(b) \in Seq(Seq(S))
  BY ItemsSeq
<1>2. items(a \o b) = items(a) \o items(b)
  <2>1. PICK all : all = a \o b
    OBVIOUS
  <2>2. /\ Len(a) \in Nat /\ DOMAIN a = 1 .. Len(a)
        /\ Len(b) \in Nat /\ DOMAIN b = 1 .. Len(b)
        /\ DOMAIN all = 1 .. Len(a) + Len(b)
        /\ \A i \in 1 .. Len(a) + Len(b) : all[i] = IF i <= Len(a) THEN a[i] ELSE b[i - Len(a)]
    BY <2>1
  <2>3. PICK x \in Seq(Seq(S)), y \in Seq(Seq(S)) : x = items(a) /\ y = items(b)
    BY <1>1
  <2>4. /\ Len(x) = Len(a) /\ Len(y) = Len(b)
        /\ \A i \in 1 .. Len(a) : x[i] = a[i].items
        /\ \A i \in 1 .. Len(b) : y[i] = b[i].items
    BY <2>2, <2>3
  <2>5. PICK z : z = x \o y
    OBVIOUS
  <2>6. /\ DOMAIN z = 1 .. Len(a) + Len(b) /\ z = [i \in DOMAIN z |-> z[i]]
        /\ \A i \in 1 .. Len(a) + Len(b) : z[i] = IF i <= Len(a) THEN x[i] ELSE y[i - Len(a)]
    <3>1. /\ z \in Seq(Seq(S)) /\ Len(z) = Len(x) + Len(y)
          /\ \A i \in 1 .. Len(x) + Len(y) : z[i] = IF i <= Len(x) THEN x[i] ELSE y[i - Len(x)]
      BY <2>5, ConcatProperties
    <3>2. DOMAIN z = 1 .. Len(z) /\ z = [i \in DOMAIN z |-> z[i]]
      BY <3>1
    <3>3. QED BY <2>4, <3>1, <3>2
  <2>7. ASSUME NEW i \in 1 .. Len(a) + Len(b) PROVE z[i] = all[i].items
    <3>1. CASE i <= Len(a)
      <4>1. i \in 1 .. Len(a)
        BY <2>2, <3>1
      <4>2. z[i] = x[i] /\ all[i] = a[i]
        BY <2>2, <2>6, <3>1
      <4>3. QED BY <2>4, <4>1, <4>2
    <3>2. CASE ~ i <= Len(a)
      <4>1. i - Len(a) \in 1 .. Len(b)
        BY <2>2, <3>2
      <4>2. z[i] = y[i - Len(a)] /\ all[i] = b[i - Len(a)]
        BY <2>2, <2>6, <3>2
      <4>3. QED BY <2>4, <4>1, <4>2
    <3>3. QED BY <3>1, <3>2
  <2>8. z = [i \in DOMAIN all |-> all[i].items]
    BY <2>2, <2>6, <2>7
  <2>9. QED BY <2>1, <2>3, <2>5, <2>8
<1>3. /\ ItemsIn(a) = FlattenSeq(items(a)) /\ ItemsIn(b) = FlattenSeq(items(b))
      /\ ItemsIn(a \o b) = FlattenSeq(items(a \o b))
  BY DEF ItemsIn
<1> HIDE DEF items
<1>4. FlattenSeq(items(a)) \in Seq(S) /\ FlattenSeq(items(b)) \in Seq(S)
  BY <1>1, FlattenType
<1>5. FlattenSeq(items(a) \o items(b)) = FlattenSeq(items(a)) \o FlattenSeq(items(b))
  BY <1>1, FlattenConcat
<1>6. QED BY <1>2, <1>3, <1>4, <1>5

\* The items of one event.
LEMMA ItemsOne ==
  ASSUME NEW e \in HubEvents
  PROVE  ItemsIn(<< e >>) = e.items
<1>1. e.items \in Seq(Nat) /\ << >> \in Seq(Seq(Nat))
  BY DEF HubEvents
<1>2. [i \in DOMAIN << e >> |-> << e >>[i].items] = << e.items >>
  OBVIOUS
<1>3. << e.items >> = Append(<< >>, e.items) /\ << >> \o e.items = e.items
  BY <1>1
<1>4. FlattenSeq(Append(<< >>, e.items)) = FlattenSeq(<< >>) \o e.items
  BY <1>1, FlattenAppend
<1>5. QED BY <1>2, <1>3, <1>4, FlattenNone DEF ItemsIn

\* Events that are no nodes have no items.
LEMMA ItemsOfOthers ==
  ASSUME NEW events \in Seq({ClosedEvent, OtherEvent})
  PROVE  ItemsIn(events) = << >>
<1>1. [i \in DOMAIN events |-> events[i].items] \in Seq({<< >>})
  BY DEF ClosedEvent, OtherEvent
<1>2. QED BY <1>1, FlattenEmpty DEF ItemsIn

\* While nothing is dropped, the hub and the record of what it passed on are the
\* same; no item comes twice in a node.
GapInv ==
  /\ NoSilentGap
  /\ Once(node) /\ \A i \in DOMAIN hub : Once(hub[i].items)
  /\ pc \notin Working => node = << >>

\* Three sequences, joined in either order.
LEMMA JoinedThree ==
  ASSUME NEW S, NEW a \in Seq(S), NEW b \in Seq(S), NEW c \in Seq(S)
  PROVE  (a \o b) \o c = a \o (b \o c)
BY ConcatAssociative

\* The items of the events of the hub.
LEMMA HubItems ==
  ASSUME NEW a \in Seq(HubEvents), NEW b \in Seq(HubEvents)
  PROVE  /\ ItemsIn(a \o b) = ItemsIn(a) \o ItemsIn(b)
         /\ ItemsIn(a) \in Seq(Nat) /\ ItemsIn(b) \in Seq(Nat)
<1>1. PICK S, E : S = Nat /\ E = HubEvents
  OBVIOUS
<1>2. HoldItems(E, S)
  BY <1>1 DEF HubEvents, HoldItems
<1>3. a \in Seq(E) /\ b \in Seq(E)
  BY <1>1
<1>4. /\ ItemsIn(a \o b) = ItemsIn(a) \o ItemsIn(b)
      /\ ItemsIn(a) \in Seq(S) /\ ItemsIn(b) \in Seq(S)
  BY <1>2, <1>3, ItemsConcat
<1>5. QED BY <1>1, <1>4

\* What a subscriber that has not been told of a gap hears follows what it had.
LEMMA HeardAll ==
  ASSUME hub \in Seq(HubEvents), NEW events \in Seq(HubEvents), Hear(events),
         Subscribed, ~ lagged'
  PROVE  ~ lagged /\ hub' = hub \o events
<1> DEFINE all == hub \o events
           over == IF Len(all) > HubCapacity THEN Len(all) - HubCapacity ELSE 0
<1>1. /\ hub' = SubSeq(all, over + 1, Len(all)) /\ lagged' = (lagged \/ over > 0)
  BY DEF Hear
<1>2. all \in Seq(HubEvents) /\ Len(all) \in Nat
  BY ConcatProperties
<1>3. ~ (over > 0) /\ ~ lagged
  BY <1>1
<1>4. over = 0
  BY <1>2, <1>3, IncomingAssumption
<1> HIDE DEF all
<1>5. SubSeq(all, 1, Len(all)) = all
  BY <1>2, SubSeqFull
<1>6. hub' = all
  BY <1>1, <1>4, <1>5
<1>7. QED BY <1>3, <1>6 DEF all

\* What is left of a node is a sequence of items.
LEMMA RestType ==
  ASSUME PassInv
  PROVE  Rest \in Seq(Nat)
<1>1. Len(node) \in Nat /\ Len(answers) \in Nat /\ node \in Seq(Nat)
  BY DEF PassInv
<1>2. PICK m \in Nat \ {0} : m = IF pc = "process" THEN Len(answers) + 1 ELSE Len(node) + 1
  BY <1>1
<1>3. \A i \in m .. Len(node) : node[i] \in Nat
  BY <1>1, <1>2
<1>4. SubSeq(node, m, Len(node)) \in Seq(Nat)
  BY <1>1, <1>2, <1>3, SubSeqProperties
<1>5. QED BY <1>2, <1>4 DEF Rest

\* Hearing events keeps the record, whatever else the step does.
LEMMA GapHear ==
  ASSUME PassInv, GapInv, NEW events \in Seq(HubEvents), Hear(events),
         \A i \in DOMAIN events : Once(events[i].items),
         Subscribed => due' = due \o ItemsIn(events),
         Subscribed' <=> Subscribed, Rest' = Rest, Once(node'),
         pc' \notin Working => node' = << >>
  PROVE  GapInv'
<1>1. hub \in Seq(HubEvents)
  BY DEF PassInv
<1>2. /\ hub' \in Seq(HubEvents)
      /\ \A i \in DOMAIN hub' : \/ \E j \in DOMAIN hub : hub'[i] = hub[j]
                                \/ \E j \in DOMAIN events : hub'[i] = events[j]
  BY <1>1, Heard
<1>3. \A i \in DOMAIN hub' : Once(hub'[i].items)
  BY <1>2 DEF GapInv
<1>4. ASSUME Subscribed, ~ lagged'
      PROVE  due' = Rest' \o ItemsIn(hub')
  <2>1. ~ lagged /\ hub' = hub \o events
    BY <1>1, <1>4, HeardAll
  <2>2. due = Rest \o ItemsIn(hub)
    BY <1>4, <2>1 DEF GapInv, NoSilentGap, Rest, ItemsIn
  <2>3. PICK r \in Seq(Nat), h \in Seq(Nat), e \in Seq(Nat) :
          r = Rest /\ h = ItemsIn(hub) /\ e = ItemsIn(events)
    BY <1>1, RestType, HubItems
  <2>4. ItemsIn(hub \o events) = h \o e
    BY <1>1, <2>3, HubItems
  <2>5. due' = (r \o h) \o e
    BY <1>4, <2>2, <2>3
  <2>6. (r \o h) \o e = r \o (h \o e)
    BY JoinedThree
  <2>7. Rest' = r
    BY <2>3
  <2>8. QED BY <2>1, <2>4, <2>5, <2>6, <2>7
<1>5. NoSilentGap'
  BY <1>4 DEF NoSilentGap, Rest, ItemsIn
<1>6. QED BY <1>3, <1>5 DEF GapInv

\* Events that are no nodes add nothing to what is due.
LEMMA GapOthers ==
  ASSUME PassInv, GapInv, NEW events \in Seq({ClosedEvent, OtherEvent}), Hear(events),
         due' = due, Subscribed' <=> Subscribed, Rest' = Rest, Once(node'),
         pc' \notin Working => node' = << >>
  PROVE  GapInv'
<1>1. events \in Seq(HubEvents)
  <2>1. {ClosedEvent, OtherEvent} \subseteq HubEvents
    BY DEF ClosedEvent, OtherEvent, HubEvents
  <2>2. QED BY <2>1
<1>2. ItemsIn(events) = << >>
  BY ItemsOfOthers
<1>3. \A i \in DOMAIN events : Once(events[i].items)
  <2>1. \A i \in DOMAIN events : events[i].items = << >>
    BY DEF ClosedEvent, OtherEvent
  <2>2. QED BY <2>1 DEF Once
<1>4. hub \in Seq(HubEvents)
  BY DEF PassInv
<1>5. \A i \in DOMAIN hub' : Once(hub'[i].items)
  <2>1. \A i \in DOMAIN hub' : \/ \E j \in DOMAIN hub : hub'[i] = hub[j]
                               \/ \E j \in DOMAIN events : hub'[i] = events[j]
    BY <1>1, <1>4, Heard
  <2>2. QED BY <1>3, <2>1 DEF GapInv
<1>6. ASSUME Subscribed, ~ lagged'
      PROVE  due' = Rest' \o ItemsIn(hub')
  <2>1. ~ lagged /\ hub' = hub \o events
    BY <1>1, <1>4, <1>6, HeardAll
  <2>2. due = Rest \o ItemsIn(hub)
    BY <1>6, <2>1 DEF GapInv, NoSilentGap, Rest, ItemsIn
  <2>3. ItemsIn(hub \o events) = ItemsIn(hub) \o ItemsIn(events) /\ ItemsIn(hub) \in Seq(Nat)
    BY <1>1, <1>4, HubItems
  <2>4. ItemsIn(hub) \o << >> = ItemsIn(hub)
    BY <2>3
  <2>5. QED BY <1>2, <2>1, <2>2, <2>3, <2>4
<1>7. NoSilentGap'
  BY <1>6 DEF NoSilentGap, Rest, ItemsIn
<1>8. QED BY <1>5, <1>7 DEF GapInv

\* A step that changes nothing of what GapInv speaks of.
LEMMA GapKept ==
  ASSUME GapInv, UNCHANGED <<hub, lagged, due, node>>, Rest' = Rest, Subscribed' <=> Subscribed,
         pc' \notin Working => node = << >>
  PROVE  GapInv'
<1>1. NoSilentGap'
  BY DEF GapInv, NoSilentGap, Rest
<1>2. QED BY <1>1 DEF GapInv

\* Every step of the server and of the connection keeps the record.
LEMMA GapNetwork ==
  ASSUME PassInv, GapInv,
         ServerIssue \/ Connect \/ DeliverBacklog \/ LinkDies \/ Disconnect
  PROVE  GapInv'
<1>1. CASE Connect
  <2>1. /\ ~ Subscribed /\ ~ Subscribed' /\ UNCHANGED <<hub, lagged, due, node, answers>>
        /\ pc' = "off"
    BY <1>1 DEF Connect, queue, Subscribed
  <2>2. pc \notin Working /\ node = << >>
    BY <2>1 DEF Subscribed, Working, GapInv
  <2>3. QED BY <2>1, <2>2 DEF GapInv, NoSilentGap
<1>2. ASSUME UNCHANGED <<pc, node, answers>>
      PROVE  /\ Rest' = Rest /\ (Subscribed' <=> Subscribed) /\ Once(node')
             /\ pc' \notin Working => node' = << >>
  BY <1>2 DEF Rest, Subscribed, GapInv
<1>3. ASSUME NEW items \in Seq(Nat), HearNode(items), Once(items),
             UNCHANGED <<pc, node, answers>>
      PROVE  GapInv'
  <2>1. PICK e \in HubEvents : e = NodeEvent(items) /\ e.items = items
    <3>1. NodeEvent(items) \in HubEvents /\ NodeEvent(items).items = items
      BY DEF NodeEvent, HubEvents
    <3>2. QED BY <3>1
  <2>2. PICK events \in Seq(HubEvents) : events = << e >>
    <3>1. << e >> \in Seq(HubEvents)
      OBVIOUS
    <3>2. QED BY <3>1
  <2>3. Hear(events) /\ (Subscribed => due' = due \o items)
    BY <1>3, <2>1, <2>2 DEF HearNode
  <2>4. ItemsIn(events) = items
    BY <2>1, <2>2, ItemsOne
  <2>5. \A i \in DOMAIN events : Once(events[i].items)
    BY <1>3, <2>1, <2>2
  <2>6. QED BY <1>2, <1>3, <2>3, <2>4, <2>5, GapHear
<1>4. CASE ServerIssue
  <2>1. UNCHANGED <<pc, node, answers>>
    BY <1>4 DEF ServerIssue
  <2>2. CASE link = "up"
    <3>1. PICK n : n = Len(stream')
      OBVIOUS
    <3>2. n \in Nat
      BY <1>4, <3>1 DEF ServerIssue, PassInv
    <3>3. PICK items \in Seq(Nat) : items = << n >>
      <4>1. << n >> \in Seq(Nat)
        BY <3>2
      <4>2. QED BY <4>1
    <3>4. Once(items)
      BY <3>3 DEF Once
    <3>5. HearNode(items)
      BY <1>4, <2>2, <3>1, <3>3 DEF ServerIssue
    <3>6. QED BY <1>3, <2>1, <3>4, <3>5
  <2>3. CASE link # "up"
    <3>1. UNCHANGED <<hub, lagged, due, node>>
      BY <1>4, <2>1, <2>3 DEF ServerIssue, queue
    <3>2. QED BY <1>2, <2>1, <3>1, GapKept
  <2>4. QED BY <2>2, <2>3
<1>5. CASE DeliverBacklog
  <2>1. UNCHANGED <<pc, node, answers>>
    BY <1>5 DEF DeliverBacklog
  <2>2. CASE unanswered = {}
    <3>1. UNCHANGED <<hub, lagged, due, node>>
      BY <1>5, <2>1, <2>2 DEF DeliverBacklog, queue
    <3>2. QED BY <1>2, <2>1, <3>1, GapKept
  <2>3. CASE unanswered # {}
    <3>1. PICK items \in InOrder(unanswered) : HearNode(items)
      BY <1>5, <2>3 DEF DeliverBacklog
    <3>2. items \in Seq(Nat)
      BY <2>3, BacklogItems
    <3>3. Once(items)
      <4>1. /\ DOMAIN items \subseteq Nat /\ \A i \in DOMAIN items : items[i] \in Nat
            /\ \A i, j \in DOMAIN items : i < j => items[i] < items[j]
        <5>1. DOMAIN items = 1 .. Len(items) /\ \A i \in 1 .. Len(items) : items[i] \in Nat
          BY <3>2
        <5>2. \A i, j \in DOMAIN items : i < j => items[i] < items[j]
          BY <3>1 DEF InOrder
        <5>3. QED BY <5>1, <5>2
      <4>2. SUFFICES ASSUME NEW i \in DOMAIN items, NEW j \in DOMAIN items, items[i] = items[j]
                     PROVE  i = j
        BY DEF Once
      <4>3. ~ (i < j) /\ ~ (j < i)
        BY <4>1, <4>2
      <4>4. QED BY <4>1, <4>3
    <3>4. QED BY <1>3, <2>1, <3>1, <3>2, <3>3
  <2>4. QED BY <2>2, <2>3
<1>6. CASE LinkDies
  <2>1. UNCHANGED <<hub, lagged, due, node>> /\ UNCHANGED <<pc, node, answers>>
    BY <1>6 DEF LinkDies, queue
  <2>2. QED BY <1>2, <2>1, GapKept
<1>7. CASE Disconnect
  <2>1. PICK events \in Seq({ClosedEvent, OtherEvent}) : events = << ClosedEvent >>
    <3>1. << ClosedEvent >> \in Seq({ClosedEvent, OtherEvent})
      OBVIOUS
    <3>2. QED BY <3>1
  <2>2. Hear(events) /\ due' = due /\ UNCHANGED <<pc, node, answers>>
    BY <1>7, <2>1 DEF Disconnect
  <2>3. QED BY <1>2, <2>2, GapOthers
<1>8. QED BY <1>1, <1>4, <1>5, <1>6, <1>7

\* Nothing is left of a node past its last item.
LEMMA RestNone ==
  ASSUME NEW items \in Seq(Nat)
  PROVE  SubSeq(items, Len(items) + 1, Len(items)) = << >>
<1>1. Len(items) \in Int /\ Len(items) + 1 \in Int /\ Len(items) < Len(items) + 1
  OBVIOUS
<1>2. QED BY <1>1, SubSeqEmpty

\* A processor that has ended has nothing before it.
LEMMA GapEnds ==
  ASSUME NEW state \in {"off", "ended"}, Ends(state)
  PROVE  GapInv'
<1>1. /\ node' = << >> /\ hub' = << >> /\ pc' = state
  BY DEF Ends
<1>2. DOMAIN node' = {} /\ DOMAIN hub' = {}
  BY <1>1, EmptyMap
<1>3. ~ Subscribed'
  BY <1>1 DEF Subscribed
<1>4. QED BY <1>1, <1>2, <1>3 DEF GapInv, NoSilentGap, Once

\* The first event of the hub, and the others.
LEMMA HubHead ==
  ASSUME PassInv, hub # << >>
  PROVE  /\ Head(hub) \in HubEvents /\ Tail(hub) \in Seq(HubEvents)
         /\ Head(hub) = hub[1] /\ 1 \in DOMAIN hub
         /\ \A i \in DOMAIN Tail(hub) : i + 1 \in DOMAIN hub /\ Tail(hub)[i] = hub[i + 1]
         /\ ItemsIn(hub) = Head(hub).items \o ItemsIn(Tail(hub))
         /\ ItemsIn(Tail(hub)) \in Seq(Nat)
<1>1. hub \in Seq(HubEvents)
  BY DEF PassInv
<1>2. /\ Head(hub) \in HubEvents /\ Tail(hub) \in Seq(HubEvents)
      /\ Head(hub) = hub[1] /\ 1 \in DOMAIN hub
      /\ \A i \in DOMAIN Tail(hub) : i + 1 \in DOMAIN hub /\ Tail(hub)[i] = hub[i + 1]
  BY <1>1
<1>3. PICK a \in Seq(HubEvents), b \in Seq(HubEvents) : a = << Head(hub) >> /\ b = Tail(hub)
  <2>1. << Head(hub) >> \in Seq(HubEvents)
    BY <1>2
  <2>2. QED BY <1>2, <2>1
<1>4. hub = << Head(hub) >> \o Tail(hub)
  BY <1>1
<1>5. ItemsIn(a \o b) = ItemsIn(a) \o ItemsIn(b) /\ ItemsIn(b) \in Seq(Nat)
  BY HubItems
<1>6. ItemsIn(a) = Head(hub).items
  BY <1>2, <1>3, ItemsOne
<1>7. QED BY <1>2, <1>3, <1>4, <1>5, <1>6

\* An event is taken off the hub: its items are the next ones due.
LEMMA GapRecv ==
  ASSUME PassInv, GapInv, RecvNode \/ RecvOther
  PROVE  GapInv'
<1>1. /\ pc = "recv" /\ ~ lagged /\ hub # << >> /\ hub' = Tail(hub) /\ answers = << >>
      /\ UNCHANGED <<lagged, due, answers>>
  BY DEF RecvNode, RecvOther, PassInv
<1>2. \A i \in DOMAIN hub' : Once(hub'[i].items)
  BY <1>1, HubHead DEF GapInv
<1>3. due = Head(hub).items \o ItemsIn(Tail(hub))
  <2>1. due = Rest \o ItemsIn(hub)
    BY <1>1 DEF GapInv, NoSilentGap, Rest, ItemsIn, Subscribed
  <2>2. Rest = << >>
    <3>1. node \in Seq(Nat)
      BY DEF PassInv
    <3>2. QED BY <1>1, <3>1, RestNone DEF Rest
  <2>3. Head(hub).items \in Seq(Nat) /\ ItemsIn(Tail(hub)) \in Seq(Nat)
        /\ ItemsIn(hub) = Head(hub).items \o ItemsIn(Tail(hub))
    BY <1>1, HubHead DEF HubEvents
  <2>4. Head(hub).items \o ItemsIn(Tail(hub)) \in Seq(Nat)
    BY <2>3, ConcatProperties
  <2>5. << >> \o (Head(hub).items \o ItemsIn(Tail(hub))) = Head(hub).items \o ItemsIn(Tail(hub))
    BY <2>4, ConcatEmptySeq
  <2>6. QED BY <2>1, <2>2, <2>3, <2>5
<1>4. CASE RecvNode
  <2>1. node' = Head(hub).items /\ pc' = "process"
    BY <1>4 DEF RecvNode
  <2>2. Once(node')
    BY <1>1, <2>1, HubHead DEF GapInv
  <2>3. node' \in Seq(Nat)
    BY <1>1, <2>1, HubHead DEF HubEvents
  <2>4. Rest' = node'
    <3>1. Rest' = SubSeq(node', 1, Len(node'))
      <4>1. Len(answers') + 1 = 1
        BY <1>1
      <4>2. QED BY <2>1, <4>1 DEF Rest
    <3>2. QED BY <2>3, <3>1, SubSeqFull
  <2>5. NoSilentGap'
    BY <1>1, <1>3, <2>1, <2>4 DEF NoSilentGap, Rest, ItemsIn
  <2>6. QED BY <1>2, <2>1, <2>2, <2>5 DEF GapInv, Working
<1>5. CASE RecvOther
  <2>1. Head(hub).items = << >> /\ UNCHANGED <<node, pc>>
    BY <1>5 DEF RecvOther, OtherEvent
  <2>2. Rest' = << >>
    <3>1. node \in Seq(Nat)
      BY DEF PassInv
    <3>2. QED BY <1>1, <2>1, <3>1, RestNone DEF Rest
  <2>3. NoSilentGap'
    BY <1>1, <1>3, <2>1, <2>2 DEF NoSilentGap, Rest, ItemsIn
  <2>4. QED BY <1>2, <2>1, <2>3 DEF GapInv
<1>6. QED BY <1>4, <1>5

\* An item is processed: the next one due was the next one of the node.
LEMMA GapProcess ==
  ASSUME PassInv, GapInv, ProcessItem
  PROVE  GapInv'
<1>1. /\ pc = "process" /\ UNCHANGED <<hub, lagged, node>> /\ due' = Tail(due)
      /\ pc' = IF node[Len(answers) + 1] = Last(node) THEN "respond" ELSE "process"
  BY DEF ProcessItem
<1>2. PICK n \in Nat, m \in Nat : n = Len(answers) + 1 /\ m = Len(node)
  BY DEF PassInv
<1>3. /\ n \in 1 .. m /\ node \in Seq(Nat) /\ Len(answers') = n
  BY <1>1, <1>2 DEF PassInv, ProcessItem
<1>4. pc' = IF n = m THEN "respond" ELSE "process"
  <2>1. Last(node) = node[m] /\ n \in DOMAIN node /\ m \in DOMAIN node
    BY <1>2, <1>3 DEF Last
  <2>2. Once(node)
    BY DEF GapInv
  <2>3. node[n] = node[m] <=> n = m
    BY <2>1, <2>2 DEF Once
  <2>4. QED BY <1>1, <1>2, <2>1, <2>3
<1>5. Rest = SubSeq(node, n, m)
  BY <1>1, <1>2 DEF Rest
<1>6. Rest' = SubSeq(node, n + 1, m)
  <2>1. CASE n = m
    BY <1>1, <1>2, <1>4, <2>1 DEF Rest
  <2>2. CASE n # m
    BY <1>1, <1>2, <1>3, <1>4, <2>2 DEF Rest
  <2>3. QED BY <2>1, <2>2
<1>7. ASSUME ~ lagged
      PROVE  Tail(due) = Rest' \o ItemsIn(hub)
  <2>1. due = Rest \o ItemsIn(hub)
    BY <1>1, <1>7 DEF GapInv, NoSilentGap, Rest, ItemsIn, Subscribed
  <2>2. PICK r \in Seq(Nat), h \in Seq(Nat) : r = Rest /\ h = ItemsIn(hub)
    <3>1. hub \in Seq(HubEvents)
      BY DEF PassInv
    <3>2. QED BY <3>1, RestType, HubItems
  <2>3. r # << >> /\ Tail(r) = SubSeq(node, n + 1, m)
    <3>1. m \in n .. Len(node) /\ n \in 1 .. Len(node)
      BY <1>2, <1>3
    <3>2. Tail(r) = SubSeq(node, n + 1, m)
      BY <1>3, <1>5, <2>2, <3>1, HeadTailOfSubSeq
    <3>3. \A i \in n .. m : node[i] \in Nat
      BY <1>2, <1>3
    <3>4. Len(r) = m - n + 1
      BY <1>2, <1>3, <1>5, <2>2, <3>3, SubSeqProperties
    <3>5. QED BY <1>3, <3>2, <3>4
  <2>4. Tail(r \o h) = Tail(r) \o h
    BY <2>3
  <2>5. QED BY <1>6, <2>1, <2>2, <2>3, <2>4
<1>8. NoSilentGap'
  BY <1>1, <1>7 DEF NoSilentGap, Rest, ItemsIn
<1>9. QED BY <1>1, <1>4, <1>8 DEF GapInv, Working

\* Every step of the processor keeps the record.
LEMMA GapProcessor ==
  ASSUME PassInv, GapInv,
         \/ Spawn \/ RecvEnd \/ RecvNode \/ RecvOther \/ ProcessItem \/ ProcessOverflow
         \/ Respond \/ RespondFails \/ Persist \/ PersistFails \/ Emit \/ Crash
  PROVE  GapInv'
<1>1. CASE Spawn
  <2>1. /\ pc = "off" /\ pc' = "recv" /\ hub' = << >> /\ due' = << >> /\ node' = node
    BY <1>1 DEF Spawn
  <2>2. node = << >>
    BY <2>1 DEF GapInv, Working
  <2>3. Rest' = << >>
    <3>1. node' \in Seq(Nat)
      BY <2>1 DEF PassInv
    <3>2. QED BY <2>1, <3>1, RestNone DEF Rest
  <2>4. ItemsIn(hub') = << >>
    <3>1. << >> \in Seq({ClosedEvent, OtherEvent})
      OBVIOUS
    <3>2. QED BY <2>1, <3>1, ItemsOfOthers
  <2>5. NoSilentGap'
    BY <2>1, <2>3, <2>4 DEF NoSilentGap, Rest, ItemsIn
  <2>6. DOMAIN hub' = {} /\ DOMAIN node' = {}
    BY <2>1, <2>2, EmptyMap
  <2>7. QED BY <2>1, <2>2, <2>5, <2>6 DEF GapInv, Once
<1>2. CASE RecvNode \/ RecvOther
  BY <1>2, GapRecv
<1>3. CASE ProcessItem
  BY <1>3, GapProcess
<1>4. CASE Respond \/ Persist
  <2>1. /\ pc \in Working \ {"process"} /\ pc' \in Working \ {"process"}
        /\ UNCHANGED <<queue, node>>
    BY <1>4 DEF Respond, Persist, PersistStep, Working
  <2>2. /\ UNCHANGED <<hub, lagged, due, node>> /\ Subscribed /\ Subscribed'
    BY <2>1 DEF queue, Subscribed, Working
  <2>3. Rest' = Rest
    BY <2>1, <2>2 DEF Rest
  <2>4. QED BY <2>1, <2>2, <2>3, GapKept
<1>5. CASE Emit
  <2> DEFINE grouped == [batch EXCEPT !.immediate = << >>] # EmptyBatch
             events == [i \in 1..(Len(batch.immediate) + IF grouped THEN 1 ELSE 0) |->
                          OtherEvent]
  <2>1. /\ Hear(events) /\ pc = "effects" /\ pc' = "recv" /\ node' = << >> /\ due' = due
    BY <1>5 DEF Emit
  <2>2. events \in Seq({ClosedEvent, OtherEvent})
    OBVIOUS
  <2> HIDE DEF events
  <2>3. Rest' = << >> /\ Rest = << >>
    <3>1. node \in Seq(Nat) /\ node' \in Seq(Nat)
      BY <2>1 DEF PassInv
    <3>2. QED BY <2>1, <3>1, RestNone DEF Rest
  <2>4. Subscribed /\ Subscribed'
    BY <2>1 DEF Subscribed
  <2>5. Once(node')
    BY <2>1, EmptyMap DEF Once
  <2>6. QED BY <2>1, <2>2, <2>3, <2>4, <2>5, GapOthers
<1>6. CASE RecvEnd \/ ProcessOverflow \/ RespondFails \/ PersistFails \/ Crash
  BY <1>6, GapEnds DEF RecvEnd, ProcessOverflow, RespondFails, PersistFails, Crash
<1>7. QED BY <1>1, <1>2, <1>3, <1>4, <1>5, <1>6

\* Whatever the hub dropped, a processor that goes on receiving has before it, in
\* order, all the items the hub passed on since it was spawned.
THEOREM NoSilentGapAlways == Spec => []NoSilentGap
<1>1. Init => GapInv
  BY EmptyMap DEF Init, GapInv, NoSilentGap, Once, Subscribed
<1>2. PassInv /\ GapInv /\ [Next]_vars => GapInv'
  <2> SUFFICES ASSUME PassInv, GapInv, [Next]_vars PROVE GapInv'
    OBVIOUS
  <2>1. CASE UNCHANGED vars
    BY <2>1 DEF vars, GapInv, NoSilentGap, Subscribed
  <2>2. QED BY <2>1, GapNetwork, GapProcessor DEF Next
<1>3. GapInv => NoSilentGap
  BY DEF GapInv
<1>4. QED BY <1>1, <1>2, <1>3, PassAlways, PTL DEF Spec

-----------------------------------------------------------------------------
(* The newest event of a record wins, in spite of the replays.             *)

Increasing(items) == \A i, j \in DOMAIN items : i < j => items[i] < items[j]
Before(items, others) == \A i \in DOMAIN items, j \in DOMAIN others : items[i] < others[j]

\* Events in the order of their items.
Ordered(events) ==
  /\ \A k \in DOMAIN events : Increasing(events[k].items)
  /\ \A k, l \in DOMAIN events : k < l => Before(events[k].items, events[l].items)

\* Items reach the processor in the order the server issued them, those of its
\* node first; nothing has reached it while the connection opens.
OrderInv ==
  /\ \A n \in DOMAIN stream : stream[n] \in MessageItems(n) \cup OtherItems(n)
  /\ kept \subseteq DOMAIN stream
  /\ Increasing(node)
  /\ Ordered(hub) /\ \A k \in DOMAIN hub : Before(node, hub[k].items)
  /\ ~ Subscribed => hub = << >>
  /\ link = "opening" /\ Subscribed => pc = "recv" /\ hub = << >>

\* How many items of the node have been processed.
Done == IF pc = "process" THEN Len(answers) ELSE Len(node)

\* The items of the node are answered in order, and all that are processed but
\* refused messages are taken.
AnswerInv ==
  /\ pc = "process" => \A i \in DOMAIN answers : answers[i].item = node[i]
  /\ pc = "respond" =>
       /\ Len(answers) <= Len(node)
       /\ \A i \in DOMAIN answers : answers[i].item = node[Len(node) - Len(answers) + i]
  /\ taken \subseteq {node[i] : i \in 1 .. Done}
  /\ \A i \in 1 .. Done : ~ stream[node[i]].sealed => node[i] \in taken

\* The items of the node in work that the server has no answer for.
Open == IF pc = "process" THEN ToSet(node)
        ELSE {answers[i].item : i \in DOMAIN answers}

\* An item the processor will come to, or that the hub dropped.
Ahead(n) ==
  \/ n \in Open
  \/ \E k \in DOMAIN hub : n \in ToSet(hub[k].items)
  \/ lagged /\ Before(node, << n >>)

\* The server has no answer for an item and has one for a newer one only if it had
\* passed the first before the processor had subscribed: what the processor has not
\* answered is ahead of it.
ServerInv ==
  /\ link \in {"down", "opening", "up", "dead"}
  /\ \A m, n \in DOMAIN stream :
       m < n /\ m \in unanswered => m \in missed \/ n \in unanswered
  /\ link = "up" /\ pc = "off" => unanswered \subseteq missed
  /\ link = "up" /\ Subscribed => \A n \in unanswered \ missed : Ahead(n)

\* A node that brings an item again brings all newer ones that were stored.
Whole(items, gone, stored) ==
  \A m \in ToSet(items) \ gone, n \in stored : n > m => n \in ToSet(items)

WholeInv ==
  /\ Whole(node, missed, kept)
  /\ \A k \in DOMAIN hub : Whole(hub[k].items, missed, kept)

\* A map has the newest of some items for the key.
IsNewest(map, key, items) ==
  IF items = {} THEN key \notin DOMAIN map
  ELSE key \in DOMAIN map /\ map[key] \in items /\ \A n \in items : n <= map[key]

FieldItems(c, f) == {n \in ItemsOf("contacts", c) : f \in DOMAIN stream[n].batch.contacts[c]}

FieldsOf(map, c) == IF c \in DOMAIN map THEN map[c] ELSE << >>

InHand == IF pc \in {"process", "respond"} THEN buf ELSE batch

\* What the processor has in hand for a record is the newest of the items taken.
HeldInv ==
  /\ \A r \in ReceiptKeys :
       IsNewest(InHand.receipts, r, taken \cap ItemsOf("receipts", r))
  /\ \A c \in ContactKeys, f \in Fields :
       IsNewest(FieldsOf(InHand.contacts, c), f, taken \cap FieldItems(c, f))

\* A map has for the key something as new as each of the items.
AsNew(map, key, items) == \A n \in items : key \in DOMAIN map /\ map[key] >= n

\* What is stored for a record is as new as all that has been stored for it.
StoredInv ==
  /\ \A r \in ReceiptKeys : ItemsOf("receipts", r) \cap missed = {} =>
       AsNew(store.receipts, r, kept \cap ItemsOf("receipts", r))
  /\ \A c \in ContactKeys, f \in Fields : ItemsOf("contacts", c) \cap missed = {} =>
       AsNew(FieldsOf(store.contacts, c), f,
             (kept \cup (IF pc \in {"interactions", "effects"} THEN taken ELSE {}))
               \cap FieldItems(c, f))

\* What a subscriber hears follows what it had; if the hub drops events, they are
\* the first of these.
LEMMA HeardLast ==
  ASSUME hub \in Seq(HubEvents), NEW events \in Seq(HubEvents), Hear(events), Subscribed
  PROVE  \E over \in Nat :
           \A k \in DOMAIN hub' : /\ k \in Nat /\ k + over \in DOMAIN (hub \o events)
                                  /\ hub'[k] = (hub \o events)[k + over]
<1> DEFINE all == hub \o events
           over == IF Len(all) > HubCapacity THEN Len(all) - HubCapacity ELSE 0
<1>1. all \in Seq(HubEvents) /\ Len(all) \in Nat
  BY ConcatProperties
<1>2. over \in 0 .. Len(all)
  BY <1>1, IncomingAssumption
<1>3. hub' = SubSeq(all, over + 1, Len(all))
  BY DEF Hear
<1> HIDE DEF all, over
<1>4. \A k \in DOMAIN hub' : k \in Nat /\ k + over \in DOMAIN all /\ hub'[k] = all[k + over]
  BY <1>1, <1>2, <1>3
<1>5. over \in Nat
  BY <1>1, <1>2
<1>6. QED BY <1>4, <1>5 DEF all

\* Events that follow those of the hub keep its order.
LEMMA OrderHear ==
  ASSUME PassInv, Ordered(hub), NEW events \in Seq(HubEvents), Hear(events), Subscribed,
         Ordered(events),
         \A k \in DOMAIN hub, l \in DOMAIN events : Before(hub[k].items, events[l].items)
  PROVE  Ordered(hub')
<1> DEFINE all == hub \o events
<1>1. hub \in Seq(HubEvents)
  BY DEF PassInv
<1>2. PICK over \in Nat :
        \A k \in DOMAIN hub' : k \in Nat /\ k + over \in DOMAIN all /\ hub'[k] = all[k + over]
  BY <1>1, HeardLast
<1>3. /\ DOMAIN all = 1 .. Len(hub) + Len(events) /\ Len(hub) \in Nat /\ Len(events) \in Nat
      /\ DOMAIN hub = 1 .. Len(hub) /\ DOMAIN events = 1 .. Len(events)
      /\ \A k \in DOMAIN all : all[k] = IF k <= Len(hub) THEN hub[k] ELSE events[k - Len(hub)]
  <2>1. /\ Len(hub) \in Nat /\ Len(events) \in Nat
        /\ DOMAIN hub = 1 .. Len(hub) /\ DOMAIN events = 1 .. Len(events)
    BY <1>1
  <2>2. DOMAIN all = 1 .. Len(hub) + Len(events)
    BY <1>1, <2>1
  <2>3. \A k \in 1 .. Len(hub) + Len(events) :
          all[k] = IF k <= Len(hub) THEN hub[k] ELSE events[k - Len(hub)]
    BY <1>1, <2>1
  <2>4. QED BY <2>1, <2>2, <2>3
<1> HIDE DEF all
<1>4. \A k \in DOMAIN all : Increasing(all[k].items)
  BY <1>3 DEF Ordered
<1>5. ASSUME NEW k \in DOMAIN all, NEW l \in DOMAIN all, k < l
      PROVE  Before(all[k].items, all[l].items)
  <2>1. CASE l <= Len(hub)
    <3>1. k \in DOMAIN hub /\ l \in DOMAIN hub /\ all[k] = hub[k] /\ all[l] = hub[l]
      BY <1>3, <1>5, <2>1
    <3>2. QED BY <1>5, <3>1 DEF Ordered
  <2>2. CASE k <= Len(hub) /\ ~ l <= Len(hub)
    <3>1. /\ k \in DOMAIN hub /\ l - Len(hub) \in DOMAIN events
          /\ all[k] = hub[k] /\ all[l] = events[l - Len(hub)]
      BY <1>3, <2>2
    <3>2. QED BY <3>1
  <2>3. CASE ~ k <= Len(hub)
    <3>1. /\ k - Len(hub) \in DOMAIN events /\ l - Len(hub) \in DOMAIN events
          /\ all[k] = events[k - Len(hub)] /\ all[l] = events[l - Len(hub)]
          /\ k - Len(hub) < l - Len(hub)
      BY <1>3, <1>5, <2>3
    <3>2. QED BY <3>1 DEF Ordered
  <2>4. QED BY <1>3, <1>5, <2>1, <2>2, <2>3
<1>6. ASSUME NEW k \in DOMAIN hub', NEW l \in DOMAIN hub', k < l
      PROVE  Before(hub'[k].items, hub'[l].items)
  <2>1. /\ k + over \in DOMAIN all /\ l + over \in DOMAIN all /\ k + over < l + over
        /\ hub'[k] = all[k + over] /\ hub'[l] = all[l + over]
    BY <1>2, <1>6
  <2>2. QED BY <1>5, <2>1
<1>7. \A k \in DOMAIN hub' : Increasing(hub'[k].items)
  BY <1>2, <1>4
<1>8. QED BY <1>6, <1>7 DEF Ordered

\* The node comes before what the hub has, if it does before what it had and hears.
LEMMA BeforeHear ==
  ASSUME PassInv, NEW items, NEW events \in Seq(HubEvents), Hear(events),
         \A k \in DOMAIN hub : Before(items, hub[k].items),
         \A l \in DOMAIN events : Before(items, events[l].items)
  PROVE  \A k \in DOMAIN hub' : Before(items, hub'[k].items)
<1>1. hub \in Seq(HubEvents)
  BY DEF PassInv
<1>2. \A k \in DOMAIN hub' : \/ \E j \in DOMAIN hub : hub'[k] = hub[j]
                             \/ \E j \in DOMAIN events : hub'[k] = events[j]
  BY <1>1, Heard
<1>3. QED BY <1>2

\* Items that are numbers of issued ones come before a new one.
LEMMA BeforeNew ==
  ASSUME NEW items \in Seq(Nat), NEW n \in Nat, ToSet(items) \subseteq 1 .. n
  PROVE  Before(items, << n + 1 >>)
<1>1. ASSUME NEW i \in DOMAIN items, NEW j \in DOMAIN << n + 1 >>
      PROVE  items[i] < << n + 1 >>[j]
  <2>1. items[i] \in 1 .. n
    BY DEF ToSet
  <2>2. << n + 1 >>[j] = n + 1
    OBVIOUS
  <2>3. QED BY <2>1, <2>2
<1>2. QED BY <1>1 DEF Before

\* A node is heard.
LEMMA OrderNode ==
  ASSUME PassInv, OrderInv, NEW items \in Seq(Nat), HearNode(items), Increasing(items),
         \A k \in DOMAIN hub : Before(hub[k].items, items), Before(node, items)
  PROVE  /\ Ordered(hub') /\ \A k \in DOMAIN hub' : Before(node, hub'[k].items)
         /\ ~ Subscribed => hub' = << >>
<1>1. PICK e \in HubEvents : e = NodeEvent(items) /\ e.items = items
  <2>1. NodeEvent(items) \in HubEvents /\ NodeEvent(items).items = items
    BY DEF NodeEvent, HubEvents
  <2>2. QED BY <2>1
<1>2. PICK events \in Seq(HubEvents) : events = << e >>
  <2>1. << e >> \in Seq(HubEvents)
    OBVIOUS
  <2>2. QED BY <2>1
<1>3. Hear(events)
  BY <1>1, <1>2 DEF HearNode
<1>4. DOMAIN events = {1} /\ events[1].items = items
  BY <1>1, <1>2
<1>5. Ordered(events)
  BY <1>4 DEF Ordered
<1>6. CASE Subscribed
  BY <1>3, <1>4, <1>5, <1>6, OrderHear, BeforeHear DEF OrderInv
<1>7. CASE ~ Subscribed
  BY <1>3, <1>7 DEF Hear, OrderInv
<1>8. QED BY <1>6, <1>7

\* Events that are no nodes are heard.
LEMMA OrderOthers ==
  ASSUME PassInv, OrderInv, NEW events \in Seq({ClosedEvent, OtherEvent}), Hear(events)
  PROVE  /\ Ordered(hub') /\ \A k \in DOMAIN hub' : Before(node, hub'[k].items)
         /\ ~ Subscribed => hub' = << >>
<1>1. events \in Seq(HubEvents)
  <2>1. {ClosedEvent, OtherEvent} \subseteq HubEvents
    BY DEF ClosedEvent, OtherEvent, HubEvents
  <2>2. QED BY <2>1
<1>2. \A l \in DOMAIN events : DOMAIN events[l].items = {}
  <2>1. \A l \in DOMAIN events : events[l].items = << >>
    BY DEF ClosedEvent, OtherEvent
  <2>2. QED BY <2>1, EmptyMap
<1>3. Ordered(events)
  BY <1>2 DEF Ordered, Increasing, Before
<1>4. /\ \A l \in DOMAIN events : Before(node, events[l].items)
      /\ \A k \in DOMAIN hub, l \in DOMAIN events : Before(hub[k].items, events[l].items)
  BY <1>2 DEF Before
<1>5. CASE Subscribed
  BY <1>1, <1>3, <1>4, <1>5, OrderHear, BeforeHear DEF OrderInv
<1>6. CASE ~ Subscribed
  BY <1>6 DEF Hear, OrderInv
<1>7. QED BY <1>5, <1>6

\* What the server issues.
LEMMA IssuedStream ==
  ASSUME PassInv, ServerIssue
  PROVE  /\ Len(stream) \in Nat /\ DOMAIN stream = 1 .. Len(stream)
         /\ Len(stream') = Len(stream) + 1 /\ DOMAIN stream' = 1 .. Len(stream) + 1
         /\ \A n \in DOMAIN stream : stream'[n] = stream[n]
         /\ stream'[Len(stream')] \in MessageItems(Len(stream')) \cup OtherItems(Len(stream'))
<1>1. PICK item \in MessageItems(Len(stream) + 1) \cup OtherItems(Len(stream) + 1) :
        stream' = Append(stream, item)
  BY DEF ServerIssue
<1>2. item \in Issued /\ stream \in Seq(Issued)
  BY DEF PassInv, Issued
<1>3. /\ Len(stream) \in Nat /\ DOMAIN stream = 1 .. Len(stream)
      /\ Len(stream') = Len(stream) + 1 /\ DOMAIN stream' = 1 .. Len(stream) + 1
      /\ \A n \in DOMAIN stream : stream'[n] = stream[n]
      /\ stream'[Len(stream) + 1] = item
  BY <1>1, <1>2
<1>4. QED BY <1>1, <1>3

\* What the server issues or delivers again comes after what the hub has.
LEMMA OrderNetwork ==
  ASSUME PassInv, AckInv, OrderInv,
         ServerIssue \/ Connect \/ DeliverBacklog \/ LinkDies \/ Disconnect
  PROVE  OrderInv'
<1>1. CASE ServerIssue
  <2>1. /\ UNCHANGED <<pc, node, kept, link>> /\ link # "opening"
        /\ Subscribed' <=> Subscribed
    BY <1>1 DEF ServerIssue, history, network, Subscribed
  <2>2. /\ \A n \in DOMAIN stream' : stream'[n] \in MessageItems(n) \cup OtherItems(n)
        /\ DOMAIN stream \subseteq DOMAIN stream'
    BY <1>1, IssuedStream DEF OrderInv
  <2>3. CASE link = "up"
    <3>1. PICK n : n = Len(stream) /\ n \in Nat /\ Len(stream') = n + 1 /\ DOMAIN stream = 1 .. n
      BY <1>1, IssuedStream
    <3>2. PICK items \in Seq(Nat) : items = << n + 1 >>
      <4>1. << n + 1 >> \in Seq(Nat)
        BY <3>1
      <4>2. QED BY <4>1
    <3>3. HearNode(items)
      BY <1>1, <2>3, <3>1, <3>2 DEF ServerIssue
    <3>4. Increasing(items)
      BY <3>1, <3>2 DEF Increasing
    <3>5. Before(node, items)
      BY <3>1, <3>2, BeforeNew DEF PassInv
    <3>6. ASSUME NEW k \in DOMAIN hub PROVE Before(hub[k].items, items)
      <4>1. hub[k] \in HubEvents /\ IssuedNode(hub[k])
        BY DEF PassInv
      <4>2. hub[k].items \in Seq(Nat) /\ ToSet(hub[k].items) \subseteq 1 .. n
        BY <3>1, <4>1 DEF HubEvents, IssuedNode
      <4>3. QED BY <3>1, <3>2, <4>2, BeforeNew
    <3>7. /\ Ordered(hub') /\ \A k \in DOMAIN hub' : Before(node, hub'[k].items)
          /\ ~ Subscribed => hub' = << >>
      BY <3>3, <3>4, <3>5, <3>6, OrderNode
    <3>8. QED BY <2>1, <2>2, <3>7 DEF OrderInv
  <2>4. CASE link # "up"
    <3>1. hub' = hub
      BY <1>1, <2>4 DEF ServerIssue, queue
    <3>2. QED BY <2>1, <2>2, <3>1 DEF OrderInv
  <2>5. QED BY <2>3, <2>4
<1>2. CASE Connect
  <2>1. /\ pc' = "off" /\ ~ Subscribed /\ ~ Subscribed' /\ UNCHANGED <<stream, node, kept, hub>>
    BY <1>2 DEF Connect, server, queue, history, Subscribed
  <2>2. QED BY <2>1 DEF OrderInv
<1>3. CASE DeliverBacklog
  <2>1. /\ UNCHANGED <<stream, pc, node, kept>> /\ link = "opening" /\ link' = "up"
        /\ Subscribed' <=> Subscribed
    BY <1>3 DEF DeliverBacklog, server, history, Subscribed
  <2>2. CASE unanswered = {}
    <3>1. hub' = hub
      BY <1>3, <2>2 DEF DeliverBacklog, queue
    <3>2. QED BY <2>1, <3>1 DEF OrderInv
  <2>3. CASE unanswered # {}
    <3>1. PICK items \in InOrder(unanswered) : HearNode(items)
      BY <1>3, <2>3 DEF DeliverBacklog
    <3>2. items \in Seq(Nat)
      BY <2>3, BacklogItems
    <3>3. Increasing(items)
      BY <3>1 DEF InOrder, Increasing
    <3>4. hub = << >> /\ node = << >>
      BY <2>1 DEF OrderInv, AckInv, Working, Subscribed
    <3>5. Before(node, items) /\ \A k \in DOMAIN hub : Before(hub[k].items, items)
      BY <3>4, EmptyMap DEF Before
    <3>6. /\ Ordered(hub') /\ \A k \in DOMAIN hub' : Before(node, hub'[k].items)
          /\ ~ Subscribed => hub' = << >>
      BY <3>1, <3>2, <3>3, <3>5, OrderNode
    <3>7. QED BY <2>1, <3>6 DEF OrderInv
  <2>4. QED BY <2>2, <2>3
<1>4. CASE LinkDies
  <2>1. /\ UNCHANGED <<stream, pc, node, kept, hub>> /\ link' = "dead"
        /\ Subscribed' <=> Subscribed
    BY <1>4 DEF LinkDies, server, queue, history, Subscribed
  <2>2. QED BY <2>1 DEF OrderInv
<1>5. CASE Disconnect
  <2>1. /\ UNCHANGED <<stream, pc, node, kept>> /\ link' = "down" /\ Hear(<< ClosedEvent >>)
        /\ Subscribed' <=> Subscribed
    BY <1>5 DEF Disconnect, server, history, Subscribed
  <2>2. << ClosedEvent >> \in Seq({ClosedEvent, OtherEvent})
    OBVIOUS
  <2>3. /\ Ordered(hub') /\ \A k \in DOMAIN hub' : Before(node, hub'[k].items)
        /\ ~ Subscribed => hub' = << >>
    BY <2>1, <2>2, OrderOthers
  <2>4. QED BY <2>1, <2>3 DEF OrderInv
<1>6. QED BY <1>1, <1>2, <1>3, <1>4, <1>5

\* The rest of the hub is in order, behind its first event.
LEMMA OrderTail ==
  ASSUME PassInv, OrderInv, hub # << >>
  PROVE  /\ Ordered(Tail(hub)) /\ Increasing(Head(hub).items)
         /\ \A k \in DOMAIN Tail(hub) : Before(node, Tail(hub)[k].items)
         /\ \A k \in DOMAIN Tail(hub) : Before(Head(hub).items, Tail(hub)[k].items)
<1>1. /\ Head(hub) = hub[1] /\ 1 \in DOMAIN hub
      /\ \A k \in DOMAIN Tail(hub) :
           k \in Nat \ {0} /\ k + 1 \in DOMAIN hub /\ Tail(hub)[k] = hub[k + 1]
  BY HubHead DEF PassInv
<1>2. Ordered(hub) /\ \A k \in DOMAIN hub : Before(node, hub[k].items)
  BY DEF OrderInv
<1>3. ASSUME NEW k \in DOMAIN Tail(hub), NEW l \in DOMAIN Tail(hub), k < l
      PROVE  Before(Tail(hub)[k].items, Tail(hub)[l].items)
  <2>1. /\ k + 1 \in DOMAIN hub /\ l + 1 \in DOMAIN hub /\ k + 1 < l + 1
        /\ Tail(hub)[k] = hub[k + 1] /\ Tail(hub)[l] = hub[l + 1]
    BY <1>1, <1>3
  <2>2. QED BY <1>2, <2>1 DEF Ordered
<1>4. ASSUME NEW k \in DOMAIN Tail(hub)
      PROVE  /\ Increasing(Tail(hub)[k].items) /\ Before(node, Tail(hub)[k].items)
             /\ Before(Head(hub).items, Tail(hub)[k].items)
  <2>1. k + 1 \in DOMAIN hub /\ 1 < k + 1 /\ Tail(hub)[k] = hub[k + 1]
    BY <1>1
  <2>2. QED BY <1>1, <1>2, <2>1 DEF Ordered
<1>5. Increasing(Head(hub).items)
  BY <1>1, <1>2 DEF Ordered
<1>6. QED BY <1>3, <1>4, <1>5 DEF Ordered

\* A processor that has ended has nothing in order or out of it.
LEMMA OrderEnds ==
  ASSUME OrderInv, NEW state \in {"off", "ended"}, Ends(state), UNCHANGED stream
  PROVE  OrderInv'
<1>1. /\ node' = << >> /\ hub' = << >> /\ kept' = kept /\ pc' = state
  BY DEF Ends
<1>2. DOMAIN node' = {} /\ DOMAIN hub' = {} /\ ~ Subscribed'
  BY <1>1, EmptyMap DEF Subscribed
<1>3. QED BY <1>1, <1>2 DEF OrderInv, Ordered, Increasing

\* The processor takes nodes in the order of the hub.
LEMMA OrderProcessor ==
  ASSUME PassInv, AckInv, OrderInv,
         \/ Spawn \/ RecvEnd \/ RecvNode \/ RecvOther \/ ProcessItem \/ ProcessOverflow
         \/ Respond \/ RespondFails \/ Persist \/ PersistFails \/ Emit \/ Crash
  PROVE  OrderInv'
<1>1. CASE Spawn
  <2>1. /\ hub' = << >> /\ pc' = "recv" /\ UNCHANGED <<stream, node, kept>>
    BY <1>1 DEF Spawn, server
  <2>2. DOMAIN hub' = {}
    BY <2>1, EmptyMap
  <2>3. QED BY <2>1, <2>2 DEF OrderInv, Ordered
<1>2. CASE RecvNode \/ RecvOther
  <2>1. /\ pc = "recv" /\ hub # << >> /\ hub' = Tail(hub)
        /\ UNCHANGED <<stream, link, kept>>
        /\ node' = node \/ node' = Head(hub).items
        /\ Subscribed /\ Subscribed'
    BY <1>2 DEF RecvNode, RecvOther, server, network, history, Subscribed
  <2>2. link' # "opening"
    BY <2>1 DEF OrderInv
  <2>3. Ordered(hub') /\ Increasing(node') /\ \A k \in DOMAIN hub' : Before(node', hub'[k].items)
    BY <2>1, OrderTail DEF OrderInv
  <2>4. QED BY <2>1, <2>2, <2>3 DEF OrderInv
<1>3. CASE ProcessItem \/ Respond \/ Persist
  <2>1. /\ pc \in Working /\ Subscribed /\ Subscribed'
        /\ UNCHANGED <<stream, link, hub, node>> /\ kept' \subseteq kept \cup taken
    BY <1>3 DEF ProcessItem, Respond, Persist, PersistStep, server, network, queue, Working,
                Subscribed
  <2>2. link' # "opening"
    BY <2>1 DEF OrderInv, Working
  <2>3. kept' \subseteq DOMAIN stream
    BY <2>1 DEF OrderInv, AckInv, PassInv
  <2>4. QED BY <2>1, <2>2, <2>3 DEF OrderInv
<1>4. CASE Emit
  <2> DEFINE grouped == [batch EXCEPT !.immediate = << >>] # EmptyBatch
             events == [i \in 1..(Len(batch.immediate) + IF grouped THEN 1 ELSE 0) |->
                          OtherEvent]
  <2>1. /\ Hear(events) /\ pc = "effects" /\ pc' = "recv" /\ node' = << >>
        /\ UNCHANGED <<stream, link, kept>> /\ Subscribed /\ Subscribed'
    BY <1>4 DEF Emit, server, network, Subscribed
  <2>2. events \in Seq({ClosedEvent, OtherEvent})
    OBVIOUS
  <2> HIDE DEF events
  <2>3. Ordered(hub')
    BY <2>1, <2>2, OrderOthers
  <2>4. link' # "opening" /\ DOMAIN node' = {}
    BY <2>1, EmptyMap DEF OrderInv
  <2>5. QED BY <2>1, <2>3, <2>4 DEF OrderInv, Increasing, Before
<1>5. CASE RecvEnd \/ ProcessOverflow \/ RespondFails \/ PersistFails \/ Crash
  <2>1. UNCHANGED stream /\ \E state \in {"off", "ended"} : Ends(state)
    BY <1>5 DEF RecvEnd, ProcessOverflow, RespondFails, PersistFails, Crash, server
  <2>2. QED BY <2>1, OrderEnds
<1>6. QED BY <1>1, <1>2, <1>3, <1>4, <1>5

\* Items always come in the order they were issued.
LEMMA OrderAlways == Spec => []OrderInv
<1>1. Init => OrderInv
  BY EmptyMap DEF Init, OrderInv, Ordered, Increasing, Subscribed
<1>2. PassInv /\ AckInv /\ OrderInv /\ [Next]_vars => OrderInv'
  <2> SUFFICES ASSUME PassInv, AckInv, OrderInv, [Next]_vars PROVE OrderInv'
    OBVIOUS
  <2>1. CASE UNCHANGED vars
    <3>1. UNCHANGED <<stream, kept, node, hub, link, pc>>
      BY <2>1 DEF vars
    <3>2. Subscribed' <=> Subscribed
      BY <3>1 DEF Subscribed
    <3>3. QED BY <3>1, <3>2 DEF OrderInv
  <2>2. QED BY <2>1, OrderNetwork, OrderProcessor DEF Next
<1>3. QED BY <1>1, <1>2, PassAlways, AckAlways, PTL DEF Spec

\* The last item of a node is the one it is left at.
LEMMA AtLast ==
  ASSUME PassInv, OrderInv, ProcessItem
  PROVE  /\ Len(answers) \in Nat /\ Len(node) \in Nat /\ Len(answers) + 1 \in 1 .. Len(node)
         /\ pc' = IF Len(answers) + 1 = Len(node) THEN "respond" ELSE "process"
<1>1. /\ pc = "process"
      /\ pc' = IF node[Len(answers) + 1] = Last(node) THEN "respond" ELSE "process"
  BY DEF ProcessItem
<1>2. /\ Len(answers) \in Nat /\ Len(node) \in Nat /\ Len(answers) < Len(node)
      /\ \A i \in DOMAIN node : node[i] \in Nat
      /\ DOMAIN node = 1 .. Len(node)
  BY <1>1 DEF PassInv
<1>3. node[Len(answers) + 1] = Last(node) <=> Len(answers) + 1 = Len(node)
  <2>1. Last(node) = node[Len(node)]
    BY DEF Last
  <2>2. Len(answers) + 1 \in DOMAIN node /\ Len(node) \in DOMAIN node
    BY <1>2
  <2>3. PICK x \in Nat, y \in Nat : x = node[Len(answers) + 1] /\ y = node[Len(node)]
    BY <1>2, <2>2
  <2>4. CASE Len(answers) + 1 = Len(node)
    BY <2>1, <2>4
  <2>5. CASE Len(answers) + 1 # Len(node)
    <3>1. Len(answers) + 1 < Len(node)
      <4>1. \A a, m \in Nat : a < m /\ a + 1 # m => a + 1 < m
        OBVIOUS
      <4>2. QED BY <1>2, <2>5, <4>1
    <3>2. x < y
      BY <2>2, <2>3, <3>1 DEF OrderInv, Increasing
    <3>3. x # y
      BY <3>2
    <3>4. QED BY <2>1, <2>3, <2>5, <3>3
  <2>6. QED BY <2>4, <2>5
<1>4. Len(answers) + 1 \in 1 .. Len(node)
  BY <1>2
<1>5. pc' = IF Len(answers) + 1 = Len(node) THEN "respond" ELSE "process"
  BY <1>1, <1>3, Zenon
<1>6. QED BY <1>2, <1>4, <1>5

\* The node is in work as before, and what it holds was issued before.
LEMMA AnswerKept ==
  ASSUME PassInv, AnswerInv, UNCHANGED <<answers, node, taken>>,
         \A n \in DOMAIN stream : stream'[n] = stream[n],
         pc' \in {"process", "respond"} => pc' = pc, Done' = Done
  PROVE  AnswerInv'
<1>1. \A i \in 1 .. Done : node[i] \in DOMAIN stream
  <2>1. Done \in Nat /\ Done <= Len(node) /\ Len(node) \in Nat
    BY DEF Done, PassInv
  <2>2. \A i \in 1 .. Len(node) : node[i] \in DOMAIN stream
    BY DEF PassInv, ToSet
  <2>3. QED BY <2>1, <2>2
<1>2. QED BY <1>1 DEF AnswerInv

\* With no node in work nothing is to be answered.
LEMMA AnswerNone ==
  ASSUME node' = << >>, answers' = << >>, taken' = {}
  PROVE  AnswerInv'
<1>1. DOMAIN answers' = {} /\ Len(answers') = 0 /\ Len(node') = 0
  BY EmptyMap
<1>2. Done' = 0
  BY <1>1 DEF Done
<1>3. QED BY <1>1, <1>2 DEF AnswerInv

\* An item is processed.
LEMMA AnswerProcess ==
  ASSUME PassInv, OrderInv, AnswerInv, ProcessItem
  PROVE  AnswerInv'
<1> DEFINE n == node[Len(answers) + 1]
           refused == stream[n].sealed /\ n \in opened
           answer == [item |-> n, ok |-> ~ refused]
<1>1. /\ pc = "process" /\ UNCHANGED <<stream, node>> /\ answers' = Append(answers, answer)
      /\ taken' = IF refused THEN taken ELSE taken \cup {n}
  BY DEF ProcessItem, server
<1>2. PICK a, m : /\ a = Len(answers) /\ m = Len(node) /\ a \in Nat /\ m \in Nat
                  /\ a + 1 \in 1 .. m
                  /\ pc' = IF a + 1 = m THEN "respond" ELSE "process"
  BY AtLast
<1>3. answer.item = n /\ answer \in [item : Nat, ok : BOOLEAN]
  BY <1>1, InWork
<1>4. /\ Len(answers') = a + 1 /\ DOMAIN answers' = 1 .. a + 1
      /\ answers'[a + 1] = answer /\ \A i \in 1 .. a : answers'[i] = answers[i]
      /\ DOMAIN answers = 1 .. a
  BY <1>1, <1>2, <1>3 DEF PassInv
<1>5. \A i \in 1 .. a + 1 : answers'[i].item = node[i]
  <2>1. \A i \in 1 .. a : answers'[i].item = node[i]
    BY <1>1, <1>4 DEF AnswerInv
  <2>2. answers'[a + 1].item = node[a + 1]
    BY <1>2, <1>3, <1>4
  <2>3. QED BY <1>2, <2>1, <2>2
<1>6. Done = a /\ Done' = a + 1
  BY <1>1, <1>2, <1>4 DEF Done
<1>7. n = node[a + 1]
  BY <1>2
<1> HIDE DEF n, answer
<1>8. taken' \subseteq {node[i] : i \in 1 .. a + 1}
  BY <1>1, <1>2, <1>6, <1>7 DEF AnswerInv
<1>9. \A i \in 1 .. a + 1 : ~ stream[node[i]].sealed => node[i] \in taken'
  <2>1. \A i \in 1 .. a : ~ stream[node[i]].sealed => node[i] \in taken'
    BY <1>1, <1>6 DEF AnswerInv
  <2>2. ~ stream[n].sealed => n \in taken'
    BY <1>1
  <2>3. QED BY <1>2, <1>7, <2>1, <2>2
<1>10. pc' = "respond" => \A i \in DOMAIN answers' :
         answers'[i].item = node[Len(node) - Len(answers') + i]
  BY <1>2, <1>4, <1>5
<1>11. Len(answers') <= Len(node)
  BY <1>2, <1>4
<1>12. taken' \subseteq {node'[i] : i \in 1 .. Done'}
  BY <1>1, <1>6, <1>8
<1>13. \A i \in 1 .. Done' : ~ stream'[node'[i]].sealed => node'[i] \in taken'
  BY <1>1, <1>6, <1>9
<1>14. pc' = "process" => \A i \in DOMAIN answers' : answers'[i].item = node'[i]
  BY <1>1, <1>4, <1>5
<1>15. pc' = "respond" =>
         /\ Len(answers') <= Len(node')
         /\ \A i \in DOMAIN answers' : answers'[i].item = node'[Len(node') - Len(answers') + i]
  BY <1>1, <1>10, <1>11
<1>16. QED BY <1>12, <1>13, <1>14, <1>15 DEF AnswerInv

\* The first answer is sent.
LEMMA AnswerRespond ==
  ASSUME PassInv, AnswerInv, Respond
  PROVE  AnswerInv'
<1>1. /\ pc = "respond" /\ pc' \in {"respond", "messages"} /\ answers' = Tail(answers)
      /\ UNCHANGED <<stream, node, taken>>
  BY DEF Respond
<1>2. PICK a, m : a = Len(answers) /\ m = Len(node) /\ a \in Nat \ {0} /\ m \in Nat /\ a <= m
  <2>1. answers # << >> /\ Len(answers) \in Nat /\ Len(node) \in Nat /\ Len(answers) <= Len(node)
    BY <1>1 DEF PassInv, AnswerInv
  <2>2. Len(answers) # 0
    BY <2>1 DEF PassInv
  <2>3. QED BY <2>1, <2>2
<1>3. /\ Len(answers') = a - 1 /\ DOMAIN answers' = 1 .. a - 1 /\ DOMAIN answers = 1 .. a
      /\ \A i \in 1 .. a - 1 : answers'[i] = answers[i + 1]
  BY <1>1, <1>2 DEF PassInv
<1>4. \A i \in 1 .. a : answers[i].item = node[m - a + i]
  BY <1>1, <1>2, <1>3 DEF AnswerInv
<1>5. ASSUME NEW i \in DOMAIN answers'
      PROVE  answers'[i].item = node[m - (a - 1) + i]
  <2>1. i \in 1 .. a - 1 /\ i + 1 \in 1 .. a
    BY <1>2, <1>3
  <2>2. answers'[i].item = node[m - a + (i + 1)]
    BY <1>3, <1>4, <2>1
  <2>3. m - a + (i + 1) = m - (a - 1) + i
    BY <1>2, <2>1
  <2>4. QED BY <2>2, <2>3
<1>6. Done = m /\ Done' = m
  BY <1>1, <1>2 DEF Done
<1>7. a - 1 <= m
  BY <1>2
<1>8. QED BY <1>1, <1>2, <1>3, <1>5, <1>6, <1>7 DEF AnswerInv

\* Every step keeps the order of the answers.
LEMMA AnswerStep ==
  ASSUME PassInv, AckInv, OrderInv, AnswerInv, Next
  PROVE  AnswerInv'
<1>1. CASE \/ ServerIssue \/ Connect \/ DeliverBacklog \/ LinkDies \/ Disconnect \/ Spawn
           \/ RecvOther
  <2>1. UNCHANGED <<answers, node, taken>>
    BY <1>1 DEF ServerIssue, Connect, DeliverBacklog, LinkDies, Disconnect, Spawn, RecvOther,
                history
  <2>2. \A n \in DOMAIN stream : stream'[n] = stream[n]
    BY <1>1, IssuedStream
       DEF Connect, DeliverBacklog, LinkDies, Disconnect, Spawn, RecvOther, server
  <2>3. pc' = pc \/ (pc # "process" /\ pc' \notin {"process", "respond"})
    BY <1>1 DEF ServerIssue, Connect, DeliverBacklog, LinkDies, Disconnect, Spawn, RecvOther,
                Subscribed
  <2>4. QED BY <2>1, <2>2, <2>3, AnswerKept DEF Done
<1>2. CASE RecvNode
  <2>1. /\ pc = "recv" /\ pc' = "process" /\ UNCHANGED <<answers, taken>>
    BY <1>2 DEF RecvNode, history
  <2>2. taken' = {} /\ answers' = << >>
    BY <2>1 DEF AckInv, PassInv, Working
  <2>3. Done' = 0 /\ DOMAIN answers' = {}
    BY <2>1, <2>2, EmptyMap DEF Done
  <2>4. QED BY <2>1, <2>2, <2>3 DEF AnswerInv
<1>3. CASE ProcessItem
  BY <1>3, AnswerProcess
<1>4. CASE Respond
  BY <1>4, AnswerRespond
<1>5. CASE Persist
  <2>1. /\ pc \notin {"process", "respond"} /\ pc' \notin {"process", "respond"}
        /\ UNCHANGED <<stream, answers, node, taken>>
    BY <1>5 DEF Persist, PersistStep, server
  <2>2. QED BY <2>1, AnswerKept DEF Done
<1>6. CASE Emit
  <2>1. node' = << >> /\ taken' = {} /\ answers' = << >>
    BY <1>6 DEF Emit, PassInv
  <2>2. QED BY <2>1, AnswerNone
<1>7. CASE RecvEnd \/ ProcessOverflow \/ RespondFails \/ PersistFails \/ Crash
  <2>1. node' = << >> /\ taken' = {} /\ answers' = << >>
    BY <1>7 DEF RecvEnd, ProcessOverflow, RespondFails, PersistFails, Crash, Ends
  <2>2. QED BY <2>1, AnswerNone
<1>8. QED BY <1>1, <1>2, <1>3, <1>4, <1>5, <1>6, <1>7 DEF Next

\* Items are always answered in the order of their node.
LEMMA AnswerAlways == Spec => []AnswerInv
<1>1. Init => AnswerInv
  <2> SUFFICES ASSUME Init PROVE AnswerInv
    OBVIOUS
  <2>1. node = << >> /\ answers = << >> /\ taken = {} /\ pc = "off"
    BY DEF Init
  <2>2. Done = 0
    BY <2>1 DEF Done
  <2>3. QED BY <2>1, <2>2 DEF AnswerInv
<1>2. PassInv /\ AckInv /\ OrderInv /\ AnswerInv /\ [Next]_vars => AnswerInv'
  <2> SUFFICES ASSUME PassInv, AckInv, OrderInv, AnswerInv, [Next]_vars PROVE AnswerInv'
    OBVIOUS
  <2>1. CASE UNCHANGED vars
    BY <2>1, AnswerKept DEF vars, Done
  <2>2. QED BY <2>1, AnswerStep
<1>3. QED BY <1>1, <1>2, PassAlways, AckAlways, OrderAlways, PTL DEF Spec

\* An item comes after a node if it is one of a sequence that does.
LEMMA BeforeOne ==
  ASSUME NEW items, NEW others, Before(items, others), NEW n \in ToSet(others)
  PROVE  Before(items, << n >>)
<1>1. PICK j \in DOMAIN others : others[j] = n
  BY DEF ToSet
<1>2. DOMAIN << n >> = {1} /\ << n >>[1] = n
  OBVIOUS
<1>3. QED BY <1>1, <1>2 DEF Before

\* What is ahead of the processor stays so when it hears events, and so is what
\* they bring.
LEMMA AheadHear ==
  ASSUME PassInv, OrderInv, NEW events \in Seq(HubEvents), Hear(events), Subscribed,
         node' = node \/ node' = << >>, Open' = Open, NEW n,
         \/ Ahead(n)
         \/ \E l \in DOMAIN events :
              n \in ToSet(events[l].items) /\ Before(node, events[l].items)
  PROVE  Ahead(n)'
<1>1. hub \in Seq(HubEvents)
  BY DEF PassInv
<1>2. Before(node, << n >>) => Before(node', << n >>)
  <2>1. DOMAIN << >> = {}
    BY EmptyMap
  <2>2. QED BY <2>1 DEF Before
<1>3. CASE lagged'
  <2>1. CASE n \in Open
    BY <2>1 DEF Ahead
  <2>2. ASSUME NEW k \in DOMAIN hub, n \in ToSet(hub[k].items)
        PROVE  Before(node, << n >>)
    BY <2>2, BeforeOne DEF OrderInv
  <2>3. ASSUME NEW l \in DOMAIN events, n \in ToSet(events[l].items),
               Before(node, events[l].items)
        PROVE  Before(node, << n >>)
    BY <2>3, BeforeOne
  <2>4. n \notin Open => Before(node, << n >>)
    BY <2>2, <2>3 DEF Ahead
  <2>5. QED BY <1>2, <1>3, <2>1, <2>4 DEF Ahead
<1>4. CASE ~ lagged'
  <2>1. ~ lagged /\ hub' = hub \o events
    BY <1>1, <1>4, HeardAll
  <2>2. /\ \A k \in DOMAIN hub : k \in DOMAIN hub' /\ hub'[k] = hub[k]
        /\ \A l \in DOMAIN events : Len(hub) + l \in DOMAIN hub' /\ hub'[Len(hub) + l] = events[l]
    BY <1>1, <2>1
  <2>3. QED BY <2>1, <2>2 DEF Ahead
<1>5. QED BY <1>3, <1>4

\* So it is for a node.
LEMMA AheadNode ==
  ASSUME PassInv, OrderInv, NEW items \in Seq(Nat), HearNode(items), Subscribed,
         UNCHANGED <<pc, node, answers>>, Before(node, items), NEW n,
         Ahead(n) \/ n \in ToSet(items)
  PROVE  Ahead(n)'
<1>1. PICK e \in HubEvents : e = NodeEvent(items) /\ e.items = items
  <2>1. NodeEvent(items) \in HubEvents /\ NodeEvent(items).items = items
    BY DEF NodeEvent, HubEvents
  <2>2. QED BY <2>1
<1>2. PICK events \in Seq(HubEvents) : events = << e >>
  <2>1. << e >> \in Seq(HubEvents)
    OBVIOUS
  <2>2. QED BY <2>1
<1>3. Hear(events) /\ Open' = Open
  BY <1>1, <1>2 DEF HearNode, Open
<1>4. 1 \in DOMAIN events /\ events[1].items = items
  BY <1>1, <1>2
<1>5. QED BY <1>3, <1>4, AheadHear

\* The backlog has every unanswered item.
LEMMA BacklogAll ==
  ASSUME PassInv, unanswered # {}, NEW items \in InOrder(unanswered)
  PROVE  ToSet(items) = unanswered
<1>1. DOMAIN stream = 1 .. Len(stream) /\ Len(stream) \in Nat
  BY DEF PassInv
<1>2. IsFiniteSet(unanswered)
  <2>1. IsFiniteSet(1 .. Len(stream))
    BY <1>1, FS_Interval
  <2>2. QED BY <1>1, <2>1, FS_Subset DEF PassInv
<1>3. PICK c \in Nat : c = Cardinality(unanswered)
  BY <1>2, FS_CardinalityType
<1>4. /\ items \in [1 .. c -> unanswered]
      /\ \A i, j \in 1 .. c : i < j => items[i] < items[j]
  BY <1>3 DEF InOrder
<1>5. unanswered \subseteq Nat
  BY <1>1 DEF PassInv
<1>6. items \in Injection(1 .. c, unanswered)
  <2>1. ASSUME NEW i \in 1 .. c, NEW j \in 1 .. c, items[i] = items[j]
        PROVE  i = j
    <3>1. items[i] \in Nat /\ items[j] \in Nat
      BY <1>4, <1>5
    <3>2. ~ (i < j) /\ ~ (j < i)
      BY <1>4, <2>1, <3>1
    <3>3. QED BY <3>2
  <2>2. QED BY <1>4, <2>1 DEF Injection, IsInjective
<1>7. IsFiniteSet(1 .. c) /\ Cardinality(1 .. c) = c
  BY FS_Interval
<1>8. items \in Surjection(1 .. c, unanswered)
  BY <1>2, <1>3, <1>6, <1>7, FS_Injection
<1>9. QED BY <1>4, <1>8 DEF Surjection, ToSet

\* Steps of the server and of the connection.
LEMMA ServerNetwork ==
  ASSUME PassInv, AckInv, OrderInv, ServerInv,
         ServerIssue \/ Connect \/ DeliverBacklog \/ LinkDies \/ Disconnect
  PROVE  ServerInv'
<1>1. CASE ServerIssue
  <2>1. PICK n : /\ n = Len(stream) /\ n \in Nat /\ Len(stream') = n + 1
                 /\ DOMAIN stream = 1 .. n /\ DOMAIN stream' = 1 .. n + 1
    BY <1>1, IssuedStream
  <2>2. /\ unanswered' = unanswered \cup {n + 1} /\ UNCHANGED <<pc, node, answers, link>>
        /\ Subscribed' <=> Subscribed
    BY <1>1, <2>1 DEF ServerIssue, network, Subscribed
  <2>3. missed \subseteq missed'
    BY <1>1 DEF ServerIssue, HearNode, queue
  <2>4. ASSUME NEW i \in DOMAIN stream', NEW j \in DOMAIN stream', i < j, i \in unanswered'
        PROVE  i \in missed' \/ j \in unanswered'
    <3>1. CASE j = n + 1
      BY <2>2, <3>1
    <3>2. CASE j # n + 1
      <4>1. i \in DOMAIN stream /\ j \in DOMAIN stream /\ i # n + 1
        BY <2>1, <2>4, <3>2
      <4>2. QED BY <2>2, <2>3, <2>4, <4>1 DEF ServerInv
    <3>3. QED BY <3>1, <3>2
  <2>5. CASE link = "up"
    <3>1. PICK items \in Seq(Nat) : items = << n + 1 >>
      <4>1. << n + 1 >> \in Seq(Nat)
        BY <2>1
      <4>2. QED BY <4>1
    <3>2. HearNode(items) /\ ToSet(items) = {n + 1}
      BY <1>1, <2>1, <2>5, <3>1 DEF ServerIssue, ToSet
    <3>3. Before(node, items)
      BY <2>1, <3>1, BeforeNew DEF PassInv
    <3>4. pc = "off" => unanswered' \subseteq missed'
      BY <2>2, <2>3, <2>5, <3>2 DEF ServerInv, HearNode
    <3>5. ASSUME Subscribed, NEW m \in unanswered' \ missed'
          PROVE  Ahead(m)'
      <4>1. Ahead(m) \/ m \in ToSet(items)
        BY <2>2, <2>3, <2>5, <3>2, <3>5 DEF ServerInv
      <4>2. QED BY <2>2, <3>2, <3>3, <3>5, <4>1, AheadNode
    <3>6. QED BY <2>2, <2>4, <3>4, <3>5 DEF ServerInv
  <2>6. CASE link # "up"
    BY <2>2, <2>4, <2>6 DEF ServerInv
  <2>7. QED BY <2>5, <2>6
<1>2. CASE Connect
  <2>1. link' = "opening" /\ UNCHANGED <<stream, unanswered, missed>>
    BY <1>2 DEF Connect, server, queue
  <2>2. QED BY <2>1 DEF ServerInv
<1>3. CASE DeliverBacklog
  <2>1. /\ link = "opening" /\ link' = "up"
        /\ UNCHANGED <<stream, unanswered, pc, node, answers>> /\ missed \subseteq missed'
        /\ Subscribed' <=> Subscribed
    BY <1>3 DEF DeliverBacklog, server, queue, HearNode, Subscribed
  <2>2. CASE unanswered = {}
    BY <2>1, <2>2 DEF ServerInv
  <2>3. CASE unanswered # {}
    <3>1. PICK items \in InOrder(unanswered) : HearNode(items)
      BY <1>3, <2>3 DEF DeliverBacklog
    <3>2. items \in Seq(Nat) /\ ToSet(items) = unanswered
      BY <2>3, BacklogItems, BacklogAll
    <3>3. pc = "off" => unanswered' \subseteq missed'
      BY <2>1, <3>1, <3>2 DEF HearNode
    <3>4. ASSUME Subscribed, NEW m \in unanswered' \ missed'
          PROVE  Ahead(m)'
      <4>1. node = << >>
        BY <2>1, <3>4 DEF OrderInv, AckInv, Working
      <4>2. Before(node, items)
        BY <4>1, EmptyMap DEF Before
      <4>3. m \in ToSet(items)
        BY <2>1, <3>2
      <4>4. QED BY <2>1, <3>1, <3>2, <3>4, <4>2, <4>3, AheadNode
    <3>5. QED BY <2>1, <3>3, <3>4 DEF ServerInv
  <2>4. QED BY <2>2, <2>3
<1>4. CASE LinkDies \/ Disconnect
  <2>1. link' \in {"dead", "down"} /\ UNCHANGED <<stream, unanswered, missed>>
    BY <1>4 DEF LinkDies, Disconnect, server, queue
  <2>2. QED BY <2>1 DEF ServerInv
<1>5. QED BY <1>1, <1>2, <1>3, <1>4

\* Until the processor answers, nothing has an answer but for another node.
LEMMA ServerSame ==
  ASSUME ServerInv, UNCHANGED <<stream, unanswered, missed, link>>,
         link = "up" => pc' # "off",
         link = "up" /\ Subscribed' => Subscribed \/ unanswered \subseteq missed,
         \A n : Ahead(n) => Ahead(n)'
  PROVE  ServerInv'
BY DEF ServerInv

\* The items that are to be answered: all of the node, until the first answer.
LEMMA OpenRest ==
  ASSUME PassInv, OrderInv, AnswerInv, pc = "respond"
  PROVE  /\ Head(answers).item \in Nat
         /\ \A n \in Open : n \in Nat /\ n >= Head(answers).item
         /\ \A n : Before(node, << n >>) => Head(answers).item < n
<1>1. PICK a, m : a = Len(answers) /\ m = Len(node) /\ a \in Nat \ {0} /\ m \in Nat /\ a <= m
  <2>1. answers # << >> /\ Len(answers) \in Nat /\ Len(node) \in Nat /\ Len(answers) <= Len(node)
    BY DEF PassInv, AnswerInv
  <2>2. Len(answers) # 0
    BY <2>1 DEF PassInv
  <2>3. QED BY <2>1, <2>2
<1>2. /\ DOMAIN answers = 1 .. a /\ DOMAIN node = 1 .. m /\ \A i \in 1 .. m : node[i] \in Nat
      /\ Head(answers) = answers[1]
  BY <1>1 DEF PassInv
<1>3. \A i \in 1 .. a : answers[i].item = node[m - a + i] /\ m - a + i \in 1 .. m
  <2>1. \A i \in DOMAIN answers : answers[i].item = node[Len(node) - Len(answers) + i]
    BY DEF AnswerInv
  <2>2. \A i \in 1 .. a : answers[i].item = node[m - a + i]
    BY <1>1, <1>2, <2>1
  <2>3. \A i \in 1 .. a : m - a + i \in 1 .. m
    BY <1>1
  <2>4. QED BY <2>2, <2>3
<1>4. \A i \in 1 .. m, j \in 1 .. m : i < j => node[i] < node[j]
  BY <1>2 DEF OrderInv, Increasing
<1>5. ASSUME NEW i \in 1 .. a
      PROVE  answers[i].item \in Nat /\ answers[i].item >= answers[1].item
  <2>1. CASE i = 1
    BY <1>1, <1>2, <1>3, <2>1
  <2>2. CASE i # 1
    <3>1. m - a + 1 < m - a + i /\ m - a + 1 \in 1 .. m /\ m - a + i \in 1 .. m
      BY <1>1, <2>2
    <3>2. PICK x \in Nat, y \in Nat : x = node[m - a + 1] /\ y = node[m - a + i]
      BY <1>2, <3>1
    <3>3. x < y
      BY <1>4, <3>1, <3>2
    <3>4. 1 \in 1 .. a
      BY <1>1
    <3>5. answers[1].item = node[m - a + 1] /\ answers[i].item = node[m - a + i]
      BY <1>3, <3>4
    <3>6. QED BY <3>2, <3>3, <3>5
  <2>3. QED BY <2>1, <2>2
<1>6. Open = {answers[i].item : i \in 1 .. a}
  BY <1>2 DEF Open
<1>7. ASSUME NEW n, Before(node, << n >>)
      PROVE  answers[1].item < n
  <2>1. DOMAIN << n >> = {1} /\ << n >>[1] = n
    OBVIOUS
  <2>2. 1 \in 1 .. a /\ m - a + 1 \in DOMAIN node
    BY <1>1, <1>2
  <2>3. answers[1].item = node[m - a + 1]
    BY <1>3, <2>2
  <2>4. QED BY <1>7, <2>1, <2>2, <2>3 DEF Before
<1>8. answers[1].item \in Nat
  BY <1>1, <1>5
<1>9. QED BY <1>2, <1>5, <1>6, <1>7, <1>8

\* The server learns that the first item has arrived: every older one that is still
\* without an answer was missed.
LEMMA ServerAnswered ==
  ASSUME PassInv, OrderInv, AnswerInv, ServerInv, Respond
  PROVE  ServerInv'
<1> DEFINE h == Head(answers).item
<1>1. /\ pc = "respond" /\ pc' # "off" /\ link # "down" /\ answers' = Tail(answers)
      /\ unanswered' = IF link = "dead" THEN unanswered ELSE unanswered \ {h}
      /\ UNCHANGED <<stream, missed, link, hub, lagged, node>>
      /\ pc' \in {"respond", "messages"}
  BY DEF Respond, queue, network
<1>2. CASE link = "dead"
  BY <1>1, <1>2 DEF ServerInv
<1>3. CASE link # "dead"
  <2>1. link = "up" /\ Subscribed
    BY <1>1, <1>3 DEF ServerInv, OrderInv, Subscribed
  <2>2. h \in Nat /\ \A n : Ahead(n) => n \in Open \/ h < n
    <3>1. ASSUME NEW k \in DOMAIN hub, NEW n \in ToSet(hub[k].items)
          PROVE  Before(node, << n >>)
      BY BeforeOne DEF OrderInv
    <3>2. QED BY <1>1, <3>1, OpenRest DEF Ahead
  <2>3. ASSUME NEW m \in DOMAIN stream, NEW n \in DOMAIN stream, m < n, m \in unanswered',
               m \notin missed'
        PROVE  n \in unanswered'
    <3>1. m \in unanswered /\ m \notin missed /\ n \in unanswered
      BY <1>1, <2>3 DEF ServerInv
    <3>2. m \in Nat /\ n \in Nat
      BY DEF PassInv
    <3>3. m \in Open \/ h < m
      BY <2>1, <2>2, <3>1 DEF ServerInv
    <3>4. h <= m
      BY <1>1, <2>2, <3>2, <3>3, OpenRest
    <3>5. n # h
      BY <2>2, <2>3, <3>2, <3>4
    <3>6. QED BY <1>1, <3>1, <3>5
  <2>4. ASSUME NEW n \in unanswered' \ missed'
        PROVE  Ahead(n)'
    <3>1. Ahead(n) /\ n # h
      BY <1>1, <1>3, <2>1, <2>4 DEF ServerInv
    <3>2. CASE n \in Open
      <4>1. PICK i \in DOMAIN answers : n = answers[i].item
        BY <1>1, <3>2 DEF Open
      <4>2. answers # << >> /\ answers \in Seq([item : Nat, ok : BOOLEAN])
        BY <1>1 DEF PassInv
      <4>3. i # 1
        BY <3>1, <4>1, <4>2
      <4>4. i - 1 \in DOMAIN answers' /\ answers'[i - 1] = answers[i]
        BY <1>1, <4>2, <4>3
      <4>5. n \in Open'
        BY <1>1, <4>1, <4>4 DEF Open
      <4>6. QED BY <4>5 DEF Ahead
    <3>3. CASE n \notin Open
      BY <1>1, <3>1, <3>3 DEF Ahead
    <3>4. QED BY <3>2, <3>3
  <2>5. QED BY <1>1, <2>1, <2>3, <2>4 DEF ServerInv
<1>4. QED BY <1>2, <1>3

\* The next node is all to be answered, and every other event is still in the hub.
LEMMA ServerRecv ==
  ASSUME PassInv, ServerInv, RecvNode \/ RecvOther
  PROVE  ServerInv'
<1>1. /\ pc = "recv" /\ pc' \in {"recv", "process"} /\ ~ lagged /\ hub # << >>
      /\ hub' = Tail(hub) /\ answers = << >>
      /\ UNCHANGED <<stream, unanswered, missed, link, lagged, answers>>
  BY DEF RecvNode, RecvOther, server, network, PassInv
<1>2. Open = {}
  BY <1>1, EmptyMap DEF Open
<1>3. ASSUME NEW n, NEW k \in DOMAIN hub, n \in ToSet(hub[k].items), k # 1
      PROVE  \E l \in DOMAIN hub' : n \in ToSet(hub'[l].items)
  <2>1. hub \in Seq(HubEvents)
    BY DEF PassInv
  <2>2. k - 1 \in DOMAIN hub' /\ hub'[k - 1] = hub[k]
    BY <1>1, <1>3, <2>1
  <2>3. QED BY <1>3, <2>2
<1>4. ASSUME NEW n, n \in ToSet(hub[1].items)
      PROVE  n \in Open'
  <2>1. CASE RecvNode
    <3>1. pc' = "process" /\ node' = hub[1].items
      BY <1>1, <2>1, HubHead DEF RecvNode
    <3>2. QED BY <1>4, <3>1 DEF Open
  <2>2. CASE RecvOther
    <3>1. hub[1].items = << >>
      BY <1>1, <2>2, HubHead DEF RecvOther, OtherEvent
    <3>2. QED BY <1>4, <3>1, EmptyMap DEF ToSet
  <2>3. QED BY <2>1, <2>2
<1>5. \A n : Ahead(n) => Ahead(n)'
  BY <1>1, <1>2, <1>3, <1>4 DEF Ahead
<1>6. QED BY <1>1, <1>5, ServerSame DEF Subscribed

\* What the processor does leaves what is ahead of it.
LEMMA ServerProcessor ==
  ASSUME PassInv, PassInv', AckInv, OrderInv, AnswerInv, AnswerInv', ServerInv,
         \/ Spawn \/ RecvEnd \/ RecvNode \/ RecvOther \/ ProcessItem \/ ProcessOverflow
         \/ Respond \/ RespondFails \/ Persist \/ PersistFails \/ Emit \/ Crash
  PROVE  ServerInv'
<1>1. CASE Spawn
  <2>1. pc = "off" /\ pc' = "recv" /\ UNCHANGED <<stream, unanswered, missed, link>>
    BY <1>1 DEF Spawn, server, network
  <2>2. QED BY <2>1 DEF ServerInv
<1>2. CASE RecvNode \/ RecvOther
  BY <1>2, ServerRecv
<1>3. CASE ProcessItem
  <2>1. /\ pc = "process" /\ pc' \in {"process", "respond"}
        /\ UNCHANGED <<stream, unanswered, missed, link, hub, lagged, node>>
    BY <1>3 DEF ProcessItem, server, network
  <2>2. Open' = Open
    <3>1. CASE pc' = "process"
      BY <2>1, <3>1 DEF Open
    <3>2. CASE pc' = "respond"
      <4>1. PICK a, m : a = Len(answers) /\ m = Len(node) /\ a \in Nat /\ m \in Nat /\ a + 1 = m
        BY <1>3, <3>2, AtLast
      <4>2. Len(answers') = m /\ DOMAIN answers' = 1 .. m /\ DOMAIN node = 1 .. m
        <5>1. PICK answer : answers' = Append(answers, answer)
          BY <1>3 DEF ProcessItem
        <5>2. answers' \in Seq([item : Nat, ok : BOOLEAN]) /\ node \in Seq(Nat)
          BY DEF PassInv
        <5>3. Len(answers') = Len(answers) + 1
          BY <5>1 DEF PassInv
        <5>4. QED BY <4>1, <5>2, <5>3
      <4>3. \A i \in 1 .. m : answers'[i].item = node[i]
        <5>1. \A i \in 1 .. m : answers'[i].item = node'[Len(node') - Len(answers') + i]
          BY <3>2, <4>2 DEF AnswerInv
        <5>2. \A i \in 1 .. m : Len(node') - Len(answers') + i = i
          BY <2>1, <4>1, <4>2
        <5>3. QED BY <2>1, <5>1, <5>2
      <4>4. QED BY <2>1, <3>2, <4>2, <4>3 DEF Open, ToSet
    <3>3. QED BY <2>1, <3>1, <3>2
  <2>3. \A n : Ahead(n) => Ahead(n)'
    BY <2>1, <2>2 DEF Ahead
  <2>4. QED BY <2>1, <2>3, ServerSame DEF Subscribed
<1>4. CASE Respond
  BY <1>4, ServerAnswered
<1>5. CASE Persist
  <2>1. /\ pc \in {"messages", "state", "interactions"}
        /\ pc' \in {"state", "interactions", "effects"}
        /\ UNCHANGED <<stream, unanswered, missed, link, hub, lagged, node, answers>>
    BY <1>5 DEF Persist, PersistStep, server, network, queue
  <2>2. \A n : Ahead(n) => Ahead(n)'
    BY <2>1 DEF Ahead, Open
  <2>3. QED BY <2>1, <2>2, ServerSame DEF Subscribed
<1>6. CASE Emit
  <2> DEFINE grouped == [batch EXCEPT !.immediate = << >>] # EmptyBatch
             events == [i \in 1..(Len(batch.immediate) + IF grouped THEN 1 ELSE 0) |->
                          OtherEvent]
  <2>1. /\ Hear(events) /\ pc = "effects" /\ pc' = "recv" /\ node' = << >>
        /\ UNCHANGED <<stream, unanswered, missed, link, answers>>
    BY <1>6 DEF Emit, server, network
  <2>2. events \in Seq(HubEvents)
    <3>1. events \in Seq({ClosedEvent, OtherEvent})
      OBVIOUS
    <3>2. {ClosedEvent, OtherEvent} \subseteq HubEvents
      BY DEF ClosedEvent, OtherEvent, HubEvents
    <3> HIDE DEF events
    <3>3. QED BY <3>1, <3>2
  <2> HIDE DEF events
  <2>3. Open' = Open /\ Subscribed /\ Subscribed'
    BY <2>1 DEF Open, Subscribed
  <2>4. \A n : Ahead(n) => Ahead(n)'
    BY <2>1, <2>2, <2>3, AheadHear
  <2>5. QED BY <2>1, <2>3, <2>4, ServerSame
<1>7. CASE RecvEnd \/ ProcessOverflow \/ RespondFails \/ PersistFails
  <2>1. pc' = "ended" /\ UNCHANGED <<stream, unanswered, missed, link>>
    BY <1>7 DEF RecvEnd, ProcessOverflow, RespondFails, PersistFails, Ends, server, network
  <2>2. QED BY <2>1 DEF ServerInv, Subscribed
<1>8. CASE Crash
  <2>1. link' = "down" /\ UNCHANGED <<stream, unanswered, missed>>
    BY <1>8 DEF Crash, Ends, server
  <2>2. QED BY <2>1 DEF ServerInv
<1>9. QED BY <1>1, <1>2, <1>3, <1>4, <1>5, <1>6, <1>7, <1>8

\* What the server has no answer for is always ahead or was missed.
LEMMA ServerAlways == Spec => []ServerInv
<1>1. Init => ServerInv
  BY DEF Init, ServerInv
<1>2. PassInv /\ PassInv' /\ AckInv /\ OrderInv /\ AnswerInv /\ AnswerInv' /\ ServerInv
        /\ [Next]_vars => ServerInv'
  <2> SUFFICES ASSUME PassInv, PassInv', AckInv, OrderInv, AnswerInv, AnswerInv', ServerInv,
                      [Next]_vars
               PROVE  ServerInv'
    OBVIOUS
  <2>1. CASE UNCHANGED vars
    <3>1. UNCHANGED <<stream, unanswered, missed, link, hub, lagged, node, answers, pc>>
      BY <2>1 DEF vars
    <3>2. \A n : Ahead(n) => Ahead(n)'
      BY <3>1 DEF Ahead, Open
    <3>3. link = "up" => pc' # "off" \/ unanswered \subseteq missed
      BY <3>1 DEF ServerInv
    <3>4. QED BY <3>1, <3>2 DEF ServerInv, Subscribed
  <2>2. QED BY <2>1, ServerNetwork, ServerProcessor DEF Next
<1>3. QED BY <1>1, <1>2, PassAlways, AckAlways, OrderAlways, AnswerAlways, PTL DEF Spec

-----------------------------------------------------------------------------
(* What is stored.                                                          *)

\* No node brings nothing again.
LEMMA WholeNone ==
  ASSUME NEW gone, NEW stored
  PROVE  Whole(<< >>, gone, stored)
BY EmptyMap DEF Whole, ToSet

\* Events that are heard leave the nodes whole if they are.
LEMMA WholeHear ==
  ASSUME PassInv, WholeInv, NEW events \in Seq(HubEvents), Hear(events),
         \A l \in DOMAIN events : Whole(events[l].items, missed', kept),
         missed \subseteq missed', kept' = kept, node' = node \/ node' = << >>
  PROVE  WholeInv'
<1>1. hub \in Seq(HubEvents)
  BY DEF PassInv
<1>2. \A k \in DOMAIN hub' : \/ \E j \in DOMAIN hub : hub'[k] = hub[j]
                             \/ \E j \in DOMAIN events : hub'[k] = events[j]
  BY <1>1, Heard
<1>3. \A k \in DOMAIN hub : Whole(hub[k].items, missed', kept)
  BY DEF WholeInv, Whole
<1>4. Whole(node', missed', kept)
  BY WholeNone DEF WholeInv, Whole
<1>5. \A k \in DOMAIN hub' : Whole(hub'[k].items, missed', kept')
  BY <1>2, <1>3
<1>6. QED BY <1>4, <1>5 DEF WholeInv

\* So does a node.
LEMMA WholeNode ==
  ASSUME PassInv, WholeInv, NEW items \in Seq(Nat), HearNode(items),
         Whole(items, missed', kept), UNCHANGED <<kept, node>>
  PROVE  WholeInv'
<1>1. PICK e \in HubEvents : e = NodeEvent(items) /\ e.items = items
  <2>1. NodeEvent(items) \in HubEvents /\ NodeEvent(items).items = items
    BY DEF NodeEvent, HubEvents
  <2>2. QED BY <2>1
<1>2. PICK events \in Seq(HubEvents) : events = << e >>
  <2>1. << e >> \in Seq(HubEvents)
    OBVIOUS
  <2>2. QED BY <2>1
<1>3. Hear(events) /\ missed \subseteq missed'
  BY <1>1, <1>2 DEF HearNode
<1>4. \A l \in DOMAIN events : Whole(events[l].items, missed', kept)
  BY <1>1, <1>2
<1>5. QED BY <1>3, <1>4, WholeHear

\* Events that are no nodes bring nothing again.
LEMMA WholeOthers ==
  ASSUME PassInv, WholeInv, NEW events \in Seq({ClosedEvent, OtherEvent}), Hear(events),
         UNCHANGED <<missed, kept>>, node' = node \/ node' = << >>
  PROVE  WholeInv'
<1>1. events \in Seq(HubEvents)
  <2>1. {ClosedEvent, OtherEvent} \subseteq HubEvents
    BY DEF ClosedEvent, OtherEvent, HubEvents
  <2>2. QED BY <2>1
<1>2. \A l \in DOMAIN events : events[l].items = << >>
  BY DEF ClosedEvent, OtherEvent
<1>3. \A l \in DOMAIN events : Whole(events[l].items, missed', kept)
  BY <1>2, WholeNone
<1>4. QED BY <1>1, <1>3, WholeHear

\* The backlog brings all that is unanswered, so every node stays whole.
LEMMA WholeStep ==
  ASSUME PassInv, AckInv, OrderInv, ServerInv, WholeInv, Next
  PROVE  WholeInv'
<1>1. CASE ServerIssue
  <2>1. UNCHANGED <<kept, node>>
    BY <1>1 DEF ServerIssue, history
  <2>2. CASE link = "up"
    <3>1. PICK n : n = Len(stream) /\ n \in Nat /\ Len(stream') = n + 1 /\ DOMAIN stream = 1 .. n
      BY <1>1, IssuedStream
    <3>2. PICK items \in Seq(Nat) : items = << n + 1 >>
      <4>1. << n + 1 >> \in Seq(Nat)
        BY <3>1
      <4>2. QED BY <4>1
    <3>3. HearNode(items)
      BY <1>1, <2>2, <3>1, <3>2 DEF ServerIssue
    <3>4. ToSet(items) = {n + 1} /\ \A k \in kept : ~ (k > n + 1)
      BY <3>1, <3>2 DEF ToSet, OrderInv
    <3>5. Whole(items, missed', kept)
      BY <3>4 DEF Whole
    <3>6. QED BY <2>1, <3>3, <3>5, WholeNode
  <2>3. CASE link # "up"
    BY <1>1, <2>1, <2>3 DEF ServerIssue, queue, WholeInv
  <2>4. QED BY <2>2, <2>3
<1>2. CASE DeliverBacklog
  <2>1. UNCHANGED <<kept, node>>
    BY <1>2 DEF DeliverBacklog, history
  <2>2. CASE unanswered = {}
    BY <1>2, <2>1, <2>2 DEF DeliverBacklog, queue, WholeInv
  <2>3. CASE unanswered # {}
    <3>1. PICK items \in InOrder(unanswered) : HearNode(items)
      BY <1>2, <2>3 DEF DeliverBacklog
    <3>2. items \in Seq(Nat) /\ ToSet(items) = unanswered
      BY <2>3, BacklogItems, BacklogAll
    <3>3. \A m \in unanswered \ missed, n \in kept : n > m => n \in unanswered
      <4>1. \A m \in unanswered, n \in kept :
              m \in DOMAIN stream /\ n \in DOMAIN stream /\ m \in Nat /\ n \in Nat
        BY DEF PassInv, OrderInv
      <4>2. QED BY <4>1 DEF ServerInv
    <3>4. missed \subseteq missed'
      BY <3>1 DEF HearNode
    <3>5. Whole(items, missed', kept)
      BY <3>2, <3>3, <3>4 DEF Whole
    <3>6. QED BY <2>1, <3>1, <3>2, <3>5, WholeNode
  <2>4. QED BY <2>2, <2>3
<1>3. CASE Connect \/ LinkDies \/ ProcessItem \/ Respond
  <2>1. UNCHANGED <<hub, missed, kept, node>>
    BY <1>3 DEF Connect, LinkDies, ProcessItem, Respond, queue, history
  <2>2. QED BY <2>1 DEF WholeInv
<1>4. CASE Disconnect
  <2>1. << ClosedEvent >> \in Seq({ClosedEvent, OtherEvent})
    OBVIOUS
  <2>2. Hear(<< ClosedEvent >>) /\ UNCHANGED <<missed, kept, node>>
    BY <1>4 DEF Disconnect, history
  <2>3. QED BY <2>1, <2>2, WholeOthers
<1>5. CASE Spawn
  <2>1. hub' = << >> /\ UNCHANGED <<missed, kept, node>>
    BY <1>5 DEF Spawn
  <2>2. QED BY <2>1, EmptyMap DEF WholeInv
<1>6. CASE RecvNode \/ RecvOther
  <2>1. /\ hub # << >> /\ hub' = Tail(hub) /\ UNCHANGED <<missed, kept>>
        /\ node' = node \/ node' = Head(hub).items
    BY <1>6 DEF RecvNode, RecvOther, history
  <2>2. /\ Head(hub) = hub[1] /\ 1 \in DOMAIN hub
        /\ \A k \in DOMAIN Tail(hub) : k + 1 \in DOMAIN hub /\ Tail(hub)[k] = hub[k + 1]
    BY <2>1, HubHead
  <2>3. QED BY <2>1, <2>2 DEF WholeInv
<1>7. CASE Persist
  <2>1. UNCHANGED <<hub, missed, node>> /\ kept' \subseteq kept \cup taken
    BY <1>7 DEF Persist, PersistStep, queue
  <2>2. Whole(node, missed, kept')
    BY <2>1 DEF Whole, WholeInv, AckInv
  <2>3. ASSUME NEW k \in DOMAIN hub
        PROVE  Whole(hub[k].items, missed, kept')
    <3>1. Before(node, hub[k].items) /\ Whole(hub[k].items, missed, kept)
      BY DEF OrderInv, WholeInv
    <3>2. hub[k].items \in Seq(Nat) /\ node \in Seq(Nat)
      <4>1. hub[k] \in HubEvents /\ node \in Seq(Nat)
        BY DEF PassInv
      <4>2. QED BY <4>1 DEF HubEvents
    <3>3. ASSUME NEW m \in ToSet(hub[k].items), NEW n \in ToSet(node)
          PROVE  ~ (n > m)
      <4>1. PICK i \in DOMAIN node : node[i] = n
        BY DEF ToSet
      <4>2. PICK j \in DOMAIN hub[k].items : hub[k].items[j] = m
        BY DEF ToSet
      <4>3. n < m /\ n \in Nat /\ m \in Nat
        BY <3>1, <3>2, <4>1, <4>2 DEF Before
      <4>4. QED BY <4>3
    <3>4. QED BY <2>1, <3>1, <3>3 DEF Whole, AckInv
  <2>4. QED BY <2>1, <2>2, <2>3 DEF WholeInv
<1>8. CASE Emit
  <2> DEFINE grouped == [batch EXCEPT !.immediate = << >>] # EmptyBatch
             events == [i \in 1..(Len(batch.immediate) + IF grouped THEN 1 ELSE 0) |->
                          OtherEvent]
  <2>1. Hear(events) /\ node' = << >> /\ UNCHANGED <<missed, kept>>
    BY <1>8 DEF Emit
  <2>2. events \in Seq({ClosedEvent, OtherEvent})
    OBVIOUS
  <2> HIDE DEF events
  <2>3. QED BY <2>1, <2>2, WholeOthers
<1>9. CASE RecvEnd \/ ProcessOverflow \/ RespondFails \/ PersistFails \/ Crash
  <2>1. hub' = << >> /\ node' = << >>
    BY <1>9 DEF RecvEnd, ProcessOverflow, RespondFails, PersistFails, Crash, Ends
  <2>2. QED BY <2>1, EmptyMap, WholeNone DEF WholeInv
<1>10. QED BY <1>1, <1>2, <1>3, <1>4, <1>5, <1>6, <1>7, <1>8, <1>9 DEF Next

\* No node ever brings an old item without the newer ones that were stored.
LEMMA WholeAlways == Spec => []WholeInv
<1>1. Init => WholeInv
  BY EmptyMap, WholeNone DEF Init, WholeInv
<1>2. PassInv /\ AckInv /\ OrderInv /\ ServerInv /\ WholeInv /\ [Next]_vars => WholeInv'
  <2> SUFFICES ASSUME PassInv, AckInv, OrderInv, ServerInv, WholeInv, [Next]_vars
               PROVE  WholeInv'
    OBVIOUS
  <2>1. CASE UNCHANGED vars
    BY <2>1 DEF vars, WholeInv
  <2>2. QED BY <2>1, WholeStep
<1>3. QED BY <1>1, <1>2, PassAlways, AckAlways, OrderAlways, ServerAlways, PTL DEF Spec

-----------------------------------------------------------------------------
(* What is in hand for a record, and what is stored.                        *)

\* Receipts and contacts come in the clear, one in an item; each value is the number
\* of its item.
InTheClear(item, n) ==
  \/ item.batch.receipts = << >> /\ item.batch.contacts = << >>
  \/ /\ ~ item.sealed /\ item.batch.contacts = << >>
     /\ \E r \in ReceiptKeys : item.batch.receipts = Entry(r, n)
  \/ /\ ~ item.sealed /\ item.batch.receipts = << >>
     /\ \E c \in ContactKeys, f \in Fields : item.batch.contacts = Entry(c, Entry(f, n))

\* So is every item that is issued.
LEMMA ItemInTheClear ==
  ASSUME NEW n, NEW item \in MessageItems(n) \cup OtherItems(n)
  PROVE  InTheClear(item, n)
<1>1. ASSUME NEW s, NEW k, item = Message(n, s, k)
      PROVE  item.batch.receipts = << >> /\ item.batch.contacts = << >>
  BY <1>1 DEF Message, Item, EmptyBatch
<1>2. ASSUME NEW k, NEW j, NEW f, item = Edit(n, k, j, f)
      PROVE  item.batch.receipts = << >> /\ item.batch.contacts = << >>
  BY <1>2 DEF Edit, Message, Item, EmptyBatch
<1>3. ASSUME NEW k, NEW j, item = Revocation(n, k, j)
      PROVE  item.batch.receipts = << >> /\ item.batch.contacts = << >>
  BY <1>3 DEF Revocation, Message, Item, EmptyBatch
<1>4. ASSUME NEW r \in ReceiptKeys, item = Receipt(n, r)
      PROVE  /\ ~ item.sealed /\ item.batch.contacts = << >>
             /\ item.batch.receipts = Entry(r, n)
  BY <1>4 DEF Receipt, Item, EmptyBatch
<1>5. ASSUME NEW c \in ContactKeys, NEW f \in Fields, item = Notification(n, c, f)
      PROVE  /\ ~ item.sealed /\ item.batch.receipts = << >>
             /\ item.batch.contacts = Entry(c, Entry(f, n))
  BY <1>5 DEF Notification, Item, EmptyBatch
<1>6. CASE item \in MessageItems(n)
  <2>1. \/ \E s, k : item = Message(n, s, k)
        \/ \E k, j, f : item = Edit(n, k, j, f)
        \/ \E k, j : item = Revocation(n, k, j)
    BY <1>6 DEF MessageItems
  <2>2. QED BY <1>1, <1>2, <1>3, <2>1, Zenon DEF InTheClear
<1>7. CASE item \in OtherItems(n)
  <2>1. \/ \E r \in ReceiptKeys : item = Receipt(n, r)
        \/ \E c \in ContactKeys, f \in Fields : item = Notification(n, c, f)
    BY <1>7 DEF OtherItems
  <2>2. CASE \E r \in ReceiptKeys : item = Receipt(n, r)
    BY <1>4, <2>2, Zenon DEF InTheClear
  <2>3. CASE \E c \in ContactKeys, f \in Fields : item = Notification(n, c, f)
    BY <1>5, <2>3, Zenon DEF InTheClear
  <2>4. QED BY <2>1, <2>2, <2>3
<1>8. QED BY <1>6, <1>7

\* What the entries of such an item are.
LEMMA ClearItem ==
  ASSUME NEW item, NEW n, InTheClear(item, n)
  PROVE  /\ \A r \in DOMAIN item.batch.receipts :
              r \in ReceiptKeys /\ item.batch.receipts[r] = n /\ ~ item.sealed
         /\ \A c \in DOMAIN item.batch.contacts :
              /\ c \in ContactKeys /\ ~ item.sealed
              /\ \A f \in DOMAIN item.batch.contacts[c] :
                   f \in Fields /\ item.batch.contacts[c][f] = n
<1> DEFINE b == item.batch
<1>1. DOMAIN << >> = {}
  BY EmptyMap
<1>2. CASE b.receipts = << >> /\ b.contacts = << >>
  BY <1>1, <1>2
<1>3. CASE /\ ~ item.sealed /\ b.contacts = << >>
           /\ \E r \in ReceiptKeys : b.receipts = Entry(r, n)
  <2>1. PICK r \in ReceiptKeys : b.receipts = Entry(r, n)
    BY <1>3
  <2>2. DOMAIN b.receipts = {r} /\ b.receipts[r] = n
    BY <2>1 DEF Entry
  <2>3. QED BY <1>1, <1>3, <2>2
<1>4. CASE /\ ~ item.sealed /\ b.receipts = << >>
           /\ \E c \in ContactKeys, f \in Fields : b.contacts = Entry(c, Entry(f, n))
  <2>1. PICK c \in ContactKeys, f \in Fields : b.contacts = Entry(c, Entry(f, n))
    BY <1>4
  <2>2. DOMAIN b.contacts = {c} /\ b.contacts[c] = Entry(f, n)
    BY <2>1 DEF Entry
  <2>3. DOMAIN Entry(f, n) = {f} /\ Entry(f, n)[f] = n
    BY DEF Entry
  <2>4. QED BY <1>1, <1>4, <2>2, <2>3
<1>5. QED BY <1>2, <1>3, <1>4 DEF InTheClear

\* What the entries of an issued item are.
LEMMA ItemContents ==
  ASSUME OrderInv, NEW n \in DOMAIN stream
  PROVE  /\ \A r \in DOMAIN stream[n].batch.receipts :
              /\ r \in ReceiptKeys /\ ~ stream[n].sealed
              /\ stream[n].batch.receipts[r] = n
         /\ \A c \in DOMAIN stream[n].batch.contacts :
              /\ c \in ContactKeys /\ ~ stream[n].sealed
              /\ \A f \in DOMAIN stream[n].batch.contacts[c] :
                   f \in Fields /\ stream[n].batch.contacts[c][f] = n
<1>1. stream[n] \in MessageItems(n) \cup OtherItems(n)
  BY DEF OrderInv
<1>2. InTheClear(stream[n], n)
  BY <1>1, ItemInTheClear
<1>3. QED BY <1>2, ClearItem

\* At key, result is add written over old.
Overlays(result, add, old, key) ==
  /\ key \in DOMAIN result <=> key \in DOMAIN add \cup DOMAIN old
  /\ key \in DOMAIN add => result[key] = add[key]
  /\ key \in DOMAIN old \ DOMAIN add => result[key] = old[key]

\* Writing a map over another overlays it at each key.
LEMMA OverOverlays ==
  ASSUME NEW add, NEW old, NEW key
  PROVE  Overlays(Over(add, old), add, old, key)
<1> DEFINE all == Over(add, old)
<1>1. /\ DOMAIN all = DOMAIN add \cup DOMAIN old
      /\ \A k \in DOMAIN add : all[k] = add[k]
      /\ \A k \in DOMAIN old \ DOMAIN add : all[k] = old[k]
  BY DEF Over
<1> HIDE DEF all
<1>2. Overlays(all, add, old, key)
  BY <1>1 DEF Overlays
<1>3. QED BY <1>2 DEF all

\* Merging field by field overlays each field.
LEMMA MergeOverlays ==
  ASSUME NEW add, NEW old, NEW c, NEW f
  PROVE  Overlays(FieldsOf(MergeEach(old, add), c), FieldsOf(add, c), FieldsOf(old, c), f)
<1> DEFINE all == MergeEach(old, add)
           goal == Overlays(FieldsOf(all, c), FieldsOf(add, c), FieldsOf(old, c), f)
<1>1. /\ DOMAIN all = DOMAIN old \cup DOMAIN add
      /\ \A k \in DOMAIN old \ DOMAIN add : all[k] = old[k]
      /\ \A k \in DOMAIN old \cap DOMAIN add : all[k] = Over(add[k], old[k])
      /\ \A k \in DOMAIN add \ DOMAIN old : all[k] = add[k]
  BY DEF MergeEach
<1> HIDE DEF all
<1>2. DOMAIN << >> = {}
  BY EmptyMap
<1>3. ASSUME c \in DOMAIN old, c \in DOMAIN add PROVE goal
  <2>1. /\ FieldsOf(all, c) = Over(add[c], old[c])
        /\ FieldsOf(add, c) = add[c] /\ FieldsOf(old, c) = old[c]
    BY <1>1, <1>3 DEF FieldsOf
  <2>2. QED BY <2>1, OverOverlays
<1>4. ASSUME c \notin DOMAIN old PROVE goal
  <2>1. FieldsOf(all, c) = FieldsOf(add, c) /\ FieldsOf(old, c) = << >>
    BY <1>1, <1>4 DEF FieldsOf
  <2>2. QED BY <1>2, <2>1 DEF Overlays
<1>5. ASSUME c \in DOMAIN old, c \notin DOMAIN add PROVE goal
  <2>1. FieldsOf(all, c) = FieldsOf(old, c) /\ FieldsOf(add, c) = << >>
    BY <1>1, <1>5 DEF FieldsOf
  <2>2. QED BY <1>2, <2>1 DEF Overlays
<1>6. goal
  BY <1>3, <1>4, <1>5
<1>7. QED BY <1>6 DEF all

\* The newest of some items and a newer one is that one.
LEMMA NewestAdded ==
  ASSUME NEW old, NEW add, NEW result, NEW key, NEW items \in SUBSET Nat, NEW n \in Nat,
         IsNewest(old, key, items), \A m \in items : m < n,
         Overlays(result, add, old, key), key \in DOMAIN add => add[key] = n
  PROVE  IsNewest(result, key, IF key \in DOMAIN add THEN items \cup {n} ELSE items)
<1>1. CASE key \in DOMAIN add
  <2>1. key \in DOMAIN result /\ result[key] = n
    BY <1>1 DEF Overlays
  <2>2. \A m \in items \cup {n} : m <= n
    OBVIOUS
  <2>3. QED BY <1>1, <2>1, <2>2 DEF IsNewest
<1>2. CASE key \notin DOMAIN add
  BY <1>2 DEF IsNewest, Overlays
<1>3. QED BY <1>1, <1>2

\* Stored over something as new as the older items, the newest of some items is as
\* new as all of them.
LEMMA NewestStored ==
  ASSUME NEW old, NEW held, NEW result, NEW key, NEW K \in SUBSET Nat, NEW T \in SUBSET Nat,
         IsNewest(held, key, T), AsNew(old, key, K), Overlays(result, held, old, key),
         \A m \in T, n \in K : n > m => n \in T
  PROVE  AsNew(result, key, K \cup T)
<1>1. CASE T = {}
  BY <1>1 DEF IsNewest, AsNew, Overlays
<1>2. CASE T # {}
  <2>1. PICK m \in T : /\ key \in DOMAIN result /\ result[key] = m
                       /\ \A n \in T : n <= m
    BY <1>2 DEF IsNewest, Overlays
  <2>2. ASSUME NEW n \in K \cup T
        PROVE  m >= n
    BY <2>1, <2>2
  <2>3. QED BY <2>1, <2>2 DEF AsNew
<1>3. QED BY <1>1, <1>2

\* What is in hand stays the newest while no item is taken and it does not change.
LEMMA HeldKept ==
  ASSUME PassInv, AckInv, HeldInv, taken' = taken, InHand' = InHand,
         \A n \in DOMAIN stream : n \in DOMAIN stream' /\ stream'[n] = stream[n]
  PROVE  HeldInv'
<1>1. taken \subseteq DOMAIN stream
  BY DEF PassInv, AckInv
<1>2. \A r : (taken \cap ItemsOf("receipts", r))' = taken \cap ItemsOf("receipts", r)
  BY <1>1 DEF ItemsOf
<1>3. \A c, f : (taken \cap FieldItems(c, f))' = taken \cap FieldItems(c, f)
  BY <1>1 DEF FieldItems, ItemsOf
<1>4. QED BY <1>2, <1>3 DEF HeldInv

\* Nothing in hand is the newest of nothing.
LEMMA HeldNone ==
  ASSUME taken' = {}, InHand' = EmptyBatch
  PROVE  HeldInv'
<1>1. DOMAIN << >> = {}
  BY EmptyMap
<1>2. /\ InHand'.receipts = << >> /\ InHand'.contacts = << >>
  BY EmptyShaped
<1>3. \A r : (taken \cap ItemsOf("receipts", r))' = {}
  OBVIOUS
<1>4. \A c, f : (taken \cap FieldItems(c, f))' = {}
  OBVIOUS
<1>5. \A c : FieldsOf(InHand'.contacts, c) = << >>
  BY <1>1, <1>2 DEF FieldsOf
<1>6. \A key : IsNewest(<< >>, key, {})
  BY <1>1 DEF IsNewest
<1>7. QED BY <1>2, <1>3, <1>4, <1>5, <1>6 DEF HeldInv

\* The items taken are older than the next one.
LEMMA TakenBefore ==
  ASSUME PassInv, OrderInv, AnswerInv, pc = "process", NEW m \in taken
  PROVE  m \in Nat /\ m < node[Len(answers) + 1]
<1>1. PICK i \in 1 .. Len(answers) : node[i] = m
  BY DEF AnswerInv, Done
<1>2. PICK a : a = Len(answers) /\ a \in Nat
  <2>1. Len(answers) \in Nat
    BY DEF PassInv
  <2>2. QED BY <2>1
<1>3. i \in DOMAIN node /\ a + 1 \in DOMAIN node /\ i < a + 1
  <2>1. a + 1 \in DOMAIN node /\ node \in Seq(Nat)
    BY <1>2, InWork DEF PassInv
  <2>2. QED BY <1>1, <1>2, <2>1
<1>4. node[i] < node[a + 1] /\ node[i] \in Nat
  BY <1>3 DEF OrderInv, Increasing, PassInv
<1>5. QED BY <1>1, <1>2, <1>4

\* An item is newer than all that was taken before it, and is in hand next.
LEMMA HeldProcess ==
  ASSUME PassInv, AckInv, OrderInv, AnswerInv, RefInv, HeldInv, ProcessItem
  PROVE  HeldInv'
<1> DEFINE n == node[Len(answers) + 1]
           refused == stream[n].sealed /\ n \in opened
           e == IF refused THEN EmptyBatch ELSE stream[n].batch
<1>1. /\ pc = "process" /\ pc' \in {"process", "respond"}
      /\ buf' = ApplyBatch(buf, e)
      /\ taken' = IF refused THEN taken ELSE taken \cup {n}
      /\ stream' = stream
  BY DEF ProcessItem, server
<1>2. n \in DOMAIN stream /\ n \in Nat
  BY <1>1, InWork
<1>3. \A m \in taken : m \in Nat /\ m < n
  BY <1>1, TakenBefore
<1> HIDE DEF n
<1>4. InHand = buf /\ InHand' = buf'
  BY <1>1 DEF InHand
<1>5. /\ buf'.receipts = Over(e.receipts, buf.receipts)
      /\ buf'.contacts = MergeEach(buf.contacts, e.contacts)
  <2> HIDE DEF e
  <2>1. Shaped(buf)
    BY DEF RefInv
  <2>2. QED BY <1>1, <2>1, AppliedFields
<1>6. /\ DOMAIN EmptyBatch.receipts = {} /\ DOMAIN EmptyBatch.contacts = {}
      /\ DOMAIN << >> = {}
  BY EmptyShaped, EmptyMap
<1>7. ASSUME NEW r \in ReceiptKeys
      PROVE  IsNewest(buf'.receipts, r, (taken \cap ItemsOf("receipts", r))')
  <2> DEFINE items == taken \cap ItemsOf("receipts", r)
  <2>1. r \in DOMAIN e.receipts => e.receipts[r] = n
    BY <1>2, <1>6, ItemContents
  <2>2. items' = IF r \in DOMAIN e.receipts THEN items \cup {n} ELSE items
    BY <1>1, <1>2, <1>6 DEF ItemsOf
  <2>3. IsNewest(buf.receipts, r, items)
    BY <1>4 DEF HeldInv
  <2>4. items \in SUBSET Nat /\ \A m \in items : m < n
    BY <1>3
  <2> HIDE DEF e, items
  <2>5. Overlays(buf'.receipts, e.receipts, buf.receipts, r)
    BY <1>5, OverOverlays
  <2>6. IsNewest(buf'.receipts, r, items')
    BY <1>2, <2>1, <2>2, <2>3, <2>4, <2>5, NewestAdded
  <2>7. QED BY <2>6 DEF items
<1>8. ASSUME NEW c \in ContactKeys, NEW f \in Fields
      PROVE  IsNewest(FieldsOf(buf'.contacts, c), f, (taken \cap FieldItems(c, f))')
  <2> DEFINE items == taken \cap FieldItems(c, f)
             add == FieldsOf(e.contacts, c)
  <2>1. f \in DOMAIN add => add[f] = n
    BY <1>2, <1>6, ItemContents DEF FieldsOf
  <2>2. items' = IF f \in DOMAIN add THEN items \cup {n} ELSE items
    BY <1>1, <1>2, <1>6 DEF ItemsOf, FieldItems, FieldsOf
  <2>3. IsNewest(FieldsOf(buf.contacts, c), f, items)
    BY <1>4 DEF HeldInv
  <2>4. items \in SUBSET Nat /\ \A m \in items : m < n
    BY <1>3
  <2>5. Overlays(FieldsOf(buf'.contacts, c), add, FieldsOf(buf.contacts, c), f)
    <3> HIDE DEF e
    <3>1. QED BY <1>5, MergeOverlays
  <2> HIDE DEF add, items
  <2>6. IsNewest(FieldsOf(buf'.contacts, c), f, items')
    BY <1>2, <2>1, <2>2, <2>3, <2>4, <2>5, NewestAdded
  <2>7. QED BY <2>6 DEF items
<1>9. QED BY <1>4, <1>7, <1>8 DEF HeldInv

\* Every step keeps the newest in hand.
LEMMA HeldStep ==
  ASSUME PassInv, AckInv, OrderInv, AnswerInv, RefInv, HeldInv, Next
  PROVE  HeldInv'
<1>1. CASE ServerIssue
  <2>1. taken' = taken /\ InHand' = InHand
    BY <1>1 DEF ServerIssue, history, InHand
  <2>2. QED BY <1>1, <2>1, IssuedStream, HeldKept
<1>2. CASE Connect \/ DeliverBacklog \/ LinkDies \/ Disconnect \/ Spawn \/ RecvNode \/ RecvOther
            \/ Respond \/ Persist
  <2>1. taken' = taken /\ stream' = stream
    BY <1>2 DEF Connect, DeliverBacklog, LinkDies, Disconnect, Spawn, RecvNode, RecvOther,
                Respond, Persist, PersistStep, history, server
  <2>2. ASSUME \/ Connect \/ DeliverBacklog \/ LinkDies \/ Disconnect \/ Spawn
               \/ RecvNode \/ RecvOther
        PROVE  InHand' = InHand
    <3>1. UNCHANGED <<buf, batch>>
      BY <2>2 DEF Connect, DeliverBacklog, LinkDies, Disconnect, Spawn, RecvNode, RecvOther
    <3>2. pc' = pc \/ buf = batch
      BY <2>2 DEF Connect, DeliverBacklog, LinkDies, Disconnect, Spawn, RecvNode, RecvOther,
                  Subscribed, RefInv, PassInv, Working
    <3>3. QED BY <3>1, <3>2 DEF InHand
  <2>3. ASSUME Respond PROVE InHand' = InHand
    BY <2>3 DEF Respond, InHand
  <2>4. ASSUME Persist PROVE InHand' = InHand
    BY <2>4 DEF Persist, PersistStep, InHand
  <2>5. InHand' = InHand
    BY <1>2, <2>2, <2>3, <2>4
  <2>6. QED BY <2>1, <2>5, HeldKept
<1>3. CASE ProcessItem
  BY <1>3, HeldProcess
<1>4. CASE Emit
  <2>1. taken' = {} /\ InHand' = EmptyBatch
    BY <1>4 DEF Emit, InHand
  <2>2. QED BY <2>1, HeldNone
<1>5. CASE RecvEnd \/ ProcessOverflow \/ RespondFails \/ PersistFails \/ Crash
  <2>1. taken' = {} /\ InHand' = EmptyBatch
    BY <1>5 DEF RecvEnd, ProcessOverflow, RespondFails, PersistFails, Crash, Ends, InHand
  <2>2. QED BY <2>1, HeldNone
<1>6. QED BY <1>1, <1>2, <1>3, <1>4, <1>5 DEF Next

\* The newest of the items taken is always in hand.
LEMMA HeldAlways == Spec => []HeldInv
<1>1. Init => HeldInv
  <2> SUFFICES ASSUME Init PROVE HeldInv
    OBVIOUS
  <2>1. taken = {} /\ InHand = EmptyBatch
    BY DEF Init, InHand
  <2>2. DOMAIN << >> = {} /\ EmptyBatch.receipts = << >> /\ EmptyBatch.contacts = << >>
    BY EmptyMap, EmptyShaped
  <2>3. \A c : FieldsOf(<< >>, c) = << >>
    BY <2>2 DEF FieldsOf
  <2>4. \A key : IsNewest(<< >>, key, {})
    BY <2>2 DEF IsNewest
  <2>5. \A items : {} \cap items = {}
    OBVIOUS
  <2>6. QED BY <2>1, <2>2, <2>3, <2>4, <2>5 DEF HeldInv
<1>2. PassInv /\ AckInv /\ OrderInv /\ AnswerInv /\ RefInv /\ HeldInv /\ [Next]_vars => HeldInv'
  <2> SUFFICES ASSUME PassInv, AckInv, OrderInv, AnswerInv, RefInv, HeldInv, [Next]_vars
               PROVE  HeldInv'
    OBVIOUS
  <2>1. CASE UNCHANGED vars
    <3>1. taken' = taken /\ stream' = stream /\ InHand' = InHand
      BY <2>1 DEF vars, InHand
    <3>2. QED BY <3>1, HeldKept
  <2>2. QED BY <2>1, HeldStep
<1>3. QED BY <1>1, <1>2, PassAlways, AckAlways, OrderAlways, AnswerAlways, RefAlways, PTL
      DEF Spec

\* What is stored stays as new as what it was stored from.
LEMMA StoredKept ==
  ASSUME PassInv, AckInv, OrderInv, StoredInv, missed \subseteq missed', kept' = kept,
         \A n \in DOMAIN stream : n \in DOMAIN stream' /\ stream'[n] = stream[n],
         store'.receipts = store.receipts, store'.contacts = store.contacts,
         pc' \in {"interactions", "effects"} =>
           pc \in {"interactions", "effects"} /\ taken' = taken
  PROVE  StoredInv'
<1> DEFINE current == kept \cup (IF pc \in {"interactions", "effects"} THEN taken ELSE {})
<1>1. kept \subseteq DOMAIN stream /\ current' \subseteq current /\ current \subseteq DOMAIN stream
  BY DEF PassInv, AckInv, OrderInv
<1>2. ASSUME NEW r \in ReceiptKeys, ItemsOf("receipts", r)' \cap missed' = {}
      PROVE  AsNew(store'.receipts, r, kept' \cap ItemsOf("receipts", r)')
  <2>1. /\ ItemsOf("receipts", r) \subseteq ItemsOf("receipts", r)'
        /\ kept \cap ItemsOf("receipts", r)' \subseteq kept \cap ItemsOf("receipts", r)
    BY <1>1 DEF ItemsOf
  <2>2. AsNew(store.receipts, r, kept \cap ItemsOf("receipts", r))
    BY <1>2, <2>1 DEF StoredInv
  <2>3. QED BY <2>1, <2>2 DEF AsNew
<1>3. ASSUME NEW c \in ContactKeys, NEW f \in Fields, ItemsOf("contacts", c)' \cap missed' = {}
      PROVE  AsNew(FieldsOf(store'.contacts, c), f, current' \cap FieldItems(c, f)')
  <2>1. /\ ItemsOf("contacts", c) \subseteq ItemsOf("contacts", c)'
        /\ current \cap FieldItems(c, f)' \subseteq current \cap FieldItems(c, f)
    BY <1>1 DEF ItemsOf, FieldItems
  <2>2. AsNew(FieldsOf(store.contacts, c), f, current \cap FieldItems(c, f))
    BY <1>3, <2>1 DEF StoredInv
  <2>3. current' \cap FieldItems(c, f)' \subseteq current \cap FieldItems(c, f)
    BY <1>1, <2>1
  <2>4. QED BY <2>2, <2>3 DEF AsNew
<1>4. QED BY <1>2, <1>3 DEF StoredInv

\* An item that was stored and follows one taken again was taken with it.
LEMMA TakenWhole ==
  ASSUME PassInv, AckInv, AnswerInv, WholeInv, pc # "process", NEW m \in taken \ missed,
         NEW n \in kept, n > m, ~ stream[n].sealed
  PROVE  n \in taken
<1>1. m \in ToSet(node) \ missed
  BY DEF AckInv
<1>2. n \in ToSet(node)
  BY <1>1 DEF WholeInv, Whole
<1>3. PICK i \in DOMAIN node : node[i] = n
  BY <1>2 DEF ToSet
<1>4. i \in 1 .. Len(node) /\ Done = Len(node)
  BY DEF PassInv, Done
<1>5. QED BY <1>3, <1>4 DEF AnswerInv

\* The contacts are stored.
LEMMA StoredContacts ==
  ASSUME PassInv, AckInv, OrderInv, AnswerInv, WholeInv, HeldInv, StoredInv,
         pc = "state", pc' = "interactions", store'.receipts = store.receipts,
         store'.contacts = MergeEach(store.contacts, batch.contacts),
         UNCHANGED <<stream, missed, kept, taken>>
  PROVE  StoredInv'
<1>1. InHand = batch
  BY DEF InHand
<1>2. ASSUME NEW c \in ContactKeys, NEW f \in Fields, ItemsOf("contacts", c) \cap missed = {}
      PROVE  AsNew(FieldsOf(store'.contacts, c), f, (kept \cup taken) \cap FieldItems(c, f))
  <2> DEFINE K == kept \cap FieldItems(c, f)
             T == taken \cap FieldItems(c, f)
  <2>1. K \in SUBSET Nat /\ T \in SUBSET Nat
    BY DEF PassInv, FieldItems, ItemsOf
  <2>2. IsNewest(FieldsOf(batch.contacts, c), f, T)
    BY <1>1 DEF HeldInv
  <2>3. AsNew(FieldsOf(store.contacts, c), f, K)
    BY <1>2 DEF StoredInv
  <2>4. ASSUME NEW m \in T, NEW n \in K, n > m
        PROVE  n \in T
    <3>1. m \in taken \ missed /\ n \in kept
      BY <1>2 DEF FieldItems
    <3>2. n \in DOMAIN stream /\ c \in DOMAIN stream[n].batch.contacts
      BY DEF FieldItems, ItemsOf
    <3>3. ~ stream[n].sealed
      BY <3>2, ItemContents
    <3>4. n \in taken
      BY <2>4, <3>1, <3>3, TakenWhole
    <3>5. QED BY <3>4
  <2>5. Overlays(FieldsOf(store'.contacts, c), FieldsOf(batch.contacts, c),
                 FieldsOf(store.contacts, c), f)
    BY MergeOverlays
  <2>6. (kept \cup taken) \cap FieldItems(c, f) = K \cup T
    OBVIOUS
  <2> HIDE DEF K, T
  <2>7. QED BY <2>1, <2>2, <2>3, <2>4, <2>5, <2>6, NewestStored
<1>3. \A c, f : /\ ItemsOf("contacts", c)' = ItemsOf("contacts", c)
                /\ ItemsOf("receipts", c)' = ItemsOf("receipts", c)
                /\ FieldItems(c, f)' = FieldItems(c, f)
  BY DEF ItemsOf, FieldItems
<1>4. QED BY <1>2, <1>3 DEF StoredInv

\* The receipts come last, and with them the items are stored.
LEMMA StoredReceipts ==
  ASSUME PassInv, AckInv, OrderInv, AnswerInv, WholeInv, HeldInv, StoredInv,
         pc = "interactions", pc' = "effects", store'.contacts = store.contacts,
         store'.receipts = Over(batch.receipts, store.receipts),
         kept' = kept \cup taken, UNCHANGED <<stream, missed, taken>>
  PROVE  StoredInv'
<1>1. InHand = batch
  BY DEF InHand
<1>2. ASSUME NEW r \in ReceiptKeys, ItemsOf("receipts", r) \cap missed = {}
      PROVE  AsNew(store'.receipts, r, (kept \cup taken) \cap ItemsOf("receipts", r))
  <2> DEFINE K == kept \cap ItemsOf("receipts", r)
             T == taken \cap ItemsOf("receipts", r)
  <2>1. K \in SUBSET Nat /\ T \in SUBSET Nat
    BY DEF PassInv, ItemsOf
  <2>2. IsNewest(batch.receipts, r, T)
    BY <1>1 DEF HeldInv
  <2>3. AsNew(store.receipts, r, K)
    BY <1>2 DEF StoredInv
  <2>4. ASSUME NEW m \in T, NEW n \in K, n > m
        PROVE  n \in T
    <3>1. m \in taken \ missed /\ n \in kept
      BY <1>2
    <3>2. n \in DOMAIN stream /\ r \in DOMAIN stream[n].batch.receipts
      BY DEF ItemsOf
    <3>3. ~ stream[n].sealed
      BY <3>2, ItemContents
    <3>4. n \in taken
      BY <2>4, <3>1, <3>3, TakenWhole
    <3>5. QED BY <3>4
  <2>5. Overlays(store'.receipts, batch.receipts, store.receipts, r)
    BY OverOverlays
  <2>6. (kept \cup taken) \cap ItemsOf("receipts", r) = K \cup T
    OBVIOUS
  <2> HIDE DEF K, T
  <2>7. QED BY <2>1, <2>2, <2>3, <2>4, <2>5, <2>6, NewestStored
<1>3. \A c, f : /\ ItemsOf("contacts", c)' = ItemsOf("contacts", c)
                /\ ItemsOf("receipts", c)' = ItemsOf("receipts", c)
                /\ FieldItems(c, f)' = FieldItems(c, f)
  BY DEF ItemsOf, FieldItems
<1>4. kept' \cup taken' = kept \cup taken
  OBVIOUS
<1>5. \A c \in ContactKeys, f \in Fields : ItemsOf("contacts", c) \cap missed = {} =>
        AsNew(FieldsOf(store.contacts, c), f, (kept \cup taken) \cap FieldItems(c, f))
  BY DEF StoredInv
<1>6. QED BY <1>2, <1>3, <1>4, <1>5 DEF StoredInv

\* Every step keeps what is stored as new as what it was stored from.
LEMMA StoredStep ==
  ASSUME PassInv, AckInv, OrderInv, AnswerInv, RefInv, WholeInv, HeldInv, StoredInv, Next
  PROVE  StoredInv'
<1>1. CASE ServerIssue
  <2>1. UNCHANGED <<kept, store, taken, pc>>
    BY <1>1 DEF ServerIssue, history
  <2>2. missed \subseteq missed'
    BY <1>1 DEF ServerIssue, HearNode, queue
  <2>3. QED BY <1>1, <2>1, <2>2, IssuedStream, StoredKept
<1>2. CASE DeliverBacklog
  <2>1. UNCHANGED <<stream, kept, store, taken, pc>>
    BY <1>2 DEF DeliverBacklog, history, server
  <2>2. missed \subseteq missed'
    BY <1>2 DEF DeliverBacklog, HearNode, queue
  <2>3. QED BY <2>1, <2>2, StoredKept
<1>3. CASE \/ Connect \/ LinkDies \/ Disconnect \/ Spawn \/ RecvNode \/ RecvOther \/ ProcessItem
           \/ Respond \/ Emit
  <2>1. UNCHANGED <<stream, kept, store, missed>>
    BY <1>3 DEF Connect, LinkDies, Disconnect, Spawn, RecvNode, RecvOther, ProcessItem,
                Respond, Emit, history, server, queue
  <2>2. pc' \in {"interactions", "effects"} =>
           pc \in {"interactions", "effects"} /\ taken' = taken
    BY <1>3 DEF Connect, LinkDies, Disconnect, Spawn, RecvNode, RecvOther, ProcessItem,
                Respond, Emit, history
  <2>3. QED BY <2>1, <2>2, StoredKept
<1>4. CASE RecvEnd \/ ProcessOverflow \/ RespondFails \/ PersistFails \/ Crash
  <2>1. UNCHANGED <<stream, kept, store, missed>> /\ pc' \in {"off", "ended"}
    BY <1>4 DEF RecvEnd, ProcessOverflow, RespondFails, PersistFails, Crash, Ends, server
  <2>2. QED BY <2>1, StoredKept
<1>5. CASE PersistStep("messages", "state", PersistMessages(store, batch))
  <2>1. /\ pc' = "state" /\ store' = PersistMessages(store, batch)
        /\ UNCHANGED <<stream, kept, missed>>
    BY <1>5 DEF PersistStep, server, queue
  <2>2. store'.contacts = store.contacts /\ store'.receipts = store.receipts
    BY <2>1, StoredMessages DEF RefInv
  <2>3. QED BY <2>1, <2>2, StoredKept
<1>6. CASE PersistStep("state", "interactions", PersistState(store, batch))
  <2>1. /\ pc = "state" /\ pc' = "interactions" /\ store' = PersistState(store, batch)
        /\ UNCHANGED <<stream, kept, missed, taken>>
    BY <1>6 DEF PersistStep, server, queue
  <2>2. /\ store'.contacts = MergeEach(store.contacts, batch.contacts)
        /\ store'.receipts = store.receipts
    BY <2>1, StoredRest DEF RefInv
  <2>3. QED BY <2>1, <2>2, StoredContacts
<1>7. CASE PersistStep("interactions", "effects", PersistInteractions(store, batch))
  <2>1. /\ pc = "interactions" /\ pc' = "effects" /\ store' = PersistInteractions(store, batch)
        /\ kept' = kept \cup taken /\ UNCHANGED <<stream, missed, taken>>
    BY <1>7 DEF PersistStep, server, queue
  <2>2. /\ store'.receipts = Over(batch.receipts, store.receipts)
        /\ store'.contacts = store.contacts
    BY <2>1, StoredRest DEF RefInv
  <2>3. QED BY <2>1, <2>2, StoredReceipts
<1>8. QED BY <1>1, <1>2, <1>3, <1>4, <1>5, <1>6, <1>7 DEF Next, Persist

\* What is stored is always as new as what it was stored from.
LEMMA StoredAlways == Spec => []StoredInv
<1>1. Init => StoredInv
  BY DEF Init, StoredInv, AsNew
<1>2. PassInv /\ AckInv /\ OrderInv /\ AnswerInv /\ RefInv /\ WholeInv /\ HeldInv /\ StoredInv
        /\ [Next]_vars => StoredInv'
  <2> SUFFICES ASSUME PassInv, AckInv, OrderInv, AnswerInv, RefInv, WholeInv, HeldInv,
                      StoredInv, [Next]_vars
               PROVE  StoredInv'
    OBVIOUS
  <2>1. CASE UNCHANGED vars
    <3>1. UNCHANGED <<stream, pc, kept, store, taken, missed>>
      BY <2>1 DEF vars
    <3>2. QED BY <3>1, StoredKept
  <2>2. QED BY <2>1, StoredStep
<1>3. QED BY <1>1, <1>2, PassAlways, AckAlways, OrderAlways, AnswerAlways, RefAlways,
             WholeAlways, HeldAlways, PTL DEF Spec

\* Replays never make a stored record older: an old receipt or contact is only
\* delivered again together with all newer ones that were stored, and the last of
\* them wins.
THEOREM NewestWinsAlways == Spec => []NewestWins
<1>1. OrderInv /\ StoredInv => NewestWins
  <2> SUFFICES ASSUME OrderInv, StoredInv PROVE NewestWins
    OBVIOUS
  <2>1. ASSUME NEW r \in ReceiptKeys, ItemsOf("receipts", r) \cap missed = {},
               NEW n \in kept \cap ItemsOf("receipts", r)
        PROVE  store.receipts[r] >= n
    BY <2>1 DEF StoredInv, AsNew
  <2>2. ASSUME NEW c \in ContactKeys, ItemsOf("contacts", c) \cap missed = {},
               NEW n \in kept \cap ItemsOf("contacts", c),
               NEW f \in DOMAIN stream[n].batch.contacts[c]
        PROVE  store.contacts[c][f] >= n
    <3>1. n \in DOMAIN stream /\ c \in DOMAIN stream[n].batch.contacts
      BY DEF ItemsOf
    <3>2. f \in Fields
      BY <3>1, ItemContents
    <3>3. n \in FieldItems(c, f)
      BY DEF FieldItems
    <3>4. /\ f \in DOMAIN FieldsOf(store.contacts, c)
          /\ FieldsOf(store.contacts, c)[f] >= n
      BY <2>2, <3>2, <3>3 DEF StoredInv, AsNew
    <3>5. c \in DOMAIN store.contacts
      BY <3>4, EmptyMap DEF FieldsOf
    <3>6. QED BY <3>4, <3>5 DEF FieldsOf
  <2>3. QED BY <2>1, <2>2 DEF NewestWins
<1>2. QED BY <1>1, OrderAlways, StoredAlways, PTL

=============================================================================
