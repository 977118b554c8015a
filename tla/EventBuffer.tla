------------------------------ MODULE EventBuffer ------------------------------
(****************************************************************************)
(* The event buffer of wa-core (event.rs) and what the client writes to its *)
(* store when it empties one (persist_receive_events of wa-client).         *)
(*                                                                          *)
(* A map from keys to records is a function whose domain is the set of keys *)
(* present.  A record is itself a map from field names to values: the code  *)
(* merges records field by field, so which write a field came from is all   *)
(* the properties tell apart (the timestamp of a message, which an update   *)
(* replaces when it carries one, is one of the fields).                     *)
(*                                                                          *)
(* The code keeps one map per kind of event.  Three ways of combining events*)
(* of one kind exist, and each has one kind here:                           *)
(*   messages - upsert, update and delete exclude each other (chats and     *)
(*              contacts use the same three maps);                          *)
(*   contacts - updates merge (as do chats, groups, labels, quick replies,  *)
(*              business notifications, stickers, settings and calls);      *)
(*   receipts - the last one wins (as for reactions, presence, label        *)
(*              associations and media retries).                            *)
(* Everything else is handed on as it came, as an "immediate" event.        *)
(****************************************************************************)
EXTENDS Maps, Naturals, FiniteSets, Sequences

CONSTANT MaxPendingItems   \* EventBufferConfig::max_pending_items, 4096 by default

\* merge_fields, entry by entry, for the kinds whose updates merge.
MergeEach(map, new) ==
    [k \in DOMAIN map \cup DOMAIN new |->
        IF k \notin DOMAIN new THEN map[k]
        ELSE IF k \in DOMAIN map THEN Over(new[k], map[k]) ELSE new[k]]

\* A batch of events and the contents of a buffer have the same shape.
EmptyBatch ==
    [upsert    |-> << >>, update   |-> << >>, delete    |-> {},
     contacts  |-> << >>, receipts |-> << >>, immediate |-> << >>]

PendingItems(buf) ==
    Cardinality(DOMAIN buf.upsert) + Cardinality(DOMAIN buf.update)
        + Cardinality(buf.delete) + Cardinality(DOMAIN buf.contacts)
        + Cardinality(DOMAIN buf.receipts) + Len(buf.immediate)

\* Mutant: a delete in the buffer outlives the message that follows it.
ApplyUpsertKeepsDelete(buf, new) ==
    [buf EXCEPT !.update = Without(@, DOMAIN new),
                !.upsert = Over(new, @)]

ApplyUpsert(buf, new) ==
    [buf EXCEPT !.delete = @ \ DOMAIN new,
                !.update = Without(@, DOMAIN new),
                !.upsert = Over(new, @)]

\* An update goes into the message the buffer holds; else it is kept as an
\* update, unless the buffer holds a delete of that message.
ApplyUpdate(buf, new) ==
    LET here == DOMAIN new \cap DOMAIN buf.upsert
    IN  [buf EXCEPT !.upsert = MergeEach(@, Without(new, DOMAIN new \ here)),
                    !.update = MergeEach(@, Without(new, here \cup buf.delete))]

ApplyDelete(buf, keys) ==
    [buf EXCEPT !.upsert = Without(@, keys),
                !.update = Without(@, keys),
                !.delete = @ \cup keys]

\* Mutant: the first receipt in the buffer stays.
ApplyBatchFirstWins(buf, batch) ==
    LET messages == ApplyDelete(ApplyUpdate(ApplyUpsert(buf, batch.upsert),
                                            batch.update),
                                batch.delete)
    IN  [messages EXCEPT !.contacts = MergeEach(@, batch.contacts),
                         !.receipts = Over(@, batch.receipts),
                         !.immediate = @ \o batch.immediate]

\* apply_batch: the kinds in turn, and upserts, updates, deletes within one.
ApplyBatch(buf, batch) ==
    LET messages == ApplyDelete(ApplyUpdate(ApplyUpsert(buf, batch.upsert),
                                            batch.update),
                                batch.delete)
    IN  [messages EXCEPT !.contacts = MergeEach(@, batch.contacts),
                         !.receipts = Over(batch.receipts, @),
                         !.immediate = @ \o batch.immediate]

\* push refuses a batch that would fill the buffer beyond its limit, and leaves
\* the buffer as it was.
Fits(buf, batch) == PendingItems(ApplyBatch(buf, batch)) <= MaxPendingItems

-----------------------------------------------------------------------------
(* What the client's store holds of these events, and its transactions.     *)

EmptyStore ==
    [messages |-> << >>, updates |-> << >>, contacts |-> << >>, receipts |-> << >>]

\* One transaction.  An update whose message is not stored waits in a namespace
\* of its own until the message comes; a second one replaces it.
PersistMessages(store, batch) ==
    LET arrived == [k \in DOMAIN batch.upsert |->
                        IF k \in DOMAIN store.updates
                        THEN Over(store.updates[k], batch.upsert[k])
                        ELSE batch.upsert[k]]
        stored  == Over(arrived, store.messages)
        known   == DOMAIN batch.update \cap DOMAIN stored
        merged  == MergeEach(stored, Without(batch.update, DOMAIN batch.update \ known))
        waiting == Over(Without(batch.update, known),
                        Without(store.updates, known \cup DOMAIN batch.upsert))
    IN  [store EXCEPT !.messages = Without(merged, batch.delete),
                      !.updates  = Without(waiting, batch.delete)]

PersistState(store, batch) ==
    [store EXCEPT !.contacts = MergeEach(@, batch.contacts)]

PersistInteractions(store, batch) ==
    [store EXCEPT !.receipts = Over(batch.receipts, @)]
=============================================================================
