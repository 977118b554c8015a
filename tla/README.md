# Irminsul in TLA+

Irminsul is a WhatsApp multi-device client in Rust: a binary node codec, a Noise
transport, Signal encryption, app-state sync, media transfer and a client that
ties them together.  This directory models its stateful core in TLA+,
model-checks it with TLC and proves part of it with TLAPS.

Contents: [inventory](#inventory), [plan](#plan), [modules](#modules-and-the-code),
[runs](#runs), [fairness](#fairness), [proofs](#proofs),
[findings](#findings), [what is left out](#what-is-not-modelled).

## Inventory

Paths are relative to `src/crates/`.  "Shared" names the state that several
tasks touch.

### Connection and queries (`wa-core/src/connection.rs`, `query.rs`, `router.rs`, `websocket.rs`)

* State: a `closed` flag, two task handles and a bounded command channel for each
  connection; one table of tag -> one-shot sender, shared by all connections of a
  client.
* Operations: `spawn`, `send_frame`, `query_node`, `close`; the outbound task
  (receive a command, write or close the sink), the inbound task (decode, resolve
  a query, emit), `mark_closed`; a waiter's timeout and removal.
* Interaction: callers enqueue commands; the tasks resolve waiters and emit
  `ConnectionUpdate` and node events on a broadcast hub.
* Hard: a query that registers while the connection is swept; `close()` racing a
  failing write and the end of the stream; a full channel; a dropped future;
  duplicate tags; a sink that fails to close.
* Correct when: no listening caller is lost by the table or outlives the close; accepted
  frames are flushed before the sink is closed; `Closed` is announced once, and at
  least once unless the sink fails; every call returns after a close.

### Noise transport (`wa-core/src/noise.rs`, `validation.rs`, `payload.rs`, `wa-crypto/src/noise.rs`)

* State: handshake hash and chaining key, two cipher states with counters, the
  buffer of a partly received frame.
* Operations: client hello, server hello, client finish, encrypt, decrypt,
  frame and unframe (3-byte length), login or registration payload.
* Hard: counters in step after a failure; the intro header sent once; frames that
  arrive in pieces; the 2^24 length boundary.
* Correct when: both ends derive the same keys, a frame is decrypted with the
  counter it was encrypted with, and the concatenation of unframed frames is what
  was framed.

### Event hub and buffer (`wa-core/src/event.rs`)

* State: pending upserts, updates and deletes by key; immediate events; a
  broadcast channel of bounded capacity.
* Operations: `push` (apply, roll back and fail over the limit), `flush`,
  `drain_events`, `emit`, `subscribe`.
* Hard: merging of upserts, updates and deletes of one key in any order; the
  rollback at the limit; slow subscribers that lag.
* Correct when: folding the batches into a store gives what folding the single
  events gives, and a refused event changes nothing.

### Signal (`wa-core/src/signal.rs`)

* State in the store: provider session and identity records by address, injected
  bundles, one-time and signed pre-keys, sender-key records and memory, LID/PN
  mappings; in memory: mutation locks by address.
* Operations: inject, validate, delete and migrate sessions; encrypt and decrypt
  one-to-one messages (first and later); create, process and use sender keys;
  consume pre-keys.
* Interaction: the send path asserts sessions, then encrypts; the receive path
  decrypts; retries refresh sessions.  All mutate the same records, one lock and
  one store transaction at a time.
* Hard: first contact from both sides or from two tasks; messages out of order,
  duplicated or lost; limits on skipped keys; replayed pre-key messages.
* Correct when: no key encrypts two messages, no plaintext is delivered twice, a
  one-time pre-key sets up one session, whatever is outstanding in a session can
  be decrypted in any order, and records always pass their own validation.

### Message retry (`wa-core/src/retry.rs`, `wa-client/src/lib.rs`)

* State: recent messages with index and order queue, retry counters, session
  recreation times, phone-request timers, base keys; each with capacity and TTL.
* Operations: add, get, remove recent messages; count retries; plan, prepare and
  execute resends; mark success or failure; purge.
* Hard: handlers of receipts of several devices interleave with relays that add
  the same message again; stale queue entries; bounds on retries.
* Correct when: index and messages agree, capacity and retry limits hold, and a
  message that was sent stays available until a resend has gone out.

### Placeholder resends (`wa-core/src/placeholder.rs`)

* State: pending ids with their time, an order queue.
* Operations: begin, resolve, contains, purge, clear; requests of several ids with
  rollback.
* Hard: stale queue entries, rollback by id, expiry between the steps of a request.
* Correct when: at most `capacity` ids are pending, no two tasks request one id,
  and a failed request leaves nothing behind.

### Receive path (`wa-core/src/receive.rs`, `inbound.rs`, `reporting.rs`; `wa-client/src/lib.rs`)

* State: the incoming processor of a connection, its event buffer, acknowledgements.
* Operations: decode, decrypt, classify, acknowledge, send retry receipts, emit.
* Hard: acknowledgements after failures; a processor that ends on the `Closed` of
  another connection or on a lagging subscription.
* Correct when: each stanza is acknowledged once and not before its effects are
  durable.

### Send path (`wa-core/src/message.rs`, `usync.rs`, `group.rs`, `tctoken.rs`)

* State: device lists, group metadata, sender-key memory, trusted-contact tokens.
* Operations: resolve devices, assert sessions, distribute sender keys, encrypt per
  device, relay, cache for retry.
* Hard: a device list that is stale when used; sender-key memory updated although
  the distribution was not sent.
* Correct when: every current device gets the message and the sender key it needs.

### App state (`wa-core/src/app_state.rs`, `wa-crypto/src/app_state.rs`)

* State: per collection a version and LT-hash, the index of values, sync keys,
  collections blocked on missing keys.
* Operations: build and upload patches, apply snapshots and patches, verify MACs.
* Hard: upload conflicts; a missing key in the middle of a sync; the order of
  patches.
* Correct when: version and hash move together and equal the fold of all patches.

### Auth, pairing, pre-keys (`wa-core/src/auth.rs`, `pairing.rs`, `pre_keys.rs`, `account.rs`)

* State: credentials, registration, next pre-key id, signed pre-key and its age.
* Operations: generate and upload pre-keys, rotate the signed pre-key, QR and code
  pairing, account updates.
* Hard: a crash between generating, storing and uploading; rotation while
  messages are under way.
* Correct when: an uploaded key is in the store, an id is used for one key.

### Store (`wa-store/src`)

* State: namespaced key-value records; memory and SQLite back ends.
* Operations: get, set, delete, transactions.
* Hard: an error in the middle of a transaction.
* Correct when: a transaction is all or nothing and isolated.

### Media (`wa-core/src/media.rs`, `thumbnail.rs`, `wa-crypto/src/media.rs`), history, business, newsletter, community, chat, binary codec, protobuf

Mostly conversions of data.  Stateful parts are the media-retry tracker, the
streaming media cipher and the history download; the codec has token tables and
length classes.

## Plan

In order of importance; a tick marks what is done.

1. [x] `QueryManager`, `Connection`: life and death of a connection, with proofs.
2. [x] `SignalRatchet`, `SignalSession`: one-to-one sessions between two parties.
3. [x] `PlaceholderResend`: the tracker and its tasks, with proofs.
4. [x] `PreKeys`: upload, confirmation, rotation and restarts, with proofs.
5. [x] `EventBuffer`, `IncomingEvents`: receive dispatch, acknowledgements, merging
   and storing, shown to implement the abstract `DurableEvents`.
6. [x] `AppState`: versions, hashes, parked collections, upload conflicts, liveness.
7. [x] `SenderKeyRecord`, `RecentMessages`, `GroupMessages`: group chains,
   distribution and its retry, the cache of recent messages and its handlers, with proofs.
8. [x] `SessionRecords`: identity and session records in step, aliases, migration,
   ordered locking of several addresses, with proofs.
9. [ ] The rest of message retry: the choice of the session action, retry counters,
   composed with `SignalSession` for recovery after a lost first message.
10. [ ] `NoiseTransport`: handshake, framing, counters.
11. [ ] `Store`: the transactions of the two back ends, refining an atomic store.
12. [ ] `TcToken`, `MediaRetry`, pairing.

Abstract specifications still worth stating: a query table as a map from callers
to outcomes (for 1), an atomic store (for 11).

## Modules and the code

| module | code | extends or instantiates |
|---|---|---|
| `QueryManager` | `query.rs`, `router.rs` | |
| `Connection` | `connection.rs` | `QueryManager` |
| `SignalRatchet` | `signal.rs`: the double ratchet | |
| `SignalSession` | `signal.rs`, session calls of the client | `SignalRatchet` |
| `SessionRecords` | `signal.rs`: records, identities, migration, locks; `assert_sessions` | |
| `Maps` | functions that stand for hash maps and stores | |
| `SenderKeyRecord` | `signal.rs`: sender-key records | |
| `RecentMessages` | `retry.rs`: the cache | |
| `GroupMessages` | group relay, retry receipts, group decryption | both of these |
| `PlaceholderResend` | `placeholder.rs` and its requests | |
| `PreKeys` | `pre_keys.rs`, `auth.rs` and their callers | |
| `EventBuffer` | `event.rs`: the buffer; the three store transactions | `Maps` |
| `IncomingEvents` | the incoming processor, `receive.rs`, the hub | `EventBuffer`, `DurableEvents` |
| `DurableEvents` | abstract: what storing promises | `Maps` |
| `AppState` | `app_state.rs` and the sync calls of the client | `Maps` |

A module `MC...` gives the constants for TLC; `ConnectionProofs`,
`PlaceholderProofs`, `PreKeyProofs`, `GroupProofs`, `RecordProofs`,
`IncomingProofs`, `AppStateProofs` and `SignalProofs` hold the theorems.  Each definition's lines in the source are in `PROJECT.json` (`map`);
definitions marked "Mutant" are the plausible bugs that each property is shown to catch.

### `QueryManager`

The table of `query.rs`.  `waiters` maps a tag to the caller whose one-shot sender
it holds, to a `Ghost` (a sender whose receiver is gone), or to nobody.
`rx` is each caller's receiver.  Actions are written as parts: `Register`,
`RegisterDuplicate` (which replaces the old sender before it is refused),
`Resolve` (by the transport tag, then by the node id, as `router.rs` does),
`ClosePending`, `RemoveWaiter` by tag.

### `Connection`

Extends `QueryManager` with connections, callers and closers.  Each step between
two awaits or atomic accesses is an action: `CheckClosed`/`Enqueue` of
`send_frame`, `OutboundRecv`/`SinkSend`/`SinkClose` and `InboundFrame`/`InboundEnds` of the
tasks, `MarkSwap`/`MarkSweep`/`MarkEmit` of `mark_closed`, and the nine steps of
`close()`, with join and abort of the two tasks.  A caller may be cancelled at any
await.  The sink and the stream may fail at any time.

### `SignalRatchet`

Pure operators.  A derived key is the history that derives it: a root is the X3DH
agreement followed by the pairs of ratchet keys mixed in, a message key is a chain
and a counter.  Equal histories are equal keys, and a message can be decrypted
exactly when the receiver derives the sender's key, so MAC verification is equality.
`Decrypt` returns the next record, or `None` where the code returns an error.
`PushAll` stores the keys of a passed chain one by one, as the loop of the code does.

### `SignalSession`

Two parties, each with a provider session, an injected bundle, one-time
pre-keys, concurrent sending tasks and concurrent incoming processors.  `net`
keeps all messages, so they are delivered in any order, again, or never.  A step
is one lock and transaction.  `EncryptUnanswered` is external: a peer that runs
libsignal repeats its pre-key header until it is answered, which this code does not
do but must receive.  `lost` is history: the message keys that gave way at the
limit on skipped keys.

### `SessionRecords`

Four records per address of a peer device (its phone number and its LID): the
injected bundle and the identity stored with it, the provider's session and the
identity stored with that.  A task is one call: `assert_sessions` in
ten steps (validate the bundle, validate the session, try bundle and session of
the queried address, load its session and its identity without a lock, copy, fetch,
inject at the queried address, inject at the one asked about), `encrypt_message` in
three (read the bundle, try the session, store a new one), `delete_sessions` and
`migrate_session`, which take their locks one at a time (`TakeLock`).
`SaveIdentity`, `StoreInbound` and `DeleteProviderRecords` are one transaction each.
`migrate_session`, `save_identity` and the deletions of single records have no
caller in the repository; they are public operations.  The peer may `Reinstall`,
which gives it a new identity.  `sent`, `reused`,
`copied` and `asserted` are history.

### `SenderKeyRecord`, `RecentMessages`, `GroupMessages`

A sender-key record is a sequence of states, newest first: a key, the iteration
its chain is at, the stored iterations.  `Follow` is what a distribution of a known
key does: it moves the chain ahead and keeps nothing of what it passes.
`RecentMessages` is the cache with its order queue and stale entries.
`GroupMessages` has sending tasks (load distribution, distribute to each member,
encrypt, send, cache) and handlers of retry receipts (distribute again, resend,
cache, mark success), each step one lock or one send; a member takes what arrives
in any order, again or never.  `DistributedFirst` and the others are stated over
`net`, everything that was sent.

### `EventBuffer`, `IncomingEvents`, `DurableEvents`

`EventBuffer` has one kind of record for each of the three ways in which the
buffer combines events: messages (upsert, update, delete), contacts (merged
field by field) and receipts (the last one wins), and the transactions that store
them.  `IncomingEvents` is the loop of `spawn_incoming_processor`: receive from the
hub, process item by item (`ProcessItem`, `ProcessOverflow`), answer
(`Respond`), drain, store in three transactions (`Persist`), emit.  The link may
die before the client notices; the server delivers unanswered items again as one
offline node.  `DurableEvents` knows no buffer and no processor: each event is
applied at once to a view, parts of the view become durable, and what is not
durable may be lost.  `ImplementsPromise` is the refinement: the abstract view is the
store with what the processor holds written over it.

### `AppState`

The processor and the application's calls fetch, verify and save one collection
each, step by step between awaits: `Load` the states, the server's `Answer`,
`ApplyPatch` by patch, `MissKey` then `Park`, `FinishCollection`, `Emit` at the end of the
round, `NextRound`; snapshots are downloaded afterwards.  An upload loads a state,
builds a patch on it, and saves what it had computed once the server accepts.
A MAC is the map it is computed over, so verification is equality.

### `PlaceholderResend`

The tracker of `placeholder.rs` and the tasks of `request_placeholder_resend`.
A request takes its clock reading once and the lock once per id; `Begin`
purges, records, queues and evicts in one step (`Pops` says how many entries
`enforce_capacity` takes off the queue).  A failed relay resolves the recorded ids
one by one.  The clock may be set back.  `requested` and `lost` are history: they
say which records belong to requests that were sent, and whose records have been
dropped.

### `PreKeys`

One device, its store and the server.  `creds` are the stored credentials and `mem`
is `self.credentials`; they differ in the signed pre-key after a save has failed.
`pc` is the position of the running `&mut self` method between its awaits: count,
prepare (one transaction), upload, confirm, and rotate, save.  A query is `pending` until the
server takes it; a query that fails, times out or is dropped, and a restart, may leave its
request `late`, to be applied at any later time.  Peers take keys (`HandOut`) and
their first messages consume them (`Consume`, one transaction of `signal.rs`).  A
key pair is the number of its generation, so a regenerated id is a different key.
`used`, `uploaded` and `doubt` are history.  `doubt` says that a rotation was
given up or not saved, or that a late request arrived, since the last request that the server
took in turn: then it may have another signed pre-key than the store.

## Runs

| run | instance | what it shows |
|---|---|---|
| `connection` | 2 callers, 1 generated and 1 reusable tag, 2 closers, capacity 2 | table, flush, announcement and close invariants |
| `connection_live` | fair, generated tags only, 1 closer | calls return after a close; `close()` returns; `Closed` is announced unless the sink fails; a query fails as closed only if a connection was closed |
| `signal_order` | 1 task a side, 3 messages each way, 1 skipped key kept, jumps of 2 | whatever is outstanding in a session can be decrypted, in any order; records stay valid at the limit |
| `signal_tasks` | 2 sending tasks on one side, 2 processors on the other, 2 messages each way | keys and one-time pre-keys are not reused, no plaintext is handed out twice |
| `session_records` | 2 tasks, 2 addresses, 2 identities, 5 operations | records stay in pairs, what was asserted stays usable, keys repeat only through the alias copy, locks never circular, a trusted identity is never exchanged |
| `group_messages` | 1 sender, 2 handlers, 3 tasks in all, 2 sender keys, 1 state and 1 stored key a member, cache of 2 | iterations are unique, distributions come first, one decryption per message, resendable until resent |
| `placeholder` | 3 ids, 2 tasks, capacity 2 | bound, de-duplication, clean rollback |
| `prekeys` | counts 2 and 1, 3 ids, 5 key pairs, 1 late request | served keys are stored, confirmed ids were uploaded, signed pre-keys in step |
| `prekeys_pending` | the same | **violated**: the keys to be uploaded next are stored |
| `incoming` | 2 messages of 2 fields, 1 contact, 1 receipt, hub of 2, buffer of 3, 4 items and connections | losses stay within one node, no gap is passed over, replays do not win, refinement of `DurableEvents` |
| `app_state` | 1 collection, 2 keys (one comes late), 1 concurrent call, 2 patches, 2 rounds, 1 failure | states are the server's, uploaded patches verify, events are emitted, nothing is behind unless parked, the client catches up |
| `app_state_forgotten` | the same without calls, uploads or failures | **violated**: a collection that is behind is parked |

Bounds.  Two `Callers` and two `Closers` give every pairwise race; the
table's entries of different tags do not interact, and the proofs cover several
connections that share the table.  `Capacity` 1 and 2 make the channel full.
`MaxSends` = 3 lets a chain have a first, a skipped and a later message, and lets
the ratchet turn twice; the limit of one skipped key is crossed within three
messages, the forward-jump limit is not.  `MaxFetches` = 1 gives each side
one bundle, so that the second of two concurrent first sends reuses it or goes on
with the session.  Two addresses are what the code can have for a device; a second
identity makes a change, and five operations let two tasks run over an
alias that was asserted, refreshed and migrated.  Three group tasks are three
messages, two and a retry, or one that two handlers resend at once; one stored key
and one state make both limits give way, so that the retry with the cached
distribution happens.  Several senders at once are left to the proofs, which cover
any number.  Three ids and room for two make eviction, and
`MaxOrder` = 3 leaves room for stale entries.  `MaxId` = 3 allows a full upload, its
retry and a second, smaller one; `MaxMade` = 5 leaves a rotation beside three one-time
keys and the first signed pre-key (or more rotations instead); one late request
(`MaxLate`) may overtake any later one.  `MaxWork` = 4 is, for instance, three items
and the connection they arrive on, or two items and a second connection that delivers
one of them again; a hub of two lags behind a processor that works, and a buffer
of three is filled by one backlog.  In `app_state`, two patches and two rounds make a page
end in the middle and a collection exceed its rounds; calls on several collections and
the removal of an index are in the module but not in the instance.

`CHECK_DEADLOCK FALSE` stands where the number of operations is bounded and the
system stops when they are used up.

Every property of a passing run is violated by a mutant of the model, listed
in `PROJECT.json`.  The type invariants are not checked by the runs: they are part of
theorems of the eight proof modules.

## Assumptions about the environment

* `IncomingEvents`: an unanswered item comes back on the next connection, in one
  offline node with the others; the application spawns one processor per
  connection.
* `AppState`: the server takes a patch that is built on the newest version only,
  and answers a request with any page, or at version 0 with a snapshot; the phone shares
  each key once, and it does share it.
* `PreKeys`: the methods that take `&mut self` run one at a time (one client handle
  writes); a request may reach the server any time after it was given up.
* `GroupMessages`: the pairwise messages that carry distributions and resends
  decrypt (their own module is `SignalSession`); a member has one
  processor; the author deletes its sender key only while it is not sending.
* `SessionRecords`: the mapping from a phone number to its LID is known from the start;
  the server hands out the bundle of the peer's present identity.

## Fairness

Only the liveness properties need it.

`connection_live`: `FairSpec` is weakly fair to the steps
of the runtime: a spawned task, and a caller or closer whose await is ready, is
eventually polled (tokio's scheduler).  It assumes no fairness of the network, of
timeouts, or of callers starting anything; a write to the sink is assumed to end, with success or
failure.  Senders blocked on the full channel are served in turn, as tokio's
channel does, which is strong fairness of the enqueueing step.

`app_state`: weakly fair to what a running call does next (`Proceed(t)`: a store
access or a query ends, with an answer or a failure), to the processor, which takes what
has arrived (`Process`), and to the phone (`ShareKey`).  No fairness of the
application, of other devices, of failures or of crashes.  `CatchesUp` is for executions
without failure, overlap or a dropped snapshot reference.

## Proofs

The eight proof modules are checked by TLAPS for all values of the constants
(assumptions: those named in the modules; capacity and counts positive, tags
disjoint, ids and addresses finite, two finite parties in `SignalSession`, `None` is no
value of the data).  Every invariant named below is proved inductive together with the
type invariant of its module, and with what the bullet says.

Connection, queries and the event hub:

* `QueryTableSound`, `WaitersStayReachable`: the inductive invariant says that a
  table entry and an open receiver determine one another, except for ghosts; the bare
  property is not inductive because removal goes by tag.
* `QueriesEndWithConnection`: strengthened by where the closing call stands
  (flag set, swept) against where each caller stands (before or after its
  check of the flag).
* `ClosedResultIsReal`: a task inside `mark_closed` has set the flag before it resolves
  anything (`TasksClosed`), and `next_tag` hands no tag out twice (`TagsOnce`), so a
  result cannot reach a later query of the same tag.
* `ClosedAnnouncedOnce`: at most one process holds the right to emit, namely the
  one whose swap saw `false`.
* `CloseOkMeansDown`: `DownInv` relates where the closing call stands to the tasks it
  has joined; a call that closes alone finds both handles, and the announcement is owed by the
  task whose swap set the flag, which is one it joins.
* `AcceptedFramesFlushed`: the `Close` command is behind every frame accepted
  before it.

Received messages (`IncomingEvents`, `DurableEvents`, `PlaceholderResend`):

* `AckedIsSafe`: what is in the buffer or in a batch comes from the node in work, a
  positive answer is given only for that node, and what was acknowledged is kept, was lost
  with its node, or is in the processor's hands (`AckInv`); what passes through the hub was
  issued (`PassInv`).
* `NoSilentGap`: while the hub drops nothing, what it passed on and what it still has are the
  same (`GapInv`).  An item comes once in a node, so that the processor leaves a node exactly
  at its last item; a node's items joined to those of the events after it are what is due
  (`FlattenConcat`, from the recursive function in `FlattenSeq` by taking a shortest sequence
  for which it fails).
* `NewestWins`: an old item can come again only with every newer one that was stored.
  Items come in the order they were issued (`OrderInv`) and are answered in that order
  (`AnswerInv`), so when the server has an answer for an item and none for an older one, the
  older one is still ahead of the processor, or was missed (`ServerInv`); the backlog is all that
  is unanswered, so that a node with an old item has all newer ones that were stored (`WholeInv`).
  What is in hand for a record is the newest of the items taken (`HeldInv`), and writing that
  over the stored record keeps it as new as everything stored (`StoredInv`).
* `ImplementsPromise`: every step of `IncomingEvents` is a step of `DurableEvents` or
  a stutter, under the mapping of the runs.  The mapping needs reachable states
  (`RefInv`): the buffer is filled only while a node is processed or answered, a batch exists
  only while it is stored, and an update that waits for its message is of a key
  whose message is early or finds the message stored.  The maps' facts are those
  about `MergeEach` and `Over` (associative, the last one wins).
* `PendingStaysBounded`: every record has an entry in the queue, so that popping
  always reaches enough records; without this fact, an empty queue could
  leave too many.
* `OneHolderPerId`: a task still has the record of each id that it has not
  lost, so begin's check excludes a second holder, and a rollback by id of a lost
  id tells the new holder.
* `PendingStaysWanted`: inductive as it stands.

Application state (`AppState`):

* `StoredIsServers`, `HistoryVerifies`, `EmittedOrAbandoned`: `SyncInv` follows a state from
  the read to the write.  Each task that carries a state carries the server's state of that
  version (`Follows`), and the events up to that version have been seen or the task still has
  them (`Covers`), whatever other tasks wrote since.
* `NeverBackAlone` (an action property): while no two calls overlap, what the running call has
  read of the stored state is still so (`AloneInv`), so that the write cannot go back.
* `BehindMeansParked`: a notification that is not taken yet stands for all that follows the
  stored version (`Told`, `Level`).  As long as nothing failed or overlapped, each collection is
  level, or parked for a key that is not stored (`Waits`), or on the list of the running call:
  still to be asked for, answered, downloaded as a snapshot or due in another round
  (`Handles`).  To hand a collection from one list to the next the call must know that an
  answer goes on where the stored state ends and brings all there is unless it says otherwise
  (`GoesOn`), and that a collection it is about to park still lacks its key (`Knows`).  The
  proof shows why each premise of `Smooth` is there: a failed call drops its list, an
  overlapping one may take away the key or the version it counts on, and an unread snapshot
  leaves the collection behind with nothing to wake it.

Pre-keys (`PreKeys`):

* `ServedKeysStored`: strengthened to keys under way (pending or late) and by their
  ids being below `next_pre_key_id`; it needs that `self.credentials` and the store agree
  on both counters, because `save_credentials` writes the whole of the former.
* `ConfirmedUploaded`: the ids from `first_unuploaded_pre_key_id` to the end of the
  running batch are in the pending request, or taken once it is answered.
* `SignedKeysInStep`: strengthened by what the pending request carries and by the
  window between an applied rotation and its save.

Groups (`GroupMessages`):

* `IterationUnique`: every message that was sent, or that a task carries, is
  behind the chain of its key, and a new key is a number not used before.
* `DistributedBefore`: a distribution that a task has loaded stays usable until
  the task encrypts, since the author's key can only advance (it is deleted only
  while nobody sends), and a task past its distributions has sent them all.
* `ResendableKept`: a handler that has passed its resend has sent it, so the
  removal that follows finds it in `net`.
* `GroupAtMostOnce`: what the member has accepted is behind the chain of its key, and
  each iteration behind the chain is stored, lost or accepted (`MemberInv`); no two records of
  one key are held.
* `MemberDecrypts`: in addition, iterations stay below the number of messages begun, so that the
  forward limit is out of reach (`BoundInv`).

One-to-one sessions (`SignalSession`), in the order in which the proofs build on one another:

* `KeyNeverReused` (`KeyInv`): who sends on a chain is ahead of every message on it and alone on
  it; a chain is derived with a fresh key pair, and no key of the network names one.
* `ValidationNeverRefuses` (`SkippedInv`): a ratchet key goes with one chain (`Paired`), and each
  skipped key is that of a message, is no longer than the receiving chain and behind it
  (`SkippedOf`).  What `Push`, `PushAll`, `StoreSkipped` and `Advance` do to a record are lemmas
  of their own; `PushAll` is a recursive function, whose facts are proved by taking the least
  index at which they fail.
* `PreKeyUsedOnce` (`PreKeyInv`): the one-time pre-key of an accepted message is gone, and a
  session that the peer began was set up by an accepted message.
* `AtMostOnce` (`Spent`): an accepted message is behind the session it belongs to.
* `SameSessionDecrypts` (`Dialogue`): the property says nothing of the other party, and so is far
  from inductive.  The invariant states what the two ends know of each other: the chains of a
  session are prefixes of one another (`OneLine`) and answer one another in turn (`Answered`), each
  has one sender and ratchet key (`ChainOwner`), the `previous_counter` of a message covers its
  sender's chain before (`PrevSound`); a record is one chain ahead of what it received on
  or yet to answer it (`Standing`), what its owner sent is on the record's line (`SentBefore`), and
  for what it was sent and has not decrypted it keeps a key, or the chain to derive it from
  (`KeepsOwed`).  `Silent` keeps a replayed first message from setting up a session
  its receiver has answered.

Sessions and identities (`SessionRecords`):

* `RecordsPaired`: each transaction writes or deletes the two records of a pair
  together; needs what each waiting task has read (the type invariant, by position).
* `IdentityStays`: an action property; each writer has checked the transition in its
  own transaction or drops the pair.
* `AssertedStaysUsable`: a copy is usable because the pair agrees; a migration
  moves both records of a kind or neither and takes the address off the list.
* `KeysUsedOnce`: ratchets that were not copied are at one address only, and a session
  is past every message its ratchet has sent.
* `LocksNeverCircular`: a task's remaining locks are all above those it holds, so
  the holder of the greatest lock that is waited for waits for a greater one, which
  is impossible in a finite set of addresses.

Only model-checked: liveness (`ENABLED` and fairness are out of the prover's reach).

## Findings

* `prekeys_pending`: when an upload reaches the server and its answer is lost, a
  peer may consume a key that the client still counts as not uploaded; every later
  `prepare_pre_key_upload` then fails with "missing pre-key", and uploads do not
  resume, against "maintain the count" in `wiki/flows/pairing.md`.
* `app_state_forgotten`: the processors resume a parked collection without the
  download of snapshots; when the server answers with a snapshot, the parked entry is deleted
  and the reference is dropped, so the collection stays behind with nothing to retry,
  against `wiki/concepts/app-state-sync.md`.

Observed while modelling, without a run:

* When the sink fails to close, `close()` returns early: `Closed` is never
  announced and the inbound task is not aborted (`connection.rs:143`);
  `ClosedAnnouncedUnlessSinkFails` is stated accordingly.
* The placeholder tracker's order queue grows with every answered request.
* A newer distribution moves a member's chain ahead without storing the keys it
  passes (`signal.rs:3073`), and the client sends one with every message: messages
  that are overtaken by a later one's distribution are lost.  The wiki
  (`signal-protocol.md:59`) speaks of one distribution per group.
* A resend that went out to one device removes the message for all
  (`lib.rs:5307`): a second device's retry finds nothing.
* A session that `assert_sessions` copies from the LID to the phone number is one ratchet at
  two addresses: both encrypt with the same message keys from then on
  (`lib.rs:4728`).
* A bundle that was read before another identity was injected is stored as the session
  afterwards (`signal.rs:694`), when the injection has dropped the records that
  would refuse it.
* First messages from both sides at once leave the two ends in different sessions until a
  retry (`signal.rs:757`).

## What is not modelled

* Generated code (`wa-proto`), token tables, protobuf and stanza layouts, formatting
  and validation of strings: conversions without state.
* Cryptographic primitives: keys are their histories, signatures and MACs hold
  exactly when the keys are equal.
* Poisoned locks, out-of-memory, process crashes during a connection (nothing of it
  is persisted).
* In `SessionRecords`: the raw setters of one record, records that do not decode,
  a LID mapping that is learned while the client runs, the removal of dead locks from
  the table.  Signed pre-key rotation is in `PreKeys`, but the sessions of
  `SignalSession` keep one signed pre-key.
* The server's handling of keys it knows already: in `PreKeys` an upload replaces
  keys of the same ids.
* In `IncomingEvents`: the enrichment of call, group and poll events, retry
  receipts the processor sends, kinds of nodes that are not answered.  In `AppState`: the
  variants that are handed one key, external blobs of mutations, the content of mutations.
* The choice of the session action and the counters of message retry; the counters are
  not used by the client.  The sender-key memory, which nothing reads.
* The components without a tick in the plan: transport, store back ends, send path
  (device lists, tokens), media, pairing messages.
