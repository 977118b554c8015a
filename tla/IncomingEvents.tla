---------------------------- MODULE IncomingEvents ----------------------------
(****************************************************************************)
(* The incoming processor of the client (spawn_incoming_processor): the task*)
(* that takes raw nodes from the event hub, decrypts and buffers them,      *)
(* answers the server, stores the events and emits them to the application. *)
(*                                                                          *)
(* Environment: the server keeps an item until it is answered and delivers  *)
(* the unanswered ones again, as one "offline" node, when the client next   *)
(* connects (external, from how process_offline_node reads that node).      *)
(* Connections are lost, the process crashes, the store or a query of the   *)
(* side effects fails.  The application spawns one processor per connection,*)
(* after connect has returned (as the examples do), and no second one before*)
(* the first has ended.                                                     *)
(*                                                                          *)
(* Abstracted: the content of a node is the batch of events it makes; a     *)
(* message decrypts exactly once (module SignalSession); the call, group and*)
(* poll events that are enriched from the store; placeholder resolution     *)
(* (module PlaceholderResend); kinds of nodes that are not answered.        *)
(****************************************************************************)
EXTENDS EventBuffer, SequencesExt

CONSTANTS
    MessageKeys, Fields, ContactKeys, ReceiptKeys,
    HubCapacity,       \* EventHub::new(1024)
    MaxWork            \* bound: items the server issues plus connections made

ASSUME IncomingAssumption == HubCapacity \in Nat \ {0} /\ MaxWork \in Nat

VARIABLES
    stream,       \* items issued by the server, in order
    unanswered,   \* items the server has no answer for
    link,         \* "down" | "opening" | "up", or "dead": lost, and not noticed yet
    connections,  \* connections made so far
    hub,          \* what the processor has not received yet of the hub's events
    lagged,       \* the hub dropped events the processor had not received
    pc,           \* where the processor is; "off" before it is spawned
    node,         \* the items of the node it is working on
    answers,      \* answers to send for that node: [item, ok]
    buf,          \* the processor's event buffer
    batch,        \* what it drained from it
    store,        \* durable records
    opened,       \* items whose message was decrypted (the session is durable)
    \* history, read by the properties only
    taken,        \* items of that node whose events are in the buffer or the batch
    early,        \* message keys updated while no message was stored or buffered
    due,          \* items the hub passed to this processor, not yet processed
    missed,       \* items delivered on a connection before its processor was spawned
    acked,        \* items a positive answer was sent for
    kept,         \* items whose events have all been stored
    lost          \* items answered positively, not stored when the processor ended

server == <<stream, unanswered>>
network == <<link, connections>>
queue == <<hub, lagged, due, missed>>
history == <<taken, early, acked, kept, lost>>
vars == <<stream, unanswered, link, connections, hub, lagged, pc, node, answers,
          buf, batch, store, opened, taken, early, due, missed, acked, kept, lost>>

-----------------------------------------------------------------------------
(* Inputs: what the server issues as item n.                                *)

Item(sealed, events) == [sealed |-> sealed, batch |-> events]

\* A message; one that edits or revokes another (protocol messages are stored
\* themselves, too); a sealed one is encrypted, another one the placeholder of a
\* message that is unavailable.
Message(n, sealed, k) ==
    LET text == CHOOSE f \in Fields : TRUE
    IN  Item(sealed, [EmptyBatch EXCEPT !.upsert = Entry(k, Entry(text, n))])

Edit(n, k, j, f) ==
    LET message == Message(n, TRUE, k)
    IN  Item(TRUE, [message.batch EXCEPT !.update = Entry(j, Entry(f, n))])

Revocation(n, k, j) ==
    LET message == Message(n, TRUE, k)
    IN  Item(TRUE, [message.batch EXCEPT !.delete = {j}])

MessageItems(n) ==
    LET text == CHOOSE f \in Fields : TRUE
        others == {p \in MessageKeys \X MessageKeys : p[1] # p[2]}
    IN  {Message(n, s, k) : s \in BOOLEAN, k \in MessageKeys}
        \cup {Edit(n, p[1], p[2], f) : p \in others, f \in Fields \ {text}}
        \cup {Revocation(n, p[1], p[2]) : p \in others}

\* A receipt; a notification, which is handed on as it came and may update a
\* contact.
Receipt(n, r) == Item(FALSE, [EmptyBatch EXCEPT !.receipts = Entry(r, n)])

Notification(n, c, f) ==
    Item(FALSE, [EmptyBatch EXCEPT !.contacts = Entry(c, Entry(f, n)), !.immediate = <<n>>])

OtherItems(n) ==
    {Receipt(n, r) : r \in ReceiptKeys}
    \cup {Notification(n, c, f) : c \in ContactKeys, f \in Fields}

-----------------------------------------------------------------------------
(* The hub and the connection.                                              *)

Subscribed == pc \notin {"off", "ended"}

\* A broadcast channel: a receiver that is more than its capacity behind loses
\* the oldest events and is told so.
Hear(events) ==
    LET all  == hub \o events
        over == IF Len(all) > HubCapacity THEN Len(all) - HubCapacity ELSE 0
    IN  IF Subscribed
        THEN /\ hub' = SubSeq(all, over + 1, Len(all))
             /\ lagged' = (lagged \/ over > 0)
        ELSE UNCHANGED <<hub, lagged>>

NodeEvent(items) == [type |-> "node", items |-> items]
ClosedEvent == [type |-> "closed", items |-> << >>]
OtherEvent == [type |-> "other", items |-> << >>]

HearNode(items) ==
    /\ Hear(<<NodeEvent(items)>>)
    /\ due' = IF Subscribed THEN due \o items ELSE due
    /\ missed' = IF pc = "off" THEN missed \cup ToSet(items) ELSE missed

\* Issued while the client is connected, an item arrives as a node of its own.
ServerIssue ==
    /\ Len(stream) + connections < MaxWork
    /\ link # "opening"
    /\ \E item \in MessageItems(Len(stream) + 1) \cup OtherItems(Len(stream) + 1) :
           stream' = Append(stream, item)
    /\ unanswered' = unanswered \cup {Len(stream')}
    /\ IF link = "up" THEN HearNode(<<Len(stream')>>) ELSE UNCHANGED queue
    /\ UNCHANGED <<network, pc, node, answers, buf, batch, store, opened, history>>

Connect ==
    /\ link = "down"
    /\ ~ Subscribed
    /\ Len(stream) + connections < MaxWork
    /\ connections' = connections + 1
    /\ link' = "opening"
    /\ pc' = "off"
    /\ UNCHANGED <<server, queue, node, answers, buf, batch, store, opened, history>>

\* The one sequence of the items of a set that has them in order.
InOrder(items) ==
    {s \in [1..Cardinality(items) -> items] : \A i, j \in DOMAIN s : i < j => s[i] < s[j]}

DeliverBacklog ==
    /\ link = "opening"
    /\ link' = "up"
    /\ IF unanswered = {} THEN UNCHANGED queue
       ELSE \E items \in InOrder(unanswered) : HearNode(items)
    /\ UNCHANGED <<server, connections, pc, node, answers, buf, batch, store, opened, history>>

\* Nothing passes any more, and the client has not noticed.
LinkDies ==
    /\ link \in {"opening", "up"}
    /\ link' = "dead"
    /\ UNCHANGED <<server, connections, queue, pc, node, answers, buf, batch, store, opened, history>>

Disconnect ==
    /\ link # "down"
    /\ link' = "down"
    /\ Hear(<<ClosedEvent>>)
    /\ UNCHANGED <<server, connections, due, missed, pc, node, answers, buf, batch, store, opened, history>>

-----------------------------------------------------------------------------
(* The processor.                                                           *)

Spawn ==
    /\ pc = "off"
    /\ link # "down"
    /\ pc' = "recv"
    /\ hub' = << >>
    /\ lagged' = FALSE
    /\ due' = << >>
    /\ UNCHANGED <<server, network, node, answers, buf, batch, store, opened,
                   missed, taken, early, acked, kept, lost>>

\* The task returns, with an error or not: what it had not stored is gone.
Ends(state) ==
    /\ pc' = state
    /\ node' = << >>
    /\ answers' = << >>
    /\ buf' = EmptyBatch
    /\ batch' = EmptyBatch
    /\ hub' = << >>
    /\ lagged' = FALSE
    /\ lost' = lost \cup ((ToSet(node) \cap taken \cap acked) \ kept)
    /\ taken' = {}
    /\ due' = << >>
    /\ UNCHANGED <<store, missed, early, acked, kept>>

\* The connection closed, or the hub dropped events: the processor returns.
RecvEnd ==
    /\ pc = "recv"
    /\ lagged \/ (hub # << >> /\ Head(hub) = ClosedEvent)
    /\ Ends("ended")
    /\ UNCHANGED <<server, network, opened>>

\* Mutant: the processor goes on with the oldest event the hub still has.
RecvNodeAfterLag ==
    /\ pc = "recv"
    /\ hub # << >>
    /\ Head(hub).type = "node"
    /\ pc' = "process"
    /\ node' = Head(hub).items
    /\ hub' = Tail(hub)
    /\ lagged' = FALSE
    /\ UNCHANGED <<server, network, due, missed, answers, buf, batch, store, opened, history>>

RecvNode ==
    /\ pc = "recv"
    /\ ~ lagged
    /\ hub # << >>
    /\ Head(hub).type = "node"
    /\ pc' = "process"
    /\ node' = Head(hub).items
    /\ hub' = Tail(hub)
    /\ UNCHANGED <<server, network, lagged, due, missed, answers, buf, batch, store, opened, history>>

RecvOther ==
    /\ pc = "recv"
    /\ ~ lagged
    /\ hub # << >>
    /\ Head(hub) = OtherEvent
    /\ hub' = Tail(hub)
    /\ UNCHANGED <<server, network, lagged, due, missed, pc, node, answers, buf, batch, store, opened, history>>

\* The records once what the processor holds of each kind is stored.
Held(kinds) == IF pc \in {"process", "respond"} THEN buf
               ELSE IF pc \in kinds THEN batch ELSE EmptyBatch

MessagesView == PersistMessages(store, Held({"messages"})).messages
ContactsView == PersistState(store, Held({"messages", "state"})).contacts
ReceiptsView ==
    PersistInteractions(store, Held({"messages", "state", "interactions"})).receipts

\* process_inbound_node: a message that decrypts, and everything else, goes into
\* the buffer and is acknowledged; a message that does not is refused.
ProcessItem ==
    LET n == node[Len(answers) + 1]
        refused == stream[n].sealed /\ n \in opened
        events == IF refused THEN EmptyBatch ELSE stream[n].batch
        held == DOMAIN MessagesView \cup DOMAIN events.upsert
    IN  /\ pc = "process"
        /\ Fits(buf, events)
        /\ buf' = ApplyBatch(buf, events)
        /\ pc' = IF n = Last(node) THEN "respond" ELSE "process"
        /\ opened' = IF stream[n].sealed THEN opened \cup {n} ELSE opened
        /\ answers' = Append(answers, [item |-> n, ok |-> ~ refused])
        /\ taken' = IF refused THEN taken ELSE taken \cup {n}
        /\ due' = Tail(due)
        /\ early' = early \cup (DOMAIN events.update \ held)
        /\ UNCHANGED <<server, network, hub, lagged, missed, node, batch, store, acked, kept, lost>>

\* The buffer is full: the push fails, after the message was decrypted.
ProcessOverflow ==
    LET n == node[Len(answers) + 1]
    IN  /\ pc = "process"
        /\ ~ (stream[n].sealed /\ n \in opened)
        /\ ~ Fits(buf, stream[n].batch)
        /\ opened' = IF stream[n].sealed THEN opened \cup {n} ELSE opened
        /\ Ends("ended")
        /\ UNCHANGED <<server, network>>

\* Mutant: the buffer is drained only when half of it is used.
RespondThenCollect ==
    /\ pc = "respond"
    /\ link # "down"
    /\ unanswered' = IF link = "dead" THEN unanswered ELSE unanswered \ {Head(answers).item}
    /\ acked' = IF Head(answers).ok THEN acked \cup {Head(answers).item} ELSE acked
    /\ answers' = Tail(answers)
    /\ IF Len(answers) > 1
       THEN UNCHANGED <<pc, node, buf, batch>>
       ELSE IF 2 * PendingItems(buf) < MaxPendingItems
       THEN pc' = "recv" /\ node' = << >> /\ UNCHANGED <<buf, batch>>
       ELSE pc' = "messages" /\ batch' = buf /\ buf' = EmptyBatch /\ UNCHANGED node
    /\ UNCHANGED <<stream, network, queue, store, opened, taken, early, kept, lost>>

\* connection.send_node(response), item by item.  After the last one the buffer is
\* drained.
Respond ==
    /\ pc = "respond"
    /\ link # "down"
    /\ unanswered' = IF link = "dead" THEN unanswered ELSE unanswered \ {Head(answers).item}
    /\ acked' = IF Head(answers).ok THEN acked \cup {Head(answers).item} ELSE acked
    /\ answers' = Tail(answers)
    /\ IF Len(answers) > 1
       THEN UNCHANGED <<pc, buf, batch>>
       ELSE pc' = "messages" /\ batch' = buf /\ buf' = EmptyBatch
    /\ UNCHANGED <<stream, network, queue, node, store, opened, taken, early, kept, lost>>

RespondFails ==
    /\ pc = "respond"
    /\ link = "down"
    /\ Ends("ended")
    /\ UNCHANGED <<server, network, opened>>

\* persist_receive_events: one transaction per group of kinds.
PersistStep(from, to, stored) ==
    /\ pc = from
    /\ pc' = to
    /\ store' = stored
    /\ kept' = IF to = "effects" THEN kept \cup taken ELSE kept
    /\ UNCHANGED <<server, network, queue, node, answers, buf, batch, opened,
                   taken, early, acked, lost>>

Persist ==
    \/ PersistStep("messages", "state", PersistMessages(store, batch))
    \/ PersistStep("state", "interactions", PersistState(store, batch))
    \/ PersistStep("interactions", "effects", PersistInteractions(store, batch))

\* The store, or a query of the side effects, returns an error.
PersistFails ==
    /\ pc \in {"messages", "state", "interactions", "effects"}
    /\ Ends("ended")
    /\ UNCHANGED <<server, network, opened>>

\* The side effects of the node, then the drained events: the hub passes them to
\* every subscriber, the processor itself included.
Emit ==
    LET grouped == [batch EXCEPT !.immediate = << >>] # EmptyBatch
        events == [i \in 1..(Len(batch.immediate) + IF grouped THEN 1 ELSE 0) |-> OtherEvent]
    IN  /\ pc = "effects"
        /\ pc' = "recv"
        /\ Hear(events)
        /\ taken' = {}
        /\ node' = << >>
        /\ batch' = EmptyBatch
        /\ UNCHANGED <<server, network, due, missed, answers, buf, store, opened,
                       early, acked, kept, lost>>

Crash ==
    /\ Subscribed
    /\ link' = "down"
    /\ Ends("off")
    /\ UNCHANGED <<server, connections, opened>>

Init ==
    /\ stream = << >> /\ unanswered = {}
    /\ link = "down" /\ connections = 0
    /\ hub = << >> /\ lagged = FALSE /\ due = << >>
    /\ pc = "off" /\ node = << >> /\ answers = << >>
    /\ buf = EmptyBatch /\ batch = EmptyBatch
    /\ store = EmptyStore /\ opened = {}
    /\ missed = {} /\ early = {} /\ acked = {} /\ taken = {} /\ kept = {} /\ lost = {}

Next ==
    \/ ServerIssue \/ Connect \/ DeliverBacklog \/ LinkDies \/ Disconnect
    \/ Spawn \/ RecvEnd \/ RecvNode \/ RecvOther
    \/ ProcessItem \/ ProcessOverflow
    \/ Respond \/ RespondFails
    \/ Persist \/ PersistFails \/ Emit \/ Crash

Spec == Init /\ [][Next]_vars
-----------------------------------------------------------------------------
TypeOK ==
    /\ unanswered \subseteq DOMAIN stream
    /\ link \in {"down", "opening", "up", "dead"}
    /\ connections \in 0..MaxWork
    /\ Len(hub) <= HubCapacity
    /\ pc \in {"off", "recv", "process", "respond", "messages", "state",
               "interactions", "effects", "ended"}
    /\ ToSet(node) \subseteq DOMAIN stream
    /\ PendingItems(buf) <= MaxPendingItems
    /\ DOMAIN store.messages \subseteq MessageKeys
    /\ DOMAIN store.updates \subseteq MessageKeys \ DOMAIN store.messages
    /\ opened \subseteq DOMAIN stream

\* The processor answers before it stores, so an item the server will not deliver
\* again can be lost; but only with the node the processor was working on when it
\* ended, never an item of a node it had finished.
AckedIsSafe == acked \subseteq kept \cup ToSet(node) \cup lost

\* A processor that runs has skipped nothing: the hub drops events of a slow
\* subscriber, and the processor returns an error rather than go on behind the gap.
NoSilentGap ==
    Subscribed /\ ~ lagged =>
        due = SubSeq(node, IF pc = "process" THEN Len(answers) + 1 ELSE Len(node) + 1, Len(node))
                  \o FlattenSeq([i \in DOMAIN hub |-> hub[i].items])

ItemsOf(kind, key) == {n \in DOMAIN stream : key \in DOMAIN stream[n].batch[kind]}

\* The server delivers unanswered receipts and notifications again, also ones that
\* were stored and followed by newer ones.  In spite of the replays each record is
\* at least as new as everything stored for it, unless one of its items went by on
\* a connection before the processor had subscribed (it then comes back, alone,
\* after newer ones).
NewestWins ==
    /\ \A r \in ReceiptKeys :
          ItemsOf("receipts", r) \cap missed = {} =>
              \A n \in kept \cap ItemsOf("receipts", r) : store.receipts[r] >= n
    /\ \A c \in ContactKeys :
          ItemsOf("contacts", c) \cap missed = {} =>
              \A n \in kept \cap ItemsOf("contacts", c) :
                  \A f \in DOMAIN stream[n].batch.contacts[c] :
                      store.contacts[c][f] >= n

\* The buffer, the transactions and the replays together implement the plain
\* sequence of events of DurableEvents: its records are the stored ones with what
\* the processor holds written over them, and the durable ones are the stored ones.
Promise == INSTANCE DurableEvents WITH
    messages     <- Without(MessagesView, early),
    contacts     <- ContactsView,
    receipts     <- ReceiptsView,
    keptMessages <- Without(store.messages, early),
    keptContacts <- store.contacts,
    keptReceipts <- store.receipts,
    applied      <- opened

ImplementsPromise == Promise!Spec
=============================================================================
