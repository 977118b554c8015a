------------------------------- MODULE AppState -------------------------------
(****************************************************************************)
(* App-state sync (app_state.rs of wa-core and the client methods around    *)
(* it): the client keeps one versioned state per collection, fetches the    *)
(* patches and snapshots it lacks from the server, parks a collection whose *)
(* key it does not have, takes it up again when the key is shared, and      *)
(* uploads patches of its own.                                              *)
(*                                                                          *)
(* Tasks: the incoming processor, which handles server_sync notifications   *)
(* and key shares one after the other, and the application's own calls,     *)
(* which take &self and so run next to it and to each other.  Every store   *)
(* access and every query is an await, hence a step of its own.  Where two  *)
(* awaits are one step here, nothing another task does between them can be  *)
(* told apart (a key is never removed; deleting twice is deleting once).    *)
(*                                                                          *)
(* Environment: the server orders the patches of a collection, accepts one  *)
(* that is based on the newest version only, notifies the client of patches *)
(* of other devices, and answers a request with any page of patches or, at  *)
(* version 0 (return_snapshot), with a snapshot and maybe patches that      *)
(* follow it.  The phone shares each key once.                              *)
(*                                                                          *)
(* Abstracted: encryption and MACs are the equality they check.  The        *)
(* LT-hash of a collection is the map it sums over.  A mutation sets an     *)
(* index to a fresh value (named by its version) or removes it.  The        *)
(* variants that are handed one key by their caller are left out, as is     *)
(* what the application does with a snapshot reference it is returned.      *)
(****************************************************************************)
EXTENDS Maps, Naturals, FiniteSets, Sequences

CONSTANTS
    Collections, Keys,
    KnownKeys,      \* keys stored from the start
    Mutations,      \* what a patch may do: set or remove an index
    AppTasks,       \* concurrent calls of the application
    Recovering,     \* the processor is a variant that downloads snapshots
    Uploading,      \* the application uploads patches
    MaxRounds,      \* DEFAULT_APP_STATE_SERVER_SYNC_RESYNC_ROUNDS
    MaxPatches,     \* bound: patches on the server, all collections together
    MaxCalls,       \* bound: calls of the application
    MaxFaults       \* bound: failures of the environment

ASSUME AppStateAssumption ==
    /\ KnownKeys \subseteq Keys
    /\ Recovering \in BOOLEAN /\ Uploading \in BOOLEAN
    /\ MaxRounds \in Nat \ {0}

Processor == "processor"
Tasks == {Processor} \cup AppTasks

VARIABLES
    history,    \* server: the patches of each collection
    shared,     \* keys the phone has shared
    inbox,      \* notifications and key shares the processor has not taken yet
    stored,     \* AppStateSyncVersion: the state of each collection
    keys,       \* AppStateSyncKey: the keys in the store
    blocked,    \* AppStateSyncBlocked: the parked collections, with the key each needs
    task,       \* what each task is doing
    calls,      \* calls of the application so far
    faults,     \* failures of the environment so far
    \* history, read by the properties only
    emitted,    \* patches whose events were emitted, as <<collection, version>>
    abandoned,  \* patches whose events were held by a task that failed
    failed,     \* a task has failed
    overlapped, \* two tasks have run at the same time
    dropped     \* a snapshot reference was left unread

vars == <<history, shared, inbox, stored, keys, blocked, task, calls, faults,
          emitted, abandoned, failed, overlapped, dropped>>

-----------------------------------------------------------------------------
(* States and patches.                                                      *)

Empty == [version |-> 0, macs |-> << >>]

\* advance_with_hash_mutations
Advance(state, mutation) ==
    LET version == state.version + 1
    IN  [version |-> version,
         macs    |-> IF mutation.set THEN With(state.macs, mutation.index, version)
                     ELSE Without(state.macs, {mutation.index})]

\* build_app_state_patch_bundle: the patch carries the MAC of the state it makes.
Bundle(state, key, mutation) ==
    [key |-> key, version |-> state.version + 1, mutation |-> mutation,
     mac |-> Advance(state, mutation).macs]

\* decode_app_state_patch: the version follows and the MAC of the result agrees.
Decodes(state, patch) ==
    /\ patch.version = state.version + 1
    /\ Advance(state, patch.mutation).macs = patch.mac

\* The state a device that has followed the server up to version n has.
StateAt(c, n) ==
    IF n = 0 THEN Empty ELSE [version |-> n, macs |-> history[c][n].mac]

Newest(c) == StateAt(c, Len(history[c]))

-----------------------------------------------------------------------------
(* Tasks.                                                                   *)

Idle == [pc |-> "idle", held |-> {}]

Busy(t) == task[t].pc # "idle"

\* A round of requests for the collections in todo, or the end of the call.
Round(rounds, todo, recover) ==
    IF todo = {} THEN Idle
    ELSE [pc |-> "load", held |-> {}, recover |-> recover, rounds |-> rounds,
          todo |-> todo, requests |-> << >>]

Begin(t, call) ==
    /\ ~ Busy(t)
    /\ task' = [task EXCEPT ![t] = call]
    /\ overlapped' = (overlapped \/ \E u \in Tasks : Busy(u))

AppBegin(t, call) ==
    /\ calls < MaxCalls
    /\ calls' = calls + 1
    /\ Begin(t, call)
    /\ UNCHANGED faults

Goto(t, next) ==
    /\ task' = [task EXCEPT ![t] = next]
    /\ UNCHANGED overlapped

\* The call returns an error and the outcome it had put together is gone.
Fail(t) ==
    /\ Goto(t, Idle)
    /\ failed' = TRUE
    /\ abandoned' = abandoned \cup task[t].held
    /\ UNCHANGED <<emitted, dropped>>

server == <<history, shared, inbox>>
store == <<stored, keys, blocked>>
bounds == <<calls, faults>>
outcomes == <<emitted, abandoned, failed, dropped>>

-----------------------------------------------------------------------------
(* The server and the phone.                                                *)

Room == Cardinality(UNION {{c} \X DOMAIN history[c] : c \in Collections}) < MaxPatches

\* Another device uploads a patch; the client is notified.
OtherDevice ==
    /\ Room
    /\ \E c \in Collections, k \in Keys, m \in Mutations :
           /\ history' = [history EXCEPT ![c] = Append(@, Bundle(Newest(c), k, m))]
           /\ inbox' = inbox \cup {[type |-> "sync", of |-> c]}
    /\ UNCHANGED <<shared, store, task, bounds, outcomes, overlapped>>

ShareKey ==
    /\ \E k \in Keys \ (KnownKeys \cup shared) :
           /\ shared' = shared \cup {k}
           /\ inbox' = inbox \cup {[type |-> "share", of |-> k]}
    /\ UNCHANGED <<history, store, task, bounds, outcomes, overlapped>>

\* What the server may answer for a collection requested from version v.
Answers(c, v) ==
    LET newest == Len(history[c])
        page(from, to, snap) ==
            [next |-> from + 1, last |-> to, snap |-> snap, more |-> to < newest]
    IN  {page(v, to, 0) : to \in (IF v < newest THEN v + 1 ELSE v)..newest}
        \cup UNION {{page(s, to, s) : to \in s..newest} : s \in IF v = 0 THEN 1..newest ELSE {}}

-----------------------------------------------------------------------------
(* Starting a call.                                                         *)

\* handle_server_sync_notification
TakeNotification ==
    /\ \E item \in inbox :
           /\ item.type = "sync"
           /\ inbox' = inbox \ {item}
           /\ Begin(Processor, Round(MaxRounds, {item.of}, Recovering))
    /\ UNCHANGED <<history, shared, store, bounds, outcomes>>

\* handle_app_state_sync_key_share_events: the key is saved, ...
TakeKeyShare ==
    /\ \E item \in inbox :
           /\ item.type = "share"
           /\ inbox' = inbox \ {item}
           /\ keys' = keys \cup {item.of}
           /\ Begin(Processor, [pc |-> "shared", held |-> {}, key |-> item.of])
    /\ UNCHANGED <<history, shared, stored, blocked, bounds, outcomes>>

\* Mutant: a collection that has a state already is not requested again.
FindBlockedNew ==
    /\ task[Processor].pc = "shared"
    /\ LET waiting == {c \in DOMAIN blocked : /\ blocked[c].key = task[Processor].key
                                             /\ stored[c].version = 0}
       IN  Goto(Processor, Round(MaxRounds, waiting, FALSE))
    /\ UNCHANGED <<server, store, bounds, outcomes>>

\* ... then the collections that wait for it are requested, by all variants of the
\* processor without the download of snapshots.
FindBlocked ==
    /\ task[Processor].pc = "shared"
    /\ LET waiting == {c \in DOMAIN blocked : blocked[c].key = task[Processor].key}
       IN  Goto(Processor, Round(MaxRounds, waiting, FALSE))
    /\ UNCHANGED <<server, store, bounds, outcomes>>

\* sync_[recover_]and_apply_app_state_until_current_with_store_keys
AppSync(t) ==
    /\ \E todo \in (SUBSET Collections) \ {{}}, recover \in BOOLEAN :
           AppBegin(t, Round(MaxRounds, todo, recover))
    /\ UNCHANGED <<server, store, outcomes>>

\* sync_[recover_]app_state_blocked_collections_with_store_keys
AppRetry(t) ==
    /\ LET ready == {c \in DOMAIN blocked : blocked[c].key \in keys}
       IN  /\ ready # {}
           /\ \E recover \in BOOLEAN : AppBegin(t, Round(MaxRounds, ready, recover))
    /\ UNCHANGED <<server, store, outcomes>>

-----------------------------------------------------------------------------
(* A round: request, apply, emit.                                           *)

\* Mutant: the newest version is asked for as a snapshot every time.
LoadAnew(t) ==
    /\ task[t].pc = "load"
    /\ \E c \in task[t].todo :
           Goto(t, [task[t] EXCEPT !.requests = With(@, c, 0),
                                   !.todo = @ \ {c},
                                   !.pc = IF task[t].todo = {c} THEN "query" ELSE "load"])
    /\ UNCHANGED <<server, store, bounds, outcomes>>

\* load_app_state_patch_state for each request
Load(t) ==
    /\ task[t].pc = "load"
    /\ \E c \in task[t].todo :
           Goto(t, [task[t] EXCEPT !.requests = With(@, c, stored[c].version),
                                   !.todo = @ \ {c},
                                   !.pc = IF task[t].todo = {c} THEN "query" ELSE "load"])
    /\ UNCHANGED <<server, store, bounds, outcomes>>

\* The rest of a round, once the server has answered.
Applying(t, pc, answers, snaps, more) ==
    [pc |-> pc, held |-> task[t].held, recover |-> task[t].recover,
     rounds |-> task[t].rounds, answers |-> answers, snaps |-> snaps, more |-> more]

Answer(t) ==
    /\ task[t].pc = "query"
    /\ LET requests == task[t].requests
       IN  \E answers \in [DOMAIN requests -> UNION {Answers(c, requests[c]) : c \in DOMAIN requests}] :
               /\ \A c \in DOMAIN requests : answers[c] \in Answers(c, requests[c])
               /\ Goto(t, Applying(t, "apply", answers, << >>, {}))
    /\ UNCHANGED <<server, store, bounds, outcomes>>

\* The same, at one of its collections.
Patching(t, c, state) ==
    [pc |-> "patch", held |-> task[t].held, recover |-> task[t].recover,
     rounds |-> task[t].rounds, answers |-> task[t].answers, snaps |-> task[t].snaps,
     more |-> task[t].more, of |-> c, state |-> state]

\* apply_app_state_sync_response_with_store_keys: the next collection, ...
ApplyCollection(t) ==
    /\ task[t].pc = "apply"
    /\ \E c \in DOMAIN task[t].answers :
           Goto(t, Patching(t, c, stored[c]))
    /\ UNCHANGED <<server, store, bounds, outcomes>>

NextPatch(t) == history[task[t].of][task[t].answers[task[t].of].next]

HasPatch(t) ==
    /\ task[t].pc = "patch"
    /\ task[t].answers[task[t].of].next <= task[t].answers[task[t].of].last

\* ... patch by patch: decoded and saved, ...
ApplyPatch(t) ==
    LET c == task[t].of
        next == Advance(task[t].state, NextPatch(t).mutation)
    IN  /\ HasPatch(t)
        /\ NextPatch(t).key \in keys
        /\ Decodes(task[t].state, NextPatch(t))
        /\ stored' = [stored EXCEPT ![c] = next]
        /\ Goto(t, [task[t] EXCEPT !.pc = "unpark", !.state = next,
                                   !.answers[c].next = @ + 1,
                                   !.held = @ \cup {<<c, next.version>>}])
        /\ UNCHANGED <<server, keys, blocked, bounds, outcomes>>

Unpark(t) ==
    /\ task[t].pc = "unpark"
    /\ blocked' = Without(blocked, {task[t].of})
    /\ Goto(t, [task[t] EXCEPT !.pc = "patch"])
    /\ UNCHANGED <<server, stored, keys, bounds, outcomes>>

\* a patch that does not follow the state loaded, or does not verify: an error,
RejectPatch(t) ==
    /\ HasPatch(t)
    /\ NextPatch(t).key \in keys
    /\ ~ Decodes(task[t].state, NextPatch(t))
    /\ Fail(t)
    /\ UNCHANGED <<server, store, bounds>>

\* or one whose key is not stored: the collection is parked.
MissKey(t) ==
    /\ HasPatch(t)
    /\ NextPatch(t).key \notin keys
    /\ Goto(t, [task[t] EXCEPT !.pc = "park"])
    /\ UNCHANGED <<server, store, bounds, outcomes>>

\* The collection is done; after the last one the batches are emitted.
Done(t, c, snaps, more) ==
    LET rest == Without(task[t].answers, {c})
    IN  Applying(t, IF rest = << >> THEN "emit" ELSE "apply", rest, snaps, more)

\* Mutant: the entry is cleared at the end of the collection all the same.
ParkAndClear(t) ==
    LET c == task[t].of
    IN  /\ task[t].pc = "park"
        /\ blocked' = Without(blocked, {c})
        /\ Goto(t, Done(t, c, task[t].snaps, task[t].more))
        /\ UNCHANGED <<server, stored, keys, bounds, outcomes>>

Park(t) ==
    LET c == task[t].of
    IN  /\ task[t].pc = "park"
        /\ blocked' = With(blocked, c, [key |-> NextPatch(t).key,
                                        version |-> task[t].state.version])
        /\ Goto(t, Done(t, c, task[t].snaps, task[t].more))
        /\ UNCHANGED <<server, stored, keys, bounds, outcomes>>

FinishCollection(t) ==
    LET c == task[t].of
        answer == task[t].answers[c]
        snaps == IF answer.snap = 0 THEN task[t].snaps ELSE With(task[t].snaps, c, answer.snap)
        more == IF answer.more THEN task[t].more \cup {c} ELSE task[t].more
    IN  /\ task[t].pc = "patch"
        /\ ~ HasPatch(t)
        /\ blocked' = Without(blocked, {c})
        /\ Goto(t, Done(t, c, snaps, more))
        /\ UNCHANGED <<server, stored, keys, bounds, outcomes>>

\* Mutant: only the batches of the last round are emitted.
EmitLast(t) ==
    LET recovers == task[t].recover /\ task[t].snaps # << >>
        next == [task[t] EXCEPT !.pc = IF recovers THEN "snapshot" ELSE "next", !.held = {}]
    IN  /\ task[t].pc = "emit"
        /\ emitted' = IF next.more = {} THEN emitted \cup task[t].held ELSE emitted
        /\ dropped' = (dropped \/ (task[t].snaps # << >> /\ ~ recovers))
        /\ Goto(t, IF next.pc = "next" /\ next.more = {} THEN Idle ELSE next)
        /\ UNCHANGED <<server, store, bounds, abandoned, failed>>

\* The batches are emitted; a snapshot is downloaded in the variants that do.
Emit(t) ==
    LET recovers == task[t].recover /\ task[t].snaps # << >>
        next == [task[t] EXCEPT !.pc = IF recovers THEN "snapshot" ELSE "next", !.held = {}]
    IN  /\ task[t].pc = "emit"
        /\ emitted' = emitted \cup task[t].held
        /\ dropped' = (dropped \/ (task[t].snaps # << >> /\ ~ recovers))
        /\ Goto(t, IF next.pc = "next" /\ next.more = {} THEN Idle ELSE next)
        /\ UNCHANGED <<server, store, bounds, abandoned, failed>>

\* Another round for the collections that have more patches, ...
NextRound(t) ==
    /\ task[t].pc = "next"
    /\ task[t].rounds > 1
    /\ Goto(t, Round(task[t].rounds - 1, task[t].more, task[t].recover))
    /\ UNCHANGED <<server, store, bounds, outcomes>>

\* ... or an error if there are still some after the last one.
ExceedRounds(t) ==
    /\ task[t].pc = "next"
    /\ task[t].rounds = 1
    /\ Fail(t)
    /\ UNCHANGED <<server, store, bounds>>

-----------------------------------------------------------------------------
(* Snapshots (recover_app_state_snapshots_with_store_keys).                 *)

Recovered(t, pc, c, held) ==
    [pc |-> pc, held |-> held, recover |-> task[t].recover, rounds |-> task[t].rounds,
     snaps |-> task[t].snaps, more |-> task[t].more, of |-> c]

\* Downloaded, decoded with the key of the store and saved, ...
ApplySnapshot(t) ==
    /\ task[t].pc = "snapshot"
    /\ \E c \in DOMAIN task[t].snaps :
           LET s == task[t].snaps[c]
           IN  /\ history[c][s].key \in keys
               /\ stored' = [stored EXCEPT ![c] = StateAt(c, s)]
               /\ Goto(t, Recovered(t, "clear", c, {c} \X (1..s)))
    /\ UNCHANGED <<server, keys, blocked, bounds, outcomes>>

NextSnapshot(t, c, more) ==
    LET rest == Without(task[t].snaps, {c})
        next == Applying(t, IF rest = << >> THEN "next" ELSE "snapshot", << >>, rest, more)
    IN  IF rest = << >> /\ more = {} THEN Idle ELSE [next EXCEPT !.held = {}]

\* ... the collection is no longer parked, and the batch is emitted; or ...
ClearSnapshot(t) ==
    LET c == task[t].of
    IN  /\ task[t].pc = "clear"
        /\ blocked' = Without(blocked, {c})
        /\ emitted' = emitted \cup task[t].held
        /\ Goto(t, NextSnapshot(t, c, task[t].more))
        /\ UNCHANGED <<server, stored, keys, bounds, abandoned, failed, dropped>>

MissSnapshotKey(t) ==
    /\ task[t].pc = "snapshot"
    /\ \E c \in DOMAIN task[t].snaps :
           /\ history[c][task[t].snaps[c]].key \notin keys
           /\ Goto(t, Recovered(t, "hold", c, {}))
    /\ UNCHANGED <<server, store, bounds, outcomes>>

\* ... parked until its key comes.
ParkSnapshot(t) ==
    LET c == task[t].of
    IN  /\ task[t].pc = "hold"
        /\ blocked' = With(blocked, c, [key |-> history[c][task[t].snaps[c]].key,
                                        version |-> stored[c].version])
        /\ Goto(t, NextSnapshot(t, c, task[t].more \ {c}))
        /\ UNCHANGED <<server, stored, keys, bounds, outcomes>>

-----------------------------------------------------------------------------
(* Uploads (upload_chat_mutation_patch_and_apply).                          *)

\* The caller loads the state to build on.
LoadPrevious(t) ==
    /\ Uploading
    /\ \E c \in Collections :
           AppBegin(t, [pc |-> "upload", held |-> {}, of |-> c, state |-> stored[c]])
    /\ UNCHANGED <<server, store, outcomes>>

\* Mutant: the request names the version in the store, the patch is older.
UploadRebased(t) ==
    LET c == task[t].of
        state == [task[t].state EXCEPT !.version = stored[c].version]
    IN  /\ task[t].pc = "upload"
        /\ Room
        /\ state.version = Len(history[c])
        /\ \E k \in keys, m \in Mutations :
               LET patch == Bundle([state EXCEPT !.version = task[t].state.version], k, m)
               IN  /\ history' = [history EXCEPT ![c] = Append(@, patch)]
                   /\ Goto(t, [task[t] EXCEPT !.pc = "save", !.state = Advance(state, m),
                                              !.held = {<<c, state.version + 1>>}])
        /\ UNCHANGED <<shared, inbox, store, bounds, outcomes>>

\* The server takes the patch, if it follows the newest version, ...
Upload(t) ==
    LET c == task[t].of
        state == task[t].state
    IN  /\ task[t].pc = "upload"
        /\ Room
        /\ state.version = Len(history[c])
        /\ \E k \in keys, m \in Mutations :
               LET patch == Bundle(state, k, m)
               IN  /\ history' = [history EXCEPT ![c] = Append(@, patch)]
                   /\ Goto(t, [task[t] EXCEPT !.pc = "save", !.state = Advance(state, m),
                                              !.held = {<<c, patch.version>>}])
        /\ UNCHANGED <<shared, inbox, store, bounds, outcomes>>

\* Mutant: the error is not looked at.
UploadUnchecked(t) ==
    /\ task[t].pc = "upload"
    /\ Room => task[t].state.version # Len(history[task[t].of])
    /\ \E m \in Mutations :
           Goto(t, [task[t] EXCEPT !.pc = "save", !.state = Advance(@, m)])
    /\ UNCHANGED <<server, store, bounds, outcomes>>

\* ... or answers with an error.
UploadRefused(t) ==
    /\ task[t].pc = "upload"
    /\ Room => task[t].state.version # Len(history[task[t].of])
    /\ Goto(t, Idle)
    /\ UNCHANGED <<server, store, bounds, outcomes>>

\* The events are stored (not modelled here), then the state.
SaveUpload(t) ==
    /\ task[t].pc = "save"
    /\ stored' = [stored EXCEPT ![task[t].of] = task[t].state]
    /\ Goto(t, [task[t] EXCEPT !.pc = "announce"])
    /\ UNCHANGED <<server, keys, blocked, bounds, outcomes>>

EmitUpload(t) ==
    /\ task[t].pc = "announce"
    /\ emitted' = emitted \cup task[t].held
    /\ Goto(t, Idle)
    /\ UNCHANGED <<server, store, bounds, abandoned, failed, dropped>>

-----------------------------------------------------------------------------
(* Failures: a query, a download or a store access of one task, or a crash. *)

TaskFails(t) ==
    /\ Busy(t)
    /\ faults < MaxFaults
    /\ faults' = faults + 1
    /\ Fail(t)
    /\ UNCHANGED <<server, store, calls>>

Crash ==
    /\ \E t \in Tasks : Busy(t)
    /\ faults < MaxFaults
    /\ faults' = faults + 1
    /\ task' = [t \in Tasks |-> Idle]
    /\ failed' = TRUE
    /\ abandoned' = abandoned \cup UNION {task[t].held : t \in Tasks}
    /\ UNCHANGED <<server, store, calls, emitted, dropped, overlapped>>

-----------------------------------------------------------------------------
Init ==
    /\ history = [c \in Collections |-> << >>]
    /\ shared = {} /\ inbox = {}
    /\ stored = [c \in Collections |-> Empty]
    /\ keys = KnownKeys
    /\ blocked = << >>
    /\ task = [t \in Tasks |-> Idle]
    /\ calls = 0 /\ faults = 0
    /\ emitted = {} /\ abandoned = {}
    /\ failed = FALSE /\ overlapped = FALSE /\ dropped = FALSE

\* What a running call does next.
Proceed(t) ==
    \/ Load(t) \/ Answer(t)
    \/ ApplyCollection(t) \/ ApplyPatch(t) \/ Unpark(t) \/ RejectPatch(t)
    \/ MissKey(t) \/ Park(t) \/ FinishCollection(t)
    \/ Emit(t) \/ NextRound(t) \/ ExceedRounds(t)
    \/ ApplySnapshot(t) \/ ClearSnapshot(t) \/ MissSnapshotKey(t) \/ ParkSnapshot(t)
    \/ Upload(t) \/ UploadRefused(t) \/ SaveUpload(t) \/ EmitUpload(t)

Process == TakeNotification \/ TakeKeyShare \/ FindBlocked

Next ==
    \/ OtherDevice \/ ShareKey
    \/ Process
    \/ \E t \in AppTasks : AppSync(t) \/ AppRetry(t) \/ LoadPrevious(t)
    \/ \E t \in Tasks : Proceed(t)
    \/ \E t \in Tasks : TaskFails(t)
    \/ Crash

\* Tasks are scheduled, queries are answered (or time out, which is a failure),
\* the processor takes what has arrived, and the phone shares its keys.
Fairness ==
    /\ WF_vars(ShareKey)
    /\ WF_vars(Process)
    /\ \A t \in Tasks : WF_vars(Proceed(t))

Spec == Init /\ [][Next]_vars /\ Fairness

-----------------------------------------------------------------------------
TypeOK ==
    /\ shared \subseteq Keys /\ keys \subseteq Keys
    /\ \A c \in Collections : stored[c].version \in 0..MaxPatches
    /\ \A c \in DOMAIN blocked :
           c \in Collections /\ blocked[c].key \in Keys /\ blocked[c].version \in 0..MaxPatches
    /\ \A t \in Tasks : Busy(t) /\ task[t].pc \notin {"shared", "upload", "save", "announce"} =>
                            task[t].rounds \in 1..MaxRounds
    /\ faults \in 0..MaxFaults

\* Whatever overlaps or fails, the state in the store is the one every device has
\* at that version: the MAC of the next patch can be verified against it.
StoredIsServers ==
    \A c \in Collections :
        /\ stored[c].version <= Len(history[c])
        /\ stored[c] = StateAt(c, stored[c].version)

\* The patches the client uploads verify on every device that has followed the
\* server up to then, though the caller loaded the state to build on long before.
HistoryVerifies ==
    \A c \in Collections : \A n \in DOMAIN history[c] :
        Decodes(StateAt(c, n - 1), history[c][n])

\* The state is saved patch by patch and the events are emitted at the end of the
\* round: the application sees the events of every patch the stored version covers
\* except those of a round that failed.
EmittedOrAbandoned ==
    \A c \in Collections :
        {c} \X (1..stored[c].version)
            \subseteq emitted \cup abandoned \cup UNION {task[t].held : t \in Tasks}

\* Nothing failed, no two calls overlapped, and every snapshot was downloaded.
Smooth == ~ failed /\ ~ overlapped /\ ~ dropped

\* At rest the client has what the server has, or knows that it has not: the
\* collection is parked, for a key that has not been shared.
BehindMeansParked ==
    (Smooth /\ inbox = {} /\ \A t \in Tasks : ~ Busy(t)) =>
        \A c \in Collections :
            \/ stored[c] = Newest(c)
            \/ c \in DOMAIN blocked /\ blocked[c].key \notin keys

\* The version goes back only where two calls have overlapped.
NeverBackAlone ==
    [][\A c \in Collections : stored'[c].version < stored[c].version => overlapped']_vars

\* With all keys shared the client ends up with what the server has.
CatchesUp == []Smooth => <>[](\A c \in Collections : stored[c] = Newest(c))

\* wiki/concepts/app-state-sync.md: a collection whose key has not arrived is parked
\* and retried later.
NeverForgotten ==
    (~ failed /\ inbox = {} /\ \A t \in Tasks : ~ Busy(t)) =>
        \A c \in Collections : stored[c] = Newest(c) \/ c \in DOMAIN blocked
=============================================================================
