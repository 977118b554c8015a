---------------------------- MODULE AppStateProofs ----------------------------
(****************************************************************************)
(* Proofs about AppState, for every set of collections, keys, mutations and *)
(* tasks and every bound: whatever overlaps, fails or crashes, the stored   *)
(* state is the server's at its version, the client's patches verify on     *)
(* every device, no event of a stored patch is lost silently, only          *)
(* overlapping calls can make a version go back, and where nothing went     *)
(* wrong a collection is behind at rest only if it is parked for a key.     *)
(****************************************************************************)
EXTENDS AppState, TLAPS

-----------------------------------------------------------------------------
(* The values the variables take.                                           *)

Indices == {m.index : m \in Mutations}
PartialMaps(D, V) == UNION {[d -> V] : d \in SUBSET D}

States == [version : Nat, macs : PartialMaps(Indices, Nat)]
Patches == [key : Keys, version : Nat, mutation : Mutations, mac : PartialMaps(Indices, Nat)]
AnswerSet == [next : Nat \ {0}, last : Nat, snap : Nat, more : BOOLEAN]
Requests == PartialMaps(Collections, Nat)
Pages == PartialMaps(Collections, AnswerSet)
Events == SUBSET (Collections \X Nat)

IdleTasks == [pc : {"idle"}, held : {{}}]
SharedTasks == [pc : {"shared"}, held : {{}}, key : Keys]
LoadingTasks ==
  [pc : {"load", "query"}, held : {{}}, recover : BOOLEAN, rounds : Nat,
   todo : SUBSET Collections, requests : Requests]
ApplyingTasks ==
  [pc : {"apply", "emit"}, held : Events, recover : BOOLEAN, rounds : Nat,
   answers : Pages, snaps : Requests, more : SUBSET Collections]
PatchingTasks ==
  [pc : {"patch", "unpark", "park"}, held : Events, recover : BOOLEAN, rounds : Nat,
   answers : Pages, snaps : Requests, more : SUBSET Collections,
   of : Collections, state : States]
EmittedTasks ==
  [pc : {"next", "snapshot"}, held : {{}}, recover : BOOLEAN, rounds : Nat,
   answers : Pages, snaps : Requests, more : SUBSET Collections]
RecoveredTasks ==
  [pc : {"clear"}, held : Events, recover : BOOLEAN, rounds : Nat,
   snaps : Requests, more : SUBSET Collections, of : Collections]
HoldingTasks ==
  [pc : {"hold"}, held : {{}}, recover : BOOLEAN, rounds : Nat,
   snaps : Requests, more : SUBSET Collections, of : Collections]
UploadTasks == [pc : {"upload"}, held : {{}}, of : Collections, state : States]
UploadedTasks == [pc : {"save", "announce"}, held : Events, of : Collections, state : States]

TaskSet ==
  IdleTasks \cup SharedTasks \cup LoadingTasks \cup ApplyingTasks \cup PatchingTasks
    \cup EmittedTasks \cup RecoveredTasks \cup HoldingTasks \cup UploadTasks \cup UploadedTasks

SyncTypes ==
  /\ history \in [Collections -> Seq(Patches)]
  /\ stored \in [Collections -> States]
  /\ keys \subseteq Keys
  /\ DOMAIN blocked \subseteq Collections
  /\ inbox \subseteq [type : {"sync"}, of : Collections] \cup [type : {"share"}, of : Keys]
  /\ task \in [Tasks -> TaskSet]

-----------------------------------------------------------------------------
(* Maps.                                                                    *)

LEMMA PartialMap ==
  ASSUME NEW D, NEW V, NEW f \in PartialMaps(D, V)
  PROVE  DOMAIN f \subseteq D /\ \A x \in DOMAIN f : f[x] \in V
BY DEF PartialMaps

LEMMA PartialEmpty ==
  ASSUME NEW D, NEW V
  PROVE  << >> \in PartialMaps(D, V) /\ DOMAIN << >> = {}
<1>1. << >> \in [{} -> V] /\ DOMAIN << >> = {}
  OBVIOUS
<1>2. QED BY <1>1 DEF PartialMaps

LEMMA PartialWith ==
  ASSUME NEW D, NEW V, NEW f \in PartialMaps(D, V), NEW key \in D, NEW value \in V
  PROVE  /\ With(f, key, value) \in PartialMaps(D, V)
         /\ DOMAIN With(f, key, value) = DOMAIN f \cup {key}
         /\ With(f, key, value)[key] = value
         /\ \A x \in DOMAIN f \ {key} : With(f, key, value)[x] = f[x]
<1>1. DOMAIN f \cup {key} \in SUBSET D
  BY PartialMap
<1>2. With(f, key, value) \in [DOMAIN f \cup {key} -> V]
  BY PartialMap DEF With
<1>3. QED BY <1>1, <1>2 DEF PartialMaps, With

LEMMA PartialWithout ==
  ASSUME NEW D, NEW V, NEW f \in PartialMaps(D, V), NEW gone
  PROVE  /\ Without(f, gone) \in PartialMaps(D, V)
         /\ DOMAIN Without(f, gone) = DOMAIN f \ gone
         /\ \A x \in DOMAIN f \ gone : Without(f, gone)[x] = f[x]
<1>1. DOMAIN f \ gone \in SUBSET D
  BY PartialMap
<1>2. Without(f, gone) \in [DOMAIN f \ gone -> V]
  BY PartialMap DEF Without
<1>3. QED BY <1>1, <1>2 DEF PartialMaps, Without

-----------------------------------------------------------------------------
(* States and patches.                                                      *)

LEMMA AdvanceType ==
  ASSUME NEW s \in States, NEW m \in Mutations
  PROVE  Advance(s, m) \in States /\ Advance(s, m).version = s.version + 1
<1>1. m.index \in Indices /\ s.version + 1 \in Nat /\ s.macs \in PartialMaps(Indices, Nat)
  BY DEF Indices, States
<1>2. /\ With(s.macs, m.index, s.version + 1) \in PartialMaps(Indices, Nat)
      /\ Without(s.macs, {m.index}) \in PartialMaps(Indices, Nat)
  BY <1>1, PartialWith, PartialWithout
<1>3. QED BY <1>1, <1>2 DEF Advance, States

LEMMA EmptyType == Empty \in States /\ Empty.version = 0
BY PartialEmpty DEF Empty, States

\* A patch verifies on the state it was built on, and makes the state it carries.
LEMMA BundleDecodes ==
  ASSUME NEW s \in States, NEW key \in Keys, NEW m \in Mutations
  PROVE  LET p == Bundle(s, key, m) IN
         /\ p \in Patches /\ p.version = s.version + 1
         /\ Decodes(s, p)
         /\ Advance(s, m) = [version |-> p.version, macs |-> p.mac]
<1>1. Advance(s, m) \in States /\ Advance(s, m).version = s.version + 1
  BY AdvanceType
<1>2. s.version + 1 \in Nat
  BY DEF States
<1>3. QED BY <1>1, <1>2 DEF Bundle, Decodes, Patches, States

LEMMA DecodedState ==
  ASSUME NEW s \in States, NEW p \in Patches, Decodes(s, p)
  PROVE  /\ Advance(s, p.mutation) = [version |-> p.version, macs |-> p.mac]
         /\ Advance(s, p.mutation) \in States
         /\ p.version = s.version + 1
<1>1. p.mutation \in Mutations
  BY DEF Patches
<1>2. Advance(s, p.mutation) \in States /\ Advance(s, p.mutation).version = s.version + 1
  BY <1>1, AdvanceType
<1>3. QED BY <1>2 DEF Decodes, States

LEMMA StateAtType ==
  ASSUME SyncTypes, NEW c \in Collections, NEW n \in 0 .. Len(history[c])
  PROVE  StateAt(c, n) \in States /\ StateAt(c, n).version = n
<1>1. CASE n = 0
  BY <1>1, EmptyType DEF StateAt
<1>2. CASE n # 0
  <2>1. history[c][n] \in Patches /\ n \in Nat
    BY <1>2 DEF SyncTypes
  <2>2. QED BY <1>2, <2>1 DEF StateAt, States, Patches
<1>3. QED BY <1>1, <1>2

-----------------------------------------------------------------------------
(* The invariant.                                                           *)

AtServer(c, state) == state.version <= Len(history[c]) /\ state = StateAt(c, state.version)

Follows(k) ==
  /\ k.pc \in {"patch", "unpark", "park", "upload", "save"} => AtServer(k.of, k.state)
  /\ k.pc \in {"patch", "unpark", "park"} => k.of \in DOMAIN k.answers
  /\ k.pc \in {"apply", "patch", "unpark", "park"} =>
       \A c \in DOMAIN k.answers :
           k.answers[c].last <= Len(history[c]) /\ k.answers[c].snap <= Len(history[c])
  /\ k.pc \in {"apply", "emit", "patch", "unpark", "park", "next", "snapshot", "clear", "hold"} =>
       \A c \in DOMAIN k.snaps : k.snaps[c] \in 1 .. Len(history[c])

Seen == emitted \cup abandoned \cup UNION {task[t].held : t \in Tasks}

Covers(k) ==
  k.pc \in {"patch", "unpark", "park", "upload", "save"} =>
      {k.of} \X (1 .. k.state.version) \subseteq Seen

SyncInv ==
  /\ SyncTypes /\ HistoryVerifies /\ StoredIsServers /\ EmittedOrAbandoned
  /\ \A t \in Tasks : Follows(task[t]) /\ Covers(task[t])

-----------------------------------------------------------------------------
(* The server's history only grows.                                         *)

HistoryGrows ==
  \A c \in Collections :
      /\ Len(history[c]) <= Len(history'[c])
      /\ \A n \in 1 .. Len(history[c]) : history'[c][n] = history[c][n]

LEMMA HistorySame ==
  ASSUME SyncTypes, history' = history
  PROVE  HistoryGrows /\ (HistoryVerifies => HistoryVerifies')
<1>1. HistoryGrows
  BY DEF HistoryGrows, SyncTypes
<1>2. HistoryVerifies => HistoryVerifies'
  BY DEF HistoryVerifies, StateAt
<1>3. QED BY <1>1, <1>2

LEMMA GrownState ==
  ASSUME SyncTypes, HistoryGrows, NEW c \in Collections, NEW n \in 0 .. Len(history[c])
  PROVE  StateAt(c, n)' = StateAt(c, n)
<1>1. n # 0 => history'[c][n] = history[c][n]
  BY DEF HistoryGrows, SyncTypes
<1>2. QED BY <1>1 DEF StateAt

LEMMA GrownAtServer ==
  ASSUME SyncTypes, SyncTypes', HistoryGrows, NEW c \in Collections, NEW state \in States,
         AtServer(c, state)
  PROVE  AtServer(c, state)'
<1>1. Len(history[c]) <= Len(history'[c]) /\ Len(history[c]) \in Nat /\ Len(history'[c]) \in Nat
  BY DEF HistoryGrows, SyncTypes
<1>2. state.version \in 0 .. Len(history[c])
  BY <1>1 DEF AtServer, States
<1>3. StateAt(c, state.version)' = StateAt(c, state.version)
  BY <1>2, GrownState
<1>4. QED BY <1>1, <1>2, <1>3 DEF AtServer

\* The fields a task has where it is.
LEMMA TaskFields ==
  ASSUME NEW k \in TaskSet
  PROVE  /\ k.pc \in {"patch", "unpark", "park", "upload", "save", "announce"} =>
              k.of \in Collections /\ k.state \in States
         /\ k.pc \in {"apply", "emit", "patch", "unpark", "park", "next", "snapshot"} =>
              k.answers \in Pages
         /\ k.pc \in {"apply", "emit", "patch", "unpark", "park", "next", "snapshot",
                      "clear", "hold"} =>
              k.snaps \in Requests /\ k.more \in SUBSET Collections
         /\ k.held \in Events
BY DEF TaskSet, IdleTasks, SharedTasks, LoadingTasks, ApplyingTasks, PatchingTasks,
       EmittedTasks, RecoveredTasks, HoldingTasks, UploadTasks, UploadedTasks, Events

LEMMA GrownFollows ==
  ASSUME SyncTypes, SyncTypes', HistoryGrows, NEW k \in TaskSet, Follows(k)
  PROVE  Follows(k)'
<1>1. ASSUME NEW c \in Collections
      PROVE  /\ Len(history[c]) <= Len(history'[c]) /\ Len(history[c]) \in Nat
             /\ Len(history'[c]) \in Nat
  BY DEF HistoryGrows, SyncTypes
<1>2. ASSUME k.pc \in {"patch", "unpark", "park", "upload", "save"}
      PROVE  AtServer(k.of, k.state)'
  BY <1>2, TaskFields, GrownAtServer DEF Follows
<1>3. ASSUME k.pc \in {"apply", "patch", "unpark", "park"}, NEW c \in DOMAIN k.answers
      PROVE  k.answers[c].last <= Len(history'[c]) /\ k.answers[c].snap <= Len(history'[c])
  <2>1. c \in Collections /\ k.answers[c] \in AnswerSet
    BY <1>3, TaskFields, PartialMap DEF Pages
  <2>2. k.answers[c].last \in Nat /\ k.answers[c].snap \in Nat
    BY <2>1 DEF AnswerSet
  <2>3. k.answers[c].last <= Len(history[c]) /\ k.answers[c].snap <= Len(history[c])
    BY <1>3 DEF Follows
  <2>4. QED BY <1>1, <2>1, <2>2, <2>3
<1>4. ASSUME k.pc \in {"apply", "emit", "patch", "unpark", "park", "next", "snapshot",
                       "clear", "hold"},
             NEW c \in DOMAIN k.snaps
      PROVE  k.snaps[c] \in 1 .. Len(history'[c])
  <2>1. c \in Collections /\ k.snaps[c] \in 1 .. Len(history[c])
    BY <1>4, TaskFields, PartialMap DEF Requests, Follows
  <2>2. QED BY <1>1, <2>1
<1>5. QED BY <1>2, <1>3, <1>4 DEF Follows

\* The server takes a patch built on its newest state.
LEMMA UploadedHistory ==
  ASSUME SyncTypes, HistoryVerifies,
         NEW c \in Collections, NEW key \in Keys, NEW m \in Mutations,
         NEW len, len = Len(history[c]),
         history' = [history EXCEPT ![c] = Append(@, Bundle(Newest(c), key, m))]
  PROVE  /\ history' \in [Collections -> Seq(Patches)]
         /\ HistoryGrows
         /\ HistoryVerifies'
         /\ Len(history'[c]) = len + 1
         /\ StateAt(c, len + 1)' = Advance(Newest(c), m)
<1> DEFINE p == Bundle(Newest(c), key, m)
<1>1. len \in Nat /\ history[c] \in Seq(Patches)
  BY DEF SyncTypes
<1>2. Newest(c) \in States /\ Newest(c).version = len
  BY <1>1, StateAtType DEF Newest
<1>3. /\ p \in Patches /\ p.version = len + 1 /\ Decodes(Newest(c), p)
      /\ Advance(Newest(c), m) = [version |-> p.version, macs |-> p.mac]
  BY <1>2, BundleDecodes
<1> HIDE DEF p
<1>4. /\ history' = [history EXCEPT ![c] = Append(history[c], p)]
      /\ history \in [Collections -> Seq(Patches)]
  BY DEF p, SyncTypes
<1>5. /\ history'[c] = Append(history[c], p)
      /\ \A d \in Collections \ {c} : history'[d] = history[d]
      /\ history' \in [Collections -> Seq(Patches)]
  BY <1>1, <1>3, <1>4
<1>6. /\ Len(history'[c]) = len + 1 /\ history'[c][len + 1] = p
      /\ \A n \in 1 .. len : history'[c][n] = history[c][n]
  BY <1>1, <1>3, <1>5
<1>7. HistoryGrows
  <2>1. ASSUME NEW d \in Collections
        PROVE  /\ Len(history[d]) <= Len(history'[d])
               /\ \A n \in 1 .. Len(history[d]) : history'[d][n] = history[d][n]
    <3>1. CASE d = c
      BY <1>1, <1>6, <3>1
    <3>2. CASE d # c
      BY <1>5, <3>2 DEF SyncTypes
    <3>3. QED BY <3>1, <3>2
  <2>2. QED BY <2>1 DEF HistoryGrows
<1>8. StateAt(c, len + 1)' = Advance(Newest(c), m)
  <2>1. StateAt(c, len + 1)' = [version |-> len + 1, macs |-> p.mac]
    BY <1>1, <1>6 DEF StateAt
  <2>2. QED BY <1>3, <2>1
<1>9. HistoryVerifies'
  <2>1. ASSUME NEW d \in Collections, NEW n \in DOMAIN history'[d]
        PROVE  Decodes(StateAt(d, n - 1)', history'[d][n])
    <3>1. CASE d = c /\ n = len + 1
      <4>1. StateAt(c, len)' = StateAt(c, len)
        BY <1>1, <1>7, GrownState
      <4>2. QED BY <1>1, <1>3, <1>6, <3>1, <4>1 DEF Newest
    <3>2. CASE ~ (d = c /\ n = len + 1)
      <4>1. n \in DOMAIN history[d] /\ n - 1 \in 0 .. Len(history[d]) /\ n \in 1 .. Len(history[d])
        BY <1>1, <1>5, <1>6, <3>2 DEF SyncTypes
      <4>2. history'[d][n] = history[d][n]
        BY <1>7, <4>1 DEF HistoryGrows
      <4>3. StateAt(d, n - 1)' = StateAt(d, n - 1)
        BY <1>7, <4>1, GrownState
      <4>4. QED BY <4>1, <4>2, <4>3 DEF HistoryVerifies
    <3>3. QED BY <3>1, <3>2
  <2>2. QED BY <2>1 DEF HistoryVerifies, Decodes
<1>10. QED BY <1>5, <1>6, <1>7, <1>8, <1>9

-----------------------------------------------------------------------------
(* Steps of one task.                                                       *)

\* Where a task is says what it is.
LEMMA TaskKinds ==
  ASSUME NEW k \in TaskSet
  PROVE  /\ k.pc = "idle" => k \in IdleTasks
         /\ k.pc = "shared" => k \in SharedTasks
         /\ k.pc \in {"load", "query"} => k \in LoadingTasks
         /\ k.pc \in {"apply", "emit"} => k \in ApplyingTasks
         /\ k.pc \in {"patch", "unpark", "park"} => k \in PatchingTasks
         /\ k.pc \in {"next", "snapshot"} => k \in EmittedTasks
         /\ k.pc = "clear" => k \in RecoveredTasks
         /\ k.pc = "hold" => k \in HoldingTasks
         /\ k.pc = "upload" => k \in UploadTasks
         /\ k.pc \in {"save", "announce"} => k \in UploadedTasks
BY DEF TaskSet, IdleTasks, SharedTasks, LoadingTasks, ApplyingTasks, PatchingTasks,
       EmittedTasks, RecoveredTasks, HoldingTasks, UploadTasks, UploadedTasks

\* Task t becomes y, and the events it held are still held, emitted or given up.
MovesTo(t, y) ==
  /\ y \in TaskSet
  /\ task' = [task EXCEPT ![t] = y]
  /\ emitted \subseteq emitted' /\ abandoned \subseteq abandoned'
  /\ task[t].held \subseteq y.held \cup emitted' \cup abandoned'

LEMMA SeenGrows ==
  ASSUME SyncTypes, NEW t \in Tasks, NEW y, MovesTo(t, y)
  PROVE  Seen \subseteq Seen' /\ y.held \subseteq Seen' /\ task' \in [Tasks -> TaskSet]
<1>1. /\ task'[t] = y /\ \A u \in Tasks \ {t} : task'[u] = task[u]
      /\ task' \in [Tasks -> TaskSet]
  BY DEF MovesTo, SyncTypes
<1>2. ASSUME NEW e \in Seen PROVE e \in Seen'
  <2>1. CASE e \in emitted \cup abandoned
    BY <2>1 DEF MovesTo, Seen
  <2>2. CASE e \in UNION {task[u].held : u \in Tasks}
    <3>1. PICK u \in Tasks : e \in task[u].held
      BY <2>2
    <3>2. CASE u = t
      <4>1. e \in task'[t].held \cup emitted' \cup abandoned'
        BY <1>1, <3>1, <3>2 DEF MovesTo
      <4>2. QED BY <4>1 DEF Seen
    <3>3. CASE u # t
      <4>1. e \in task'[u].held
        BY <1>1, <3>1, <3>3
      <4>2. QED BY <4>1 DEF Seen
    <3>4. QED BY <3>2, <3>3
  <2>3. QED BY <1>2, <2>1, <2>2 DEF Seen
<1>3. y.held \subseteq Seen'
  BY <1>1 DEF Seen
<1>4. QED BY <1>1, <1>2, <1>3

LEMMA Moved ==
  ASSUME SyncInv, HistoryGrows, HistoryVerifies',
         history' \in [Collections -> Seq(Patches)], stored' \in [Collections -> States],
         keys' \subseteq Keys, DOMAIN blocked' \subseteq Collections,
         inbox' \subseteq [type : {"sync"}, of : Collections] \cup [type : {"share"}, of : Keys],
         NEW t \in Tasks, NEW y, MovesTo(t, y), Follows(y)', Covers(y)',
         \A c \in Collections :
             \/ stored'[c] = stored[c]
             \/ \E s \in States : /\ stored'[c] = s /\ AtServer(c, s)'
                                  /\ {c} \X (1 .. s.version) \subseteq Seen'
  PROVE  SyncInv'
<1>1. /\ Seen \subseteq Seen' /\ task' \in [Tasks -> TaskSet]
      /\ task'[t] = y /\ \A u \in Tasks \ {t} : task'[u] = task[u]
  BY SeenGrows DEF MovesTo, SyncInv, SyncTypes
<1>2. SyncTypes /\ SyncTypes'
  BY <1>1 DEF SyncInv, SyncTypes
<1>3. ASSUME NEW c \in Collections
      PROVE  /\ stored'[c].version <= Len(history'[c])
             /\ (stored[c] = StateAt(c, stored[c].version))'
             /\ {c} \X (1 .. stored'[c].version) \subseteq Seen'
  <2>1. CASE stored'[c] = stored[c]
    <3>1. PICK s \in States : s = stored[c]
      BY <1>2 DEF SyncTypes
    <3>2. AtServer(c, s) /\ {c} \X (1 .. s.version) \subseteq Seen
      BY <3>1 DEF SyncInv, StoredIsServers, EmittedOrAbandoned, AtServer, Seen
    <3>3. AtServer(c, s)'
      BY <1>2, <3>2, GrownAtServer
    <3>4. QED BY <1>1, <2>1, <3>1, <3>2, <3>3 DEF AtServer, StateAt
  <2>2. CASE \E s \in States : /\ stored'[c] = s /\ AtServer(c, s)'
                               /\ {c} \X (1 .. s.version) \subseteq Seen'
    BY <2>2 DEF AtServer, StateAt
  <2>3. QED BY <2>1, <2>2
<1>4. StoredIsServers' /\ EmittedOrAbandoned'
  BY <1>3 DEF StoredIsServers, EmittedOrAbandoned, Seen
<1>5. ASSUME NEW u \in Tasks
      PROVE  Follows(task[u])' /\ Covers(task[u])'
  <2>1. CASE u = t
    BY <1>1, <2>1 DEF Follows, Covers, AtServer, Seen, StateAt
  <2>2. CASE u # t
    <3>1. PICK k \in TaskSet : k = task[u]
      BY <1>2 DEF SyncTypes
    <3>2. task'[u] = k /\ Follows(k) /\ Covers(k)
      BY <1>1, <2>2, <3>1 DEF SyncInv
    <3>3. Follows(k)'
      BY <1>2, <3>2, GrownFollows
    <3>4. Covers(k)'
      BY <1>1, <3>2 DEF Covers
    <3>5. QED BY <3>2, <3>3, <3>4 DEF Follows, Covers, AtServer, Seen, StateAt
  <2>3. QED BY <2>1, <2>2
<1>6. QED BY <1>2, <1>4, <1>5 DEF SyncInv

\* Steps that leave the history and the stored states alone.
LEMMA Quiet ==
  ASSUME SyncInv, UNCHANGED <<history, stored>>, keys' \subseteq Keys, inbox' \subseteq inbox,
         DOMAIN blocked' \subseteq Collections,
         NEW t \in Tasks, NEW y, MovesTo(t, y), Follows(y), Covers(y)
  PROVE  SyncInv'
<1>1. SyncTypes /\ HistoryVerifies /\ y \in TaskSet
  BY DEF SyncInv, MovesTo
<1>2. /\ HistoryGrows /\ HistoryVerifies'
      /\ history' \in [Collections -> Seq(Patches)] /\ stored' \in [Collections -> States]
      /\ inbox' \subseteq [type : {"sync"}, of : Collections] \cup [type : {"share"}, of : Keys]
  BY <1>1, HistorySame DEF SyncTypes
<1>3. Follows(y)'
  BY DEF Follows, AtServer, StateAt
<1>4. Covers(y)'
  BY <1>1, SeenGrows DEF Covers
<1>5. QED BY <1>2, <1>3, <1>4, Moved

\* A task that has not begun to apply anything.
Fresh(y) == y \in TaskSet /\ y.held = {} /\ y.pc \in {"idle", "shared", "load", "query"}

LEMMA FreshTask ==
  ASSUME NEW y, Fresh(y)
  PROVE  Follows(y) /\ Covers(y)
BY DEF Fresh, Follows, Covers

LEMMA IdleFresh == Fresh(Idle) /\ Idle.pc = "idle"
BY DEF Fresh, Idle, TaskSet, IdleTasks

LEMMA RoundFresh ==
  ASSUME NEW rounds \in Nat, NEW todo \in SUBSET Collections, NEW recover \in BOOLEAN
  PROVE  /\ Fresh(Round(rounds, todo, recover))
         /\ Round(rounds, todo, recover).pc \in {"idle", "load"}
         /\ Round(rounds, todo, recover).pc = "load" =>
              /\ Round(rounds, todo, recover).requests = << >>
              /\ Round(rounds, todo, recover).todo = todo
         /\ Round(rounds, todo, recover).pc = "idle" => todo = {}
<1>1. CASE todo = {}
  BY <1>1, IdleFresh DEF Round
<1>2. CASE todo # {}
  <2> DEFINE y == Round(rounds, todo, recover)
  <2>1. << >> \in Requests
    BY PartialEmpty DEF Requests
  <2>2. y = [pc |-> "load", held |-> {}, recover |-> recover, rounds |-> rounds,
             todo |-> todo, requests |-> << >>]
    BY <1>2 DEF Round
  <2> HIDE DEF y
  <2>3. /\ y \in LoadingTasks /\ y.held = {} /\ y.pc = "load" /\ y.requests = << >>
        /\ y.todo = todo
    BY <2>1, <2>2 DEF LoadingTasks
  <2>4. QED BY <2>3 DEF y, Fresh, TaskSet
<1>3. QED BY <1>1, <1>2

\* A call that begins.
LEMMA BeginMoves ==
  ASSUME SyncTypes, NEW t \in Tasks, NEW call, Begin(t, call), call \in TaskSet,
         UNCHANGED <<emitted, abandoned>>
  PROVE  MovesTo(t, call)
<1>1. task[t] \in TaskSet /\ task[t].pc = "idle"
  BY DEF SyncTypes, Begin, Busy
<1>2. task[t].held = {}
  BY <1>1, TaskKinds DEF IdleTasks
<1>3. QED BY <1>2 DEF MovesTo, Begin

\* A call that ends with an error.
LEMMA FailMoves ==
  ASSUME SyncTypes, NEW t \in Tasks, Fail(t)
  PROVE  MovesTo(t, Idle)
BY IdleFresh DEF MovesTo, Fail, Goto, Fresh

LEMMA GotoMoves ==
  ASSUME SyncTypes, NEW t \in Tasks, NEW y \in TaskSet, Goto(t, y),
         emitted \subseteq emitted', abandoned \subseteq abandoned',
         task[t].held \subseteq y.held \cup emitted'
  PROVE  MovesTo(t, y)
BY DEF MovesTo, Goto

-----------------------------------------------------------------------------
(* The server, the phone and the calls that begin.                          *)

LEMMA SyncOtherDevice ==
  ASSUME SyncInv, OtherDevice
  PROVE  SyncInv'
<1>1. PICK c \in Collections, key \in Keys, m \in Mutations :
        /\ history' = [history EXCEPT ![c] = Append(@, Bundle(Newest(c), key, m))]
        /\ inbox' = inbox \cup {[type |-> "sync", of |-> c]}
  BY DEF OtherDevice
<1>2. PICK len : len = Len(history[c])
  OBVIOUS
<1>3. /\ history' \in [Collections -> Seq(Patches)] /\ HistoryGrows /\ HistoryVerifies'
  BY <1>1, <1>2, UploadedHistory DEF SyncInv
<1>4. UNCHANGED <<stored, keys, blocked, task, emitted, abandoned>>
  BY DEF OtherDevice, store, outcomes
<1>5. inbox' \subseteq [type : {"sync"}, of : Collections] \cup [type : {"share"}, of : Keys]
  BY <1>1 DEF SyncInv, SyncTypes
<1>6. PICK y : y = task[Processor]
  OBVIOUS
<1>7. Processor \in Tasks
  BY DEF Tasks
<1>8. MovesTo(Processor, y)
  BY <1>4, <1>6, <1>7 DEF MovesTo, SyncInv, SyncTypes
<1>9. Seen' = Seen
  BY <1>4 DEF Seen
<1>10. SyncTypes /\ SyncTypes' /\ y \in TaskSet /\ Follows(y) /\ Covers(y)
  BY <1>3, <1>4, <1>5, <1>6, <1>7 DEF SyncInv, SyncTypes
<1>11. Follows(y)' /\ Covers(y)'
  BY <1>3, <1>9, <1>10, GrownFollows DEF Covers
<1>12. QED BY <1>3, <1>4, <1>7, <1>8, <1>10, <1>11, Moved DEF SyncTypes

LEMMA SyncShareKey ==
  ASSUME SyncInv, ShareKey
  PROVE  SyncInv'
<1>1. /\ UNCHANGED <<history, stored, keys, blocked, task, emitted, abandoned>>
      /\ inbox' \subseteq [type : {"sync"}, of : Collections] \cup [type : {"share"}, of : Keys]
  BY DEF ShareKey, store, outcomes, SyncInv, SyncTypes
<1>2. QED BY <1>1 DEF SyncInv, SyncTypes, HistoryVerifies, StoredIsServers, StateAt,
                      EmittedOrAbandoned, Follows, Covers, AtServer, Seen

LEMMA SyncBegin ==
  ASSUME SyncInv,
         \/ TakeNotification \/ TakeKeyShare \/ FindBlocked
         \/ \E t \in AppTasks : AppSync(t) \/ AppRetry(t)
  PROVE  SyncInv'
<1>1. Processor \in Tasks /\ AppTasks \subseteq Tasks /\ MaxRounds \in Nat
      /\ Recovering \in BOOLEAN
  BY AppStateAssumption DEF Tasks
<1>2. SyncTypes
  BY DEF SyncInv
<1>3. ASSUME NEW t \in Tasks, NEW y, Fresh(y), Begin(t, y),
             UNCHANGED <<history, stored, blocked, emitted, abandoned>>,
             keys' \subseteq Keys, inbox' \subseteq inbox
      PROVE  SyncInv'
  <2>1. MovesTo(t, y)
    BY <1>2, <1>3, BeginMoves DEF Fresh
  <2>2. QED BY <1>2, <1>3, <2>1, FreshTask, Quiet DEF SyncTypes
<1>4. CASE TakeNotification
  <2>1. PICK item \in inbox :
          /\ item.type = "sync" /\ inbox' = inbox \ {item}
          /\ Begin(Processor, Round(MaxRounds, {item.of}, Recovering))
    BY <1>4 DEF TakeNotification
  <2>2. {item.of} \in SUBSET Collections
    BY <1>2, <2>1 DEF SyncTypes
  <2>3. PICK y : y = Round(MaxRounds, {item.of}, Recovering)
    OBVIOUS
  <2>4. Fresh(y) /\ Begin(Processor, y)
    BY <1>1, <2>1, <2>2, <2>3, RoundFresh
  <2>5. UNCHANGED <<history, stored, keys, blocked, emitted, abandoned>>
    BY <1>4 DEF TakeNotification, store, outcomes
  <2>6. QED BY <1>1, <1>2, <1>3, <2>1, <2>4, <2>5 DEF SyncTypes
<1>5. CASE TakeKeyShare
  <2>1. PICK item \in inbox :
          /\ item.type = "share" /\ inbox' = inbox \ {item} /\ keys' = keys \cup {item.of}
          /\ Begin(Processor, [pc |-> "shared", held |-> {}, key |-> item.of])
    BY <1>5 DEF TakeKeyShare
  <2>2. item.of \in Keys
    BY <1>2, <2>1 DEF SyncTypes
  <2>3. PICK y : y = [pc |-> "shared", held |-> {}, key |-> item.of]
    OBVIOUS
  <2>4. y \in SharedTasks /\ y.held = {} /\ y.pc = "shared"
    BY <2>2, <2>3 DEF SharedTasks
  <2>5. Fresh(y) /\ Begin(Processor, y)
    BY <2>1, <2>3, <2>4 DEF Fresh, TaskSet
  <2>6. UNCHANGED <<history, stored, blocked, emitted, abandoned>>
    BY <1>5 DEF TakeKeyShare, outcomes
  <2>7. QED BY <1>1, <1>2, <1>3, <2>1, <2>2, <2>5, <2>6 DEF SyncTypes
<1>6. CASE FindBlocked
  <2>1. PICK todo : todo = {c \in DOMAIN blocked : blocked[c].key = task[Processor].key}
    OBVIOUS
  <2>2. PICK y : y = Round(MaxRounds, todo, FALSE)
    OBVIOUS
  <2>3. todo \in SUBSET Collections
    BY <1>2, <2>1 DEF SyncTypes
  <2>4. Fresh(y)
    BY <1>1, <2>2, <2>3, RoundFresh
  <2>5. /\ Goto(Processor, y) /\ task[Processor].pc = "shared"
        /\ UNCHANGED <<history, stored, keys, blocked, inbox, emitted, abandoned>>
    BY <1>6, <2>1, <2>2 DEF FindBlocked, server, store, outcomes
  <2>6. task[Processor].held = {}
    BY <1>1, <1>2, <2>5, TaskKinds DEF SyncTypes, SharedTasks
  <2>7. MovesTo(Processor, y)
    BY <1>1, <1>2, <2>4, <2>5, <2>6, GotoMoves DEF Fresh
  <2>8. QED BY <1>1, <1>2, <2>4, <2>5, <2>7, FreshTask, Quiet DEF SyncTypes
<1>7. CASE \E t \in AppTasks : AppSync(t)
  <2>1. PICK t \in AppTasks, todo \in SUBSET Collections, recover \in BOOLEAN :
          AppSync(t) /\ AppBegin(t, Round(MaxRounds, todo, recover))
    BY <1>7 DEF AppSync
  <2>2. PICK y : y = Round(MaxRounds, todo, recover)
    OBVIOUS
  <2>3. Fresh(y) /\ Begin(t, y)
    BY <1>1, <2>1, <2>2, RoundFresh DEF AppBegin
  <2>4. UNCHANGED <<history, stored, keys, blocked, inbox, emitted, abandoned>>
    BY <2>1 DEF AppSync, server, store, outcomes
  <2>5. QED BY <1>1, <1>2, <1>3, <2>3, <2>4 DEF SyncTypes
<1>8. CASE \E t \in AppTasks : AppRetry(t)
  <2>1. PICK t \in AppTasks : AppRetry(t)
    BY <1>8
  <2>2. PICK ready : ready = {c \in DOMAIN blocked : blocked[c].key \in keys}
    OBVIOUS
  <2>3. ready \in SUBSET Collections
    BY <1>2, <2>2 DEF SyncTypes
  <2>4. PICK recover \in BOOLEAN : AppBegin(t, Round(MaxRounds, ready, recover))
    BY <2>1, <2>2 DEF AppRetry
  <2>5. PICK y : y = Round(MaxRounds, ready, recover)
    OBVIOUS
  <2>6. Fresh(y) /\ Begin(t, y)
    BY <1>1, <2>3, <2>4, <2>5, RoundFresh DEF AppBegin
  <2>7. UNCHANGED <<history, stored, keys, blocked, inbox, emitted, abandoned>>
    BY <2>1 DEF AppRetry, server, store, outcomes
  <2>8. QED BY <1>1, <1>2, <1>3, <2>6, <2>7 DEF SyncTypes
<1>9. QED BY <1>4, <1>5, <1>6, <1>7, <1>8

-----------------------------------------------------------------------------
(* What each step of a round makes of its task.                             *)

LEMMA LoadStep ==
  ASSUME SyncTypes, NEW t \in Tasks, Load(t)
  PROVE  \E c \in Collections, y \in LoadingTasks :
           /\ Goto(t, y) /\ task[t] \in LoadingTasks /\ Fresh(y)
           /\ y.requests = With(task[t].requests, c, stored[c].version)
           /\ task[t].pc = "load" /\ (y.pc = "query" => y.todo = {})
           /\ task[t].todo \cup DOMAIN task[t].requests \subseteq y.todo \cup DOMAIN y.requests
           /\ UNCHANGED <<server, store, bounds, outcomes>>
<1> DEFINE k == task[t]
<1>1. k \in TaskSet /\ k.pc = "load"
  BY DEF SyncTypes, Load
<1>2. k \in LoadingTasks
  BY <1>1, TaskKinds
<1>3. PICK c \in k.todo :
        Goto(t, [k EXCEPT !.requests = With(@, c, stored[c].version), !.todo = @ \ {c},
                          !.pc = IF k.todo = {c} THEN "query" ELSE "load"])
  BY DEF Load
<1>4. /\ c \in Collections /\ k.requests \in Requests /\ stored[c].version \in Nat
      /\ k = [pc |-> k.pc, held |-> k.held, recover |-> k.recover, rounds |-> k.rounds,
              todo |-> k.todo, requests |-> k.requests]
  BY <1>2, <1>3 DEF LoadingTasks, SyncTypes, States
<1>5. /\ With(k.requests, c, stored[c].version) \in Requests
      /\ DOMAIN With(k.requests, c, stored[c].version) = DOMAIN k.requests \cup {c}
  <2>1. PICK f \in PartialMaps(Collections, Nat), n \in Nat :
          f = k.requests /\ n = stored[c].version
    BY <1>4 DEF Requests
  <2>2. With(f, c, n) \in PartialMaps(Collections, Nat)
        /\ DOMAIN With(f, c, n) = DOMAIN f \cup {c}
    BY <1>4, PartialWith
  <2>3. QED BY <2>1, <2>2 DEF Requests
<1>6. PICK y : y = [k EXCEPT !.requests = With(@, c, stored[c].version), !.todo = @ \ {c},
                             !.pc = IF k.todo = {c} THEN "query" ELSE "load"]
  OBVIOUS
<1> HIDE DEF k
<1>7. /\ y \in LoadingTasks /\ y.requests = With(k.requests, c, stored[c].version)
      /\ y.held = {} /\ y.pc \in {"load", "query"} /\ y.todo = k.todo \ {c}
      /\ y.pc = "query" => k.todo = {c}
  BY <1>2, <1>4, <1>5, <1>6 DEF LoadingTasks
<1>8. Fresh(y)
  BY <1>7 DEF Fresh, TaskSet
<1>9. Goto(t, y) /\ UNCHANGED <<server, store, bounds, outcomes>>
  BY <1>3, <1>6 DEF Load, k
<1>10. /\ y.pc = "query" => y.todo = {}
       /\ k.todo \cup DOMAIN k.requests \subseteq y.todo \cup DOMAIN y.requests
  BY <1>5, <1>7
<1>11. QED BY <1>1, <1>2, <1>4, <1>7, <1>8, <1>9, <1>10 DEF k

\* A page, or a snapshot and what follows it, of what the server has.
LEMMA AnswersAre ==
  ASSUME SyncTypes, NEW c \in Collections, NEW v \in Nat, NEW a \in Answers(c, v)
  PROVE  /\ a \in AnswerSet
         /\ a.last <= Len(history[c]) /\ a.snap <= Len(history[c])
         /\ a.snap # 0 => v = 0 /\ a.next > a.snap
<1>1. PICK newest : newest = Len(history[c])
  OBVIOUS
<1>2. newest \in Nat
  BY <1>1 DEF SyncTypes
<1>3. \/ \E to \in (IF v < newest THEN v + 1 ELSE v) .. newest :
            a = [next |-> v + 1, last |-> to, snap |-> 0, more |-> to < newest]
      \/ \E s \in IF v = 0 THEN 1 .. newest ELSE {} : \E to \in s .. newest :
            a = [next |-> s + 1, last |-> to, snap |-> s, more |-> to < newest]
  BY <1>1 DEF Answers
<1>4. CASE \E to \in (IF v < newest THEN v + 1 ELSE v) .. newest :
              a = [next |-> v + 1, last |-> to, snap |-> 0, more |-> to < newest]
  BY <1>1, <1>2, <1>4 DEF AnswerSet
<1>5. CASE \E s \in IF v = 0 THEN 1 .. newest ELSE {} : \E to \in s .. newest :
              a = [next |-> s + 1, last |-> to, snap |-> s, more |-> to < newest]
  BY <1>1, <1>2, <1>5 DEF AnswerSet
<1>6. QED BY <1>3, <1>4, <1>5

LEMMA AnswerStep ==
  ASSUME SyncTypes, NEW t \in Tasks, Answer(t)
  PROVE  \E y \in ApplyingTasks :
           /\ Goto(t, y) /\ task[t] \in LoadingTasks /\ task[t].pc = "query"
           /\ y.pc = "apply" /\ y.held = {} /\ y.snaps = << >>
           /\ DOMAIN y.answers = DOMAIN task[t].requests
           /\ \A c \in DOMAIN y.answers : y.answers[c] \in Answers(c, task[t].requests[c])
           /\ UNCHANGED <<server, store, bounds, outcomes>>
<1> DEFINE k == task[t]
<1>1. k \in TaskSet /\ k.pc = "query"
  BY DEF SyncTypes, Answer
<1>2. k \in LoadingTasks
  BY <1>1, TaskKinds
<1>3. k.requests \in Requests /\ k.held = {} /\ k.recover \in BOOLEAN /\ k.rounds \in Nat
  BY <1>2 DEF LoadingTasks
<1>4. PICK answers \in [DOMAIN k.requests ->
                          UNION {Answers(c, k.requests[c]) : c \in DOMAIN k.requests}] :
        /\ \A c \in DOMAIN k.requests : answers[c] \in Answers(c, k.requests[c])
        /\ Goto(t, Applying(t, "apply", answers, << >>, {}))
  BY DEF Answer
<1>5. ASSUME NEW c \in DOMAIN k.requests
      PROVE  c \in Collections /\ answers[c] \in AnswerSet
  <2>1. c \in Collections /\ k.requests[c] \in Nat
    BY <1>3, PartialMap DEF Requests
  <2>2. QED BY <1>4, <2>1, AnswersAre
<1>6. answers \in Pages
  <2>1. DOMAIN k.requests \in SUBSET Collections /\ answers \in [DOMAIN k.requests -> AnswerSet]
    BY <1>4, <1>5
  <2>2. QED BY <2>1 DEF Pages, PartialMaps
<1>7. << >> \in Requests
  BY PartialEmpty DEF Requests
<1>8. PICK y : y = Applying(t, "apply", answers, << >>, {})
  OBVIOUS
<1>9. y = [pc |-> "apply", held |-> k.held, recover |-> k.recover, rounds |-> k.rounds,
           answers |-> answers, snaps |-> << >>, more |-> {}]
  BY <1>8 DEF Applying
<1> HIDE DEF k
<1>10. y \in ApplyingTasks /\ y.pc = "apply" /\ y.held = {} /\ y.snaps = << >>
       /\ y.answers = answers
  BY <1>3, <1>6, <1>7, <1>9 DEF ApplyingTasks, Events
<1>11. Goto(t, y) /\ UNCHANGED <<server, store, bounds, outcomes>>
  BY <1>4, <1>8 DEF Answer, k
<1>12. QED BY <1>1, <1>2, <1>4, <1>10, <1>11 DEF k

LEMMA ApplyCollectionStep ==
  ASSUME SyncTypes, NEW t \in Tasks, ApplyCollection(t)
  PROVE  \E c \in DOMAIN task[t].answers, y \in PatchingTasks :
           /\ Goto(t, y) /\ task[t] \in ApplyingTasks /\ task[t].pc = "apply"
           /\ y.pc = "patch" /\ y.of = c /\ y.state = stored[c] /\ y.held = task[t].held
           /\ y.answers = task[t].answers /\ y.snaps = task[t].snaps /\ y.more = task[t].more
           /\ UNCHANGED <<server, store, bounds, outcomes>>
<1> DEFINE k == task[t]
<1>1. k \in TaskSet /\ k.pc = "apply"
  BY DEF SyncTypes, ApplyCollection
<1>2. k \in ApplyingTasks
  BY <1>1, TaskKinds
<1>3. PICK c \in DOMAIN k.answers : Goto(t, Patching(t, c, stored[c]))
  BY DEF ApplyCollection
<1>4. c \in Collections
  BY <1>2, PartialMap DEF ApplyingTasks, Pages
<1>5. stored[c] \in States
  BY <1>4 DEF SyncTypes
<1>6. PICK y : y = Patching(t, c, stored[c])
  OBVIOUS
<1>7. y = [pc |-> "patch", held |-> k.held, recover |-> k.recover, rounds |-> k.rounds,
           answers |-> k.answers, snaps |-> k.snaps, more |-> k.more,
           of |-> c, state |-> stored[c]]
  BY <1>6 DEF Patching
<1>8. Goto(t, y) /\ UNCHANGED <<server, store, bounds, outcomes>>
  BY <1>3, <1>6 DEF ApplyCollection
<1> HIDE DEF k
<1>9. /\ y \in PatchingTasks /\ y.pc = "patch" /\ y.of = c /\ y.state = stored[c]
      /\ y.held = k.held /\ y.answers = k.answers /\ y.snaps = k.snaps /\ y.more = k.more
  BY <1>2, <1>4, <1>5, <1>7 DEF ApplyingTasks, PatchingTasks
<1>10. QED BY <1>1, <1>2, <1>8, <1>9 DEF k

\* The patch a task is at.
LEMMA NextPatchIs ==
  ASSUME SyncTypes, HistoryVerifies, NEW t \in Tasks, HasPatch(t), Follows(task[t])
  PROVE  LET k == task[t]
             n == k.answers[k.of].next
         IN  /\ k \in PatchingTasks /\ k.of \in Collections /\ k.answers[k.of] \in AnswerSet
             /\ n \in 1 .. Len(history[k.of])
             /\ NextPatch(t) = history[k.of][n] /\ NextPatch(t) \in Patches
             /\ NextPatch(t).version = n
             /\ StateAt(k.of, n) = [version |-> n, macs |-> NextPatch(t).mac]
<1> DEFINE k == task[t]
           c == k.of
           n == k.answers[c].next
<1>1. k \in TaskSet /\ k.pc = "patch" /\ n <= k.answers[c].last /\ NextPatch(t) = history[c][n]
  BY DEF SyncTypes, HasPatch, NextPatch
<1>2. k \in PatchingTasks /\ Follows(k)
  BY <1>1, TaskKinds
<1> HIDE DEF k
<1>3. c \in Collections /\ k.answers \in Pages /\ c \in DOMAIN k.answers
      /\ k.answers[c].last <= Len(history[c])
  BY <1>1, <1>2 DEF PatchingTasks, Follows
<1>4. k.answers[c] \in AnswerSet
  BY <1>3, PartialMap DEF Pages
<1>5. n \in 1 .. Len(history[c])
  BY <1>1, <1>3, <1>4 DEF AnswerSet, SyncTypes
<1>6. NextPatch(t) \in Patches /\ Decodes(StateAt(c, n - 1), NextPatch(t))
  BY <1>1, <1>3, <1>5 DEF SyncTypes, HistoryVerifies
<1>7. StateAt(c, n - 1).version = n - 1
  BY <1>3, <1>5, StateAtType DEF SyncTypes
<1>8. NextPatch(t).version = n
  BY <1>5, <1>6, <1>7 DEF Decodes
<1>9. StateAt(c, n) = [version |-> n, macs |-> NextPatch(t).mac]
  BY <1>1, <1>5 DEF StateAt
<1>10. QED BY <1>1, <1>2, <1>3, <1>4, <1>5, <1>6, <1>8, <1>9 DEF k

LEMMA ApplyPatchStep ==
  ASSUME SyncTypes, HistoryVerifies, NEW t \in Tasks, ApplyPatch(t), Follows(task[t])
  PROVE  LET k == task[t]
             n == k.answers[k.of].next
         IN  \E y \in PatchingTasks :
               /\ Goto(t, y) /\ k \in PatchingTasks /\ k.pc = "patch" /\ k.of \in Collections
               /\ k.answers[k.of] \in AnswerSet
               /\ y.pc = "unpark" /\ y.of = k.of
               /\ n \in 1 .. Len(history[k.of]) /\ k.state.version + 1 = n
               /\ y.state = StateAt(k.of, n) /\ y.state.version = n
               /\ stored' = [stored EXCEPT ![k.of] = y.state]
               /\ y.held = k.held \cup {<<k.of, n>>}
               /\ n <= k.answers[k.of].last
               /\ y.snaps = k.snaps /\ y.more = k.more /\ DOMAIN y.answers = DOMAIN k.answers
               /\ y.answers[k.of].next = n + 1 /\ y.answers[k.of].more = k.answers[k.of].more
               /\ \A c \in DOMAIN k.answers : /\ y.answers[c].last = k.answers[c].last
                                              /\ y.answers[c].snap = k.answers[c].snap
                                              /\ y.answers[c].next >= k.answers[c].next
                                              /\ c # k.of => y.answers[c] = k.answers[c]
               /\ UNCHANGED <<server, keys, blocked, bounds, outcomes>>
<1> DEFINE k == task[t]
           c == k.of
           n == k.answers[c].next
           p == NextPatch(t)
           next == Advance(k.state, p.mutation)
<1>1. /\ HasPatch(t) /\ Decodes(k.state, p) /\ stored' = [stored EXCEPT ![c] = next]
      /\ Goto(t, [k EXCEPT !.pc = "unpark", !.state = next, !.answers[c].next = @ + 1,
                           !.held = @ \cup {<<c, next.version>>}])
      /\ UNCHANGED <<server, keys, blocked, bounds, outcomes>>
  BY DEF ApplyPatch
<1>2. /\ k \in PatchingTasks /\ c \in Collections /\ k.answers[c] \in AnswerSet
      /\ n \in 1 .. Len(history[c]) /\ p \in Patches /\ p.version = n
      /\ StateAt(c, n) = [version |-> n, macs |-> p.mac]
  BY <1>1, NextPatchIs
<1>3. k.pc = "patch" /\ c \in DOMAIN k.answers /\ Follows(k) /\ n <= k.answers[c].last
  BY <1>1, <1>2 DEF HasPatch, Follows
<1>4. k.state \in States /\ k.answers \in Pages /\ k.held \in Events
  BY <1>2 DEF PatchingTasks
<1> HIDE DEF k, p
<1>5. next = StateAt(c, n) /\ next \in States /\ k.state.version + 1 = n /\ next.version = n
  <2>1. /\ next = [version |-> p.version, macs |-> p.mac] /\ next \in States
        /\ p.version = k.state.version + 1
    BY <1>1, <1>2, <1>4, DecodedState
  <2> HIDE DEF next
  <2>2. QED BY <1>2, <2>1
<1> HIDE DEF next
<1>6. PICK y : y = [k EXCEPT !.pc = "unpark", !.state = next, !.answers[c].next = @ + 1,
                             !.held = @ \cup {<<c, next.version>>}]
  OBVIOUS
<1>7. PICK a : a = [k.answers EXCEPT ![c] = [k.answers[c] EXCEPT !.next = @ + 1]]
  OBVIOUS
<1>8. PICK b : b = [k.answers[c] EXCEPT !.next = @ + 1]
  OBVIOUS
<1>9. b \in AnswerSet /\ b.last = k.answers[c].last /\ b.snap = k.answers[c].snap
      /\ b.next = n + 1 /\ b.more = k.answers[c].more
  BY <1>2, <1>8 DEF AnswerSet
<1>10. /\ DOMAIN a = DOMAIN k.answers /\ a[c] = b
       /\ \A d \in DOMAIN k.answers \ {c} : a[d] = k.answers[d]
       /\ a \in Pages
  <2>1. PICK D \in SUBSET Collections : k.answers \in [D -> AnswerSet]
    BY <1>4 DEF Pages, PartialMaps
  <2>2. a \in [D -> AnswerSet]
    BY <1>3, <1>7, <1>8, <1>9, <2>1
  <2>3. QED BY <1>3, <1>7, <1>8, <2>1, <2>2 DEF Pages, PartialMaps
<1>11. y = [k EXCEPT !.pc = "unpark", !.state = next, !.answers = a,
                     !.held = @ \cup {<<c, next.version>>}]
  BY <1>6, <1>7
<1>12. /\ y \in PatchingTasks /\ y.pc = "unpark" /\ y.of = c /\ y.state = next
       /\ y.answers = a /\ y.snaps = k.snaps /\ y.held = k.held \cup {<<c, n>>}
       /\ y.more = k.more
  <2>1. k.held \cup {<<c, n>>} \in Events
    BY <1>2, <1>4 DEF Events
  <2>2. next.version = n
    BY <1>5
  <2>3. QED BY <1>2, <1>5, <1>10, <1>11, <2>1, <2>2 DEF PatchingTasks
<1>13. \A d \in DOMAIN k.answers : /\ y.answers[d].last = k.answers[d].last
                                   /\ y.answers[d].snap = k.answers[d].snap
                                   /\ y.answers[d].next >= k.answers[d].next
                                   /\ d # c => y.answers[d] = k.answers[d]
  <2> SUFFICES ASSUME NEW d \in DOMAIN k.answers
               PROVE  /\ a[d].last = k.answers[d].last /\ a[d].snap = k.answers[d].snap
                      /\ a[d].next >= k.answers[d].next /\ (d # c => a[d] = k.answers[d])
    BY <1>12
  <2>1. k.answers[d] \in AnswerSet
    BY <1>4, PartialMap DEF Pages
  <2>2. CASE d = c
    BY <1>2, <1>9, <1>10, <2>2
  <2>3. CASE d # c
    BY <1>10, <2>1, <2>3 DEF AnswerSet
  <2>4. QED BY <2>2, <2>3
<1>14. Goto(t, y) /\ stored' = [stored EXCEPT ![c] = y.state]
  BY <1>1, <1>6, <1>12
<1>15. y.answers[c].next = n + 1 /\ y.answers[c].more = k.answers[c].more
  BY <1>9, <1>10, <1>12
<1>16. QED BY <1>1, <1>2, <1>3, <1>5, <1>10, <1>12, <1>13, <1>14, <1>15 DEF k

LEMMA PatchMoveStep ==
  ASSUME SyncTypes, NEW t \in Tasks, Unpark(t) \/ MissKey(t)
  PROVE  \E y \in PatchingTasks :
           /\ Goto(t, y) /\ task[t] \in PatchingTasks
           /\ \/ Unpark(t) /\ y.pc = "patch"
              \/ MissKey(t) /\ y.pc = "park"
           /\ y.of = task[t].of /\ y.state = task[t].state /\ y.held = task[t].held
           /\ y.answers = task[t].answers /\ y.snaps = task[t].snaps /\ y.more = task[t].more
           /\ DOMAIN blocked' \subseteq Collections
           /\ UNCHANGED <<server, stored, keys, bounds, outcomes>>
<1> DEFINE k == task[t]
<1>1. PICK pc \in {"patch", "park"} :
        /\ Goto(t, [k EXCEPT !.pc = pc])
        /\ \/ Unpark(t) /\ pc = "patch"
           \/ MissKey(t) /\ pc = "park"
  BY DEF Unpark, MissKey
<1>2. k \in PatchingTasks
  BY TaskKinds DEF SyncTypes, Unpark, MissKey, HasPatch
<1>3. PICK y : y = [k EXCEPT !.pc = pc]
  OBVIOUS
<1>4. DOMAIN blocked' \subseteq Collections
  BY DEF SyncTypes, Unpark, MissKey, Without, store
<1>5. Goto(t, y) /\ UNCHANGED <<server, stored, keys, bounds, outcomes>>
  BY <1>1, <1>3 DEF Unpark, MissKey, store
<1> HIDE DEF k
<1>6. /\ y \in PatchingTasks /\ y.pc = pc /\ y.of = k.of /\ y.state = k.state
      /\ y.held = k.held /\ y.answers = k.answers /\ y.snaps = k.snaps /\ y.more = k.more
  BY <1>2, <1>3 DEF PatchingTasks
<1>7. QED BY <1>1, <1>2, <1>4, <1>5, <1>6 DEF k

\* A collection is done, parked or at the end of its patches.
LEMMA DoneStep ==
  ASSUME SyncTypes, NEW t \in Tasks, Park(t) \/ FinishCollection(t), Follows(task[t])
  PROVE  LET k == task[t] IN
         \E y \in ApplyingTasks :
           /\ Goto(t, y) /\ k \in PatchingTasks /\ k.of \in DOMAIN k.answers
           /\ y.held = k.held /\ y.answers = Without(k.answers, {k.of})
           /\ \/ y.snaps = k.snaps
              \/ /\ k.answers[k.of].snap # 0
                 /\ y.snaps = With(k.snaps, k.of, k.answers[k.of].snap)
           /\ DOMAIN y.answers # {} => y.pc = "apply"
           /\ \/ Park(t) /\ y.snaps = k.snaps /\ y.more = k.more
              \/ /\ FinishCollection(t)
                 /\ k.answers[k.of].snap = 0 => y.snaps = k.snaps
                 /\ k.answers[k.of].snap # 0 =>
                      y.snaps = With(k.snaps, k.of, k.answers[k.of].snap)
                 /\ k.answers[k.of].more => y.more = k.more \cup {k.of}
                 /\ ~ k.answers[k.of].more => y.more = k.more
           /\ DOMAIN blocked' \subseteq Collections
           /\ UNCHANGED <<server, stored, keys, bounds, outcomes>>
<1> DEFINE k == task[t]
           c == k.of
           rest == Without(k.answers, {c})
<1>1. k \in PatchingTasks /\ k.pc \in {"patch", "unpark", "park"}
  BY TaskKinds DEF SyncTypes, Park, FinishCollection
<1>2. c \in DOMAIN k.answers
  BY <1>1 DEF Follows
<1>3. PICK snaps, more :
        /\ Goto(t, Done(t, c, snaps, more))
        /\ \/ snaps = k.snaps
           \/ k.answers[c].snap # 0 /\ snaps = With(k.snaps, c, k.answers[c].snap)
        /\ \/ Park(t) /\ snaps = k.snaps /\ more = k.more
           \/ /\ FinishCollection(t)
              /\ k.answers[c].snap = 0 => snaps = k.snaps
              /\ k.answers[c].snap # 0 => snaps = With(k.snaps, c, k.answers[c].snap)
              /\ k.answers[c].more => more = k.more \cup {c}
              /\ ~ k.answers[c].more => more = k.more
  <2>1. CASE Park(t)
    BY <2>1 DEF Park
  <2>2. CASE FinishCollection(t)
    BY <2>2 DEF FinishCollection
  <2>3. QED BY <2>1, <2>2
<1>4. DOMAIN blocked' \subseteq Collections
  BY <1>1 DEF SyncTypes, Park, FinishCollection, Without, With, PatchingTasks
<1>5. UNCHANGED <<server, stored, keys, bounds, outcomes>>
  BY DEF Park, FinishCollection
<1>6. PICK y : y = Done(t, c, snaps, more)
  OBVIOUS
<1>7. PICK pc \in {"apply", "emit"} :
        /\ y = [pc |-> pc, held |-> k.held, recover |-> k.recover, rounds |-> k.rounds,
                answers |-> rest, snaps |-> snaps, more |-> more]
        /\ rest # << >> => pc = "apply"
  BY <1>6 DEF Done, Applying
<1>8. Goto(t, y)
  BY <1>3, <1>6
<1> HIDE DEF k
<1>9. /\ k.answers \in Pages /\ k.snaps \in Requests /\ k.more \in SUBSET Collections
      /\ c \in Collections /\ k.held \in Events
  BY <1>1 DEF PatchingTasks
<1>10. rest \in Pages /\ k.answers[c] \in AnswerSet
  BY <1>2, <1>9, PartialWithout, PartialMap DEF Pages
<1>11. snaps \in Requests /\ more \in SUBSET Collections
  <2>1. k.answers[c].snap \in Nat
    BY <1>10 DEF AnswerSet
  <2>2. With(k.snaps, c, k.answers[c].snap) \in Requests
    BY <1>9, <2>1, PartialWith DEF Requests
  <2>3. snaps \in Requests
    BY <1>3, <1>9, <2>2
  <2>4. QED BY <1>3, <1>9, <2>3
<1>12. DOMAIN rest # {} => pc = "apply"
  BY <1>7, PartialEmpty
<1> HIDE DEF rest
<1>13. /\ y \in ApplyingTasks /\ y.held = k.held /\ y.answers = rest /\ y.snaps = snaps
       /\ y.pc = pc /\ y.more = more
  BY <1>1, <1>7, <1>9, <1>10, <1>11 DEF ApplyingTasks, PatchingTasks
<1>14. /\ DOMAIN y.answers # {} => y.pc = "apply"
       /\ \/ Park(t) /\ y.snaps = k.snaps /\ y.more = k.more
          \/ /\ FinishCollection(t)
             /\ k.answers[c].snap = 0 => y.snaps = k.snaps
             /\ k.answers[c].snap # 0 => y.snaps = With(k.snaps, c, k.answers[c].snap)
             /\ k.answers[c].more => y.more = k.more \cup {c}
             /\ ~ k.answers[c].more => y.more = k.more
  BY <1>3, <1>12, <1>13
<1>15. QED BY <1>1, <1>2, <1>3, <1>4, <1>5, <1>8, <1>13, <1>14 DEF k, rest

LEMMA EmitStep ==
  ASSUME SyncTypes, NEW t \in Tasks, Emit(t)
  PROVE  LET k == task[t] IN
         /\ k \in ApplyingTasks /\ k.pc = "emit" /\ emitted' = emitted \cup k.held
         /\ UNCHANGED <<server, store, bounds, abandoned, failed>>
         /\ ~ dropped' => ~ dropped
         /\ \/ Goto(t, Idle) /\ k.more = {} /\ (~ dropped' => k.snaps = << >>)
            \/ \E y \in EmittedTasks :
                  /\ Goto(t, y) /\ y.snaps = k.snaps /\ y.more = k.more
                  /\ y.pc = "next" /\ ~ dropped' => k.snaps = << >>
<1> DEFINE k == task[t]
<1>1. PICK pc \in {"next", "snapshot"} :
        /\ \/ Goto(t, Idle) /\ k.more = {} /\ pc = "next"
           \/ Goto(t, [k EXCEPT !.pc = pc, !.held = {}])
        /\ pc = "next" /\ ~ dropped' => k.snaps = << >>
  <2> DEFINE pc == IF k.recover /\ k.snaps # << >> THEN "snapshot" ELSE "next"
             next == [k EXCEPT !.pc = pc, !.held = {}]
  <2>1. Goto(t, IF next.pc = "next" /\ next.more = {} THEN Idle ELSE next)
    BY DEF Emit
  <2>2. pc \in {"next", "snapshot"}
    OBVIOUS
  <2>3. pc = "next" /\ ~ dropped' => k.snaps = << >>
    BY DEF Emit
  <2>4. k \in ApplyingTasks
    BY TaskKinds DEF SyncTypes, Emit
  <2>5. next.pc = pc /\ next.more = k.more
    BY <2>4 DEF ApplyingTasks
  <2> HIDE DEF next
  <2>6. (Goto(t, Idle) /\ k.more = {} /\ pc = "next") \/ Goto(t, next)
    BY <2>1, <2>5
  <2>7. QED BY <2>2, <2>3, <2>6 DEF next
<1>2. /\ k.pc = "emit" /\ emitted' = emitted \cup k.held
      /\ UNCHANGED <<server, store, bounds, abandoned, failed>>
      /\ ~ dropped' => ~ dropped
  BY DEF Emit
<1>3. k \in ApplyingTasks
  BY <1>2, TaskKinds DEF SyncTypes
<1>4. PICK y : y = [k EXCEPT !.pc = pc, !.held = {}]
  OBVIOUS
<1>5. (Goto(t, Idle) /\ k.more = {} /\ pc = "next") \/ Goto(t, y)
  BY <1>1, <1>4
<1> HIDE DEF k
<1>6. y \in EmittedTasks /\ y.pc = pc /\ y.snaps = k.snaps /\ y.more = k.more
  BY <1>3, <1>4 DEF ApplyingTasks, EmittedTasks
<1>7. QED BY <1>1, <1>2, <1>3, <1>5, <1>6 DEF k

LEMMA NextRoundStep ==
  ASSUME SyncTypes, NEW t \in Tasks, NextRound(t)
  PROVE  /\ task[t] \in EmittedTasks /\ task[t].pc = "next"
         /\ UNCHANGED <<server, store, bounds, outcomes>>
         /\ \E y : /\ Goto(t, y) /\ Fresh(y) /\ y.pc \in {"idle", "load"}
                   /\ y.pc = "load" => y.requests = << >> /\ y.todo = task[t].more
                   /\ y.pc = "idle" => task[t].more = {}
<1> DEFINE k == task[t]
<1>1. /\ k.pc = "next" /\ k.rounds > 1 /\ Goto(t, Round(k.rounds - 1, k.more, k.recover))
      /\ UNCHANGED <<server, store, bounds, outcomes>>
  BY DEF NextRound
<1>2. k \in EmittedTasks
  BY <1>1, TaskKinds DEF SyncTypes
<1> HIDE DEF k
<1>3. k.rounds - 1 \in Nat /\ k.more \in SUBSET Collections /\ k.recover \in BOOLEAN
  BY <1>1, <1>2 DEF EmittedTasks
<1>4. PICK y : y = Round(k.rounds - 1, k.more, k.recover)
  OBVIOUS
<1>5. /\ Fresh(y) /\ y.pc \in {"idle", "load"}
      /\ y.pc = "load" => y.requests = << >> /\ y.todo = k.more
      /\ y.pc = "idle" => k.more = {}
  BY <1>3, <1>4, RoundFresh
<1>6. QED BY <1>1, <1>2, <1>4, <1>5 DEF k

LEMMA ApplySnapshotStep ==
  ASSUME SyncTypes, NEW t \in Tasks, ApplySnapshot(t), Follows(task[t])
  PROVE  \E c \in DOMAIN task[t].snaps, y \in RecoveredTasks :
           LET n == task[t].snaps[c] IN
           /\ Goto(t, y) /\ task[t] \in EmittedTasks /\ task[t].pc = "snapshot"
           /\ c \in Collections /\ n \in 1 .. Len(history[c])
           /\ y.of = c /\ y.snaps = task[t].snaps /\ y.more = task[t].more
           /\ y.held = {c} \X (1 .. n)
           /\ stored' = [stored EXCEPT ![c] = StateAt(c, n)]
           /\ UNCHANGED <<server, keys, blocked, bounds, outcomes>>
<1> DEFINE k == task[t]
<1>1. PICK c \in DOMAIN k.snaps :
        /\ stored' = [stored EXCEPT ![c] = StateAt(c, k.snaps[c])]
        /\ Goto(t, Recovered(t, "clear", c, {c} \X (1 .. k.snaps[c])))
  BY DEF ApplySnapshot
<1>2. k \in EmittedTasks /\ k.pc = "snapshot"
  BY TaskKinds DEF SyncTypes, ApplySnapshot
<1>3. UNCHANGED <<server, keys, blocked, bounds, outcomes>>
  BY DEF ApplySnapshot
<1>4. PICK y : y = Recovered(t, "clear", c, {c} \X (1 .. k.snaps[c]))
  OBVIOUS
<1>5. y = [pc |-> "clear", held |-> {c} \X (1 .. k.snaps[c]), recover |-> k.recover,
           rounds |-> k.rounds, snaps |-> k.snaps, more |-> k.more, of |-> c]
  BY <1>4 DEF Recovered
<1>6. Goto(t, y)
  BY <1>1, <1>4
<1>7. k.snaps[c] \in 1 .. Len(history[c])
  BY <1>2 DEF Follows
<1> HIDE DEF k
<1>8. c \in Collections
  BY <1>2, PartialMap DEF EmittedTasks, Requests
<1>9. {c} \X (1 .. k.snaps[c]) \in Events
  BY <1>7, <1>8 DEF Events, SyncTypes
<1>10. /\ y \in RecoveredTasks /\ y.of = c /\ y.snaps = k.snaps
       /\ y.held = {c} \X (1 .. k.snaps[c]) /\ y.more = k.more
  BY <1>2, <1>5, <1>8, <1>9 DEF EmittedTasks, RecoveredTasks
<1>11. QED BY <1>1, <1>2, <1>3, <1>6, <1>7, <1>8, <1>10 DEF k

LEMMA MissSnapshotKeyStep ==
  ASSUME SyncTypes, NEW t \in Tasks, MissSnapshotKey(t)
  PROVE  \E c \in DOMAIN task[t].snaps, y \in HoldingTasks :
           /\ Goto(t, y) /\ task[t] \in EmittedTasks /\ task[t].pc = "snapshot"
           /\ y.of = c /\ y.snaps = task[t].snaps /\ y.more = task[t].more
           /\ history[c][task[t].snaps[c]].key \notin keys
           /\ UNCHANGED <<server, store, bounds, outcomes>>
<1> DEFINE k == task[t]
<1>1. PICK c \in DOMAIN k.snaps : /\ Goto(t, Recovered(t, "hold", c, {}))
                                 /\ history[c][k.snaps[c]].key \notin keys
  BY DEF MissSnapshotKey
<1>2. k \in EmittedTasks /\ k.pc = "snapshot"
  BY TaskKinds DEF SyncTypes, MissSnapshotKey
<1>3. UNCHANGED <<server, store, bounds, outcomes>>
  BY DEF MissSnapshotKey
<1>4. PICK y : y = Recovered(t, "hold", c, {})
  OBVIOUS
<1>5. y = [pc |-> "hold", held |-> {}, recover |-> k.recover,
           rounds |-> k.rounds, snaps |-> k.snaps, more |-> k.more, of |-> c]
  BY <1>4 DEF Recovered
<1>6. Goto(t, y)
  BY <1>1, <1>4
<1> HIDE DEF k
<1>7. c \in Collections
  BY <1>2, PartialMap DEF EmittedTasks, Requests
<1>8. y \in HoldingTasks /\ y.of = c /\ y.snaps = k.snaps /\ y.more = k.more
  BY <1>2, <1>5, <1>7 DEF EmittedTasks, HoldingTasks
<1>9. QED BY <1>1, <1>2, <1>3, <1>6, <1>8 DEF k

\* A snapshot is done, applied or parked.
LEMMA SnapshotDoneStep ==
  ASSUME SyncTypes, NEW t \in Tasks, ClearSnapshot(t) \/ ParkSnapshot(t)
  PROVE  LET k == task[t] IN
         /\ k \in RecoveredTasks \cup HoldingTasks
         /\ \E more :
              /\ \/ ClearSnapshot(t) /\ more = k.more
                 \/ ParkSnapshot(t) /\ more = k.more \ {k.of}
              /\ \/ Goto(t, Idle) /\ DOMAIN k.snaps \subseteq {k.of} /\ more = {}
                 \/ \E y \in EmittedTasks :
                       /\ Goto(t, y) /\ y.snaps = Without(k.snaps, {k.of}) /\ y.more = more
                       /\ DOMAIN y.snaps # {} => y.pc = "snapshot"
         /\ emitted \subseteq emitted' /\ k.held \subseteq emitted' /\ abandoned' = abandoned
         /\ DOMAIN blocked' \subseteq Collections
         /\ UNCHANGED <<server, stored, keys, bounds>>
<1> DEFINE k == task[t]
           c == k.of
           rest == Without(k.snaps, {c})
<1>1. k \in RecoveredTasks \cup HoldingTasks
  BY TaskKinds DEF SyncTypes, ClearSnapshot, ParkSnapshot
<1>2. PICK more : /\ Goto(t, NextSnapshot(t, c, more))
                  /\ \/ ClearSnapshot(t) /\ more = k.more
                     \/ ParkSnapshot(t) /\ more = k.more \ {c}
  BY DEF ClearSnapshot, ParkSnapshot
<1>3. /\ emitted \subseteq emitted' /\ k.held \subseteq emitted' /\ abandoned' = abandoned
  <2>1. CASE ClearSnapshot(t)
    BY <2>1 DEF ClearSnapshot
  <2>2. CASE ParkSnapshot(t)
    <3>1. k.held = {}
      BY <2>2, TaskKinds DEF SyncTypes, ParkSnapshot, HoldingTasks
    <3>2. QED BY <2>2, <3>1 DEF ParkSnapshot, outcomes
  <2>3. QED BY <2>1, <2>2
<1>4. /\ DOMAIN blocked' \subseteq Collections
      /\ UNCHANGED <<server, stored, keys, bounds>>
  BY <1>1 DEF SyncTypes, ClearSnapshot, ParkSnapshot, Without, With, RecoveredTasks, HoldingTasks
<1>5. PICK next :
        /\ \E pc \in {"next", "snapshot"} :
              /\ next = [pc |-> pc, held |-> k.held, recover |-> k.recover,
                         rounds |-> k.rounds, answers |-> << >>, snaps |-> rest, more |-> more]
              /\ rest # << >> => pc = "snapshot"
        /\ \/ NextSnapshot(t, c, more) = Idle /\ rest = << >> /\ more = {}
           \/ NextSnapshot(t, c, more) = [next EXCEPT !.held = {}]
  BY DEF NextSnapshot, Applying
<1>6. PICK pc \in {"next", "snapshot"} :
         /\ next = [pc |-> pc, held |-> k.held, recover |-> k.recover, rounds |-> k.rounds,
                    answers |-> << >>, snaps |-> rest, more |-> more]
         /\ rest # << >> => pc = "snapshot"
  BY <1>5
<1>7. PICK y : y = [next EXCEPT !.held = {}]
  OBVIOUS
<1>8. (Goto(t, Idle) /\ rest = << >> /\ more = {}) \/ Goto(t, y)
  BY <1>2, <1>5, <1>7
<1>9. /\ DOMAIN rest # {} => pc = "snapshot"
      /\ rest = << >> => DOMAIN k.snaps \subseteq {c}
  BY <1>6, PartialEmpty DEF Without
<1> HIDE DEF k
<1>10. /\ k.snaps \in Requests /\ k.more \in SUBSET Collections /\ k.recover \in BOOLEAN
       /\ k.rounds \in Nat
  BY <1>1 DEF RecoveredTasks, HoldingTasks
<1>11. rest \in Requests /\ << >> \in Pages /\ more \in SUBSET Collections
  BY <1>2, <1>10, PartialWithout, PartialEmpty DEF Requests, Pages
<1> HIDE DEF rest
<1>12. y = [pc |-> pc, held |-> {}, recover |-> k.recover, rounds |-> k.rounds,
            answers |-> << >>, snaps |-> rest, more |-> more]
  BY <1>6, <1>7
<1>13. y \in EmittedTasks /\ y.snaps = rest /\ y.more = more /\ y.pc = pc
  BY <1>10, <1>11, <1>12 DEF EmittedTasks
<1>14. \/ Goto(t, Idle) /\ DOMAIN k.snaps \subseteq {c} /\ more = {}
       \/ /\ Goto(t, y) /\ y.snaps = rest /\ y.more = more
          /\ DOMAIN y.snaps # {} => y.pc = "snapshot"
  BY <1>8, <1>9, <1>13
<1>15. QED BY <1>1, <1>2, <1>3, <1>4, <1>13, <1>14 DEF k, rest

LEMMA LoadPreviousStep ==
  ASSUME SyncTypes, NEW t \in Tasks, LoadPrevious(t)
  PROVE  \E y \in UploadTasks :
           /\ Begin(t, y) /\ y.state = stored[y.of]
           /\ UNCHANGED <<server, store, outcomes>>
<1>1. PICK c \in Collections :
        AppBegin(t, [pc |-> "upload", held |-> {}, of |-> c, state |-> stored[c]])
  BY DEF LoadPrevious
<1>2. PICK y : y = [pc |-> "upload", held |-> {}, of |-> c, state |-> stored[c]]
  OBVIOUS
<1>3. y \in UploadTasks /\ y.state = stored[y.of]
  BY <1>2 DEF UploadTasks, SyncTypes
<1>4. Begin(t, y) /\ UNCHANGED <<server, store, outcomes>>
  BY <1>1, <1>2 DEF AppBegin, LoadPrevious
<1>5. QED BY <1>3, <1>4

LEMMA UploadStep ==
  ASSUME SyncTypes, NEW t \in Tasks, Upload(t), Follows(task[t])
  PROVE  LET k == task[t] IN
         \E key \in Keys, m \in Mutations, y \in UploadedTasks :
           /\ Goto(t, y) /\ k \in UploadTasks
           /\ k.state.version = Len(history[k.of]) /\ k.state = Newest(k.of)
           /\ history' = [history EXCEPT ![k.of] = Append(@, Bundle(Newest(k.of), key, m))]
           /\ y.pc = "save" /\ y.of = k.of /\ y.state = Advance(Newest(k.of), m)
           /\ y.state.version = k.state.version + 1
           /\ y.held = {<<k.of, k.state.version + 1>>}
           /\ UNCHANGED <<shared, inbox, store, bounds, outcomes>>
<1> DEFINE k == task[t]
           c == k.of
<1>1. k \in UploadTasks /\ k.pc = "upload"
  BY TaskKinds DEF SyncTypes, Upload
<1>2. c \in Collections /\ k.state \in States
  BY <1>1 DEF UploadTasks
<1>3. k.state.version = Len(history[c]) /\ k.state = Newest(c)
  BY <1>1 DEF Upload, Follows, AtServer, Newest
<1>4. PICK key \in keys, m \in Mutations :
        /\ history' = [history EXCEPT ![c] = Append(@, Bundle(k.state, key, m))]
        /\ Goto(t, [k EXCEPT !.pc = "save", !.state = Advance(k.state, m),
                             !.held = {<<c, Bundle(k.state, key, m).version>>}])
  BY Zenon DEF Upload
<1>5. key \in Keys
  BY DEF SyncTypes
<1>6. UNCHANGED <<shared, inbox, store, bounds, outcomes>>
  BY DEF Upload
<1>7. PICK next : next = Advance(k.state, m)
  OBVIOUS
<1>8. PICK n : n = Bundle(k.state, key, m).version
  OBVIOUS
<1>9. PICK y : y = [k EXCEPT !.pc = "save", !.state = next, !.held = {<<c, n>>}]
  OBVIOUS
<1>10. Goto(t, y)
  BY <1>4, <1>7, <1>8, <1>9
<1> HIDE DEF k
<1>11. /\ next \in States /\ next.version = k.state.version + 1
       /\ n = k.state.version + 1 /\ n \in Nat
  BY <1>2, <1>5, <1>7, <1>8, AdvanceType, BundleDecodes DEF States
<1>12. /\ y \in UploadedTasks /\ y.pc = "save" /\ y.of = c /\ y.state = next
       /\ y.held = {<<c, n>>}
  <2>1. {<<c, n>>} \in Events
    BY <1>2, <1>11 DEF Events
  <2>2. QED BY <1>1, <1>2, <1>9, <1>11, <2>1 DEF UploadTasks, UploadedTasks
<1>13. QED BY <1>1, <1>3, <1>4, <1>5, <1>6, <1>7, <1>10, <1>11, <1>12 DEF k

LEMMA SaveUploadStep ==
  ASSUME SyncTypes, NEW t \in Tasks, SaveUpload(t)
  PROVE  LET k == task[t] IN
         \E y \in UploadedTasks :
           /\ Goto(t, y) /\ k \in UploadedTasks /\ k.pc = "save"
           /\ y.pc = "announce" /\ y.held = k.held
           /\ stored' = [stored EXCEPT ![k.of] = k.state]
           /\ UNCHANGED <<server, keys, blocked, bounds, outcomes>>
<1> DEFINE k == task[t]
<1>1. k \in UploadedTasks /\ k.pc = "save"
  BY TaskKinds DEF SyncTypes, SaveUpload
<1>2. PICK y : y = [k EXCEPT !.pc = "announce"]
  OBVIOUS
<1>3. /\ Goto(t, y) /\ stored' = [stored EXCEPT ![k.of] = k.state]
      /\ UNCHANGED <<server, keys, blocked, bounds, outcomes>>
  BY <1>2 DEF SaveUpload
<1> HIDE DEF k
<1>4. y \in UploadedTasks /\ y.pc = "announce" /\ y.held = k.held
  BY <1>1, <1>2 DEF UploadedTasks
<1>5. QED BY <1>1, <1>3, <1>4 DEF k

-----------------------------------------------------------------------------
(* Each of them keeps the invariant.                                        *)

LEMMA GotoQuiet ==
  ASSUME SyncInv, UNCHANGED <<server, stored, keys>>, DOMAIN blocked' \subseteq Collections,
         NEW t \in Tasks, NEW y \in TaskSet, Goto(t, y), Follows(y), Covers(y),
         emitted \subseteq emitted', abandoned' = abandoned,
         task[t].held \subseteq y.held \cup emitted'
  PROVE  SyncInv'
<1>1. MovesTo(t, y)
  BY GotoMoves DEF SyncInv
<1>2. UNCHANGED <<history, stored>> /\ inbox' \subseteq inbox /\ keys' \subseteq Keys
  BY DEF server, SyncInv, SyncTypes
<1>3. QED BY <1>1, <1>2, Quiet

LEMMA GotoFresh ==
  ASSUME SyncInv, UNCHANGED <<server, stored, keys>>, DOMAIN blocked' \subseteq Collections,
         NEW t \in Tasks, NEW y, Fresh(y), Goto(t, y),
         emitted \subseteq emitted', abandoned' = abandoned,
         task[t].held \subseteq emitted'
  PROVE  SyncInv'
<1>1. y \in TaskSet /\ Follows(y) /\ Covers(y)
  BY FreshTask DEF Fresh
<1>2. QED BY <1>1, GotoQuiet

LEMMA SyncRequest ==
  ASSUME SyncInv, NEW t \in Tasks, Load(t) \/ Answer(t)
  PROVE  SyncInv'
<1>1. SyncTypes /\ DOMAIN blocked \subseteq Collections
  BY DEF SyncInv, SyncTypes
<1>2. CASE Load(t)
  <2>1. PICK y \in LoadingTasks :
          /\ Goto(t, y) /\ task[t] \in LoadingTasks /\ Fresh(y)
          /\ UNCHANGED <<server, store, bounds, outcomes>>
    BY <1>1, <1>2, LoadStep
  <2>2. task[t].held = {}
    BY <2>1 DEF LoadingTasks
  <2>3. QED BY <1>1, <2>1, <2>2, GotoFresh DEF store, outcomes
<1>3. CASE Answer(t)
  <2>1. PICK y \in ApplyingTasks :
          /\ Goto(t, y) /\ task[t] \in LoadingTasks
          /\ y.pc = "apply" /\ y.held = {} /\ y.snaps = << >>
          /\ DOMAIN y.answers = DOMAIN task[t].requests
          /\ \A c \in DOMAIN y.answers : y.answers[c] \in Answers(c, task[t].requests[c])
          /\ UNCHANGED <<server, store, bounds, outcomes>>
    BY <1>1, <1>3, AnswerStep
  <2>2. task[t].held = {} /\ task[t].requests \in Requests
    BY <2>1 DEF LoadingTasks
  <2>3. ASSUME NEW c \in DOMAIN y.answers
        PROVE  y.answers[c].last <= Len(history[c]) /\ y.answers[c].snap <= Len(history[c])
    <3>1. c \in Collections /\ task[t].requests[c] \in Nat
      BY <2>1, <2>2, PartialMap DEF Requests
    <3>2. QED BY <1>1, <2>1, <3>1, AnswersAre
  <2>4. Follows(y) /\ Covers(y)
    BY <2>1, <2>3, PartialEmpty DEF Follows, Covers
  <2>5. y \in TaskSet
    BY <2>1 DEF TaskSet
  <2>6. QED BY <1>1, <2>1, <2>2, <2>4, <2>5, GotoQuiet DEF store, outcomes
<1>4. QED BY <1>2, <1>3

LEMMA SyncPatchMoves ==
  ASSUME SyncInv, NEW t \in Tasks,
         ApplyCollection(t) \/ Unpark(t) \/ MissKey(t) \/ Park(t) \/ FinishCollection(t)
  PROVE  SyncInv'
<1>1. /\ SyncTypes /\ DOMAIN blocked \subseteq Collections
      /\ Follows(task[t]) /\ Covers(task[t]) /\ StoredIsServers /\ EmittedOrAbandoned
  BY DEF SyncInv, SyncTypes
<1>2. CASE ApplyCollection(t)
  <2>1. PICK c \in DOMAIN task[t].answers, y \in PatchingTasks :
          /\ Goto(t, y) /\ task[t] \in ApplyingTasks /\ task[t].pc = "apply"
          /\ y.pc = "patch" /\ y.of = c /\ y.state = stored[c] /\ y.held = task[t].held
          /\ y.answers = task[t].answers /\ y.snaps = task[t].snaps
          /\ UNCHANGED <<server, store, bounds, outcomes>>
    BY <1>1, <1>2, ApplyCollectionStep
  <2>2. c \in Collections
    BY <2>1 DEF PatchingTasks
  <2>3. AtServer(c, y.state) /\ {c} \X (1 .. y.state.version) \subseteq Seen
    BY <1>1, <2>1, <2>2 DEF StoredIsServers, EmittedOrAbandoned, AtServer, Seen
  <2>4. Follows(y) /\ Covers(y)
    BY <1>1, <2>1, <2>3 DEF Follows, Covers
  <2>5. y \in TaskSet
    BY <2>1 DEF TaskSet
  <2>6. QED BY <1>1, <2>1, <2>4, <2>5, GotoQuiet DEF store, outcomes
<1>3. CASE Unpark(t) \/ MissKey(t)
  <2>1. PICK y \in PatchingTasks :
          /\ Goto(t, y) /\ task[t] \in PatchingTasks
          /\ y.pc \in {"patch", "park"}
          /\ y.of = task[t].of /\ y.state = task[t].state /\ y.held = task[t].held
          /\ y.answers = task[t].answers /\ y.snaps = task[t].snaps
          /\ DOMAIN blocked' \subseteq Collections
          /\ UNCHANGED <<server, stored, keys, bounds, outcomes>>
    BY <1>1, <1>3, PatchMoveStep
  <2>2. task[t].pc \in {"patch", "unpark", "park"}
    BY <2>1 DEF PatchingTasks
  <2>3. Follows(y) /\ Covers(y)
    BY <1>1, <2>1, <2>2 DEF Follows, Covers
  <2>4. y \in TaskSet
    BY <2>1 DEF TaskSet
  <2>5. QED BY <1>1, <2>1, <2>3, <2>4, GotoQuiet DEF outcomes
<1>4. CASE Park(t) \/ FinishCollection(t)
  <2>1. PICK k : k = task[t]
    OBVIOUS
  <2>2. PICK y \in ApplyingTasks :
          /\ Goto(t, y) /\ k \in PatchingTasks /\ k.of \in DOMAIN k.answers
          /\ y.held = k.held /\ y.answers = Without(k.answers, {k.of})
          /\ \/ y.snaps = k.snaps
             \/ /\ k.answers[k.of].snap # 0
                /\ y.snaps = With(k.snaps, k.of, k.answers[k.of].snap)
          /\ DOMAIN blocked' \subseteq Collections
          /\ UNCHANGED <<server, stored, keys, bounds, outcomes>>
    BY <1>1, <1>4, <2>1, DoneStep
  <2>3. /\ k.pc \in {"patch", "unpark", "park"} /\ y.pc \in {"apply", "emit"}
        /\ k.answers \in Pages /\ k.snaps \in Requests /\ k.of \in Collections
    BY <2>2 DEF PatchingTasks, ApplyingTasks
  <2>4. /\ \A c \in DOMAIN k.answers :
               k.answers[c].last <= Len(history[c]) /\ k.answers[c].snap <= Len(history[c])
        /\ \A c \in DOMAIN k.snaps : k.snaps[c] \in 1 .. Len(history[c])
    BY <1>1, <2>1, <2>3 DEF Follows
  <2>5. \A c \in DOMAIN y.answers : c \in DOMAIN k.answers /\ y.answers[c] = k.answers[c]
    <3>1. y.answers = Without(k.answers, {k.of})
      BY <2>2
    <3>2. /\ DOMAIN y.answers = DOMAIN k.answers \ {k.of}
          /\ \A c \in DOMAIN k.answers \ {k.of} : y.answers[c] = k.answers[c]
      BY <3>1 DEF Without
    <3>3. QED BY <3>2
  <2>6. ASSUME NEW c \in DOMAIN y.snaps
        PROVE  y.snaps[c] \in 1 .. Len(history[c])
    <3>1. CASE y.snaps = k.snaps
      BY <2>4, <2>6, <3>1
    <3>2. CASE /\ k.answers[k.of].snap # 0
               /\ y.snaps = With(k.snaps, k.of, k.answers[k.of].snap)
      <4>1. k.answers[k.of] \in AnswerSet
        BY <2>2, <2>3, PartialMap DEF Pages
      <4>2. k.answers[k.of].snap \in Nat
        BY <4>1 DEF AnswerSet
      <4>3. k.answers[k.of].snap \in 1 .. Len(history[k.of])
        BY <1>1, <2>2, <2>3, <2>4, <3>2, <4>2 DEF SyncTypes
      <4>4. /\ DOMAIN y.snaps = DOMAIN k.snaps \cup {k.of}
            /\ y.snaps[k.of] = k.answers[k.of].snap
            /\ \A d \in DOMAIN k.snaps \ {k.of} : y.snaps[d] = k.snaps[d]
        <5>1. PICK f \in PartialMaps(Collections, Nat), n \in Nat :
                f = k.snaps /\ n = k.answers[k.of].snap
          BY <2>3, <4>2 DEF Requests
        <5>2. PICK d \in Collections : d = k.of
          BY <2>3
        <5>3. /\ DOMAIN With(f, d, n) = DOMAIN f \cup {d} /\ With(f, d, n)[d] = n
              /\ \A e \in DOMAIN f \ {d} : With(f, d, n)[e] = f[e]
          BY PartialWith
        <5>4. y.snaps = With(f, d, n)
          BY <3>2, <5>1, <5>2
        <5>5. QED BY <5>1, <5>2, <5>3, <5>4
      <4>5. CASE c = k.of
        BY <4>3, <4>4, <4>5
      <4>6. CASE c # k.of
        BY <2>4, <2>6, <4>4, <4>6
      <4>7. QED BY <4>5, <4>6
    <3>3. QED BY <2>2, <3>1, <3>2
  <2>7. Follows(y) /\ Covers(y)
    BY <2>3, <2>4, <2>5, <2>6 DEF Follows, Covers
  <2>8. y \in TaskSet
    BY <2>2 DEF TaskSet
  <2>9. QED BY <1>1, <2>1, <2>2, <2>7, <2>8, GotoQuiet DEF outcomes
<1>5. QED BY <1>2, <1>3, <1>4

LEMMA SyncApplyPatch ==
  ASSUME SyncInv, NEW t \in Tasks, ApplyPatch(t)
  PROVE  SyncInv'
<1>1. /\ SyncTypes /\ HistoryVerifies /\ DOMAIN blocked \subseteq Collections
      /\ Follows(task[t]) /\ Covers(task[t])
  BY DEF SyncInv, SyncTypes
<1>2. PICK k : k = task[t]
  OBVIOUS
<1>3. PICK c, n : c = k.of /\ n = k.answers[c].next
  OBVIOUS
<1>4. PICK y \in PatchingTasks :
        /\ Goto(t, y) /\ k \in PatchingTasks /\ k.pc = "patch" /\ c \in Collections
        /\ y.pc = "unpark" /\ y.of = c
        /\ n \in 1 .. Len(history[c]) /\ k.state.version + 1 = n
        /\ y.state = StateAt(c, n) /\ y.state.version = n
        /\ stored' = [stored EXCEPT ![c] = y.state]
        /\ y.held = k.held \cup {<<c, n>>}
        /\ y.snaps = k.snaps /\ DOMAIN y.answers = DOMAIN k.answers
        /\ \A d \in DOMAIN k.answers : /\ y.answers[d].last = k.answers[d].last
                                       /\ y.answers[d].snap = k.answers[d].snap
        /\ UNCHANGED <<server, keys, blocked, bounds, outcomes>>
  BY <1>1, <1>2, <1>3, ApplyPatchStep
<1>5. y \in TaskSet /\ k.state \in States /\ k.state.version \in Nat /\ n \in Nat
  BY <1>4 DEF TaskSet, PatchingTasks, States, SyncTypes
<1>6. PICK s \in States : s = y.state
  BY <1>4 DEF PatchingTasks
<1>7. MovesTo(t, y)
  BY <1>1, <1>2, <1>4, <1>5, GotoMoves DEF outcomes
<1>8. Seen \subseteq Seen' /\ y.held \subseteq Seen'
  BY <1>1, <1>7, SeenGrows
<1>9. {c} \X (1 .. n) \subseteq Seen'
  <2>1. {c} \X (1 .. k.state.version) \subseteq Seen
    BY <1>1, <1>2, <1>3, <1>4 DEF Covers
  <2>2. <<c, n>> \in Seen'
    BY <1>4, <1>8
  <2>3. ASSUME NEW i \in 1 .. n PROVE <<c, i>> \in Seen'
    <3>1. CASE i = n
      BY <2>2, <3>1
    <3>2. CASE i # n
      <4>1. i \in 1 .. k.state.version
        BY <1>4, <1>5, <3>2
      <4>2. <<c, i>> \in {c} \X (1 .. k.state.version)
        BY <4>1
      <4>3. QED BY <1>8, <2>1, <4>2
    <3>3. QED BY <3>1, <3>2
  <2>4. QED BY <2>3
<1>10. AtServer(c, s)
  BY <1>4, <1>6 DEF AtServer
<1>11. Follows(y)
  BY <1>1, <1>2, <1>3, <1>4, <1>6, <1>10 DEF Follows
<1>12. UNCHANGED history
  BY <1>4 DEF server
<1>13. Follows(y)' /\ AtServer(c, s)'
  BY <1>10, <1>11, <1>12 DEF Follows, AtServer, StateAt
<1>14. Covers(y)'
  BY <1>4, <1>9 DEF Covers
<1>15. /\ HistoryGrows /\ HistoryVerifies'
       /\ history' \in [Collections -> Seq(Patches)]
       /\ keys' \subseteq Keys /\ DOMAIN blocked' \subseteq Collections
       /\ inbox' \subseteq [type : {"sync"}, of : Collections] \cup [type : {"share"}, of : Keys]
  BY <1>1, <1>4, <1>12, HistorySame DEF SyncTypes, server
<1>16. stored' \in [Collections -> States] /\ stored'[c] = s
       /\ \A d \in Collections \ {c} : stored'[d] = stored[d]
  BY <1>1, <1>4, <1>6 DEF SyncTypes
<1>17. ASSUME NEW d \in Collections
       PROVE  \/ stored'[d] = stored[d]
              \/ \E z \in States : /\ stored'[d] = z /\ AtServer(d, z)'
                                   /\ {d} \X (1 .. z.version) \subseteq Seen'
  <2>1. CASE d = c
    <3>1. {c} \X (1 .. s.version) \subseteq Seen'
      BY <1>4, <1>6, <1>9
    <3>2. QED BY <1>13, <1>16, <2>1, <3>1
  <2>2. CASE d # c
    BY <1>16, <2>2
  <2>3. QED BY <2>1, <2>2
<1>18. QED BY <1>7, <1>13, <1>14, <1>15, <1>16, <1>17, Moved

\* The batches are emitted, and another round begins.
LEMMA SyncEmit ==
  ASSUME SyncInv, NEW t \in Tasks, Emit(t) \/ NextRound(t)
  PROVE  SyncInv'
<1>1. /\ SyncTypes /\ DOMAIN blocked \subseteq Collections /\ Follows(task[t])
  BY DEF SyncInv, SyncTypes
<1>2. CASE Emit(t)
  <2>1. PICK k : k = task[t]
    OBVIOUS
  <2>2. /\ k \in ApplyingTasks /\ k.pc = "emit" /\ emitted' = emitted \cup k.held
        /\ UNCHANGED <<server, store, bounds, abandoned, failed>>
        /\ \/ Goto(t, Idle)
           \/ \E y \in EmittedTasks : Goto(t, y) /\ y.snaps = k.snaps
    BY <1>1, <1>2, <2>1, EmitStep
  <2>3. CASE Goto(t, Idle)
    BY <1>1, <2>1, <2>2, <2>3, IdleFresh, GotoFresh DEF store
  <2>4. CASE \E y \in EmittedTasks : Goto(t, y) /\ y.snaps = k.snaps
    <3>1. PICK y \in EmittedTasks : Goto(t, y) /\ y.snaps = k.snaps
      BY <2>4
    <3>2. y \in TaskSet /\ y.pc \in {"next", "snapshot"}
      BY <3>1 DEF TaskSet, EmittedTasks
    <3>3. Follows(y) /\ Covers(y)
      BY <1>1, <2>1, <2>2, <3>1, <3>2 DEF Follows, Covers
    <3>4. QED BY <1>1, <2>1, <2>2, <3>1, <3>2, <3>3, GotoQuiet DEF store
  <2>5. QED BY <2>2, <2>3, <2>4
<1>3. CASE NextRound(t)
  <2>1. /\ task[t] \in EmittedTasks
        /\ UNCHANGED <<server, store, bounds, outcomes>>
        /\ \E y : Goto(t, y) /\ Fresh(y)
    BY <1>1, <1>3, NextRoundStep
  <2>2. task[t].held = {}
    BY <2>1 DEF EmittedTasks
  <2>3. QED BY <1>1, <2>1, <2>2, GotoFresh DEF store, outcomes
<1>4. QED BY <1>2, <1>3

LEMMA SyncApplySnapshot ==
  ASSUME SyncInv, NEW t \in Tasks, ApplySnapshot(t)
  PROVE  SyncInv'
<1>1. /\ SyncTypes /\ HistoryVerifies /\ DOMAIN blocked \subseteq Collections
      /\ Follows(task[t])
  BY DEF SyncInv, SyncTypes
<1>2. PICK k : k = task[t]
  OBVIOUS
<1>3. PICK c \in DOMAIN k.snaps, y \in RecoveredTasks :
        /\ Goto(t, y) /\ k \in EmittedTasks /\ k.pc = "snapshot"
        /\ c \in Collections /\ k.snaps[c] \in 1 .. Len(history[c])
        /\ y.of = c /\ y.snaps = k.snaps /\ y.held = {c} \X (1 .. k.snaps[c])
        /\ stored' = [stored EXCEPT ![c] = StateAt(c, k.snaps[c])]
        /\ UNCHANGED <<server, keys, blocked, bounds, outcomes>>
  BY <1>1, <1>2, ApplySnapshotStep
<1>4. PICK n : n = k.snaps[c]
  OBVIOUS
<1>5. n \in 0 .. Len(history[c]) /\ n \in Nat
  BY <1>1, <1>3, <1>4 DEF SyncTypes
<1>6. PICK s \in States : s = StateAt(c, n) /\ s.version = n
  BY <1>1, <1>3, <1>5, StateAtType
<1>7. y \in TaskSet /\ y.pc = "clear" /\ k.held = {}
  BY <1>3 DEF TaskSet, RecoveredTasks, EmittedTasks
<1>8. MovesTo(t, y)
  BY <1>1, <1>2, <1>3, <1>7, GotoMoves DEF outcomes
<1>9. Seen \subseteq Seen' /\ {c} \X (1 .. n) \subseteq Seen'
  BY <1>1, <1>3, <1>4, <1>8, SeenGrows
<1>10. AtServer(c, s)
  BY <1>1, <1>3, <1>5, <1>6 DEF AtServer, SyncTypes
<1>11. Follows(y) /\ Covers(y)
  BY <1>1, <1>2, <1>3, <1>7 DEF Follows, Covers
<1>12. UNCHANGED history
  BY <1>3 DEF server
<1>13. Follows(y)' /\ AtServer(c, s)'
  BY <1>10, <1>11, <1>12 DEF Follows, AtServer, StateAt
<1>14. Covers(y)'
  BY <1>7 DEF Covers
<1>15. /\ HistoryGrows /\ HistoryVerifies'
       /\ history' \in [Collections -> Seq(Patches)]
       /\ keys' \subseteq Keys /\ DOMAIN blocked' \subseteq Collections
       /\ inbox' \subseteq [type : {"sync"}, of : Collections] \cup [type : {"share"}, of : Keys]
  BY <1>1, <1>3, <1>12, HistorySame DEF SyncTypes, server
<1>16. stored' \in [Collections -> States] /\ stored'[c] = s
       /\ \A d \in Collections \ {c} : stored'[d] = stored[d]
  BY <1>1, <1>3, <1>4, <1>6 DEF SyncTypes
<1>17. ASSUME NEW d \in Collections
       PROVE  \/ stored'[d] = stored[d]
              \/ \E z \in States : /\ stored'[d] = z /\ AtServer(d, z)'
                                   /\ {d} \X (1 .. z.version) \subseteq Seen'
  <2>1. CASE d = c
    BY <1>6, <1>9, <1>13, <1>16, <2>1
  <2>2. CASE d # c
    BY <1>16, <2>2
  <2>3. QED BY <2>1, <2>2
<1>18. QED BY <1>8, <1>13, <1>14, <1>15, <1>16, <1>17, Moved

LEMMA SyncSnapshotMoves ==
  ASSUME SyncInv, NEW t \in Tasks, MissSnapshotKey(t) \/ ClearSnapshot(t) \/ ParkSnapshot(t)
  PROVE  SyncInv'
<1>1. /\ SyncTypes /\ DOMAIN blocked \subseteq Collections /\ Follows(task[t])
  BY DEF SyncInv, SyncTypes
<1>2. PICK k : k = task[t]
  OBVIOUS
<1>3. CASE MissSnapshotKey(t)
  <2>1. PICK y \in HoldingTasks :
          /\ Goto(t, y) /\ k \in EmittedTasks /\ k.pc = "snapshot" /\ y.snaps = k.snaps
          /\ UNCHANGED <<server, store, bounds, outcomes>>
    BY <1>1, <1>2, <1>3, MissSnapshotKeyStep
  <2>2. y \in TaskSet /\ y.pc = "hold" /\ k.held = {}
    BY <2>1 DEF TaskSet, HoldingTasks, EmittedTasks
  <2>3. Follows(y) /\ Covers(y)
    BY <1>1, <1>2, <2>1, <2>2 DEF Follows, Covers
  <2>4. QED BY <1>1, <1>2, <2>1, <2>2, <2>3, GotoQuiet DEF store, outcomes
<1>4. CASE ClearSnapshot(t) \/ ParkSnapshot(t)
  <2>1. /\ k \in RecoveredTasks \cup HoldingTasks
        /\ \/ Goto(t, Idle)
           \/ \E y \in EmittedTasks : Goto(t, y) /\ y.snaps = Without(k.snaps, {k.of})
        /\ emitted \subseteq emitted' /\ k.held \subseteq emitted' /\ abandoned' = abandoned
        /\ DOMAIN blocked' \subseteq Collections
        /\ UNCHANGED <<server, stored, keys, bounds>>
    BY <1>1, <1>2, <1>4, SnapshotDoneStep
  <2>2. CASE Goto(t, Idle)
    BY <1>2, <2>1, <2>2, IdleFresh, GotoFresh
  <2>3. CASE \E y \in EmittedTasks : Goto(t, y) /\ y.snaps = Without(k.snaps, {k.of})
    <3>1. PICK y \in EmittedTasks : Goto(t, y) /\ y.snaps = Without(k.snaps, {k.of})
      BY <2>3
    <3>2. y \in TaskSet /\ y.pc \in {"next", "snapshot"} /\ k.pc \in {"clear", "hold"}
      BY <2>1, <3>1 DEF TaskSet, EmittedTasks, RecoveredTasks, HoldingTasks
    <3>3. \A c \in DOMAIN y.snaps : c \in DOMAIN k.snaps /\ y.snaps[c] = k.snaps[c]
      BY <3>1 DEF Without
    <3>4. Follows(y) /\ Covers(y)
      BY <1>1, <1>2, <3>2, <3>3 DEF Follows, Covers
    <3>5. QED BY <1>2, <2>1, <3>1, <3>2, <3>4, GotoQuiet
  <2>4. QED BY <2>1, <2>2, <2>3
<1>5. QED BY <1>3, <1>4

LEMMA SyncUpload ==
  ASSUME SyncInv, NEW t \in Tasks, Upload(t)
  PROVE  SyncInv'
<1>1. /\ SyncTypes /\ HistoryVerifies /\ Follows(task[t]) /\ Covers(task[t])
  BY DEF SyncInv
<1>2. PICK k : k = task[t]
  OBVIOUS
<1>3. PICK key \in Keys, m \in Mutations, y \in UploadedTasks :
        /\ Goto(t, y) /\ k \in UploadTasks
        /\ k.state.version = Len(history[k.of]) /\ k.state = Newest(k.of)
        /\ history' = [history EXCEPT ![k.of] = Append(@, Bundle(Newest(k.of), key, m))]
        /\ y.pc = "save" /\ y.of = k.of /\ y.state = Advance(Newest(k.of), m)
        /\ y.state.version = k.state.version + 1
        /\ y.held = {<<k.of, k.state.version + 1>>}
        /\ UNCHANGED <<shared, inbox, store, bounds, outcomes>>
  BY <1>1, <1>2, UploadStep
<1>4. PICK c \in Collections, s \in States, len \in {Len(history[k.of])} :
        c = k.of /\ s = y.state /\ len = Len(history[c])
  <2>1. PICK c \in Collections : c = k.of
    BY <1>3 DEF UploadTasks
  <2>2. PICK s \in States : s = y.state
    BY <1>3 DEF UploadedTasks
  <2>3. PICK len \in {Len(history[k.of])} : len = Len(history[c])
    BY <2>1
  <2>4. QED BY <2>1, <2>2, <2>3, Zenon
<1>5. k.pc = "upload" /\ k.held = {} /\ k.state.version = len /\ len \in Nat /\ y \in TaskSet
  <2>1. k.pc = "upload" /\ k.held = {}
    BY <1>3 DEF UploadTasks
  <2>2. y \in TaskSet
    BY <1>3 DEF TaskSet
  <2>3. k.state.version = len /\ len \in Nat
    BY <1>1, <1>3, <1>4 DEF SyncTypes
  <2>4. QED BY <2>1, <2>2, <2>3
<1>6. /\ history' \in [Collections -> Seq(Patches)] /\ HistoryGrows /\ HistoryVerifies'
      /\ Len(history'[c]) = len + 1
      /\ StateAt(c, len + 1)' = Advance(Newest(c), m)
  <2>1. history' = [history EXCEPT ![c] = Append(@, Bundle(Newest(c), key, m))]
    BY <1>3, <1>4
  <2>2. len = Len(history[c])
    BY <1>4
  <2>3. ASSUME SyncTypes, HistoryVerifies
        PROVE  /\ history' \in [Collections -> Seq(Patches)]
               /\ HistoryGrows
               /\ HistoryVerifies'
               /\ Len(history'[c]) = len + 1
               /\ StateAt(c, len + 1)' = Advance(Newest(c), m)
    BY <2>1, <2>2, <2>3, UploadedHistory, ZenonT(60)
  <2>4. QED BY <1>1, <2>3
<1>7. s.version = len + 1 /\ AtServer(c, s)'
  <2>1. s.version = len + 1 /\ s = StateAt(c, len + 1)'
    BY <1>3, <1>4, <1>5, <1>6
  <2>2. s = StateAt(c, s.version)'
    BY <2>1
  <2>3. s.version <= Len(history'[c])
    BY <1>5, <1>6, <2>1
  <2>4. QED BY <2>1, <2>2, <2>3 DEF AtServer
<1>8. MovesTo(t, y)
  BY <1>1, <1>2, <1>3, <1>5, GotoMoves DEF outcomes
<1>9. Seen \subseteq Seen' /\ y.held \subseteq Seen'
  BY <1>1, <1>8, SeenGrows
<1>10. {c} \X (1 .. s.version) \subseteq Seen'
  <2>1. {c} \X (1 .. len) \subseteq Seen
    BY <1>1, <1>2, <1>4, <1>5 DEF Covers
  <2>2. <<c, len + 1>> \in Seen'
    BY <1>3, <1>4, <1>5, <1>9
  <2>3. ASSUME NEW i \in 1 .. len + 1 PROVE <<c, i>> \in Seen'
    <3>1. CASE i = len + 1
      BY <2>2, <3>1
    <3>2. CASE i # len + 1
      <4>1. i \in 1 .. len
        BY <1>5, <3>2
      <4>2. <<c, i>> \in {c} \X (1 .. len)
        BY <4>1
      <4>3. QED BY <1>9, <2>1, <4>2
    <3>3. QED BY <3>1, <3>2
  <2>4. QED BY <1>7, <2>3
<1>11. Follows(y)'
  <2>1. AtServer(y.of, y.state)'
    BY <1>3, <1>4, <1>7
  <2>2. QED BY <1>3, <2>1 DEF Follows
<1>12. Covers(y)'
  BY <1>3, <1>4, <1>10 DEF Covers
<1>13. /\ stored' \in [Collections -> States] /\ stored' = stored
       /\ keys' \subseteq Keys /\ DOMAIN blocked' \subseteq Collections
       /\ inbox' \subseteq [type : {"sync"}, of : Collections] \cup [type : {"share"}, of : Keys]
  BY <1>1, <1>3 DEF SyncTypes, store
<1>14. \A d \in Collections : stored'[d] = stored[d]
  BY <1>13
<1>15. QED BY <1>6, <1>8, <1>11, <1>12, <1>13, <1>14, Moved

LEMMA SyncSaveUpload ==
  ASSUME SyncInv, NEW t \in Tasks, SaveUpload(t)
  PROVE  SyncInv'
<1>1. /\ SyncTypes /\ HistoryVerifies /\ Follows(task[t]) /\ Covers(task[t])
  BY DEF SyncInv
<1>2. PICK k : k = task[t]
  OBVIOUS
<1>3. PICK y \in UploadedTasks :
        /\ Goto(t, y) /\ k \in UploadedTasks /\ k.pc = "save"
        /\ y.pc = "announce" /\ y.held = k.held
        /\ stored' = [stored EXCEPT ![k.of] = k.state]
        /\ UNCHANGED <<server, keys, blocked, bounds, outcomes>>
  BY <1>1, <1>2, SaveUploadStep
<1>4. PICK c \in Collections, s \in States : c = k.of /\ s = k.state
  BY <1>3 DEF UploadedTasks
<1>5. y \in TaskSet
  BY <1>3 DEF TaskSet
<1>6. MovesTo(t, y)
  BY <1>1, <1>2, <1>3, <1>5, GotoMoves DEF outcomes
<1>7. {c} \X (1 .. s.version) \subseteq Seen'
  <2>1. {c} \X (1 .. s.version) \subseteq Seen
    BY <1>1, <1>2, <1>3, <1>4 DEF Covers
  <2>2. Seen \subseteq Seen'
    BY <1>1, <1>6, SeenGrows
  <2>3. QED BY <2>1, <2>2
<1>8. AtServer(c, s) /\ UNCHANGED history
  BY <1>1, <1>2, <1>3, <1>4 DEF Follows, server
<1>9. AtServer(c, s)'
  BY <1>8 DEF AtServer, StateAt
<1>10. Follows(y)' /\ Covers(y)'
  BY <1>3 DEF Follows, Covers
<1>11. /\ HistoryGrows /\ HistoryVerifies'
       /\ history' \in [Collections -> Seq(Patches)]
       /\ keys' \subseteq Keys /\ DOMAIN blocked' \subseteq Collections
       /\ inbox' \subseteq [type : {"sync"}, of : Collections] \cup [type : {"share"}, of : Keys]
  BY <1>1, <1>3, <1>8, HistorySame DEF SyncTypes, server
<1>12. stored' \in [Collections -> States] /\ stored'[c] = s
       /\ \A d \in Collections \ {c} : stored'[d] = stored[d]
  BY <1>1, <1>3, <1>4 DEF SyncTypes
<1>13. ASSUME NEW d \in Collections
       PROVE  \/ stored'[d] = stored[d]
              \/ \E z \in States : /\ stored'[d] = z /\ AtServer(d, z)'
                                   /\ {d} \X (1 .. z.version) \subseteq Seen'
  <2>1. CASE d = c
    BY <1>7, <1>9, <1>12, <2>1
  <2>2. CASE d # c
    BY <1>12, <2>2
  <2>3. QED BY <2>1, <2>2
<1>14. QED BY <1>6, <1>10, <1>11, <1>12, <1>13, Moved

\* A call ends, a call of the application begins, or a task fails.
LEMMA SyncEnds ==
  ASSUME SyncInv, NEW t \in Tasks,
         \/ UploadRefused(t) \/ EmitUpload(t) \/ LoadPrevious(t)
         \/ RejectPatch(t) \/ ExceedRounds(t) \/ TaskFails(t)
  PROVE  SyncInv'
<1>1. /\ SyncTypes /\ DOMAIN blocked \subseteq Collections /\ keys \subseteq Keys
      /\ StoredIsServers /\ EmittedOrAbandoned
  BY DEF SyncInv, SyncTypes
<1>2. CASE UploadRefused(t)
  <2>1. task[t].held = {}
    BY <1>1, <1>2, TaskKinds DEF SyncTypes, UploadRefused, UploadTasks
  <2>2. Goto(t, Idle) /\ UNCHANGED <<server, store, outcomes>>
    BY <1>2 DEF UploadRefused
  <2>3. QED BY <1>1, <2>1, <2>2, IdleFresh, GotoFresh DEF store, outcomes
<1>3. CASE EmitUpload(t)
  <2>1. /\ Goto(t, Idle) /\ UNCHANGED <<server, store, abandoned>>
        /\ emitted' = emitted \cup task[t].held
    BY <1>3 DEF EmitUpload
  <2>2. QED BY <1>1, <2>1, IdleFresh, GotoFresh DEF store
<1>4. CASE LoadPrevious(t)
  <2>1. PICK y \in UploadTasks :
          Begin(t, y) /\ y.state = stored[y.of] /\ UNCHANGED <<server, store, outcomes>>
    BY <1>1, <1>4, LoadPreviousStep
  <2>2. y \in TaskSet /\ y.pc = "upload" /\ y.of \in Collections
    BY <2>1 DEF TaskSet, UploadTasks
  <2>3. AtServer(y.of, y.state) /\ {y.of} \X (1 .. y.state.version) \subseteq Seen
    BY <1>1, <2>1, <2>2 DEF StoredIsServers, EmittedOrAbandoned, AtServer, Seen
  <2>4. Follows(y) /\ Covers(y)
    BY <2>2, <2>3 DEF Follows, Covers
  <2>5. MovesTo(t, y)
    BY <1>1, <2>1, <2>2, BeginMoves DEF outcomes
  <2>6. QED BY <1>1, <2>1, <2>4, <2>5, Quiet DEF server, store
<1>5. CASE RejectPatch(t) \/ ExceedRounds(t) \/ TaskFails(t)
  <2>1. Fail(t) /\ UNCHANGED <<server, store>>
    BY <1>5 DEF RejectPatch, ExceedRounds, TaskFails
  <2>2. MovesTo(t, Idle) /\ Follows(Idle) /\ Covers(Idle)
    BY <1>1, <2>1, FailMoves, IdleFresh, FreshTask
  <2>3. QED BY <1>1, <2>1, <2>2, Quiet DEF server, store
<1>6. QED BY <1>2, <1>3, <1>4, <1>5

LEMMA SyncCrash ==
  ASSUME SyncInv, Crash
  PROVE  SyncInv'
<1>1. /\ task' = [t \in Tasks |-> Idle] /\ emitted' = emitted
      /\ abandoned' = abandoned \cup UNION {task[t].held : t \in Tasks}
      /\ UNCHANGED <<history, inbox, stored, keys, blocked>>
  BY DEF Crash, server, store
<1>2. Seen \subseteq Seen'
  BY <1>1 DEF Seen
<1>3. Idle \in TaskSet /\ Idle.pc = "idle"
  BY IdleFresh DEF Fresh
<1>4. SyncTypes'
  BY <1>1, <1>3 DEF SyncInv, SyncTypes
<1>5. HistoryVerifies' /\ StoredIsServers'
  BY <1>1 DEF SyncInv, HistoryVerifies, StoredIsServers, StateAt
<1>6. EmittedOrAbandoned'
  BY <1>1, <1>2 DEF SyncInv, EmittedOrAbandoned, Seen
<1>7. \A t \in Tasks : (Follows(task[t]) /\ Covers(task[t]))'
  BY <1>1, <1>3 DEF Follows, Covers
<1>8. QED BY <1>4, <1>5, <1>6, <1>7 DEF SyncInv

-----------------------------------------------------------------------------
(* The theorems about what is stored, uploaded and emitted.                 *)

LEMMA SyncInit ==
  ASSUME Init
  PROVE  SyncInv
<1>1. SyncTypes
  <2>1. history \in [Collections -> Seq(Patches)]
    BY DEF Init
  <2>2. stored \in [Collections -> States]
    BY EmptyType DEF Init
  <2>3. DOMAIN blocked \subseteq Collections
    BY DEF Init
  <2>4. task \in [Tasks -> TaskSet]
    BY IdleFresh DEF Init, Fresh
  <2>5. keys \subseteq Keys /\ inbox = {}
    BY AppStateAssumption DEF Init
  <2>6. QED BY <2>1, <2>2, <2>3, <2>4, <2>5 DEF SyncTypes
<1>2. \A c \in Collections : history[c] = << >> /\ stored[c] = Empty /\ Empty.version = 0
  BY EmptyType DEF Init
<1>3. HistoryVerifies
  BY <1>2 DEF HistoryVerifies
<1>4. StoredIsServers
  BY <1>2 DEF StoredIsServers, StateAt
<1>5. EmittedOrAbandoned
  BY <1>2 DEF EmittedOrAbandoned
<1>6. \A t \in Tasks : task[t].pc = "idle"
  BY IdleFresh DEF Init
<1>7. \A t \in Tasks : Follows(task[t]) /\ Covers(task[t])
  BY <1>6 DEF Follows, Covers
<1>8. QED BY <1>1, <1>3, <1>4, <1>5, <1>7 DEF SyncInv

LEMMA SyncStutter ==
  ASSUME SyncInv, UNCHANGED vars
  PROVE  SyncInv'
BY DEF SyncInv, vars, SyncTypes, HistoryVerifies, StoredIsServers, StateAt,
       EmittedOrAbandoned, Follows, Covers, AtServer, Seen

LEMMA SyncNext ==
  ASSUME SyncInv, [Next]_vars
  PROVE  SyncInv'
<1>1. AppTasks \subseteq Tasks
  BY DEF Tasks
<1>2. CASE OtherDevice
  BY <1>2, SyncOtherDevice
<1>3. CASE ShareKey
  BY <1>3, SyncShareKey
<1>4. CASE Process
  BY <1>4, SyncBegin DEF Process
<1>5. CASE \E t \in AppTasks : AppSync(t) \/ AppRetry(t)
  BY <1>5, SyncBegin
<1>6. CASE \E t \in AppTasks : LoadPrevious(t)
  BY <1>1, <1>6, SyncEnds
<1>7. ASSUME NEW t \in Tasks, Proceed(t)
      PROVE  SyncInv'
  <2>1. CASE Load(t) \/ Answer(t)
    BY <2>1, SyncRequest
  <2>2. CASE ApplyCollection(t) \/ Unpark(t) \/ MissKey(t) \/ Park(t) \/ FinishCollection(t)
    BY <2>2, SyncPatchMoves
  <2>3. CASE ApplyPatch(t)
    BY <2>3, SyncApplyPatch
  <2>4. CASE Emit(t) \/ NextRound(t)
    BY <2>4, SyncEmit
  <2>5. CASE ApplySnapshot(t)
    BY <2>5, SyncApplySnapshot
  <2>6. CASE MissSnapshotKey(t) \/ ClearSnapshot(t) \/ ParkSnapshot(t)
    BY <2>6, SyncSnapshotMoves
  <2>7. CASE Upload(t)
    BY <2>7, SyncUpload
  <2>8. CASE SaveUpload(t)
    BY <2>8, SyncSaveUpload
  <2>9. CASE RejectPatch(t) \/ ExceedRounds(t) \/ UploadRefused(t) \/ EmitUpload(t)
    BY <2>9, SyncEnds
  <2>10. QED
    BY <1>7, <2>1, <2>2, <2>3, <2>4, <2>5, <2>6, <2>7, <2>8, <2>9 DEF Proceed
<1>8. CASE \E t \in Tasks : TaskFails(t)
  BY <1>8, SyncEnds
<1>9. CASE Crash
  BY <1>9, SyncCrash
<1>10. CASE UNCHANGED vars
  BY <1>10, SyncStutter
<1>11. QED
  BY <1>2, <1>3, <1>4, <1>5, <1>6, <1>7, <1>8, <1>9, <1>10 DEF Next

\* In every reachable state the invariant holds: the states, patches, answers and
\* tasks have their types, the state a task works on is the server's, and the events
\* below it were seen.
THEOREM SyncAlways == Spec => []SyncInv
<1>1. Init => SyncInv
  BY SyncInit
<1>2. SyncInv /\ [Next]_vars => SyncInv'
  BY SyncNext
<1>3. QED BY <1>1, <1>2, PTL DEF Spec

\* Whatever overlaps, fails or crashes between the load of a state and its save, the
\* stored state is the one every device has at that version.
THEOREM StoredIsServersAlways == Spec => []StoredIsServers
<1>1. SyncInv => StoredIsServers
  BY DEF SyncInv
<1>2. QED BY <1>1, SyncAlways, PTL

\* A patch of upload_chat_mutation_patch_and_apply, built on a state its caller loaded
\* long before, verifies on every device that has followed the server up to it.
THEOREM HistoryVerifiesAlways == Spec => []HistoryVerifies
<1>1. SyncInv => HistoryVerifies
  BY DEF SyncInv
<1>2. QED BY <1>1, SyncAlways, PTL

\* The state is saved patch by patch and the events are emitted later: those of a
\* patch the store covers were emitted, are held by a task that will emit them, or
\* were lost by a call that returned an error.
THEOREM EmittedOrAbandonedAlways == Spec => []EmittedOrAbandoned
<1>1. SyncInv => EmittedOrAbandoned
  BY DEF SyncInv
<1>2. QED BY <1>1, SyncAlways, PTL

-----------------------------------------------------------------------------
(* As long as no two calls have overlapped, what the one running call knows *)
(* of the stored state is still so.                                         *)

Alone(k) ==
  /\ k.pc \in {"load", "query"} =>
       \A c \in DOMAIN k.requests : k.requests[c] = stored[c].version
  /\ k.pc \in {"apply", "patch", "unpark", "park"} =>
       \A c \in DOMAIN k.answers :
           /\ c \notin DOMAIN k.snaps
           /\ k.answers[c].snap # 0 =>
                stored[c].version = 0 /\ k.answers[c].next > k.answers[c].snap
  /\ k.pc \in {"apply", "emit", "patch", "unpark", "park", "next", "snapshot"} =>
       \A c \in DOMAIN k.snaps : stored[c].version = 0
  /\ k.pc \in {"clear", "hold"} =>
       \A c \in DOMAIN k.snaps \ {k.of} : stored[c].version = 0
  /\ k.pc \in {"patch", "unpark", "park", "upload"} => k.state = stored[k.of]
  /\ k.pc = "save" => stored[k.of].version <= k.state.version

AloneInv ==
  ~ overlapped =>
    /\ \A t, u \in Tasks : Busy(t) /\ Busy(u) => t = u
    /\ \A t \in Tasks : Alone(task[t])

NotBack ==
  \A c \in Collections : stored'[c].version < stored[c].version => overlapped'

LEMMA StoredNotBack ==
  ASSUME SyncTypes, UNCHANGED stored
  PROVE  NotBack
BY DEF NotBack, SyncTypes, States

LEMMA IdleAlone ==
  ASSUME NEW y, y.pc \in {"idle", "shared", "announce"}
  PROVE  Alone(y)
BY DEF Alone

\* The running call goes on, or ends.
LEMMA AloneMoved ==
  ASSUME SyncTypes, AloneInv, NEW t \in Tasks, NEW y, Goto(t, y),
         Busy(t), ~ overlapped => Alone(y)'
  PROVE  AloneInv'
<1>1. /\ overlapped' = overlapped /\ task'[t] = y
      /\ \A u \in Tasks \ {t} : task'[u] = task[u]
  BY DEF SyncTypes, Goto
<1>2. SUFFICES ASSUME ~ overlapped
               PROVE  /\ \A u, v \in Tasks : Busy(u)' /\ Busy(v)' => u = v
                      /\ \A u \in Tasks : Alone(task[u])'
  BY <1>1 DEF AloneInv
<1>3. \A u \in Tasks \ {t} : task'[u].pc = "idle"
  BY <1>1, <1>2 DEF AloneInv, Busy
<1>4. \A u, v \in Tasks : Busy(u)' /\ Busy(v)' => u = v
  BY <1>3 DEF Busy
<1>5. ASSUME NEW u \in Tasks
      PROVE  Alone(task[u])'
  <2>1. CASE u = t
    BY <1>1, <1>2, <2>1 DEF Alone
  <2>2. CASE u # t
    BY <1>3, <2>2 DEF Alone
  <2>3. QED BY <2>1, <2>2
<1>6. QED BY <1>4, <1>5

\* A call begins.
LEMMA AloneBegun ==
  ASSUME SyncTypes, NEW t \in Tasks, NEW y, Begin(t, y), UNCHANGED stored, Alone(y)
  PROVE  AloneInv'
<1>1. /\ overlapped' = (overlapped \/ \E u \in Tasks : Busy(u)) /\ task'[t] = y
      /\ \A u \in Tasks \ {t} : task'[u] = task[u]
  BY DEF SyncTypes, Begin
<1>2. SUFFICES ASSUME ~ overlapped'
               PROVE  /\ \A u, v \in Tasks : Busy(u)' /\ Busy(v)' => u = v
                      /\ \A u \in Tasks : Alone(task[u])'
  BY DEF AloneInv
<1>3. \A u \in Tasks : ~ Busy(u)
  BY <1>1, <1>2, Zenon
<1>4. \A u \in Tasks \ {t} : task'[u].pc = "idle"
  BY <1>1, <1>3 DEF Busy
<1>5. \A u, v \in Tasks : Busy(u)' /\ Busy(v)' => u = v
  BY <1>4 DEF Busy
<1>6. ASSUME NEW u \in Tasks
      PROVE  Alone(task[u])'
  <2>1. CASE u = t
    BY <1>1, <2>1 DEF Alone
  <2>2. CASE u # t
    BY <1>4, <2>2 DEF Alone
  <2>3. QED BY <2>1, <2>2
<1>7. QED BY <1>5, <1>6

\* A step of the environment.
LEMMA AloneStays ==
  ASSUME AloneInv, UNCHANGED <<stored, task, overlapped>>
  PROVE  AloneInv'
BY DEF AloneInv, Alone, Busy

\* Calls begin with nothing known yet, or with the state just loaded.
LEMMA AloneCalls ==
  ASSUME SyncInv, AloneInv,
         \/ TakeNotification \/ TakeKeyShare \/ FindBlocked
         \/ \E t \in AppTasks : AppSync(t) \/ AppRetry(t) \/ LoadPrevious(t)
  PROVE  AloneInv' /\ UNCHANGED stored
<1>1. Processor \in Tasks /\ AppTasks \subseteq Tasks /\ MaxRounds \in Nat
      /\ Recovering \in BOOLEAN
  BY AppStateAssumption DEF Tasks
<1>2. SyncTypes
  BY DEF SyncInv
<1>3. ASSUME NEW todo \in SUBSET Collections, NEW recover \in BOOLEAN
      PROVE  Alone(Round(MaxRounds, todo, recover))
  <2>1. PICK y : y = Round(MaxRounds, todo, recover)
    OBVIOUS
  <2>2. y.pc \in {"idle", "load"} /\ (y.pc = "load" => y.requests = << >>)
    BY <1>1, <2>1, RoundFresh
  <2>3. Alone(y)
    BY <2>2 DEF Alone
  <2>4. QED BY <2>1, <2>3
<1>4. CASE TakeNotification
  <2>1. PICK item \in inbox : /\ item.type = "sync"
                              /\ Begin(Processor, Round(MaxRounds, {item.of}, Recovering))
    BY <1>4 DEF TakeNotification
  <2>2. {item.of} \in SUBSET Collections
    BY <1>2, <2>1 DEF SyncTypes
  <2>3. UNCHANGED stored
    BY <1>4 DEF TakeNotification, store
  <2>4. QED BY <1>1, <1>2, <1>3, <2>1, <2>2, <2>3, AloneBegun
<1>5. CASE TakeKeyShare
  <2>1. PICK y : Begin(Processor, y) /\ y.pc = "shared"
    BY <1>5 DEF TakeKeyShare
  <2>2. Alone(y) /\ UNCHANGED stored
    BY <1>5, <2>1, IdleAlone DEF TakeKeyShare
  <2>3. QED BY <1>1, <1>2, <2>1, <2>2, AloneBegun
<1>6. CASE FindBlocked
  <2>1. PICK todo : todo = {c \in DOMAIN blocked : blocked[c].key = task[Processor].key}
    OBVIOUS
  <2>2. PICK y : y = Round(MaxRounds, todo, FALSE)
    OBVIOUS
  <2>3. todo \in SUBSET Collections
    BY <1>2, <2>1 DEF SyncTypes
  <2>4. Alone(y)
    BY <1>3, <2>2, <2>3
  <2>5. Goto(Processor, y) /\ Busy(Processor) /\ UNCHANGED stored
    BY <1>6, <2>1, <2>2 DEF FindBlocked, Busy, store
  <2>6. Alone(y)'
    BY <2>4, <2>5 DEF Alone
  <2>7. QED BY <1>1, <1>2, <2>5, <2>6, AloneMoved
<1>7. CASE \E t \in AppTasks : AppSync(t)
  <2>1. PICK t \in AppTasks, todo \in SUBSET Collections, recover \in BOOLEAN :
          AppSync(t) /\ Begin(t, Round(MaxRounds, todo, recover))
    BY <1>7 DEF AppSync, AppBegin
  <2>2. UNCHANGED stored
    BY <2>1 DEF AppSync, store
  <2>3. QED BY <1>1, <1>2, <1>3, <2>1, <2>2, AloneBegun
<1>8. CASE \E t \in AppTasks : AppRetry(t)
  <2>1. PICK t \in AppTasks : AppRetry(t)
    BY <1>8
  <2>2. PICK ready : ready = {c \in DOMAIN blocked : blocked[c].key \in keys}
    OBVIOUS
  <2>3. ready \in SUBSET Collections
    BY <1>2, <2>2 DEF SyncTypes
  <2>4. PICK recover \in BOOLEAN : Begin(t, Round(MaxRounds, ready, recover))
    BY <2>1, <2>2 DEF AppRetry, AppBegin
  <2>5. UNCHANGED stored
    BY <2>1 DEF AppRetry, store
  <2>6. QED BY <1>1, <1>2, <1>3, <2>3, <2>4, <2>5, AloneBegun
<1>9. CASE \E t \in AppTasks : LoadPrevious(t)
  <2>1. PICK t \in AppTasks : LoadPrevious(t)
    BY <1>9
  <2>2. PICK y \in UploadTasks :
          Begin(t, y) /\ y.state = stored[y.of] /\ UNCHANGED <<server, store, outcomes>>
    BY <1>1, <1>2, <2>1, LoadPreviousStep
  <2>3. Alone(y) /\ UNCHANGED stored
    BY <2>2 DEF Alone, UploadTasks, store
  <2>4. QED BY <1>1, <1>2, <2>2, <2>3, AloneBegun
<1>10. QED BY <1>4, <1>5, <1>6, <1>7, <1>8, <1>9

LEMMA AloneQuiet ==
  ASSUME SyncTypes, AloneInv, NEW t \in Tasks, NEW y, Goto(t, y), Busy(t), UNCHANGED stored,
         ~ overlapped => Alone(y)
  PROVE  AloneInv' /\ NotBack
<1>1. ~ overlapped => Alone(y)'
  BY DEF Alone
<1>2. QED BY <1>1, AloneMoved, StoredNotBack

LEMMA AloneRequest ==
  ASSUME SyncInv, AloneInv, NEW t \in Tasks, Load(t) \/ Answer(t)
  PROVE  AloneInv' /\ NotBack
<1>1. SyncTypes /\ (~ overlapped => Alone(task[t]))
  BY DEF SyncInv, AloneInv
<1>2. PICK k : k = task[t]
  OBVIOUS
<1>3. CASE Load(t)
  <2>1. PICK c \in Collections, y \in LoadingTasks :
          /\ Goto(t, y) /\ k \in LoadingTasks
          /\ y.requests = With(k.requests, c, stored[c].version)
          /\ UNCHANGED <<server, store, bounds, outcomes>>
    BY <1>1, <1>2, <1>3, LoadStep
  <2>2. /\ y.pc \in {"load", "query"} /\ k.pc \in {"load", "query"} /\ Busy(t)
        /\ UNCHANGED stored
    BY <1>2, <2>1 DEF LoadingTasks, Busy, store
  <2>3. ASSUME ~ overlapped, NEW d \in DOMAIN y.requests
        PROVE  y.requests[d] = stored[d].version
    <3>1. \A e \in DOMAIN k.requests : k.requests[e] = stored[e].version
      BY <1>1, <1>2, <2>2, <2>3 DEF Alone
    <3>2. QED BY <2>1, <2>3, <3>1 DEF With
  <2>4. ~ overlapped => Alone(y)
    BY <2>2, <2>3 DEF Alone
  <2>5. QED BY <1>1, <2>1, <2>2, <2>4, AloneQuiet
<1>4. CASE Answer(t)
  <2>1. PICK y \in ApplyingTasks :
          /\ Goto(t, y) /\ k \in LoadingTasks
          /\ y.pc = "apply" /\ y.snaps = << >>
          /\ DOMAIN y.answers = DOMAIN k.requests
          /\ \A c \in DOMAIN y.answers : y.answers[c] \in Answers(c, k.requests[c])
          /\ UNCHANGED <<server, store, bounds, outcomes>>
    BY <1>1, <1>2, <1>4, AnswerStep
  <2>2. k.pc \in {"load", "query"} /\ k.requests \in Requests
    BY <2>1 DEF LoadingTasks
  <2>3. Busy(t) /\ UNCHANGED stored
    BY <1>2, <2>1, <2>2 DEF Busy, store
  <2>4. ASSUME ~ overlapped, NEW c \in DOMAIN y.answers
        PROVE  y.answers[c].snap # 0 =>
                 stored[c].version = 0 /\ y.answers[c].next > y.answers[c].snap
    <3>1. c \in Collections /\ k.requests[c] \in Nat
      BY <2>1, <2>2, PartialMap DEF Requests
    <3>2. k.requests[c] = stored[c].version
      BY <1>1, <1>2, <2>1, <2>2, <2>4 DEF Alone
    <3>3. y.answers[c].snap # 0 => k.requests[c] = 0 /\ y.answers[c].next > y.answers[c].snap
      BY <1>1, <2>1, <3>1, AnswersAre
    <3>4. QED BY <3>2, <3>3
  <2>5. ~ overlapped => Alone(y)
    BY <2>1, <2>4, PartialEmpty DEF Alone
  <2>6. QED BY <1>1, <2>1, <2>3, <2>5, AloneQuiet
<1>5. QED BY <1>3, <1>4

LEMMA AlonePatchMoves ==
  ASSUME SyncInv, AloneInv, NEW t \in Tasks,
         ApplyCollection(t) \/ Unpark(t) \/ MissKey(t) \/ Park(t) \/ FinishCollection(t)
  PROVE  AloneInv' /\ NotBack
<1>1. SyncTypes /\ Follows(task[t]) /\ (~ overlapped => Alone(task[t]))
  BY DEF SyncInv, AloneInv
<1>2. PICK k : k = task[t]
  OBVIOUS
<1>3. CASE ApplyCollection(t)
  <2>1. PICK c \in DOMAIN k.answers, y \in PatchingTasks :
          /\ Goto(t, y) /\ k.pc = "apply"
          /\ y.pc = "patch" /\ y.of = c /\ y.state = stored[c]
          /\ y.answers = k.answers /\ y.snaps = k.snaps
          /\ UNCHANGED <<server, store, bounds, outcomes>>
    BY <1>1, <1>2, <1>3, ApplyCollectionStep
  <2>2. ~ overlapped => Alone(y)
    BY <1>1, <1>2, <2>1 DEF Alone
  <2>3. Busy(t) /\ UNCHANGED stored
    BY <1>2, <2>1 DEF Busy, store
  <2>4. QED BY <1>1, <2>1, <2>2, <2>3, AloneQuiet
<1>4. CASE Unpark(t) \/ MissKey(t)
  <2>1. PICK y \in PatchingTasks :
          /\ Goto(t, y) /\ k \in PatchingTasks
          /\ y.pc \in {"patch", "park"}
          /\ y.of = k.of /\ y.state = k.state
          /\ y.answers = k.answers /\ y.snaps = k.snaps
          /\ UNCHANGED <<server, stored, keys, bounds, outcomes>>
    BY <1>1, <1>2, <1>4, PatchMoveStep
  <2>2. k.pc \in {"patch", "unpark", "park"}
    BY <2>1 DEF PatchingTasks
  <2>3. ~ overlapped => Alone(y)
    BY <1>1, <1>2, <2>1, <2>2 DEF Alone
  <2>4. Busy(t) /\ UNCHANGED stored
    BY <1>2, <2>1, <2>2 DEF Busy
  <2>5. QED BY <1>1, <2>1, <2>3, <2>4, AloneQuiet
<1>5. CASE Park(t) \/ FinishCollection(t)
  <2>1. PICK y \in ApplyingTasks :
          /\ Goto(t, y) /\ k \in PatchingTasks /\ k.of \in DOMAIN k.answers
          /\ y.answers = Without(k.answers, {k.of})
          /\ \/ y.snaps = k.snaps
             \/ /\ k.answers[k.of].snap # 0
                /\ y.snaps = With(k.snaps, k.of, k.answers[k.of].snap)
          /\ UNCHANGED <<server, stored, keys, bounds, outcomes>>
    BY <1>1, <1>2, <1>5, DoneStep
  <2>2. k.pc \in {"patch", "unpark", "park"} /\ y.pc \in {"apply", "emit"}
    BY <2>1 DEF PatchingTasks, ApplyingTasks
  <2>3. Busy(t) /\ UNCHANGED stored
    BY <1>2, <2>1, <2>2 DEF Busy
  <2>4. ASSUME ~ overlapped PROVE Alone(y)
    <3>1. /\ \A c \in DOMAIN k.answers :
               /\ c \notin DOMAIN k.snaps
               /\ k.answers[c].snap # 0 =>
                    stored[c].version = 0 /\ k.answers[c].next > k.answers[c].snap
          /\ \A c \in DOMAIN k.snaps : stored[c].version = 0
      BY <1>1, <1>2, <2>2, <2>4 DEF Alone
    <3>2. \A c \in DOMAIN y.answers :
             c \in DOMAIN k.answers \ {k.of} /\ y.answers[c] = k.answers[c]
      BY <2>1 DEF Without
    <3>3. \A c \in DOMAIN y.snaps :
             c \in DOMAIN k.snaps \/ (c = k.of /\ k.answers[k.of].snap # 0)
      <4>1. CASE y.snaps = k.snaps
        BY <4>1
      <4>2. CASE /\ k.answers[k.of].snap # 0
                 /\ y.snaps = With(k.snaps, k.of, k.answers[k.of].snap)
        BY <4>2 DEF With
      <4>3. QED BY <2>1, <4>1, <4>2
    <3>4. \A c \in DOMAIN y.snaps : stored[c].version = 0
      BY <2>1, <3>1, <3>3
    <3>5. \A c \in DOMAIN y.answers :
             /\ c \notin DOMAIN y.snaps
             /\ y.answers[c].snap # 0 =>
                  stored[c].version = 0 /\ y.answers[c].next > y.answers[c].snap
      BY <3>1, <3>2, <3>3
    <3>6. QED BY <2>2, <3>4, <3>5 DEF Alone
  <2>5. QED BY <1>1, <2>1, <2>3, <2>4, AloneQuiet
<1>6. QED BY <1>3, <1>4, <1>5

\* The state a lone task saves follows the stored one; a collection of which it has
\* a snapshot to download is still at version 0.
LEMMA AloneApplyPatch ==
  ASSUME SyncInv, AloneInv, NEW t \in Tasks, ApplyPatch(t)
  PROVE  AloneInv' /\ NotBack
<1>1. SyncTypes /\ HistoryVerifies /\ Follows(task[t]) /\ (~ overlapped => Alone(task[t]))
  BY DEF SyncInv, AloneInv
<1>2. PICK k : k = task[t]
  OBVIOUS
<1>3. PICK c, n : c = k.of /\ n = k.answers[c].next
  OBVIOUS
<1>4. PICK y \in PatchingTasks :
        /\ Goto(t, y) /\ k \in PatchingTasks /\ k.pc = "patch" /\ c \in Collections
        /\ k.answers[c] \in AnswerSet
        /\ y.pc = "unpark" /\ y.of = c
        /\ n \in 1 .. Len(history[c]) /\ k.state.version + 1 = n /\ y.state.version = n
        /\ stored' = [stored EXCEPT ![c] = y.state]
        /\ y.snaps = k.snaps /\ DOMAIN y.answers = DOMAIN k.answers
        /\ \A d \in DOMAIN k.answers : /\ y.answers[d].snap = k.answers[d].snap
                                       /\ y.answers[d].next >= k.answers[d].next
  BY <1>1, <1>2, <1>3, ApplyPatchStep
<1>5. /\ stored'[c] = y.state /\ \A d \in Collections \ {c} : stored'[d] = stored[d]
      /\ Busy(t) /\ c \in DOMAIN k.answers /\ k.answers \in Pages /\ k.snaps \in Requests
      /\ y.answers \in Pages /\ overlapped' = overlapped
  <2>1. Busy(t) /\ c \in DOMAIN k.answers
    BY <1>1, <1>2, <1>3, <1>4 DEF Busy, Follows
  <2>2. k.answers \in Pages /\ k.snaps \in Requests /\ y.answers \in Pages
    BY <1>4 DEF PatchingTasks
  <2>3. stored'[c] = y.state /\ \A d \in Collections \ {c} : stored'[d] = stored[d]
    BY <1>1, <1>4 DEF SyncTypes
  <2>4. overlapped' = overlapped
    BY <1>4 DEF Goto
  <2>5. QED BY <2>1, <2>2, <2>3, <2>4
<1>6. ASSUME ~ overlapped
      PROVE  /\ k.state = stored[c]
             /\ \A d \in DOMAIN k.answers :
                  /\ d \notin DOMAIN k.snaps
                  /\ k.answers[d].snap # 0 =>
                       stored[d].version = 0 /\ k.answers[d].next > k.answers[d].snap
             /\ \A d \in DOMAIN k.snaps : stored[d].version = 0
  BY <1>1, <1>2, <1>3, <1>4, <1>6 DEF Alone
<1>7. ASSUME ~ overlapped PROVE k.answers[c].snap = 0
  <2>1. SUFFICES ASSUME k.answers[c].snap # 0 PROVE FALSE
    OBVIOUS
  <2>2. stored[c].version = 0 /\ n > k.answers[c].snap
    BY <1>3, <1>5, <1>6, <1>7, <2>1
  <2>3. n = 1
    BY <1>4, <1>6, <1>7, <2>2
  <2>4. k.answers[c].snap \in Nat
    BY <1>4 DEF AnswerSet
  <2>5. QED BY <2>1, <2>2, <2>3, <2>4
<1>8. ASSUME ~ overlapped PROVE Alone(y)'
  <2>1. ASSUME NEW d \in DOMAIN y.answers
        PROVE  /\ d \notin DOMAIN y.snaps
               /\ y.answers[d].snap # 0 =>
                    stored'[d].version = 0 /\ y.answers[d].next > y.answers[d].snap
    <3>1. d \in Collections /\ k.answers[d] \in AnswerSet /\ y.answers[d] \in AnswerSet
      BY <1>4, <1>5, PartialMap DEF Pages
    <3>2. d \notin DOMAIN y.snaps
      BY <1>4, <1>6, <1>8
    <3>3. CASE d = c
      BY <1>4, <1>5, <1>7, <1>8, <3>2, <3>3
    <3>4. CASE d # c
      <4>1. y.answers[d].snap = k.answers[d].snap /\ y.answers[d].next >= k.answers[d].next
        BY <1>4
      <4>2. stored'[d] = stored[d]
        BY <1>5, <3>1, <3>4
      <4>3. k.answers[d].snap # 0 =>
              stored[d].version = 0 /\ k.answers[d].next > k.answers[d].snap
        BY <1>4, <1>6, <1>8
      <4>4. k.answers[d].next \in Nat /\ k.answers[d].snap \in Nat /\ y.answers[d].next \in Nat
        BY <3>1 DEF AnswerSet
      <4>5. QED BY <3>2, <4>1, <4>2, <4>3, <4>4
    <3>5. QED BY <3>3, <3>4
  <2>2. ASSUME NEW d \in DOMAIN y.snaps
        PROVE  stored'[d].version = 0
    <3>1. d \in Collections /\ d # c
      BY <1>4, <1>5, <1>6, <1>8, <2>2, PartialMap DEF Requests
    <3>2. QED BY <1>4, <1>5, <1>6, <1>8, <3>1
  <2>3. y.state = stored'[y.of]
    BY <1>4, <1>5
  <2>4. QED BY <1>4, <2>1, <2>2, <2>3 DEF Alone
<1>9. AloneInv'
  BY <1>1, <1>4, <1>5, <1>8, AloneMoved
<1>10. NotBack
  <2>1. SUFFICES ASSUME NEW d \in Collections, stored'[d].version < stored[d].version,
                        ~ overlapped'
                 PROVE  FALSE
    BY DEF NotBack
  <2>2. stored[d].version \in Nat /\ k.state.version \in Nat
    BY <1>1, <1>4 DEF SyncTypes, States, PatchingTasks
  <2>3. CASE d = c
    BY <1>4, <1>5, <1>6, <2>1, <2>2, <2>3
  <2>4. CASE d # c
    BY <1>5, <2>1, <2>2, <2>4
  <2>5. QED BY <2>3, <2>4
<1>11. QED BY <1>9, <1>10

LEMMA AloneEmit ==
  ASSUME SyncInv, AloneInv, NEW t \in Tasks, Emit(t) \/ NextRound(t)
  PROVE  AloneInv' /\ NotBack
<1>1. SyncTypes /\ (~ overlapped => Alone(task[t]))
  BY DEF SyncInv, AloneInv
<1>2. PICK k : k = task[t]
  OBVIOUS
<1>3. CASE Emit(t)
  <2>1. /\ k \in ApplyingTasks /\ k.pc = "emit"
        /\ UNCHANGED <<server, store, bounds, abandoned, failed>>
        /\ \/ Goto(t, Idle)
           \/ \E y \in EmittedTasks : Goto(t, y) /\ y.snaps = k.snaps
    BY <1>1, <1>2, <1>3, EmitStep
  <2>2. Busy(t) /\ UNCHANGED stored
    BY <1>2, <2>1 DEF Busy, store
  <2>3. CASE Goto(t, Idle)
    BY <1>1, <2>2, <2>3, IdleFresh, IdleAlone, AloneQuiet
  <2>4. CASE \E y \in EmittedTasks : Goto(t, y) /\ y.snaps = k.snaps
    <3>1. PICK y \in EmittedTasks : Goto(t, y) /\ y.snaps = k.snaps
      BY <2>4
    <3>2. y.pc \in {"next", "snapshot"}
      BY DEF EmittedTasks
    <3>3. ~ overlapped => Alone(y)
      BY <1>1, <1>2, <2>1, <3>1, <3>2 DEF Alone
    <3>4. QED BY <1>1, <2>2, <3>1, <3>3, AloneQuiet
  <2>5. QED BY <2>1, <2>3, <2>4
<1>4. CASE NextRound(t)
  <2>1. PICK y : /\ Goto(t, y) /\ y.pc \in {"idle", "load"}
                 /\ y.pc = "load" => y.requests = << >>
    BY <1>1, <1>4, NextRoundStep
  <2>2. Busy(t) /\ UNCHANGED stored
    BY <1>4 DEF NextRound, Busy, store
  <2>3. Alone(y)
    BY <2>1, PartialEmpty DEF Alone
  <2>4. QED BY <1>1, <2>1, <2>2, <2>3, AloneQuiet
<1>5. QED BY <1>3, <1>4

LEMMA AloneSnapshots ==
  ASSUME SyncInv, AloneInv, NEW t \in Tasks,
         ApplySnapshot(t) \/ MissSnapshotKey(t) \/ ClearSnapshot(t) \/ ParkSnapshot(t)
  PROVE  AloneInv' /\ NotBack
<1>1. SyncTypes /\ Follows(task[t]) /\ (~ overlapped => Alone(task[t]))
  BY DEF SyncInv, AloneInv
<1>2. PICK k : k = task[t]
  OBVIOUS
<1>3. CASE ApplySnapshot(t)
  <2>1. PICK c \in DOMAIN k.snaps, y \in RecoveredTasks :
          /\ Goto(t, y) /\ k \in EmittedTasks /\ k.pc = "snapshot"
          /\ c \in Collections /\ k.snaps[c] \in 1 .. Len(history[c])
          /\ y.of = c /\ y.snaps = k.snaps
          /\ stored' = [stored EXCEPT ![c] = StateAt(c, k.snaps[c])]
    BY <1>1, <1>2, <1>3, ApplySnapshotStep
  <2>2. PICK n : n = k.snaps[c]
    OBVIOUS
  <2>3. n \in 0 .. Len(history[c]) /\ n \in Nat
    BY <1>1, <2>1, <2>2 DEF SyncTypes
  <2>4. StateAt(c, n) \in States /\ StateAt(c, n).version = n
    BY <1>1, <2>1, <2>3, StateAtType
  <2>5. /\ stored'[c] = StateAt(c, n)
        /\ \A d \in Collections \ {c} : stored'[d] = stored[d]
    BY <1>1, <2>1, <2>2 DEF SyncTypes
  <2>6. ASSUME ~ overlapped PROVE \A d \in DOMAIN k.snaps : stored[d].version = 0
    BY <1>1, <1>2, <2>1, <2>6 DEF Alone
  <2>7. Busy(t) /\ y.pc = "clear" /\ overlapped' = overlapped /\ k.snaps \in Requests
    BY <1>2, <2>1 DEF Busy, RecoveredTasks, Goto, EmittedTasks
  <2>8. ~ overlapped => Alone(y)'
    <3>1. ASSUME ~ overlapped, NEW d \in DOMAIN y.snaps \ {y.of}
          PROVE  stored'[d].version = 0
      <4>1. d \in Collections \ {c} /\ d \in DOMAIN k.snaps
        BY <2>1, <2>7, PartialMap DEF Requests
      <4>2. QED BY <2>5, <2>6, <3>1, <4>1
    <3>2. QED BY <2>7, <3>1 DEF Alone
  <2>9. AloneInv'
    BY <1>1, <2>1, <2>7, <2>8, AloneMoved
  <2>10. NotBack
    <3>1. SUFFICES ASSUME NEW d \in Collections, stored'[d].version < stored[d].version,
                          ~ overlapped'
                   PROVE  FALSE
      BY DEF NotBack
    <3>2. stored[d].version \in Nat
      BY <1>1 DEF SyncTypes, States
    <3>3. CASE d = c
      BY <2>1, <2>3, <2>4, <2>5, <2>6, <2>7, <3>1, <3>2, <3>3
    <3>4. CASE d # c
      BY <2>5, <3>1, <3>2, <3>4
    <3>5. QED BY <3>3, <3>4
  <2>11. QED BY <2>9, <2>10
<1>4. CASE MissSnapshotKey(t)
  <2>1. PICK y \in HoldingTasks :
          /\ Goto(t, y) /\ k.pc = "snapshot" /\ y.snaps = k.snaps
          /\ UNCHANGED <<server, store, bounds, outcomes>>
    BY <1>1, <1>2, <1>4, MissSnapshotKeyStep
  <2>2. Busy(t) /\ y.pc = "hold" /\ UNCHANGED stored
    BY <1>2, <2>1 DEF Busy, HoldingTasks, store
  <2>3. ~ overlapped => Alone(y)
    BY <1>1, <1>2, <2>1, <2>2 DEF Alone
  <2>4. QED BY <1>1, <2>1, <2>2, <2>3, AloneQuiet
<1>5. CASE ClearSnapshot(t) \/ ParkSnapshot(t)
  <2>1. /\ k \in RecoveredTasks \cup HoldingTasks
        /\ \/ Goto(t, Idle)
           \/ \E y \in EmittedTasks : Goto(t, y) /\ y.snaps = Without(k.snaps, {k.of})
        /\ UNCHANGED stored
    BY <1>1, <1>2, <1>5, SnapshotDoneStep
  <2>2. k.pc \in {"clear", "hold"} /\ Busy(t)
    BY <1>2, <2>1 DEF Busy, RecoveredTasks, HoldingTasks
  <2>3. CASE Goto(t, Idle)
    BY <1>1, <2>1, <2>2, <2>3, IdleFresh, IdleAlone, AloneQuiet
  <2>4. CASE \E y \in EmittedTasks : Goto(t, y) /\ y.snaps = Without(k.snaps, {k.of})
    <3>1. PICK y \in EmittedTasks : Goto(t, y) /\ y.snaps = Without(k.snaps, {k.of})
      BY <2>4
    <3>2. y.pc \in {"next", "snapshot"}
      BY DEF EmittedTasks
    <3>3. DOMAIN y.snaps = DOMAIN k.snaps \ {k.of}
      BY <3>1 DEF Without
    <3>4. ~ overlapped => Alone(y)
      BY <1>1, <1>2, <2>2, <3>2, <3>3 DEF Alone
    <3>5. QED BY <1>1, <2>1, <2>2, <3>1, <3>4, AloneQuiet
  <2>5. QED BY <2>1, <2>3, <2>4
<1>6. QED BY <1>3, <1>4, <1>5

LEMMA AloneUploads ==
  ASSUME SyncInv, AloneInv, NEW t \in Tasks, Upload(t) \/ SaveUpload(t)
  PROVE  AloneInv' /\ NotBack
<1>1. SyncTypes /\ Follows(task[t]) /\ (~ overlapped => Alone(task[t]))
  BY DEF SyncInv, AloneInv
<1>2. PICK k : k = task[t]
  OBVIOUS
<1>3. CASE Upload(t)
  <2>1. PICK y \in UploadedTasks :
          /\ Goto(t, y) /\ k \in UploadTasks /\ y.pc = "save" /\ y.of = k.of
          /\ y.state.version = k.state.version + 1
          /\ UNCHANGED <<shared, inbox, store, bounds, outcomes>>
    BY <1>1, <1>2, <1>3, UploadStep
  <2>2. k.pc = "upload" /\ Busy(t) /\ UNCHANGED stored
    BY <1>2, <2>1 DEF UploadTasks, Busy, store
  <2>3. k.state.version \in Nat
    BY <2>1 DEF UploadTasks, States
  <2>4. ~ overlapped => stored[y.of].version <= y.state.version
    BY <1>1, <1>2, <2>1, <2>2, <2>3 DEF Alone
  <2>5. ~ overlapped => Alone(y)
    BY <2>1, <2>4 DEF Alone
  <2>6. QED BY <1>1, <2>1, <2>2, <2>5, AloneQuiet
<1>4. CASE SaveUpload(t)
  <2>1. PICK y \in UploadedTasks :
          /\ Goto(t, y) /\ k \in UploadedTasks /\ k.pc = "save" /\ y.pc = "announce"
          /\ stored' = [stored EXCEPT ![k.of] = k.state]
    BY <1>1, <1>2, <1>4, SaveUploadStep
  <2>2. Busy(t) /\ overlapped' = overlapped /\ k.of \in Collections /\ k.state.version \in Nat
    BY <1>2, <2>1 DEF Busy, Goto, UploadedTasks, States
  <2>3. AloneInv'
    <3>1. Alone(y)'
      BY <2>1 DEF Alone
    <3>2. QED BY <1>1, <2>1, <2>2, <3>1, AloneMoved
  <2>4. ~ overlapped => stored[k.of].version <= k.state.version
    BY <1>1, <1>2, <2>1 DEF Alone
  <2>5. NotBack
    <3>1. SUFFICES ASSUME NEW d \in Collections, stored'[d].version < stored[d].version,
                          ~ overlapped'
                   PROVE  FALSE
      BY DEF NotBack
    <3>2. stored[d].version \in Nat
      BY <1>1 DEF SyncTypes, States
    <3>3. CASE d = k.of
      <4>1. stored'[d] = k.state
        BY <1>1, <2>1, <3>3 DEF SyncTypes
      <4>2. QED BY <2>2, <2>4, <3>1, <3>2, <3>3, <4>1
    <3>4. CASE d # k.of
      <4>1. stored'[d] = stored[d]
        BY <1>1, <2>1, <3>4 DEF SyncTypes
      <4>2. QED BY <3>1, <3>2, <4>1
    <3>5. QED BY <3>3, <3>4
  <2>6. QED BY <2>3, <2>5
<1>5. QED BY <1>3, <1>4

LEMMA AloneEnds ==
  ASSUME SyncInv, AloneInv, NEW t \in Tasks,
         \/ UploadRefused(t) \/ EmitUpload(t) \/ RejectPatch(t) \/ ExceedRounds(t)
         \/ TaskFails(t)
  PROVE  AloneInv' /\ NotBack
<1>1. Goto(t, Idle) /\ Busy(t) /\ UNCHANGED stored
  BY DEF UploadRefused, EmitUpload, RejectPatch, ExceedRounds, TaskFails, Fail, Busy,
         HasPatch, store
<1>2. SyncTypes /\ Alone(Idle)
  BY IdleFresh, IdleAlone DEF SyncInv
<1>3. QED BY <1>1, <1>2, AloneQuiet

-----------------------------------------------------------------------------
(* The theorem about versions that go back.                                 *)

LEMMA AloneInit ==
  ASSUME Init
  PROVE  AloneInv
<1>1. \A t \in Tasks : task[t].pc = "idle"
  BY IdleFresh DEF Init
<1>2. QED BY <1>1, IdleAlone DEF AloneInv, Busy

\* What every step does, of the processor, the application, the server or a fault.
LEMMA AloneNext ==
  ASSUME SyncInv, AloneInv, [Next]_vars
  PROVE  AloneInv' /\ NotBack
<1>1. SyncTypes
  BY DEF SyncInv
<1>2. CASE OtherDevice \/ ShareKey \/ UNCHANGED vars
  <2>1. UNCHANGED <<stored, task, overlapped>>
    BY <1>2 DEF OtherDevice, ShareKey, vars, store
  <2>2. QED BY <1>1, <2>1, AloneStays, StoredNotBack
<1>3. CASE Process \/ \E t \in AppTasks : AppSync(t) \/ AppRetry(t) \/ LoadPrevious(t)
  BY <1>1, <1>3, AloneCalls, StoredNotBack DEF Process
<1>4. ASSUME NEW t \in Tasks, Proceed(t)
      PROVE  AloneInv' /\ NotBack
  <2>1. CASE Load(t) \/ Answer(t)
    BY <2>1, AloneRequest
  <2>2. CASE ApplyCollection(t) \/ Unpark(t) \/ MissKey(t) \/ Park(t) \/ FinishCollection(t)
    BY <2>2, AlonePatchMoves
  <2>3. CASE ApplyPatch(t)
    BY <2>3, AloneApplyPatch
  <2>4. CASE Emit(t) \/ NextRound(t)
    BY <2>4, AloneEmit
  <2>5. CASE ApplySnapshot(t) \/ MissSnapshotKey(t) \/ ClearSnapshot(t) \/ ParkSnapshot(t)
    BY <2>5, AloneSnapshots
  <2>6. CASE Upload(t) \/ SaveUpload(t)
    BY <2>6, AloneUploads
  <2>7. CASE RejectPatch(t) \/ ExceedRounds(t) \/ UploadRefused(t) \/ EmitUpload(t)
    BY <2>7, AloneEnds
  <2>8. QED
    BY <1>4, <2>1, <2>2, <2>3, <2>4, <2>5, <2>6, <2>7 DEF Proceed
<1>5. CASE \E t \in Tasks : TaskFails(t)
  BY <1>5, AloneEnds
<1>6. CASE Crash
  <2>1. UNCHANGED stored /\ \A t \in Tasks : task'[t].pc = "idle"
    BY <1>6, IdleFresh DEF Crash, store
  <2>2. AloneInv'
    <3>1. \A t \in Tasks : Alone(task[t])' /\ ~ Busy(t)'
      BY <2>1 DEF Alone, Busy
    <3>2. QED BY <3>1 DEF AloneInv
  <2>3. QED BY <1>1, <2>1, <2>2, StoredNotBack
<1>7. QED BY <1>2, <1>3, <1>4, <1>5, <1>6 DEF Next

\* Every save of patches, snapshots and uploads: a collection's version goes back only
\* where two calls have overlapped.
THEOREM NeverBackAloneAlways == Spec => NeverBackAlone
<1>1. Init => AloneInv
  BY AloneInit
<1>2. SyncInv /\ AloneInv /\ [Next]_vars => AloneInv'
  BY AloneNext
<1>3. SyncInv /\ AloneInv /\ [Next]_vars =>
        [\A c \in Collections : stored'[c].version < stored[c].version => overlapped']_vars
  BY AloneNext DEF NotBack
<1>4. QED BY <1>1, <1>2, <1>3, SyncAlways, PTL DEF Spec, NeverBackAlone

-----------------------------------------------------------------------------
(* At rest a collection is behind only when it is parked for a key that has *)
(* not been shared.                                                         *)

\* The client has been told of every patch of the collection that follows version v.
Told(c) == [type |-> "sync", of |-> c] \in inbox
Level(c, v) == v = Len(history[c]) \/ Told(c)

Waits(c) == c \in DOMAIN blocked /\ blocked[c].key \notin keys

\* The running call will come to the collection.
Handles(k, c) ==
  \/ k.pc = "shared" /\ c \in DOMAIN blocked /\ blocked[c].key = k.key
  \/ k.pc \in {"load", "query"} /\ c \in k.todo \cup DOMAIN k.requests
  \/ k.pc \in {"apply", "patch", "unpark", "park"} /\ c \in DOMAIN k.answers
  \/ k.pc \in {"apply", "patch", "unpark", "park", "emit", "snapshot"} /\ c \in DOMAIN k.snaps
  \/ k.pc \in {"apply", "patch", "unpark", "park", "emit", "snapshot", "next", "clear", "hold"}
       /\ c \in k.more
  \/ k.pc = "clear" /\ c \in DOMAIN k.snaps \ {k.of}
  \/ k.pc = "hold" /\ c \in DOMAIN k.snaps
  \/ k.pc = "save" /\ c = k.of

\* An answer goes on where the stored state ends, or where its snapshot does, and
\* brings all there is, unless it says that there is more.
GoesOn(c, answer) ==
  /\ answer.next <= answer.last + 1
  /\ IF answer.snap = 0 THEN answer.next = stored[c].version + 1
     ELSE answer.next = answer.snap + 1
  /\ answer.more \/ Level(c, answer.last)

\* What the running call knows, as long as nothing has gone wrong.
Knows(k) ==
  /\ k.pc = "query" => k.todo = {}
  /\ k.pc \in {"apply", "patch", "unpark", "park"} =>
       \A c \in DOMAIN k.answers : GoesOn(c, k.answers[c])
  /\ k.pc \in {"apply", "patch", "unpark", "park", "emit", "snapshot", "clear", "hold"} =>
       \A c \in DOMAIN k.snaps : c \in k.more \/ Level(c, k.snaps[c])
  /\ k.pc = "clear" => k.of \in k.more \/ Level(k.of, stored[k.of].version)
  /\ k.pc = "park" =>
       LET answer == k.answers[k.of]
       IN  answer.next <= answer.last /\ history[k.of][answer.next].key \notin keys
  /\ k.pc = "hold" =>
       k.of \in DOMAIN k.snaps /\ history[k.of][k.snaps[k.of]].key \notin keys
  /\ k.pc = "save" => Level(k.of, k.state.version)

\* The collection is level, waits for its key, or is on the running call's list.
Due(k, c) == Level(c, stored[c].version) \/ Waits(c) \/ Handles(k, c)

ParkInv ==
  Smooth => /\ \A t \in Tasks : Knows(task[t])
            /\ \A c \in Collections : \E t \in Tasks : Due(task[t], c)

LEMMA Idles ==
  ASSUME NEW k, k.pc \in {"idle", "announce", "upload"}
  PROVE  Knows(k) /\ \A c : ~ Handles(k, c)
BY DEF Knows, Handles

\* The running call goes on: every other one is idle.
LEMMA ParkGoesOn ==
  ASSUME SyncTypes, AloneInv, ParkInv, NEW t \in Tasks, NEW y, Goto(t, y), Busy(t),
         Smooth' => Smooth,
         Smooth /\ Smooth' =>
           /\ Knows(y)'
           /\ \A c \in Collections : Due(task[t], c) => Due(y, c)'
  PROVE  ParkInv'
<1>1. task'[t] = y /\ \A u \in Tasks \ {t} : task'[u] = task[u]
  BY DEF SyncTypes, Goto
<1>2. SUFFICES ASSUME Smooth, Smooth'
               PROVE  /\ \A u \in Tasks : Knows(task[u])'
                      /\ \A c \in Collections : \E u \in Tasks : Due(task[u], c)'
  BY DEF ParkInv
<1>3. \A u \in Tasks \ {t} : task[u].pc = "idle" /\ task'[u].pc = "idle"
  BY <1>1, <1>2 DEF Smooth, AloneInv, Busy
<1>4. ASSUME NEW u \in Tasks
      PROVE  Knows(task[u])'
  <2>1. CASE u = t
    <3>1. Knows(y)'
      BY <1>2
    <3>2. QED BY <1>1, <2>1, <3>1 DEF Knows
  <2>2. CASE u # t
    BY <1>3, <2>2 DEF Knows
  <2>3. QED BY <2>1, <2>2
<1>5. ASSUME NEW c \in Collections
      PROVE  \E u \in Tasks : Due(task[u], c)'
  <2>1. PICK u \in Tasks : Due(task[u], c)
    BY <1>2 DEF ParkInv
  <2>2. Due(task[t], c)
    <3>1. CASE u = t
      BY <2>1, <3>1
    <3>2. CASE u # t
      BY <1>3, <2>1, <3>2, Idles DEF Due
    <3>3. QED BY <3>1, <3>2
  <2>3. Due(y, c)'
    BY <1>2, <2>2
  <2>4. Due(task[t], c)'
    BY <1>1, <2>3 DEF Due, Handles
  <2>5. QED BY <2>4
<1>6. QED BY <1>4, <1>5

\* A call begins while none runs.
LEMMA ParkBegins ==
  ASSUME SyncTypes, ParkInv, NEW t \in Tasks, NEW y, Begin(t, y), Smooth' => Smooth,
         Knows(y)',
         \A c \in Collections : Level(c, stored[c].version) \/ Waits(c) => Due(y, c)'
  PROVE  ParkInv'
<1>1. /\ overlapped' = (overlapped \/ \E u \in Tasks : Busy(u)) /\ task'[t] = y
      /\ \A u \in Tasks \ {t} : task'[u] = task[u]
  BY DEF SyncTypes, Begin
<1>2. SUFFICES ASSUME Smooth, Smooth'
               PROVE  /\ \A u \in Tasks : Knows(task[u])'
                      /\ \A c \in Collections : \E u \in Tasks : Due(task[u], c)'
  BY DEF ParkInv
<1>3. ~ overlapped'
  BY <1>2 DEF Smooth
<1>4. \A u \in Tasks : ~ Busy(u)
  BY <1>1, <1>3, Zenon
<1>5. \A u \in Tasks : task[u].pc = "idle"
  BY <1>4 DEF Busy
<1>6. ASSUME NEW u \in Tasks
      PROVE  Knows(task[u])'
  <2>1. CASE u = t
    BY <1>1, <2>1 DEF Knows
  <2>2. CASE u # t
    BY <1>1, <1>5, <2>2 DEF Knows
  <2>3. QED BY <2>1, <2>2
<1>7. ASSUME NEW c \in Collections
      PROVE  \E u \in Tasks : Due(task[u], c)'
  <2>1. PICK u \in Tasks : Due(task[u], c)
    BY <1>2 DEF ParkInv
  <2>2. Level(c, stored[c].version) \/ Waits(c)
    BY <1>5, <2>1, Idles DEF Due
  <2>3. Due(y, c)'
    BY <2>2
  <2>4. Due(task[t], c)'
    BY <1>1, <2>3 DEF Due, Handles
  <2>5. QED BY <2>4
<1>8. QED BY <1>6, <1>7

LEMMA SmoothStays ==
  ASSUME UNCHANGED <<failed, dropped, overlapped>>
  PROVE  Smooth' => Smooth
BY DEF Smooth

\* Another device uploads, which the client is told, or a key is shared.
LEMMA ParkServer ==
  ASSUME SyncInv, ParkInv, OtherDevice \/ ShareKey
  PROVE  ParkInv'
<1>1. /\ SyncTypes /\ UNCHANGED <<stored, keys, blocked, task, failed, dropped, overlapped>>
      /\ \A t \in Tasks : Follows(task[t]) /\ task[t] \in TaskSet
  BY DEF SyncInv, SyncTypes, OtherDevice, ShareKey, store, outcomes
<1>2. /\ HistoryGrows
      /\ \A c \in Collections : Told(c)' \/ (history'[c] = history[c] /\ ~ Told(c))
  <2>1. CASE OtherDevice
    <3>1. PICK d \in Collections, key \in Keys, m \in Mutations :
            /\ history' = [history EXCEPT ![d] = Append(@, Bundle(Newest(d), key, m))]
            /\ inbox' = inbox \cup {[type |-> "sync", of |-> d]}
      BY <2>1 DEF OtherDevice
    <3>2. PICK b : b = Bundle(Newest(d), key, m)
      OBVIOUS
    <3>3. /\ history[d] \in Seq(Patches) /\ history'[d] = Append(history[d], b)
          /\ \A c \in Collections \ {d} : history'[c] = history[c]
      BY <1>1, <3>1, <3>2 DEF SyncTypes
    <3>4. /\ Len(history[d]) <= Len(history'[d])
          /\ \A n \in 1 .. Len(history[d]) : history'[d][n] = history[d][n]
      BY <3>3
    <3>5. HistoryGrows
      BY <1>1, <3>3, <3>4 DEF HistoryGrows, SyncTypes
    <3>6. QED BY <3>1, <3>3, <3>5 DEF Told
  <2>2. CASE ShareKey
    <3>1. history' = history /\ inbox \subseteq inbox'
      BY <2>2 DEF ShareKey
    <3>2. QED BY <1>1, <3>1, HistorySame DEF Told
  <2>3. QED BY <2>1, <2>2
<1>3. \A c \in Collections : \A v : Level(c, v) => Level(c, v)'
  BY <1>2 DEF Level
<1>4. SUFFICES ASSUME Smooth'
               PROVE  /\ \A t \in Tasks : Knows(task[t])'
                      /\ \A c \in Collections : \E t \in Tasks : Due(task[t], c)'
  BY DEF ParkInv
<1>5. Smooth
  BY <1>1, <1>4, SmoothStays
<1>6. ASSUME NEW t \in Tasks
      PROVE  Knows(task[t])'
  <2>1. PICK k : k = task[t] /\ k = task'[t]
    BY <1>1
  <2>2. k \in TaskSet /\ Follows(k) /\ Knows(k)
    BY <1>1, <1>5, <2>1 DEF ParkInv
  <2>3. k.pc \in {"apply", "patch", "unpark", "park"} =>
          \A c \in DOMAIN k.answers : GoesOn(c, k.answers[c])'
    <3>1. ASSUME k.pc \in {"apply", "patch", "unpark", "park"}, NEW c \in DOMAIN k.answers
          PROVE  GoesOn(c, k.answers[c])'
      <4>1. c \in Collections
        BY <2>2, <3>1, TaskFields, PartialMap DEF Pages
      <4>2. GoesOn(c, k.answers[c])
        BY <2>2, <3>1 DEF Knows
      <4>3. QED BY <1>1, <1>3, <4>1, <4>2 DEF GoesOn
    <3>2. QED BY <3>1
  <2>4. k.pc \in {"apply", "patch", "unpark", "park", "emit", "snapshot", "clear", "hold"} =>
          \A c \in DOMAIN k.snaps : c \in k.more \/ Level(c, k.snaps[c])'
    <3>1. ASSUME k.pc \in {"apply", "patch", "unpark", "park", "emit", "snapshot", "clear",
                           "hold"},
                 NEW c \in DOMAIN k.snaps
          PROVE  c \in k.more \/ Level(c, k.snaps[c])'
      <4>1. c \in Collections
        BY <2>2, <3>1, TaskFields, PartialMap DEF Requests
      <4>2. c \in k.more \/ Level(c, k.snaps[c])
        BY <2>2, <3>1 DEF Knows
      <4>3. QED BY <1>3, <4>1, <4>2
    <3>2. QED BY <3>1
  <2>5. k.pc = "clear" => k.of \in k.more \/ Level(k.of, stored[k.of].version)'
    <3>1. ASSUME k.pc = "clear" PROVE k.of \in Collections
      BY <2>2, <3>1, TaskKinds DEF RecoveredTasks
    <3>2. QED BY <1>1, <1>3, <2>2, <3>1 DEF Knows
  <2>6. k.pc = "park" =>
          /\ k.answers[k.of].next <= k.answers[k.of].last
          /\ history'[k.of][k.answers[k.of].next].key \notin keys'
    <3>1. SUFFICES ASSUME k.pc = "park"
                   PROVE  /\ k.answers[k.of].next <= k.answers[k.of].last
                          /\ history'[k.of][k.answers[k.of].next].key \notin keys'
      OBVIOUS
    <3>2. PICK n, c : n = k.answers[k.of].next /\ c = k.of
      OBVIOUS
    <3>3. /\ k.of \in Collections /\ k.of \in DOMAIN k.answers /\ k.answers \in Pages
          /\ k.answers[c].last <= Len(history[c])
      BY <2>2, <3>1, <3>2, TaskFields DEF Follows
    <3>4. k.answers[c] \in AnswerSet
      BY <3>2, <3>3, PartialMap DEF Pages
    <3>5. n <= k.answers[c].last /\ history[c][n].key \notin keys
      BY <2>2, <3>1, <3>2 DEF Knows
    <3>6. n \in 1 .. Len(history[c])
      BY <1>1, <3>2, <3>3, <3>4, <3>5 DEF AnswerSet, SyncTypes
    <3>7. history'[c][n] = history[c][n]
      BY <1>2, <3>2, <3>3, <3>6 DEF HistoryGrows
    <3>8. QED BY <1>1, <3>2, <3>5, <3>7
  <2>7. k.pc = "hold" =>
          /\ k.of \in DOMAIN k.snaps
          /\ history'[k.of][k.snaps[k.of]].key \notin keys'
    <3>1. SUFFICES ASSUME k.pc = "hold"
                   PROVE  /\ k.of \in DOMAIN k.snaps
                          /\ history'[k.of][k.snaps[k.of]].key \notin keys'
      OBVIOUS
    <3>2. PICK n, c : n = k.snaps[k.of] /\ c = k.of
      OBVIOUS
    <3>3. c \in DOMAIN k.snaps /\ history[c][n].key \notin keys
      BY <2>2, <3>1, <3>2 DEF Knows
    <3>4. c \in Collections /\ n \in 1 .. Len(history[c])
      BY <2>2, <3>1, <3>2, <3>3, TaskKinds DEF Follows, HoldingTasks
    <3>5. history'[c][n] = history[c][n]
      BY <1>2, <3>4 DEF HistoryGrows
    <3>6. QED BY <1>1, <3>2, <3>3, <3>5
  <2>8. k.pc = "save" => Level(k.of, k.state.version)'
    <3>1. ASSUME k.pc = "save" PROVE k.of \in Collections
      BY <2>2, <3>1, TaskFields
    <3>2. QED BY <1>3, <2>2, <3>1 DEF Knows
  <2>9. k.pc = "query" => k.todo = {}
    BY <2>2 DEF Knows
  <2>10. Knows(k)'
    BY <2>3, <2>4, <2>5, <2>6, <2>7, <2>8, <2>9 DEF Knows
  <2>11. QED BY <2>1, <2>10 DEF Knows
<1>7. ASSUME NEW c \in Collections
      PROVE  \E t \in Tasks : Due(task[t], c)'
  <2>1. PICK t \in Tasks : Due(task[t], c)
    BY <1>5 DEF ParkInv
  <2>2. Due(task[t], c)'
    BY <1>1, <1>3, <2>1 DEF Due, Waits, Handles
  <2>3. QED BY <2>2
<1>8. QED BY <1>6, <1>7

\* A call begins: the notification, the shared key or the parked collections it takes
\* up are its list.
LEMMA ParkCalls ==
  ASSUME SyncInv, AloneInv, ParkInv,
         \/ TakeNotification \/ TakeKeyShare \/ FindBlocked
         \/ \E t \in AppTasks : AppSync(t) \/ AppRetry(t) \/ LoadPrevious(t)
  PROVE  ParkInv'
<1>1. Processor \in Tasks /\ AppTasks \subseteq Tasks /\ MaxRounds \in Nat
      /\ Recovering \in BOOLEAN
  BY AppStateAssumption DEF Tasks
<1>2. SyncTypes
  BY DEF SyncInv
<1>3. ASSUME NEW todo \in SUBSET Collections, NEW recover \in BOOLEAN, NEW y,
             y = Round(MaxRounds, todo, recover)
      PROVE  /\ Knows(y) /\ Knows(y)'
             /\ \A c \in todo : Handles(y, c) /\ Handles(y, c)'
  <2>1. /\ y.pc \in {"idle", "load"} /\ (y.pc = "load" => y.todo = todo)
        /\ y.pc = "idle" => todo = {}
    BY <1>1, <1>3, RoundFresh
  <2>2. QED BY <2>1 DEF Knows, Handles
<1>4. CASE TakeNotification
  <2>1. PICK item \in inbox : /\ item.type = "sync" /\ inbox' = inbox \ {item}
                              /\ Begin(Processor, Round(MaxRounds, {item.of}, Recovering))
    BY <1>4 DEF TakeNotification
  <2>2. PICK y : y = Round(MaxRounds, {item.of}, Recovering)
    OBVIOUS
  <2>3. item.of \in Collections /\ item = [type |-> "sync", of |-> item.of]
    BY <1>2, <2>1 DEF SyncTypes
  <2>4. UNCHANGED <<history, stored, keys, blocked, failed, dropped>>
    BY <1>4 DEF TakeNotification, store, outcomes
  <2>5. Knows(y)' /\ Handles(y, item.of)'
    BY <1>1, <1>3, <2>2, <2>3
  <2>6. ASSUME NEW c \in Collections, Level(c, stored[c].version) \/ Waits(c)
        PROVE  Due(y, c)'
    <3>1. CASE c = item.of
      BY <2>5, <3>1 DEF Due
    <3>2. CASE c # item.of
      <4>1. Told(c) => Told(c)'
        BY <2>1, <2>3, <3>2 DEF Told
      <4>2. QED BY <2>4, <2>6, <4>1 DEF Due, Level, Waits
    <3>3. QED BY <3>1, <3>2
  <2>7. Smooth' => Smooth
    BY <2>1, <2>4 DEF Smooth, Begin
  <2>8. Begin(Processor, y)
    BY <2>1, <2>2
  <2>9. QED BY <1>1, <1>2, <2>5, <2>6, <2>7, <2>8, ParkBegins
<1>5. CASE TakeKeyShare
  <2>1. PICK item \in inbox :
          /\ item.type = "share" /\ inbox' = inbox \ {item} /\ keys' = keys \cup {item.of}
          /\ Begin(Processor, [pc |-> "shared", held |-> {}, key |-> item.of])
    BY <1>5 DEF TakeKeyShare
  <2>2. PICK y : y = [pc |-> "shared", held |-> {}, key |-> item.of]
    OBVIOUS
  <2>3. UNCHANGED <<history, stored, blocked, failed, dropped>>
    BY <1>5 DEF TakeKeyShare, outcomes
  <2>4. Knows(y)' /\ y.pc = "shared" /\ y.key = item.of
    BY <2>2 DEF Knows
  <2>5. ASSUME NEW c \in Collections, Level(c, stored[c].version) \/ Waits(c)
        PROVE  Due(y, c)'
    <3>1. Told(c) => Told(c)'
      BY <2>1 DEF Told
    <3>2. CASE Level(c, stored[c].version)
      BY <2>3, <3>1, <3>2 DEF Due, Level
    <3>3. CASE Waits(c)
      BY <2>1, <2>3, <2>4, <3>3 DEF Due, Waits, Handles
    <3>4. QED BY <2>5, <3>2, <3>3
  <2>6. Smooth' => Smooth
    BY <2>1, <2>3 DEF Smooth, Begin
  <2>7. Begin(Processor, y)
    BY <2>1, <2>2
  <2>8. QED BY <1>1, <1>2, <2>4, <2>5, <2>6, <2>7, ParkBegins
<1>6. CASE FindBlocked
  <2>1. PICK k, todo : /\ k = task[Processor]
                       /\ todo = {c \in DOMAIN blocked : blocked[c].key = k.key}
    OBVIOUS
  <2>2. PICK y : y = Round(MaxRounds, todo, FALSE)
    OBVIOUS
  <2>3. todo \in SUBSET Collections
    BY <1>2, <2>1 DEF SyncTypes
  <2>4. /\ k.pc = "shared" /\ Goto(Processor, y) /\ Busy(Processor)
        /\ UNCHANGED <<history, inbox, stored, keys, blocked, failed, dropped, overlapped>>
    BY <1>6, <2>1, <2>2 DEF FindBlocked, Busy, server, store, outcomes, Goto
  <2>5. Knows(y)' /\ \A c \in todo : Handles(y, c)'
    BY <1>3, <2>2, <2>3
  <2>6. ASSUME NEW c \in Collections, Due(k, c)
        PROVE  Due(y, c)'
    <3>1. CASE Level(c, stored[c].version) \/ Waits(c)
      BY <2>4, <3>1 DEF Due, Level, Told, Waits
    <3>2. CASE Handles(k, c)
      <4>1. c \in todo
        BY <2>1, <2>4, <3>2 DEF Handles
      <4>2. QED BY <2>5, <4>1 DEF Due
    <3>3. QED BY <2>6, <3>1, <3>2 DEF Due
  <2>7. Smooth' => Smooth
    BY <2>4, SmoothStays
  <2>8. QED BY <1>1, <1>2, <2>1, <2>4, <2>5, <2>6, <2>7, ParkGoesOn
<1>7. ASSUME NEW t \in AppTasks, AppSync(t) \/ AppRetry(t) \/ LoadPrevious(t)
      PROVE  ParkInv'
  <2>1. PICK y : Begin(t, y) /\ Knows(y)'
    <3>1. CASE AppSync(t)
      <4>1. PICK todo \in SUBSET Collections, recover \in BOOLEAN :
              Begin(t, Round(MaxRounds, todo, recover))
        BY <3>1 DEF AppSync, AppBegin
      <4>2. PICK y : y = Round(MaxRounds, todo, recover)
        OBVIOUS
      <4>3. QED BY <1>3, <4>1, <4>2
    <3>2. CASE AppRetry(t)
      <4>1. PICK ready : ready = {c \in DOMAIN blocked : blocked[c].key \in keys}
        OBVIOUS
      <4>2. ready \in SUBSET Collections
        BY <1>2, <4>1 DEF SyncTypes
      <4>3. PICK recover \in BOOLEAN : Begin(t, Round(MaxRounds, ready, recover))
        BY <3>2, <4>1 DEF AppRetry, AppBegin
      <4>4. PICK y : y = Round(MaxRounds, ready, recover)
        OBVIOUS
      <4>5. QED BY <1>3, <4>2, <4>3, <4>4
    <3>3. CASE LoadPrevious(t)
      <4>1. PICK y \in UploadTasks : Begin(t, y)
        BY <1>1, <1>2, <3>3, LoadPreviousStep
      <4>2. y.pc = "upload"
        BY DEF UploadTasks
      <4>3. QED BY <4>1, <4>2 DEF Knows
    <3>4. QED BY <1>7, <3>1, <3>2, <3>3
  <2>2. UNCHANGED <<history, inbox, stored, keys, blocked, failed, dropped>>
    BY <1>7 DEF AppSync, AppRetry, LoadPrevious, server, store, outcomes
  <2>3. Smooth' => Smooth
    BY <2>1, <2>2 DEF Smooth, Begin
  <2>4. \A c \in Collections : Level(c, stored[c].version) \/ Waits(c) => Due(y, c)'
    BY <2>2 DEF Due, Level, Told, Waits
  <2>5. QED BY <1>1, <1>2, <2>1, <2>2, <2>3, <2>4, ParkBegins
<1>8. QED BY <1>4, <1>5, <1>6, <1>7

\* A request: every collection of the list is asked for, and each answer goes on where
\* the stored state ends.
LEMMA ParkRequest ==
  ASSUME SyncInv, AloneInv, ParkInv, NEW t \in Tasks, Load(t) \/ Answer(t)
  PROVE  ParkInv'
<1>1. SyncTypes
  BY DEF SyncInv
<1>2. PICK k : k = task[t]
  OBVIOUS
<1>3. /\ Busy(t) /\ (Smooth' => Smooth)
      /\ UNCHANGED <<history, inbox, stored, keys, blocked>>
  BY SmoothStays DEF Load, Answer, Busy, server, store, outcomes, Goto
<1>4. CASE Load(t)
  <2>1. PICK c \in Collections, y \in LoadingTasks :
          /\ Goto(t, y) /\ k \in LoadingTasks /\ k.pc = "load" /\ (y.pc = "query" => y.todo = {})
          /\ k.todo \cup DOMAIN k.requests \subseteq y.todo \cup DOMAIN y.requests
    BY <1>1, <1>2, <1>4, LoadStep
  <2>2. y.pc \in {"load", "query"}
    BY DEF LoadingTasks
  <2>3. Knows(y)'
    BY <2>1, <2>2 DEF Knows
  <2>4. ASSUME NEW d, Due(k, d) PROVE Due(y, d)'
    <3>1. CASE Handles(k, d)
      BY <2>1, <2>2, <3>1 DEF Handles, Due
    <3>2. CASE ~ Handles(k, d)
      BY <1>3, <2>4, <3>2 DEF Due, Level, Told, Waits
    <3>3. QED BY <3>1, <3>2
  <2>5. QED BY <1>1, <1>2, <1>3, <2>1, <2>3, <2>4, ParkGoesOn
<1>5. CASE Answer(t)
  <2>1. PICK y \in ApplyingTasks :
          /\ Goto(t, y) /\ k \in LoadingTasks /\ k.pc = "query"
          /\ y.pc = "apply" /\ y.snaps = << >> /\ DOMAIN y.answers = DOMAIN k.requests
          /\ \A c \in DOMAIN y.answers : y.answers[c] \in Answers(c, k.requests[c])
    BY <1>1, <1>2, <1>5, AnswerStep
  <2>2. SUFFICES ASSUME Smooth
                 PROVE  Knows(y)' /\ \A c \in Collections : Due(k, c) => Due(y, c)'
    BY <1>1, <1>2, <1>3, <2>1, ParkGoesOn
  <2>3. Knows(k) /\ Alone(k)
    BY <1>2, <2>2 DEF ParkInv, AloneInv, Smooth
  <2>4. ASSUME NEW c \in DOMAIN y.answers
        PROVE  GoesOn(c, y.answers[c])'
    <3>1. c \in Collections /\ k.requests[c] = stored[c].version
      BY <2>1, <2>3, PartialMap DEF LoadingTasks, Requests, Alone
    <3>2. PICK v, a, newest : /\ v = stored[c].version /\ a = y.answers[c]
                              /\ newest = Len(history[c])
      OBVIOUS
    <3>3. v \in Nat /\ newest \in Nat /\ v <= newest /\ a \in Answers(c, v)
      BY <1>1, <2>1, <3>1, <3>2 DEF SyncTypes, States, SyncInv, StoredIsServers
    <3>4. \/ \E to \in (IF v < newest THEN v + 1 ELSE v) .. newest :
                a = [next |-> v + 1, last |-> to, snap |-> 0, more |-> to < newest]
          \/ \E s \in IF v = 0 THEN 1 .. newest ELSE {} : \E to \in s .. newest :
                a = [next |-> s + 1, last |-> to, snap |-> s, more |-> to < newest]
      BY <3>2, <3>3 DEF Answers
    <3>5. CASE \E to \in (IF v < newest THEN v + 1 ELSE v) .. newest :
                  a = [next |-> v + 1, last |-> to, snap |-> 0, more |-> to < newest]
      <4>1. PICK to \in (IF v < newest THEN v + 1 ELSE v) .. newest :
              a = [next |-> v + 1, last |-> to, snap |-> 0, more |-> to < newest]
        BY <3>5
      <4>2. to \in Nat /\ v <= to /\ to <= newest
        BY <3>3
      <4>3. a.next <= a.last + 1 /\ a.snap = 0 /\ a.next = v + 1 /\ a.last = to
        BY <3>3, <4>1, <4>2
      <4>4. a.more = (to < newest)
        BY <4>1, Zenon
      <4>5. a.more \/ a.last = newest
        <5>1. CASE to < newest
          BY <4>4, <5>1, Zenon
        <5>2. CASE ~ (to < newest)
          BY <3>3, <4>2, <4>3, <5>2
        <5>3. QED BY <5>1, <5>2
      <4>6. QED BY <1>3, <3>2, <4>3, <4>5 DEF GoesOn, Level
    <3>6. CASE \E s \in IF v = 0 THEN 1 .. newest ELSE {} : \E to \in s .. newest :
                  a = [next |-> s + 1, last |-> to, snap |-> s, more |-> to < newest]
      <4>1. PICK s \in 1 .. newest : \E to \in s .. newest :
              a = [next |-> s + 1, last |-> to, snap |-> s, more |-> to < newest]
        BY <3>6
      <4>2. PICK to \in s .. newest :
              a = [next |-> s + 1, last |-> to, snap |-> s, more |-> to < newest]
        BY <4>1
      <4>3. a.next <= a.last + 1 /\ a.snap # 0 /\ a.next = a.snap + 1 /\ a.last = to
        BY <3>3, <4>2
      <4>4. a.more = (to < newest)
        BY <4>2, Zenon
      <4>5. a.more \/ a.last = newest
        <5>1. CASE to < newest
          BY <4>4, <5>1, Zenon
        <5>2. CASE ~ (to < newest)
          BY <3>3, <4>2, <4>3, <5>2
        <5>3. QED BY <5>1, <5>2
      <4>6. QED BY <1>3, <3>2, <4>3, <4>5 DEF GoesOn, Level
    <3>7. QED BY <3>4, <3>5, <3>6
  <2>5. Knows(y)'
    BY <2>1, <2>4, PartialEmpty DEF Knows
  <2>6. ASSUME NEW d \in Collections, Due(k, d) PROVE Due(y, d)'
    <3>1. CASE Handles(k, d)
      <4>1. d \in DOMAIN y.answers
        BY <2>1, <2>3, <3>1 DEF Handles, Knows
      <4>2. QED BY <2>1, <4>1 DEF Due, Handles
    <3>2. CASE ~ Handles(k, d)
      BY <1>3, <2>6, <3>2 DEF Due, Level, Told, Waits
    <3>3. QED BY <3>1, <3>2
  <2>7. QED BY <2>5, <2>6
<1>6. QED BY <1>4, <1>5

\* A collection is taken up, unparked or found to need a key.
LEMMA ParkPatchMoves ==
  ASSUME SyncInv, AloneInv, ParkInv, NEW t \in Tasks,
         ApplyCollection(t) \/ Unpark(t) \/ MissKey(t)
  PROVE  ParkInv'
<1>1. SyncTypes /\ Follows(task[t])
  BY DEF SyncInv
<1>2. PICK k : k = task[t]
  OBVIOUS
<1>3. /\ Busy(t) /\ (Smooth' => Smooth)
      /\ UNCHANGED <<history, inbox, stored, keys>>
  BY SmoothStays DEF ApplyCollection, Unpark, MissKey, HasPatch, Busy, server, store, outcomes, Goto
<1>4. CASE ApplyCollection(t)
  <2>1. PICK y \in PatchingTasks :
          /\ Goto(t, y) /\ k.pc = "apply" /\ y.pc = "patch"
          /\ y.answers = k.answers /\ y.snaps = k.snaps /\ y.more = k.more
          /\ blocked' = blocked
    BY <1>1, <1>2, <1>4, ApplyCollectionStep DEF store
  <2>2. SUFFICES ASSUME Smooth
                 PROVE  Knows(y)' /\ \A c \in Collections : Due(k, c) => Due(y, c)'
    BY <1>1, <1>2, <1>3, <2>1, ParkGoesOn
  <2>3. Knows(y)'
    BY <1>2, <1>3, <2>1, <2>2 DEF ParkInv, Knows, GoesOn, Level, Told
  <2>4. ASSUME NEW c, Due(k, c) PROVE Due(y, c)'
    BY <1>3, <2>1, <2>4 DEF Due, Level, Told, Waits, Handles
  <2>5. QED BY <2>3, <2>4
<1>5. CASE Unpark(t) \/ MissKey(t)
  <2>1. PICK y \in PatchingTasks :
          /\ Goto(t, y) /\ k \in PatchingTasks
          /\ \/ Unpark(t) /\ y.pc = "patch"
             \/ MissKey(t) /\ y.pc = "park"
          /\ y.of = k.of /\ y.answers = k.answers /\ y.snaps = k.snaps /\ y.more = k.more
    BY <1>1, <1>2, <1>5, PatchMoveStep
  <2>2. SUFFICES ASSUME Smooth
                 PROVE  Knows(y)' /\ \A c \in Collections : Due(k, c) => Due(y, c)'
    BY <1>1, <1>2, <1>3, <2>1, ParkGoesOn
  <2>3. k.pc \in {"patch", "unpark", "park"} /\ k.of \in DOMAIN k.answers /\ Knows(k)
    BY <1>1, <1>2, <2>1, <2>2 DEF ParkInv, PatchingTasks, Follows
  <2>4. y.pc = "park" => /\ y.answers[y.of].next <= y.answers[y.of].last
                         /\ history[y.of][y.answers[y.of].next].key \notin keys
    BY <1>2, <2>1 DEF MissKey, Unpark, HasPatch, NextPatch
  <2>5. Knows(y)'
    BY <1>3, <2>1, <2>3, <2>4 DEF Knows, GoesOn, Level, Told
  <2>6. ASSUME NEW c, Due(k, c) PROVE Due(y, c)'
    <3>1. CASE c \in DOMAIN k.answers
      BY <2>1, <3>1 DEF Due, Handles
    <3>2. CASE c \notin DOMAIN k.answers
      <4>1. c # k.of
        BY <2>3, <3>2
      <4>2. Waits(c) => Waits(c)'
        BY <1>2, <1>3, <2>1, <4>1 DEF Waits, Unpark, MissKey, Without, store
      <4>3. Handles(k, c) => Handles(y, c)'
        BY <2>1, <2>3, <3>2 DEF Handles
      <4>4. QED BY <1>3, <2>6, <4>2, <4>3 DEF Due, Level, Told
    <3>3. QED BY <3>1, <3>2
  <2>7. QED BY <2>5, <2>6
<1>6. QED BY <1>4, <1>5

\* A patch is saved: the answer goes on at the next one.
LEMMA ParkApplyPatch ==
  ASSUME SyncInv, AloneInv, ParkInv, NEW t \in Tasks, ApplyPatch(t)
  PROVE  ParkInv'
<1>1. SyncTypes /\ HistoryVerifies /\ Follows(task[t])
  BY DEF SyncInv
<1>2. PICK k : k = task[t]
  OBVIOUS
<1>3. PICK c, n : c = k.of /\ n = k.answers[c].next
  OBVIOUS
<1>4. PICK y \in PatchingTasks :
        /\ Goto(t, y) /\ k \in PatchingTasks /\ k.pc = "patch" /\ c \in Collections
        /\ k.answers[c] \in AnswerSet
        /\ y.pc = "unpark" /\ y.of = c
        /\ n \in 1 .. Len(history[c]) /\ k.state.version + 1 = n /\ y.state.version = n
        /\ n <= k.answers[c].last
        /\ stored' = [stored EXCEPT ![c] = y.state]
        /\ y.snaps = k.snaps /\ y.more = k.more /\ DOMAIN y.answers = DOMAIN k.answers
        /\ y.answers[c].next = n + 1 /\ y.answers[c].more = k.answers[c].more
        /\ \A d \in DOMAIN k.answers : /\ y.answers[d].last = k.answers[d].last
                                       /\ y.answers[d].snap = k.answers[d].snap
                                       /\ d # c => y.answers[d] = k.answers[d]
  BY <1>1, <1>2, <1>3, ApplyPatchStep
<1>5. /\ Busy(t) /\ (Smooth' => Smooth) /\ UNCHANGED <<history, inbox, keys, blocked>>
  BY SmoothStays DEF ApplyPatch, HasPatch, Busy, server, outcomes, Goto
<1>6. /\ stored'[c] = y.state /\ \A d \in Collections \ {c} : stored'[d] = stored[d]
      /\ c \in DOMAIN k.answers /\ k.answers \in Pages
  BY <1>1, <1>2, <1>3, <1>4 DEF SyncTypes, Follows, PatchingTasks
<1>7. SUFFICES ASSUME Smooth
               PROVE  Knows(y)' /\ \A d \in Collections : Due(k, d) => Due(y, d)'
  BY <1>1, <1>2, <1>4, <1>5, ParkGoesOn
<1>8. Knows(k) /\ Alone(k)
  BY <1>2, <1>7 DEF ParkInv, AloneInv, Smooth
<1>9. k.answers[c].snap = 0
  <2>1. SUFFICES ASSUME k.answers[c].snap # 0 PROVE FALSE
    OBVIOUS
  <2>2. stored[c].version = 0 /\ n > k.answers[c].snap /\ k.state = stored[c]
    BY <1>3, <1>4, <1>6, <1>8, <2>1 DEF Alone
  <2>3. n = 1
    BY <1>4, <2>2
  <2>4. k.answers[c].snap \in Nat
    BY <1>4 DEF AnswerSet
  <2>5. QED BY <2>1, <2>2, <2>3, <2>4
<1>10. ASSUME NEW d \in DOMAIN y.answers
       PROVE  GoesOn(d, y.answers[d])'
  <2>1. d \in Collections /\ GoesOn(d, k.answers[d])
    BY <1>4, <1>6, <1>8, PartialMap DEF Pages, Knows
  <2>2. CASE d = c
    <3>1. k.answers[c].last \in Nat /\ n \in Nat
      BY <1>4 DEF AnswerSet
    <3>2. n + 1 <= y.answers[c].last + 1 /\ y.answers[c].snap = 0
          /\ y.answers[c].next = stored'[c].version + 1
      BY <1>4, <1>6, <1>9, <3>1
    <3>3. y.answers[c].more \/ Level(c, y.answers[c].last)'
      BY <1>4, <1>5, <1>6, <2>1, <2>2 DEF GoesOn, Level, Told
    <3>4. QED BY <1>4, <2>2, <3>2, <3>3 DEF GoesOn
  <2>3. CASE d # c
    BY <1>4, <1>5, <1>6, <2>1, <2>3 DEF GoesOn, Level, Told
  <2>4. QED BY <2>2, <2>3
<1>11. Knows(y)'
  BY <1>4, <1>5, <1>8, <1>10 DEF Knows, Level, Told
<1>12. ASSUME NEW d \in Collections, Due(k, d) PROVE Due(y, d)'
  <2>1. CASE d = c
    BY <1>4, <1>6, <2>1 DEF Due, Handles
  <2>2. CASE d # c
    BY <1>4, <1>5, <1>6, <1>12, <2>2 DEF Due, Level, Told, Waits, Handles
  <2>3. QED BY <2>1, <2>2
<1>13. QED BY <1>11, <1>12

\* A collection is done: it is parked for a key the store has not, or the stored state
\* is where the answer ends, or its snapshot is to be downloaded.
LEMMA ParkDone ==
  ASSUME SyncInv, AloneInv, ParkInv, NEW t \in Tasks, Park(t) \/ FinishCollection(t)
  PROVE  ParkInv'
<1>1. SyncTypes /\ Follows(task[t])
  BY DEF SyncInv
<1>2. PICK k, c : k = task[t] /\ c = k.of
  OBVIOUS
<1>3. PICK y \in ApplyingTasks :
        /\ Goto(t, y) /\ k \in PatchingTasks /\ c \in DOMAIN k.answers
        /\ y.answers = Without(k.answers, {c})
        /\ DOMAIN y.answers # {} => y.pc = "apply"
        /\ \/ Park(t) /\ y.snaps = k.snaps /\ y.more = k.more
           \/ /\ FinishCollection(t)
              /\ k.answers[c].snap = 0 => y.snaps = k.snaps
              /\ k.answers[c].snap # 0 => y.snaps = With(k.snaps, c, k.answers[c].snap)
              /\ k.answers[c].more => y.more = k.more \cup {c}
              /\ ~ k.answers[c].more => y.more = k.more
  <2>1. PICK y \in ApplyingTasks :
          /\ Goto(t, y) /\ k \in PatchingTasks /\ k.of \in DOMAIN k.answers
          /\ y.answers = Without(k.answers, {k.of})
          /\ DOMAIN y.answers # {} => y.pc = "apply"
          /\ \/ Park(t) /\ y.snaps = k.snaps /\ y.more = k.more
             \/ /\ FinishCollection(t)
                /\ k.answers[k.of].snap = 0 => y.snaps = k.snaps
                /\ k.answers[k.of].snap # 0 =>
                     y.snaps = With(k.snaps, k.of, k.answers[k.of].snap)
                /\ k.answers[k.of].more => y.more = k.more \cup {k.of}
                /\ ~ k.answers[k.of].more => y.more = k.more
    BY <1>1, <1>2, DoneStep
  <2>2. QED BY <1>2, <2>1
<1>4. /\ Busy(t) /\ (Smooth' => Smooth) /\ UNCHANGED <<history, inbox, stored, keys>>
  BY SmoothStays DEF Park, FinishCollection, Busy, server, outcomes, Goto
<1>5. /\ k.pc \in {"patch", "unpark", "park"} /\ y.pc \in {"apply", "emit"}
      /\ k.answers \in Pages /\ k.snaps \in Requests /\ c \in Collections
  BY <1>2, <1>3 DEF PatchingTasks, ApplyingTasks
<1>6. /\ DOMAIN y.answers = DOMAIN k.answers \ {c}
      /\ \A d \in DOMAIN k.answers \ {c} : y.answers[d] = k.answers[d]
  BY <1>3 DEF Without
<1>7. k.answers[c] \in AnswerSet
  BY <1>3, <1>5, PartialMap DEF Pages
<1>8. k.answers[c].snap # 0 /\ y.snaps = With(k.snaps, c, k.answers[c].snap) =>
        /\ DOMAIN y.snaps = DOMAIN k.snaps \cup {c} /\ y.snaps[c] = k.answers[c].snap
        /\ \A d \in DOMAIN k.snaps \ {c} : y.snaps[d] = k.snaps[d]
  <2>1. PICK f \in PartialMaps(Collections, Nat), n \in Nat :
          f = k.snaps /\ n = k.answers[c].snap
    BY <1>5, <1>7 DEF Requests, AnswerSet
  <2>2. /\ DOMAIN With(f, c, n) = DOMAIN f \cup {c} /\ With(f, c, n)[c] = n
        /\ \A d \in DOMAIN f \ {c} : With(f, c, n)[d] = f[d]
    BY DEF With
  <2>3. QED BY <2>1, <2>2
<1>9. \A d \in Collections \ {c} : Waits(d) => Waits(d)'
  <2>1. CASE Park(t)
    BY <1>2, <1>4, <2>1 DEF Waits, Park, With
  <2>2. CASE FinishCollection(t)
    BY <1>2, <1>4, <2>2 DEF Waits, FinishCollection, Without
  <2>3. QED BY <2>1, <2>2
<1>10. SUFFICES ASSUME Smooth
                PROVE  Knows(y)' /\ \A d \in Collections : Due(k, d) => Due(y, d)'
  BY <1>1, <1>2, <1>3, <1>4, ParkGoesOn
<1>11. Knows(k)
  BY <1>2, <1>10 DEF ParkInv
<1>12. /\ \A d \in DOMAIN k.snaps : d \in k.more \/ Level(d, k.snaps[d])'
       /\ \A d \in DOMAIN k.answers : GoesOn(d, k.answers[d])'
  BY <1>4, <1>5, <1>11 DEF Knows, GoesOn, Level, Told
<1>13. /\ DOMAIN k.snaps \subseteq DOMAIN y.snaps /\ k.more \subseteq y.more
       /\ \A d \in DOMAIN k.snaps \ {c} : y.snaps[d] = k.snaps[d]
  BY <1>3, <1>8
<1>14. \A d \in DOMAIN y.answers : GoesOn(d, y.answers[d])'
  BY <1>6, <1>12
<1>15. ASSUME NEW d \in Collections, d # c, Due(k, d)
       PROVE  Due(y, d)'
  <2>1. CASE d \in DOMAIN k.answers
    BY <1>3, <1>6, <1>15, <2>1 DEF Due, Handles
  <2>2. CASE d \notin DOMAIN k.answers
    BY <1>4, <1>5, <1>9, <1>13, <1>15, <2>2 DEF Due, Level, Told, Handles
  <2>3. QED BY <2>1, <2>2
<1>16. CASE Park(t) /\ y.snaps = k.snaps /\ y.more = k.more
  <2>1. Knows(y)'
    BY <1>5, <1>12, <1>14, <1>16 DEF Knows
  <2>2. Waits(c)'
    <3>1. NextPatch(t).key \notin keys
      BY <1>2, <1>11, <1>16 DEF Knows, Park, NextPatch
    <3>2. QED BY <1>2, <1>4, <1>16, <3>1 DEF Waits, Park, With
  <2>3. QED BY <1>15, <2>1, <2>2 DEF Due
<1>17. CASE /\ FinishCollection(t)
            /\ k.answers[c].snap = 0 => y.snaps = k.snaps
            /\ k.answers[c].snap # 0 => y.snaps = With(k.snaps, c, k.answers[c].snap)
            /\ k.answers[c].more => y.more = k.more \cup {c}
            /\ ~ k.answers[c].more => y.more = k.more
  <2>1. PICK n, last, snap : /\ n = k.answers[c].next /\ last = k.answers[c].last
                             /\ snap = k.answers[c].snap
    OBVIOUS
  <2>2. n \in Nat /\ last \in Nat /\ snap \in Nat /\ ~ (n <= last) /\ n <= last + 1
    BY <1>2, <1>3, <1>7, <1>11, <1>12, <1>17, <2>1
    DEF AnswerSet, FinishCollection, HasPatch, GoesOn
  <2>3. n = last + 1
    BY <2>2
  <2>4. c \in y.more \/ Level(c, last)'
    BY <1>3, <1>12, <1>17, <2>1 DEF GoesOn
  <2>5. \A d \in DOMAIN y.snaps : d \in y.more \/ Level(d, y.snaps[d])'
    <3>1. CASE snap = 0
      BY <1>12, <1>13, <1>17, <2>1, <3>1
    <3>2. CASE snap # 0
      <4>1. snap = last
        <5>1. GoesOn(c, k.answers[c])'
          BY <1>3, <1>12
        <5>2. n = snap + 1
          BY <2>1, <3>2, <5>1 DEF GoesOn
        <5>3. QED BY <2>2, <2>3, <5>2
      <4>2. DOMAIN y.snaps = DOMAIN k.snaps \cup {c} /\ y.snaps[c] = snap
        BY <1>8, <1>17, <2>1, <3>2
      <4>3. ASSUME NEW d \in DOMAIN y.snaps
            PROVE  d \in y.more \/ Level(d, y.snaps[d])'
        <5>1. CASE d = c
          BY <2>4, <4>1, <4>2, <5>1
        <5>2. CASE d # c
          BY <1>12, <1>13, <4>2, <5>2
        <5>3. QED BY <5>1, <5>2
      <4>4. QED BY <4>3
    <3>3. QED BY <3>1, <3>2
  <2>6. Knows(y)'
    BY <1>5, <1>14, <2>5 DEF Knows
  <2>7. Due(y, c)'
    <3>1. CASE c \in y.more
      BY <1>5, <3>1 DEF Due, Handles
    <3>2. CASE snap # 0
      BY <1>5, <1>8, <1>17, <2>1, <3>2 DEF Due, Handles
    <3>3. CASE snap = 0 /\ Level(c, last)'
      <4>1. n = stored[c].version + 1 /\ stored[c].version \in Nat
        BY <1>1, <1>3, <1>4, <1>5, <1>12, <2>1, <3>3 DEF GoesOn, SyncTypes, States
      <4>2. stored'[c].version = last
        BY <1>4, <2>2, <2>3, <4>1
      <4>3. QED BY <3>3, <4>2 DEF Due
    <3>4. QED BY <2>4, <3>1, <3>2, <3>3
  <2>8. QED BY <1>15, <2>6, <2>7
<1>18. QED BY <1>3, <1>16, <1>17

\* The end of a round: what is left are snapshots to download and collections that have
\* more patches.
LEMMA ParkEmit ==
  ASSUME SyncInv, AloneInv, ParkInv, NEW t \in Tasks, Emit(t) \/ NextRound(t)
  PROVE  ParkInv'
<1>1. SyncTypes
  BY DEF SyncInv
<1>2. PICK k : k = task[t]
  OBVIOUS
<1>3. UNCHANGED <<history, inbox, stored, keys, blocked, failed, overlapped>>
  BY DEF Emit, NextRound, server, store, outcomes, Goto
<1>4. CASE Emit(t)
  <2>1. /\ k \in ApplyingTasks /\ k.pc = "emit" /\ (~ dropped' => ~ dropped)
        /\ \/ Goto(t, Idle) /\ k.more = {} /\ (~ dropped' => k.snaps = << >>)
           \/ \E y \in EmittedTasks :
                 /\ Goto(t, y) /\ y.snaps = k.snaps /\ y.more = k.more
                 /\ y.pc = "next" /\ ~ dropped' => k.snaps = << >>
    BY <1>1, <1>2, <1>4, EmitStep
  <2>2. Busy(t) /\ (Smooth' => Smooth)
    BY <1>2, <1>3, <2>1 DEF Busy, Smooth
  <2>3. CASE Goto(t, Idle) /\ k.more = {} /\ (~ dropped' => k.snaps = << >>)
    <3>1. SUFFICES ASSUME Smooth'
                   PROVE  Knows(Idle)' /\ \A c \in Collections : Due(k, c) => Due(Idle, c)'
      BY <1>1, <1>2, <2>2, <2>3, ParkGoesOn
    <3>2. Knows(Idle)'
      BY IdleFresh DEF Knows
    <3>3. \A c : ~ Handles(k, c)
      BY <2>1, <2>3, <3>1, PartialEmpty DEF Handles, Smooth
    <3>4. QED BY <1>3, <3>2, <3>3 DEF Due, Level, Told, Waits
  <2>4. CASE \E y \in EmittedTasks :
               /\ Goto(t, y) /\ y.snaps = k.snaps /\ y.more = k.more
               /\ y.pc = "next" /\ ~ dropped' => k.snaps = << >>
    <3>1. PICK y \in EmittedTasks :
            /\ Goto(t, y) /\ y.snaps = k.snaps /\ y.more = k.more
            /\ y.pc = "next" /\ ~ dropped' => k.snaps = << >>
      BY <2>4
    <3>2. SUFFICES ASSUME Smooth, Smooth'
                   PROVE  Knows(y)' /\ \A c \in Collections : Due(k, c) => Due(y, c)'
      BY <1>1, <1>2, <2>2, <3>1, ParkGoesOn
    <3>3. y.pc \in {"next", "snapshot"} /\ Knows(k)
      BY <1>2, <3>2 DEF EmittedTasks, ParkInv
    <3>4. Knows(y)'
      BY <1>3, <2>1, <3>1, <3>3 DEF Knows, Level, Told
    <3>5. ASSUME NEW c, Handles(k, c) PROVE Handles(y, c)'
      <4>1. c \in k.more \/ c \in DOMAIN k.snaps
        BY <2>1, <3>5 DEF Handles
      <4>2. CASE y.pc = "snapshot"
        BY <3>1, <4>1, <4>2 DEF Handles
      <4>3. CASE y.pc = "next"
        BY <3>1, <3>2, <4>1, <4>3, PartialEmpty DEF Handles, Smooth
      <4>4. QED BY <3>3, <4>2, <4>3
    <3>6. QED BY <1>3, <3>4, <3>5 DEF Due, Level, Told, Waits
  <2>5. QED BY <2>1, <2>3, <2>4
<1>5. CASE NextRound(t)
  <2>1. PICK y : /\ k.pc = "next" /\ Goto(t, y) /\ y.pc \in {"idle", "load"}
                 /\ y.pc = "load" => y.todo = k.more
                 /\ y.pc = "idle" => k.more = {}
    BY <1>1, <1>2, <1>5, NextRoundStep
  <2>2. Busy(t) /\ (Smooth' => Smooth)
    BY <1>2, <1>5, SmoothStays, <2>1 DEF Busy, NextRound, outcomes, Goto
  <2>3. Knows(y)'
    BY <2>1 DEF Knows
  <2>4. \A c : Handles(k, c) => Handles(y, c)'
    BY <2>1 DEF Handles
  <2>5. \A c \in Collections : Due(k, c) => Due(y, c)'
    BY <1>3, <2>4 DEF Due, Level, Told, Waits
  <2>6. QED BY <1>1, <1>2, <2>1, <2>2, <2>3, <2>5, ParkGoesOn
<1>6. QED BY <1>4, <1>5

\* A snapshot is downloaded: its version is the newest, or there is more to ask for, or
\* it is parked for its key.
LEMMA ParkSnapshots ==
  ASSUME SyncInv, AloneInv, ParkInv, NEW t \in Tasks,
         ApplySnapshot(t) \/ MissSnapshotKey(t) \/ ClearSnapshot(t) \/ ParkSnapshot(t)
  PROVE  ParkInv'
<1>1. SyncTypes /\ Follows(task[t])
  BY DEF SyncInv
<1>2. PICK k : k = task[t]
  OBVIOUS
<1>3. /\ Busy(t) /\ (Smooth' => Smooth) /\ UNCHANGED <<history, inbox, keys>>
  BY SmoothStays DEF ApplySnapshot, MissSnapshotKey, ClearSnapshot, ParkSnapshot, Busy,
                     server, store, outcomes, Goto
<1>4. Smooth => Knows(k)
  BY <1>2 DEF ParkInv
<1>5. CASE ApplySnapshot(t)
  <2>1. PICK c \in DOMAIN k.snaps, y \in RecoveredTasks :
          /\ Goto(t, y) /\ k.pc = "snapshot" /\ c \in Collections
          /\ k.snaps[c] \in 1 .. Len(history[c])
          /\ y.of = c /\ y.snaps = k.snaps /\ y.more = k.more
          /\ stored' = [stored EXCEPT ![c] = StateAt(c, k.snaps[c])]
          /\ UNCHANGED blocked
    BY <1>1, <1>2, <1>5, ApplySnapshotStep
  <2>2. SUFFICES ASSUME Smooth
                 PROVE  Knows(y)' /\ \A d \in Collections : Due(k, d) => Due(y, d)'
    BY <1>1, <1>2, <1>3, <2>1, ParkGoesOn
  <2>3. PICK n : n = k.snaps[c] /\ n \in 1 .. Len(history[c])
    BY <2>1
  <2>4. StateAt(c, n).version = n
    <3>1. n \in 0 .. Len(history[c])
      BY <1>1, <2>1, <2>3 DEF SyncTypes
    <3>2. QED BY <1>1, <2>1, <3>1, StateAtType
  <2>5. /\ stored'[c].version = n
        /\ \A d \in Collections \ {c} : stored'[d] = stored[d]
    BY <1>1, <2>1, <2>3, <2>4 DEF SyncTypes
  <2>6. /\ y.pc = "clear"
        /\ \A d \in DOMAIN y.snaps : d \in y.more \/ Level(d, y.snaps[d])'
    BY <1>3, <1>4, <2>1, <2>2 DEF RecoveredTasks, Knows, Level, Told
  <2>7. c \in y.more \/ Level(c, stored[c].version)'
    BY <2>1, <2>3, <2>5, <2>6
  <2>8. Knows(y)'
    BY <2>1, <2>6, <2>7 DEF Knows
  <2>9. ASSUME NEW d \in Collections, Due(k, d) PROVE Due(y, d)'
    <3>1. CASE d = c
      BY <2>6, <2>7, <3>1 DEF Due, Handles
    <3>2. CASE d # c
      BY <1>3, <2>1, <2>5, <2>6, <2>9, <3>2 DEF Due, Level, Told, Waits, Handles
    <3>3. QED BY <3>1, <3>2
  <2>10. QED BY <2>8, <2>9
<1>6. CASE MissSnapshotKey(t)
  <2>1. PICK c \in DOMAIN k.snaps, y \in HoldingTasks :
          /\ Goto(t, y) /\ k.pc = "snapshot"
          /\ y.of = c /\ y.snaps = k.snaps /\ y.more = k.more
          /\ history[c][k.snaps[c]].key \notin keys
          /\ UNCHANGED <<stored, blocked>>
    BY <1>1, <1>2, <1>6, MissSnapshotKeyStep DEF store
  <2>2. SUFFICES ASSUME Smooth
                 PROVE  Knows(y)' /\ \A d \in Collections : Due(k, d) => Due(y, d)'
    BY <1>1, <1>2, <1>3, <2>1, ParkGoesOn
  <2>3. y.pc = "hold"
    BY DEF HoldingTasks
  <2>4. Knows(y)'
    BY <1>3, <1>4, <2>1, <2>2, <2>3 DEF Knows, Level, Told
  <2>5. ASSUME NEW d, Due(k, d) PROVE Due(y, d)'
    BY <1>3, <2>1, <2>3, <2>5 DEF Due, Level, Told, Waits, Handles
  <2>6. QED BY <2>4, <2>5
<1>7. CASE ClearSnapshot(t) \/ ParkSnapshot(t)
  <2>1. PICK c : c = k.of
    OBVIOUS
  <2>2. PICK more :
          /\ \/ ClearSnapshot(t) /\ more = k.more
             \/ ParkSnapshot(t) /\ more = k.more \ {c}
          /\ \/ Goto(t, Idle) /\ DOMAIN k.snaps \subseteq {c} /\ more = {}
             \/ \E y \in EmittedTasks :
                   /\ Goto(t, y) /\ y.snaps = Without(k.snaps, {c}) /\ y.more = more
                   /\ DOMAIN y.snaps # {} => y.pc = "snapshot"
    BY <1>1, <1>2, <1>7, <2>1, SnapshotDoneStep
  <2>3. /\ stored' = stored /\ k.pc \in {"clear", "hold"}
        /\ k.pc = "clear" <=> ClearSnapshot(t)
    BY <1>2, <1>7 DEF ClearSnapshot, ParkSnapshot
  <2>4. \A d : d # c /\ Waits(d) => Waits(d)'
    BY <1>2, <1>3, <1>7, <2>1 DEF Waits, ClearSnapshot, ParkSnapshot, Without, With
  <2>5. ASSUME Smooth
        PROVE  Level(c, stored[c].version)' \/ Waits(c)' \/ c \in more
    <3>1. CASE ClearSnapshot(t) /\ more = k.more
      BY <1>3, <1>4, <2>1, <2>3, <2>5, <3>1 DEF Knows, Level, Told
    <3>2. CASE ParkSnapshot(t) /\ more = k.more \ {c}
      <4>1. history[c][k.snaps[c]].key \notin keys
        BY <1>4, <2>1, <2>3, <2>5, <3>2 DEF Knows, ParkSnapshot, ClearSnapshot
      <4>2. QED BY <1>2, <1>3, <2>1, <3>2, <4>1 DEF Waits, ParkSnapshot, With
    <3>3. QED BY <2>2, <3>1, <3>2
  <2>6. ASSUME NEW d, d # c, Handles(k, d)
        PROVE  d \in more \/ d \in DOMAIN k.snaps
    BY <2>1, <2>2, <2>3, <2>6 DEF Handles
  <2>7. CASE Goto(t, Idle) /\ DOMAIN k.snaps \subseteq {c} /\ more = {}
    <3>1. Knows(Idle)'
      BY IdleFresh DEF Knows
    <3>2. ASSUME Smooth, NEW d \in Collections, Due(k, d) PROVE Due(Idle, d)'
      <4>1. CASE d = c
        BY <2>5, <2>7, <3>2, <4>1 DEF Due
      <4>2. CASE d # c
        BY <1>3, <2>3, <2>4, <2>6, <2>7, <3>2, <4>2 DEF Due, Level, Told
      <4>3. QED BY <4>1, <4>2
    <3>3. QED BY <1>1, <1>2, <1>3, <2>7, <3>1, <3>2, ParkGoesOn
  <2>8. CASE \E y \in EmittedTasks :
               /\ Goto(t, y) /\ y.snaps = Without(k.snaps, {c}) /\ y.more = more
               /\ DOMAIN y.snaps # {} => y.pc = "snapshot"
    <3>1. PICK y \in EmittedTasks :
            /\ Goto(t, y) /\ y.snaps = Without(k.snaps, {c}) /\ y.more = more
            /\ DOMAIN y.snaps # {} => y.pc = "snapshot"
      BY <2>8
    <3>2. /\ DOMAIN y.snaps = DOMAIN k.snaps \ {c} /\ y.pc \in {"next", "snapshot"}
          /\ \A d \in DOMAIN k.snaps \ {c} : y.snaps[d] = k.snaps[d]
      BY <3>1 DEF Without, EmittedTasks
    <3>3. SUFFICES ASSUME Smooth
                   PROVE  Knows(y)' /\ \A d \in Collections : Due(k, d) => Due(y, d)'
      BY <1>1, <1>2, <1>3, <3>1, ParkGoesOn
    <3>4. \A d \in DOMAIN y.snaps : d \in y.more \/ Level(d, y.snaps[d])'
      <4>1. \A d \in DOMAIN k.snaps : d \in k.more \/ Level(d, k.snaps[d])'
        BY <1>3, <1>4, <2>3, <3>3 DEF Knows, Level, Told
      <4>2. QED BY <2>2, <3>1, <3>2, <4>1
    <3>5. Knows(y)'
      BY <3>2, <3>4 DEF Knows
    <3>6. ASSUME NEW d \in Collections, Due(k, d) PROVE Due(y, d)'
      <4>1. d \in y.more \/ d \in DOMAIN y.snaps => Due(y, d)'
        BY <3>1, <3>2 DEF Due, Handles
      <4>2. CASE d = c
        BY <2>5, <3>1, <3>3, <4>1, <4>2 DEF Due
      <4>3. CASE d # c
        BY <1>3, <2>3, <2>4, <2>6, <3>1, <3>2, <3>6, <4>1, <4>3 DEF Due, Level, Told
      <4>4. QED BY <4>2, <4>3
    <3>7. QED BY <3>5, <3>6
  <2>9. QED BY <2>2, <2>7, <2>8
<1>8. QED BY <1>5, <1>6, <1>7

\* The client's own patch makes the state it saves the newest.
LEMMA ParkUploads ==
  ASSUME SyncInv, AloneInv, ParkInv, NEW t \in Tasks,
         Upload(t) \/ UploadRefused(t) \/ SaveUpload(t) \/ EmitUpload(t)
  PROVE  ParkInv'
<1>1. SyncTypes /\ Follows(task[t])
  BY DEF SyncInv
<1>2. PICK k : k = task[t]
  OBVIOUS
<1>3. /\ Busy(t) /\ (Smooth' => Smooth) /\ UNCHANGED <<inbox, keys, blocked>>
  BY SmoothStays DEF Upload, UploadRefused, SaveUpload, EmitUpload, Busy, server, store,
                     outcomes, Goto
<1>4. CASE Upload(t)
  <2>1. PICK key \in Keys, m \in Mutations, y \in UploadedTasks :
          /\ Goto(t, y) /\ k \in UploadTasks /\ k.state.version = Len(history[k.of])
          /\ history' = [history EXCEPT ![k.of] = Append(@, Bundle(Newest(k.of), key, m))]
          /\ y.pc = "save" /\ y.of = k.of /\ y.state.version = k.state.version + 1
          /\ UNCHANGED <<shared, inbox, store, bounds, outcomes>>
    BY <1>1, <1>2, <1>4, UploadStep
  <2>2. PICK c, b : c = k.of /\ b = Bundle(Newest(k.of), key, m)
    OBVIOUS
  <2>3. /\ k.pc = "upload" /\ c \in Collections /\ history[c] \in Seq(Patches)
        /\ history' = [history EXCEPT ![c] = Append(@, b)]
    BY <1>1, <2>1, <2>2 DEF UploadTasks, SyncTypes
  <2>4. /\ Len(history'[c]) = Len(history[c]) + 1
        /\ \A d \in Collections \ {c} : history'[d] = history[d]
    BY <1>1, <2>3 DEF SyncTypes
  <2>5. Knows(y)'
    BY <2>1, <2>2, <2>4 DEF Knows, Level
  <2>6. ASSUME NEW d \in Collections, Due(k, d) PROVE Due(y, d)'
    <3>1. CASE d = c
      BY <2>1, <2>2, <3>1 DEF Due, Handles
    <3>2. CASE d # c
      <4>1. ~ Handles(k, d)
        BY <2>3, Idles
      <4>2. QED BY <2>1, <2>4, <2>6, <3>2, <4>1 DEF Due, Level, Told, Waits, store
    <3>3. QED BY <3>1, <3>2
  <2>7. QED BY <1>1, <1>2, <1>3, <2>1, <2>5, <2>6, ParkGoesOn
<1>5. CASE UploadRefused(t) \/ EmitUpload(t)
  <2>1. /\ k.pc \in {"upload", "announce"} /\ Goto(t, Idle)
        /\ UNCHANGED <<history, stored>>
    BY <1>2, <1>5 DEF UploadRefused, EmitUpload, server, store
  <2>2. Knows(Idle)'
    BY IdleFresh DEF Knows
  <2>3. \A c \in Collections : Due(k, c) => Due(Idle, c)'
    BY <1>3, <2>1, Idles DEF Due, Level, Told, Waits
  <2>4. QED BY <1>1, <1>2, <1>3, <2>1, <2>2, <2>3, ParkGoesOn
<1>6. CASE SaveUpload(t)
  <2>1. PICK y \in UploadedTasks :
          /\ Goto(t, y) /\ k \in UploadedTasks /\ k.pc = "save" /\ y.pc = "announce"
          /\ stored' = [stored EXCEPT ![k.of] = k.state]
          /\ UNCHANGED server
    BY <1>1, <1>2, <1>6, SaveUploadStep
  <2>2. /\ k.of \in Collections /\ stored'[k.of] = k.state
        /\ \A d \in Collections \ {k.of} : stored'[d] = stored[d]
    BY <1>1, <2>1 DEF UploadedTasks, SyncTypes
  <2>3. SUFFICES ASSUME Smooth
                 PROVE  Knows(y)' /\ \A c \in Collections : Due(k, c) => Due(y, c)'
    BY <1>1, <1>2, <1>3, <2>1, ParkGoesOn
  <2>4. Level(k.of, k.state.version)
    BY <1>2, <2>1, <2>3 DEF ParkInv, Knows
  <2>5. Knows(y)'
    BY <2>1 DEF Knows
  <2>6. ASSUME NEW c \in Collections, Due(k, c) PROVE Due(y, c)'
    <3>1. CASE c = k.of
      BY <1>3, <2>1, <2>2, <2>4, <3>1 DEF Due, Level, Told, server
    <3>2. CASE c # k.of
      BY <1>3, <2>1, <2>2, <2>6, <3>2 DEF Due, Level, Told, Waits, Handles, server
    <3>3. QED BY <3>1, <3>2
  <2>7. QED BY <2>5, <2>6
<1>7. QED BY <1>4, <1>5, <1>6

LEMMA ParkNext ==
  ASSUME SyncInv, AloneInv, ParkInv, [Next]_vars
  PROVE  ParkInv'
<1>1. CASE OtherDevice \/ ShareKey
  BY <1>1, ParkServer
<1>2. CASE Process \/ \E t \in AppTasks : AppSync(t) \/ AppRetry(t) \/ LoadPrevious(t)
  BY <1>2, ParkCalls DEF Process
<1>3. ASSUME NEW t \in Tasks, Proceed(t)
      PROVE  ParkInv'
  <2>1. CASE Load(t) \/ Answer(t)
    BY <2>1, ParkRequest
  <2>2. CASE ApplyCollection(t) \/ Unpark(t) \/ MissKey(t)
    BY <2>2, ParkPatchMoves
  <2>3. CASE ApplyPatch(t)
    BY <2>3, ParkApplyPatch
  <2>4. CASE Park(t) \/ FinishCollection(t)
    BY <2>4, ParkDone
  <2>5. CASE Emit(t) \/ NextRound(t)
    BY <2>5, ParkEmit
  <2>6. CASE ApplySnapshot(t) \/ MissSnapshotKey(t) \/ ClearSnapshot(t) \/ ParkSnapshot(t)
    BY <2>6, ParkSnapshots
  <2>7. CASE Upload(t) \/ UploadRefused(t) \/ SaveUpload(t) \/ EmitUpload(t)
    BY <2>7, ParkUploads
  <2>8. CASE RejectPatch(t) \/ ExceedRounds(t)
    BY <2>8 DEF RejectPatch, ExceedRounds, Fail, ParkInv, Smooth
  <2>9. QED
    BY <1>3, <2>1, <2>2, <2>3, <2>4, <2>5, <2>6, <2>7, <2>8 DEF Proceed
<1>4. CASE (\E t \in Tasks : TaskFails(t)) \/ Crash
  BY <1>4 DEF TaskFails, Crash, Fail, ParkInv, Smooth
<1>5. CASE UNCHANGED vars
  <2>1. (Smooth' => Smooth) /\ task' = task
    BY <1>5, SmoothStays DEF vars
  <2>2. ASSUME NEW t \in Tasks, Knows(task[t]) PROVE Knows(task[t])'
    BY <1>5, <2>2 DEF vars, Knows, GoesOn, Level, Told
  <2>3. ASSUME NEW t \in Tasks, NEW c, Due(task[t], c) PROVE Due(task[t], c)'
    BY <1>5, <2>3 DEF vars, Due, Level, Told, Waits, Handles
  <2>4. QED BY <2>1, <2>2, <2>3 DEF ParkInv
<1>6. QED BY <1>1, <1>2, <1>3, <1>4, <1>5 DEF Next

LEMMA ParkInit ==
  ASSUME Init
  PROVE  ParkInv
<1>1. Processor \in Tasks
  BY DEF Tasks
<1>2. \A t \in Tasks : task[t].pc = "idle"
  BY IdleFresh DEF Init
<1>3. \A t \in Tasks : Knows(task[t])
  BY <1>2, Idles
<1>4. \A c \in Collections : Level(c, stored[c].version)
  BY EmptyType DEF Init, Level
<1>5. QED BY <1>1, <1>3, <1>4 DEF ParkInv, Due

\* Rounds, pages, snapshots, parked collections, shared keys and uploads, in any order:
\* unless a call failed, two overlapped or a snapshot was left unread, a client at rest
\* has what the server has, except for collections parked for a key it has not.
THEOREM BehindMeansParkedAlways == Spec => []BehindMeansParked
<1>1. SyncInv /\ ParkInv => BehindMeansParked
  <2>1. SUFFICES ASSUME SyncInv, ParkInv, Smooth, inbox = {}, \A t \in Tasks : ~ Busy(t),
                        NEW c \in Collections
                 PROVE  stored[c] = Newest(c) \/ Waits(c)
    BY DEF BehindMeansParked, Waits
  <2>2. PICK t \in Tasks : Due(task[t], c)
    BY <2>1 DEF ParkInv
  <2>3. ~ Handles(task[t], c)
    BY <2>1, Idles DEF Busy
  <2>4. Waits(c) \/ stored[c].version = Len(history[c])
    BY <2>1, <2>2, <2>3 DEF Due, Level, Told
  <2>5. stored[c] = StateAt(c, stored[c].version)
    BY <2>1 DEF SyncInv, StoredIsServers
  <2>6. QED BY <2>4, <2>5 DEF Newest
<1>2. Init => ParkInv
  BY ParkInit
<1>3. Init => AloneInv
  BY AloneInit
<1>4. SyncInv /\ AloneInv /\ ParkInv /\ [Next]_vars => AloneInv' /\ ParkInv'
  BY AloneNext, ParkNext
<1>5. QED BY <1>1, <1>2, <1>3, <1>4, SyncAlways, PTL DEF Spec

=============================================================================
