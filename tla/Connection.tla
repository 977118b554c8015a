----------------------------- MODULE Connection -----------------------------
(***************************************************************************)
(* Connections over a frame transport (wa-core/src/connection.rs) sharing  *)
(* one QueryManager and one EventHub, as the connections of a Client do.   *)
(*                                                                         *)
(* Actors: callers of send_frame / query, callers of close, and for each   *)
(* connection its outbound and inbound task.  A step ends where the code   *)
(* can be preempted: at an await, between two atomic or locked accesses.   *)
(***************************************************************************)
EXTENDS QueryManager, Sequences, Naturals

CONSTANTS Conns, Closers,
          Capacity   \* outbound_capacity of the mpsc channel

ASSUME ConnectionAssumption ==
  /\ Capacity \in Nat \ {0}
  /\ None \notin Conns

VARIABLES stage,    \* connection -> "none", "spawned" (tasks run), "open"
          closed,   \* the AtomicBool
          queue,    \* the mpsc channel
          task,     \* connection -> side -> program counter of the task
          sinkErr,  \* connection -> what the sink failed at
          handle,   \* connection -> side -> is the JoinHandle in its slot
          events,   \* connection -> ConnectionUpdates emitted, in order
          pc, conn,          \* callers: position, connection
          cpc, target, was   \* closers: position, connection, was_closed

connVars == <<stage, closed, queue, task, sinkErr, handle, events>>
callerVars == <<pc, conn>>
closerVars == <<cpc, target, was>>
vars == <<queryVars, connVars, callerVars, closerVars>>

Sides == {"outbound", "inbound"}

\* A queued frame remembers whether it was enqueued after closed was set.
Frames == {"frame", "late"}
Commands == Frames \cup {"close"}

ConnTypeOK ==
  /\ stage \in [Conns -> {"none", "spawned", "open"}]
  /\ closed \in [Conns -> BOOLEAN]
  /\ queue \in [Conns -> Seq(Commands)]
  /\ \A k \in Conns : Len(queue[k]) <= Capacity
  /\ task \in [Conns -> [Sides -> {"none", "recv", "writing", "closing",
                                   "mark", "sweep", "emit", "ended"}]]
  /\ \A k \in Conns, s \in Sides : stage[k] = "none" => task[k][s] = "none"
  /\ sinkErr \in [Conns -> {"none", "write", "close"}]
  /\ handle \in [Conns -> [Sides -> BOOLEAN]]
  /\ events \in [Conns -> Seq({"Open", "Closed"})]

CallerTypeOK ==
  /\ pc \in [Callers -> {"idle", "check", "enqueue", "wait"}]
  /\ conn \in [Callers -> Conns \cup {None}]
  /\ \A c \in Callers : pc[c] # "idle" => conn[c] \in Conns

CloserTypeOK ==
  /\ cpc \in [Closers -> {"idle", "sweep", "command", "takeOut", "joinOut",
                          "takeIn", "joinIn", "emit", "ok", "failed"}]
  /\ target \in [Closers -> Conns \cup {None}]
  /\ \A x \in Closers : cpc[x] # "idle" => target[x] \in Conns
  /\ was \in [Closers -> BOOLEAN]

TypeOK == QueryTypeOK /\ ConnTypeOK /\ CallerTypeOK /\ CloserTypeOK

Init ==
  /\ QueryInit
  /\ stage = [k \in Conns |-> "none"]
  /\ closed = [k \in Conns |-> FALSE]
  /\ queue = [k \in Conns |-> <<>>]
  /\ task = [k \in Conns |-> [s \in Sides |-> "none"]]
  /\ sinkErr = [k \in Conns |-> "none"]
  /\ handle = [k \in Conns |-> [s \in Sides |-> FALSE]]
  /\ events = [k \in Conns |-> <<>>]
  /\ pc = [c \in Callers |-> "idle"]
  /\ conn = [c \in Callers |-> None]
  /\ cpc = [x \in Closers |-> "idle"]
  /\ target = [x \in Closers |-> None]
  /\ was = [x \in Closers |-> FALSE]

Emit(k, e) == events' = [events EXCEPT ![k] = Append(@, e)]

-----------------------------------------------------------------------------
(* spawn: the tasks run before the handles are stored and Open is emitted. *)

SpawnTasks(k) ==
  /\ stage[k] = "none"
  /\ stage' = [stage EXCEPT ![k] = "spawned"]
  /\ task' = [task EXCEPT ![k] = [s \in Sides |-> "recv"]]
  /\ UNCHANGED <<closed, queue, sinkErr, handle, events>>
  /\ UNCHANGED <<queryVars, callerVars, closerVars>>

SpawnReturns(k) ==
  /\ stage[k] = "spawned"
  /\ stage' = [stage EXCEPT ![k] = "open"]
  /\ handle' = [handle EXCEPT ![k] = [s \in Sides |-> TRUE]]
  /\ Emit(k, "Open")
  /\ UNCHANGED <<closed, queue, task, sinkErr>>
  /\ UNCHANGED <<queryVars, callerVars, closerVars>>

-----------------------------------------------------------------------------
(* Callers: send_frame, query, query_node.                                 *)

Return(c) ==
  /\ pc' = [pc EXCEPT ![c] = "idle"]
  /\ conn' = [conn EXCEPT ![c] = None]

\* An error before wait() completes drops the QueryWaiter, if there is one.
DropWaiter(c) == IF tag[c] = None THEN UNCHANGED queryVars ELSE RemoveWaiter(c)

StartSend(c, k) ==
  /\ pc[c] = "idle" /\ stage[k] = "open"
  /\ pc' = [pc EXCEPT ![c] = "check"]
  /\ conn' = [conn EXCEPT ![c] = k]
  /\ UNCHANGED <<queryVars, connVars, closerVars>>

StartQuery(c, k, t) ==
  /\ pc[c] = "idle" /\ stage[k] = "open"
  /\ NextTag(t)
  /\ Register(c, t)
  /\ pc' = [pc EXCEPT ![c] = "check"]
  /\ conn' = [conn EXCEPT ![c] = k]
  /\ UNCHANGED <<connVars, closerVars>>

StartDuplicate(c, k, t) ==
  /\ pc[c] = "idle" /\ stage[k] = "open"
  /\ NextTag(t)
  /\ RegisterDuplicate(c, t)
  /\ UNCHANGED <<pc, conn, connVars, closerVars>>

\* Mutant: send_frame does not look at closed.
UncheckedSend(c) ==
  /\ pc[c] = "check"
  /\ pc' = [pc EXCEPT ![c] = "enqueue"]
  /\ UNCHANGED <<conn, queryVars, connVars, closerVars>>

CheckClosed(c) ==
  /\ pc[c] = "check"
  /\ \/ /\ closed[conn[c]]
        /\ DropWaiter(c)
        /\ Return(c)
     \/ /\ ~closed[conn[c]]
        /\ pc' = [pc EXCEPT ![c] = "enqueue"]
        /\ UNCHANGED <<conn, queryVars>>
  /\ UNCHANGED <<connVars, closerVars>>

\* The channel accepts a frame while the outbound task keeps the receiver.
Enqueue(c) ==
  LET k == conn[c] IN
  /\ pc[c] = "enqueue"
  /\ task[k]["outbound"] # "ended"
  /\ Len(queue[k]) < Capacity
  /\ queue' = [queue EXCEPT ![k] = Append(@, IF closed[k] THEN "late" ELSE "frame")]
  /\ \/ /\ tag[c] = None
        /\ Return(c)
     \/ /\ tag[c] # None
        /\ pc' = [pc EXCEPT ![c] = "wait"]
        /\ UNCHANGED conn
  /\ UNCHANGED <<stage, closed, task, sinkErr, handle, events>>
  /\ UNCHANGED <<queryVars, closerVars>>

EnqueueFails(c) ==
  /\ pc[c] = "enqueue"
  /\ task[conn[c]]["outbound"] = "ended"
  /\ DropWaiter(c)
  /\ Return(c)
  /\ UNCHANGED <<connVars, closerVars>>

WaitReturns(c) ==
  /\ pc[c] = "wait" /\ rx[c] # "open"
  /\ Complete(c)
  /\ Return(c)
  /\ UNCHANGED <<connVars, closerVars>>

\* tokio::time::timeout polls the receiver first: only an open one elapses.
WaitTimesOut(c) ==
  /\ pc[c] = "wait" /\ rx[c] = "open"
  /\ RemoveWaiter(c)
  /\ Return(c)
  /\ UNCHANGED <<connVars, closerVars>>

\* The caller's future is dropped at one of its two awaits.
Cancel(c) ==
  /\ pc[c] \in {"enqueue", "wait"}
  /\ DropWaiter(c)
  /\ Return(c)
  /\ UNCHANGED <<connVars, closerVars>>

-----------------------------------------------------------------------------
(* The two tasks of a connection.                                          *)

SetTask(k, s, p) == task' = [task EXCEPT ![k][s] = p]

OutboundRecv(k) ==
  /\ task[k]["outbound"] = "recv" /\ queue[k] # <<>>
  /\ queue' = [queue EXCEPT ![k] = Tail(@)]
  /\ SetTask(k, "outbound", IF Head(queue[k]) = "close" THEN "closing" ELSE "writing")
  /\ UNCHANGED <<stage, closed, sinkErr, handle, events>>
  /\ UNCHANGED <<queryVars, callerVars, closerVars>>

SinkSend(k) ==
  /\ task[k]["outbound"] = "writing"
  /\ \/ SetTask(k, "outbound", "recv") /\ UNCHANGED sinkErr
     \/ SetTask(k, "outbound", "mark") /\ sinkErr' = [sinkErr EXCEPT ![k] = "write"]
  /\ UNCHANGED <<stage, closed, queue, handle, events>>
  /\ UNCHANGED <<queryVars, callerVars, closerVars>>

SinkClose(k) ==
  /\ task[k]["outbound"] = "closing"
  /\ SetTask(k, "outbound", "mark")
  /\ \/ UNCHANGED sinkErr
     \/ sinkErr' = [sinkErr EXCEPT ![k] = "close"]
  /\ UNCHANGED <<stage, closed, queue, handle, events>>
  /\ UNCHANGED <<queryVars, callerVars, closerVars>>

\* A frame that resolves no query is emitted as RawNode or Frame, which is no
\* state of this model.
InboundFrame(k, t, id) ==
  /\ task[k]["inbound"] = "recv"
  /\ Resolve(t, id)
  /\ UNCHANGED <<connVars, callerVars, closerVars>>

\* recv() answered None or an error.
InboundEnds(k) ==
  /\ task[k]["inbound"] = "recv"
  /\ SetTask(k, "inbound", "mark")
  /\ UNCHANGED <<stage, closed, queue, sinkErr, handle, events>>
  /\ UNCHANGED <<queryVars, callerVars, closerVars>>

\* Mutant: mark_closed ignores that somebody else closed first.
MarkAlways(k, s) ==
  /\ task[k][s] = "mark"
  /\ closed' = [closed EXCEPT ![k] = TRUE]
  /\ SetTask(k, s, "sweep")
  /\ UNCHANGED <<stage, queue, sinkErr, handle, events>>
  /\ UNCHANGED <<queryVars, callerVars, closerVars>>

\* mark_closed: swap, then only for the first: close_pending, emit Closed.
MarkSwap(k, s) ==
  /\ task[k][s] = "mark"
  /\ closed' = [closed EXCEPT ![k] = TRUE]
  /\ SetTask(k, s, IF closed[k] THEN "ended" ELSE "sweep")
  /\ UNCHANGED <<stage, queue, sinkErr, handle, events>>
  /\ UNCHANGED <<queryVars, callerVars, closerVars>>

\* Mutant: mark_closed leaves the pending queries alone.
MarkWithoutSweep(k, s) ==
  /\ task[k][s] = "sweep"
  /\ SetTask(k, s, "emit")
  /\ UNCHANGED <<stage, closed, queue, sinkErr, handle, events>>
  /\ UNCHANGED <<queryVars, callerVars, closerVars>>

MarkSweep(k, s) ==
  /\ task[k][s] = "sweep"
  /\ ClosePending
  /\ SetTask(k, s, "emit")
  /\ UNCHANGED <<stage, closed, queue, sinkErr, handle, events>>
  /\ UNCHANGED <<callerVars, closerVars>>

MarkEmit(k, s) ==
  /\ task[k][s] = "emit"
  /\ Emit(k, "Closed")
  /\ SetTask(k, s, "ended")
  /\ UNCHANGED <<stage, closed, queue, sinkErr, handle>>
  /\ UNCHANGED <<queryVars, callerVars, closerVars>>

-----------------------------------------------------------------------------
(* close().                                                                *)

Goto(x, p) == cpc' = [cpc EXCEPT ![x] = p]

CloseSwap(x, k) ==
  /\ cpc[x] = "idle" /\ stage[k] = "open"
  /\ closed' = [closed EXCEPT ![k] = TRUE]
  /\ was' = [was EXCEPT ![x] = closed[k]]
  /\ target' = [target EXCEPT ![x] = k]
  /\ Goto(x, "sweep")
  /\ UNCHANGED <<stage, queue, task, sinkErr, handle, events>>
  /\ UNCHANGED <<queryVars, callerVars>>

CloseSweep(x) ==
  /\ cpc[x] = "sweep"
  /\ ClosePending
  /\ Goto(x, "command")
  /\ UNCHANGED <<target, was, connVars, callerVars>>

\* Mutant: the Close command overtakes the queued frames.
CloseOvertakes(x) ==
  LET k == target[x] IN
  /\ cpc[x] = "command"
  /\ \/ /\ task[k]["outbound"] # "ended"
        /\ Len(queue[k]) < Capacity
        /\ queue' = [queue EXCEPT ![k] = <<"close">> \o @]
     \/ /\ task[k]["outbound"] = "ended"
        /\ UNCHANGED queue
  /\ Goto(x, "takeOut")
  /\ UNCHANGED <<stage, closed, task, sinkErr, handle, events>>
  /\ UNCHANGED <<target, was, queryVars, callerVars>>

CloseCommand(x) ==
  LET k == target[x] IN
  /\ cpc[x] = "command"
  /\ \/ /\ task[k]["outbound"] # "ended"
        /\ Len(queue[k]) < Capacity
        /\ queue' = [queue EXCEPT ![k] = Append(@, "close")]
     \/ /\ task[k]["outbound"] = "ended"
        /\ UNCHANGED queue
  /\ Goto(x, "takeOut")
  /\ UNCHANGED <<stage, closed, task, sinkErr, handle, events>>
  /\ UNCHANGED <<target, was, queryVars, callerVars>>

\* take_task empties the slot: only one closer joins each task.
CloseTake(x, s, from, joining, skip) ==
  LET k == target[x] IN
  /\ cpc[x] = from
  /\ handle' = [handle EXCEPT ![k][s] = FALSE]
  /\ Goto(x, IF handle[k][s] THEN joining ELSE skip)
  /\ UNCHANGED <<stage, closed, queue, task, sinkErr, events>>
  /\ UNCHANGED <<target, was, queryVars, callerVars>>

\* Mutant: close() does not join the outbound task.
CloseWithoutJoin(x) == CloseTake(x, "outbound", "takeOut", "takeIn", "takeIn")

CloseTakeOutbound(x) == CloseTake(x, "outbound", "takeOut", "joinOut", "takeIn")
CloseTakeInbound(x) == CloseTake(x, "inbound", "takeIn", "joinIn", "emit")

\* The error of the joined task is close()'s own: it returns at once.
CloseJoinOutbound(x) ==
  /\ cpc[x] = "joinOut"
  /\ task[target[x]]["outbound"] = "ended"
  /\ Goto(x, IF sinkErr[target[x]] = "none" THEN "takeIn" ELSE "failed")
  /\ UNCHANGED <<target, was, connVars, queryVars, callerVars>>

\* Mutant: close() awaits the inbound task without aborting it.
CloseWithoutAbort(x) ==
  /\ cpc[x] = "joinIn"
  /\ task[target[x]]["inbound"] = "ended"
  /\ Goto(x, "emit")
  /\ UNCHANGED <<target, was, connVars, queryVars, callerVars>>

\* An aborted task ends at its await; mark_closed has none and completes.
CloseJoinInbound(x) ==
  LET k == target[x] IN
  /\ cpc[x] = "joinIn"
  /\ task[k]["inbound"] \in {"recv", "ended"}
  /\ SetTask(k, "inbound", "ended")
  /\ Goto(x, "emit")
  /\ UNCHANGED <<stage, closed, queue, sinkErr, handle, events>>
  /\ UNCHANGED <<target, was, queryVars, callerVars>>

\* Mutant: close() never emits, trusting mark_closed to do so.
CloseSilently(x) ==
  /\ cpc[x] = "emit"
  /\ Goto(x, "ok")
  /\ UNCHANGED <<target, was, connVars, queryVars, callerVars>>

CloseEmit(x) ==
  /\ cpc[x] = "emit"
  /\ IF was[x] THEN UNCHANGED events ELSE Emit(target[x], "Closed")
  /\ Goto(x, "ok")
  /\ UNCHANGED <<stage, closed, queue, task, sinkErr, handle>>
  /\ UNCHANGED <<target, was, queryVars, callerVars>>

-----------------------------------------------------------------------------
CallerNext(c) ==
  \/ \E k \in Conns : StartSend(c, k)
  \/ \E k \in Conns, t \in Tags : StartQuery(c, k, t)
  \/ \E k \in Conns, t \in Tags : StartDuplicate(c, k, t)
  \/ CheckClosed(c)
  \/ Enqueue(c)
  \/ EnqueueFails(c)
  \/ WaitReturns(c)
  \/ WaitTimesOut(c)
  \/ Cancel(c)

TaskNext(k) ==
  \/ SpawnTasks(k)
  \/ SpawnReturns(k)
  \/ OutboundRecv(k)
  \/ SinkSend(k)
  \/ SinkClose(k)
  \/ \E t, id \in Tags \cup {None} : InboundFrame(k, t, id)
  \/ InboundEnds(k)
  \/ \E s \in Sides : MarkSwap(k, s) \/ MarkSweep(k, s) \/ MarkEmit(k, s)

CloserNext(x) ==
  \/ \E k \in Conns : CloseSwap(x, k)
  \/ CloseSweep(x)
  \/ CloseCommand(x)
  \/ CloseTakeOutbound(x)
  \/ CloseJoinOutbound(x)
  \/ CloseTakeInbound(x)
  \/ CloseJoinInbound(x)
  \/ CloseEmit(x)

Next ==
  \/ \E c \in Callers : CallerNext(c)
  \/ \E k \in Conns : TaskNext(k)
  \/ \E x \in Closers : CloserNext(x)

Spec == Init /\ [][Next]_vars

\* The runtime polls every ready task, and the sink's futures complete.  No
\* fairness for the application's calls, for what the server sends, for the
\* end of the stream, for a timeout or for a cancellation.
Fairness ==
  /\ \A c \in Callers : WF_vars(CheckClosed(c) \/ Enqueue(c) \/ EnqueueFails(c)
                                \/ WaitReturns(c))
  /\ \A k \in Conns :
       /\ WF_vars(SpawnReturns(k))
       /\ WF_vars(OutboundRecv(k) \/ SinkSend(k) \/ SinkClose(k))
       /\ \A s \in Sides : WF_vars(MarkSwap(k, s) \/ MarkSweep(k, s) \/ MarkEmit(k, s))
  /\ \A x \in Closers :
       WF_vars(CloseSweep(x) \/ CloseCommand(x) \/ CloseTakeOutbound(x)
               \/ CloseJoinOutbound(x) \/ CloseTakeInbound(x)
               \/ CloseJoinInbound(x) \/ CloseEmit(x))

FairSpec == Spec /\ Fairness

-----------------------------------------------------------------------------
(* Safety.                                                                 *)

\* A caller that still listens can be woken: its sender is in the table, under
\* its own tag (register, resolve, close_pending and removal by tag together).
WaiterReachable ==
  \A c \in Callers : rx[c] = "open" => tag[c] \in Tags /\ waiters[tag[c]] = c

\* The connection was closed and its closing call has failed the queries.
Swept(k) ==
  /\ closed[k]
  /\ \A s \in Sides : task[k][s] # "sweep"
  /\ \A x \in Closers : target[x] = k => was[x] \/ cpc[x] # "sweep"

\* No query slips past a close: once the closing call has run close_pending, a
\* query of that connection that passed send_frame's check is not listening
\* any more.  This is why query() registers before send_frame reads closed.
NoQueryOutlivesClose ==
  \A c \in Callers :
    pc[c] \in {"enqueue", "wait"} /\ Swept(conn[c]) => rx[c] # "open"

\* A frame accepted before closed was set is written unless a write fails: when
\* the outbound task goes to close the sink, only late frames are left behind.
FlushBeforeClose ==
  \A k \in Conns :
    task[k]["outbound"] \in {"closing", "mark", "sweep", "emit", "ended"}
    /\ sinkErr[k] # "write"
      => \A i \in 1..Len(queue[k]) : queue[k][i] # "frame"

\* Subscribers see at most one Closed for a connection, whoever closes it.
ClosedOnce ==
  \A k \in Conns : \A i, j \in 1..Len(events[k]) :
    events[k][i] = "Closed" /\ events[k][j] = "Closed" => i = j

Announced(k) == \E i \in 1..Len(events[k]) : events[k][i] = "Closed"

\* When the only close() of a connection answers Ok, both tasks have ended and
\* Closed has been emitted.
CloseOkMeansDown ==
  \A x \in Closers :
    cpc[x] = "ok" /\ (\A y \in Closers \ {x} : target[y] # target[x])
      => /\ \A s \in Sides : task[target[x]][s] = "ended"
         /\ Announced(target[x])

\* A query fails with ConnectionClosed for no other reason than a close: while
\* every tag comes from next_tag, a receiver is closed only after a connection
\* sharing the table was.
ClosedResultIsReal ==
  ExplicitTags = {} =>
    \A c \in Callers : rx[c] = "closed" => \E k \in Conns : closed[k]

-----------------------------------------------------------------------------
(* Liveness.                                                               *)

\* Every call on a closed connection returns, even without a query timeout.
CallsReturnAfterClose ==
  \A c \in Callers :
    (pc[c] # "idle" /\ closed[conn[c]]) ~> (pc[c] = "idle")

\* close() returns, whatever the callers, the sink and the peer do.
CloseReturns ==
  \A x \in Closers : (cpc[x] # "idle") ~> (cpc[x] \in {"ok", "failed"})

\* A closed connection is announced unless its sink failed.
ClosedAnnouncedUnlessSinkFails ==
  \A k \in Conns : closed[k] ~> (Announced(k) \/ sinkErr[k] # "none")
=============================================================================
