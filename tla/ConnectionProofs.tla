-------------------------- MODULE ConnectionProofs --------------------------
(***************************************************************************)
(* Invariance proofs for Connection, for every set of callers, closers,    *)
(* connections and tags and every capacity.                                *)
(***************************************************************************)
EXTENDS Connection, TLAPS

-----------------------------------------------------------------------------
(* Type correctness.                                                       *)

LEMMA TypeInit == Init => TypeOK
BY QueryAssumption, ConnectionAssumption
DEF Init, QueryInit, TypeOK, QueryTypeOK, ConnTypeOK, CallerTypeOK, CloserTypeOK,
    Tags, Commands, Frames, Sides

LEMMA DropWaiterType ==
  ASSUME QueryTypeOK, CallerTypeOK, NEW c \in Callers, DropWaiter(c), Return(c)
  PROVE  QueryTypeOK' /\ CallerTypeOK'
<1> USE DEF QueryTypeOK, CallerTypeOK, Return, queryVars
<1>1. CASE tag[c] = None BY <1>1 DEF DropWaiter
<1>2. CASE tag[c] # None BY <1>2 DEF DropWaiter, RemoveWaiter, Dropped
<1>3. QED BY <1>1, <1>2

LEMMA CallerType ==
  ASSUME TypeOK, NEW c \in Callers, CallerNext(c)
  PROVE  TypeOK'
<1> USE DEF TypeOK
<1>1. CloserTypeOK'
  BY DEF CloserTypeOK, CallerNext, StartSend, StartQuery, StartDuplicate, CheckClosed,
         Enqueue, EnqueueFails, WaitReturns, WaitTimesOut, Cancel, closerVars
<1>2. ConnTypeOK'
  <2>1. CASE Enqueue(c)
    BY <2>1, ConnectionAssumption DEF Enqueue, ConnTypeOK, CallerTypeOK, Commands, Frames
  <2>2. CASE UNCHANGED connVars
    BY <2>2 DEF connVars, ConnTypeOK
  <2>3. QED
    BY <2>1, <2>2 DEF CallerNext, StartSend, StartQuery, StartDuplicate, CheckClosed,
                      EnqueueFails, WaitReturns, WaitTimesOut, Cancel
<1>3. QueryTypeOK' /\ CallerTypeOK'
  <2> USE DEF QueryTypeOK, CallerTypeOK
  <2>1. CASE \E k \in Conns : StartSend(c, k)
    BY <2>1 DEF StartSend, queryVars
  <2>2. CASE \E k \in Conns, t \in Tags : StartQuery(c, k, t)
    BY <2>2 DEF StartQuery, NextTag, Register
  <2>3. CASE \E k \in Conns, t \in Tags : StartDuplicate(c, k, t)
    BY <2>3 DEF StartDuplicate, NextTag, RegisterDuplicate, Dropped
  <2>4. CASE DropWaiter(c) /\ Return(c)
    BY <2>4, DropWaiterType
  <2>5. CASE CheckClosed(c)
    BY <2>4, <2>5 DEF CheckClosed, queryVars
  <2>6. CASE Enqueue(c)
    BY <2>6 DEF Enqueue, Return, queryVars
  <2>7. CASE WaitReturns(c)
    BY <2>7 DEF WaitReturns, Complete, Return
  <2>8. CASE WaitTimesOut(c)
    BY <2>8 DEF WaitTimesOut, RemoveWaiter, Dropped, Return
  <2>9. QED
    BY <2>1, <2>2, <2>3, <2>4, <2>5, <2>6, <2>7, <2>8 DEF CallerNext, EnqueueFails, Cancel
<1>4. QED BY <1>1, <1>2, <1>3

LEMMA TaskType ==
  ASSUME TypeOK, NEW k \in Conns, TaskNext(k)
  PROVE  TypeOK'
<1> USE DEF TypeOK
<1>1. CallerTypeOK' /\ CloserTypeOK'
  BY DEF CallerTypeOK, CloserTypeOK, TaskNext, SpawnTasks, SpawnReturns, OutboundRecv,
         SinkSend, SinkClose, InboundFrame, InboundEnds, MarkSwap, MarkSweep, MarkEmit,
         callerVars, closerVars
<1>2. QueryTypeOK'
  <2>1. CASE \E t, id \in Tags \cup {None} : InboundFrame(k, t, id)
    BY <2>1 DEF InboundFrame, Resolve, QueryTypeOK
  <2>2. CASE \E s \in Sides : MarkSweep(k, s)
    BY <2>2 DEF MarkSweep, ClosePending, Dropped, QueryTypeOK
  <2>3. CASE UNCHANGED queryVars
    BY <2>3 DEF queryVars, QueryTypeOK
  <2>4. QED
    BY <2>1, <2>2, <2>3 DEF TaskNext, SpawnTasks, SpawnReturns, OutboundRecv, SinkSend,
                            SinkClose, InboundEnds, MarkSwap, MarkEmit
<1>3. ConnTypeOK'
  <2> USE DEF ConnTypeOK, Commands, Frames, SetTask, Sides, Emit
  <2>1. CASE SpawnTasks(k) BY <2>1 DEF SpawnTasks
  <2>2. CASE SpawnReturns(k) BY <2>2 DEF SpawnReturns
  <2>3. CASE OutboundRecv(k) BY <2>3, ConnectionAssumption DEF OutboundRecv
  <2>4. CASE SinkSend(k)
    <3>1. CASE SetTask(k, "outbound", "recv") /\ UNCHANGED sinkErr
      BY <2>4, <3>1 DEF SinkSend
    <3>2. CASE SetTask(k, "outbound", "mark") /\ sinkErr' = [sinkErr EXCEPT ![k] = "write"]
      BY <2>4, <3>2 DEF SinkSend
    <3>3. QED BY <2>4, <3>1, <3>2 DEF SinkSend
  <2>5. CASE SinkClose(k) BY <2>5 DEF SinkClose
  <2>6. CASE \E t, id \in Tags \cup {None} : InboundFrame(k, t, id)
    BY <2>6 DEF InboundFrame, connVars
  <2>7. CASE InboundEnds(k) BY <2>7 DEF InboundEnds
  <2>8. ASSUME NEW s \in Sides, MarkSwap(k, s) PROVE ConnTypeOK'
    BY <2>8 DEF MarkSwap
  <2>9. ASSUME NEW s \in Sides, MarkSweep(k, s) PROVE ConnTypeOK'
    BY <2>9 DEF MarkSweep
  <2>10. ASSUME NEW s \in Sides, MarkEmit(k, s) PROVE ConnTypeOK'
    BY <2>10 DEF MarkEmit
  <2>11. QED
    BY <2>1, <2>2, <2>3, <2>4, <2>5, <2>6, <2>7, <2>8, <2>9, <2>10 DEF TaskNext
<1>4. QED BY <1>1, <1>2, <1>3

LEMMA CloserType ==
  ASSUME TypeOK, NEW x \in Closers, CloserNext(x)
  PROVE  TypeOK'
<1> USE DEF TypeOK
<1>1. CallerTypeOK'
  BY DEF CallerTypeOK, CloserNext, CloseSwap, CloseSweep, CloseCommand, CloseTakeOutbound,
         CloseTakeInbound, CloseTake, CloseJoinOutbound, CloseJoinInbound, CloseEmit, callerVars
<1>2. QueryTypeOK'
  <2>1. CASE CloseSweep(x)
    BY <2>1 DEF CloseSweep, ClosePending, Dropped, QueryTypeOK
  <2>2. CASE UNCHANGED queryVars
    BY <2>2 DEF queryVars, QueryTypeOK
  <2>3. QED
    BY <2>1, <2>2 DEF CloserNext, CloseSwap, CloseCommand, CloseTakeOutbound, CloseTakeInbound,
                      CloseTake, CloseJoinOutbound, CloseJoinInbound, CloseEmit
<1>3. CloserTypeOK'
  <2> USE DEF CloserTypeOK, Goto
  <2>1. CASE \E k \in Conns : CloseSwap(x, k) BY <2>1 DEF CloseSwap, ConnTypeOK
  <2>2. CASE CloseSweep(x) BY <2>2 DEF CloseSweep
  <2>3. CASE CloseCommand(x) BY <2>3 DEF CloseCommand
  <2>4. CASE CloseTakeOutbound(x) BY <2>4 DEF CloseTakeOutbound, CloseTake
  <2>5. CASE CloseJoinOutbound(x) BY <2>5 DEF CloseJoinOutbound
  <2>6. CASE CloseTakeInbound(x) BY <2>6 DEF CloseTakeInbound, CloseTake
  <2>7. CASE CloseJoinInbound(x) BY <2>7 DEF CloseJoinInbound
  <2>8. CASE CloseEmit(x) BY <2>8 DEF CloseEmit
  <2>9. QED BY <2>1, <2>2, <2>3, <2>4, <2>5, <2>6, <2>7, <2>8 DEF CloserNext
<1>4. ConnTypeOK'
  <2> USE DEF ConnTypeOK, CloserTypeOK
  <2>1. CASE \E k \in Conns : CloseSwap(x, k) BY <2>1 DEF CloseSwap
  <2>2. CASE CloseCommand(x)
    <3>1. CASE queue' = [queue EXCEPT ![target[x]] = Append(@, "close")]
               /\ Len(queue[target[x]]) < Capacity
      BY <2>2, <3>1, ConnectionAssumption DEF CloseCommand, Commands
    <3>2. CASE UNCHANGED queue BY <2>2, <3>2 DEF CloseCommand
    <3>3. QED BY <2>2, <3>1, <3>2 DEF CloseCommand
  <2>3. CASE CloseTakeOutbound(x) BY <2>3 DEF CloseTakeOutbound, CloseTake, Sides
  <2>4. CASE CloseTakeInbound(x) BY <2>4 DEF CloseTakeInbound, CloseTake, Sides
  <2>5. CASE CloseJoinInbound(x) BY <2>5 DEF CloseJoinInbound, SetTask, Sides
  <2>6. CASE CloseEmit(x)
    <3>1. CASE was[x] BY <2>6, <3>1 DEF CloseEmit
    <3>2. CASE ~was[x]
      <4>1. Emit(target[x], "Closed") /\ target[x] \in Conns BY <2>6, <3>2 DEF CloseEmit
      <4>2. events' \in [Conns -> Seq({"Open", "Closed"})] BY <4>1 DEF Emit
      <4>3. QED BY <2>6, <4>2 DEF CloseEmit
    <3>3. QED BY <3>1, <3>2
  <2>7. CASE UNCHANGED connVars BY <2>7 DEF connVars
  <2>8. QED
    BY <2>1, <2>2, <2>3, <2>4, <2>5, <2>6, <2>7 DEF CloserNext, CloseSweep, CloseJoinOutbound
<1>5. QED BY <1>1, <1>2, <1>3, <1>4

\* Every reachable state has the declared types, and the outbound channel
\* never holds more than outbound_capacity commands.
THEOREM TypeCorrect == Spec => []TypeOK
<1>1. TypeOK /\ [Next]_vars => TypeOK'
  <2> SUFFICES ASSUME TypeOK, [Next]_vars PROVE TypeOK' OBVIOUS
  <2>1. CASE Next BY <2>1, CallerType, TaskType, CloserType DEF Next
  <2>2. CASE UNCHANGED vars
    BY <2>2 DEF vars, queryVars, connVars, callerVars, closerVars, TypeOK, QueryTypeOK,
                ConnTypeOK, CallerTypeOK, CloserTypeOK
  <2>3. QED BY <2>1, <2>2
<1>2. QED BY <1>1, TypeInit, PTL DEF Spec

-----------------------------------------------------------------------------
(* The query table.  Each entry of a caller and the caller's receiver      *)
(* determine one another, and only a caller inside a query has a receiver. *)

\* An entry that names a caller is that caller's, and the caller listens.
EntriesLive ==
  \A t \in Tags : waiters[t] \in Callers =>
    rx[waiters[t]] = "open" /\ tag[waiters[t]] = t

\* A caller has a QueryWaiter exactly while it has a tag, and never when idle.
WaiterShape ==
  \A c \in Callers : /\ tag[c] = None <=> rx[c] = "none"
                     /\ pc[c] = "idle" => tag[c] = None
                     /\ pc[c] = "wait" => tag[c] # None

QueryInv == EntriesLive /\ WaiterReachable /\ WaiterShape

LEMMA RemoveWaiterInv ==
  ASSUME TypeOK, QueryInv, NEW c \in Callers, tag[c] # None,
         RemoveWaiter(c), Return(c)
  PROVE  QueryInv'
<1> USE QueryAssumption DEF TypeOK, QueryTypeOK, CallerTypeOK, RemoveWaiter, Dropped, Return, QueryInv
<1>1. EntriesLive' BY DEF EntriesLive, WaiterReachable
<1>2. WaiterReachable' BY DEF EntriesLive, WaiterReachable
<1>3. WaiterShape' BY DEF WaiterShape
<1>4. QED BY <1>1, <1>2, <1>3

LEMMA DropWaiterInv ==
  ASSUME TypeOK, QueryInv, NEW c \in Callers, DropWaiter(c), Return(c)
  PROVE  QueryInv'
<1>1. CASE tag[c] = None
  BY <1>1 DEF DropWaiter, Return, queryVars, TypeOK, CallerTypeOK, QueryInv, EntriesLive,
              WaiterReachable, WaiterShape
<1>2. CASE tag[c] # None
  BY <1>2, RemoveWaiterInv DEF DropWaiter
<1>3. QED BY <1>1, <1>2

LEMMA ClosePendingInv ==
  ASSUME TypeOK, QueryInv, ClosePending, UNCHANGED callerVars
  PROVE  QueryInv' /\ (\A c \in Callers : rx'[c] # "open")
<1> USE QueryAssumption DEF TypeOK, QueryTypeOK, CallerTypeOK, ClosePending, Dropped, callerVars, QueryInv
<1>1. \A c \in Callers : rx'[c] # "open" BY DEF WaiterReachable
<1>2. EntriesLive' BY DEF EntriesLive
<1>3. WaiterReachable' BY <1>1 DEF WaiterReachable
<1>4. WaiterShape' BY DEF WaiterShape
<1>5. QED BY <1>1, <1>2, <1>3, <1>4

LEMMA QueryCaller ==
  ASSUME TypeOK, QueryInv, NEW c \in Callers, CallerNext(c)
  PROVE  QueryInv'
<1> USE QueryAssumption DEF TypeOK, QueryTypeOK, CallerTypeOK
<1>1. CASE \E k \in Conns : StartSend(c, k)
  BY <1>1 DEF StartSend, queryVars, QueryInv, EntriesLive, WaiterReachable, WaiterShape
<1>2. ASSUME NEW k \in Conns, NEW t \in Tags, StartQuery(c, k, t) PROVE QueryInv'
  <2> USE <1>2 DEF StartQuery, Register, QueryInv
  <2>1. EntriesLive' BY DEF EntriesLive, WaiterShape
  <2>2. WaiterReachable' BY DEF WaiterReachable
  <2>3. WaiterShape' BY DEF WaiterShape, Tags
  <2>4. QED BY <2>1, <2>2, <2>3
<1>3. ASSUME NEW k \in Conns, NEW t \in Tags, StartDuplicate(c, k, t) PROVE QueryInv'
  <2> USE <1>3 DEF StartDuplicate, RegisterDuplicate, Dropped, QueryInv
  <2>1. EntriesLive' BY DEF EntriesLive, WaiterShape
  <2>2. WaiterReachable' BY DEF WaiterReachable
  <2>3. WaiterShape' BY DEF WaiterShape
  <2>4. QED BY <2>1, <2>2, <2>3
<1>4. CASE CheckClosed(c)
  <2>1. CASE DropWaiter(c) /\ Return(c) BY <2>1, DropWaiterInv
  <2>2. CASE pc' = [pc EXCEPT ![c] = "enqueue"] /\ UNCHANGED <<conn, queryVars>>
    BY <1>4, <2>2 DEF CheckClosed, queryVars, QueryInv, EntriesLive, WaiterReachable, WaiterShape
  <2>3. QED BY <1>4, <2>1, <2>2 DEF CheckClosed
<1>5. CASE Enqueue(c)
  BY <1>5 DEF Enqueue, Return, queryVars, QueryInv, EntriesLive, WaiterReachable, WaiterShape
<1>6. CASE EnqueueFails(c)
  BY <1>6, DropWaiterInv DEF EnqueueFails
<1>7. CASE WaitReturns(c)
  <2> USE <1>7 DEF WaitReturns, Complete, Return, QueryInv
  <2>1. EntriesLive' BY DEF EntriesLive
  <2>2. WaiterReachable' BY DEF WaiterReachable
  <2>3. WaiterShape' BY DEF WaiterShape
  <2>4. QED BY <2>1, <2>2, <2>3
<1>8. CASE WaitTimesOut(c)
  BY <1>8, RemoveWaiterInv DEF WaitTimesOut, QueryInv, WaiterShape
<1>9. CASE Cancel(c)
  BY <1>9, DropWaiterInv DEF Cancel
<1>10. QED
  BY <1>1, <1>2, <1>3, <1>4, <1>5, <1>6, <1>7, <1>8, <1>9 DEF CallerNext

LEMMA QueryStutter ==
  ASSUME QueryInv, UNCHANGED <<queryVars, callerVars>>
  PROVE  QueryInv'
BY DEF queryVars, callerVars, QueryInv, EntriesLive, WaiterReachable, WaiterShape

LEMMA QueryTask ==
  ASSUME TypeOK, QueryInv, NEW k \in Conns, TaskNext(k)
  PROVE  QueryInv'
<1>1. ASSUME NEW t \in Tags \cup {None}, NEW id \in Tags \cup {None}, InboundFrame(k, t, id)
      PROVE  QueryInv'
  <2> USE <1>1, QueryAssumption
      DEF InboundFrame, Resolve, callerVars, TypeOK, QueryTypeOK, CallerTypeOK, QueryInv
  <2>1. EntriesLive' BY DEF EntriesLive, Resolves
  <2>2. WaiterReachable' BY DEF WaiterReachable, EntriesLive, Resolves
  <2>3. WaiterShape' BY DEF WaiterShape, EntriesLive
  <2>4. QED BY <2>1, <2>2, <2>3
<1>2. ASSUME NEW s \in Sides, MarkSweep(k, s) PROVE QueryInv'
  BY <1>2, ClosePendingInv DEF MarkSweep
<1>3. QED
  BY <1>1, <1>2, QueryStutter
  DEF TaskNext, SpawnTasks, SpawnReturns, OutboundRecv, SinkSend, SinkClose,
      InboundEnds, MarkSwap, MarkEmit

LEMMA QueryCloser ==
  ASSUME TypeOK, QueryInv, NEW x \in Closers, CloserNext(x)
  PROVE  QueryInv'
<1>1. CASE CloseSweep(x) BY <1>1, ClosePendingInv DEF CloseSweep
<1>2. QED
  BY <1>1, QueryStutter
  DEF CloserNext, CloseSwap, CloseCommand, CloseTakeOutbound, CloseTakeInbound,
      CloseTake, CloseJoinOutbound, CloseJoinInbound, CloseEmit

\* The entries of the table and the receivers of the callers determine one
\* another in every reachable state.
THEOREM QueryTableSound == Spec => []QueryInv
<1>1. Init => QueryInv
  BY QueryAssumption
  DEF Init, QueryInit, QueryInv, EntriesLive, WaiterReachable, WaiterShape
<1>2. TypeOK /\ QueryInv /\ [Next]_vars => QueryInv'
  <2> SUFFICES ASSUME TypeOK, QueryInv, [Next]_vars PROVE QueryInv' OBVIOUS
  <2>1. CASE Next BY <2>1, QueryCaller, QueryTask, QueryCloser DEF Next
  <2>2. CASE UNCHANGED vars BY <2>2, QueryStutter DEF vars
  <2>3. QED BY <2>1, <2>2
<1>3. QED BY <1>1, <1>2, TypeCorrect, PTL DEF Spec

\* The query table never loses a listening caller: whatever registrations,
\* answers, duplicates, timeouts, cancellations and closes happen, an open
\* receiver has its sender in the table under the caller's tag.
THEOREM WaitersStayReachable == Spec => []WaiterReachable
<1>1. QueryInv => WaiterReachable BY DEF QueryInv
<1>2. QED BY <1>1, QueryTableSound, PTL

-----------------------------------------------------------------------------
(* Closing and queries.  Only the first to set closed can leave a window   *)
(* between the flag and close_pending, so Swept is stable once reached.    *)

LEMMA SweepCaller ==
  ASSUME TypeOK, QueryInv, NoQueryOutlivesClose, NEW c \in Callers, CallerNext(c)
  PROVE  NoQueryOutlivesClose'
<1> USE DEF TypeOK, QueryTypeOK, CallerTypeOK
<1>1. \A k \in Conns : Swept(k)' <=> Swept(k)
  BY DEF CallerNext, StartSend, StartQuery, StartDuplicate, CheckClosed, Enqueue,
         EnqueueFails, WaitReturns, WaitTimesOut, Cancel, connVars, closerVars, Swept
<1>2. CASE \E k \in Conns : StartSend(c, k)
  BY <1>1, <1>2 DEF StartSend, queryVars, NoQueryOutlivesClose
<1>3. CASE \E k \in Conns, t \in Tags : StartQuery(c, k, t)
  BY <1>1, <1>3 DEF StartQuery, Register, NoQueryOutlivesClose
<1>4. CASE \E k \in Conns, t \in Tags : StartDuplicate(c, k, t)
  BY <1>1, <1>4 DEF StartDuplicate, RegisterDuplicate, Dropped, NoQueryOutlivesClose
<1>5. ASSUME DropWaiter(c), Return(c) PROVE NoQueryOutlivesClose'
  <2>1. CASE tag[c] = None
    BY <1>1, <1>5, <2>1 DEF DropWaiter, Return, queryVars, NoQueryOutlivesClose
  <2>2. CASE tag[c] # None
    BY <1>1, <1>5, <2>2 DEF DropWaiter, RemoveWaiter, Dropped, Return, NoQueryOutlivesClose
  <2>3. QED BY <2>1, <2>2
<1>6. CASE CheckClosed(c)
  <2>1. CASE ~closed[conn[c]] /\ pc' = [pc EXCEPT ![c] = "enqueue"]
                              /\ UNCHANGED <<conn, queryVars>>
    <3>1. ~Swept(conn[c]) BY <2>1 DEF Swept
    <3>2. QED BY <1>1, <1>6, <2>1, <3>1 DEF CheckClosed, queryVars, NoQueryOutlivesClose
  <2>2. QED BY <1>5, <1>6, <2>1 DEF CheckClosed
<1>7. CASE Enqueue(c)
  BY <1>1, <1>7 DEF Enqueue, Return, queryVars, NoQueryOutlivesClose
<1>8. CASE WaitReturns(c)
  BY <1>1, <1>8 DEF WaitReturns, Complete, Return, NoQueryOutlivesClose
<1>9. CASE WaitTimesOut(c)
  BY <1>1, <1>9 DEF WaitTimesOut, RemoveWaiter, Dropped, Return, NoQueryOutlivesClose
<1>10. QED
  BY <1>2, <1>3, <1>4, <1>5, <1>6, <1>7, <1>8, <1>9
  DEF CallerNext, EnqueueFails, Cancel

LEMMA SweepTask ==
  ASSUME TypeOK, QueryInv, NoQueryOutlivesClose, NEW k \in Conns, TaskNext(k)
  PROVE  NoQueryOutlivesClose'
<1> USE DEF TypeOK, ConnTypeOK, CloserTypeOK, SetTask
<1>1. ASSUME NEW s \in Sides, MarkSweep(k, s) PROVE NoQueryOutlivesClose'
  BY <1>1, ClosePendingInv DEF MarkSweep, NoQueryOutlivesClose
<1>2. ASSUME UNCHANGED <<queryVars, callerVars>>,
             \A h \in Conns : Swept(h)' => Swept(h)
      PROVE  NoQueryOutlivesClose'
  BY <1>2 DEF queryVars, callerVars, CallerTypeOK, NoQueryOutlivesClose
<1>3. ASSUME NEW t \in Tags \cup {None}, NEW id \in Tags \cup {None}, InboundFrame(k, t, id)
      PROVE  NoQueryOutlivesClose'
  <2>1. \A h \in Conns : Swept(h)' <=> Swept(h)
    BY <1>3 DEF InboundFrame, connVars, closerVars, Swept
  <2>2. \A c \in Callers : rx'[c] = "open" => rx[c] = "open"
    BY <1>3 DEF InboundFrame, Resolve
  <2>3. QED BY <1>3, <2>1, <2>2 DEF InboundFrame, callerVars, CallerTypeOK, NoQueryOutlivesClose
<1>4. CASE SpawnTasks(k)
  <2>1. \A h \in Conns : Swept(h)' => Swept(h)
    BY <1>4 DEF SpawnTasks, closerVars, Swept
  <2>2. QED BY <1>2, <1>4, <2>1 DEF SpawnTasks
<1>5. CASE SpawnReturns(k)
  BY <1>2, <1>5 DEF SpawnReturns, closerVars, Swept
<1>6. CASE OutboundRecv(k)
  BY <1>2, <1>6 DEF OutboundRecv, closerVars, Swept, Sides
<1>7. CASE SinkSend(k)
  <2> USE <1>7 DEF SinkSend
  <2>1. CASE SetTask(k, "outbound", "recv")
    BY <1>2, <2>1 DEF closerVars, Swept, Sides
  <2>2. CASE SetTask(k, "outbound", "mark")
    BY <1>2, <2>2 DEF closerVars, Swept, Sides
  <2>3. QED BY <2>1, <2>2
<1>8. CASE SinkClose(k)
  BY <1>2, <1>8 DEF SinkClose, closerVars, Swept, Sides
<1>9. CASE InboundEnds(k)
  BY <1>2, <1>9 DEF InboundEnds, closerVars, Swept, Sides
<1>10. ASSUME NEW s \in Sides, MarkSwap(k, s) PROVE NoQueryOutlivesClose'
  <2>1. CASE closed[k]
    BY <1>2, <1>10, <2>1 DEF MarkSwap, closerVars, Swept
  <2>2. CASE ~closed[k]
    BY <1>2, <1>10, <2>2 DEF MarkSwap, closerVars, Swept
  <2>3. QED BY <2>1, <2>2
<1>11. ASSUME NEW s \in Sides, MarkEmit(k, s) PROVE NoQueryOutlivesClose'
  BY <1>2, <1>11 DEF MarkEmit, closerVars, Swept
<1>12. QED
  BY <1>1, <1>3, <1>4, <1>5, <1>6, <1>7, <1>8, <1>9, <1>10, <1>11 DEF TaskNext

LEMMA SweepCloser ==
  ASSUME TypeOK, QueryInv, NoQueryOutlivesClose, NEW x \in Closers, CloserNext(x)
  PROVE  NoQueryOutlivesClose'
<1> USE DEF TypeOK, ConnTypeOK, CloserTypeOK, Goto
<1>1. CASE CloseSweep(x)
  BY <1>1, ClosePendingInv DEF CloseSweep, NoQueryOutlivesClose
<1>2. ASSUME UNCHANGED <<queryVars, callerVars>>,
             \A h \in Conns : Swept(h)' => Swept(h)
      PROVE  NoQueryOutlivesClose'
  BY <1>2 DEF queryVars, callerVars, CallerTypeOK, NoQueryOutlivesClose
<1>3. ASSUME NEW k \in Conns, CloseSwap(x, k) PROVE NoQueryOutlivesClose'
  <2>1. CASE closed[k]
    BY <1>2, <1>3, <2>1 DEF CloseSwap, Swept
  <2>2. CASE ~closed[k]
    BY <1>2, <1>3, <2>2 DEF CloseSwap, Swept
  <2>3. QED BY <2>1, <2>2
<1>4. CASE CloseCommand(x)
  BY <1>2, <1>4 DEF CloseCommand, Swept
<1>5. CASE CloseTakeOutbound(x)
  BY <1>2, <1>5 DEF CloseTakeOutbound, CloseTake, Swept
<1>6. CASE CloseJoinOutbound(x)
  BY <1>2, <1>6 DEF CloseJoinOutbound, connVars, Swept
<1>7. CASE CloseTakeInbound(x)
  BY <1>2, <1>7 DEF CloseTakeInbound, CloseTake, Swept
<1>8. CASE CloseJoinInbound(x)
  BY <1>2, <1>8 DEF CloseJoinInbound, SetTask, Swept, Sides
<1>9. CASE CloseEmit(x)
  BY <1>2, <1>9 DEF CloseEmit, Swept
<1>10. QED
  BY <1>1, <1>3, <1>4, <1>5, <1>6, <1>7, <1>8, <1>9 DEF CloserNext

\* No query outlives the close of its connection: after close_pending of the
\* closing call, whoever it was, no query that passed the closed check listens.
THEOREM QueriesEndWithConnection == Spec => []NoQueryOutlivesClose
<1>1. Init => NoQueryOutlivesClose
  BY DEF Init, NoQueryOutlivesClose
<1>2. TypeOK /\ QueryInv /\ NoQueryOutlivesClose /\ [Next]_vars => NoQueryOutlivesClose'
  <2> SUFFICES ASSUME TypeOK, QueryInv, NoQueryOutlivesClose, [Next]_vars
               PROVE  NoQueryOutlivesClose'
    OBVIOUS
  <2>1. CASE Next BY <2>1, SweepCaller, SweepTask, SweepCloser DEF Next
  <2>2. CASE UNCHANGED vars
    BY <2>2 DEF vars, queryVars, connVars, callerVars, closerVars,
                NoQueryOutlivesClose, Swept
  <2>3. QED BY <2>1, <2>2
<1>3. QED BY <1>1, <1>2, TypeCorrect, QueryTableSound, PTL DEF Spec

-----------------------------------------------------------------------------
(* Exactly one of those that find closed unset may announce the close.     *)

TaskEmits(k, s) == task[k][s] \in {"sweep", "emit"}

CloserEmits(k, x) ==
  /\ target[x] = k /\ ~was[x]
  /\ cpc[x] \notin {"idle", "ok", "failed"}

\* Before the flag is set nobody is about to emit Closed and nobody has.
EmitNotBefore ==
  \A k \in Conns : ~closed[k] =>
    /\ ~Announced(k)
    /\ \A s \in Sides : ~TaskEmits(k, s)
    /\ \A x \in Closers : ~CloserEmits(k, x)

\* Once Closed is emitted nobody is about to emit it again.
EmitNotAfter ==
  \A k \in Conns : Announced(k) =>
    /\ \A s \in Sides : ~TaskEmits(k, s)
    /\ \A x \in Closers : ~CloserEmits(k, x)

\* At most one task or closer is about to emit it.
EmitterUnique ==
  \A k \in Conns :
    /\ \A s, r \in Sides : TaskEmits(k, s) /\ TaskEmits(k, r) => s = r
    /\ \A x, y \in Closers : CloserEmits(k, x) /\ CloserEmits(k, y) => x = y
    /\ \A s \in Sides, x \in Closers : ~(TaskEmits(k, s) /\ CloserEmits(k, x))

EmitInv == EmitNotBefore /\ EmitNotAfter /\ EmitterUnique /\ ClosedOnce

LEMMA EmitStutter ==
  ASSUME TypeOK, EmitInv, UNCHANGED events,
         \A k \in Conns : closed[k] => closed'[k],
         \A k \in Conns, s \in Sides : TaskEmits(k, s)' => TaskEmits(k, s),
         \A k \in Conns, x \in Closers : CloserEmits(k, x)' => CloserEmits(k, x)
  PROVE  EmitInv'
BY DEF EmitInv, EmitNotBefore, EmitNotAfter, EmitterUnique, ClosedOnce, Announced

\* The step that emits Closed takes away the only emitter.
LEMMA EmitClosed ==
  ASSUME TypeOK, EmitInv, NEW k \in Conns, Emit(k, "Closed"), ~Announced(k), closed[k],
         UNCHANGED closed,
         \A h \in Conns, s \in Sides : TaskEmits(h, s)' => TaskEmits(h, s) /\ h # k,
         \A h \in Conns, x \in Closers : CloserEmits(h, x)' => CloserEmits(h, x) /\ h # k
  PROVE  EmitInv'
<1> USE DEF EmitInv, TypeOK, ConnTypeOK, Emit
<1>1. \A h \in Conns : h # k => events'[h] = events[h] OBVIOUS
<1>2. ClosedOnce'
  <2>1. \A h \in Conns : \A i, j \in 1..Len(events'[h]) :
          events'[h][i] = "Closed" /\ events'[h][j] = "Closed" => i = j
    BY <1>1 DEF ClosedOnce, Announced
  <2>2. QED BY <2>1 DEF ClosedOnce
<1>3. \A h \in Conns : h # k => (Announced(h)' <=> Announced(h)) BY <1>1 DEF Announced
<1>4. EmitNotBefore' BY <1>3 DEF EmitNotBefore
<1>5. EmitNotAfter' BY <1>3 DEF EmitNotAfter
<1>6. EmitterUnique' BY DEF EmitterUnique
<1>7. QED BY <1>2, <1>4, <1>5, <1>6

LEMMA EmitCaller ==
  ASSUME TypeOK, EmitInv, NEW c \in Callers, CallerNext(c)
  PROVE  EmitInv'
BY EmitStutter
DEF CallerNext, StartSend, StartQuery, StartDuplicate, CheckClosed, Enqueue, EnqueueFails,
    WaitReturns, WaitTimesOut, Cancel, connVars, closerVars, TaskEmits, CloserEmits

LEMMA EmitTask ==
  ASSUME TypeOK, EmitInv, NEW k \in Conns, TaskNext(k)
  PROVE  EmitInv'
<1> USE DEF TypeOK, ConnTypeOK, SetTask
<1>1. UNCHANGED closerVars
  BY DEF TaskNext, SpawnTasks, SpawnReturns, OutboundRecv, SinkSend, SinkClose,
         InboundFrame, InboundEnds, MarkSwap, MarkSweep, MarkEmit
<1>2. \A h \in Conns, x \in Closers : CloserEmits(h, x)' <=> CloserEmits(h, x)
  BY <1>1 DEF closerVars, CloserEmits
<1>3. ASSUME UNCHANGED <<events, closed>>,
             \A h \in Conns, s \in Sides : TaskEmits(h, s)' => TaskEmits(h, s)
      PROVE  EmitInv'
  BY <1>2, <1>3, EmitStutter
<1>4. CASE SpawnTasks(k) BY <1>3, <1>4 DEF SpawnTasks, TaskEmits
<1>5. CASE SpawnReturns(k)
  <2> USE <1>5 DEF SpawnReturns, Emit
  <2>1. \A h \in Conns, s \in Sides : TaskEmits(h, s)' <=> TaskEmits(h, s) BY DEF TaskEmits
  <2>2. \A h \in Conns : Announced(h)' <=> Announced(h)
    <3>1. \A h \in Conns : h # k => events'[h] = events[h] OBVIOUS
    <3>2. events'[k] = Append(events[k], "Open") OBVIOUS
    <3>3. Announced(k)' <=> Announced(k)
      <4> HIDE <1>5
      <4> QED BY <3>2 DEF Announced
    <3>4. QED BY <3>1, <3>3 DEF Announced
  <2>3. ClosedOnce'
    <3>1. \A h \in Conns : h # k => events'[h] = events[h] OBVIOUS
    <3>2. events'[k] = Append(events[k], "Open") OBVIOUS
    <3> HIDE <1>5
    <3>3. \A i, j \in 1..Len(events'[k]) :
            events'[k][i] = "Closed" /\ events'[k][j] = "Closed" => i = j
      BY <3>2 DEF EmitInv, ClosedOnce
    <3>4. \A h \in Conns \ {k} : \A i, j \in 1..Len(events'[h]) :
            events'[h][i] = "Closed" /\ events'[h][j] = "Closed" => i = j
      BY <3>1 DEF EmitInv, ClosedOnce
    <3>5. QED BY <3>3, <3>4 DEF ClosedOnce
  <2>4. EmitNotBefore' BY <1>2, <2>1, <2>2 DEF EmitInv, EmitNotBefore
  <2>5. EmitNotAfter' BY <1>2, <2>1, <2>2 DEF EmitInv, EmitNotAfter
  <2>6. EmitterUnique' BY <1>2, <2>1 DEF EmitInv, EmitterUnique
  <2>7. QED BY <2>3, <2>4, <2>5, <2>6 DEF EmitInv
<1>6. CASE OutboundRecv(k) BY <1>3, <1>6 DEF OutboundRecv, TaskEmits, Sides
<1>7. CASE SinkSend(k)
  <2> USE <1>7 DEF SinkSend
  <2>1. CASE SetTask(k, "outbound", "recv") BY <1>3, <2>1 DEF TaskEmits, Sides
  <2>2. CASE SetTask(k, "outbound", "mark") BY <1>3, <2>2 DEF TaskEmits, Sides
  <2>3. QED BY <2>1, <2>2
<1>8. CASE SinkClose(k) BY <1>3, <1>8 DEF SinkClose, TaskEmits, Sides
<1>9. CASE \E t, id \in Tags \cup {None} : InboundFrame(k, t, id)
  BY <1>3, <1>9 DEF InboundFrame, connVars, TaskEmits
<1>10. CASE InboundEnds(k) BY <1>3, <1>10 DEF InboundEnds, TaskEmits, Sides
<1>11. ASSUME NEW s \in Sides, MarkSwap(k, s) PROVE EmitInv'
  <2> USE <1>11 DEF MarkSwap
  <2>1. CASE closed[k] BY <1>2, <2>1, EmitStutter DEF TaskEmits
  <2>2. CASE ~closed[k]
    <3>1. \A h \in Conns, r \in Sides :
            TaskEmits(h, r)' <=> TaskEmits(h, r) \/ (h = k /\ r = s)
      BY <2>2 DEF TaskEmits
    <3>2. \A h \in Conns : closed'[h] <=> closed[h] \/ h = k OBVIOUS
    <3>3. \A h \in Conns : Announced(h)' <=> Announced(h) BY DEF Announced
    <3>4. ClosedOnce' BY DEF EmitInv, ClosedOnce
    <3> HIDE <1>11
    <3>5. EmitNotBefore' BY <1>2, <3>1, <3>2, <3>3 DEF EmitInv, EmitNotBefore
    <3>6. EmitNotAfter' BY <1>2, <2>2, <3>1, <3>3 DEF EmitInv, EmitNotBefore, EmitNotAfter
    <3>7. EmitterUnique' BY <1>2, <2>2, <3>1 DEF EmitInv, EmitNotBefore, EmitterUnique
    <3>8. QED BY <3>4, <3>5, <3>6, <3>7 DEF EmitInv
  <2>3. QED BY <2>1, <2>2
<1>12. ASSUME NEW s \in Sides, MarkSweep(k, s) PROVE EmitInv'
  BY <1>3, <1>12 DEF MarkSweep, TaskEmits
<1>13. ASSUME NEW s \in Sides, MarkEmit(k, s) PROVE EmitInv'
  <2>1. TaskEmits(k, s) BY <1>13 DEF MarkEmit, TaskEmits
  <2>2. \A h \in Conns, r \in Sides : TaskEmits(h, r)' => TaskEmits(h, r) /\ h # k
    BY <1>13, <2>1 DEF MarkEmit, TaskEmits, EmitInv, EmitterUnique
  <2>3. \A h \in Conns, x \in Closers : CloserEmits(h, x)' => CloserEmits(h, x) /\ h # k
    BY <1>2, <2>1 DEF EmitInv, EmitterUnique
  <2>4. ~Announced(k) /\ closed[k]
    BY <2>1 DEF EmitInv, EmitNotBefore, EmitNotAfter
  <2>5. QED BY <1>13, <2>2, <2>3, <2>4, EmitClosed DEF MarkEmit
<1>14. QED
  BY <1>4, <1>5, <1>6, <1>7, <1>8, <1>9, <1>10, <1>11, <1>12, <1>13 DEF TaskNext

LEMMA EmitCloser ==
  ASSUME TypeOK, EmitInv, NEW x \in Closers, CloserNext(x)
  PROVE  EmitInv'
<1> USE DEF TypeOK, ConnTypeOK, CloserTypeOK, Goto
<1>1. ASSUME UNCHANGED <<events, closed, task>>,
             \A h \in Conns, y \in Closers : CloserEmits(h, y)' => CloserEmits(h, y)
      PROVE  EmitInv'
  BY <1>1, EmitStutter DEF TaskEmits
<1>2. ASSUME NEW k \in Conns, CloseSwap(x, k) PROVE EmitInv'
  <2> USE <1>2 DEF CloseSwap
  <2>1. CASE closed[k] BY <2>1, EmitStutter DEF TaskEmits, CloserEmits
  <2>2. CASE ~closed[k]
    <3>1. \A h \in Conns, y \in Closers :
            CloserEmits(h, y)' <=> CloserEmits(h, y) \/ (h = k /\ y = x)
      BY <2>2 DEF CloserEmits
    <3>2. \A h \in Conns : closed'[h] <=> closed[h] \/ h = k OBVIOUS
    <3>3. \A h \in Conns : Announced(h)' <=> Announced(h) BY DEF Announced
    <3>4. \A h \in Conns, s \in Sides : TaskEmits(h, s)' <=> TaskEmits(h, s) BY DEF TaskEmits
    <3>5. ClosedOnce' BY DEF EmitInv, ClosedOnce
    <3> HIDE <1>2
    <3>6. EmitNotBefore' BY <3>1, <3>2, <3>3, <3>4 DEF EmitInv, EmitNotBefore
    <3>7. EmitNotAfter' BY <2>2, <3>1, <3>3, <3>4 DEF EmitInv, EmitNotBefore, EmitNotAfter
    <3>8. EmitterUnique'
      <4>1. \A h \in Conns : h # k =>
              \A y \in Closers : CloserEmits(h, y)' <=> CloserEmits(h, y)
        BY <3>1
      <4>2. /\ \A y \in Closers : CloserEmits(k, y)' => y = x
            /\ \A s \in Sides : ~TaskEmits(k, s)'
        BY <2>2, <3>1, <3>4 DEF EmitInv, EmitNotBefore
      <4>3. QED BY <3>4, <4>1, <4>2 DEF EmitInv, EmitterUnique
    <3>9. QED BY <3>5, <3>6, <3>7, <3>8 DEF EmitInv
  <2>3. QED BY <2>1, <2>2
<1>3. CASE CloseSweep(x) BY <1>1, <1>3 DEF CloseSweep, connVars, CloserEmits
<1>4. CASE CloseCommand(x)
  <2>1. UNCHANGED <<events, closed, task, target, was>> /\ Goto(x, "takeOut")
        /\ cpc[x] = "command"
    BY <1>4 DEF CloseCommand
  <2>2. QED BY <1>1, <2>1 DEF CloserEmits
<1>5. CASE CloseTakeOutbound(x) BY <1>1, <1>5 DEF CloseTakeOutbound, CloseTake, CloserEmits
<1>6. CASE CloseJoinOutbound(x) BY <1>1, <1>6 DEF CloseJoinOutbound, connVars, CloserEmits
<1>7. CASE CloseTakeInbound(x) BY <1>1, <1>7 DEF CloseTakeInbound, CloseTake, CloserEmits
<1>8. CASE CloseJoinInbound(x)
  <2>1. \A h \in Conns, s \in Sides : TaskEmits(h, s)' => TaskEmits(h, s)
    BY <1>8 DEF CloseJoinInbound, SetTask, TaskEmits, Sides
  <2>2. QED BY <1>8, <2>1, EmitStutter DEF CloseJoinInbound, CloserEmits
<1>9. CASE CloseEmit(x)
  <2>1. CASE was[x] BY <1>1, <1>9, <2>1 DEF CloseEmit, CloserEmits
  <2>2. CASE ~was[x]
    <3> DEFINE k == target[x]
    <3>1. k \in Conns /\ CloserEmits(k, x) BY <1>9, <2>2 DEF CloseEmit, CloserEmits
    <3>2. \A h \in Conns, y \in Closers : CloserEmits(h, y)' => CloserEmits(h, y) /\ h # k
      <4>1. \A h \in Conns, y \in Closers : CloserEmits(h, y)' => CloserEmits(h, y) /\ y # x
        BY <1>9 DEF CloseEmit, CloserEmits
      <4>2. QED BY <3>1, <4>1 DEF EmitInv, EmitterUnique
    <3>3. \A h \in Conns, s \in Sides : TaskEmits(h, s)' => TaskEmits(h, s) /\ h # k
      BY <1>9, <3>1 DEF CloseEmit, TaskEmits, EmitInv, EmitterUnique
    <3>4. ~Announced(k) /\ closed[k]
      BY <3>1 DEF EmitInv, EmitNotBefore, EmitNotAfter
    <3>5. Emit(k, "Closed") /\ UNCHANGED closed BY <1>9, <2>2 DEF CloseEmit
    <3>6. QED BY <3>1, <3>2, <3>3, <3>4, <3>5, EmitClosed
  <2>3. QED BY <2>1, <2>2
<1>10. QED
  BY <1>2, <1>3, <1>4, <1>5, <1>6, <1>7, <1>8, <1>9 DEF CloserNext

\* A connection announces its close at most once, however many close() calls,
\* sink failures and stream ends race.
THEOREM ClosedAnnouncedOnce == Spec => []ClosedOnce
<1>1. Init => EmitInv
  BY DEF Init, EmitInv, EmitNotBefore, EmitNotAfter, EmitterUnique, ClosedOnce, Announced,
         TaskEmits, CloserEmits
<1>2. TypeOK /\ EmitInv /\ [Next]_vars => EmitInv'
  <2> SUFFICES ASSUME TypeOK, EmitInv, [Next]_vars PROVE EmitInv' OBVIOUS
  <2>1. CASE Next BY <2>1, EmitCaller, EmitTask, EmitCloser DEF Next
  <2>2. CASE UNCHANGED vars
    BY <2>2, EmitStutter DEF vars, connVars, closerVars, TaskEmits, CloserEmits
  <2>3. QED BY <2>1, <2>2
<1>3. EmitInv => ClosedOnce BY DEF EmitInv
<1>4. QED BY <1>1, <1>2, <1>3, TypeCorrect, PTL DEF Spec

-----------------------------------------------------------------------------
(* The channel is FIFO and a Close command is enqueued only after closed.  *)

NoFrameLeft(k) == \A i \in 1..Len(queue[k]) : queue[k][i] # "frame"

\* No Close command is on its way before the flag is set.
NoEarlyClose ==
  \A k \in Conns : ~closed[k] =>
    /\ task[k]["outbound"] # "closing"
    /\ \A i \in 1..Len(queue[k]) : queue[k][i] # "close"

\* What follows a Close command in the channel is late.
OnlyLateBehindClose ==
  \A k \in Conns : \A i, j \in 1..Len(queue[k]) :
    i < j /\ queue[k][i] = "close" => queue[k][j] # "frame"

\* A task that took the Close command has nothing but late frames behind it.
NothingAfterClosing ==
  \A k \in Conns :
    /\ task[k]["outbound"] = "closing" => NoFrameLeft(k)
    /\ task[k]["outbound"] \in {"mark", "sweep", "emit", "ended"} /\ sinkErr[k] # "write"
         => closed[k] /\ NoFrameLeft(k)

FlushInv == NoEarlyClose /\ OnlyLateBehindClose /\ NothingAfterClosing

\* Steps that leave channel and outbound task alone, or end it as before.
LEMMA FlushStutter ==
  ASSUME TypeOK, FlushInv, UNCHANGED <<queue, sinkErr>>,
         \A k \in Conns : closed[k] => closed'[k],
         \A k \in Conns : \/ task'[k]["outbound"] = task[k]["outbound"]
                          \/ /\ task[k]["outbound"] \in {"mark", "sweep", "emit"}
                             /\ task'[k]["outbound"] \in {"sweep", "emit", "ended"}
                          \/ task'[k]["outbound"] = "recv"
  PROVE  FlushInv'
<1> USE DEF FlushInv
<1>1. NoEarlyClose' BY DEF NoEarlyClose, TypeOK, ConnTypeOK
<1>2. OnlyLateBehindClose' BY DEF OnlyLateBehindClose
<1>3. \A k \in Conns : NoFrameLeft(k)' <=> NoFrameLeft(k) BY DEF NoFrameLeft
<1>4. NothingAfterClosing' BY <1>3 DEF NothingAfterClosing, TypeOK, ConnTypeOK
<1>5. QED BY <1>1, <1>2, <1>4

\* Appending a command that is not an early frame, Close only when closed.
LEMMA FlushAppend ==
  ASSUME TypeOK, FlushInv, NEW k \in Conns, NEW m \in Commands,
         queue' = [queue EXCEPT ![k] = Append(@, m)],
         m = "frame" => ~closed[k], m = "close" => closed[k],
         UNCHANGED <<closed, task, sinkErr>>
  PROVE  FlushInv'
<1> USE DEF FlushInv, TypeOK, ConnTypeOK, NoFrameLeft
<1>1. queue'[k] = Append(queue[k], m) /\ queue[k] \in Seq(Commands) OBVIOUS
<1>2. \A h \in Conns : h # k => queue'[h] = queue[h] OBVIOUS
<1>3. Len(queue'[k]) = Len(queue[k]) + 1 /\ queue'[k][Len(queue[k]) + 1] = m
      /\ \A i \in 1..Len(queue[k]) : queue'[k][i] = queue[k][i]
  BY <1>1
<1> HIDE DEF TypeOK, ConnTypeOK
<1>4. Len(queue[k]) \in Nat BY <1>1
<1>5. NoEarlyClose' BY <1>2, <1>3, <1>4 DEF NoEarlyClose
<1>6. OnlyLateBehindClose'
  <2>1. m = "frame" => \A i \in 1..Len(queue[k]) : queue[k][i] # "close"
    BY DEF NoEarlyClose
  <2>2. \A i, j \in 1..Len(queue'[k]) :
          i < j /\ queue'[k][i] = "close" => queue'[k][j] # "frame"
    BY <1>3, <1>4, <2>1 DEF OnlyLateBehindClose
  <2>3. QED BY <1>2, <2>2 DEF OnlyLateBehindClose
<1>7. NothingAfterClosing'
  <2>1. \A h \in Conns : h # k => (NoFrameLeft(h)' <=> NoFrameLeft(h)) BY <1>2
  <2>2. m # "frame" => (NoFrameLeft(k) => NoFrameLeft(k)') BY <1>3, <1>4
  <2>3. m = "frame" =>
          /\ task[k]["outbound"] # "closing"
          /\ task[k]["outbound"] \in {"mark", "sweep", "emit", "ended"} => sinkErr[k] = "write"
    BY DEF NoEarlyClose, NothingAfterClosing
  <2> HIDE DEF NoFrameLeft
  <2>4. QED BY <2>1, <2>2, <2>3 DEF NothingAfterClosing
<1>8. QED BY <1>5, <1>6, <1>7

LEMMA FlushCaller ==
  ASSUME TypeOK, FlushInv, NEW c \in Callers, CallerNext(c)
  PROVE  FlushInv'
<1>1. CASE Enqueue(c)
  <2> DEFINE k == conn[c]  m == IF closed[k] THEN "late" ELSE "frame"
  <2>1. k \in Conns /\ m \in Commands
    BY <1>1 DEF Enqueue, TypeOK, CallerTypeOK, Commands, Frames
  <2>2. queue' = [queue EXCEPT ![k] = Append(@, m)] /\ UNCHANGED <<closed, task, sinkErr>>
    BY <1>1 DEF Enqueue
  <2>3. (m = "frame" => ~closed[k]) /\ (m = "close" => closed[k]) OBVIOUS
  <2> HIDE DEF m, k
  <2>4. QED BY <2>1, <2>2, <2>3, FlushAppend
<1>2. CASE UNCHANGED connVars
  BY <1>2, FlushStutter DEF connVars
<1>3. QED
  BY <1>1, <1>2 DEF CallerNext, StartSend, StartQuery, StartDuplicate, CheckClosed,
                    EnqueueFails, WaitReturns, WaitTimesOut, Cancel

LEMMA FlushTask ==
  ASSUME TypeOK, FlushInv, NEW k \in Conns, TaskNext(k)
  PROVE  FlushInv'
<1> USE DEF TypeOK, ConnTypeOK, SetTask
<1>1. CASE SpawnTasks(k) BY <1>1, FlushStutter DEF SpawnTasks, Sides
<1>2. CASE SpawnReturns(k) BY <1>2, FlushStutter DEF SpawnReturns
<1>3. CASE OutboundRecv(k)
  <2> USE <1>3 DEF OutboundRecv
  <2> HIDE DEF NoFrameLeft
  <2>1. /\ queue'[k] = Tail(queue[k]) /\ queue[k] \in Seq(Commands) /\ queue[k] # <<>>
        /\ \A h \in Conns : h # k => queue'[h] = queue[h] /\ task'[h] = task[h]
        /\ task'[k]["outbound"] = IF queue[k][1] = "close" THEN "closing" ELSE "writing"
        /\ UNCHANGED <<closed, sinkErr>>
    BY DEF Sides
  <2>2. Len(queue'[k]) = Len(queue[k]) - 1 /\ Len(queue[k]) \in Nat /\ Len(queue[k]) >= 1
        /\ \A i \in 1..Len(queue'[k]) : queue'[k][i] = queue[k][i + 1]
    BY <2>1
  <2> HIDE <1>3 DEF TypeOK, ConnTypeOK
  <2> USE DEF FlushInv
  <2>3. NoEarlyClose'
    <3>1. ~closed[k] => queue[k][1] # "close" BY <2>2 DEF NoEarlyClose
    <3>2. ~closed[k] => \A i \in 1..Len(queue'[k]) : queue'[k][i] # "close"
      BY <2>2 DEF NoEarlyClose
    <3>3. \A h \in Conns : h # k /\ ~closed[h] =>
            /\ task'[h]["outbound"] # "closing"
            /\ \A i \in 1..Len(queue'[h]) : queue'[h][i] # "close"
      BY <2>1 DEF NoEarlyClose
    <3>4. QED BY <2>1, <3>1, <3>2, <3>3 DEF NoEarlyClose
  <2>4. OnlyLateBehindClose'
    <3>1. \A i, j \in 1..Len(queue'[k]) :
            i < j /\ queue'[k][i] = "close" => queue'[k][j] # "frame"
      <4> SUFFICES ASSUME NEW i \in 1..Len(queue'[k]), NEW j \in 1..Len(queue'[k]), i < j,
                          queue'[k][i] = "close"
                   PROVE  queue'[k][j] # "frame"
        OBVIOUS
      <4>1. i + 1 \in 1..Len(queue[k]) /\ j + 1 \in 1..Len(queue[k]) /\ i + 1 < j + 1
        BY <2>2
      <4>2. queue'[k][i] = queue[k][i + 1] /\ queue'[k][j] = queue[k][j + 1] BY <2>2
      <4>3. QED BY <4>1, <4>2 DEF OnlyLateBehindClose
    <3>2. \A h \in Conns : h # k => \A i, j \in 1..Len(queue'[h]) :
            i < j /\ queue'[h][i] = "close" => queue'[h][j] # "frame"
      BY <2>1 DEF OnlyLateBehindClose
    <3>3. QED BY <3>1, <3>2 DEF OnlyLateBehindClose
  <2>5. NothingAfterClosing'
    <3>1. \A h \in Conns : h # k => (NoFrameLeft(h)' <=> NoFrameLeft(h))
      BY <2>1 DEF NoFrameLeft
    <3>2. queue[k][1] = "close" => NoFrameLeft(k)'
      <4> SUFFICES ASSUME queue[k][1] = "close", NEW i \in 1..Len(queue'[k])
                   PROVE  queue'[k][i] # "frame"
        BY DEF NoFrameLeft
      <4>1. 1 \in 1..Len(queue[k]) /\ i + 1 \in 1..Len(queue[k]) /\ 1 < i + 1 BY <2>2
      <4>2. queue'[k][i] = queue[k][i + 1] BY <2>2
      <4>3. QED BY <4>1, <4>2 DEF OnlyLateBehindClose
    <3>3. QED BY <2>1, <3>1, <3>2 DEF NothingAfterClosing
  <2>6. QED BY <2>3, <2>4, <2>5
<1>4. CASE SinkSend(k)
  <2>1. CASE SetTask(k, "outbound", "recv") /\ UNCHANGED sinkErr
    BY <1>4, <2>1, FlushStutter DEF SinkSend, Sides
  <2>2. CASE SetTask(k, "outbound", "mark") /\ sinkErr' = [sinkErr EXCEPT ![k] = "write"]
    <3> USE <1>4, <2>2 DEF SinkSend, FlushInv
    <3>1. NoEarlyClose' BY DEF NoEarlyClose, Sides
    <3>2. OnlyLateBehindClose' BY DEF OnlyLateBehindClose
    <3>3. \A h \in Conns : NoFrameLeft(h)' <=> NoFrameLeft(h) BY DEF NoFrameLeft
    <3>4. NothingAfterClosing' BY <3>3 DEF NothingAfterClosing, Sides
    <3>5. QED BY <3>1, <3>2, <3>4
  <2>3. QED BY <1>4, <2>1, <2>2 DEF SinkSend
<1>5. CASE SinkClose(k)
  <2> USE <1>5 DEF SinkClose, FlushInv
  <2>1. NoEarlyClose' BY DEF NoEarlyClose, Sides
  <2>2. OnlyLateBehindClose' BY DEF OnlyLateBehindClose
  <2>3. \A h \in Conns : NoFrameLeft(h)' <=> NoFrameLeft(h) BY DEF NoFrameLeft
  <2>4. closed[k] /\ NoFrameLeft(k) BY DEF NoEarlyClose, NothingAfterClosing
  <2>5. NothingAfterClosing'
    <3>1. CASE UNCHANGED sinkErr BY <2>3, <2>4, <3>1 DEF NothingAfterClosing, Sides
    <3>2. CASE sinkErr' = [sinkErr EXCEPT ![k] = "close"]
      BY <2>3, <2>4, <3>2 DEF NothingAfterClosing, Sides
    <3>3. QED BY <3>1, <3>2
  <2>6. QED BY <2>1, <2>2, <2>5
<1>6. CASE \E t, id \in Tags \cup {None} : InboundFrame(k, t, id)
  BY <1>6, FlushStutter DEF InboundFrame, connVars
<1>7. CASE InboundEnds(k) BY <1>7, FlushStutter DEF InboundEnds, Sides
<1>8. ASSUME NEW s \in Sides, MarkSwap(k, s) PROVE FlushInv'
  BY <1>8, FlushStutter DEF MarkSwap, Sides
<1>9. ASSUME NEW s \in Sides, MarkSweep(k, s) PROVE FlushInv'
  BY <1>9, FlushStutter DEF MarkSweep, Sides
<1>10. ASSUME NEW s \in Sides, MarkEmit(k, s) PROVE FlushInv'
  BY <1>10, FlushStutter DEF MarkEmit, Sides
<1>11. QED
  BY <1>1, <1>2, <1>3, <1>4, <1>5, <1>6, <1>7, <1>8, <1>9, <1>10 DEF TaskNext

\* A closer past its swap has set the flag, which stays set.
CloserClosed == \A x \in Closers : cpc[x] # "idle" => closed[target[x]]

LEMMA ClosedStays ==
  ASSUME TypeOK, [Next]_vars
  PROVE  \A k \in Conns : closed[k] => closed'[k]
<1> SUFFICES ASSUME NEW k \in Conns, closed[k] PROVE closed'[k] OBVIOUS
<1> USE DEF TypeOK, ConnTypeOK
<1>1. ASSUME NEW c \in Callers, CallerNext(c) PROVE closed'[k]
  BY <1>1 DEF connVars, CallerNext, StartSend, StartQuery, StartDuplicate, CheckClosed,
              Enqueue, EnqueueFails, WaitReturns, WaitTimesOut, Cancel
<1>2. ASSUME NEW h \in Conns, TaskNext(h) PROVE closed'[k]
  <2>1. CASE UNCHANGED closed BY <2>1
  <2>2. CASE \E s \in Sides : MarkSwap(h, s) BY <2>2 DEF MarkSwap
  <2>3. QED
    BY <1>2, <2>1, <2>2
    DEF connVars, TaskNext, SpawnTasks, SpawnReturns, OutboundRecv, SinkSend, SinkClose,
        InboundFrame, InboundEnds, MarkSweep, MarkEmit
<1>3. ASSUME NEW x \in Closers, CloserNext(x) PROVE closed'[k]
  BY <1>3 DEF connVars, CloserNext, CloseSwap, CloseSweep, CloseCommand, CloseTakeOutbound,
              CloseTakeInbound, CloseTake, CloseJoinOutbound, CloseJoinInbound, CloseEmit
<1>4. CASE UNCHANGED vars BY <1>4 DEF vars, connVars
<1>5. QED BY <1>1, <1>2, <1>3, <1>4 DEF Next

LEMMA CloserClosedStep ==
  ASSUME TypeOK, CloserClosed, [Next]_vars
  PROVE  CloserClosed'
<1>1. \A k \in Conns : closed[k] => closed'[k]
  BY ClosedStays
<1>2. ASSUME NEW x \in Closers, CloserNext(x) PROVE CloserClosed'
  <2>1. ASSUME NEW k \in Conns, CloseSwap(x, k) PROVE CloserClosed'
    BY <1>1, <2>1 DEF CloseSwap, Goto, CloserClosed, TypeOK, ConnTypeOK, CloserTypeOK
  <2>2. ASSUME cpc[x] # "idle", NEW p, Goto(x, p), UNCHANGED target PROVE CloserClosed'
    BY <1>1, <2>2 DEF Goto, CloserClosed, TypeOK, CloserTypeOK
  <2>3. CASE CloseSweep(x) BY <2>2, <2>3 DEF CloseSweep
  <2>4. CASE CloseCommand(x) BY <2>2, <2>4 DEF CloseCommand
  <2>5. CASE CloseTakeOutbound(x) BY <2>2, <2>5 DEF CloseTakeOutbound, CloseTake
  <2>6. CASE CloseJoinOutbound(x) BY <2>2, <2>6 DEF CloseJoinOutbound
  <2>7. CASE CloseTakeInbound(x) BY <2>2, <2>7 DEF CloseTakeInbound, CloseTake
  <2>8. CASE CloseJoinInbound(x) BY <2>2, <2>8 DEF CloseJoinInbound
  <2>9. CASE CloseEmit(x) BY <2>2, <2>9 DEF CloseEmit
  <2>10. QED
    BY <1>2, <2>1, <2>3, <2>4, <2>5, <2>6, <2>7, <2>8, <2>9 DEF CloserNext
<1>3. CASE UNCHANGED closerVars
  BY <1>1, <1>3 DEF closerVars, CloserClosed, TypeOK, CloserTypeOK
<1>4. QED
  BY <1>2, <1>3
  DEF Next, vars, CallerNext, StartSend, StartQuery, StartDuplicate, CheckClosed, Enqueue,
      EnqueueFails, WaitReturns, WaitTimesOut, Cancel, TaskNext, SpawnTasks, SpawnReturns,
      OutboundRecv, SinkSend, SinkClose, InboundFrame, InboundEnds, MarkSwap, MarkSweep, MarkEmit

LEMMA FlushCloser ==
  ASSUME TypeOK, FlushInv, CloserClosed, NEW x \in Closers, CloserNext(x)
  PROVE  FlushInv'
<1> USE DEF TypeOK, ConnTypeOK, CloserTypeOK
<1>1. ASSUME NEW k \in Conns, CloseSwap(x, k) PROVE FlushInv'
  BY <1>1, FlushStutter DEF CloseSwap
<1>2. CASE CloseCommand(x)
  <2>1. CASE queue' = [queue EXCEPT ![target[x]] = Append(@, "close")]
    BY <1>2, <2>1, FlushAppend DEF CloseCommand, CloserClosed, Commands
  <2>2. CASE UNCHANGED queue
    BY <1>2, <2>2, FlushStutter DEF CloseCommand
  <2>3. QED BY <1>2, <2>1, <2>2 DEF CloseCommand
<1>3. CASE CloseJoinInbound(x)
  BY <1>3, FlushStutter DEF CloseJoinInbound, SetTask, Sides
<1>4. CASE UNCHANGED <<closed, queue, task, sinkErr>>
  BY <1>4, FlushStutter
<1>5. QED
  BY <1>1, <1>2, <1>3, <1>4
  DEF CloserNext, CloseSweep, CloseTakeOutbound, CloseTakeInbound, CloseTake,
      CloseJoinOutbound, CloseEmit, connVars

\* Every frame send_frame accepted before the connection was marked closed is
\* handed to the sink before the outbound task closes it, unless a write fails.
THEOREM AcceptedFramesFlushed == Spec => []FlushBeforeClose
<1>1. Init => FlushInv /\ CloserClosed
  BY DEF Init, FlushInv, NoEarlyClose, OnlyLateBehindClose, NothingAfterClosing, NoFrameLeft,
         CloserClosed, Sides
<1>2. TypeOK /\ FlushInv /\ CloserClosed /\ [Next]_vars => FlushInv' /\ CloserClosed'
  <2> SUFFICES ASSUME TypeOK, FlushInv, CloserClosed, [Next]_vars PROVE FlushInv'
    BY CloserClosedStep
  <2>1. CASE Next BY <2>1, FlushCaller, FlushTask, FlushCloser DEF Next
  <2>2. CASE UNCHANGED vars BY <2>2, FlushStutter DEF vars, connVars
  <2>3. QED BY <2>1, <2>2
<1>3. FlushInv => FlushBeforeClose
  BY DEF FlushInv, NothingAfterClosing, NoFrameLeft, FlushBeforeClose
<1>4. QED BY <1>1, <1>2, <1>3, TypeCorrect, PTL DEF Spec

-----------------------------------------------------------------------------
(* What a receiver finds closed, and what an Ok of close() means.           *)

\* A task in mark_closed has found the flag and set it.
TasksClosed ==
  \A k \in Conns, s \in Sides : task[k][s] \in {"sweep", "emit"} => closed[k]

\* Tags of next_tag are never handed out twice.
TagsOnce ==
  ExplicitTags = {} =>
    /\ \A t \in unused : waiters[t] = Nobody
    /\ \A c \in Callers : tag[c] \notin unused
    /\ \A c, d \in Callers : tag[c] = tag[d] /\ tag[c] # None => c = d

LEMMA TasksClosedStep ==
  ASSUME TypeOK, TasksClosed, [Next]_vars
  PROVE  TasksClosed'
<1> USE DEF TypeOK, ConnTypeOK
<1>1. CASE UNCHANGED <<closed, task>>
  BY <1>1 DEF TasksClosed
<1>2. ASSUME NEW k \in Conns, TaskNext(k) PROVE TasksClosed'
  <2> USE DEF TasksClosed, SetTask
  <2>1. CASE SpawnTasks(k) BY <2>1 DEF SpawnTasks
  <2>2. CASE OutboundRecv(k) BY <2>2 DEF OutboundRecv, Sides
  <2>3. CASE SinkSend(k)
    <3>1. CASE SetTask(k, "outbound", "recv") BY <2>3, <3>1 DEF SinkSend, Sides
    <3>2. CASE SetTask(k, "outbound", "mark") BY <2>3, <3>2 DEF SinkSend, Sides
    <3>3. QED BY <2>3, <3>1, <3>2 DEF SinkSend
  <2>4. CASE SinkClose(k) BY <2>4 DEF SinkClose, Sides
  <2>5. CASE InboundEnds(k) BY <2>5 DEF InboundEnds, Sides
  <2>6. ASSUME NEW s \in Sides, MarkSwap(k, s) PROVE TasksClosed'
    BY <2>6 DEF MarkSwap
  <2>7. ASSUME NEW s \in Sides, MarkSweep(k, s) PROVE TasksClosed'
    BY <2>7 DEF MarkSweep
  <2>8. ASSUME NEW s \in Sides, MarkEmit(k, s) PROVE TasksClosed'
    BY <2>8 DEF MarkEmit
  <2>9. QED
    BY <1>1, <1>2, <2>1, <2>2, <2>3, <2>4, <2>5, <2>6, <2>7, <2>8
    DEF TaskNext, SpawnReturns, InboundFrame, connVars
<1>3. ASSUME NEW x \in Closers, CloserNext(x) PROVE TasksClosed'
  <2>1. ASSUME NEW k \in Conns, CloseSwap(x, k) PROVE TasksClosed'
    BY <2>1 DEF CloseSwap, TasksClosed
  <2>2. CASE CloseJoinInbound(x)
    BY <2>2 DEF CloseJoinInbound, SetTask, TasksClosed, Sides
  <2>3. QED
    BY <1>1, <1>3, <2>1, <2>2
    DEF CloserNext, CloseSweep, CloseCommand, CloseTakeOutbound, CloseTakeInbound, CloseTake,
        CloseJoinOutbound, CloseEmit, connVars
<1>4. QED
  BY <1>1, <1>2, <1>3
  DEF Next, vars, connVars, CallerNext, StartSend, StartQuery, StartDuplicate, CheckClosed,
      Enqueue, EnqueueFails, WaitReturns, WaitTimesOut, Cancel

LEMMA TagsOnceStep ==
  ASSUME TypeOK, QueryInv, TagsOnce, [Next]_vars
  PROVE  TagsOnce'
<1> SUFFICES ASSUME ExplicitTags = {}
             PROVE  TagsOnce'
  BY DEF TagsOnce
<1> USE QueryAssumption DEF TypeOK, QueryTypeOK, CallerTypeOK
<1>1. ASSUME unused' \subseteq unused, \A t \in unused' : waiters'[t] = Nobody,
             \A c \in Callers : tag'[c] \in {tag[c], None}
      PROVE  TagsOnce'
  <2>1. None \notin unused'
    BY <1>1 DEF Tags
  <2>2. QED BY <1>1, <2>1 DEF TagsOnce
<1>2. \A t \in unused : t \in Tags /\ waiters[t] = Nobody
  BY DEF TagsOnce, Tags
<1>3. CASE UNCHANGED queryVars
  BY <1>1, <1>2, <1>3 DEF queryVars
<1>4. ASSUME NEW c \in Callers, CallerNext(c) PROVE TagsOnce'
  <2>1. ASSUME NEW k \in Conns, NEW t \in Tags, StartQuery(c, k, t) PROVE TagsOnce'
    <3>1. /\ t \in unused /\ unused' = unused \ {t}
          /\ waiters' = [waiters EXCEPT ![t] = c] /\ tag' = [tag EXCEPT ![c] = t]
      BY <2>1 DEF StartQuery, NextTag, Register
    <3>2. \A u \in unused' : waiters'[u] = Nobody
      BY <1>2, <3>1
    <3>3. \A d \in Callers : tag'[d] \notin unused'
      BY <3>1 DEF TagsOnce
    <3>4. \A d \in Callers : tag[d] # t
      BY <3>1 DEF TagsOnce
    <3>5. \A d, e \in Callers : tag'[d] = tag'[e] /\ tag'[d] # None => d = e
      BY <3>1, <3>4 DEF TagsOnce
    <3>6. QED BY <3>2, <3>3, <3>5 DEF TagsOnce
  <2>2. ASSUME NEW k \in Conns, NEW t \in Tags, StartDuplicate(c, k, t) PROVE TagsOnce'
    BY <1>2, <2>2 DEF StartDuplicate, NextTag, RegisterDuplicate
  <2>3. CASE DropWaiter(c)
    <3>1. CASE tag[c] = None BY <1>3, <2>3, <3>1 DEF DropWaiter
    <3>2. CASE tag[c] # None BY <1>1, <1>2, <2>3, <3>2 DEF DropWaiter, RemoveWaiter
    <3>3. QED BY <3>1, <3>2
  <2>4. CASE WaitReturns(c)
    BY <1>1, <1>2, <2>4 DEF WaitReturns, Complete
  <2>5. CASE WaitTimesOut(c)
    BY <1>1, <1>2, <2>5 DEF WaitTimesOut, RemoveWaiter
  <2>6. QED
    BY <1>3, <1>4, <2>1, <2>2, <2>3, <2>4, <2>5
    DEF CallerNext, StartSend, CheckClosed, Enqueue, EnqueueFails, Cancel, queryVars
<1>5. CASE ClosePending
  BY <1>1, <1>2, <1>5 DEF ClosePending
<1>6. ASSUME NEW t, NEW id, Resolve(t, id) PROVE TagsOnce'
  BY <1>1, <1>2, <1>6 DEF Resolve
<1>7. ASSUME NEW k \in Conns, TaskNext(k) PROVE TagsOnce'
  BY <1>3, <1>5, <1>6, <1>7
  DEF TaskNext, SpawnTasks, SpawnReturns, OutboundRecv, SinkSend, SinkClose, InboundFrame,
      InboundEnds, MarkSwap, MarkSweep, MarkEmit, queryVars
<1>8. ASSUME NEW x \in Closers, CloserNext(x) PROVE TagsOnce'
  BY <1>3, <1>5, <1>8
  DEF CloserNext, CloseSwap, CloseSweep, CloseCommand, CloseTakeOutbound, CloseTakeInbound,
      CloseTake, CloseJoinOutbound, CloseJoinInbound, CloseEmit, queryVars
<1>9. QED BY <1>3, <1>4, <1>7, <1>8 DEF Next, vars

\* One caller's receiver is closed by what another does only when a connection closes.
LEMMA RealStep ==
  ASSUME TypeOK, QueryInv, TagsOnce, TasksClosed, CloserClosed, ClosedResultIsReal, [Next]_vars
  PROVE  ClosedResultIsReal'
<1> SUFFICES ASSUME ExplicitTags = {}, NEW c \in Callers, rx'[c] = "closed"
             PROVE  \E k \in Conns : closed'[k]
  BY DEF ClosedResultIsReal
<1> USE QueryAssumption DEF TypeOK, QueryTypeOK, CallerTypeOK
<1>1. \A k \in Conns : closed[k] => closed'[k]
  BY ClosedStays
<1>2. CASE rx[c] = "closed"
  BY <1>1, <1>2 DEF ClosedResultIsReal
<1>3. CASE rx[c] # "closed"
  <2>1. ~ UNCHANGED queryVars
    BY <1>3 DEF queryVars
  <2>2. ASSUME NEW d \in Callers, tag[d] # None, RemoveWaiter(d) PROVE FALSE
    <3>1. c # d /\ waiters[tag[d]] = c /\ tag[d] \in Tags
      BY <1>3, <2>2 DEF RemoveWaiter, Dropped
    <3>2. tag[c] = tag[d]
      BY <3>1 DEF QueryInv, EntriesLive
    <3>3. QED BY <2>2, <3>1, <3>2 DEF TagsOnce
  <2>3. ASSUME NEW d \in Callers, CallerNext(d) PROVE FALSE
    <3>1. ASSUME NEW k \in Conns, NEW t \in Tags, StartQuery(d, k, t) PROVE FALSE
      BY <1>3, <3>1 DEF StartQuery, Register
    <3>2. ASSUME NEW k \in Conns, NEW t \in Tags, StartDuplicate(d, k, t) PROVE FALSE
      BY <3>2 DEF StartDuplicate, NextTag, RegisterDuplicate, TagsOnce
    <3>3. CASE DropWaiter(d)
      BY <2>1, <2>2, <3>3 DEF DropWaiter
    <3>4. CASE WaitReturns(d)
      BY <1>3, <3>4 DEF WaitReturns, Complete
    <3>5. CASE WaitTimesOut(d)
      <4>1. tag[d] # None
        BY <3>5 DEF WaitTimesOut, QueryInv, WaiterShape
      <4>2. QED BY <2>2, <3>5, <4>1 DEF WaitTimesOut
    <3>6. QED
      BY <2>1, <2>3, <3>1, <3>2, <3>3, <3>4, <3>5
      DEF CallerNext, StartSend, CheckClosed, Enqueue, EnqueueFails, Cancel
  <2>4. ASSUME NEW k \in Conns, TaskNext(k) PROVE \E h \in Conns : closed'[h]
    <3>1. ASSUME NEW t \in Tags \cup {None}, NEW id \in Tags \cup {None}, InboundFrame(k, t, id)
          PROVE  FALSE
      BY <1>3, <3>1 DEF InboundFrame, Resolve
    <3>2. ASSUME NEW s \in Sides, MarkSweep(k, s) PROVE closed'[k]
      BY <3>2 DEF MarkSweep, TasksClosed
    <3>3. QED
      BY <2>1, <2>4, <3>1, <3>2
      DEF TaskNext, SpawnTasks, SpawnReturns, OutboundRecv, SinkSend, SinkClose, InboundEnds,
          MarkSwap, MarkEmit
  <2>5. ASSUME NEW x \in Closers, CloserNext(x) PROVE \E h \in Conns : closed'[h]
    <3>1. CASE CloseSweep(x)
      <4>1. closed[target[x]] /\ target[x] \in Conns
        BY <3>1 DEF CloseSweep, CloserClosed, CloserTypeOK
      <4>2. QED BY <1>1, <4>1
    <3>2. QED
      BY <2>1, <2>5, <3>1
      DEF CloserNext, CloseSwap, CloseCommand, CloseTakeOutbound, CloseTakeInbound, CloseTake,
          CloseJoinOutbound, CloseJoinInbound, CloseEmit
  <2>6. QED BY <2>1, <2>3, <2>4, <2>5 DEF Next, vars
<1>4. QED BY <1>2, <1>3

\* While every tag comes from next_tag, a query fails with ConnectionClosed only after a
\* connection that shares the table was closed: no timeout, cancellation or registration
\* of another caller closes its receiver.
THEOREM ClosedResultsReal == Spec => []ClosedResultIsReal
<1>1. Init => TasksClosed /\ TagsOnce /\ CloserClosed /\ ClosedResultIsReal
  BY QueryAssumption
  DEF Init, QueryInit, TasksClosed, TagsOnce, CloserClosed, ClosedResultIsReal, Tags, Sides
<1>2. TypeOK /\ QueryInv /\ TasksClosed /\ TagsOnce /\ CloserClosed /\ ClosedResultIsReal
        /\ [Next]_vars
      => TasksClosed' /\ TagsOnce' /\ CloserClosed' /\ ClosedResultIsReal'
  BY TasksClosedStep, TagsOnceStep, CloserClosedStep, RealStep
<1>3. QED BY <1>1, <1>2, TypeCorrect, QueryTableSound, PTL DEF Spec

-----------------------------------------------------------------------------
(* Who closes alone finds both handles, joins both tasks, and the one that  *)
(* set the flag first announces it: himself or a task he joined.            *)

Sole(x) == \A y \in Closers \ {x} : target[y] # target[x]

ClosersOpen ==
  \A x \in Closers : /\ cpc[x] = "idle" => target[x] = None
                     /\ cpc[x] # "idle" => stage[target[x]] = "open"

HandlesHeld ==
  \A k \in Conns : stage[k] = "open" /\ (\A x \in Closers : target[x] # k) =>
    \A s \in Sides : handle[k][s]

Joins ==
  \A x \in Closers : Sole(x) =>
    /\ cpc[x] \in {"sweep", "command", "takeOut"} => handle[target[x]]["outbound"]
    /\ cpc[x] \in {"sweep", "command", "takeOut", "joinOut", "takeIn"} =>
         handle[target[x]]["inbound"]
    /\ cpc[x] \in {"takeIn", "joinIn", "emit", "ok"} =>
         task[target[x]]["outbound"] = "ended"
    /\ cpc[x] \in {"emit", "ok"} => task[target[x]]["inbound"] = "ended"
    /\ cpc[x] = "ok" /\ ~was[x] => Announced(target[x])

ClosedBy ==
  \A k \in Conns : closed[k] =>
    \/ \E x \in Closers : target[x] = k /\ ~was[x]
    \/ \E s \in Sides : TaskEmits(k, s)
    \/ Announced(k)

DownInv == ClosersOpen /\ HandlesHeld /\ Joins /\ ClosedBy

LEMMA DownImplies ==
  ASSUME TypeOK, CloserClosed, DownInv
  PROVE  CloseOkMeansDown
<1> SUFFICES ASSUME NEW x \in Closers, cpc[x] = "ok", Sole(x)
             PROVE  /\ \A s \in Sides : task[target[x]][s] = "ended"
                    /\ Announced(target[x])
  BY DEF CloseOkMeansDown, Sole
<1>1. target[x] \in Conns /\ closed[target[x]]
  BY DEF TypeOK, CloserTypeOK, CloserClosed
<1>2. \A s \in Sides : task[target[x]][s] = "ended"
  BY DEF DownInv, Joins, Sides
<1>3. Announced(target[x])
  <2>1. CASE ~was[x]
    BY <2>1 DEF DownInv, Joins
  <2>2. CASE was[x]
    <3>1. ~ \E y \in Closers : target[y] = target[x] /\ ~was[y]
      BY <2>2 DEF Sole
    <3>2. ~ \E s \in Sides : TaskEmits(target[x], s)
      BY <1>2 DEF TaskEmits
    <3>3. QED BY <1>1, <3>1, <3>2 DEF DownInv, ClosedBy
  <2>3. QED BY <2>1, <2>2
<1>4. QED BY <1>2, <1>3

\* Steps of the tasks and of the callers: a task that ended stays ended, and the one
\* that sets the flag emits before it ends.
LEMMA DownTasks ==
  ASSUME TypeOK, DownInv, UNCHANGED closerVars,
         \A k \in Conns : stage[k] = "open" => stage'[k] = "open",
         \A k \in Conns, s \in Sides : handle[k][s] => handle'[k][s],
         \A k \in Conns : stage'[k] = "open" => stage[k] = "open" \/ \A s \in Sides : handle'[k][s],
         \A k \in Conns, s \in Sides : task[k][s] = "ended" => task'[k][s] = "ended",
         \A k \in Conns : Announced(k) => Announced(k)',
         \A k \in Conns : closed'[k] => closed[k] \/ \E s \in Sides : TaskEmits(k, s)',
         \A k \in Conns, s \in Sides : TaskEmits(k, s) => TaskEmits(k, s)' \/ Announced(k)'
  PROVE  DownInv'
<1>1. /\ target' = target /\ cpc' = cpc /\ was' = was
      /\ \A x \in Closers : Sole(x)' <=> Sole(x)
  BY DEF closerVars, Sole
<1>2. \A x \in Closers : cpc[x] # "idle" => target[x] \in Conns
  BY DEF TypeOK, CloserTypeOK
<1>3. ClosersOpen'
  BY <1>1, <1>2 DEF DownInv, ClosersOpen
<1>4. HandlesHeld'
  <2> SUFFICES ASSUME NEW k \in Conns, stage'[k] = "open", \A x \in Closers : target[x] # k,
                      NEW s \in Sides
               PROVE  handle'[k][s]
    BY <1>1 DEF HandlesHeld
  <2>1. CASE stage[k] = "open"
    BY <2>1 DEF DownInv, HandlesHeld
  <2>2. CASE stage[k] # "open"
    BY <2>2
  <2>3. QED BY <2>1, <2>2
<1>5. Joins'
  <2> SUFFICES ASSUME NEW x \in Closers, Sole(x)
               PROVE
    /\ cpc[x] \in {"sweep", "command", "takeOut"} => handle'[target[x]]["outbound"]
    /\ cpc[x] \in {"sweep", "command", "takeOut", "joinOut", "takeIn"} =>
         handle'[target[x]]["inbound"]
    /\ cpc[x] \in {"takeIn", "joinIn", "emit", "ok"} =>
         task'[target[x]]["outbound"] = "ended"
    /\ cpc[x] \in {"emit", "ok"} => task'[target[x]]["inbound"] = "ended"
    /\ cpc[x] = "ok" /\ ~was[x] => Announced(target[x])'
    BY <1>1 DEF Joins, Announced
  <2>1. "outbound" \in Sides /\ "inbound" \in Sides
    BY DEF Sides
  <2>2. PICK k : k = target[x]
    OBVIOUS
  <2>3. CASE cpc[x] = "idle"
    BY <2>3
  <2>4. CASE cpc[x] # "idle"
    <3>1. k \in Conns
      BY <1>2, <2>2, <2>4
    <3>2. cpc[x] = "ok" /\ ~was[x] => Announced(k)'
      BY <2>2, <3>1 DEF DownInv, Joins
    <3>3. /\ handle[k]["outbound"] => handle'[k]["outbound"]
          /\ handle[k]["inbound"] => handle'[k]["inbound"]
          /\ task[k]["outbound"] = "ended" => task'[k]["outbound"] = "ended"
          /\ task[k]["inbound"] = "ended" => task'[k]["inbound"] = "ended"
      BY <2>1, <3>1
    <3>4. /\ cpc[x] \in {"sweep", "command", "takeOut"} => handle[k]["outbound"]
          /\ cpc[x] \in {"sweep", "command", "takeOut", "joinOut", "takeIn"} => handle[k]["inbound"]
          /\ cpc[x] \in {"takeIn", "joinIn", "emit", "ok"} => task[k]["outbound"] = "ended"
          /\ cpc[x] \in {"emit", "ok"} => task[k]["inbound"] = "ended"
      BY <2>2 DEF DownInv, Joins
    <3>5. cpc[x] = "ok" /\ ~was[x] => Announced(target[x])'
      BY <1>1, <2>2, <3>2 DEF Announced
    <3>6. QED BY <2>2, <3>3, <3>4, <3>5
  <2>5. QED BY <2>3, <2>4
<1>6. ClosedBy'
  <2> SUFFICES ASSUME NEW k \in Conns, closed'[k]
               PROVE  \/ \E x \in Closers : target[x] = k /\ ~was[x]
                      \/ \E s \in Sides : TaskEmits(k, s)'
                      \/ Announced(k)'
    BY <1>1 DEF ClosedBy, TaskEmits, Announced
  <2>1. CASE \E s \in Sides : TaskEmits(k, s)'
    BY <2>1
  <2>2. CASE closed[k]
    BY <2>2 DEF DownInv, ClosedBy
  <2>3. QED BY <2>1, <2>2
<1>7. QED BY <1>3, <1>4, <1>5, <1>6 DEF DownInv

LEMMA DownCaller ==
  ASSUME TypeOK, DownInv, NEW c \in Callers, CallerNext(c)
  PROVE  DownInv'
<1>1. UNCHANGED <<stage, closed, task, handle, events, closerVars>>
  BY DEF connVars, CallerNext, StartSend, StartQuery, StartDuplicate, CheckClosed,
         Enqueue, EnqueueFails, WaitReturns, WaitTimesOut, Cancel
<1>2. /\ \A k \in Conns, s \in Sides : TaskEmits(k, s)' <=> TaskEmits(k, s)
      /\ \A k \in Conns : Announced(k)' <=> Announced(k)
  BY <1>1 DEF TaskEmits, Announced
<1>3. QED BY <1>1, <1>2, DownTasks

\* What has been emitted stays emitted.
LEMMA EmitAnnounces ==
  ASSUME TypeOK, NEW k \in Conns, NEW e \in {"Open", "Closed"}, Emit(k, e)
  PROVE  /\ \A h \in Conns : Announced(h) => Announced(h)'
         /\ e = "Closed" => Announced(k)'
<1>1. PICK len \in Nat : len = Len(events[k])
  BY DEF TypeOK, ConnTypeOK
<1>2. events'[k] = Append(events[k], e) /\ \A h \in Conns \ {k} : events'[h] = events[h]
  BY DEF Emit, TypeOK, ConnTypeOK
<1>3. /\ Len(events'[k]) = len + 1 /\ events'[k][len + 1] = e
      /\ \A i \in 1 .. len : events'[k][i] = events[k][i]
  BY <1>1, <1>2 DEF TypeOK, ConnTypeOK
<1>4. Announced(k) => Announced(k)'
  BY <1>1, <1>3 DEF Announced
<1>5. \A h \in Conns \ {k} : Announced(h) => Announced(h)'
  BY <1>2 DEF Announced
<1>6. e = "Closed" => Announced(k)'
  <2>1. len + 1 \in 1 .. Len(events'[k])
    BY <1>1, <1>3
  <2>2. QED BY <1>3, <2>1 DEF Announced
<1>7. QED BY <1>4, <1>5, <1>6

LEMMA DownTask ==
  ASSUME TypeOK, DownInv, NEW k \in Conns, TaskNext(k)
  PROVE  DownInv'
<1>1. UNCHANGED closerVars
  BY DEF TaskNext, SpawnTasks, SpawnReturns, OutboundRecv, SinkSend, SinkClose, InboundFrame,
         InboundEnds, MarkSwap, MarkSweep, MarkEmit
<1>2. ASSUME UNCHANGED <<stage, handle, events, closed>>,
             \A h \in Conns, s \in Sides : task[h][s] = "ended" => task'[h][s] = "ended",
             \A h \in Conns, s \in Sides : TaskEmits(h, s) => TaskEmits(h, s)'
      PROVE  DownInv'
  <2>1. \A h \in Conns : Announced(h)' <=> Announced(h)
    BY <1>2 DEF Announced
  <2>2. QED BY <1>1, <1>2, <2>1, DownTasks
<1> USE DEF TypeOK, ConnTypeOK, SetTask
<1>3. CASE SpawnTasks(k)
  <2>1. /\ stage[k] = "none" /\ stage' = [stage EXCEPT ![k] = "spawned"]
        /\ \A h \in Conns \ {k} : task'[h] = task[h]
        /\ \A s \in Sides : task[k][s] = "none"
        /\ UNCHANGED <<closed, handle, events>>
    BY <1>3 DEF SpawnTasks
  <2>2. /\ \A h \in Conns : stage[h] = "open" => stage'[h] = "open"
        /\ \A h \in Conns : stage'[h] = "open" => stage[h] = "open"
    BY <2>1
  <2>3. /\ \A h \in Conns : Announced(h)' <=> Announced(h)
        /\ \A h \in Conns, s \in Sides : TaskEmits(h, s) => TaskEmits(h, s)'
        /\ \A h \in Conns, s \in Sides : task[h][s] = "ended" => task'[h][s] = "ended"
    BY <2>1 DEF Announced, TaskEmits
  <2>4. QED BY <1>1, <2>1, <2>2, <2>3, DownTasks
<1>4. CASE SpawnReturns(k)
  <2>1. /\ stage' = [stage EXCEPT ![k] = "open"] /\ handle' = [handle EXCEPT ![k] = [s \in Sides |-> TRUE]]
        /\ Emit(k, "Open") /\ UNCHANGED <<closed, task>>
    BY <1>4 DEF SpawnReturns
  <2>2. \A h \in Conns : Announced(h) => Announced(h)'
    BY <2>1, EmitAnnounces
  <2>3. \A h \in Conns, s \in Sides : TaskEmits(h, s) => TaskEmits(h, s)'
    BY <2>1 DEF TaskEmits
  <2>4. QED BY <1>1, <2>1, <2>2, <2>3, DownTasks
<1>5. CASE OutboundRecv(k) BY <1>2, <1>5 DEF OutboundRecv, TaskEmits, Sides
<1>6. CASE SinkSend(k)
  <2> USE <1>6 DEF SinkSend
  <2>1. CASE SetTask(k, "outbound", "recv") BY <1>2, <2>1 DEF TaskEmits, Sides
  <2>2. CASE SetTask(k, "outbound", "mark") BY <1>2, <2>2 DEF TaskEmits, Sides
  <2>3. QED BY <2>1, <2>2
<1>7. CASE SinkClose(k) BY <1>2, <1>7 DEF SinkClose, TaskEmits, Sides
<1>8. ASSUME NEW t \in Tags \cup {None}, NEW id \in Tags \cup {None}, InboundFrame(k, t, id)
      PROVE  DownInv'
  BY <1>2, <1>8 DEF InboundFrame, connVars, TaskEmits
<1>9. CASE InboundEnds(k) BY <1>2, <1>9 DEF InboundEnds, TaskEmits, Sides
<1>10. ASSUME NEW s \in Sides, MarkSwap(k, s) PROVE DownInv'
  <2>1. /\ task[k][s] = "mark" /\ closed' = [closed EXCEPT ![k] = TRUE]
        /\ task' = [task EXCEPT ![k][s] = IF closed[k] THEN "ended" ELSE "sweep"]
        /\ UNCHANGED <<stage, handle, events>>
    BY <1>10 DEF MarkSwap
  <2>2. \A h \in Conns : Announced(h)' <=> Announced(h)
    BY <2>1 DEF Announced
  <2>3. /\ \A h \in Conns, r \in Sides : task[h][r] = "ended" => task'[h][r] = "ended"
        /\ \A h \in Conns, r \in Sides : TaskEmits(h, r) => TaskEmits(h, r)'
    BY <2>1 DEF TaskEmits
  <2>4. \A h \in Conns : closed'[h] => closed[h] \/ \E r \in Sides : TaskEmits(h, r)'
    BY <2>1 DEF TaskEmits
  <2>5. QED BY <1>1, <2>1, <2>2, <2>3, <2>4, DownTasks
<1>11. ASSUME NEW s \in Sides, MarkSweep(k, s) PROVE DownInv'
  BY <1>2, <1>11 DEF MarkSweep, TaskEmits
<1>12. ASSUME NEW s \in Sides, MarkEmit(k, s) PROVE DownInv'
  <2>1. /\ task[k][s] = "emit" /\ Emit(k, "Closed")
        /\ task' = [task EXCEPT ![k][s] = "ended"] /\ UNCHANGED <<stage, handle, closed>>
    BY <1>12 DEF MarkEmit
  <2>2. Announced(k)' /\ \A h \in Conns : Announced(h) => Announced(h)'
    BY <2>1, EmitAnnounces
  <2>3. /\ \A h \in Conns, r \in Sides : task[h][r] = "ended" => task'[h][r] = "ended"
        /\ \A h \in Conns, r \in Sides : TaskEmits(h, r) => TaskEmits(h, r)' \/ Announced(h)'
    BY <2>1, <2>2 DEF TaskEmits
  <2>4. QED BY <1>1, <2>1, <2>2, <2>3, DownTasks
<1>13. QED
  BY <1>3, <1>4, <1>5, <1>6, <1>7, <1>8, <1>9, <1>10, <1>11, <1>12 DEF TaskNext

\* A closer that starts finds the handles of a connection nobody else closes.
LEMMA DownSwap ==
  ASSUME TypeOK, DownInv, NEW x \in Closers, NEW k \in Conns, CloseSwap(x, k)
  PROVE  DownInv'
<1> USE DEF TypeOK, CloserTypeOK
<1>1. /\ cpc[x] = "idle" /\ stage[k] = "open"
      /\ was' = [was EXCEPT ![x] = closed[k]]
      /\ target' = [target EXCEPT ![x] = k] /\ cpc' = [cpc EXCEPT ![x] = "sweep"]
      /\ UNCHANGED <<stage, task, handle, events>>
  BY DEF CloseSwap, Goto
<1>2. closed' = [closed EXCEPT ![k] = TRUE] /\ closed \in [Conns -> BOOLEAN]
  BY DEF CloseSwap, ConnTypeOK
<1>3. target[x] = None /\ None \notin Conns
  BY <1>1, ConnectionAssumption DEF DownInv, ClosersOpen
<1>4. ClosersOpen'
  BY <1>1 DEF DownInv, ClosersOpen
<1>5. HandlesHeld'
  <2> SUFFICES ASSUME NEW h \in Conns, stage[h] = "open", \A y \in Closers : target'[y] # h,
                      NEW s \in Sides
               PROVE  handle[h][s]
    BY <1>1 DEF HandlesHeld
  <2>1. \A y \in Closers : target[y] # h
    BY <1>1, <1>3
  <2>2. QED BY <2>1 DEF DownInv, HandlesHeld
<1>6. Joins'
  <2>1. ASSUME NEW y \in Closers \ {x}, Sole(y)', cpc[y] # "idle" PROVE Sole(y)
    BY <1>1, <1>3, <2>1 DEF Sole
  <2>2. ASSUME Sole(x)' PROVE handle[k]["outbound"] /\ handle[k]["inbound"]
    <3>1. \A y \in Closers : target[y] # k
      BY <1>1, <1>3, <2>2 DEF Sole
    <3>2. QED BY <1>1, <3>1 DEF DownInv, HandlesHeld, Sides
  <2>3. cpc'[x] = "sweep" /\ target'[x] = k
    BY <1>1
  <2>4. \A y \in Closers \ {x} : cpc'[y] = cpc[y] /\ target'[y] = target[y] /\ was'[y] = was[y]
    BY <1>1
  <2>5. ASSUME NEW y \in Closers, Sole(y)'
        PROVE  /\ cpc'[y] \in {"sweep", "command", "takeOut"} => handle'[target'[y]]["outbound"]
               /\ cpc'[y] \in {"sweep", "command", "takeOut", "joinOut", "takeIn"} =>
                    handle'[target'[y]]["inbound"]
               /\ cpc'[y] \in {"takeIn", "joinIn", "emit", "ok"} =>
                    task'[target'[y]]["outbound"] = "ended"
               /\ cpc'[y] \in {"emit", "ok"} => task'[target'[y]]["inbound"] = "ended"
               /\ cpc'[y] = "ok" /\ ~was'[y] => Announced(target[y])'
    <3>1. CASE y = x
      BY <1>1, <2>2, <2>3, <2>5, <3>1
    <3>2. CASE y # x /\ cpc[y] = "idle"
      BY <2>4, <3>2
    <3>3. CASE y # x /\ cpc[y] # "idle"
      <4>1. Sole(y)
        BY <2>1, <2>5, <3>3
      <4>2. QED BY <1>1, <2>4, <3>3, <4>1 DEF DownInv, Joins, Announced
    <3>4. QED BY <3>1, <3>2, <3>3
  <2>6. QED BY <2>5 DEF Joins
<1>7. ClosedBy'
  <2> SUFFICES ASSUME NEW h \in Conns, closed'[h]
               PROVE  \/ \E y \in Closers : target'[y] = h /\ ~was'[y]
                      \/ \E s \in Sides : TaskEmits(h, s)'
                      \/ Announced(h)'
    BY DEF ClosedBy, TaskEmits, Announced
  <2>1. CASE closed[h]
    <3>1. ASSUME NEW y \in Closers, target[y] = h, ~was[y] PROVE target'[y] = h /\ ~was'[y]
      BY <1>1, <1>3, <3>1
    <3>2. Announced(h) => Announced(h)'
      BY <1>1 DEF Announced
    <3>3. \A s \in Sides : TaskEmits(h, s) => TaskEmits(h, s)'
      BY <1>1 DEF TaskEmits
    <3>4. QED BY <2>1, <3>1, <3>2, <3>3 DEF DownInv, ClosedBy
  <2>2. CASE ~closed[h]
    <3>1. h = k
      BY <1>2, <2>2
    <3>2. target'[x] = h /\ ~was'[x]
      BY <1>1, <1>2, <2>2, <3>1
    <3>3. QED BY <3>2
  <2>3. QED BY <2>1, <2>2
<1>8. QED BY <1>4, <1>5, <1>6, <1>7 DEF DownInv

\* Any later step of a closer touches only the handles of its own connection, so it
\* is enough that the closer itself, if it is alone, arrives as Joins says.
LEMMA DownMove ==
  ASSUME TypeOK, DownInv, NEW x \in Closers, cpc[x] # "idle", NEW p, p # "idle", Goto(x, p),
         UNCHANGED <<target, was, stage, closed>>,
         \A k \in Conns : k # target[x] => handle'[k] = handle[k],
         \A k \in Conns, s \in Sides : task[k][s] = "ended" => task'[k][s] = "ended",
         \A k \in Conns, s \in Sides : TaskEmits(k, s) => TaskEmits(k, s)',
         \A k \in Conns : Announced(k) => Announced(k)',
         Sole(x) =>
           /\ p \in {"sweep", "command", "takeOut"} => handle'[target[x]]["outbound"]
           /\ p \in {"sweep", "command", "takeOut", "joinOut", "takeIn"} =>
                handle'[target[x]]["inbound"]
           /\ p \in {"takeIn", "joinIn", "emit", "ok"} => task'[target[x]]["outbound"] = "ended"
           /\ p \in {"emit", "ok"} => task'[target[x]]["inbound"] = "ended"
           /\ p = "ok" /\ ~was[x] => Announced(target[x])'
  PROVE  DownInv'
<1> USE DEF TypeOK, CloserTypeOK
<1>1. /\ cpc' = [cpc EXCEPT ![x] = p] /\ target' = target /\ was' = was
      /\ stage' = stage /\ closed' = closed
  BY DEF Goto
<1>2. ClosersOpen'
  BY <1>1 DEF DownInv, ClosersOpen
<1>3. HandlesHeld'
  <2> SUFFICES ASSUME NEW h \in Conns, stage[h] = "open", \A y \in Closers : target[y] # h,
                      NEW s \in Sides
               PROVE  handle'[h][s]
    BY <1>1 DEF HandlesHeld
  <2>1. QED BY DEF DownInv, HandlesHeld
<1>4. Joins'
  <2>1. \A y \in Closers \ {x} : cpc'[y] = cpc[y]
    BY <1>1
  <2>2. ASSUME NEW y \in Closers, Sole(y)
        PROVE  /\ cpc'[y] \in {"sweep", "command", "takeOut"} => handle'[target[y]]["outbound"]
               /\ cpc'[y] \in {"sweep", "command", "takeOut", "joinOut", "takeIn"} =>
                    handle'[target[y]]["inbound"]
               /\ cpc'[y] \in {"takeIn", "joinIn", "emit", "ok"} =>
                    task'[target[y]]["outbound"] = "ended"
               /\ cpc'[y] \in {"emit", "ok"} => task'[target[y]]["inbound"] = "ended"
               /\ cpc'[y] = "ok" /\ ~was[y] => Announced(target[y])'
    <3>1. CASE y = x
      BY <1>1, <2>2, <3>1
    <3>2. CASE y # x /\ cpc[y] = "idle"
      BY <2>1, <3>2
    <3>3. CASE y # x /\ cpc[y] # "idle"
      <4>1. PICK k \in Conns : k = target[y]
        BY <3>3
      <4>2. handle'[k] = handle[k]
        BY <2>2, <3>3, <4>1 DEF Sole
      <4>3. /\ task[k]["outbound"] = "ended" => task'[k]["outbound"] = "ended"
            /\ task[k]["inbound"] = "ended" => task'[k]["inbound"] = "ended"
        BY DEF Sides
      <4>4. cpc'[y] = cpc[y]
        BY <2>1, <3>3
      <4>5. /\ cpc[y] \in {"sweep", "command", "takeOut"} => handle[k]["outbound"]
            /\ cpc[y] \in {"sweep", "command", "takeOut", "joinOut", "takeIn"} =>
                 handle[k]["inbound"]
            /\ cpc[y] \in {"takeIn", "joinIn", "emit", "ok"} => task[k]["outbound"] = "ended"
            /\ cpc[y] \in {"emit", "ok"} => task[k]["inbound"] = "ended"
            /\ cpc[y] = "ok" /\ ~was[y] => Announced(k)
        BY <2>2, <4>1 DEF DownInv, Joins
      <4>6. cpc[y] = "ok" /\ ~was[y] => Announced(k)'
        BY <4>5
      <4>7. cpc[y] = "ok" /\ ~was[y] => Announced(target[y])'
        BY <1>1, <4>1, <4>6 DEF Announced
      <4>8. QED BY <4>1, <4>2, <4>3, <4>4, <4>5, <4>7
    <3>4. QED BY <3>1, <3>2, <3>3
  <2>3. \A y \in Closers : Sole(y)' <=> Sole(y)
    BY <1>1 DEF Sole
  <2>4. QED BY <1>1, <2>2, <2>3 DEF Joins
<1>5. ClosedBy'
  <2> SUFFICES ASSUME NEW h \in Conns, closed[h]
               PROVE  \/ \E y \in Closers : target[y] = h /\ ~was[y]
                      \/ \E s \in Sides : TaskEmits(h, s)'
                      \/ Announced(h)'
    BY <1>1 DEF ClosedBy, TaskEmits, Announced
  <2>1. QED BY DEF DownInv, ClosedBy
<1>6. QED BY <1>2, <1>3, <1>4, <1>5 DEF DownInv

LEMMA DownCloser ==
  ASSUME TypeOK, DownInv, NEW x \in Closers, CloserNext(x)
  PROVE  DownInv'
<1> DEFINE k == target[x]
<1> USE DEF TypeOK
<1>1. ASSUME NEW h \in Conns, CloseSwap(x, h) PROVE DownInv'
  BY <1>1, DownSwap
<1>2. CASE cpc[x] = "idle"
  BY <1>1, <1>2
  DEF CloserNext, CloseSweep, CloseCommand, CloseTakeOutbound, CloseTakeInbound, CloseTake,
      CloseJoinOutbound, CloseJoinInbound, CloseEmit
<1>3. ASSUME UNCHANGED events PROVE \A h \in Conns : Announced(h) => Announced(h)'
  BY <1>3 DEF Announced
<1>4. ASSUME UNCHANGED task
      PROVE  /\ \A h \in Conns, s \in Sides : task[h][s] = "ended" => task'[h][s] = "ended"
             /\ \A h \in Conns, s \in Sides : TaskEmits(h, s) => TaskEmits(h, s)'
  BY <1>4 DEF TaskEmits
<1>5. ASSUME cpc[x] # "idle"
      PROVE  k \in Conns /\ (Sole(x) =>
               /\ cpc[x] \in {"sweep", "command", "takeOut"} => handle[k]["outbound"]
               /\ cpc[x] \in {"sweep", "command", "takeOut", "joinOut", "takeIn"} =>
                    handle[k]["inbound"]
               /\ cpc[x] \in {"takeIn", "joinIn", "emit", "ok"} => task[k]["outbound"] = "ended"
               /\ cpc[x] \in {"emit", "ok"} => task[k]["inbound"] = "ended")
  BY <1>5 DEF DownInv, Joins, CloserTypeOK
<1>6. CASE CloseSweep(x)
  <2>1. cpc[x] = "sweep" /\ Goto(x, "command") /\ UNCHANGED <<target, was, connVars>>
    BY <1>6 DEF CloseSweep
  <2>2. QED BY <1>3, <1>4, <1>5, <2>1, DownMove DEF connVars
<1>7. CASE CloseCommand(x)
  <2>1. /\ cpc[x] = "command" /\ Goto(x, "takeOut")
        /\ UNCHANGED <<target, was, stage, closed, task, handle, events>>
    BY <1>7 DEF CloseCommand
  <2>2. QED BY <1>3, <1>4, <1>5, <2>1, DownMove
<1>8. CASE CloseTakeOutbound(x)
  <2>1. /\ cpc[x] = "takeOut" /\ handle' = [handle EXCEPT ![k]["outbound"] = FALSE]
        /\ Goto(x, IF handle[k]["outbound"] THEN "joinOut" ELSE "takeIn")
        /\ UNCHANGED <<target, was, stage, closed, task, events>>
    BY <1>8 DEF CloseTakeOutbound, CloseTake
  <2>2. PICK p : p = IF handle[k]["outbound"] THEN "joinOut" ELSE "takeIn"
    OBVIOUS
  <2>3. k \in Conns /\ Goto(x, p) /\ p \in {"joinOut", "takeIn"}
    BY <1>5, <2>1, <2>2
  <2>4. /\ \A h \in Conns : h # k => handle'[h] = handle[h]
        /\ handle'[k]["inbound"] = handle[k]["inbound"]
    BY <2>1, <2>3 DEF ConnTypeOK, Sides
  <2>5. Sole(x) => p = "joinOut" /\ handle'[k]["inbound"]
    BY <1>5, <2>1, <2>2, <2>4
  <2>6. QED BY <1>3, <1>4, <2>1, <2>3, <2>4, <2>5, DownMove
<1>9. CASE CloseTakeInbound(x)
  <2>1. /\ cpc[x] = "takeIn" /\ handle' = [handle EXCEPT ![k]["inbound"] = FALSE]
        /\ Goto(x, IF handle[k]["inbound"] THEN "joinIn" ELSE "emit")
        /\ UNCHANGED <<target, was, stage, closed, task, events>>
    BY <1>9 DEF CloseTakeInbound, CloseTake
  <2>2. PICK p : p = IF handle[k]["inbound"] THEN "joinIn" ELSE "emit"
    OBVIOUS
  <2>3. k \in Conns /\ Goto(x, p) /\ p \in {"joinIn", "emit"}
    BY <1>5, <2>1, <2>2
  <2>4. \A h \in Conns : h # k => handle'[h] = handle[h]
    BY <2>1, <2>3 DEF ConnTypeOK
  <2>5. Sole(x) => p = "joinIn" /\ task'[k]["outbound"] = "ended"
    BY <1>5, <2>1, <2>2
  <2>6. QED BY <1>3, <1>4, <2>1, <2>3, <2>4, <2>5, DownMove
<1>10. CASE CloseJoinOutbound(x)
  <2>1. /\ cpc[x] = "joinOut" /\ task[k]["outbound"] = "ended"
        /\ Goto(x, IF sinkErr[k] = "none" THEN "takeIn" ELSE "failed")
        /\ UNCHANGED <<target, was, stage, closed, task, handle, events>>
    BY <1>10 DEF CloseJoinOutbound, connVars
  <2>2. PICK p : p = IF sinkErr[k] = "none" THEN "takeIn" ELSE "failed"
    OBVIOUS
  <2>3. Goto(x, p) /\ p \in {"takeIn", "failed"}
    BY <2>1, <2>2
  <2>4. QED BY <1>3, <1>4, <1>5, <2>1, <2>3, DownMove
<1>11. CASE CloseJoinInbound(x)
  <2>1. /\ cpc[x] = "joinIn" /\ task[k]["inbound"] \in {"recv", "ended"}
        /\ task' = [task EXCEPT ![k]["inbound"] = "ended"] /\ Goto(x, "emit")
        /\ UNCHANGED <<target, was, stage, closed, handle, events>>
    BY <1>11 DEF CloseJoinInbound, SetTask
  <2>2. k \in Conns
    BY <1>5, <2>1
  <2>3. /\ \A h \in Conns, s \in Sides : task[h][s] = "ended" => task'[h][s] = "ended"
        /\ \A h \in Conns, s \in Sides : TaskEmits(h, s) => TaskEmits(h, s)'
    BY <2>1, <2>2 DEF TaskEmits, ConnTypeOK
  <2>4. task'[k]["inbound"] = "ended" /\ task'[k]["outbound"] = task[k]["outbound"]
    BY <2>1, <2>2 DEF ConnTypeOK, Sides
  <2>5. QED BY <1>3, <1>5, <2>1, <2>3, <2>4, DownMove
<1>12. CASE CloseEmit(x)
  <2>1. /\ cpc[x] = "emit" /\ Goto(x, "ok")
        /\ IF was[x] THEN UNCHANGED events ELSE Emit(k, "Closed")
        /\ UNCHANGED <<target, was, stage, closed, task, handle>>
    BY <1>12 DEF CloseEmit
  <2>2. k \in Conns
    BY <1>5, <2>1
  <2>3. \A h \in Conns : Announced(h) => Announced(h)'
    BY <1>3, <2>1, <2>2, EmitAnnounces
  <2>4. PICK h \in Conns : h = k
    BY <2>2
  <2>5. ~was[x] => Announced(h)'
    BY <2>1, <2>4, EmitAnnounces
  <2>6. ~was[x] => Announced(target[x])'
    BY <2>1, <2>4, <2>5 DEF Announced
  <2>7. QED BY <1>4, <1>5, <2>1, <2>3, <2>6, DownMove
<1>13. QED
  BY <1>1, <1>6, <1>7, <1>8, <1>9, <1>10, <1>11, <1>12 DEF CloserNext

\* When the only close() of a connection answers Ok, both tasks have ended and Closed
\* has been emitted, by the closer or by the task that set the flag before it.
THEOREM CloseOkDown == Spec => []CloseOkMeansDown
<1>1. Init => DownInv /\ CloserClosed
  BY DEF Init, DownInv, ClosersOpen, HandlesHeld, Joins, ClosedBy, CloserClosed
<1>2. TypeOK /\ DownInv /\ CloserClosed /\ [Next]_vars => DownInv' /\ CloserClosed'
  <2> SUFFICES ASSUME TypeOK, DownInv, CloserClosed, [Next]_vars
               PROVE  DownInv' /\ CloserClosed'
    OBVIOUS
  <2>1. CloserClosed'
    BY CloserClosedStep
  <2>2. CASE Next
    BY <2>1, <2>2, DownCaller, DownTask, DownCloser DEF Next
  <2>3. CASE UNCHANGED vars
    <3>1. /\ \A k \in Conns : Announced(k)' <=> Announced(k)
          /\ \A k \in Conns, s \in Sides : TaskEmits(k, s)' <=> TaskEmits(k, s)
      BY <2>3 DEF vars, connVars, Announced, TaskEmits
    <3>2. DownInv'
      BY <2>3, <3>1, DownTasks DEF vars, connVars
    <3>3. QED BY <2>1, <3>2
  <2>4. QED BY <2>2, <2>3
<1>3. TypeOK /\ DownInv /\ CloserClosed => CloseOkMeansDown
  BY DownImplies
<1>4. QED BY <1>1, <1>2, <1>3, TypeCorrect, PTL DEF Spec

=============================================================================
