------------------------- MODULE PlaceholderResend -------------------------
(***************************************************************************)
(* The tracker of placeholder resend requests (wa-core/src/placeholder.rs) *)
(* and the tasks of a client that ask the phone for messages they could    *)
(* not decrypt (request_placeholder_resend in wa-client/src/lib.rs).       *)
(*                                                                         *)
(* Every access to the tracker is one locked step; a request of several    *)
(* ids takes the lock once for each, and the clock is read once before.    *)
(***************************************************************************)
EXTENDS Naturals, Sequences, FiniteSets

CONSTANTS Ids,         \* message ids
          Requesters,  \* tasks that request resends
          Capacity, Ttl,
          MaxTime,     \* bound: the clock takes the values 0 .. MaxTime
          MaxOrder     \* bound: length of the order queue explored

ASSUME PlaceholderAssumption ==
  /\ Capacity \in Nat /\ Ttl \in Nat
  /\ MaxTime \in Nat /\ MaxOrder \in Nat
  /\ IsFiniteSet(Ids)

VARIABLES now,       \* the system clock, which may be set back
          records,   \* ids with a PlaceholderResendRecord
          stamp,     \* id -> requested_at_ms of its latest record
          order,     \* the VecDeque
          rpc, want, recorded, started,  \* requester: position, ids to record,
                                         \* recorded_ids, its now_ms
          requested, \* ids recorded by a request that was relayed, or given up
                     \* by its caller before the relay could fail
          lost       \* requester -> recorded_ids whose record was dropped since

tracker == <<records, stamp, order>>
tasks == <<rpc, want, recorded, started>>
vars == <<now, tracker, tasks, requested, lost>>

TypeOK ==
  /\ now \in 0 .. MaxTime
  /\ records \subseteq Ids
  /\ stamp \in [Ids -> Nat]
  /\ order \in Seq(Ids)
  /\ rpc \in [Requesters -> {"idle", "record", "relay", "rollback"}]
  /\ want \in [Requesters -> SUBSET Ids]
  /\ recorded \in [Requesters -> SUBSET Ids]
  /\ started \in [Requesters -> 0 .. MaxTime]
  /\ requested \subseteq Ids
  /\ lost \in [Requesters -> SUBSET Ids]

Init ==
  /\ now = 0
  /\ records = {} /\ stamp = [id \in Ids |-> 0] /\ order = <<>>
  /\ rpc = [t \in Requesters |-> "idle"]
  /\ want = [t \in Requesters |-> {}]
  /\ recorded = [t \in Requesters |-> {}]
  /\ started = [t \in Requesters |-> 0]
  /\ requested = {}
  /\ lost = [t \in Requesters |-> {}]

-----------------------------------------------------------------------------
(* The tracker.                                                            *)

\* saturating_sub(time, stamp) > ttl
Expired(time) == {id \in records : time > stamp[id] + Ttl}

\* The requesters that recorded an id of S no longer have its record.
Lose(S) == [t \in Requesters |-> lost[t] \cup (recorded[t] \cap S)]

\* enforce_capacity pops ids off the queue q until the records R fit.
Prefix(q, k) == {q[i] : i \in 1 .. k}

Pops(R, q, k) ==
  /\ \/ Cardinality(R \ Prefix(q, k)) <= Capacity
     \/ k = Len(q)
  /\ \A j \in 0 .. k - 1 : Cardinality(R \ Prefix(q, j)) > Capacity

\* purge_expired, as the cleanup task, contains() and len() call it.
PurgeExpired ==
  /\ records' = records \ Expired(now)
  /\ lost' = Lose(Expired(now))
  /\ requested' = requested \cap records'
  /\ UNCHANGED <<now, stamp, order, tasks>>

\* resolve(): the answer of the phone has arrived.
Respond(id) ==
  /\ id \in records
  /\ records' = records \ {id}
  /\ lost' = Lose({id})
  /\ requested' = requested \ {id}
  /\ UNCHANGED <<now, stamp, order, tasks>>

Clear ==
  /\ records' = {} /\ order' = <<>>
  /\ lost' = Lose(records)
  /\ requested' = {}
  /\ UNCHANGED <<now, stamp, tasks>>

ClockMoves ==
  /\ now' \in 0 .. MaxTime
  /\ UNCHANGED <<tracker, tasks, requested, lost>>

-----------------------------------------------------------------------------
(* Requesters.                                                             *)

StartRequest(t, S) ==
  /\ rpc[t] = "idle" /\ S # {}
  /\ rpc' = [rpc EXCEPT ![t] = "record"]
  /\ want' = [want EXCEPT ![t] = S]
  /\ started' = [started EXCEPT ![t] = now]
  /\ UNCHANGED <<now, tracker, recorded, requested, lost>>

\* request_placeholder_resend_for_web_message asks contains() first.
StartUnlessPending(t, id) ==
  /\ rpc[t] = "idle"
  /\ id \notin records \ Expired(now)
  /\ records' = records \ Expired(now)
  /\ lost' = Lose(Expired(now))
  /\ requested' = requested \cap records'
  /\ rpc' = [rpc EXCEPT ![t] = "record"]
  /\ want' = [want EXCEPT ![t] = {id}]
  /\ started' = [started EXCEPT ![t] = now]
  /\ UNCHANGED <<now, stamp, order, recorded>>

\* Mutant: begin_request overwrites a pending record.
BeginUnchecked(t, id) ==
  LET live == records \ Expired(started[t])
      q == Append(order, id) IN
  /\ rpc[t] = "record" /\ id \in want[t] /\ Len(order) < MaxOrder
  /\ \E k \in 0 .. Len(q) :
       /\ Pops(live \cup {id}, q, k)
       /\ records' = (live \cup {id}) \ Prefix(q, k)
       /\ order' = SubSeq(q, k + 1, Len(q))
  /\ stamp' = [stamp EXCEPT ![id] = started[t]]
  /\ recorded' = [recorded EXCEPT ![t] = @ \cup {id}]
  /\ lost' = [u \in Requesters |->
                lost[u] \cup (recorded[u] \cap Expired(started[t]))
                        \cup (recorded'[u] \cap ((live \cup {id}) \ records'))]
  /\ requested' = (requested \cap records') \ {id}
  /\ want' = [want EXCEPT ![t] = @ \ {id}]
  /\ rpc' = [rpc EXCEPT ![t] = IF want[t] = {id} THEN "relay" ELSE "record"]
  /\ UNCHANGED <<now, started>>

\* Mutant: the capacity is not enforced.
BeginUnlimited(t, id) ==
  /\ rpc[t] = "record" /\ id \in want[t] /\ Len(order) < MaxOrder
  /\ id \notin records
  /\ records' = records \cup {id}
  /\ order' = Append(order, id)
  /\ stamp' = [stamp EXCEPT ![id] = started[t]]
  /\ recorded' = [recorded EXCEPT ![t] = @ \cup {id}]
  /\ want' = [want EXCEPT ![t] = @ \ {id}]
  /\ rpc' = [rpc EXCEPT ![t] = IF want[t] = {id} THEN "relay" ELSE "record"]
  /\ UNCHANGED <<now, started, requested, lost>>

\* begin_request of one id; the last one lets the request be relayed.
Begin(t, id) ==
  LET live == records \ Expired(started[t])
      q == Append(order, id) IN
  /\ rpc[t] = "record" /\ id \in want[t] /\ Len(order) < MaxOrder
  /\ id \notin live
  /\ \E k \in 0 .. Len(q) :
       /\ Pops(live \cup {id}, q, k)
       /\ records' = (live \cup {id}) \ Prefix(q, k)
       /\ order' = SubSeq(q, k + 1, Len(q))
  /\ stamp' = [stamp EXCEPT ![id] = started[t]]
  /\ recorded' = [recorded EXCEPT ![t] = @ \cup {id}]
  /\ lost' = [u \in Requesters |->
                lost[u] \cup (recorded[u] \cap Expired(started[t]))
                        \cup (recorded'[u] \cap ((live \cup {id}) \ records'))]
  /\ requested' = (requested \cap records') \ {id}
  /\ want' = [want EXCEPT ![t] = @ \ {id}]
  /\ rpc' = [rpc EXCEPT ![t] = IF want[t] = {id} THEN "relay" ELSE "record"]
  /\ UNCHANGED <<now, started>>

\* begin_request finds the id pending: the recorded ids are resolved again.
BeginRefused(t, id) ==
  LET live == records \ Expired(started[t]) IN
  /\ rpc[t] = "record" /\ id \in want[t] /\ id \in live
  /\ records' = live
  /\ lost' = Lose(records \ live)
  /\ requested' = requested \cap live
  /\ want' = [want EXCEPT ![t] = {}]
  /\ rpc' = [rpc EXCEPT ![t] = IF recorded[t] = {} THEN "idle" ELSE "rollback"]
  /\ UNCHANGED <<now, stamp, order, recorded, started>>

\* resolve() of one recorded id.  It goes by the id: if the requester's own
\* record is gone, it takes the record of whoever asked for the id since.
Rollback(t, id) ==
  /\ rpc[t] = "rollback" /\ id \in recorded[t]
  /\ records' = records \ {id}
  /\ requested' = requested \ {id}
  /\ recorded' = [recorded EXCEPT ![t] = @ \ {id}]
  /\ lost' = [u \in Requesters |->
                IF u = t THEN lost[u] \ {id}
                ELSE IF id \in lost[t] THEN Lose({id})[u] ELSE lost[u]]
  /\ rpc' = [rpc EXCEPT ![t] = IF recorded[t] = {id} THEN "idle" ELSE "rollback"]
  /\ UNCHANGED <<now, stamp, order, want, started>>

\* The task is done with its recorded ids, whose records stay.
Leave(t) ==
  /\ rpc' = [rpc EXCEPT ![t] = "idle"]
  /\ recorded' = [recorded EXCEPT ![t] = {}]
  /\ lost' = [lost EXCEPT ![t] = {}]
  /\ requested' = requested \cup (recorded[t] \cap records)
  /\ UNCHANGED <<now, tracker, want, started>>

\* The request is relayed, or the caller drops the future that awaits it.
RelayEnds(t) == rpc[t] = "relay" /\ Leave(t)

\* Mutant: a failed relay leaves its records behind.
RelayFailsSilently(t) ==
  /\ rpc[t] = "relay"
  /\ rpc' = [rpc EXCEPT ![t] = "idle"]
  /\ recorded' = [recorded EXCEPT ![t] = {}]
  /\ lost' = [lost EXCEPT ![t] = {}]
  /\ UNCHANGED <<now, tracker, want, started, requested>>

RelayFails(t) ==
  /\ rpc[t] = "relay"
  /\ rpc' = [rpc EXCEPT ![t] = "rollback"]
  /\ UNCHANGED <<now, tracker, want, recorded, started, requested, lost>>

-----------------------------------------------------------------------------
RequesterStep(t) ==
  \/ \E S \in SUBSET Ids : StartRequest(t, S)
  \/ \E id \in Ids : \/ StartUnlessPending(t, id)
                     \/ Begin(t, id) \/ BeginRefused(t, id) \/ Rollback(t, id)
  \/ RelayEnds(t) \/ RelayFails(t)

Next ==
  \/ PurgeExpired \/ Clear \/ ClockMoves
  \/ \E id \in Ids : Respond(id)
  \/ \E t \in Requesters : RequesterStep(t)

Spec == Init /\ [][Next]_vars

-----------------------------------------------------------------------------
(* Properties.                                                             *)

(* begin_request and enforce_capacity keep at most Capacity ids pending,   *)
(* although resolve and purge_expired leave stale entries in the queue.    *)
PendingBounded == Cardinality(records) <= Capacity

(* begin_request and the rollbacks of request_placeholder_resend           *)
(* de-duplicate: no two tasks request one id, unless the record of one of  *)
(* them was answered, expired or evicted meanwhile.                        *)
OneHolder ==
  \A t, u \in Requesters :
    t # u => (recorded[t] \ lost[t]) \cap (recorded[u] \ lost[u]) = {}

(* A refused or failed request_placeholder_resend leaves no record behind  *)
(* that would block the next request: a pending id was requested, or is    *)
(* being requested.                                                        *)
PendingIsWanted ==
  \A id \in records :
    id \in requested \/ \E t \in Requesters : id \in recorded[t]
=============================================================================
