---------------------------- MODULE QueryManager ----------------------------
(***************************************************************************)
(* The table that matches responses to awaiting queries                    *)
(* (wa-core/src/query.rs).  Every connection of a client shares one table. *)
(*                                                                         *)
(* A caller has at most one QueryWaiter at a time, so the caller's name    *)
(* stands for the one-shot sender that the table keeps for it.  The sender *)
(* of a rejected duplicate registration stays in the table although its    *)
(* receiver is gone; that entry is Ghost.                                  *)
(***************************************************************************)
CONSTANTS Callers,       \* tasks that issue queries
          GeneratedTags, \* bound: the tags next_tag can still hand out
          ExplicitTags,  \* node ids chosen by the application, reusable
          None, Nobody, Ghost

Tags == GeneratedTags \cup ExplicitTags

ASSUME QueryAssumption ==
  /\ GeneratedTags \cap ExplicitTags = {}
  /\ None \notin Tags
  /\ Nobody \notin Callers
  /\ Ghost \notin Callers
  /\ Nobody # Ghost

VARIABLES waiters,  \* tag -> the sender registered under it
          rx,       \* caller -> state of its one-shot receiver
          tag,      \* caller -> the tag of its QueryWaiter
          unused    \* tags next_tag has not produced yet

queryVars == <<waiters, rx, tag, unused>>

QueryTypeOK ==
  /\ waiters \in [Tags -> Callers \cup {Nobody, Ghost}]
  /\ rx \in [Callers -> {"none", "open", "answered", "closed"}]
  /\ tag \in [Callers -> Tags \cup {None}]
  /\ unused \subseteq GeneratedTags

QueryInit ==
  /\ waiters = [t \in Tags |-> Nobody]
  /\ rx = [c \in Callers |-> "none"]
  /\ tag = [c \in Callers |-> None]
  /\ unused = GeneratedTags

\* Removing the entries of S drops their senders: an open receiver sees Closed.
Dropped(S) ==
  [c \in Callers |-> IF rx[c] = "open" /\ \E t \in S : waiters[t] = c
                     THEN "closed" ELSE rx[c]]

\* Mutant: the counter behind next_tag does not advance.
RepeatedTag(t) == t \in ExplicitTags \cup unused /\ UNCHANGED unused

\* The id attribute of the node, or a tag from the counter.
NextTag(t) == \/ t \in ExplicitTags /\ UNCHANGED unused
              \/ t \in unused /\ unused' = unused \ {t}

Register(c, t) ==
  /\ waiters[t] = Nobody
  /\ waiters' = [waiters EXCEPT ![t] = c]
  /\ rx' = [rx EXCEPT ![c] = "open"]
  /\ tag' = [tag EXCEPT ![c] = t]

\* insert() replaces the registered sender before the duplicate is reported.
RegisterDuplicate(c, t) ==
  /\ waiters[t] # Nobody
  /\ waiters' = [waiters EXCEPT ![t] = Ghost]
  /\ rx' = Dropped({t})
  /\ UNCHANGED tag

\* resolve() removes the entry and answers TRUE when its receiver is alive.
Resolves(t) == t \in Tags /\ waiters[t] \in Callers

\* Mutant: the entry is removed but the payload is not sent.
ResolveSilently(t, id) ==
  /\ waiters' = [u \in Tags |-> IF u \in {t, id} THEN Nobody ELSE waiters[u]]
  /\ UNCHANGED <<rx, tag, unused>>

\* A frame resolves the query its transport tag names, else the one its node
\* id names; each tag that was tried has lost its entry.
Resolve(t, id) ==
  LET hit == IF Resolves(t) THEN t ELSE id IN
  /\ waiters' = [u \in Tags |-> IF u \in {t, hit} THEN Nobody ELSE waiters[u]]
  /\ rx' = [c \in Callers |-> IF hit \in Tags /\ waiters[hit] = c
                               THEN "answered" ELSE rx[c]]
  /\ UNCHANGED <<tag, unused>>

ClosePending ==
  /\ waiters' = [t \in Tags |-> Nobody]
  /\ rx' = Dropped(Tags)
  /\ UNCHANGED <<tag, unused>>

\* wait() returned what the receiver held: the waiter is completed.
Complete(c) ==
  /\ rx' = [rx EXCEPT ![c] = "none"]
  /\ tag' = [tag EXCEPT ![c] = None]
  /\ UNCHANGED <<waiters, unused>>

\* Timeout, or drop of a waiter that is not completed: remove by tag.
RemoveWaiter(c) ==
  /\ waiters' = [waiters EXCEPT ![tag[c]] = Nobody]
  /\ rx' = [Dropped({tag[c]}) EXCEPT ![c] = "none"]
  /\ tag' = [tag EXCEPT ![c] = None]
  /\ UNCHANGED unused
=============================================================================
