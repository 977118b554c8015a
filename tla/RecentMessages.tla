--------------------------- MODULE RecentMessages ---------------------------
(***************************************************************************)
(* The cache of recent messages of the MessageRetryManager                 *)
(* (wa-core/src/retry.rs), from which a message is sent again.             *)
(*                                                                         *)
(* The cache holds the ids of messages to one chat, so the index by id and *)
(* the map by chat and id agree.  The order queue keeps an entry for every *)
(* insertion, also for messages that were removed or inserted again.       *)
(***************************************************************************)
EXTENDS Naturals, Sequences, SequencesExt, FiniteSets

CONSTANT RecentCapacity  \* recent_message_capacity

ASSUME RecentAssumption == RecentCapacity \in Nat \ {0}

EmptyCache == [messages |-> {}, order |-> <<>>]

\* The oldest entries are taken off the queue until the messages fit.
EnforceCapacity(cache) ==
  LET Fits(n) == LET gone == ToSet(SubSeq(cache.order, 1, n)) IN
                 Cardinality(cache.messages \ gone) <= RecentCapacity
      n == CHOOSE k \in 0 .. Len(cache.order) :
             Fits(k) /\ \A j \in 0 .. k - 1 : ~Fits(j)
  IN [messages |-> cache.messages \ ToSet(SubSeq(cache.order, 1, n)),
      order |-> SubSeq(cache.order, n + 1, Len(cache.order))]

\* add_recent_message
AddRecent(cache, id) ==
  EnforceCapacity([messages |-> cache.messages \cup {id},
                   order |-> Append(cache.order, id)])

\* What may be too old: all that was last inserted before some point.
TooOld(cache) ==
  {cache.messages \ ToSet(SubSeq(cache.order, n, Len(cache.order))) :
     n \in 1 .. Len(cache.order) + 1}

\* purge_recent_messages, when the messages in old have become too old
PurgeRecent(cache, old) == [cache EXCEPT !.messages = @ \ old]

\* remove_recent_message; the order queue keeps its entry.
RemoveRecent(cache, id) == [cache EXCEPT !.messages = @ \ {id}]
=============================================================================
