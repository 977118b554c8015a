--------------------------- MODULE SenderKeyRecord ---------------------------
(***************************************************************************)
(* The sender-key record that a member of a group keeps for one author     *)
(* (wa-core/src/signal.rs): what a distribution and a group message do to  *)
(* it.                                                                     *)
(*                                                                         *)
(* A record is a sequence of states, the newest first.  A state stands for *)
(* one sender key of the author: the iteration its chain has reached and   *)
(* the iterations whose message keys are stored.  A sender key is a        *)
(* number; it names the key id, the signing key and the chain, so a        *)
(* message verifies under the state of its key and no other.               *)
(***************************************************************************)
EXTENDS Naturals, Sequences, SequencesExt

CONSTANTS None,
          MaxStates,  \* SIGNAL_MAX_SENDER_KEY_STATES
          MaxStored,  \* SIGNAL_MAX_SENDER_MESSAGE_KEYS
          MaxJump     \* SIGNAL_MAX_SENDER_FORWARD_JUMPS

State == [key : Nat, iteration : Nat, stored : Seq(Nat), lost : SUBSET Nat]

ASSUME RecordAssumption ==
  /\ MaxStates \in Nat \ {0} /\ MaxStored \in Nat \ {0} /\ MaxJump \in Nat
  /\ None \notin State /\ None \notin Seq(State)

\* The keys that a record has a state for.
KeysOf(record) == {record[i].key : i \in DOMAIN record}

IndexOf(record, key) == CHOOSE i \in DOMAIN record : record[i].key = key
StateOf(record, key) == record[IndexOf(record, key)]

\* The field lost is history: the iterations that the chain has passed without
\* a message key being left for them.
NewState(d) ==
  [key |-> d.key, iteration |-> d.iteration, stored |-> <<>>, lost |-> 0 .. d.iteration - 1]

\* Mutant: an older distribution takes the chain back.
FollowBack(s, d) ==
  [s EXCEPT !.iteration = d.iteration, !.lost = @ \cup s.iteration .. d.iteration - 1]

\* A newer distribution of the same key moves the chain forward, and no message
\* key is stored for what it passes over; an older one changes nothing.
Follow(s, d) ==
  IF d.iteration > s.iteration
  THEN [s EXCEPT !.iteration = d.iteration, !.lost = @ \cup s.iteration .. d.iteration - 1]
  ELSE s

\* apply_signal_sender_key_distribution: the state of the key becomes the first
\* one, and the last one gives way.
ApplyDistribution(record, d) ==
  LET known == d.key \in KeysOf(record)
      first == IF known THEN Follow(StateOf(record, d.key), d) ELSE NewState(d)
      others == IF known THEN RemoveAt(record, IndexOf(record, d.key)) ELSE record
      all == <<first>> \o others
  IN IF Len(all) > MaxStates THEN SubSeq(all, 1, MaxStates) ELSE all

\* Mutant: the message keys passed over are not stored.
AdvanceWithoutStore(s, iteration) == [s EXCEPT !.iteration = iteration + 1]

\* The chain moves past iteration; the message keys before it are stored, and
\* the oldest ones give way.
AdvanceTo(s, iteration) ==
  LET all == s.stored \o [i \in 1 .. iteration - s.iteration |-> s.iteration + i - 1]
      excess == IF Len(all) > MaxStored THEN Len(all) - MaxStored ELSE 0
  IN [s EXCEPT !.iteration = iteration + 1,
               !.stored = SubSeq(all, excess + 1, Len(all)),
               !.lost = @ \cup {all[i] : i \in 1 .. excess}]

\* signal_sender_message_key_for_iteration: the state after the message key of
\* the iteration is taken, or None for a repeated or a far message.
TakeMessageKey(s, iteration) ==
  IF iteration < s.iteration
  THEN IF Contains(s.stored, iteration)
       THEN LET i == CHOOSE j \in 1 .. Len(s.stored) : s.stored[j] = iteration IN
            [s EXCEPT !.stored = RemoveAt(@, i)]
       ELSE None
  ELSE IF iteration - s.iteration > MaxJump THEN None ELSE AdvanceTo(s, iteration)

\* decrypt_signal_sender_key_record_message: the record to store, or None.
DecryptGroup(record, m) ==
  IF m.key \notin KeysOf(record) THEN None
  ELSE LET s == TakeMessageKey(StateOf(record, m.key), m.iteration) IN
       IF s = None THEN None
       ELSE [i \in DOMAIN record |-> IF record[i].key = m.key THEN s ELSE record[i]]
=============================================================================
