--------------------------- MODULE SignalRatchet ---------------------------
(***************************************************************************)
(* The Double Ratchet on a SignalProviderSessionRecord                     *)
(* (wa-core/src/signal.rs): what encrypting and decrypting a message do to *)
(* the record.                                                             *)
(*                                                                         *)
(* Keys are symbolic.  A key pair is <<party, n>>; the signed pre-key of p *)
(* is <<p, 0>>.  A root key is the sequence of the secrets it was derived  *)
(* from, the X3DH agreement first and then one Diffie-Hellman agreement    *)
(* for each ratchet step.  A step derives the root and a chain together,   *)
(* so the root names the chain too.  A message verifies exactly under the  *)
(* chain and the counter that it was encrypted with.                       *)
(***************************************************************************)
EXTENDS Naturals, Sequences, SequencesExt

CONSTANTS None,
          MaxSkipped,  \* SIGNAL_MAX_PROVIDER_MESSAGE_KEYS
          MaxJump      \* SIGNAL_MAX_MESSAGE_FORWARD_JUMPS

ASSUME RatchetAssumption == MaxSkipped \in Nat \ {0} /\ MaxJump \in Nat

SignedPreKey(p) == <<p, 0>>

X3dh(base, owner, oneTime) ==
  << [base |-> base, signed |-> SignedPreKey(owner), oneTime |-> oneTime] >>

RootStep(root, mine, theirs) == Append(root, {mine, theirs})

\* The zero chain, which stands for a sending chain yet to be derived.
Uninitialized == [key |-> <<>>, counter |-> 0]

Chain(root) == [key |-> root, counter |-> 0]

\* The field lost is history: the message keys that gave way to newer ones.
\* The initiator ratchets once against the signed pre-key before it sends.
OutboundRecord(base, ratchet, peer, oneTime) ==
  LET root == RootStep(X3dh(base, peer, oneTime), ratchet, SignedPreKey(peer)) IN
  [root |-> root, send |-> Chain(root), recv |-> None, remote |-> None,
   local |-> ratchet, prev |-> 0, skipped |-> <<>>, lost |-> {},
   inboundBase |-> None]

\* The responder only has the X3DH root; its first message ratchets.
InboundRecord(base, owner, oneTime) ==
  [root |-> X3dh(base, owner, oneTime), send |-> Uninitialized, recv |-> None,
   remote |-> None, local |-> SignedPreKey(owner), prev |-> 0,
   skipped |-> <<>>, lost |-> {}, inboundBase |-> base]

SameKey(k1, k2) == k1.ratchet = k2.ratchet /\ k1.counter = k2.counter

\* The conditions a record must meet to be encoded, decoded or used.
Valid(rec) ==
  /\ (rec.recv = None) = (rec.remote = None)
  /\ Len(rec.skipped) <= MaxSkipped
  /\ rec.skipped # <<>> => rec.remote # None
  /\ \A i \in DOMAIN rec.skipped :
       rec.skipped[i].ratchet = rec.remote => rec.skipped[i].counter < rec.recv.counter
  /\ \A i, j \in DOMAIN rec.skipped :
       SameKey(rec.skipped[i], rec.skipped[j]) => i = j

-----------------------------------------------------------------------------
(* Encrypting.                                                             *)

CanEncrypt(rec) == Valid(rec) /\ (rec.send = Uninitialized => rec.remote # None)

\* The record with a sending chain, derived with a fresh key pair if need be.
WithSendingChain(rec, fresh) ==
  LET root == RootStep(rec.root, fresh, rec.remote) IN
  IF rec.send # Uninitialized THEN rec
  ELSE [rec EXCEPT !.root = root, !.send = Chain(root), !.local = fresh]

\* What rec, which has a sending chain, sends next.
Whisper(rec) ==
  [ratchet |-> rec.local, counter |-> rec.send.counter, prev |-> rec.prev,
   key |-> rec.send.key]

AfterSend(rec) == [rec EXCEPT !.send.counter = @ + 1]

-----------------------------------------------------------------------------
(* Decrypting.                                                             *)

\* Mutant: the skipped keys are not limited.
PushUnlimited(skipped, k) ==
  IF \E i \in DOMAIN skipped : SameKey(skipped[i], k) THEN skipped
  ELSE Append(skipped, k)

\* Adding a key that is there already changes nothing; the oldest gives way.
Push(skipped, k) ==
  IF \E i \in DOMAIN skipped : SameKey(skipped[i], k) THEN skipped
  ELSE LET all == Append(skipped, k) IN
       IF Len(all) > MaxSkipped THEN Tail(all) ELSE all

PushAll(skipped, new) ==
  LET after[n \in 0 .. Len(new)] == IF n = 0 THEN skipped ELSE Push(after[n - 1], new[n])
  IN after[Len(new)]

\* The keys of a chain from its counter up to and including last are stored.
StoreSkipped(rec, ratchet, chain, last) ==
  LET passed == IF last < chain.counter THEN 0 ELSE last + 1 - chain.counter
      new == [i \in 1 .. passed |->
                [ratchet |-> ratchet, counter |-> chain.counter + i - 1,
                 key |-> chain.key]]
      kept == PushAll(rec.skipped, new)
  IN [rec EXCEPT !.skipped = kept,
                 !.lost = @ \cup ((ToSet(rec.skipped) \cup ToSet(new)) \ ToSet(kept))]

\* Mutant: the keys between the counter and the end of the old chain are lost.
RatchetWithoutSkip(rec, w) ==
  LET root == RootStep(rec.root, rec.local, w.ratchet) IN
  [rec EXCEPT !.prev = IF rec.send.counter = 0 THEN 0 ELSE rec.send.counter - 1,
              !.root = root, !.recv = Chain(root),
              !.remote = w.ratchet, !.send = Uninitialized]

\* A message under a new ratchet key ends the receiving and the sending chain.
DhRatchet(rec, w) ==
  LET root == RootStep(rec.root, rec.local, w.ratchet)
      ended == IF rec.recv = None THEN rec
               ELSE StoreSkipped(rec, rec.remote, rec.recv, w.prev)
  IN [ended EXCEPT !.prev = IF rec.send.counter = 0 THEN 0 ELSE rec.send.counter - 1,
                   !.root = root, !.recv = Chain(root),
                   !.remote = w.ratchet, !.send = Uninitialized]

\* A stored key that verifies is removed.
DecryptStored(rec, w) ==
  LET i == CHOOSE n \in DOMAIN rec.skipped : SameKey(rec.skipped[n], w) IN
  IF rec.skipped[i].key = w.key
  THEN [rec EXCEPT !.skipped = RemoveAt(@, i)] ELSE None

\* The ratchet keeps the chain, or moves to the one of the message.
DecryptOnChain(rec, w) ==
  LET moves == rec.remote # w.ratchet \/ rec.recv = None
      r == IF moves THEN DhRatchet(rec, w) ELSE rec
      stored == {rec.skipped[i].counter :
                   i \in {n \in DOMAIN rec.skipped : rec.skipped[n].ratchet = w.ratchet}}
      backwards == /\ rec.remote # w.ratchet
                   /\ stored # {}
                   /\ \A n \in stored : w.counter < n
      endTooFar == moves /\ rec.recv # None /\ w.prev > rec.recv.counter + MaxJump
      old == w.counter < r.recv.counter
      tooFar == w.counter > r.recv.counter + MaxJump
  IN IF backwards \/ endTooFar \/ old \/ tooFar \/ w.key # r.recv.key THEN None
     ELSE [StoreSkipped(r, w.ratchet, r.recv, w.counter - 1)
             EXCEPT !.recv.counter = w.counter + 1]

\* decrypt_signal_provider_session_record_ciphertext on a copy of the record.
Advance(rec, w) ==
  IF \E i \in DOMAIN rec.skipped : SameKey(rec.skipped[i], w)
  THEN DecryptStored(rec, w) ELSE DecryptOnChain(rec, w)

\* The record to store, or None: without a record, when the message does not
\* verify, and when the record before or after fails validation.
Decrypt(rec, w) ==
  IF rec = None THEN None
  ELSE IF ~Valid(rec) THEN None
  ELSE LET r == Advance(rec, w) IN
       IF r = None THEN None ELSE IF Valid(r) THEN r ELSE None
=============================================================================
