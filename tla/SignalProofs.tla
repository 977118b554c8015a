---------------------------- MODULE SignalProofs ----------------------------
(***************************************************************************)
(* Invariance proofs for SignalSession, for every set of tasks, every      *)
(* number of messages and one-time pre-keys, and every limit on skipped    *)
(* keys and forward jumps.                                                 *)
(***************************************************************************)
EXTENDS SignalSession, SequenceTheorems, FiniteSetTheorems, WellFoundedInduction, TLAPS

-----------------------------------------------------------------------------
(* Skipped keys.                                                           *)

\* No key is stored twice, and their number is within the limit.
InOrder(skipped) ==
  /\ Len(skipped) <= MaxSkipped
  /\ \A i, j \in DOMAIN skipped : SameKey(skipped[i], skipped[j]) => i = j

\* A nonempty set of numbers has a least one.
LEMMA LeastNumber ==
  ASSUME NEW T \in SUBSET Nat, T # {}
  PROVE  \E n \in T : \A m \in T : n <= m
<1>1. PICK n \in T : \A m \in T : <<m, n>> \notin OpToRel(<, Nat)
  BY NatLessThanWellFounded, WFMin
<1>2. \A m \in T : ~(m < n)
  BY <1>1 DEF OpToRel
<1>3. QED BY <1>2

\* What one push does: the new key comes last, or is there already, and the
\* oldest one may go.
LEMMA PushFacts ==
  ASSUME NEW S \in SUBSET SkippedKey, NEW skipped \in Seq(S), NEW k \in S
  PROVE  /\ Push(skipped, k) \in Seq(S)
         /\ ToSet(Push(skipped, k)) \subseteq ToSet(skipped) \cup {k}
         /\ InOrder(skipped) => InOrder(Push(skipped, k))
<1>1. CASE \E i \in DOMAIN skipped : SameKey(skipped[i], k)
  BY <1>1 DEF Push
<1>2. CASE ~\E i \in DOMAIN skipped : SameKey(skipped[i], k)
  <2>1. PICK all : all = Append(skipped, k)
    OBVIOUS
  <2>2. /\ all \in Seq(S) /\ Len(all) = Len(skipped) + 1
        /\ \A i \in 1 .. Len(skipped) : all[i] = skipped[i]
        /\ all[Len(all)] = k
    BY <2>1
  <2>3. \A i \in 1 .. Len(all) : all[i] \in ToSet(skipped) \cup {k}
    <3>1. \A i \in 1 .. Len(all) : i \in 1 .. Len(skipped) \/ i = Len(all)
      BY <2>2
    <3>2. \A i \in 1 .. Len(skipped) : skipped[i] \in ToSet(skipped)
      BY DEF ToSet
    <3>3. QED BY <2>2, <3>1, <3>2
  <2>4. InOrder(skipped) => \A i, j \in 1 .. Len(all) : SameKey(all[i], all[j]) => i = j
    <3>1. SUFFICES ASSUME InOrder(skipped), NEW i \in 1 .. Len(all), NEW j \in 1 .. Len(all),
                          SameKey(all[i], all[j])
                   PROVE  i = j
      OBVIOUS
    <3>2. \A n \in 1 .. Len(skipped) : ~SameKey(skipped[n], k) /\ ~SameKey(k, skipped[n])
      BY <1>2 DEF SameKey
    <3>3. CASE i \in 1 .. Len(skipped) /\ j \in 1 .. Len(skipped)
      BY <2>2, <3>1, <3>3 DEF InOrder
    <3>4. CASE i = Len(all) \/ j = Len(all)
      BY <2>2, <3>1, <3>2, <3>4
    <3>5. QED BY <2>2, <3>3, <3>4
  <2>5. CASE Len(all) <= MaxSkipped
    <3>1. Push(skipped, k) = all
      BY <1>2, <2>1, <2>2, <2>5, RatchetAssumption DEF Push
    <3>2. ToSet(all) \subseteq ToSet(skipped) \cup {k}
      BY <2>2, <2>3 DEF ToSet
    <3>3. InOrder(skipped) => InOrder(all)
      BY <2>2, <2>4, <2>5 DEF InOrder
    <3>4. QED BY <2>2, <3>1, <3>2, <3>3
  <2>6. CASE ~(Len(all) <= MaxSkipped)
    <3>1. Push(skipped, k) = Tail(all)
      BY <1>2, <2>1, <2>2, <2>6, RatchetAssumption DEF Push
    <3>2. /\ Tail(all) \in Seq(S) /\ Len(Tail(all)) = Len(skipped)
          /\ \A i \in 1 .. Len(skipped) : Tail(all)[i] = all[i + 1] /\ i + 1 \in 1 .. Len(all)
      BY <2>2
    <3>3. ToSet(Tail(all)) \subseteq ToSet(skipped) \cup {k}
      BY <2>3, <3>2 DEF ToSet
    <3>4. ASSUME InOrder(skipped) PROVE InOrder(Tail(all))
      <4>1. ASSUME NEW i \in 1 .. Len(skipped), NEW j \in 1 .. Len(skipped),
                   SameKey(Tail(all)[i], Tail(all)[j])
            PROVE  i = j
        <5>1. i + 1 = j + 1
          BY <2>4, <3>2, <3>4, <4>1
        <5>2. QED BY <5>1
      <4>2. QED BY <3>2, <3>4, <4>1 DEF InOrder
    <3>5. QED BY <3>1, <3>2, <3>3, <3>4
  <2>7. QED BY <2>5, <2>6
<1>3. QED BY <1>1, <1>2

\* The recursive definition of PushAll has a value.
LEMMA PushAllDefined ==
  ASSUME NEW skipped, NEW new, NEW n \in Nat
  PROVE  \E f : f = [i \in 0 .. n |-> IF i = 0 THEN skipped ELSE Push(f[i - 1], new[i])]
<1> DEFINE Value(m) == \E f : f = [i \in 0 .. m |-> IF i = 0 THEN skipped
                                                     ELSE Push(f[i - 1], new[i])]
           T == {m \in Nat : ~Value(m)}
<1>1. SUFFICES ASSUME T # {} PROVE FALSE
  OBVIOUS
<1>2. PICK m \in T : \A k \in T : m <= k
  <2>1. T \in SUBSET Nat
    OBVIOUS
  <2> HIDE DEF T
  <2>2. QED BY <1>1, <2>1, LeastNumber
<1>3. m \in Nat
  OBVIOUS
<1>4. CASE m = 0
  <2>1. [i \in 0 .. 0 |-> skipped]
          = [i \in 0 .. 0 |-> IF i = 0 THEN skipped
                              ELSE Push([j \in 0 .. 0 |-> skipped][i - 1], new[i])]
    OBVIOUS
  <2>2. QED BY <1>2, <1>4, <2>1
<1>5. CASE m # 0
  <2>1. m - 1 \in Nat /\ ~(m <= m - 1)
    BY <1>3, <1>5
  <2>2. Value(m - 1)
    BY <1>2, <2>1
  <2>3. PICK f : f = [i \in 0 .. m - 1 |-> IF i = 0 THEN skipped ELSE Push(f[i - 1], new[i])]
    BY <2>2
  <2>4. PICK g : g = [i \in 0 .. m |-> IF i < m THEN f[i] ELSE Push(f[m - 1], new[m])]
    OBVIOUS
  <2>5. ASSUME NEW i \in 0 .. m
        PROVE  g[i] = IF i = 0 THEN skipped ELSE Push(g[i - 1], new[i])
    <3>1. CASE i = 0
      BY <1>3, <1>5, <2>3, <2>4, <3>1
    <3>2. CASE i # 0 /\ i < m
      <4>1. i \in 0 .. m - 1 /\ i - 1 \in 0 .. m /\ i - 1 < m
        BY <1>3, <3>2
      <4>2. g[i] = f[i] /\ g[i - 1] = f[i - 1]
        BY <2>4, <3>2, <4>1
      <4>3. f[i] = Push(f[i - 1], new[i])
        BY <2>3, <3>2, <4>1
      <4>4. QED BY <3>2, <4>2, <4>3
    <3>3. CASE i = m
      <4>1. i - 1 \in 0 .. m /\ i - 1 < m /\ ~(i < m)
        BY <1>3, <1>5, <3>3
      <4>2. g[i] = Push(f[m - 1], new[m]) /\ g[i - 1] = f[i - 1]
        BY <2>4, <4>1
      <4>3. QED BY <1>5, <3>3, <4>2
    <3>4. QED BY <1>3, <3>1, <3>2, <3>3
  <2>6. g = [i \in 0 .. m |-> IF i = 0 THEN skipped ELSE Push(g[i - 1], new[i])]
    BY <2>4, <2>5
  <2>7. Value(m)
    BY <2>6
  <2>8. QED BY <1>2, <2>7
<1>6. QED BY <1>4, <1>5

\* Pushing a sequence of keys onto stored ones keeps their order, and leaves none
\* but these and those.
LEMMA PushAllFacts ==
  ASSUME NEW S \in SUBSET SkippedKey, NEW skipped \in Seq(S), NEW new \in Seq(S)
  PROVE  /\ PushAll(skipped, new) \in Seq(S)
         /\ ToSet(PushAll(skipped, new)) \subseteq ToSet(skipped) \cup ToSet(new)
         /\ InOrder(skipped) => InOrder(PushAll(skipped, new))
<1> DEFINE after == CHOOSE f : f = [i \in 0 .. Len(new) |-> IF i = 0 THEN skipped
                                                           ELSE Push(f[i - 1], new[i])]
           Good(s) == /\ s \in Seq(S)
                      /\ ToSet(s) \subseteq ToSet(skipped) \cup ToSet(new)
                      /\ InOrder(skipped) => InOrder(s)
           T == {n \in 0 .. Len(new) : ~Good(after[n])}
<1>1. Len(new) \in Nat
  OBVIOUS
<1>2. after = [i \in 0 .. Len(new) |-> IF i = 0 THEN skipped ELSE Push(after[i - 1], new[i])]
  BY <1>1, PushAllDefined
<1>3. PushAll(skipped, new) = after[Len(new)]
  BY DEF PushAll
<1> HIDE DEF after
<1>4. T = {}
  <2>1. SUFFICES ASSUME T # {} PROVE FALSE
    OBVIOUS
  <2>2. PICK n \in T : \A k \in T : n <= k
    <3>1. T \in SUBSET Nat
      BY <1>1
    <3> HIDE DEF T
    <3>2. QED BY <2>1, <3>1, LeastNumber
  <2>3. n \in 0 .. Len(new) /\ ~Good(after[n])
    OBVIOUS
  <2>4. CASE n = 0
    <3>1. after[n] = skipped
      BY <1>1, <1>2, <2>3, <2>4
    <3>2. Good(skipped)
      OBVIOUS
    <3>3. QED BY <2>3, <3>1, <3>2
  <2>5. CASE n # 0
    <3>1. n - 1 \in 0 .. Len(new) /\ ~(n <= n - 1)
      BY <1>1, <2>3, <2>5
    <3>2. Good(after[n - 1])
      BY <2>2, <3>1
    <3>3. after[n] = Push(after[n - 1], new[n])
      BY <1>2, <2>3, <2>5
    <3>4. new[n] \in S /\ new[n] \in ToSet(new)
      BY <1>1, <2>3, <2>5 DEF ToSet
    <3>5. Good(Push(after[n - 1], new[n]))
      <4>1. PICK s : s = after[n - 1]
        OBVIOUS
      <4>2. PICK k \in S : k = new[n] /\ k \in ToSet(new)
        BY <3>4
      <4>3. s \in Seq(S) /\ ToSet(s) \subseteq ToSet(skipped) \cup ToSet(new)
            /\ (InOrder(skipped) => InOrder(s))
        BY <3>2, <4>1
      <4>4. /\ Push(s, k) \in Seq(S) /\ ToSet(Push(s, k)) \subseteq ToSet(s) \cup {k}
            /\ (InOrder(s) => InOrder(Push(s, k)))
        BY <4>3, PushFacts
      <4>5. Good(Push(s, k))
        BY <4>2, <4>3, <4>4
      <4>6. QED BY <4>1, <4>2, <4>5
    <3>6. QED BY <2>3, <3>3, <3>5
  <2>6. QED BY <2>4, <2>5
<1>5. Good(after[Len(new)])
  BY <1>1, <1>4
<1>6. QED BY <1>3, <1>5

-----------------------------------------------------------------------------
(* Records and messages, and what decrypting does to a record.             *)

Header == [base : KeyPair, oneTime : OneTimeKeys \cup {None}]
Message == [from : Parties, body : Nat, pre : Header \cup {None}, ratchet : KeyPair,
            counter : Nat, prev : Nat, key : RootKey]

\* A key of the chain, from its counter up to and including last.
Passed(k, ratchet, chain, last) ==
  k.ratchet = ratchet /\ k.key = chain.key /\ chain.counter <= k.counter /\ k.counter <= last

Skips(rec, ratchet, chain, last, r) ==
  /\ r.skipped \in Seq(SkippedKey) /\ r.lost \in SUBSET SkippedKey
  /\ r = [rec EXCEPT !.skipped = r.skipped, !.lost = r.lost]
  /\ \A k \in ToSet(r.skipped) : k \in ToSet(rec.skipped) \/ Passed(k, ratchet, chain, last)
  /\ InOrder(rec.skipped) => InOrder(r.skipped)

\* The keys of the chain that are passed over become skipped ones; nothing else
\* changes but the history of what was lost.
LEMMA StoreSkippedFacts ==
  ASSUME NEW rec \in Record, NEW ratchet \in KeyPair, NEW chain \in MessageChain,
         NEW last \in Int
  PROVE  Skips(rec, ratchet, chain, last, StoreSkipped(rec, ratchet, chain, last))
<1>0. PICK r : r = StoreSkipped(rec, ratchet, chain, last)
  OBVIOUS
<1>1. chain.counter \in Nat /\ chain.key \in RootKey
  BY DEF MessageChain
<1>2. PICK n \in Nat : /\ n = IF last < chain.counter THEN 0 ELSE last + 1 - chain.counter
                       /\ n # 0 => chain.counter + n - 1 = last
  <2>1. CASE last < chain.counter BY <2>1
  <2>2. CASE ~(last < chain.counter) BY <1>1, <2>2
  <2>3. QED BY <2>1, <2>2
<1>3. PICK new : new = [i \in 1 .. n |-> [ratchet |-> ratchet, counter |-> chain.counter + i - 1,
                                         key |-> chain.key]]
  OBVIOUS
<1>4. new \in Seq(SkippedKey) /\ \A k \in ToSet(new) : Passed(k, ratchet, chain, last)
  <2>1. ASSUME NEW i \in 1 .. n
        PROVE  new[i] \in SkippedKey /\ Passed(new[i], ratchet, chain, last)
    <3>1. new[i] = [ratchet |-> ratchet, counter |-> chain.counter + i - 1, key |-> chain.key]
      BY <1>3
    <3>2. chain.counter + i - 1 \in Nat /\ chain.counter <= chain.counter + i - 1
          /\ chain.counter + i - 1 <= last
      BY <1>1, <1>2
    <3>3. QED BY <1>1, <3>1, <3>2 DEF SkippedKey, Passed
  <2>2. new \in Seq(SkippedKey) /\ DOMAIN new = 1 .. n
    BY <1>3, <2>1
  <2>3. QED BY <2>1, <2>2 DEF ToSet
<1>5. PICK kept : kept = PushAll(rec.skipped, new)
  OBVIOUS
<1>6. rec.skipped \in Seq(SkippedKey) /\ rec.lost \in SUBSET SkippedKey
  BY DEF Record
<1>7. /\ kept \in Seq(SkippedKey) /\ ToSet(kept) \subseteq ToSet(rec.skipped) \cup ToSet(new)
      /\ InOrder(rec.skipped) => InOrder(kept)
  BY <1>4, <1>5, <1>6, PushAllFacts
<1>8. r = [rec EXCEPT !.skipped = kept,
                      !.lost = @ \cup ((ToSet(rec.skipped) \cup ToSet(new)) \ ToSet(kept))]
  BY <1>0, <1>2, <1>3, <1>5 DEF StoreSkipped
<1>9. r.skipped = kept
      /\ r.lost = rec.lost \cup ((ToSet(rec.skipped) \cup ToSet(new)) \ ToSet(kept))
  BY <1>8 DEF Record
<1>10. ToSet(rec.skipped) \subseteq SkippedKey /\ ToSet(new) \subseteq SkippedKey
  BY <1>4, <1>6 DEF ToSet
<1>11. QED BY <1>0, <1>4, <1>6, <1>7, <1>8, <1>9, <1>10 DEF Skips

\* No key is dropped without a trace.
Saves(rec, ratchet, chain, last, r) ==
  /\ ToSet(rec.skipped) \cup rec.lost \subseteq ToSet(r.skipped) \cup r.lost
  /\ \A k \in SkippedKey : Passed(k, ratchet, chain, last) => k \in ToSet(r.skipped) \cup r.lost

LEMMA StoreSkippedSaves ==
  ASSUME NEW rec \in Record, NEW ratchet \in KeyPair, NEW chain \in MessageChain,
         NEW last \in Int
  PROVE  Saves(rec, ratchet, chain, last, StoreSkipped(rec, ratchet, chain, last))
<1>0. PICK r : r = StoreSkipped(rec, ratchet, chain, last)
  OBVIOUS
<1>1. chain.counter \in Nat /\ chain.key \in RootKey
  BY DEF MessageChain
<1>2. PICK n \in Int : n = IF last < chain.counter THEN 0 ELSE last + 1 - chain.counter
  BY <1>1
<1>3. PICK new : new = [i \in 1 .. n |-> [ratchet |-> ratchet, counter |-> chain.counter + i - 1,
                                         key |-> chain.key]]
  OBVIOUS
<1>4. PICK kept : kept = PushAll(rec.skipped, new)
  OBVIOUS
<1>5. r = [rec EXCEPT !.skipped = kept,
                      !.lost = @ \cup ((ToSet(rec.skipped) \cup ToSet(new)) \ ToSet(kept))]
  BY <1>0, <1>2, <1>3, <1>4 DEF StoreSkipped
<1>6. r.skipped = kept
      /\ r.lost = rec.lost \cup ((ToSet(rec.skipped) \cup ToSet(new)) \ ToSet(kept))
  BY <1>5 DEF Record
<1>7. ASSUME NEW k \in SkippedKey, Passed(k, ratchet, chain, last) PROVE k \in ToSet(new)
  <2>1. k = [ratchet |-> ratchet, counter |-> k.counter, key |-> chain.key]
        /\ k.counter \in Nat /\ chain.counter <= k.counter /\ k.counter <= last
    BY <1>7 DEF SkippedKey, Passed
  <2>2. PICK i \in Int : i = k.counter - chain.counter + 1
    BY <1>1, <2>1
  <2>3. i \in 1 .. n /\ chain.counter + i - 1 = k.counter
    BY <1>1, <1>2, <2>1, <2>2
  <2>4. new[i] = k
    BY <1>3, <2>1, <2>3
  <2>5. QED BY <1>3, <2>3, <2>4 DEF ToSet
<1>8. QED BY <1>0, <1>6, <1>7 DEF Saves

\* One of the skipped keys is the message's, and is removed.
Taken(rec, w, r) ==
  \E i \in DOMAIN rec.skipped :
    /\ SameKey(rec.skipped[i], w) /\ rec.skipped[i].key = w.key
    /\ r = [rec EXCEPT !.skipped = RemoveAt(rec.skipped, i)]

\* The message is one of the receiving chain.
Stayed(rec, w, r) ==
  /\ rec.recv # None /\ rec.remote = w.ratchet
  /\ w.key = rec.recv.key /\ rec.recv.counter <= w.counter
  /\ r.root = rec.root /\ r.send = rec.send
  /\ \A k \in ToSet(r.skipped) :
       \/ k \in ToSet(rec.skipped)
       \/ k.ratchet = w.ratchet /\ k.key = w.key
          /\ rec.recv.counter <= k.counter /\ k.counter < w.counter

\* The message begins the next receiving chain.
Moved(rec, w, r) ==
  /\ rec.remote # w.ratchet \/ rec.recv = None
  /\ w.key = RootStep(rec.root, rec.local, w.ratchet)
  /\ r.root = w.key /\ r.send = Uninitialized
  /\ \A k \in ToSet(r.skipped) :
       \/ k \in ToSet(rec.skipped)
       \/ /\ rec.recv # None
          /\ k.ratchet = rec.remote /\ k.key = rec.recv.key /\ rec.recv.counter <= k.counter
       \/ k.ratchet = w.ratchet /\ k.key = w.key /\ k.counter < w.counter

OnChain(rec, w, r) ==
  /\ \A k \in ToSet(rec.skipped) : ~SameKey(k, w)
  /\ r.remote = w.ratchet /\ r.recv = [key |-> w.key, counter |-> w.counter + 1]
  /\ r.local = rec.local /\ r.inboundBase = rec.inboundBase
  /\ Stayed(rec, w, r) \/ Moved(rec, w, r)

LEMMA RootStepFacts ==
  ASSUME NEW root \in RootKey, NEW mine \in KeyPair, NEW theirs \in KeyPair
  PROVE  /\ RootStep(root, mine, theirs) \in RootKey
         /\ Len(RootStep(root, mine, theirs)) = Len(root) + 1
         /\ RootStep(root, mine, theirs)[1] = root[1]
         /\ RootStep(root, mine, theirs)[Len(root) + 1] = {mine, theirs}
         /\ Len(root) \in Nat \ {0}
<1>1. PICK S : S = Agreement \cup SUBSET KeyPair
  OBVIOUS
<1>2. RootKey = Seq(S) \ {<<>>} /\ {mine, theirs} \in S
  BY <1>1 DEF RootKey
<1>3. QED BY <1>2 DEF RootStep

\* What is left after an element is removed from a sequence.
LEMMA RemoveAtFacts ==
  ASSUME NEW S, NEW seq \in Seq(S), NEW i \in 1 .. Len(seq)
  PROVE  /\ RemoveAt(seq, i) \in Seq(S)
         /\ Len(RemoveAt(seq, i)) = Len(seq) - 1
         /\ \A k \in 1 .. Len(seq) - 1 :
              RemoveAt(seq, i)[k] = IF k < i THEN seq[k] ELSE seq[k + 1]
<1> DEFINE a == SubSeq(seq, 1, i - 1)
           b == SubSeq(seq, i + 1, Len(seq))
<1>1. a \in Seq(S) /\ Len(a) = i - 1 /\ \A k \in 1 .. i - 1 : a[k] = seq[k]
  OBVIOUS
<1>2. b \in Seq(S) /\ Len(b) = Len(seq) - i /\ \A k \in 1 .. Len(seq) - i : b[k] = seq[k + i]
  OBVIOUS
<1>3. RemoveAt(seq, i) = a \o b
  BY DEF RemoveAt
<1> HIDE DEF a, b
<1>4. /\ a \o b \in Seq(S) /\ Len(a \o b) = Len(a) + Len(b)
      /\ \A k \in 1 .. Len(a) + Len(b) :
           (a \o b)[k] = IF k <= Len(a) THEN a[k] ELSE b[k - Len(a)]
  BY <1>1, <1>2, ConcatProperties
<1>5. Len(a) = i - 1 /\ Len(b) = Len(seq) - i /\ Len(seq) \in Nat /\ i \in Nat
  BY <1>1, <1>2
<1>6. ASSUME NEW k \in 1 .. Len(seq) - 1
      PROVE  (a \o b)[k] = IF k < i THEN seq[k] ELSE seq[k + 1]
  <2>1. CASE k < i
    BY <1>1, <1>4, <1>5, <2>1
  <2>2. CASE ~ k < i
    <3>1. k - (i - 1) \in 1 .. Len(seq) - i /\ k \in 1 .. Len(a) + Len(b)
          /\ ~ k <= Len(a) /\ k - (i - 1) + i = k + 1
      BY <1>5, <2>2
    <3>2. (a \o b)[k] = b[k - (i - 1)]
      BY <1>4, <1>5, <3>1
    <3>3. QED BY <1>2, <2>2, <3>1, <3>2
  <2>3. QED BY <2>1, <2>2
<1>7. QED BY <1>3, <1>4, <1>5, <1>6

\* A skipped key is taken out; the others are where they were, or one before.
LEMMA TakenFacts ==
  ASSUME NEW rec \in Record, NEW w, NEW r, Taken(rec, w, r)
  PROVE  /\ r \in Record /\ \A k \in ToSet(r.skipped) : k \in ToSet(rec.skipped)
         /\ r = [rec EXCEPT !.skipped = r.skipped]
         /\ InOrder(rec.skipped) => /\ InOrder(r.skipped)
                                    /\ \A k \in ToSet(r.skipped) : ~SameKey(k, w)
         /\ \E k \in ToSet(rec.skipped) : SameKey(k, w) /\ k.key = w.key
<1>1. PICK i \in DOMAIN rec.skipped :
        /\ SameKey(rec.skipped[i], w) /\ rec.skipped[i].key = w.key
        /\ r = [rec EXCEPT !.skipped = RemoveAt(rec.skipped, i)]
  BY DEF Taken
<1>2. PICK old : old = rec.skipped
  OBVIOUS
<1>3. old \in Seq(SkippedKey) /\ i \in 1 .. Len(old) /\ Len(old) \in Nat
      /\ DOMAIN old = 1 .. Len(old)
  BY <1>2 DEF Record
<1>4. PICK new : new = RemoveAt(old, i)
  OBVIOUS
<1>5. new \in Seq(SkippedKey) /\ Len(new) = Len(old) - 1 /\ DOMAIN new = 1 .. Len(new)
      /\ \A k \in 1 .. Len(old) - 1 : new[k] = IF k < i THEN old[k] ELSE old[k + 1]
  <2>1. /\ RemoveAt(old, i) \in Seq(SkippedKey) /\ Len(RemoveAt(old, i)) = Len(old) - 1
        /\ \A k \in 1 .. Len(old) - 1 :
             RemoveAt(old, i)[k] = IF k < i THEN old[k] ELSE old[k + 1]
    BY <1>3, RemoveAtFacts
  <2>2. QED BY <1>4, <2>1
<1>6. r = [rec EXCEPT !.skipped = new] /\ r.skipped = new
  BY <1>1, <1>2, <1>4 DEF Record
<1>7. \A k \in 1 .. Len(new) : \E j \in 1 .. Len(old) : new[k] = old[j] /\ j # i
  <2>1. ASSUME NEW k \in 1 .. Len(new)
        PROVE  \E j \in 1 .. Len(old) : new[k] = old[j] /\ j # i
    <3>1. k \in 1 .. Len(old) /\ k + 1 \in 1 .. Len(old)
      BY <1>3, <1>5
    <3>2. QED BY <1>3, <1>5, <3>1
  <2>2. QED BY <2>1
<1>8. \A k \in ToSet(new) : k \in ToSet(old)
  <2>1. ToSet(new) = {new[k] : k \in 1 .. Len(new)} /\ ToSet(old) = {old[k] : k \in 1 .. Len(old)}
    BY <1>3, <1>5 DEF ToSet
  <2>2. QED BY <1>7, <2>1
<1>9. ASSUME InOrder(old) PROVE InOrder(new) /\ \A k \in ToSet(new) : ~SameKey(k, w)
  <2>1. ASSUME NEW k \in 1 .. Len(new), NEW j \in 1 .. Len(new), SameKey(new[k], new[j])
        PROVE  k = j
    <3>1. k \in 1 .. Len(old) /\ k + 1 \in 1 .. Len(old) /\ j \in 1 .. Len(old)
          /\ j + 1 \in 1 .. Len(old) /\ k \in 1 .. Len(old) - 1 /\ j \in 1 .. Len(old) - 1
      BY <1>3, <1>5
    <3>2. new[k] = (IF k < i THEN old[k] ELSE old[k + 1])
          /\ new[j] = (IF j < i THEN old[j] ELSE old[j + 1])
      BY <1>5, <3>1
    <3>3. \A x, y \in 1 .. Len(old) : SameKey(old[x], old[y]) => x = y
      BY <1>3, <1>9 DEF InOrder
    <3>4. CASE k < i /\ j < i
      BY <2>1, <3>1, <3>2, <3>3, <3>4
    <3>5. CASE k < i /\ ~(j < i)
      BY <1>3, <2>1, <3>1, <3>2, <3>3, <3>5
    <3>6. CASE ~(k < i) /\ j < i
      BY <1>3, <2>1, <3>1, <3>2, <3>3, <3>6
    <3>7. CASE ~(k < i) /\ ~(j < i)
      <4>1. k + 1 = j + 1
        BY <2>1, <3>1, <3>2, <3>3, <3>7
      <4>2. QED BY <4>1
    <3>8. QED BY <3>4, <3>5, <3>6, <3>7
  <2>2. Len(new) <= MaxSkipped
    BY <1>3, <1>5, <1>9, RatchetAssumption DEF InOrder
  <2>3. \A k \in 1 .. Len(new) : ~SameKey(new[k], w)
    <3>1. ASSUME NEW j \in 1 .. Len(old), j # i PROVE ~SameKey(old[j], w)
      <4>1. ~SameKey(old[j], old[i])
        BY <1>3, <1>9, <3>1 DEF InOrder
      <4>2. QED BY <1>1, <1>2, <4>1 DEF SameKey
    <3>2. QED BY <1>7, <3>1
  <2>4. QED BY <1>5, <2>1, <2>2, <2>3 DEF InOrder, ToSet
<1>10. r \in Record
  BY <1>5, <1>6 DEF Record
<1>11. QED
  <2>1. \E k \in ToSet(rec.skipped) : SameKey(k, w) /\ k.key = w.key
    BY <1>1 DEF ToSet
  <2>2. QED BY <1>2, <1>6, <1>8, <1>9, <1>10, <2>1

\* Every record that Advance returns for a message comes about in one of three ways.
LEMMA AdvanceFacts ==
  ASSUME NEW rec \in Record, Valid(rec), NEW w \in Message, NEW r, r = Advance(rec, w), r # None
  PROVE  /\ r \in Record /\ InOrder(r.skipped)
         /\ Taken(rec, w, r) \/ OnChain(rec, w, r)
<1>1. InOrder(rec.skipped) /\ ((rec.recv = None) = (rec.remote = None))
  BY DEF Valid, InOrder
<1>2. CASE \E i \in DOMAIN rec.skipped : SameKey(rec.skipped[i], w)
  <2>1. r = DecryptStored(rec, w)
    BY <1>2 DEF Advance
  <2>2. PICK i : i = CHOOSE n \in DOMAIN rec.skipped : SameKey(rec.skipped[n], w)
    OBVIOUS
  <2>3. i \in DOMAIN rec.skipped /\ SameKey(rec.skipped[i], w)
    BY <1>2, <2>2
  <2>4. rec.skipped[i].key = w.key /\ r = [rec EXCEPT !.skipped = RemoveAt(@, i)]
    BY <2>1, <2>2 DEF DecryptStored
  <2>5. r = [rec EXCEPT !.skipped = RemoveAt(rec.skipped, i)]
    BY <2>4 DEF Record
  <2>6. Taken(rec, w, r)
    BY <2>3, <2>4, <2>5 DEF Taken
  <2>7. QED BY <1>1, <2>6, TakenFacts
<1>3. CASE ~\E i \in DOMAIN rec.skipped : SameKey(rec.skipped[i], w)
  <2>1. r = DecryptOnChain(rec, w)
    BY <1>3 DEF Advance
  <2>2. \A k \in ToSet(rec.skipped) : ~SameKey(k, w)
    BY <1>3 DEF ToSet
  <2>3. PICK c : c = IF rec.remote # w.ratchet \/ rec.recv = None THEN DhRatchet(rec, w) ELSE rec
    OBVIOUS
  <2>4. /\ ~(w.counter < c.recv.counter) /\ w.key = c.recv.key
        /\ r = [StoreSkipped(c, w.ratchet, c.recv, w.counter - 1)
                  EXCEPT !.recv.counter = w.counter + 1]
    BY <2>1, <2>3 DEF DecryptOnChain
  <2>5. w.counter \in Nat /\ w.prev \in Nat /\ w.ratchet \in KeyPair /\ w.key \in RootKey
    BY DEF Message
  <2>6. PICK s : s = StoreSkipped(c, w.ratchet, c.recv, w.counter - 1)
    OBVIOUS
  <2>7. CASE ~(rec.remote # w.ratchet \/ rec.recv = None)
    <3>1. c = rec /\ rec.recv # None /\ rec.remote = w.ratchet
      BY <2>3, <2>7
    <3>2. rec.recv \in MessageChain
      BY <3>1 DEF Record
    <3>3. /\ s.skipped \in Seq(SkippedKey) /\ s.lost \in SUBSET SkippedKey
          /\ s = [rec EXCEPT !.skipped = s.skipped, !.lost = s.lost]
          /\ \A k \in ToSet(s.skipped) : k \in ToSet(rec.skipped)
                                         \/ Passed(k, w.ratchet, rec.recv, w.counter - 1)
          /\ InOrder(rec.skipped) => InOrder(s.skipped)
      <4>1. w.counter - 1 \in Int /\ s = StoreSkipped(rec, w.ratchet, rec.recv, w.counter - 1)
        BY <2>5, <2>6, <3>1
      <4>2. PICK last \in Int, chain \in MessageChain, ratchet \in KeyPair :
              last = w.counter - 1 /\ chain = rec.recv /\ ratchet = w.ratchet
        BY <2>5, <3>2, <4>1
      <4>3. s = StoreSkipped(rec, ratchet, chain, last)
        BY <4>1, <4>2
      <4>4. Skips(rec, ratchet, chain, last, s)
        BY <4>3, StoreSkippedFacts
      <4>5. QED BY <4>2, <4>4 DEF Skips
    <3>4. r = [s EXCEPT !.recv.counter = w.counter + 1]
      BY <2>4, <2>6
    <3>5. /\ r.skipped = s.skipped /\ r.lost = s.lost /\ r.root = rec.root /\ r.send = rec.send
          /\ r.local = rec.local /\ r.remote = rec.remote /\ r.inboundBase = rec.inboundBase
          /\ r.prev = rec.prev
          /\ r.recv = [rec.recv EXCEPT !.counter = w.counter + 1]
          /\ r = [rec EXCEPT !.skipped = s.skipped, !.lost = s.lost, !.recv = r.recv]
      <4>1. PICK a, b : a = s.skipped /\ b = s.lost
        OBVIOUS
      <4>2. s = [rec EXCEPT !.skipped = a, !.lost = b]
        BY <3>3, <4>1
      <4>3. r = [rec EXCEPT !.skipped = a, !.lost = b,
                            !.recv = [rec.recv EXCEPT !.counter = w.counter + 1]]
        BY <3>4, <4>2 DEF Record
      <4>4. QED BY <4>1, <4>3 DEF Record
    <3>6. r.recv = [key |-> w.key, counter |-> w.counter + 1] /\ r.recv \in MessageChain
      BY <2>4, <2>5, <3>1, <3>2, <3>5 DEF MessageChain
    <3>7. r \in Record
      BY <3>3, <3>5, <3>6 DEF Record
    <3>8. rec.recv.counter <= w.counter /\ w.key = rec.recv.key /\ rec.recv.counter \in Nat
      BY <2>4, <2>5, <3>1, <3>2 DEF MessageChain
    <3>9. ASSUME NEW k \in ToSet(r.skipped)
          PROVE  \/ k \in ToSet(rec.skipped)
                 \/ k.ratchet = w.ratchet /\ k.key = w.key
                    /\ rec.recv.counter <= k.counter /\ k.counter < w.counter
      <4>1. k \in SkippedKey
        BY <3>3, <3>5 DEF ToSet
      <4>2. k.counter \in Nat
        BY <4>1 DEF SkippedKey
      <4>3. QED BY <2>5, <3>3, <3>5, <3>8, <4>2 DEF Passed
    <3>10. Stayed(rec, w, r)
      BY <3>1, <3>5, <3>8, <3>9 DEF Stayed
    <3>11. QED BY <1>1, <2>2, <3>1, <3>3, <3>5, <3>6, <3>7, <3>10 DEF OnChain
  <2>8. CASE rec.remote # w.ratchet \/ rec.recv = None
    <3>1. PICK root : root = RootStep(rec.root, rec.local, w.ratchet)
      OBVIOUS
    <3>2. root \in RootKey
      BY <2>5, <3>1, RootStepFacts DEF Record
    <3>3. PICK e : e = IF rec.recv = None THEN rec
                       ELSE StoreSkipped(rec, rec.remote, rec.recv, w.prev)
      OBVIOUS
    <3>4. /\ e.skipped \in Seq(SkippedKey) /\ e.lost \in SUBSET SkippedKey
          /\ e = [rec EXCEPT !.skipped = e.skipped, !.lost = e.lost]
          /\ \A k \in ToSet(e.skipped) :
               \/ k \in ToSet(rec.skipped)
               \/ rec.recv # None /\ Passed(k, rec.remote, rec.recv, w.prev)
          /\ InOrder(rec.skipped) => InOrder(e.skipped)
      <4>1. CASE rec.recv = None
        BY <3>3, <4>1 DEF Record
      <4>2. CASE rec.recv # None
        <5>1. rec.recv \in MessageChain /\ rec.remote \in KeyPair
          BY <1>1, <4>2 DEF Record
        <5>2. w.prev \in Int
          BY <2>5
        <5>3. e = StoreSkipped(rec, rec.remote, rec.recv, w.prev)
          BY <3>3, <4>2
        <5>4. PICK last \in Int, chain \in MessageChain, ratchet \in KeyPair :
                last = w.prev /\ chain = rec.recv /\ ratchet = rec.remote
          BY <5>1, <5>2
        <5>5. e = StoreSkipped(rec, ratchet, chain, last)
          BY <5>3, <5>4
        <5>6. Skips(rec, ratchet, chain, last, e)
          BY <5>5, StoreSkippedFacts
        <5>7. QED BY <4>2, <5>4, <5>6 DEF Skips
      <4>3. QED BY <4>1, <4>2
    <3>5. PICK prev \in Nat : prev = IF rec.send.counter = 0 THEN 0 ELSE rec.send.counter - 1
      <4>1. rec.send.counter \in Nat
        BY DEF Record, MessageChain, Uninitialized
      <4>2. QED BY <4>1
    <3>6. c = [e EXCEPT !.prev = prev, !.root = root, !.recv = Chain(root),
                        !.remote = w.ratchet, !.send = Uninitialized]
      BY <2>3, <2>8, <3>1, <3>3, <3>5 DEF DhRatchet
    <3>7. /\ c.recv = Chain(root) /\ c.root = root /\ c.send = Uninitialized
          /\ c.remote = w.ratchet /\ c.local = rec.local /\ c.inboundBase = rec.inboundBase
          /\ c.prev = prev /\ c.skipped = e.skipped /\ c.lost = e.lost
          /\ c = [rec EXCEPT !.skipped = e.skipped, !.lost = e.lost, !.prev = prev,
                             !.root = root, !.recv = Chain(root), !.remote = w.ratchet,
                             !.send = Uninitialized]
      BY <3>4, <3>6 DEF Record
    <3>8. Chain(root) \in MessageChain /\ Chain(root).counter = 0 /\ Chain(root).key = root
      BY <3>2 DEF Chain, MessageChain
    <3>9. c \in Record
      BY <2>5, <3>2, <3>4, <3>7, <3>8 DEF Record
    <3>10. /\ s.skipped \in Seq(SkippedKey) /\ s.lost \in SUBSET SkippedKey
           /\ s = [c EXCEPT !.skipped = s.skipped, !.lost = s.lost]
           /\ \A k \in ToSet(s.skipped) : k \in ToSet(c.skipped)
                                          \/ Passed(k, w.ratchet, c.recv, w.counter - 1)
           /\ InOrder(c.skipped) => InOrder(s.skipped)
      <4>1. w.counter - 1 \in Int /\ c.recv \in MessageChain
        BY <2>5, <3>7, <3>8
      <4>2. PICK last \in Int, chain \in MessageChain, ratchet \in KeyPair :
              last = w.counter - 1 /\ chain = c.recv /\ ratchet = w.ratchet
        BY <2>5, <4>1
      <4>3. s = StoreSkipped(c, ratchet, chain, last)
        BY <2>6, <4>2
      <4>4. Skips(c, ratchet, chain, last, s)
        BY <3>9, <4>3, StoreSkippedFacts
      <4>5. QED BY <4>2, <4>4 DEF Skips
    <3>11. r = [s EXCEPT !.recv.counter = w.counter + 1]
      BY <2>4, <2>6
    <3>12. /\ r.skipped = s.skipped /\ r.lost = s.lost /\ r.root = root /\ r.send = Uninitialized
           /\ r.local = rec.local /\ r.remote = w.ratchet /\ r.inboundBase = rec.inboundBase
           /\ r.prev = prev
           /\ r.recv = [c.recv EXCEPT !.counter = w.counter + 1]
           /\ r = [c EXCEPT !.skipped = s.skipped, !.lost = s.lost, !.recv = r.recv]
      <4>1. s.recv = c.recv /\ s.root = root /\ s.send = Uninitialized /\ s.local = rec.local
            /\ s.remote = w.ratchet /\ s.inboundBase = rec.inboundBase /\ s.prev = prev
        BY <3>7, <3>9, <3>10 DEF Record
      <4>2. s \in Record
        BY <3>9, <3>10 DEF Record
      <4>3. /\ r.skipped = s.skipped /\ r.lost = s.lost /\ r.root = s.root /\ r.send = s.send
            /\ r.local = s.local /\ r.remote = s.remote /\ r.inboundBase = s.inboundBase
            /\ r.prev = s.prev /\ r.recv = [s.recv EXCEPT !.counter = w.counter + 1]
            /\ r = [s EXCEPT !.recv = r.recv]
        BY <3>11, <4>2 DEF Record
      <4>4. r = [c EXCEPT !.skipped = s.skipped, !.lost = s.lost, !.recv = r.recv]
        BY <3>9, <3>10, <4>3 DEF Record
      <4>5. QED BY <4>1, <4>3, <4>4
    <3>13. w.key = root
      BY <2>4, <3>7, <3>8
    <3>14. r.recv = [key |-> w.key, counter |-> w.counter + 1] /\ r.recv \in MessageChain
      BY <2>5, <3>7, <3>12, <3>13 DEF MessageChain, Chain
    <3>15. r \in Record
      BY <3>9, <3>10, <3>12, <3>14 DEF Record
    <3>16. ASSUME NEW k \in ToSet(r.skipped)
           PROVE  \/ k \in ToSet(rec.skipped)
                  \/ /\ rec.recv # None
                     /\ k.ratchet = rec.remote /\ k.key = rec.recv.key
                     /\ rec.recv.counter <= k.counter
                  \/ k.ratchet = w.ratchet /\ k.key = w.key /\ k.counter < w.counter
      <4>1. k \in SkippedKey
        BY <3>10, <3>12 DEF ToSet
      <4>2. k.counter \in Nat
        BY <4>1 DEF SkippedKey
      <4>3. k \in ToSet(c.skipped) \/ Passed(k, w.ratchet, c.recv, w.counter - 1)
        BY <3>10, <3>12
      <4>4. CASE k \in ToSet(c.skipped)
        BY <3>4, <3>7, <4>4 DEF Passed
      <4>5. CASE Passed(k, w.ratchet, c.recv, w.counter - 1)
        BY <2>5, <3>7, <3>8, <3>13, <4>2, <4>5 DEF Passed
      <4>6. QED BY <4>3, <4>4, <4>5
    <3>17. Moved(rec, w, r)
      BY <2>8, <3>1, <3>12, <3>13, <3>16 DEF Moved
    <3>18. QED BY <1>1, <2>2, <3>4, <3>7, <3>10, <3>12, <3>14, <3>15, <3>17 DEF OnChain
  <2>9. QED BY <2>7, <2>8
<1>4. QED BY <1>2, <1>3

LEMMA ChainFacts ==
  ASSUME NEW root \in RootKey
  PROVE  /\ Chain(root) \in MessageChain /\ Chain(root).key = root /\ Chain(root).counter = 0
         /\ Chain(root) # Uninitialized /\ Chain(root) # None
BY SessionAssumption DEF Chain, MessageChain, Uninitialized, RootKey

\* The same three ways, with what becomes of the keys of messages not decrypted.
Held(rec) == ToSet(rec.skipped) \cup rec.lost

Took(rec, w, r) ==
  /\ Taken(rec, w, r) /\ r.prev = rec.prev
  /\ \A k \in Held(rec) : k \in Held(r) \/ (SameKey(k, w) /\ k.key = w.key)

Continued(rec, w, r) ==
  /\ OnChain(rec, w, r) /\ Stayed(rec, w, r) /\ r.prev = rec.prev /\ Held(rec) \subseteq Held(r)
  /\ \A k \in SkippedKey :
       Passed(k, w.ratchet, rec.recv, w.counter - 1) => k \in Held(r)

Turned(rec, w, r) ==
  /\ OnChain(rec, w, r) /\ Moved(rec, w, r) /\ Held(rec) \subseteq Held(r)
  /\ r.prev = IF rec.send.counter = 0 THEN 0 ELSE rec.send.counter - 1
  /\ \A k \in SkippedKey :
       \/ rec.recv # None /\ Passed(k, rec.remote, rec.recv, w.prev)
       \/ k.ratchet = w.ratchet /\ k.key = w.key /\ k.counter < w.counter
       => k \in Held(r)

LEMMA TookFacts ==
  ASSUME NEW rec \in Record, NEW w, NEW r, Taken(rec, w, r)
  PROVE  Took(rec, w, r)
<1>1. PICK i \in DOMAIN rec.skipped :
        /\ SameKey(rec.skipped[i], w) /\ rec.skipped[i].key = w.key
        /\ r = [rec EXCEPT !.skipped = RemoveAt(rec.skipped, i)]
  BY DEF Taken
<1>2. PICK old \in Seq(SkippedKey) : old = rec.skipped
  BY DEF Record
<1>3. i \in 1 .. Len(old) /\ DOMAIN old = 1 .. Len(old) /\ Len(old) \in Nat
  BY <1>1, <1>2
<1>4. PICK new : new = RemoveAt(old, i)
  OBVIOUS
<1>5. new \in Seq(SkippedKey) /\ Len(new) = Len(old) - 1
      /\ \A k \in 1 .. Len(old) - 1 : new[k] = IF k < i THEN old[k] ELSE old[k + 1]
  BY <1>3, <1>4, RemoveAtFacts
<1>6. r.skipped = new /\ r.lost = rec.lost /\ r.prev = rec.prev
  BY <1>1, <1>2, <1>4 DEF Record
<1>7. ASSUME NEW j \in 1 .. Len(old), j # i PROVE old[j] \in ToSet(new)
  <2>1. CASE j < i
    <3>1. j \in 1 .. Len(new) /\ new[j] = old[j]
      BY <1>3, <1>5, <2>1
    <3>2. QED BY <1>5, <3>1 DEF ToSet
  <2>2. CASE ~(j < i)
    <3>1. PICK n \in Int : n = j - 1
      BY <2>2
    <3>2. n \in 1 .. Len(new) /\ new[n] = old[j]
      BY <1>3, <1>5, <1>7, <2>2, <3>1
    <3>3. QED BY <1>5, <3>2 DEF ToSet
  <2>3. QED BY <2>1, <2>2
<1>8. ASSUME NEW k \in ToSet(rec.skipped)
      PROVE  k \in ToSet(new) \/ (SameKey(k, w) /\ k.key = w.key)
  <2>1. PICK j \in 1 .. Len(old) : k = old[j]
    BY <1>2, <1>3 DEF ToSet
  <2>2. QED BY <1>1, <1>2, <1>7, <2>1
<1>9. QED BY <1>6, <1>8 DEF Took, Held

LEMMA AdvanceKeeps ==
  ASSUME NEW rec \in Record, Valid(rec), NEW w \in Message, NEW r, r = Advance(rec, w), r # None
  PROVE  Took(rec, w, r) \/ Continued(rec, w, r) \/ Turned(rec, w, r)
<1>0. Taken(rec, w, r) \/ OnChain(rec, w, r)
  BY AdvanceFacts
<1>1. CASE Taken(rec, w, r)
  BY <1>1, TookFacts
<1>2. CASE OnChain(rec, w, r)
  <2>1. r = DecryptOnChain(rec, w)
    BY <1>2 DEF Advance, OnChain, ToSet
  <2>2. w.counter \in Nat /\ w.prev \in Nat /\ w.ratchet \in KeyPair /\ w.key \in RootKey
    BY DEF Message
  <2>3. PICK c : c = IF rec.remote # w.ratchet \/ rec.recv = None THEN DhRatchet(rec, w) ELSE rec
    OBVIOUS
  <2>4. /\ w.key = c.recv.key
        /\ r = [StoreSkipped(c, w.ratchet, c.recv, w.counter - 1)
                  EXCEPT !.recv.counter = w.counter + 1]
    BY <2>1, <2>3 DEF DecryptOnChain
  <2>5. PICK s : s = StoreSkipped(c, w.ratchet, c.recv, w.counter - 1)
    OBVIOUS
  <2>6. ASSUME c \in Record, c.recv \in MessageChain
        PROVE  /\ r.prev = c.prev /\ Held(c) \subseteq Held(r)
               /\ \A k \in SkippedKey : Passed(k, w.ratchet, c.recv, w.counter - 1) => k \in Held(r)
    <3>1. PICK last \in Int, chain \in MessageChain, ratchet \in KeyPair :
            last = w.counter - 1 /\ chain = c.recv /\ ratchet = w.ratchet
      BY <2>2, <2>6
    <3>2. s = StoreSkipped(c, ratchet, chain, last)
      BY <2>5, <3>1
    <3>3. Skips(c, ratchet, chain, last, s) /\ Saves(c, ratchet, chain, last, s)
      BY <2>6, <3>2, StoreSkippedFacts, StoreSkippedSaves
    <3>4. s \in Record /\ s.prev = c.prev
      BY <2>6, <3>3 DEF Skips, Record
    <3>5. r = [s EXCEPT !.recv.counter = w.counter + 1]
      BY <2>4, <2>5
    <3>6. r.prev = s.prev /\ r.skipped = s.skipped /\ r.lost = s.lost
      BY <3>4, <3>5 DEF Record
    <3>7. QED BY <3>1, <3>3, <3>4, <3>6 DEF Saves, Held
  <2>7. CASE ~(rec.remote # w.ratchet \/ rec.recv = None)
    <3>1. c = rec /\ rec.recv # None /\ rec.remote = w.ratchet
      BY <2>3, <2>7
    <3>2. rec.recv \in MessageChain
      BY <3>1 DEF Record
    <3>3. Stayed(rec, w, r)
      BY <1>2, <3>1 DEF OnChain, Moved
    <3>4. QED BY <1>2, <2>6, <3>1, <3>2, <3>3 DEF Continued
  <2>8. CASE rec.remote # w.ratchet \/ rec.recv = None
    <3>0. Moved(rec, w, r)
      BY <1>2, <2>8 DEF OnChain, Stayed
    <3>1. PICK root : root = RootStep(rec.root, rec.local, w.ratchet)
      OBVIOUS
    <3>2. root \in RootKey
      BY <2>2, <3>1, RootStepFacts DEF Record
    <3>3. PICK e : e = IF rec.recv = None THEN rec
                       ELSE StoreSkipped(rec, rec.remote, rec.recv, w.prev)
      OBVIOUS
    <3>4. /\ e \in Record /\ Held(rec) \subseteq Held(e)
          /\ \A k \in SkippedKey :
               rec.recv # None /\ Passed(k, rec.remote, rec.recv, w.prev) => k \in Held(e)
      <4>1. CASE rec.recv = None
        BY <3>3, <4>1
      <4>2. CASE rec.recv # None
        <5>1. rec.recv \in MessageChain /\ rec.remote \in KeyPair
          BY <4>2 DEF Record, Valid
        <5>2. PICK last \in Int, chain \in MessageChain, ratchet \in KeyPair :
                last = w.prev /\ chain = rec.recv /\ ratchet = rec.remote
          BY <2>2, <5>1
        <5>3. e = StoreSkipped(rec, ratchet, chain, last)
          BY <3>3, <4>2, <5>2
        <5>4. Skips(rec, ratchet, chain, last, e) /\ Saves(rec, ratchet, chain, last, e)
          BY <5>3, StoreSkippedFacts, StoreSkippedSaves
        <5>5. e \in Record
          BY <5>4 DEF Skips, Record
        <5>6. QED BY <5>2, <5>4, <5>5 DEF Saves, Held
      <4>3. QED BY <4>1, <4>2
    <3>5. PICK prev \in Nat : prev = IF rec.send.counter = 0 THEN 0 ELSE rec.send.counter - 1
      <4>1. rec.send.counter \in Nat
        BY DEF Record, MessageChain, Uninitialized
      <4>2. QED BY <4>1
    <3>6. c = [e EXCEPT !.prev = prev, !.root = root, !.recv = Chain(root),
                        !.remote = w.ratchet, !.send = Uninitialized]
      BY <2>3, <2>8, <3>1, <3>3, <3>5 DEF DhRatchet
    <3>7. PICK chain \in MessageChain : chain = Chain(root) /\ chain.counter = 0 /\ chain.key = root
      BY <3>2, ChainFacts
    <3>8. /\ c \in Record /\ c.recv = chain /\ c.prev = prev /\ c.skipped = e.skipped
          /\ c.lost = e.lost
      BY <2>2, <3>2, <3>4, <3>6, <3>7 DEF Record
    <3>9. /\ r.prev = prev /\ Held(c) \subseteq Held(r)
          /\ \A k \in SkippedKey : Passed(k, w.ratchet, chain, w.counter - 1) => k \in Held(r)
      BY <2>6, <3>8
    <3>10. Held(c) = Held(e)
      BY <3>8 DEF Held
    <3>11. ASSUME NEW k \in SkippedKey, k.ratchet = w.ratchet, k.key = w.key,
                  k.counter < w.counter
           PROVE  k \in Held(r)
      <4>1. w.key = chain.key
        BY <2>4, <3>8
      <4>2. k.counter \in Nat
        BY DEF SkippedKey
      <4>3. Passed(k, w.ratchet, chain, w.counter - 1)
        BY <2>2, <3>7, <3>11, <4>1, <4>2 DEF Passed
      <4>4. QED BY <3>9, <4>3
    <3>12. Held(rec) \subseteq Held(r)
      BY <3>4, <3>9, <3>10
    <3>13. \A k \in SkippedKey :
             rec.recv # None /\ Passed(k, rec.remote, rec.recv, w.prev) => k \in Held(r)
      BY <3>4, <3>9, <3>10
    <3>14. QED BY <1>2, <3>0, <3>5, <3>9, <3>11, <3>12, <3>13 DEF Turned
  <2>9. QED BY <2>7, <2>8
<1>3. QED BY <1>0, <1>1, <1>2

-----------------------------------------------------------------------------
(* The types of what the parties, the network and the tasks hold.          *)

Bundle == [oneTime : OneTimeKeys \cup {None}]

SignalTypeOK ==
  /\ session \in [Parties -> Record \cup {None}]
  /\ native \in [Parties -> Bundle \cup {None}]
  /\ preKeys \in [Parties -> SUBSET OneTimeKeys]
  /\ server \in [Parties -> SUBSET OneTimeKeys]
  /\ keyCount \in [Parties -> Nat] /\ fetches \in [Parties -> Nat]
  /\ net \subseteq Message /\ IsFiniteSet(net)
  /\ accepted \subseteq net /\ twice \subseteq accepted
  /\ spc \in [Senders -> {"idle", "fetch", "read", "encrypt", "first"}]
  /\ bundle \in [Senders -> Bundle \cup {None}]
  /\ \A t \in Senders : spc[t] = "first" => bundle[t] # None
  /\ rpc \in [Receivers -> {"idle", "replay", "decrypt", "bootstrap"}]
  /\ incoming \in [Receivers -> Message \cup {None}]
  /\ \A t \in Receivers : rpc[t] # "idle" =>
       incoming[t] \in net /\ incoming[t].from = Peer(t[1]) /\ incoming[t].pre # None

-----------------------------------------------------------------------------
(* Key pairs, chains and who sends on them.                                *)

\* The key pair has been generated.
Known(k) == k[2] <= keyCount[k[1]]

\* The key was derived from an agreement and at least one ratchet step, the
\* last one with key pairs that have been generated.
Derived(key) ==
  /\ Len(key) >= 2 /\ key[1] \in Agreement /\ Known(key[1].base)
  /\ key[Len(key)] \subseteq KeyPair /\ \A k \in key[Len(key)] : Known(k)

\* What p's record says about the keys it was derived from.
OwnKeys(p, rec) ==
  /\ Valid(rec) /\ Derived(rec.root) /\ Known(rec.local) /\ rec.local[1] = p
  /\ rec.send # Uninitialized \/ rec.recv # None
  /\ rec.send # Uninitialized => rec.send.key = rec.root
  /\ rec.recv = None => rec.root[1].base[1] = p
  /\ rec.recv # None => /\ Known(rec.remote)
                        /\ Len(rec.recv.key) <= Len(rec.root) /\ rec.recv.key[1] = rec.root[1]

SessionKeys == \A p \in Parties : session[p] # None => OwnKeys(p, session[p])

MessageKeys ==
  \A m \in net :
    /\ Derived(m.key) /\ Known(m.ratchet) /\ m.ratchet[1] = m.from
    /\ m.pre # None => /\ m.pre = [base |-> m.key[1].base, oneTime |-> m.key[1].oneTime]
                       /\ m.key[1].base[1] = m.from

Sends(p) == session[p] # None /\ session[p].send # Uninitialized

\* A sending chain is its owner's alone, and ahead of every message sent on it.
ChainsAhead ==
  \A p \in Parties : Sends(p) =>
    /\ \A m \in net : m.key = session[p].send.key =>
         m.from = p /\ m.counter < session[p].send.counter
    /\ \A q \in Parties \ {p} : Sends(q) => session[q].send.key # session[p].send.key

KeyInv == SessionKeys /\ MessageKeys /\ ChainsAhead /\ KeyNeverReused

-----------------------------------------------------------------------------
(* Skipped keys, and which message a chain is of.                          *)

\* A ratchet key goes with one chain.
Paired ==
  /\ \A m1, m2 \in net : m1.ratchet = m2.ratchet => m1.key = m2.key
  /\ \A p \in Parties, m \in net :
       Sends(p) /\ m.ratchet = session[p].local => m.key = session[p].send.key

SkippedOf(rec) ==
  /\ \A k \in ToSet(rec.skipped) :
       /\ k.key[1] = rec.root[1]
       /\ \E m \in net : m.ratchet = k.ratchet /\ m.key = k.key
       /\ rec.recv # None => /\ Len(k.key) <= Len(rec.recv.key)
                             /\ k.key = rec.recv.key => k.counter < rec.recv.counter
  /\ rec.recv # None => \E m \in net : m.ratchet = rec.remote /\ m.key = rec.recv.key

SkippedInv == Paired /\ \A p \in Parties : session[p] # None => SkippedOf(session[p])

-----------------------------------------------------------------------------
(* One-time pre-keys.                                                      *)

\* The one-time pre-key of an accepted message is gone.
Consumed ==
  \A m \in accepted :
    OneTime(m) /\ m.key[1].base[1] = m.from
    => m.key[1].oneTime \notin preKeys[Peer(m.from)]

\* A session the peer began with a one-time pre-key was set up by a message.
SetUp ==
  \A p \in Parties :
    (session[p] # None /\ session[p].root[1].base[1] # p /\ session[p].root[1].oneTime # None)
    => \E m \in accepted : m.from # p /\ m.pre # None /\ m.key[1] = session[p].root[1]

PreKeyInv == Consumed /\ SetUp /\ PreKeyUsedOnce

\* An accepted message is behind the session it belongs to.
Behind(rec, m) ==
  /\ rec.recv # None /\ Len(m.key) <= Len(rec.recv.key)
  /\ m.key = rec.recv.key => m.counter < rec.recv.counter
  /\ \A k \in ToSet(rec.skipped) : ~(SameKey(k, m) /\ k.key = m.key)

Spent ==
  \A p \in Parties, m \in accepted :
    (m.from # p /\ OneTime(m) /\ session[p] # None /\ session[p].root[1] = m.key[1])
    => Behind(session[p], m)

-----------------------------------------------------------------------------
(* Effects of the actions.                                                 *)

\* There are two parties: the peer of a party is the other one.
LEMMA PeerFacts ==
  ASSUME NEW p \in Parties
  PROVE  /\ Peer(p) \in Parties /\ Peer(p) # p
         /\ \A q \in Parties : q # p => q = Peer(p)
<1>1. PICK q : Parties \ {p} = {q}
  <2>1. IsFiniteSet(Parties \ {p}) /\ Cardinality(Parties \ {p}) = 1
    BY SessionAssumption, FS_RemoveElement
  <2>2. QED BY <2>1, FS_Singleton
<1>2. \E q1 \in Parties : q1 # p
  BY <1>1
<1>3. Peer(p) \in Parties /\ Peer(p) # p
  BY <1>2 DEF Peer
<1>4. QED BY <1>1, <1>3

\* The record that is sent on, the message, and what is stored.
SendEffect(p, rec, m) ==
  /\ rec \in Record /\ rec.send \in MessageChain
  /\ m \in Message /\ m.from = p /\ m.ratchet = rec.local /\ m.prev = rec.prev
  /\ m.counter = rec.send.counter /\ m.key = rec.send.key
  /\ Cardinality(Sent(p)) < MaxSends /\ net' = net \cup {m}
  /\ session' = [session EXCEPT ![p] = AfterSend(rec)]
  /\ UNCHANGED <<preKeys, accepted, twice>>

\* The record after a message was sent differs in the counter of its chain.
LEMMA AfterSendFacts ==
  ASSUME NEW rec \in Record, rec.send \in MessageChain, NEW r, r = AfterSend(rec)
  PROVE  /\ r \in Record /\ r.root = rec.root /\ r.recv = rec.recv /\ r.remote = rec.remote
         /\ r.local = rec.local /\ r.skipped = rec.skipped /\ r.lost = rec.lost
         /\ r.inboundBase = rec.inboundBase /\ r.prev = rec.prev
         /\ r.send.key = rec.send.key /\ r.send.counter = rec.send.counter + 1
         /\ r.send \in MessageChain /\ r.send # Uninitialized
<1>1. r = [rec EXCEPT !.send = [rec.send EXCEPT !.counter = @ + 1]]
  BY DEF AfterSend, Record
<1>2. r.send = [key |-> rec.send.key, counter |-> rec.send.counter + 1]
  BY <1>1 DEF Record, MessageChain
<1>3. rec.send.key \in RootKey /\ rec.send.counter \in Nat
  BY DEF MessageChain
<1>4. r.send \in MessageChain /\ r.send # Uninitialized
  BY <1>2, <1>3 DEF MessageChain, Uninitialized, RootKey
<1>5. QED BY <1>1, <1>2, <1>4 DEF Record

LEMMA SendFacts ==
  ASSUME SignalTypeOK, NEW p \in Parties, NEW rec \in Record, rec.send \in MessageChain,
         NEW pre \in Header \cup {None}, Send(p, Whisper(rec), pre)
  PROVE  \E m \in Message :
           /\ m.from = p /\ m.pre = pre /\ m.ratchet = rec.local /\ m.prev = rec.prev
           /\ m.counter = rec.send.counter /\ m.key = rec.send.key
           /\ net' = net \cup {m}
<1>1. PICK m : m = [from |-> p, body |-> Cardinality(Sent(p)), pre |-> pre,
                    ratchet |-> rec.local, counter |-> rec.send.counter,
                    prev |-> rec.prev, key |-> rec.send.key]
  OBVIOUS
<1>2. net' = net \cup {m}
  BY <1>1 DEF Send, Whisper
<1>3. Cardinality(Sent(p)) \in Nat
  <2>1. IsFiniteSet(Sent(p))
    BY FS_Subset DEF SignalTypeOK, Sent
  <2>2. QED BY <2>1, FS_CardinalityType
<1>4. m \in Message
  BY <1>1, <1>3 DEF Message, Record, MessageChain
<1>5. QED BY <1>1, <1>2, <1>4

\* The record of a session that p begins with its key pairs n and k.
FirstRecordOK(p, n, k, oneTime, rec) ==
  /\ rec \in Record /\ rec.send = Chain(rec.root)
  /\ rec.recv = None /\ rec.remote = None /\ rec.local = <<p, k>> /\ rec.skipped = <<>>
  /\ rec.prev = 0 /\ Len(rec.root) = 2 /\ rec.root[2] = {<<p, k>>, <<Peer(p), 0>>}
  /\ rec.root[1] = [base |-> <<p, n>>, signed |-> <<Peer(p), 0>>, oneTime |-> oneTime]
  /\ rec.root[1] \in Agreement

LEMMA FirstRecord ==
  ASSUME NEW p \in Parties, NEW n \in Nat, NEW k \in Nat, NEW oneTime \in OneTimeKeys \cup {None}
  PROVE  FirstRecordOK(p, n, k, oneTime, OutboundRecord(<<p, n>>, <<p, k>>, Peer(p), oneTime))
<1>0. PICK rec : rec = OutboundRecord(<<p, n>>, <<p, k>>, Peer(p), oneTime)
  OBVIOUS
<1>1. Peer(p) \in Parties
  BY PeerFacts
<1>2. PICK a \in Agreement : a = [base |-> <<p, n>>, signed |-> <<Peer(p), 0>>,
                                  oneTime |-> oneTime]
  BY <1>1 DEF Agreement, KeyPair
<1>3. PICK x : x = <<a>>
  OBVIOUS
<1>4. x = X3dh(<<p, n>>, Peer(p), oneTime)
  BY <1>2, <1>3 DEF X3dh, SignedPreKey
<1>5. x \in RootKey /\ Len(x) = 1 /\ x[1] = a
  BY <1>3 DEF RootKey
<1>6. <<p, k>> \in KeyPair /\ <<Peer(p), 0>> \in KeyPair
  BY <1>1 DEF KeyPair
<1>7. PICK root : root = RootStep(x, <<p, k>>, <<Peer(p), 0>>)
  OBVIOUS
<1>8. root \in RootKey /\ Len(root) = 2 /\ root[1] = a /\ root[2] = {<<p, k>>, <<Peer(p), 0>>}
  <2>1. PICK mine \in KeyPair, theirs \in KeyPair : mine = <<p, k>> /\ theirs = <<Peer(p), 0>>
    BY <1>6
  <2>2. root = RootStep(x, mine, theirs)
    BY <1>7, <2>1
  <2>3. root \in RootKey /\ Len(root) = Len(x) + 1 /\ root[1] = x[1]
        /\ root[Len(x) + 1] = {mine, theirs}
    BY <1>5, <2>2, RootStepFacts
  <2>4. QED BY <1>5, <2>1, <2>3
<1>9. rec = [root |-> root, send |-> Chain(root), recv |-> None, remote |-> None,
             local |-> <<p, k>>, prev |-> 0, skipped |-> <<>>, lost |-> {}, inboundBase |-> None]
  BY <1>0, <1>4, <1>7 DEF OutboundRecord, SignedPreKey
<1>10. rec \in Record
  <2>1. Chain(root) \in MessageChain
    BY <1>8, ChainFacts
  <2>2. <<>> \in Seq(SkippedKey) /\ 0 \in Nat
    OBVIOUS
  <2>3. PICK local \in KeyPair, chain \in MessageChain, skipped \in Seq(SkippedKey) :
          local = <<p, k>> /\ chain = Chain(root) /\ skipped = <<>>
    BY <1>6, <2>1, <2>2
  <2>4. rec = [root |-> root, send |-> chain, recv |-> None, remote |-> None,
               local |-> local, prev |-> 0, skipped |-> skipped, lost |-> {}, inboundBase |-> None]
    BY <1>9, <2>3
  <2>5. QED BY <1>8, <2>4 DEF Record
<1>11. QED BY <1>0, <1>2, <1>8, <1>9, <1>10 DEF FirstRecordOK

\* The record with a sending chain: as it is, or with one more ratchet step.
LEMMA SendingRecord ==
  ASSUME NEW rec \in Record, CanEncrypt(rec), NEW fresh \in KeyPair,
         NEW s, s = WithSendingChain(rec, fresh)
  PROVE  /\ s \in Record /\ s.send \in MessageChain
         /\ s.recv = rec.recv /\ s.remote = rec.remote /\ s.skipped = rec.skipped
         /\ s.lost = rec.lost /\ s.prev = rec.prev /\ s.inboundBase = rec.inboundBase
         /\ \/ rec.send # Uninitialized /\ s = rec
            \/ /\ rec.send = Uninitialized /\ s # rec /\ rec.remote \in KeyPair
               /\ s.root = RootStep(rec.root, fresh, rec.remote)
               /\ s.send = Chain(s.root) /\ s.local = fresh
<1>1. CASE rec.send # Uninitialized
  BY <1>1 DEF WithSendingChain, Record
<1>2. CASE rec.send = Uninitialized
  <2>1. rec.remote \in KeyPair
    BY <1>2 DEF CanEncrypt, Record
  <2>2. PICK root : root = RootStep(rec.root, fresh, rec.remote)
    OBVIOUS
  <2>3. root \in RootKey
    BY <2>1, <2>2, RootStepFacts DEF Record
  <2>4. PICK chain \in MessageChain : chain = Chain(root) /\ chain # Uninitialized
    BY <2>3, ChainFacts
  <2>5. s = [rec EXCEPT !.root = root, !.send = chain, !.local = fresh]
    BY <1>2, <2>2, <2>4 DEF WithSendingChain
  <2>6. s \in Record /\ s.root = root /\ s.send = chain /\ s.local = fresh
        /\ s.recv = rec.recv /\ s.remote = rec.remote /\ s.skipped = rec.skipped
        /\ s.lost = rec.lost /\ s.prev = rec.prev /\ s.inboundBase = rec.inboundBase
    BY <2>3, <2>5 DEF Record
  <2>7. QED BY <1>2, <2>1, <2>2, <2>4, <2>6
<1>3. QED BY <1>1, <1>2

\* The three actions that send.
LEMMA ExistingEffect ==
  ASSUME SignalTypeOK, NEW t \in Senders, EncryptExisting(t)
  PROVE  LET p == t[1] IN
         /\ p \in Parties /\ session[p] # None /\ session[p] \in Record /\ CanEncrypt(session[p])
         /\ <<p, keyCount[p] + 1>> \in KeyPair
         /\ keyCount' = [keyCount EXCEPT ![p] = @ +
              (IF WithSendingChain(session[p], <<p, keyCount[p] + 1>>) = session[p] THEN 0 ELSE 1)]
         /\ \E m \in Message :
              m.pre = None /\ SendEffect(p, WithSendingChain(session[p], <<p, keyCount[p] + 1>>), m)
<1>1. PICK p : p = t[1]
  OBVIOUS
<1>2. p \in Parties
  BY <1>1, SessionAssumption
<1>3. session[p] \in Record /\ CanEncrypt(session[p]) /\ session[p] # None
  BY <1>1, <1>2 DEF EncryptExisting, SignalTypeOK
<1>4. <<p, keyCount[p] + 1>> \in KeyPair
  BY <1>2 DEF SignalTypeOK, KeyPair
<1>5. PICK rec : rec = WithSendingChain(session[p], <<p, keyCount[p] + 1>>)
  OBVIOUS
<1>6. rec \in Record /\ rec.send \in MessageChain
  <2>1. PICK old \in Record, fresh \in KeyPair : old = session[p] /\ fresh = <<p, keyCount[p] + 1>>
    BY <1>3, <1>4
  <2>2. CanEncrypt(old) /\ rec = WithSendingChain(old, fresh)
    BY <1>3, <1>5, <2>1
  <2>3. QED BY <2>2, SendingRecord
<1>7. /\ Send(p, Whisper(rec), None) /\ Cardinality(Sent(p)) < MaxSends
      /\ session' = [session EXCEPT ![p] = AfterSend(rec)]
      /\ keyCount' = [keyCount EXCEPT ![p] = @ + (IF rec = session[p] THEN 0 ELSE 1)]
      /\ UNCHANGED <<preKeys, accepted, twice>>
  BY <1>1, <1>5 DEF EncryptExisting
<1>8. None \in Header \cup {None}
  OBVIOUS
<1>9. PICK m \in Message :
        /\ m.from = p /\ m.pre = None /\ m.ratchet = rec.local /\ m.prev = rec.prev
        /\ m.counter = rec.send.counter /\ m.key = rec.send.key
        /\ net' = net \cup {m}
  BY <1>2, <1>6, <1>7, <1>8, SendFacts
<1>10. SendEffect(p, rec, m)
  BY <1>6, <1>7, <1>9 DEF SendEffect
<1>11. QED BY <1>1, <1>2, <1>3, <1>4, <1>5, <1>7, <1>9, <1>10

LEMMA UnansweredEffect ==
  ASSUME SignalTypeOK, SessionKeys, NEW t \in Senders, EncryptUnanswered(t)
  PROVE  LET p == t[1] IN
         /\ p \in Parties /\ session[p] # None /\ session[p] \in Record
         /\ session[p].recv = None /\ session[p].send # Uninitialized
         /\ keyCount' = keyCount
         /\ \E m \in Message :
              /\ m.pre = [base |-> session[p].root[1].base, oneTime |-> session[p].root[1].oneTime]
              /\ SendEffect(p, session[p], m)
<1>1. PICK p : p = t[1]
  OBVIOUS
<1>2. p \in Parties
  BY <1>1, SessionAssumption
<1>3. session[p] \in Record /\ session[p] # None /\ session[p].recv = None
  BY <1>1, <1>2 DEF EncryptUnanswered, SignalTypeOK
<1>4. OwnKeys(p, session[p])
  BY <1>2, <1>3 DEF SessionKeys
<1>5. session[p].send # Uninitialized /\ session[p].root[1] \in Agreement
  BY <1>3, <1>4 DEF OwnKeys, Derived
<1>6. session[p].send \in MessageChain
  BY <1>3, <1>5 DEF Record
<1>7. PICK pre : pre = [base |-> session[p].root[1].base, oneTime |-> session[p].root[1].oneTime]
  OBVIOUS
<1>8. pre \in Header \cup {None}
  BY <1>5, <1>7 DEF Agreement, Header
<1>9. /\ Send(p, Whisper(session[p]), pre) /\ Cardinality(Sent(p)) < MaxSends
      /\ session' = [session EXCEPT ![p] = AfterSend(session[p])]
      /\ UNCHANGED <<preKeys, keyCount, accepted, twice>>
  BY <1>1, <1>7 DEF EncryptUnanswered
<1>10. PICK rec \in Record : rec = session[p] /\ rec.send \in MessageChain
                             /\ Send(p, Whisper(rec), pre)
  BY <1>3, <1>6, <1>9
<1>11. PICK m \in Message :
        /\ m.from = p /\ m.pre = pre /\ m.ratchet = rec.local /\ m.prev = rec.prev
        /\ m.counter = rec.send.counter /\ m.key = rec.send.key
        /\ net' = net \cup {m}
  BY <1>2, <1>8, <1>10, SendFacts
<1>12. SendEffect(p, session[p], m)
  BY <1>9, <1>10, <1>11 DEF SendEffect
<1>13. QED BY <1>1, <1>2, <1>3, <1>5, <1>7, <1>9, <1>11, <1>12

LEMMA FirstEffect ==
  ASSUME SignalTypeOK, NEW t \in Senders, SendFirst(t)
  PROVE  LET p == t[1] IN
         /\ p \in Parties /\ keyCount' = [keyCount EXCEPT ![p] = @ + 2]
         /\ \E rec \in Record, oneTime \in OneTimeKeys \cup {None}, m \in Message :
              /\ FirstRecordOK(p, keyCount[p] + 1, keyCount[p] + 2, oneTime, rec)
              /\ m.pre = [base |-> <<p, keyCount[p] + 1>>, oneTime |-> oneTime]
              /\ SendEffect(p, rec, m)
<1>1. PICK p : p = t[1]
  OBVIOUS
<1>2. p \in Parties
  BY <1>1, SessionAssumption
<1>3. PICK n \in Nat, k \in Nat : n = keyCount[p] + 1 /\ k = keyCount[p] + 2
  BY <1>2 DEF SignalTypeOK
<1>4. PICK oneTime \in OneTimeKeys \cup {None} : oneTime = bundle[t].oneTime
  BY DEF SendFirst, SignalTypeOK, Bundle
<1>5. PICK rec : rec = OutboundRecord(<<p, n>>, <<p, k>>, Peer(p), oneTime)
  OBVIOUS
<1>6. FirstRecordOK(p, n, k, oneTime, rec)
  BY <1>2, <1>5, FirstRecord
<1>7. rec \in Record /\ rec.send \in MessageChain
  <2>1. rec.root \in RootKey /\ rec \in Record /\ rec.send = Chain(rec.root)
    BY <1>6 DEF FirstRecordOK, Record
  <2>2. QED BY <2>1, ChainFacts
<1>8. PICK pre : pre = [base |-> <<p, n>>, oneTime |-> oneTime]
  OBVIOUS
<1>9. pre \in Header \cup {None}
  BY <1>2, <1>8 DEF Header, KeyPair
<1>10. /\ Send(p, Whisper(rec), pre) /\ Cardinality(Sent(p)) < MaxSends
      /\ session' = [session EXCEPT ![p] = AfterSend(rec)]
      /\ keyCount' = [keyCount EXCEPT ![p] = @ + 2]
      /\ UNCHANGED <<preKeys, accepted, twice>>
  BY <1>1, <1>3, <1>4, <1>5, <1>8 DEF SendFirst
<1>11. PICK m \in Message :
        /\ m.from = p /\ m.pre = pre /\ m.ratchet = rec.local /\ m.prev = rec.prev
        /\ m.counter = rec.send.counter /\ m.key = rec.send.key
        /\ net' = net \cup {m}
  BY <1>2, <1>7, <1>9, <1>10, SendFacts
<1>12. SendEffect(p, rec, m)
  BY <1>7, <1>10, <1>11 DEF SendEffect
<1>13. /\ FirstRecordOK(p, keyCount[p] + 1, keyCount[p] + 2, oneTime, rec)
       /\ m.pre = [base |-> <<p, keyCount[p] + 1>>, oneTime |-> oneTime]
  BY <1>3, <1>6, <1>8, <1>11
<1>14. \E x \in Record, y \in OneTimeKeys \cup {None}, z \in Message :
         /\ FirstRecordOK(p, keyCount[p] + 1, keyCount[p] + 2, y, x)
         /\ z.pre = [base |-> <<p, keyCount[p] + 1>>, oneTime |-> y]
         /\ SendEffect(p, x, z)
  BY <1>7, <1>12, <1>13
<1>15. QED BY <1>1, <1>2, <1>10, <1>14

\* Decrypting with a record, where it succeeds.
Decrypts(rec, w, r) ==
  /\ rec \in Record /\ r \in Record /\ r # None /\ Valid(rec) /\ Valid(r) /\ InOrder(r.skipped)
  /\ Taken(rec, w, r) \/ OnChain(rec, w, r)
  /\ Took(rec, w, r) \/ Continued(rec, w, r) \/ Turned(rec, w, r)

LEMMA DecryptFacts ==
  ASSUME NEW rec \in Record \cup {None}, NEW w \in Message, Decrypt(rec, w) # None
  PROVE  rec # None /\ Decrypts(rec, w, Decrypt(rec, w))
<1>1. PICK r : r = Decrypt(rec, w)
  OBVIOUS
<1>2. rec # None /\ Valid(rec) /\ r = Advance(rec, w) /\ r # None /\ Valid(r)
  BY <1>1 DEF Decrypt
<1>3. rec \in Record
  BY <1>2
<1>4. r \in Record /\ InOrder(r.skipped) /\ (Taken(rec, w, r) \/ OnChain(rec, w, r))
  BY <1>2, <1>3, AdvanceFacts
<1>5. Took(rec, w, r) \/ Continued(rec, w, r) \/ Turned(rec, w, r)
  BY <1>2, <1>3, AdvanceKeeps
<1>6. QED BY <1>1, <1>2, <1>3, <1>4, <1>5 DEF Decrypts

LEMMA DecryptEffect ==
  ASSUME SignalTypeOK, NEW p \in Parties, NEW m \in net, DecryptWithSession(p, m)
  PROVE  /\ session[p] # None
         /\ \E r \in Record : /\ Decrypts(session[p], m, r)
                              /\ session' = [session EXCEPT ![p] = r]
         /\ accepted' = accepted \cup {m} /\ twice' = twice \cup ({m} \cap accepted)
         /\ UNCHANGED <<native, preKeys, server, keyCount, fetches, net>>
<1>1. PICK r : r = Decrypt(session[p], m)
  OBVIOUS
<1>2. /\ r # None /\ session' = [session EXCEPT ![p] = r]
      /\ accepted' = accepted \cup {m} /\ twice' = twice \cup ({m} \cap accepted)
      /\ UNCHANGED <<native, preKeys, server, keyCount, fetches, net>>
  BY <1>1 DEF DecryptWithSession, Accept
<1>3. PICK rec \in Record \cup {None} : rec = session[p]
  BY DEF SignalTypeOK
<1>4. m \in Message
  BY DEF SignalTypeOK
<1>5. rec # None /\ Decrypts(rec, m, r)
  BY <1>1, <1>2, <1>3, <1>4, DecryptFacts
<1>6. r \in Record
  BY <1>5 DEF Decrypts
<1>7. QED BY <1>2, <1>3, <1>5, <1>6

\* The record of the session that a first message sets up at p.
BootstrapOK(p, m, r) ==
  /\ r \in Record /\ r # None /\ Valid(r)
  /\ r.root = m.key /\ r.send = Uninitialized /\ r.local = <<p, 0>>
  /\ r.recv = [key |-> m.key, counter |-> m.counter + 1] /\ r.recv # None
  /\ r.remote = m.ratchet
  /\ m.key[1] = [base |-> m.pre.base, signed |-> <<p, 0>>, oneTime |-> m.pre.oneTime]
  /\ \A k \in ToSet(r.skipped) : k.ratchet = m.ratchet /\ k.key = m.key /\ k.counter < m.counter
  /\ Len(m.key) = 2 /\ r.prev = 0
  /\ \A k \in SkippedKey :
       k.ratchet = m.ratchet /\ k.key = m.key /\ k.counter < m.counter => k \in Held(r)

LEMMA BootstrapFacts ==
  ASSUME NEW p \in Parties, NEW m \in Message, m.pre \in Header,
         Decrypt(InboundRecord(m.pre.base, p, m.pre.oneTime), m) # None
  PROVE  BootstrapOK(p, m, Decrypt(InboundRecord(m.pre.base, p, m.pre.oneTime), m))
<1>1. PICK rec : rec = InboundRecord(m.pre.base, p, m.pre.oneTime)
  OBVIOUS
<1>2. PICK r : r = Decrypt(rec, m)
  OBVIOUS
<1>3. PICK a \in Agreement : a = [base |-> m.pre.base, signed |-> <<p, 0>>,
                                  oneTime |-> m.pre.oneTime]
  BY DEF Agreement, Header, KeyPair
<1>4. PICK x : x = <<a>>
  OBVIOUS
<1>5. x \in RootKey /\ Len(x) = 1 /\ x[1] = a
  BY <1>4 DEF RootKey
<1>6. x = X3dh(m.pre.base, p, m.pre.oneTime)
  BY <1>3, <1>4 DEF X3dh, SignedPreKey
<1>7. PICK local \in KeyPair, skipped \in Seq(SkippedKey), base \in KeyPair :
        local = <<p, 0>> /\ skipped = <<>> /\ base = m.pre.base
  <2>1. PICK local \in KeyPair : local = <<p, 0>>
    BY DEF KeyPair
  <2>2. PICK skipped \in Seq(SkippedKey) : skipped = <<>>
    <3>1. <<>> \in Seq(SkippedKey)
      OBVIOUS
    <3>2. QED BY <3>1, Zenon
  <2>3. PICK base \in KeyPair : base = m.pre.base
    BY DEF Header
  <2>4. QED BY <2>1, <2>2, <2>3
<1>8. rec = [root |-> x, send |-> Uninitialized, recv |-> None, remote |-> None, local |-> local,
             prev |-> 0, skipped |-> skipped, lost |-> {}, inboundBase |-> base]
  BY <1>1, <1>6, <1>7 DEF InboundRecord, SignedPreKey
<1>9. rec \in Record
  BY <1>5, <1>8 DEF Record
<1>10. r # None
  BY <1>1, <1>2
<1>11. Decrypts(rec, m, r)
  BY <1>2, <1>9, <1>10, DecryptFacts
<1>12. ToSet(rec.skipped) = {} /\ rec.recv = None
  BY <1>7, <1>8 DEF ToSet
<1>13. ~Taken(rec, m, r)
  BY <1>7, <1>8 DEF Taken
<1>14. OnChain(rec, m, r) /\ Moved(rec, m, r)
  BY <1>11, <1>12, <1>13 DEF Decrypts, OnChain, Stayed
<1>15. m.key[1] = a /\ Len(m.key) = 2
  <2>1. m.key = RootStep(x, local, m.ratchet)
    BY <1>8, <1>14 DEF Moved
  <2>2. m.ratchet \in KeyPair
    BY DEF Message
  <2>3. PICK theirs \in KeyPair : theirs = m.ratchet
    BY <2>2
  <2>4. RootStep(x, local, theirs)[1] = x[1] /\ Len(RootStep(x, local, theirs)) = Len(x) + 1
    BY <1>5, RootStepFacts
  <2>5. QED BY <1>5, <2>1, <2>3, <2>4
<1>16. r.recv # None
  <2>1. r.recv \in MessageChain
    BY <1>14 DEF OnChain, Message, MessageChain
  <2>2. QED BY <2>1, SessionAssumption
<1>17. /\ r.root = m.key /\ r.send = Uninitialized /\ r.local = <<p, 0>>
       /\ r.recv = [key |-> m.key, counter |-> m.counter + 1] /\ r.remote = m.ratchet
  BY <1>7, <1>8, <1>14 DEF OnChain, Moved
<1>18. \A k \in ToSet(r.skipped) :
         k.ratchet = m.ratchet /\ k.key = m.key /\ k.counter < m.counter
  BY <1>12, <1>14 DEF Moved
<1>19. /\ r.prev = 0
       /\ \A k \in SkippedKey :
            k.ratchet = m.ratchet /\ k.key = m.key /\ k.counter < m.counter => k \in Held(r)
  <2>1. Turned(rec, m, r)
    BY <1>11, <1>12, <1>13 DEF Decrypts, Took, Continued, Stayed
  <2>2. rec.send.counter = 0
    BY <1>8 DEF Uninitialized
  <2>3. QED BY <2>1, <2>2 DEF Turned
<1>20. BootstrapOK(p, m, r)
  BY <1>3, <1>11, <1>15, <1>16, <1>17, <1>18, <1>19 DEF BootstrapOK, Decrypts
<1>21. QED BY <1>1, <1>2, <1>20

LEMMA BootstrapEffect ==
  ASSUME SignalTypeOK, NEW t \in Receivers, Bootstrap(t)
  PROVE  LET p == t[1]  m == incoming[t] IN
         /\ p \in Parties /\ m \in net /\ m.from = Peer(p) /\ m.pre \in Header /\ m.pre # None
         /\ \/ UNCHANGED <<partyVars, netVars>>
            \/ /\ m.pre.oneTime \in preKeys[p] \cup {None}
               /\ \E r \in Record : BootstrapOK(p, m, r) /\ session' = [session EXCEPT ![p] = r]
               /\ preKeys' = [preKeys EXCEPT ![p] = @ \ {m.pre.oneTime}]
               /\ accepted' = accepted \cup {m} /\ twice' = twice \cup ({m} \cap accepted)
               /\ UNCHANGED <<native, server, keyCount, fetches, net>>
<1>1. PICK p, m : p = t[1] /\ m = incoming[t]
  OBVIOUS
<1>2. p \in Parties /\ m \in net /\ m.from = Peer(p) /\ m.pre # None
  BY <1>1, SessionAssumption DEF Bootstrap, SignalTypeOK
<1>3. m \in Message
  BY <1>2 DEF SignalTypeOK
<1>4. m.pre \in Header
  BY <1>2, <1>3 DEF Message
<1>5. PICK r : r = Decrypt(InboundRecord(m.pre.base, p, m.pre.oneTime), m)
  OBVIOUS
<1>6. \/ UNCHANGED <<partyVars, netVars>>
      \/ /\ r # None /\ m.pre.oneTime \in preKeys[p] \cup {None}
         /\ session' = [session EXCEPT ![p] = r]
         /\ preKeys' = [preKeys EXCEPT ![p] = @ \ {m.pre.oneTime}]
         /\ accepted' = accepted \cup {m} /\ twice' = twice \cup ({m} \cap accepted)
         /\ UNCHANGED <<native, server, keyCount, fetches, net>>
  BY <1>1, <1>5 DEF Bootstrap, Accept
<1>7. r # None => BootstrapOK(p, m, r)
  BY <1>2, <1>3, <1>4, <1>5, BootstrapFacts
<1>8. BootstrapOK(p, m, r) => r \in Record
  BY DEF BootstrapOK
<1>9. QED BY <1>1, <1>2, <1>4, <1>6, <1>7, <1>8

-----------------------------------------------------------------------------
(* Types.                                                                  *)

\* The part of the types that sending and receiving share.
StateTypeOK ==
  /\ session \in [Parties -> Record \cup {None}]
  /\ preKeys \in [Parties -> SUBSET OneTimeKeys]
  /\ keyCount \in [Parties -> Nat]
  /\ net \subseteq Message /\ IsFiniteSet(net)
  /\ accepted \subseteq net /\ twice \subseteq accepted

LEMMA SendTypes ==
  ASSUME SignalTypeOK, NEW p \in Parties, NEW rec, NEW m, SendEffect(p, rec, m),
         NEW n \in Nat, keyCount' = [keyCount EXCEPT ![p] = @ + n]
  PROVE  StateTypeOK' /\ net \subseteq net'
<1>1. rec \in Record /\ rec.send \in MessageChain /\ m \in Message
      /\ net' = net \cup {m} /\ session' = [session EXCEPT ![p] = AfterSend(rec)]
      /\ UNCHANGED <<preKeys, accepted, twice>>
  BY DEF SendEffect
<1>2. AfterSend(rec) \in Record
  BY <1>1, AfterSendFacts
<1>3. IsFiniteSet(net')
  BY <1>1, FS_AddElement DEF SignalTypeOK
<1>4. session' \in [Parties -> Record \cup {None}]
  BY <1>1, <1>2 DEF SignalTypeOK
<1>5. keyCount' \in [Parties -> Nat]
  BY DEF SignalTypeOK
<1>6. QED BY <1>1, <1>3, <1>4, <1>5 DEF SignalTypeOK, StateTypeOK

\* The messages that the processors work on stay sent.
LEMMA ReceiversStay ==
  ASSUME SignalTypeOK, UNCHANGED receiveVars, net \subseteq net', net' \subseteq Message
  PROVE  /\ rpc' \in [Receivers -> {"idle", "replay", "decrypt", "bootstrap"}]
         /\ incoming' \in [Receivers -> Message \cup {None}]
         /\ \A t \in Receivers : rpc'[t] # "idle" =>
              incoming'[t] \in net' /\ incoming'[t].from = Peer(t[1]) /\ incoming'[t].pre # None
BY DEF SignalTypeOK, receiveVars

\* A sending task that is done holds no bundle.
LEMMA SenderDoneTypes ==
  ASSUME SignalTypeOK, NEW t \in Senders, SenderDone(t)
  PROVE  /\ spc' \in [Senders -> {"idle", "fetch", "read", "encrypt", "first"}]
         /\ bundle' \in [Senders -> Bundle \cup {None}]
         /\ \A s \in Senders : spc'[s] = "first" => bundle'[s] # None
<1>1. /\ spc' = [spc EXCEPT ![t] = "idle"] /\ bundle' = [bundle EXCEPT ![t] = None]
  BY DEF SenderDone
<1>2. \A s \in Senders : spc'[s] = "first" => bundle'[s] # None
  <2>1. ASSUME NEW s \in Senders, spc'[s] = "first" PROVE bundle'[s] # None
    <3>1. s # t
      BY <1>1, <2>1 DEF SignalTypeOK
    <3>2. spc[s] = "first" /\ bundle'[s] = bundle[s]
      BY <1>1, <2>1, <3>1 DEF SignalTypeOK
    <3>3. QED BY <3>2 DEF SignalTypeOK
  <2>2. QED BY <2>1
<1>3. QED BY <1>1, <1>2 DEF SignalTypeOK

LEMMA SendStepTypes ==
  ASSUME SignalTypeOK, NEW t \in Senders, SenderDone(t), StateTypeOK', net \subseteq net',
         UNCHANGED <<native, server, fetches, receiveVars>>
  PROVE  SignalTypeOK'
BY SenderDoneTypes, ReceiversStay DEF SignalTypeOK, StateTypeOK

LEMMA SenderTypes ==
  ASSUME SignalTypeOK, SessionKeys, NEW t \in Senders, SenderStep(t)
  PROVE  SignalTypeOK'
<1>0. PICK p \in Parties : p = t[1]
  BY SessionAssumption
<1>1. CASE StartSend(t) \/ StartForcedSend(t)
  BY <1>1 DEF StartSend, StartForcedSend, SenderGoes, SignalTypeOK, partyVars, netVars, receiveVars
<1>2. CASE DeleteSessions(t)
  <2>1. None \in Record \cup {None} /\ None \in Bundle \cup {None}
    OBVIOUS
  <2>2. QED BY <1>0, <1>2, <2>1
        DEF DeleteSessions, SenderGoes, SignalTypeOK, netVars, receiveVars
<1>3. CASE FetchAndInject(t)
  <2>1. Peer(p) \in Parties
    BY PeerFacts
  <2>2. PICK k \in OneTimeKeys \cup {None} :
          /\ native' = [native EXCEPT ![p] = [oneTime |-> k]]
          /\ server' = [server EXCEPT ![Peer(p)] = @ \ {k}]
    BY <1>0, <1>3, <2>1 DEF FetchAndInject, SignalTypeOK
  <2>3. native' \in [Parties -> Bundle \cup {None}] /\ server' \in [Parties -> SUBSET OneTimeKeys]
    BY <2>1, <2>2 DEF SignalTypeOK, Bundle
  <2>4. session' \in [Parties -> Record \cup {None}] /\ fetches' \in [Parties -> Nat]
    BY <1>0, <1>3 DEF FetchAndInject, SignalTypeOK
  <2>5. /\ spc' \in [Senders -> {"idle", "fetch", "read", "encrypt", "first"}]
        /\ \A s \in Senders : spc'[s] = "first" => bundle'[s] # None
        /\ UNCHANGED <<preKeys, keyCount, netVars, bundle, receiveVars>>
    BY <1>3 DEF FetchAndInject, SenderGoes, SignalTypeOK
  <2>6. QED BY <2>3, <2>4, <2>5 DEF SignalTypeOK, netVars, receiveVars
<1>4. CASE FetchFails(t)
  <2>1. StateTypeOK' /\ net \subseteq net'
    BY <1>4 DEF FetchFails, SignalTypeOK, StateTypeOK, partyVars, netVars
  <2>2. QED BY <1>4, <2>1, SendStepTypes DEF FetchFails, partyVars
<1>5. CASE ReadBundle(t)
  BY <1>0, <1>5 DEF ReadBundle, SenderGoes, SignalTypeOK, partyVars, netVars, receiveVars
<1>6. CASE EncryptExisting(t)
  <2>1. PICK m \in Message : SendEffect(p, WithSendingChain(session[p], <<p, keyCount[p] + 1>>), m)
    BY <1>0, <1>6, ExistingEffect
  <2>2. PICK n \in Nat : keyCount' = [keyCount EXCEPT ![p] = @ + n]
    <3>1. PICK n : /\ n = (IF WithSendingChain(session[p], <<p, keyCount[p] + 1>>) = session[p]
                           THEN 0 ELSE 1)
                   /\ keyCount' = [keyCount EXCEPT ![p] = @ + n]
      BY <1>0, <1>6, ExistingEffect
    <3>2. QED BY <3>1
  <2>3. StateTypeOK' /\ net \subseteq net'
    BY <2>1, <2>2, SendTypes
  <2>4. QED BY <1>6, <2>3, SendStepTypes DEF EncryptExisting
<1>7. CASE EncryptUnanswered(t)
  <2>1. PICK m \in Message : SendEffect(p, session[p], m)
    BY <1>0, <1>7, UnansweredEffect
  <2>2. keyCount' = [keyCount EXCEPT ![p] = @ + 0]
    BY <1>7 DEF EncryptUnanswered, SignalTypeOK
  <2>3. StateTypeOK' /\ net \subseteq net'
    BY <2>1, <2>2, SendTypes
  <2>4. QED BY <1>7, <2>3, SendStepTypes DEF EncryptUnanswered
<1>8. CASE EncryptMissing(t)
  <2>1. CASE bundle[t] = None /\ SenderDone(t)
    <3>1. StateTypeOK' /\ net \subseteq net'
      BY <1>8 DEF EncryptMissing, SignalTypeOK, StateTypeOK, partyVars, netVars
    <3>2. QED BY <1>8, <2>1, <3>1, SendStepTypes DEF EncryptMissing, partyVars
  <2>2. CASE bundle[t] # None /\ SenderGoes(t, "first") /\ UNCHANGED bundle
    BY <1>8, <2>2
    DEF EncryptMissing, SenderGoes, SignalTypeOK, partyVars, netVars, receiveVars
  <2>3. QED BY <1>8, <2>1, <2>2 DEF EncryptMissing
<1>9. CASE SendFirst(t)
  <2>1. PICK rec \in Record, oneTime \in OneTimeKeys \cup {None}, m \in Message :
          SendEffect(p, rec, m)
    BY <1>0, <1>9, FirstEffect
  <2>2. keyCount' = [keyCount EXCEPT ![p] = @ + 2]
    BY <1>0, <1>9, FirstEffect
  <2>3. StateTypeOK' /\ net \subseteq net'
    BY <2>1, <2>2, SendTypes
  <2>4. QED BY <1>9, <2>3, SendStepTypes DEF SendFirst
<1>10. QED
  BY <1>1, <1>2, <1>3, <1>4, <1>5, <1>6, <1>7, <1>8, <1>9 DEF SenderStep

LEMMA AcceptTypes ==
  ASSUME SignalTypeOK, NEW m \in net, NEW p \in Parties, NEW r \in Record,
         session' = [session EXCEPT ![p] = r],
         accepted' = accepted \cup {m}, twice' = twice \cup ({m} \cap accepted),
         UNCHANGED <<keyCount, net>>, preKeys' \in [Parties -> SUBSET OneTimeKeys]
  PROVE  StateTypeOK'
BY DEF SignalTypeOK, StateTypeOK

LEMMA ReceiverTypes ==
  ASSUME SignalTypeOK, NEW t \in Receivers, ReceiverStep(t)
  PROVE  SignalTypeOK'
<1>0. PICK p \in Parties : p = t[1]
  BY SessionAssumption
<1>1. ASSUME NEW m \in net, ReceiveMessage(t, m) PROVE SignalTypeOK'
  <2>1. DecryptWithSession(p, m) /\ UNCHANGED <<sendVars, receiveVars>>
    BY <1>0, <1>1 DEF ReceiveMessage
  <2>2. StateTypeOK' /\ UNCHANGED <<native, preKeys, server, keyCount, fetches, net>>
    <3>1. PICK r \in Record : session' = [session EXCEPT ![p] = r]
      BY <2>1, DecryptEffect
    <3>2. /\ accepted' = accepted \cup {m} /\ twice' = twice \cup ({m} \cap accepted)
          /\ UNCHANGED <<native, preKeys, server, keyCount, fetches, net>>
      BY <2>1, DecryptEffect
    <3>3. preKeys' \in [Parties -> SUBSET OneTimeKeys]
      BY <3>2 DEF SignalTypeOK
    <3>4. QED BY <3>1, <3>2, <3>3, AcceptTypes
  <2>3. QED BY <2>1, <2>2 DEF SignalTypeOK, StateTypeOK, sendVars, receiveVars
<1>2. ASSUME NEW m \in net, ReceivePreKey(t, m) PROVE SignalTypeOK'
  <2>1. m \in Message /\ m.from = Peer(t[1]) /\ m.pre # None
    BY <1>2 DEF ReceivePreKey, SignalTypeOK
  <2>2. QED BY <1>2, <2>1 DEF ReceivePreKey, SignalTypeOK, partyVars, netVars, sendVars
<1>3. CASE RecogniseReplay(t)
  <2>1. PICK label \in {"idle", "decrypt", "bootstrap"} :
          /\ rpc' = [rpc EXCEPT ![t] = label]
          /\ \/ label # "idle" /\ incoming' = incoming
             \/ label = "idle" /\ incoming' = [incoming EXCEPT ![t] = None]
    BY <1>3 DEF RecogniseReplay, ReceiverGoes, ReceiverDone
  <2>2. rpc[t] # "idle"
    BY <1>3 DEF RecogniseReplay
  <2>3. QED
    BY <1>3, <2>1, <2>2 DEF RecogniseReplay, SignalTypeOK, partyVars, netVars, sendVars
<1>4. CASE DecryptReplay(t)
  <2>1. incoming[t] \in net
    BY <1>4 DEF DecryptReplay, SignalTypeOK
  <2>2. StateTypeOK' /\ UNCHANGED <<native, server, fetches, net>>
    <3>1. CASE UNCHANGED <<partyVars, netVars>>
      BY <3>1 DEF SignalTypeOK, StateTypeOK, partyVars, netVars
    <3>2. CASE DecryptWithSession(p, incoming[t])
      <4>1. PICK m \in net : m = incoming[t]
        BY <2>1
      <4>2. DecryptWithSession(p, m)
        BY <3>2, <4>1
      <4>3. PICK r \in Record : session' = [session EXCEPT ![p] = r]
        BY <4>2, DecryptEffect
      <4>4. /\ accepted' = accepted \cup {m} /\ twice' = twice \cup ({m} \cap accepted)
            /\ UNCHANGED <<native, preKeys, server, keyCount, fetches, net>>
        BY <4>2, DecryptEffect
      <4>5. preKeys' \in [Parties -> SUBSET OneTimeKeys]
        BY <4>4 DEF SignalTypeOK
      <4>6. QED BY <4>3, <4>4, <4>5, AcceptTypes
    <3>3. QED BY <1>0, <1>4, <3>1, <3>2 DEF DecryptReplay
  <2>3. QED
    BY <1>4, <2>2 DEF DecryptReplay, ReceiverDone, SignalTypeOK, StateTypeOK, sendVars
<1>5. CASE Bootstrap(t)
  <2>1. incoming[t] \in net
    BY <1>5, BootstrapEffect
  <2>2. StateTypeOK' /\ UNCHANGED <<native, server, fetches, net>>
    <3>1. CASE UNCHANGED <<partyVars, netVars>>
      BY <3>1 DEF SignalTypeOK, StateTypeOK, partyVars, netVars
    <3>2. CASE ~UNCHANGED <<partyVars, netVars>>
      <4>1. PICK m \in net : m = incoming[t]
        BY <2>1
      <4>2. PICK r \in Record : session' = [session EXCEPT ![p] = r]
        BY <1>0, <1>5, <3>2, BootstrapEffect
      <4>3. /\ accepted' = accepted \cup {m} /\ twice' = twice \cup ({m} \cap accepted)
            /\ preKeys' = [preKeys EXCEPT ![p] = @ \ {m.pre.oneTime}]
            /\ UNCHANGED <<native, server, keyCount, fetches, net>>
        BY <1>0, <1>5, <3>2, <4>1, BootstrapEffect
      <4>4. preKeys' \in [Parties -> SUBSET OneTimeKeys]
        BY <4>3 DEF SignalTypeOK
      <4>5. QED BY <4>2, <4>3, <4>4, AcceptTypes
    <3>3. QED BY <3>1, <3>2
  <2>3. QED
    BY <1>5, <2>2 DEF Bootstrap, ReceiverDone, SignalTypeOK, StateTypeOK, sendVars
<1>6. QED BY <1>1, <1>2, <1>3, <1>4, <1>5 DEF ReceiverStep

-----------------------------------------------------------------------------
(* Keys are used once.                                                     *)

\* Key pairs stay generated.
LEMMA DerivedStays ==
  ASSUME keyCount \in [Parties -> Nat], keyCount' \in [Parties -> Nat],
         \A p \in Parties : keyCount[p] <= keyCount'[p]
  PROVE  /\ \A k \in KeyPair : Known(k) => Known(k)'
         /\ \A key \in RootKey : Derived(key) => Derived(key)'
<1>1. ASSUME NEW k \in KeyPair, Known(k) PROVE Known(k)'
  <2>1. k[1] \in Parties /\ k[2] \in Nat
    BY DEF KeyPair
  <2>2. PICK a \in Nat, b \in Nat : a = keyCount[k[1]] /\ b = keyCount'[k[1]]
    BY <2>1
  <2>3. k[2] <= a /\ a <= b
    BY <1>1, <2>1, <2>2 DEF Known
  <2>4. k[2] <= b
    BY <2>1, <2>3
  <2>5. QED BY <2>2, <2>4 DEF Known
<1>2. ASSUME NEW key \in RootKey, Derived(key) PROVE Derived(key)'
  <2>1. /\ Len(key) >= 2 /\ key[1] \in Agreement /\ Known(key[1].base)
        /\ key[Len(key)] \subseteq KeyPair /\ \A k \in key[Len(key)] : Known(k)
    BY <1>2 DEF Derived
  <2>2. key[1].base \in KeyPair
    BY <2>1 DEF Agreement
  <2>3. Known(key[1].base)'
    BY <1>1, <2>1, <2>2
  <2>4. \A k \in key[Len(key)] : Known(k)'
    BY <1>1, <2>1
  <2>5. QED BY <2>1, <2>3, <2>4 DEF Derived
<1>3. QED BY <1>1, <1>2

LEMMA OwnKeysStay ==
  ASSUME keyCount \in [Parties -> Nat], keyCount' \in [Parties -> Nat],
         \A p \in Parties : keyCount[p] <= keyCount'[p],
         NEW p, NEW rec \in Record, OwnKeys(p, rec)
  PROVE  OwnKeys(p, rec)'
<1>1. rec.root \in RootKey /\ rec.local \in KeyPair
  BY DEF Record
<1>2. rec.recv # None => rec.remote \in KeyPair
  BY DEF OwnKeys, Valid, Record
<1>3. Derived(rec.root)' /\ Known(rec.local)' /\ (rec.recv # None => Known(rec.remote)')
  BY <1>1, <1>2, DerivedStays DEF OwnKeys
<1>4. QED BY <1>3 DEF OwnKeys

\* Sessions that end, or go on receiving, and nothing sent.
LEMMA KeysReceive ==
  ASSUME SignalTypeOK, KeyInv, session' \in [Parties -> Record \cup {None}],
         UNCHANGED <<keyCount, net>>,
         \A p \in Parties : session'[p] # None =>
           /\ OwnKeys(p, session'[p])
           /\ session'[p].send = Uninitialized
              \/ (session[p] # None /\ session'[p].send = session[p].send)
  PROVE  KeyInv'
<1>1. \A x : Known(x)' = Known(x)
  BY DEF Known
<1>2. \A x : Derived(x)' = Derived(x)
  BY <1>1 DEF Derived
<1>3. \A p, x : OwnKeys(p, x)' = OwnKeys(p, x)
  BY <1>1, <1>2 DEF OwnKeys
<1>4. SessionKeys'
  BY <1>3 DEF SessionKeys
<1>5. MessageKeys'
  BY <1>1, <1>2 DEF MessageKeys, KeyInv
<1>6. \A p \in Parties : Sends(p)' => Sends(p) /\ session'[p].send = session[p].send
  BY DEF Sends
<1>7. ChainsAhead'
  BY <1>6 DEF ChainsAhead, KeyInv
<1>8. KeyNeverReused'
  BY DEF KeyNeverReused, KeyInv
<1>9. QED BY <1>4, <1>5, <1>7, <1>8 DEF KeyInv

\* A chain that was derived with a key pair just generated is nobody else's.
FreshKey(key) == \E k \in key[Len(key)] : k \in KeyPair /\ ~Known(k)

LEMMA FreshIsNew ==
  ASSUME NEW x, NEW y, Derived(x), FreshKey(y)
  PROVE  x # y
BY DEF Derived, FreshKey

LEMMA KeysSend ==
  ASSUME SignalTypeOK, KeyInv, SignalTypeOK', NEW p \in Parties, NEW rec, NEW m,
         SendEffect(p, rec, m), \A q \in Parties : keyCount[q] <= keyCount'[q],
         OwnKeys(p, rec)', rec.send.key = rec.root,
         m.pre # None => /\ m.pre = [base |-> m.key[1].base, oneTime |-> m.key[1].oneTime]
                         /\ m.key[1].base[1] = m.from,
         \/ session[p] # None /\ rec = session[p] /\ rec.send # Uninitialized
         \/ FreshKey(rec.root)
  PROVE  KeyInv'
<1>1. /\ rec \in Record /\ rec.send \in MessageChain
      /\ m \in Message /\ m.from = p /\ m.ratchet = rec.local
      /\ m.counter = rec.send.counter /\ m.key = rec.send.key
      /\ net' = net \cup {m} /\ session' = [session EXCEPT ![p] = AfterSend(rec)]
  BY DEF SendEffect
<1>2. PICK r : r = AfterSend(rec)
  OBVIOUS
<1>3. /\ r \in Record /\ r.root = rec.root /\ r.recv = rec.recv /\ r.remote = rec.remote
      /\ r.local = rec.local /\ r.skipped = rec.skipped
      /\ r.send.key = rec.send.key /\ r.send.counter = rec.send.counter + 1
      /\ r.send # Uninitialized
  BY <1>1, <1>2, AfterSendFacts
<1>4. /\ session'[p] = r /\ \A q \in Parties \ {p} : session'[q] = session[q]
      /\ keyCount \in [Parties -> Nat] /\ keyCount' \in [Parties -> Nat]
      /\ \A q \in Parties : session[q] # None => session[q] \in Record
      /\ \A n \in net : n \in Message
  BY <1>1, <1>2 DEF SignalTypeOK
<1>5. OwnKeys(p, r)'
  <2>1. Valid(r)
    BY <1>3 DEF OwnKeys, Valid
  <2>2. QED BY <1>3, <2>1 DEF OwnKeys
<1>6. SessionKeys'
  <2>1. ASSUME NEW q \in Parties, session'[q] # None PROVE OwnKeys(q, session[q])'
    <3>1. CASE q = p
      BY <1>4, <1>5, <3>1
    <3>2. CASE q # p
      <4>1. PICK x \in Record : x = session[q] /\ session'[q] = x
        BY <1>4, <2>1, <3>2
      <4>2. OwnKeys(q, x)
        BY <1>4, <2>1, <3>2, <4>1 DEF KeyInv, SessionKeys
      <4>3. OwnKeys(q, x)'
        BY <1>4, <4>2, OwnKeysStay
      <4>4. QED BY <4>1, <4>3
    <3>3. QED BY <3>1, <3>2
  <2>2. QED BY <2>1 DEF SessionKeys
<1>7. MessageKeys'
  <2>1. ASSUME NEW n \in net
        PROVE  /\ Derived(n.key)' /\ Known(n.ratchet)' /\ n.ratchet[1] = n.from
               /\ n.pre # None =>
                    /\ n.pre = [base |-> n.key[1].base, oneTime |-> n.key[1].oneTime]
                    /\ n.key[1].base[1] = n.from
    <3>1. n.key \in RootKey /\ n.ratchet \in KeyPair
      BY <1>4 DEF Message
    <3>2. Derived(n.key) /\ Known(n.ratchet)
      BY DEF KeyInv, MessageKeys
    <3>3. Derived(n.key)' /\ Known(n.ratchet)'
      BY <1>4, <3>1, <3>2, DerivedStays
    <3>4. QED BY <3>3 DEF KeyInv, MessageKeys
  <2>2. Derived(m.key)' /\ Known(m.ratchet)' /\ m.ratchet[1] = m.from
    BY <1>1 DEF OwnKeys
  <2>3. QED BY <1>1, <2>1, <2>2 DEF MessageKeys
<1>8. CASE session[p] # None /\ rec = session[p] /\ rec.send # Uninitialized
  <2>1. Sends(p)
    BY <1>8 DEF Sends
  <2>2. \A n \in net : n.key = m.key => n.from = p /\ n.counter < m.counter
    BY <1>1, <1>8, <2>1 DEF KeyInv, ChainsAhead
  <2>3. \A q \in Parties \ {p} : Sends(q) => session[q].send.key # m.key
    BY <1>1, <1>8, <2>1 DEF KeyInv, ChainsAhead
  <2>4. ChainsAhead' /\ KeyNeverReused'
    <3>1. \A n \in net' : n.key = m.key => n.from = p /\ n.counter < m.counter + 1
      <4>1. \A n \in net : n.counter \in Nat
        BY <1>4 DEF Message
      <4>2. m.counter \in Nat
        BY <1>1 DEF Message
      <4>3. QED BY <1>1, <2>2, <4>1, <4>2
    <3>2. \A q \in Parties \ {p} : Sends(q)' => Sends(q) /\ session'[q] = session[q]
      BY <1>4 DEF Sends
    <3>3. ASSUME NEW q \in Parties, Sends(q)'
          PROVE  /\ \A n \in net' : n.key = session'[q].send.key =>
                      n.from = q /\ n.counter < session'[q].send.counter
                 /\ \A o \in Parties \ {q} : Sends(o)' =>
                      session'[o].send.key # session'[q].send.key
      <4>1. CASE q = p
        BY <1>1, <1>3, <1>4, <2>3, <3>1, <3>2, <4>1
      <4>2. CASE q # p
        <5>1. Sends(q) /\ session'[q] = session[q]
          BY <3>2, <3>3, <4>2
        <5>2. \A n \in net : n.key = session[q].send.key =>
                n.from = q /\ n.counter < session[q].send.counter
          BY <5>1 DEF KeyInv, ChainsAhead
        <5>3. m.key # session[q].send.key
          BY <2>3, <4>2, <5>1
        <5>4. \A o \in Parties \ {q, p} : Sends(o)' => session'[o].send.key # session'[q].send.key
          BY <3>2, <5>1 DEF KeyInv, ChainsAhead
        <5>5. session'[p].send.key # session'[q].send.key
          BY <1>1, <1>3, <1>4, <5>1, <5>3
        <5>6. QED BY <1>1, <5>1, <5>2, <5>3, <5>4, <5>5
      <4>3. QED BY <4>1, <4>2
    <3>4. ChainsAhead'
      BY <3>3 DEF ChainsAhead
    <3>5. \A n \in net : n.key = m.key => n.counter # m.counter
      <4>1. m.counter \in Nat /\ \A n \in net : n.counter \in Nat
        BY <1>1, <1>4 DEF Message
      <4>2. QED BY <2>2, <4>1
    <3>6. KeyNeverReused'
      BY <1>1, <3>5 DEF KeyInv, KeyNeverReused
    <3>7. QED BY <3>4, <3>6
  <2>5. QED BY <1>6, <1>7, <2>4 DEF KeyInv
<1>9. CASE FreshKey(rec.root)
  <2>1. \A n \in net : n.key # m.key
    BY <1>1, <1>9, FreshIsNew DEF KeyInv, MessageKeys
  <2>2. \A q \in Parties \ {p} : Sends(q) => session[q].send.key # m.key
    <3>1. ASSUME NEW q \in Parties, Sends(q) PROVE session[q].send.key # m.key
      <4>1. OwnKeys(q, session[q])
        BY <3>1 DEF Sends, KeyInv, SessionKeys
      <4>2. Derived(session[q].root) /\ session[q].send.key = session[q].root
        BY <3>1, <4>1 DEF OwnKeys, Sends
      <4>3. QED BY <1>1, <1>9, <4>2, FreshIsNew
    <3>2. QED BY <3>1
  <2>3. \A q \in Parties \ {p} : Sends(q)' => Sends(q) /\ session'[q] = session[q]
    BY <1>4 DEF Sends
  <2>4. m.counter \in Nat
    BY <1>1 DEF Message
  <2>5. ASSUME NEW q \in Parties, Sends(q)'
        PROVE  /\ \A n \in net' : n.key = session'[q].send.key =>
                    n.from = q /\ n.counter < session'[q].send.counter
               /\ \A o \in Parties \ {q} : Sends(o)' =>
                    session'[o].send.key # session'[q].send.key
    <3>1. CASE q = p
      BY <1>1, <1>3, <1>4, <2>1, <2>2, <2>3, <2>4, <3>1
    <3>2. CASE q # p
      <4>1. Sends(q) /\ session'[q] = session[q]
        BY <2>3, <2>5, <3>2
      <4>2. \A n \in net : n.key = session[q].send.key =>
              n.from = q /\ n.counter < session[q].send.counter
        BY <4>1 DEF KeyInv, ChainsAhead
      <4>3. m.key # session[q].send.key
        BY <2>2, <3>2, <4>1
      <4>4. \A o \in Parties \ {q, p} : Sends(o)' => session'[o].send.key # session'[q].send.key
        BY <2>3, <4>1 DEF KeyInv, ChainsAhead
      <4>5. session'[p].send.key # session'[q].send.key
        BY <1>1, <1>3, <1>4, <4>1, <4>3
      <4>6. QED BY <1>1, <4>1, <4>2, <4>3, <4>4, <4>5
    <3>3. QED BY <3>1, <3>2
  <2>6. ChainsAhead'
    BY <2>5 DEF ChainsAhead
  <2>7. KeyNeverReused'
    BY <1>1, <2>1 DEF KeyInv, KeyNeverReused
  <2>8. QED BY <1>6, <1>7, <2>6, <2>7 DEF KeyInv
<1>10. QED BY <1>8, <1>9

\* What a message decrypts to stays within the keys of the session.
LEMMA DecryptKeys ==
  ASSUME SignalTypeOK, KeyInv, NEW p \in Parties, NEW m \in net, NEW rec, OwnKeys(p, rec),
         NEW r, Decrypts(rec, m, r)
  PROVE  /\ OwnKeys(p, r) /\ r.root[1] = rec.root[1] /\ Len(rec.root) <= Len(r.root)
         /\ r.send = Uninitialized \/ r.send = rec.send
<1>1. rec \in Record /\ r \in Record /\ Valid(r) /\ (Taken(rec, m, r) \/ OnChain(rec, m, r))
  BY DEF Decrypts
<1>2. rec.root \in RootKey /\ Len(rec.root) \in Nat
  <2>1. rec.root \in RootKey
    BY <1>1 DEF Record
  <2>2. QED BY <2>1 DEF RootKey
<1>3. CASE Taken(rec, m, r)
  <2>1. /\ r.root = rec.root /\ r.send = rec.send /\ r.recv = rec.recv /\ r.remote = rec.remote
        /\ r.local = rec.local
    BY <1>1, <1>3 DEF Taken, Record
  <2>2. QED BY <1>1, <1>2, <2>1 DEF OwnKeys
<1>4. CASE OnChain(rec, m, r)
  <2>1. m \in Message /\ m.key \in RootKey /\ m.ratchet \in KeyPair /\ m.counter \in Nat
    BY DEF SignalTypeOK, Message
  <2>2. r.recv = [key |-> m.key, counter |-> m.counter + 1] /\ r.remote = m.ratchet
        /\ r.local = rec.local
    BY <1>4 DEF OnChain
  <2>3. r.recv # None /\ r.recv.key = m.key
    <3>1. r.recv \in MessageChain
      BY <2>1, <2>2 DEF MessageChain
    <3>2. QED BY <2>2, <3>1, SessionAssumption
  <2>4. Derived(m.key) /\ Known(m.ratchet)
    BY DEF KeyInv, MessageKeys
  <2>5. CASE Stayed(rec, m, r)
    <3>1. r.root = rec.root /\ r.send = rec.send /\ m.key = rec.recv.key /\ rec.recv # None
      BY <2>5 DEF Stayed
    <3>2. QED BY <1>1, <1>2, <2>2, <2>3, <2>4, <3>1 DEF OwnKeys
  <2>6. CASE Moved(rec, m, r)
    <3>1. r.root = m.key /\ r.send = Uninitialized /\ m.key = RootStep(rec.root, rec.local, m.ratchet)
      BY <2>6 DEF Moved
    <3>2. m.key[1] = rec.root[1] /\ Len(m.key) = Len(rec.root) + 1
      <4>1. PICK root \in RootKey, mine \in KeyPair, theirs \in KeyPair :
              root = rec.root /\ mine = rec.local /\ theirs = m.ratchet
        BY <1>1, <1>2, <2>1 DEF Record
      <4>2. m.key = RootStep(root, mine, theirs)
        BY <3>1, <4>1
      <4>3. QED BY <4>1, <4>2, RootStepFacts
    <3>3. QED BY <1>1, <1>2, <2>2, <2>3, <2>4, <3>1, <3>2 DEF OwnKeys
  <2>7. QED BY <1>4, <2>5, <2>6 DEF OnChain
<1>5. QED BY <1>1, <1>3, <1>4

\* The session that a first message sets up.
LEMMA BootstrapKeys ==
  ASSUME SignalTypeOK, KeyInv, NEW p \in Parties, NEW m \in net, NEW r, BootstrapOK(p, m, r)
  PROVE  OwnKeys(p, r)
<1>1. Derived(m.key) /\ Known(m.ratchet)
  BY DEF KeyInv, MessageKeys
<1>2. /\ Valid(r) /\ r.root = m.key /\ r.send = Uninitialized /\ r.local = <<p, 0>>
      /\ r.recv # None /\ r.recv.key = m.key /\ r.remote = m.ratchet
  BY DEF BootstrapOK
<1>3. Known(<<p, 0>>)
  BY DEF Known, SignalTypeOK
<1>4. Len(m.key) \in Nat
  BY DEF SignalTypeOK, Message, RootKey
<1>5. QED BY <1>1, <1>2, <1>3, <1>4 DEF OwnKeys

\* A session that p goes on with: what decrypting leaves of the keys and chains.
LEMMA ReceiverKeys ==
  ASSUME SignalTypeOK, KeyInv, NEW t \in Receivers, ReceiverStep(t)
  PROVE  KeyInv'
<1>0. PICK p \in Parties : p = t[1]
  BY SessionAssumption
<1>1. SignalTypeOK'
  BY ReceiverTypes
<1>2. session' \in [Parties -> Record \cup {None}]
  BY <1>1 DEF SignalTypeOK
<1>3. ASSUME NEW m \in net, DecryptWithSession(p, m) PROVE KeyInv'
  <2>1. PICK r \in Record : Decrypts(session[p], m, r) /\ session' = [session EXCEPT ![p] = r]
    BY <1>3, DecryptEffect
  <2>2. session[p] # None /\ UNCHANGED <<keyCount, net>>
    BY <1>3, DecryptEffect
  <2>3. PICK rec : rec = session[p]
    OBVIOUS
  <2>4. OwnKeys(p, rec) /\ Decrypts(rec, m, r)
    BY <2>1, <2>2, <2>3 DEF KeyInv, SessionKeys
  <2>5. OwnKeys(p, r) /\ (r.send = Uninitialized \/ r.send = rec.send)
    BY <2>4, DecryptKeys
  <2>6. ASSUME NEW q \in Parties, session'[q] # None
        PROVE  /\ OwnKeys(q, session'[q])
               /\ session'[q].send = Uninitialized
                  \/ (session[q] # None /\ session'[q].send = session[q].send)
    <3>1. CASE q = p
      BY <2>1, <2>2, <2>3, <2>5, <3>1 DEF SignalTypeOK
    <3>2. CASE q # p
      BY <2>1, <2>6, <3>2 DEF SignalTypeOK, KeyInv, SessionKeys
    <3>3. QED BY <3>1, <3>2
  <2>7. QED BY <1>2, <2>2, <2>6, KeysReceive
<1>4. ASSUME UNCHANGED <<session, keyCount, net>> PROVE KeyInv'
  <2>1. ASSUME NEW q \in Parties, session'[q] # None
        PROVE  /\ OwnKeys(q, session'[q])
               /\ session'[q].send = Uninitialized
                  \/ (session[q] # None /\ session'[q].send = session[q].send)
    BY <1>4, <2>1 DEF KeyInv, SessionKeys
  <2>2. QED BY <1>2, <1>4, <2>1, KeysReceive
<1>5. ASSUME NEW m \in net, ReceiveMessage(t, m) PROVE KeyInv'
  BY <1>0, <1>3, <1>5 DEF ReceiveMessage
<1>6. ASSUME NEW m \in net, ReceivePreKey(t, m) PROVE KeyInv'
  BY <1>4, <1>6 DEF ReceivePreKey, partyVars, netVars
<1>7. CASE RecogniseReplay(t)
  BY <1>4, <1>7 DEF RecogniseReplay, partyVars, netVars
<1>8. CASE DecryptReplay(t)
  <2>1. PICK m \in net : m = incoming[t]
    BY <1>8 DEF DecryptReplay, SignalTypeOK
  <2>2. CASE UNCHANGED <<partyVars, netVars>>
    BY <1>4, <2>2 DEF partyVars, netVars
  <2>3. CASE DecryptWithSession(p, m)
    BY <1>3, <2>3
  <2>4. QED BY <1>0, <1>8, <2>1, <2>2, <2>3 DEF DecryptReplay
<1>9. CASE Bootstrap(t)
  <2>1. CASE UNCHANGED <<partyVars, netVars>>
    BY <1>4, <2>1 DEF partyVars, netVars
  <2>2. CASE ~UNCHANGED <<partyVars, netVars>>
    <3>1. PICK m \in net : m = incoming[t]
      BY <1>9, BootstrapEffect
    <3>2. PICK r : BootstrapOK(p, m, r) /\ session' = [session EXCEPT ![p] = r]
      BY <1>0, <1>9, <2>2, <3>1, BootstrapEffect
    <3>3. UNCHANGED <<keyCount, net>>
      BY <1>9, <2>2, BootstrapEffect
    <3>4. OwnKeys(p, r) /\ r.send = Uninitialized /\ r \in Record
      BY <3>2, BootstrapKeys DEF BootstrapOK
    <3>5. ASSUME NEW q \in Parties, session'[q] # None
          PROVE  /\ OwnKeys(q, session'[q])
                 /\ session'[q].send = Uninitialized
                    \/ (session[q] # None /\ session'[q].send = session[q].send)
      <4>1. CASE q = p
        BY <3>2, <3>4, <4>1 DEF SignalTypeOK
      <4>2. CASE q # p
        BY <3>2, <3>5, <4>2 DEF SignalTypeOK, KeyInv, SessionKeys
      <4>3. QED BY <4>1, <4>2
    <3>6. QED BY <1>2, <3>3, <3>5, KeysReceive
  <2>3. QED BY <2>1, <2>2
<1>10. QED BY <1>5, <1>6, <1>7, <1>8, <1>9 DEF ReceiverStep

\* A session that gets its sending chain from a key pair just generated.
LEMMA FreshChainKeys ==
  ASSUME keyCount \in [Parties -> Nat], NEW p \in Parties,
         keyCount' = [keyCount EXCEPT ![p] = @ + 1],
         NEW old \in Record, OwnKeys(p, old), old.remote \in KeyPair,
         NEW fresh \in KeyPair, fresh = <<p, keyCount[p] + 1>>, NEW rec \in Record,
         rec.recv = old.recv, rec.remote = old.remote, rec.skipped = old.skipped,
         rec.root = RootStep(old.root, fresh, old.remote),
         rec.send = Chain(rec.root), rec.local = fresh
  PROVE  OwnKeys(p, rec)' /\ FreshKey(rec.root) /\ rec.send.key = rec.root
         /\ rec.root[1] = old.root[1]
<1>1. old.root \in RootKey /\ rec.root \in RootKey
  BY DEF Record
<1>2. keyCount' \in [Parties -> Nat] /\ \A q \in Parties : keyCount[q] <= keyCount'[q]
  OBVIOUS
<1>3. Known(fresh)' /\ ~Known(fresh)
  BY DEF Known
<1>4. OwnKeys(p, old)'
  BY <1>2, OwnKeysStay
<1>5. old.recv # None
  BY SessionAssumption DEF OwnKeys, Valid
<1>6. PICK root \in RootKey, theirs \in KeyPair : root = old.root /\ theirs = old.remote
  BY <1>1
<1>7. PICK new : new = RootStep(root, fresh, theirs)
  OBVIOUS
<1>8. /\ new \in RootKey /\ Len(new) = Len(root) + 1 /\ new[1] = root[1]
      /\ new[Len(root) + 1] = {fresh, theirs} /\ Len(root) \in Nat
  BY <1>7, RootStepFacts
<1>9. rec.root = new
  BY <1>6, <1>7
<1>10. Derived(root)' /\ Known(theirs)'
  BY <1>4, <1>5, <1>6 DEF OwnKeys
<1>11. Derived(new)'
  BY <1>3, <1>8, <1>10 DEF Derived
<1>12. FreshKey(new)
  BY <1>3, <1>8 DEF FreshKey
<1>13. rec.send.key = new /\ rec.send # Uninitialized
  BY <1>8, <1>9, ChainFacts
<1>14. Valid(rec)
  BY DEF OwnKeys, Valid
<1>15. rec.recv.key[1] = new[1] /\ Len(rec.recv.key) <= Len(new)
  <2>1. rec.recv.key[1] = root[1] /\ Len(rec.recv.key) <= Len(root) /\ rec.recv \in MessageChain
    BY <1>5, <1>6 DEF OwnKeys, Record
  <2>2. Len(rec.recv.key) \in Nat
    BY <2>1 DEF MessageChain, RootKey
  <2>3. QED BY <1>8, <2>1, <2>2
<1>16. fresh[1] = p
  OBVIOUS
<1>17. OwnKeys(p, rec)'
  BY <1>3, <1>5, <1>6, <1>9, <1>10, <1>11, <1>13, <1>14, <1>15, <1>16 DEF OwnKeys
<1>18. QED BY <1>6, <1>8, <1>9, <1>12, <1>13, <1>17

\* The session that a party begins.
LEMMA FirstKeys ==
  ASSUME keyCount \in [Parties -> Nat], NEW p \in Parties,
         keyCount' = [keyCount EXCEPT ![p] = @ + 2],
         NEW oneTime, NEW rec,
         FirstRecordOK(p, keyCount[p] + 1, keyCount[p] + 2, oneTime, rec)
  PROVE  OwnKeys(p, rec)' /\ FreshKey(rec.root) /\ rec.send.key = rec.root /\ ~Known(rec.root[1].base)
<1>1. PICK n \in Nat, k \in Nat : n = keyCount[p] + 1 /\ k = keyCount[p] + 2
  OBVIOUS
<1>2. /\ rec \in Record /\ rec.send = Chain(rec.root)
      /\ rec.recv = None /\ rec.remote = None /\ rec.local = <<p, k>> /\ rec.skipped = <<>>
      /\ Len(rec.root) = 2 /\ rec.root[2] = {<<p, k>>, <<Peer(p), 0>>}
      /\ rec.root[1] = [base |-> <<p, n>>, signed |-> <<Peer(p), 0>>, oneTime |-> oneTime]
      /\ rec.root[1] \in Agreement
  BY <1>1 DEF FirstRecordOK
<1>3. <<p, n>> \in KeyPair /\ <<p, k>> \in KeyPair /\ <<Peer(p), 0>> \in KeyPair /\ Peer(p) \in Parties
  BY PeerFacts DEF KeyPair
<1>4. /\ ~Known(<<p, n>>) /\ ~Known(<<p, k>>) /\ Known(<<p, n>>)' /\ Known(<<p, k>>)'
      /\ Known(<<Peer(p), 0>>)'
  BY <1>1, <1>3 DEF Known
<1>5. rec.root \in RootKey
  BY <1>2 DEF Record
<1>6. rec.root[1].base = <<p, n>>
  BY <1>2
<1>7. Derived(rec.root)'
  BY <1>2, <1>3, <1>4, <1>6 DEF Derived
<1>8. FreshKey(rec.root)
  BY <1>2, <1>3, <1>4 DEF FreshKey
<1>9. rec.send.key = rec.root /\ rec.send # Uninitialized
  BY <1>2, <1>5, ChainFacts
<1>10. Valid(rec)
  BY <1>2, RatchetAssumption DEF Valid
<1>11. <<p, n>>[1] = p /\ <<p, k>>[1] = p
  OBVIOUS
<1>12. OwnKeys(p, rec)'
  BY <1>2, <1>4, <1>6, <1>7, <1>9, <1>10, <1>11 DEF OwnKeys
<1>13. QED BY <1>4, <1>6, <1>8, <1>9, <1>12

\* What sending does to a session, the keys and the key pairs.
SendsOn(p, rec, m) ==
  /\ SendEffect(p, rec, m)
  /\ \A q \in Parties : keyCount[q] <= keyCount'[q]
  /\ OwnKeys(p, rec)' /\ rec.send.key = rec.root
  /\ m.pre # None => /\ m.pre = [base |-> m.key[1].base, oneTime |-> m.key[1].oneTime]
                     /\ m.key[1].base[1] = m.from

\* On the chain there is, on one derived with a key pair that has just been
\* generated, or in a session that has just begun.
OldChain(p, rec) ==
  session[p] # None /\ rec = session[p] /\ rec.send # Uninitialized
NewChain(p, rec) ==
  /\ session[p] # None /\ rec.root[1] = session[p].root[1] /\ rec.recv = session[p].recv
  /\ rec.remote = session[p].remote /\ rec.recv # None /\ rec.skipped = session[p].skipped
  /\ rec.local[1] = p /\ ~Known(rec.local) /\ FreshKey(rec.root)
  /\ session[p].send = Uninitialized /\ rec.send = Chain(rec.root)
  /\ rec.root = RootStep(session[p].root, rec.local, rec.remote)
  /\ rec.prev = session[p].prev /\ rec.lost = session[p].lost
NewSession(p, rec) ==
  /\ ~Known(rec.root[1].base) /\ rec.root[1].base[1] = p /\ ~Known(rec.local) /\ rec.local[1] = p
  /\ FreshKey(rec.root) /\ rec.skipped = <<>> /\ rec.recv = None
  /\ Len(rec.root) = 2 /\ rec.send = Chain(rec.root) /\ rec.prev = 0

LEMMA ExistingKeys ==
  ASSUME SignalTypeOK, KeyInv, NEW t \in Senders, EncryptExisting(t)
  PROVE  \E p \in Parties, rec \in Record, m \in Message :
           SendsOn(p, rec, m) /\ (OldChain(p, rec) \/ NewChain(p, rec))
<1>1. PICK p : p = t[1]
  OBVIOUS
<1>2. PICK fresh : fresh = <<p, keyCount[p] + 1>>
  OBVIOUS
<1>3. PICK rec : rec = WithSendingChain(session[p], fresh)
  OBVIOUS
<1>4. /\ p \in Parties /\ session[p] # None /\ session[p] \in Record /\ CanEncrypt(session[p])
      /\ fresh \in KeyPair
      /\ keyCount' = [keyCount EXCEPT ![p] = @ + (IF rec = session[p] THEN 0 ELSE 1)]
  BY <1>1, <1>2, <1>3, ExistingEffect
<1>5. PICK m \in Message : m.pre = None /\ SendEffect(p, rec, m)
  BY <1>1, <1>2, <1>3, ExistingEffect
<1>6. PICK old \in Record : old = session[p]
  BY <1>4
<1>7. CanEncrypt(old) /\ rec = WithSendingChain(old, fresh) /\ OwnKeys(p, old)
  BY <1>3, <1>4, <1>6 DEF KeyInv, SessionKeys
<1>8. /\ rec \in Record /\ rec.send \in MessageChain
      /\ rec.recv = old.recv /\ rec.remote = old.remote /\ rec.skipped = old.skipped
      /\ rec.prev = old.prev /\ rec.lost = old.lost
      /\ \/ old.send # Uninitialized /\ rec = old
         \/ /\ old.send = Uninitialized /\ rec # old /\ old.remote \in KeyPair
            /\ rec.root = RootStep(old.root, fresh, old.remote)
            /\ rec.send = Chain(rec.root) /\ rec.local = fresh
  BY <1>4, <1>7, SendingRecord
<1>9. keyCount \in [Parties -> Nat]
  BY DEF SignalTypeOK
<1>10. CASE old.send # Uninitialized /\ rec = old
  <2>1. keyCount' = keyCount
    BY <1>4, <1>6, <1>9, <1>10
  <2>2. OwnKeys(p, rec)'
    <3>1. keyCount' \in [Parties -> Nat] /\ \A q \in Parties : keyCount[q] <= keyCount'[q]
      BY <1>9, <2>1
    <3>2. QED BY <1>7, <1>9, <1>10, <3>1, OwnKeysStay
  <2>3. rec.send.key = rec.root
    BY <1>7, <1>10 DEF OwnKeys
  <2>4. SendsOn(p, rec, m)
    BY <1>5, <1>9, <2>1, <2>2, <2>3 DEF SendsOn
  <2>5. QED BY <1>4, <1>6, <1>8, <1>10, <2>4 DEF OldChain
<1>11. CASE /\ old.send = Uninitialized /\ rec # old /\ old.remote \in KeyPair
            /\ rec.root = RootStep(old.root, fresh, old.remote)
            /\ rec.send = Chain(rec.root) /\ rec.local = fresh
  <2>1. keyCount' = [keyCount EXCEPT ![p] = @ + 1]
    BY <1>4, <1>6, <1>11
  <2>2. OwnKeys(p, rec)' /\ FreshKey(rec.root) /\ rec.send.key = rec.root
        /\ rec.root[1] = old.root[1]
    <3>1. p \in Parties /\ fresh \in KeyPair /\ OwnKeys(p, old) /\ rec \in Record
      BY <1>4, <1>7, <1>8
    <3>2. /\ rec.recv = old.recv /\ rec.remote = old.remote /\ rec.skipped = old.skipped
          /\ rec.root = RootStep(old.root, fresh, old.remote) /\ old.remote \in KeyPair
          /\ rec.send = Chain(rec.root) /\ rec.local = fresh
      BY <1>8, <1>11
    <3>3. QED BY <1>2, <1>9, <2>1, <3>1, <3>2, FreshChainKeys, Zenon
  <2>3. \A q \in Parties : keyCount[q] <= keyCount'[q]
    BY <1>9, <2>1
  <2>4. SendsOn(p, rec, m)
    BY <1>5, <2>2, <2>3 DEF SendsOn
  <2>5. old.recv # None
    BY <1>7, <1>11, SessionAssumption DEF OwnKeys, Valid
  <2>6. ~Known(rec.local) /\ rec.local[1] = p
    BY <1>2, <1>4, <1>9, <1>11 DEF Known
  <2>7. NewChain(p, rec)
    BY <1>4, <1>6, <1>8, <1>11, <2>2, <2>5, <2>6 DEF NewChain
  <2>8. QED BY <1>4, <1>8, <2>4, <2>7
<1>12. QED BY <1>8, <1>10, <1>11

LEMMA UnansweredKeys ==
  ASSUME SignalTypeOK, KeyInv, NEW t \in Senders, EncryptUnanswered(t)
  PROVE  \E p \in Parties, rec \in Record, m \in Message : SendsOn(p, rec, m) /\ OldChain(p, rec)
<1>1. PICK p : p = t[1]
  OBVIOUS
<1>2. SessionKeys
  BY DEF KeyInv
<1>3. /\ p \in Parties /\ session[p] # None /\ session[p] \in Record
      /\ session[p].recv = None /\ session[p].send # Uninitialized /\ keyCount' = keyCount
  BY <1>1, <1>2, UnansweredEffect
<1>4. PICK m \in Message :
        /\ m.pre = [base |-> session[p].root[1].base, oneTime |-> session[p].root[1].oneTime]
        /\ SendEffect(p, session[p], m)
  BY <1>1, <1>2, UnansweredEffect
<1>5. PICK rec \in Record : rec = session[p]
  BY <1>3
<1>6. OwnKeys(p, rec) /\ rec.recv = None /\ rec.send # Uninitialized
  BY <1>2, <1>3, <1>5 DEF SessionKeys
<1>7. rec.send.key = rec.root /\ rec.root[1].base[1] = p
  BY <1>6 DEF OwnKeys
<1>8. keyCount \in [Parties -> Nat] /\ keyCount' \in [Parties -> Nat]
      /\ \A q \in Parties : keyCount[q] <= keyCount'[q]
  BY <1>3 DEF SignalTypeOK
<1>9. OwnKeys(p, rec)'
  BY <1>6, <1>8, OwnKeysStay
<1>10. m.key = rec.root /\ m.from = p
  BY <1>4, <1>5, <1>7 DEF SendEffect
<1>11. SendsOn(p, rec, m)
  BY <1>4, <1>5, <1>7, <1>8, <1>9, <1>10 DEF SendsOn
<1>12. QED BY <1>3, <1>5, <1>6, <1>11 DEF OldChain

LEMMA FirstSendKeys ==
  ASSUME SignalTypeOK, KeyInv, NEW t \in Senders, SendFirst(t)
  PROVE  \E p \in Parties, rec \in Record, m \in Message : SendsOn(p, rec, m) /\ NewSession(p, rec)
<1>1. PICK p : p = t[1]
  OBVIOUS
<1>2. p \in Parties /\ keyCount' = [keyCount EXCEPT ![p] = @ + 2] /\ keyCount \in [Parties -> Nat]
  BY <1>1, FirstEffect DEF SignalTypeOK
<1>3. PICK rec \in Record, oneTime \in OneTimeKeys \cup {None}, m \in Message :
        /\ FirstRecordOK(p, keyCount[p] + 1, keyCount[p] + 2, oneTime, rec)
        /\ m.pre = [base |-> <<p, keyCount[p] + 1>>, oneTime |-> oneTime]
        /\ SendEffect(p, rec, m)
  BY <1>1, FirstEffect
<1>4. OwnKeys(p, rec)' /\ FreshKey(rec.root) /\ rec.send.key = rec.root
      /\ ~Known(rec.root[1].base)
  BY <1>2, <1>3, FirstKeys
<1>5. /\ rec.recv = None /\ rec.local = <<p, keyCount[p] + 2>> /\ rec.skipped = <<>>
      /\ Len(rec.root) = 2 /\ rec.send = Chain(rec.root) /\ rec.prev = 0
      /\ rec.root[1] = [base |-> <<p, keyCount[p] + 1>>, signed |-> <<Peer(p), 0>>,
                        oneTime |-> oneTime]
  BY <1>3 DEF FirstRecordOK
<1>6. m.key = rec.root /\ m.from = p
  BY <1>3, <1>4 DEF SendEffect
<1>7. /\ rec.root[1].base = <<p, keyCount[p] + 1>> /\ rec.root[1].base[1] = p
      /\ rec.root[1].oneTime = oneTime /\ rec.local[1] = p
  BY <1>5
<1>8. \A q \in Parties : keyCount[q] <= keyCount'[q]
  BY <1>2
<1>9. SendsOn(p, rec, m)
  BY <1>3, <1>4, <1>6, <1>7, <1>8 DEF SendsOn
<1>10. ~Known(rec.local)
  BY <1>2, <1>5 DEF Known
<1>11. NewSession(p, rec)
  BY <1>4, <1>5, <1>7, <1>10 DEF NewSession
<1>12. QED BY <1>2, <1>9, <1>11

\* A sending task's step sends on one of those chains, drops a session, or
\* touches neither the sessions nor the network.
Drops(p) ==
  p \in Parties /\ session' = [session EXCEPT ![p] = None]
  /\ UNCHANGED <<keyCount, net, preKeys, accepted, twice>>

LEMMA SenderSteps ==
  ASSUME SignalTypeOK, KeyInv, NEW t \in Senders, SenderStep(t)
  PROVE  \/ UNCHANGED <<session, keyCount, net, preKeys, accepted, twice>>
         \/ \E p \in Parties : Drops(p)
         \/ \E p \in Parties, rec \in Record, m \in Message :
              SendsOn(p, rec, m) /\ (OldChain(p, rec) \/ NewChain(p, rec) \/ NewSession(p, rec))
<1>0. t[1] \in Parties
  BY SessionAssumption
<1>1. CASE StartSend(t) \/ StartForcedSend(t) \/ FetchFails(t) \/ ReadBundle(t) \/ EncryptMissing(t)
  BY <1>1 DEF StartSend, StartForcedSend, FetchFails, ReadBundle, EncryptMissing, partyVars, netVars
<1>2. CASE DeleteSessions(t)
  BY <1>0, <1>2 DEF DeleteSessions, Drops, netVars
<1>3. CASE FetchAndInject(t)
  BY <1>0, <1>3 DEF FetchAndInject, Drops, netVars
<1>4. CASE EncryptExisting(t)
  BY <1>4, ExistingKeys
<1>5. CASE EncryptUnanswered(t)
  BY <1>5, UnansweredKeys
<1>6. CASE SendFirst(t)
  BY <1>6, FirstSendKeys
<1>7. QED BY <1>1, <1>2, <1>3, <1>4, <1>5, <1>6 DEF SenderStep

LEMMA SenderKeys ==
  ASSUME SignalTypeOK, KeyInv, NEW t \in Senders, SenderStep(t)
  PROVE  KeyInv'
<1>1. SessionKeys
  BY DEF KeyInv
<1>2. SignalTypeOK'
  BY <1>1, SenderTypes
<1>3. session' \in [Parties -> Record \cup {None}]
  BY <1>2 DEF SignalTypeOK
<1>4. CASE UNCHANGED <<session, keyCount, net, preKeys, accepted, twice>>
  <2>1. ASSUME NEW q \in Parties, session'[q] # None
        PROVE  /\ OwnKeys(q, session'[q])
               /\ session'[q].send = Uninitialized
                  \/ (session[q] # None /\ session'[q].send = session[q].send)
    BY <1>1, <1>4, <2>1 DEF SessionKeys
  <2>2. QED BY <1>3, <1>4, <2>1, KeysReceive
<1>5. ASSUME NEW p \in Parties, Drops(p) PROVE KeyInv'
  <2>1. ASSUME NEW q \in Parties, session'[q] # None
        PROVE  /\ OwnKeys(q, session'[q])
               /\ session'[q].send = Uninitialized
                  \/ (session[q] # None /\ session'[q].send = session[q].send)
    BY <1>1, <1>5, <2>1 DEF SessionKeys, Drops, SignalTypeOK
  <2>2. QED BY <1>3, <1>5, <2>1, KeysReceive DEF Drops
<1>6. ASSUME NEW p \in Parties, NEW rec \in Record, NEW m \in Message, SendsOn(p, rec, m),
             OldChain(p, rec) \/ NewChain(p, rec) \/ NewSession(p, rec)
      PROVE  KeyInv'
  <2>1. \/ session[p] # None /\ rec = session[p] /\ rec.send # Uninitialized
        \/ FreshKey(rec.root)
    BY <1>6 DEF OldChain, NewChain, NewSession
  <2>2. /\ SendEffect(p, rec, m) /\ \A q \in Parties : keyCount[q] <= keyCount'[q]
        /\ OwnKeys(p, rec)' /\ rec.send.key = rec.root
        /\ m.pre # None => /\ m.pre = [base |-> m.key[1].base, oneTime |-> m.key[1].oneTime]
                           /\ m.key[1].base[1] = m.from
    BY <1>6 DEF SendsOn
  <2>3. QED BY <1>2, <2>1, <2>2, KeysSend
<1>7. QED BY <1>4, <1>5, <1>6, SenderSteps

LEMMA SignalStart ==
  ASSUME Init
  PROVE  SignalTypeOK /\ KeyInv
<1>1. SignalTypeOK
  BY FS_EmptySet DEF Init, SignalTypeOK
<1>2. SessionKeys /\ MessageKeys /\ ChainsAhead /\ KeyNeverReused
  BY DEF Init, SessionKeys, MessageKeys, ChainsAhead, Sends, KeyNeverReused
<1>3. QED BY <1>1, <1>2 DEF KeyInv

LEMMA SignalStay ==
  ASSUME SignalTypeOK, KeyInv, [Next]_vars
  PROVE  SignalTypeOK' /\ KeyInv'
<1>1. SessionKeys
  BY DEF KeyInv
<1>2. CASE UNCHANGED vars
  <2>1. UNCHANGED <<session, native, preKeys, server, keyCount, fetches, net, accepted, twice,
                    spc, bundle, rpc, incoming>>
    BY <1>2 DEF vars, partyVars, netVars, sendVars, receiveVars
  <2>2. SignalTypeOK'
    BY <2>1 DEF SignalTypeOK
  <2>3. session' \in [Parties -> Record \cup {None}]
    BY <2>2 DEF SignalTypeOK
  <2>4. ASSUME NEW q \in Parties, session'[q] # None
        PROVE  /\ OwnKeys(q, session'[q])
               /\ session'[q].send = Uninitialized
                  \/ (session[q] # None /\ session'[q].send = session[q].send)
    BY <1>1, <2>1, <2>4 DEF SessionKeys
  <2>5. QED BY <2>1, <2>2, <2>3, <2>4, KeysReceive
<1>3. ASSUME NEW t \in Senders, SenderStep(t) PROVE SignalTypeOK' /\ KeyInv'
  BY <1>1, <1>3, SenderTypes, SenderKeys
<1>4. ASSUME NEW t \in Receivers, ReceiverStep(t) PROVE SignalTypeOK' /\ KeyInv'
  BY <1>4, ReceiverTypes, ReceiverKeys
<1>5. QED BY <1>2, <1>3, <1>4 DEF Next

(* Sessions, messages and tasks have the types the provider gives them, and *)
(* every chain is that of the one party that derived it, ahead of all that  *)
(* was sent on it.                                                          *)
THEOREM SignalKeysAlways == Spec => [](SignalTypeOK /\ KeyInv)
<1>1. Init => SignalTypeOK /\ KeyInv
  BY SignalStart
<1>2. SignalTypeOK /\ KeyInv /\ [Next]_vars => SignalTypeOK' /\ KeyInv'
  BY SignalStay
<1>3. QED BY <1>1, <1>2, PTL DEF Spec

(* No two messages are ever encrypted under one key and counter: each task  *)
(* of encrypt_existing_session_record_message reads, advances and stores    *)
(* the record in one transaction.                                           *)
THEOREM KeyNeverReusedAlways == Spec => []KeyNeverReused
<1>1. KeyInv => KeyNeverReused
  BY DEF KeyInv
<1>2. QED BY <1>1, SignalKeysAlways, PTL

-----------------------------------------------------------------------------
(* Validation.                                                             *)

LEMMA SkippedTypes ==
  ASSUME NEW rec \in Record, NEW k \in ToSet(rec.skipped)
  PROVE  k \in SkippedKey /\ k.counter \in Nat
<1>1. rec.skipped \in Seq(SkippedKey)
  BY DEF Record
<1>2. k \in SkippedKey
  BY <1>1 DEF ToSet
<1>3. QED BY <1>2 DEF SkippedKey

\* The keys in a record with a receiving chain are no longer than its root.
LEMMA SkippedFacts ==
  ASSUME NEW p, NEW rec \in Record, OwnKeys(p, rec), SkippedOf(rec), NEW k \in ToSet(rec.skipped)
  PROVE  /\ rec.recv # None /\ k.key[1] = rec.root[1] /\ k \in SkippedKey
         /\ Len(k.key) <= Len(rec.recv.key) /\ Len(k.key) <= Len(rec.root)
         /\ Len(rec.recv.key) \in Nat /\ Len(k.key) \in Nat /\ Len(rec.root) \in Nat
<1>1. rec.skipped \in Seq(SkippedKey) /\ rec.skipped # <<>>
  BY DEF Record, ToSet
<1>2. k \in SkippedKey
  BY <1>1 DEF ToSet
<1>3. rec.recv # None
  BY <1>1 DEF OwnKeys, Valid
<1>4. rec.recv \in MessageChain
  BY <1>3 DEF Record
<1>5. Len(rec.recv.key) \in Nat /\ Len(k.key) \in Nat /\ Len(rec.root) \in Nat
  BY <1>2, <1>4 DEF Record, SkippedKey, MessageChain, RootKey
<1>6. Len(k.key) <= Len(rec.recv.key) /\ Len(rec.recv.key) <= Len(rec.root)
  BY <1>3 DEF OwnKeys, SkippedOf
<1>7. QED BY <1>2, <1>3, <1>5, <1>6 DEF SkippedOf

\* A message that moves the ratchet is under a longer key than all before it.
LEMMA MovedFacts ==
  ASSUME SignalTypeOK, NEW m \in net, NEW rec \in Record, NEW r, Moved(rec, m, r)
  PROVE  /\ m.key[1] = rec.root[1] /\ Len(m.key) = Len(rec.root) + 1 /\ Len(rec.root) \in Nat
         /\ r.root = m.key
<1>1. PICK root \in RootKey, mine \in KeyPair, theirs \in KeyPair :
        root = rec.root /\ mine = rec.local /\ theirs = m.ratchet
  BY DEF Record, Message, SignalTypeOK
<1>2. m.key = RootStep(root, mine, theirs) /\ r.root = m.key
  BY <1>1 DEF Moved
<1>3. Len(root) \in Nat
  BY DEF RootKey
<1>4. QED BY <1>1, <1>2, <1>3, RootStepFacts

\* The receiving chain after a message of the ratchet.
LEMMA OnChainFacts ==
  ASSUME SignalTypeOK, NEW m \in net, NEW rec, NEW r, OnChain(rec, m, r)
  PROVE  /\ r.recv \in MessageChain /\ r.recv # None /\ r.recv.key = m.key
         /\ r.recv.counter = m.counter + 1 /\ m.counter \in Nat
         /\ r.remote = m.ratchet /\ m.ratchet \in KeyPair /\ m.ratchet # None
<1>1. m.key \in RootKey /\ m.counter \in Nat /\ m.ratchet \in KeyPair
  BY DEF SignalTypeOK, Message
<1>2. r.recv = [key |-> m.key, counter |-> m.counter + 1] /\ r.remote = m.ratchet
  BY DEF OnChain
<1>3. r.recv \in MessageChain
  BY <1>1, <1>2 DEF MessageChain
<1>4. QED BY <1>1, <1>2, <1>3, SessionAssumption

\* Removing a skipped key changes nothing else.
LEMMA TakenStays ==
  ASSUME NEW rec \in Record, Valid(rec), NEW m \in Message, NEW r, Taken(rec, m, r)
  PROVE  /\ r.root = rec.root /\ r.send = rec.send /\ r.recv = rec.recv /\ r.remote = rec.remote
         /\ r.local = rec.local /\ r.inboundBase = rec.inboundBase
         /\ ToSet(r.skipped) \subseteq ToSet(rec.skipped)
<1>1. \A k \in ToSet(r.skipped) : k \in ToSet(rec.skipped)
  BY TakenFacts
<1>2. QED BY <1>1 DEF Taken, Record

LEMMA DecryptSkipped ==
  ASSUME SignalTypeOK, KeyInv, NEW p \in Parties, NEW m \in net, NEW rec, OwnKeys(p, rec),
         SkippedOf(rec), NEW r, Decrypts(rec, m, r)
  PROVE  SkippedOf(r) /\ r.local = rec.local
<1>1. /\ rec \in Record /\ Valid(rec) /\ m \in Message
      /\ Taken(rec, m, r) \/ OnChain(rec, m, r)
  BY DEF Decrypts, SignalTypeOK
<1>2. r.root[1] = rec.root[1]
  BY DecryptKeys
<1>3. CASE Taken(rec, m, r)
  <2>1. r.recv = rec.recv /\ r.remote = rec.remote /\ r.local = rec.local
        /\ ToSet(r.skipped) \subseteq ToSet(rec.skipped)
    BY <1>1, <1>3, TakenStays
  <2>2. QED BY <1>2, <2>1 DEF SkippedOf
<1>4. CASE OnChain(rec, m, r)
  <2>1. /\ r.recv # None /\ r.recv.key = m.key /\ r.recv.counter = m.counter + 1
        /\ m.counter \in Nat /\ r.remote = m.ratchet
    BY <1>4, OnChainFacts
  <2>2. Len(m.key) \in Nat /\ r.local = rec.local
    BY <1>1, <1>4 DEF OnChain, Message, RootKey
  <2>3. ASSUME NEW k \in ToSet(r.skipped),
               \/ /\ k \in ToSet(rec.skipped) /\ Len(k.key) <= Len(m.key)
                  /\ k.key = m.key => k.counter < m.counter + 1
               \/ /\ rec.recv # None /\ k.ratchet = rec.remote /\ k.key = rec.recv.key
                  /\ Len(k.key) < Len(m.key)
               \/ k.ratchet = m.ratchet /\ k.key = m.key /\ k.counter < m.counter
        PROVE  /\ k.key[1] = r.root[1]
               /\ \E n \in net : n.ratchet = k.ratchet /\ n.key = k.key
               /\ Len(k.key) <= Len(r.recv.key)
               /\ k.key = r.recv.key => k.counter < r.recv.counter
    <3>0. r \in Record
      BY DEF Decrypts
    <3>1. k.counter \in Nat
      BY <3>0, SkippedTypes
    <3>2. CASE k \in ToSet(rec.skipped) /\ Len(k.key) <= Len(m.key)
               /\ (k.key = m.key => k.counter < m.counter + 1)
      BY <1>2, <2>1, <3>2 DEF SkippedOf
    <3>3. CASE rec.recv # None /\ k.ratchet = rec.remote /\ k.key = rec.recv.key
               /\ Len(k.key) < Len(m.key)
      <4>1. \E n \in net : n.ratchet = k.ratchet /\ n.key = k.key
        BY <3>3 DEF SkippedOf
      <4>2. k.key[1] = r.root[1]
        BY <1>2, <3>3 DEF OwnKeys
      <4>3. rec.recv \in MessageChain
        BY <1>1, <3>3 DEF Record
      <4>4. Len(k.key) \in Nat
        BY <3>3, <4>3 DEF MessageChain, RootKey
      <4>5. k.key # m.key /\ Len(k.key) <= Len(m.key)
        BY <2>2, <3>3, <4>4
      <4>6. QED BY <2>1, <4>1, <4>2, <4>5
    <3>4. CASE k.ratchet = m.ratchet /\ k.key = m.key /\ k.counter < m.counter
      <4>1. m.key[1] = r.root[1]
        <5>1. r.recv.key[1] = r.root[1]
          BY <2>1, DecryptKeys DEF OwnKeys
        <5>2. QED BY <2>1, <5>1
      <4>2. QED BY <2>1, <2>2, <3>1, <3>4, <4>1
    <3>5. QED BY <2>3, <3>2, <3>3, <3>4
  <2>4. ASSUME NEW k \in ToSet(r.skipped)
        PROVE  \/ /\ k \in ToSet(rec.skipped) /\ Len(k.key) <= Len(m.key)
                  /\ k.key = m.key => k.counter < m.counter + 1
               \/ /\ rec.recv # None /\ k.ratchet = rec.remote /\ k.key = rec.recv.key
                  /\ Len(k.key) < Len(m.key)
               \/ k.ratchet = m.ratchet /\ k.key = m.key /\ k.counter < m.counter
    <3>1. CASE Stayed(rec, m, r)
      <4>1. /\ m.key = rec.recv.key /\ rec.recv.counter <= m.counter /\ rec.recv # None
            /\ \/ k \in ToSet(rec.skipped)
               \/ k.ratchet = m.ratchet /\ k.key = m.key /\ k.counter < m.counter
        BY <3>1 DEF Stayed
      <4>2. ASSUME k \in ToSet(rec.skipped)
            PROVE  Len(k.key) <= Len(m.key) /\ (k.key = m.key => k.counter < m.counter + 1)
        <5>1. rec.recv.counter \in Nat
          BY <1>1, <4>1 DEF Record, MessageChain
        <5>2. k.counter \in Nat
          BY <1>1, <4>2, SkippedFacts DEF SkippedKey
        <5>3. Len(k.key) <= Len(m.key) /\ (k.key = m.key => k.counter < rec.recv.counter)
          BY <4>1, <4>2 DEF SkippedOf
        <5>4. QED BY <2>1, <4>1, <5>1, <5>2, <5>3
      <4>3. QED BY <4>1, <4>2
    <3>2. CASE Moved(rec, m, r)
      <4>1. Len(m.key) = Len(rec.root) + 1 /\ Len(rec.root) \in Nat
        BY <1>1, <3>2, MovedFacts
      <4>2. \/ k \in ToSet(rec.skipped)
            \/ rec.recv # None /\ k.ratchet = rec.remote /\ k.key = rec.recv.key
            \/ k.ratchet = m.ratchet /\ k.key = m.key /\ k.counter < m.counter
        BY <3>2 DEF Moved
      <4>3. ASSUME k \in ToSet(rec.skipped) PROVE Len(k.key) <= Len(m.key) /\ k.key # m.key
        <5>1. Len(k.key) <= Len(rec.root) /\ Len(k.key) \in Nat
          BY <1>1, <4>3, SkippedFacts
        <5>2. QED BY <4>1, <5>1
      <4>4. ASSUME rec.recv # None, k.key = rec.recv.key PROVE Len(k.key) < Len(m.key)
        <5>1. rec.recv \in MessageChain
          BY <1>1, <4>4 DEF Record
        <5>2. Len(k.key) \in Nat /\ Len(k.key) <= Len(rec.root)
          BY <4>4, <5>1 DEF MessageChain, RootKey, OwnKeys
        <5>3. QED BY <4>1, <5>2
      <4>5. QED BY <4>2, <4>3, <4>4
    <3>3. QED BY <1>4, <3>1, <3>2 DEF OnChain
  <2>5. \A k \in ToSet(r.skipped) :
          /\ k.key[1] = r.root[1]
          /\ \E n \in net : n.ratchet = k.ratchet /\ n.key = k.key
          /\ Len(k.key) <= Len(r.recv.key)
          /\ k.key = r.recv.key => k.counter < r.recv.counter
    BY <2>3, <2>4
  <2>6. \E n \in net : n.ratchet = r.remote /\ n.key = r.recv.key
    BY <2>1
  <2>7. QED BY <2>2, <2>5, <2>6 DEF SkippedOf
<1>5. QED BY <1>1, <1>3, <1>4

LEMMA BootstrapSkipped ==
  ASSUME SignalTypeOK, NEW p \in Parties, NEW m \in net, NEW r, BootstrapOK(p, m, r)
  PROVE  SkippedOf(r)
<1>1. /\ r \in Record /\ r.root = m.key
      /\ r.recv.key = m.key /\ r.recv.counter = m.counter + 1 /\ r.remote = m.ratchet
      /\ \A k \in ToSet(r.skipped) : k.ratchet = m.ratchet /\ k.key = m.key /\ k.counter < m.counter
  BY DEF BootstrapOK
<1>2. m.counter \in Nat /\ Len(m.key) \in Nat
  BY DEF SignalTypeOK, Message, RootKey
<1>3. \A k \in ToSet(r.skipped) : k.counter \in Nat
  BY <1>1, SkippedTypes
<1>4. ASSUME NEW k \in ToSet(r.skipped) PROVE k.counter < r.recv.counter
  BY <1>1, <1>2, <1>3
<1>5. QED BY <1>1, <1>2, <1>4 DEF SkippedOf

\* What the ratchet produces passes validation.
LEMMA AdvanceValid ==
  ASSUME SignalTypeOK, Paired, NEW p \in Parties, NEW m \in net, NEW rec \in Record,
         OwnKeys(p, rec), SkippedOf(rec), NEW r, r = Advance(rec, m), r # None
  PROVE  Valid(r)
<1>1. m \in Message /\ Valid(rec)
  BY DEF SignalTypeOK, OwnKeys
<1>2. r \in Record /\ InOrder(r.skipped) /\ (Taken(rec, m, r) \/ OnChain(rec, m, r))
  BY <1>1, AdvanceFacts
<1>3. SUFFICES /\ (r.recv = None) = (r.remote = None)
               /\ r.skipped # <<>> => r.remote # None
               /\ \A k \in ToSet(r.skipped) : k.ratchet = r.remote => k.counter < r.recv.counter
  BY <1>2 DEF Valid, InOrder, ToSet
<1>4. CASE Taken(rec, m, r)
  <2>1. r.recv = rec.recv /\ r.remote = rec.remote /\ ToSet(r.skipped) \subseteq ToSet(rec.skipped)
    BY <1>1, <1>4, TakenStays
  <2>2. rec.skipped # <<>>
    BY <1>4 DEF Taken
  <2>3. \A k \in ToSet(rec.skipped) : k.ratchet = rec.remote => k.counter < rec.recv.counter
    BY <1>1 DEF Valid, ToSet
  <2>4. QED BY <1>1, <2>1, <2>2, <2>3 DEF Valid
<1>5. CASE OnChain(rec, m, r)
  <2>1. /\ r.recv # None /\ r.recv.counter = m.counter + 1 /\ m.counter \in Nat
        /\ r.remote = m.ratchet /\ r.remote # None
    BY <1>5, OnChainFacts
  <2>2. ASSUME NEW k \in ToSet(r.skipped), k.ratchet = m.ratchet PROVE k.counter < m.counter + 1
    <3>1. k.counter \in Nat
      BY <1>2, SkippedTypes
    <3>2. CASE Stayed(rec, m, r)
      <4>1. /\ rec.recv # None /\ rec.remote = m.ratchet /\ rec.recv.counter <= m.counter
            /\ k \in ToSet(rec.skipped) \/ k.counter < m.counter
        BY <3>2 DEF Stayed
      <4>2. k \in ToSet(rec.skipped) => k.counter < rec.recv.counter
        BY <1>1, <2>2, <4>1 DEF Valid, ToSet
      <4>3. rec.recv.counter \in Nat
        BY <4>1 DEF Record, MessageChain
      <4>4. QED BY <2>1, <3>1, <4>1, <4>2, <4>3
    <3>3. CASE Moved(rec, m, r)
      <4>1. \/ k \in ToSet(rec.skipped)
            \/ rec.recv # None /\ k.ratchet = rec.remote
            \/ k.counter < m.counter
        BY <3>3 DEF Moved
      <4>2. k \notin ToSet(rec.skipped)
        <5>1. SUFFICES ASSUME k \in ToSet(rec.skipped) PROVE FALSE
          OBVIOUS
        <5>2. PICK n \in net : n.ratchet = k.ratchet /\ n.key = k.key
          BY <5>1 DEF SkippedOf
        <5>3. m.key = k.key
          BY <2>2, <5>2 DEF Paired
        <5>4. Len(k.key) <= Len(rec.root) /\ Len(k.key) \in Nat
          BY <5>1, SkippedFacts
        <5>5. Len(m.key) = Len(rec.root) + 1 /\ Len(rec.root) \in Nat
          BY <3>3, MovedFacts
        <5>6. QED BY <5>3, <5>4, <5>5
      <4>3. ~(rec.recv # None /\ k.ratchet = rec.remote)
        BY <2>2, <3>3 DEF Moved
      <4>4. QED BY <2>1, <3>1, <4>1, <4>2, <4>3
    <3>4. QED BY <1>5, <3>2, <3>3 DEF OnChain
  <2>3. QED BY <2>1, <2>2
<1>6. QED BY <1>2, <1>4, <1>5

-----------------------------------------------------------------------------
(* What a step does to the sessions and to what was accepted.              *)

Accepts(p, m, r) ==
  /\ m \in net /\ m.from = Peer(p)
  /\ session' = [session EXCEPT ![p] = r]
  /\ accepted' = accepted \cup {m} /\ twice' = twice \cup ({m} \cap accepted)
  /\ UNCHANGED <<keyCount, net>>

GoesOn(p, m, r) ==
  Accepts(p, m, r) /\ session[p] # None /\ Decrypts(session[p], m, r) /\ UNCHANGED preKeys

Begins(p, m, r) ==
  /\ Accepts(p, m, r) /\ BootstrapOK(p, m, r) /\ m.pre # None
  /\ m.pre.oneTime \in preKeys[p] \cup {None}
  /\ preKeys' = [preKeys EXCEPT ![p] = @ \ {m.pre.oneTime}]

LEMMA ReceiverSteps ==
  ASSUME SignalTypeOK, NEW t \in Receivers, ReceiverStep(t)
  PROVE  \/ UNCHANGED <<session, keyCount, net, preKeys, accepted, twice>>
         \/ \E p \in Parties, m \in Message, r \in Record : GoesOn(p, m, r) \/ Begins(p, m, r)
<1>0. PICK p \in Parties : p = t[1]
  BY SessionAssumption
<1>1. ASSUME NEW m \in net, m.from = Peer(p), DecryptWithSession(p, m)
      PROVE  \E n \in Message, r \in Record : GoesOn(p, n, r)
  <2>1. PICK r \in Record : Decrypts(session[p], m, r) /\ session' = [session EXCEPT ![p] = r]
    BY <1>1, DecryptEffect
  <2>2. /\ session[p] # None
        /\ accepted' = accepted \cup {m} /\ twice' = twice \cup ({m} \cap accepted)
        /\ UNCHANGED <<preKeys, keyCount, net>>
    BY <1>1, DecryptEffect
  <2>3. GoesOn(p, m, r)
    BY <1>1, <2>1, <2>2 DEF GoesOn, Accepts
  <2>4. QED BY <2>3 DEF SignalTypeOK
<1>2. CASE \E m \in net : ReceiveMessage(t, m)
  BY <1>0, <1>1, <1>2 DEF ReceiveMessage
<1>3. CASE \E m \in net : ReceivePreKey(t, m)
  BY <1>3 DEF ReceivePreKey, partyVars, netVars
<1>4. CASE RecogniseReplay(t)
  BY <1>4 DEF RecogniseReplay, partyVars, netVars
<1>5. CASE DecryptReplay(t)
  <2>1. PICK m \in net : m = incoming[t] /\ m.from = Peer(p)
    BY <1>0, <1>5 DEF DecryptReplay, SignalTypeOK
  <2>2. UNCHANGED <<partyVars, netVars>> \/ DecryptWithSession(p, m)
    BY <1>0, <1>5, <2>1 DEF DecryptReplay
  <2>3. QED BY <1>1, <2>1, <2>2 DEF partyVars, netVars
<1>6. CASE Bootstrap(t)
  <2>1. CASE UNCHANGED <<partyVars, netVars>>
    BY <2>1 DEF partyVars, netVars
  <2>2. CASE ~UNCHANGED <<partyVars, netVars>>
    <3>1. PICK m \in net : m = incoming[t] /\ m.from = Peer(p) /\ m.pre # None
      BY <1>0, <1>6, BootstrapEffect
    <3>2. PICK r \in Record : BootstrapOK(p, m, r) /\ session' = [session EXCEPT ![p] = r]
      BY <1>0, <1>6, <2>2, <3>1, BootstrapEffect
    <3>3. /\ m.pre.oneTime \in preKeys[p] \cup {None}
          /\ preKeys' = [preKeys EXCEPT ![p] = @ \ {m.pre.oneTime}]
          /\ accepted' = accepted \cup {m} /\ twice' = twice \cup ({m} \cap accepted)
          /\ UNCHANGED <<keyCount, net>>
      BY <1>0, <1>6, <2>2, <3>1, BootstrapEffect
    <3>4. Begins(p, m, r)
      BY <3>1, <3>2, <3>3 DEF Begins, Accepts
    <3>5. QED BY <1>0, <3>4 DEF SignalTypeOK
  <2>3. QED BY <2>1, <2>2
<1>7. QED BY <1>0, <1>2, <1>3, <1>4, <1>5, <1>6 DEF ReceiverStep

\* Every step does one of five things.
Sending(p, rec, m) ==
  SendsOn(p, rec, m) /\ (OldChain(p, rec) \/ NewChain(p, rec) \/ NewSession(p, rec))

LEMMA SignalSteps ==
  ASSUME SignalTypeOK, KeyInv, [Next]_vars
  PROVE  \/ UNCHANGED <<session, keyCount, net, preKeys, accepted, twice>>
         \/ \E p \in Parties : Drops(p)
         \/ \E p \in Parties, rec \in Record, m \in Message : Sending(p, rec, m)
         \/ \E p \in Parties, m \in Message, r \in Record : GoesOn(p, m, r) \/ Begins(p, m, r)
<1>1. CASE UNCHANGED vars
  BY <1>1 DEF vars, partyVars, netVars
<1>2. ASSUME NEW t \in Senders, SenderStep(t)
      PROVE  \/ UNCHANGED <<session, keyCount, net, preKeys, accepted, twice>>
             \/ \E p \in Parties : Drops(p)
             \/ \E p \in Parties, rec \in Record, m \in Message : Sending(p, rec, m)
  BY <1>2, SenderSteps DEF Sending
<1>3. ASSUME NEW t \in Receivers, ReceiverStep(t)
      PROVE  \/ UNCHANGED <<session, keyCount, net, preKeys, accepted, twice>>
             \/ \E p \in Parties, m \in Message, r \in Record : GoesOn(p, m, r) \/ Begins(p, m, r)
  BY <1>3, ReceiverSteps
<1>4. QED BY <1>1, <1>2, <1>3 DEF Next

\* After a send, the sender's record differs from rec in its sending counter.
LEMMA SendingFacts ==
  ASSUME SignalTypeOK, NEW p \in Parties, NEW rec, NEW m, Sending(p, rec, m)
  PROVE  /\ m \in Message /\ m.from = p /\ m.ratchet = rec.local /\ m.key = rec.send.key
         /\ net' = net \cup {m} /\ UNCHANGED <<preKeys, accepted, twice>>
         /\ session'[p] \in Record
         /\ session'[p].root = rec.root /\ session'[p].recv = rec.recv
         /\ session'[p].remote = rec.remote /\ session'[p].skipped = rec.skipped
         /\ session'[p].lost = rec.lost /\ session'[p].local = rec.local
         /\ session'[p].send.key = rec.send.key
         /\ \A q \in Parties : q # p => session'[q] = session[q]
<1>1. SendEffect(p, rec, m)
  BY DEF Sending, SendsOn
<1>2. PICK r : r = AfterSend(rec)
  OBVIOUS
<1>3. /\ rec \in Record /\ rec.send \in MessageChain
      /\ m \in Message /\ m.from = p /\ m.ratchet = rec.local
      /\ m.key = rec.send.key /\ net' = net \cup {m} /\ session' = [session EXCEPT ![p] = r]
      /\ UNCHANGED <<preKeys, accepted, twice>>
  BY <1>1, <1>2 DEF SendEffect
<1>4. /\ r \in Record /\ r.root = rec.root /\ r.recv = rec.recv /\ r.remote = rec.remote
      /\ r.local = rec.local /\ r.skipped = rec.skipped /\ r.lost = rec.lost
      /\ r.send.key = rec.send.key /\ r.send # Uninitialized
  BY <1>2, <1>3, AfterSendFacts
<1>5. session'[p] = r /\ \A q \in Parties : q # p => session'[q] = session[q]
  BY <1>3 DEF SignalTypeOK
<1>6. QED BY <1>3, <1>4, <1>5

\* A party whose session goes on has a message's key under it.
LEMMA GoesOnFacts ==
  ASSUME SignalTypeOK, KeyInv, NEW p \in Parties, NEW m, NEW r, GoesOn(p, m, r)
  PROVE  /\ m \in net /\ m \in Message /\ m.from = Peer(p) /\ m.from # p
         /\ session[p] # None /\ session[p] \in Record
         /\ OwnKeys(p, session[p]) /\ Decrypts(session[p], m, r) /\ r \in Record /\ OwnKeys(p, r)
         /\ r.root[1] = session[p].root[1]
         /\ session'[p] = r /\ \A q \in Parties : q # p => session'[q] = session[q]
         /\ accepted' = accepted \cup {m} /\ twice' = twice \cup ({m} \cap accepted)
         /\ UNCHANGED <<preKeys, keyCount, net>>
<1>1. /\ m \in net /\ m.from = Peer(p) /\ session' = [session EXCEPT ![p] = r]
      /\ session[p] # None /\ Decrypts(session[p], m, r)
      /\ accepted' = accepted \cup {m} /\ twice' = twice \cup ({m} \cap accepted)
      /\ UNCHANGED <<preKeys, keyCount, net>>
  BY DEF GoesOn, Accepts
<1>2. PICK rec : rec = session[p]
  OBVIOUS
<1>3. OwnKeys(p, rec) /\ Decrypts(rec, m, r)
  BY <1>1, <1>2 DEF KeyInv, SessionKeys
<1>4. OwnKeys(p, r) /\ r.root[1] = rec.root[1]
  BY <1>1, <1>3, DecryptKeys
<1>5. r \in Record /\ rec \in Record
  BY <1>3 DEF Decrypts
<1>6. m.from # p /\ m \in Message
  BY <1>1, PeerFacts DEF SignalTypeOK
<1>7. session'[p] = r /\ \A q \in Parties : q # p => session'[q] = session[q]
  BY <1>1 DEF SignalTypeOK
<1>8. QED BY <1>1, <1>2, <1>3, <1>4, <1>5, <1>6, <1>7

LEMMA BeginsFacts ==
  ASSUME SignalTypeOK, KeyInv, NEW p \in Parties, NEW m, NEW r, Begins(p, m, r)
  PROVE  /\ m \in net /\ m \in Message /\ m.from = Peer(p) /\ m.from # p /\ BootstrapOK(p, m, r)
         /\ OwnKeys(p, r) /\ m.pre # None /\ m.pre.oneTime \in preKeys[p] \cup {None}
         /\ m.pre.oneTime = m.key[1].oneTime /\ m.pre.base = m.key[1].base
         /\ m.key[1].base[1] = m.from
         /\ session'[p] = r /\ \A q \in Parties : q # p => session'[q] = session[q]
         /\ preKeys' = [preKeys EXCEPT ![p] = @ \ {m.pre.oneTime}]
         /\ accepted' = accepted \cup {m} /\ twice' = twice \cup ({m} \cap accepted)
         /\ UNCHANGED <<keyCount, net>>
<1>1. /\ m \in net /\ m.from = Peer(p) /\ session' = [session EXCEPT ![p] = r]
      /\ BootstrapOK(p, m, r) /\ m.pre # None /\ m.pre.oneTime \in preKeys[p] \cup {None}
      /\ preKeys' = [preKeys EXCEPT ![p] = @ \ {m.pre.oneTime}]
      /\ accepted' = accepted \cup {m} /\ twice' = twice \cup ({m} \cap accepted)
      /\ UNCHANGED <<keyCount, net>>
  BY DEF Begins, Accepts
<1>2. OwnKeys(p, r)
  BY <1>1, BootstrapKeys
<1>3. m.pre = [base |-> m.key[1].base, oneTime |-> m.key[1].oneTime] /\ m.key[1].base[1] = m.from
  BY <1>1 DEF KeyInv, MessageKeys
<1>4. m.from # p /\ m \in Message
  BY <1>1, PeerFacts DEF SignalTypeOK
<1>5. session'[p] = r /\ \A q \in Parties : q # p => session'[q] = session[q]
  BY <1>1 DEF SignalTypeOK
<1>6. QED BY <1>1, <1>2, <1>3, <1>4, <1>5

-----------------------------------------------------------------------------
(* Validation, continued: skipped keys stay in order.                      *)

\* No ratchet key of a message is yet to be generated, nor another party's.
LEMMA PairedSend ==
  ASSUME SignalTypeOK, KeyInv, Paired, NEW p \in Parties, NEW rec, NEW m, Sending(p, rec, m)
  PROVE  Paired'
<1>1. /\ m \in Message /\ m.from = p /\ m.ratchet = rec.local /\ m.key = rec.send.key
      /\ net' = net \cup {m}
      /\ session'[p].local = rec.local /\ session'[p].send.key = rec.send.key
      /\ \A q \in Parties : q # p => session'[q] = session[q]
  BY SendingFacts
<1>2. \A n \in net : n.ratchet = m.ratchet => n.key = m.key
  <2>1. CASE OldChain(p, rec)
    BY <1>1, <2>1 DEF OldChain, Paired, Sends
  <2>2. CASE ~Known(rec.local)
    BY <1>1, <2>2 DEF KeyInv, MessageKeys
  <2>3. QED BY <2>1, <2>2 DEF Sending, NewChain, NewSession
<1>3. ASSUME NEW q \in Parties, q # p, Sends(q)'
      PROVE  \A n \in net' : n.ratchet = session'[q].local => n.key = session'[q].send.key
  <2>1. session'[q] = session[q] /\ Sends(q)
    BY <1>1, <1>3 DEF Sends
  <2>2. session[q].local[1] = q
    BY <2>1 DEF KeyInv, SessionKeys, OwnKeys, Sends
  <2>3. rec.local[1] = p
    BY DEF Sending, SendsOn, OwnKeys
  <2>4. QED BY <1>1, <1>3, <2>1, <2>2, <2>3 DEF Paired
<1>4. \A n \in net' : n.ratchet = session'[p].local => n.key = session'[p].send.key
  BY <1>1, <1>2
<1>5. \A n1, n2 \in net' : n1.ratchet = n2.ratchet => n1.key = n2.key
  BY <1>1, <1>2 DEF Paired
<1>6. QED BY <1>3, <1>4, <1>5 DEF Paired

LEMMA PairedReceive ==
  ASSUME Paired, net' = net,
         \A p \in Parties : Sends(p)' =>
           Sends(p) /\ session'[p].send = session[p].send /\ session'[p].local = session[p].local
  PROVE  Paired'
BY DEF Paired

LEMMA SkippedStays ==
  ASSUME NEW x, NEW y, SkippedOf(x), net \subseteq net', y.skipped = x.skipped,
         y.root[1] = x.root[1], y.recv = x.recv, y.remote = x.remote
  PROVE  SkippedOf(y)'
<1>1. \A n : n \in net => n \in net'
  OBVIOUS
<1>2. QED BY <1>1 DEF SkippedOf

LEMMA SkippedStep ==
  ASSUME SignalTypeOK, KeyInv, SkippedInv, [Next]_vars
  PROVE  SkippedInv'
<1>1. Paired /\ \A q \in Parties : session[q] # None => SkippedOf(session[q])
  BY DEF SkippedInv
<1>2. CASE UNCHANGED <<session, keyCount, net, preKeys, accepted, twice>>
  BY <1>1, <1>2 DEF SkippedInv, Paired, Sends, SkippedOf
<1>3. ASSUME NEW p \in Parties, Drops(p) PROVE SkippedInv'
  <2>1. /\ session'[p] = None /\ net' = net
        /\ \A q \in Parties : q # p => session'[q] = session[q]
    BY <1>3 DEF Drops, SignalTypeOK
  <2>2. Paired'
    BY <1>1, <2>1, PairedReceive DEF Sends
  <2>3. QED BY <1>1, <2>1, <2>2 DEF SkippedInv, SkippedOf
<1>4. ASSUME NEW p \in Parties, NEW rec, NEW m, Sending(p, rec, m) PROVE SkippedInv'
  <2>1. /\ net \subseteq net' /\ session'[p].root = rec.root /\ session'[p].recv = rec.recv
        /\ session'[p].remote = rec.remote /\ session'[p].skipped = rec.skipped
        /\ \A q \in Parties : q # p => session'[q] = session[q]
    BY <1>4, SendingFacts
  <2>2. PICK r : r = session'[p]
    OBVIOUS
  <2>3. SkippedOf(r)'
    <3>1. CASE OldChain(p, rec) \/ NewChain(p, rec)
      <4>1. PICK old : old = session[p] /\ session[p] # None
        BY <3>1 DEF OldChain, NewChain
      <4>2. SkippedOf(old)
        BY <1>1, <4>1
      <4>3. rec.root[1] = old.root[1] /\ rec.recv = old.recv /\ rec.remote = old.remote
            /\ rec.skipped = old.skipped
        BY <3>1, <4>1 DEF OldChain, NewChain
      <4>4. QED BY <2>1, <2>2, <4>2, <4>3, SkippedStays
    <3>2. CASE NewSession(p, rec)
      BY <2>1, <2>2, <3>2 DEF NewSession, SkippedOf, ToSet
    <3>3. QED BY <1>4, <3>1, <3>2 DEF Sending
  <2>4. ASSUME NEW q \in Parties, session'[q] # None PROVE SkippedOf(session[q])'
    <3>1. CASE q = p
      BY <2>2, <2>3, <3>1
    <3>2. CASE q # p
      <4>1. PICK x : x = session[q] /\ x = session'[q]
        BY <2>1, <3>2
      <4>2. SkippedOf(x)
        BY <1>1, <2>4, <4>1
      <4>3. SkippedOf(x)'
        BY <2>1, <4>2, SkippedStays
      <4>4. QED BY <4>1, <4>3
    <3>3. QED BY <3>1, <3>2
  <2>5. Paired'
    BY <1>1, <1>4, PairedSend
  <2>6. QED BY <2>4, <2>5 DEF SkippedInv
<1>5. ASSUME NEW p \in Parties, NEW m, NEW r, net' = net, session'[p] = r, SkippedOf(r),
             \A q \in Parties : q # p => session'[q] = session[q],
             \/ r.send = Uninitialized
             \/ session[p] # None /\ r.send = session[p].send /\ r.local = session[p].local
      PROVE  SkippedInv'
  <2>1. Paired'
    BY <1>1, <1>5, PairedReceive DEF Sends
  <2>2. \A x : SkippedOf(x)' = SkippedOf(x)
    BY <1>5 DEF SkippedOf
  <2>3. \A q \in Parties : session'[q] # None => SkippedOf(session[q])'
    BY <1>1, <1>5, <2>2
  <2>4. QED BY <2>1, <2>3 DEF SkippedInv
<1>6. ASSUME NEW p \in Parties, NEW m, NEW r, GoesOn(p, m, r) PROVE SkippedInv'
  <2>1. PICK rec : rec = session[p]
    OBVIOUS
  <2>2. /\ m \in net /\ OwnKeys(p, rec) /\ Decrypts(rec, m, r) /\ rec # None
        /\ session'[p] = r /\ net' = net /\ \A q \in Parties : q # p => session'[q] = session[q]
    BY <1>6, <2>1, GoesOnFacts
  <2>3. SkippedOf(rec)
    BY <1>1, <2>1, <2>2
  <2>4. SkippedOf(r) /\ r.local = rec.local
    BY <2>2, <2>3, DecryptSkipped
  <2>5. r.send = Uninitialized \/ r.send = rec.send
    BY <2>2, DecryptKeys
  <2>6. QED BY <1>5, <2>1, <2>2, <2>4, <2>5
<1>7. ASSUME NEW p \in Parties, NEW m, NEW r, Begins(p, m, r) PROVE SkippedInv'
  <2>1. /\ m \in net /\ BootstrapOK(p, m, r)
        /\ session'[p] = r /\ net' = net /\ \A q \in Parties : q # p => session'[q] = session[q]
    BY <1>7, BeginsFacts
  <2>2. SkippedOf(r) /\ r.send = Uninitialized
    BY <2>1, BootstrapSkipped DEF BootstrapOK
  <2>3. QED BY <1>5, <2>1, <2>2
<1>8. QED BY <1>2, <1>3, <1>4, <1>6, <1>7, SignalSteps

THEOREM SkippedAlways == Spec => []SkippedInv
<1>1. Init => SkippedInv
  BY DEF Init, SkippedInv, Paired, Sends
<1>2. SignalTypeOK /\ KeyInv /\ SkippedInv /\ [Next]_vars => SkippedInv'
  BY SkippedStep
<1>3. QED BY <1>1, <1>2, SignalKeysAlways, PTL DEF Spec

(* Whatever message arrives in whatever order, the record it decrypts to    *)
(* passes validate_signal_provider_session_record: a stored key of the      *)
(* ratchet key the record moves to would belong to a chain that is older    *)
(* than the record's own.                                                   *)
THEOREM ValidationNeverRefusesAlways == Spec => []ValidationNeverRefuses
<1>1. SignalTypeOK /\ KeyInv /\ SkippedInv => ValidationNeverRefuses
  <2>1. SUFFICES ASSUME SignalTypeOK, KeyInv, SkippedInv, NEW m \in net,
                        session[Peer(m.from)] # None, Advance(session[Peer(m.from)], m) # None
                 PROVE  Valid(Advance(session[Peer(m.from)], m))
    BY DEF ValidationNeverRefuses
  <2>2. PICK p \in Parties : p = Peer(m.from)
    <3>1. m.from \in Parties
      BY <2>1 DEF SignalTypeOK, Message
    <3>2. QED BY <3>1, PeerFacts
  <2>3. PICK rec : rec = session[p]
    OBVIOUS
  <2>4. PICK r : r = Advance(rec, m)
    OBVIOUS
  <2>5. rec \in Record /\ OwnKeys(p, rec) /\ SkippedOf(rec) /\ Paired /\ r # None
    BY <2>1, <2>2, <2>3, <2>4 DEF SignalTypeOK, KeyInv, SessionKeys, SkippedInv
  <2>6. Valid(r)
    BY <2>1, <2>4, <2>5, AdvanceValid
  <2>7. QED BY <2>2, <2>3, <2>4, <2>6
<1>2. QED BY <1>1, SignalKeysAlways, SkippedAlways, PTL

-----------------------------------------------------------------------------
(* One-time pre-keys.                                                      *)

\* A message verifies only in the session it was sent in.
LEMMA DecryptsOwn ==
  ASSUME SignalTypeOK, NEW p \in Parties, NEW m \in net, NEW rec, OwnKeys(p, rec),
         SkippedOf(rec), NEW r, Decrypts(rec, m, r)
  PROVE  m.key[1] = rec.root[1]
<1>1. rec \in Record /\ (Taken(rec, m, r) \/ OnChain(rec, m, r))
  BY DEF Decrypts
<1>2. CASE Taken(rec, m, r)
  <2>1. PICK k \in ToSet(rec.skipped) : k.key = m.key
    BY <1>1, <1>2, TakenFacts
  <2>2. QED BY <2>1 DEF SkippedOf
<1>3. CASE Stayed(rec, m, r)
  BY <1>3 DEF Stayed, OwnKeys
<1>4. CASE Moved(rec, m, r)
  BY <1>1, <1>4, MovedFacts
<1>5. QED BY <1>1, <1>2, <1>3, <1>4 DEF OnChain

\* The other party is the one that sent the messages a party is given.
LEMMA OtherParty ==
  ASSUME NEW p \in Parties, NEW q \in Parties, q # p
  PROVE  Peer(q) = p /\ q = Peer(p)
BY PeerFacts

\* The header of a message names the agreement its key begins with.
LEMMA HeaderFacts ==
  ASSUME MessageKeys, NEW m \in net, m.pre # None
  PROVE  /\ m.pre.base = m.key[1].base /\ m.pre.oneTime = m.key[1].oneTime
         /\ m.key[1].base[1] = m.from
<1>1. m.pre = [base |-> m.key[1].base, oneTime |-> m.key[1].oneTime] /\ m.key[1].base[1] = m.from
  BY DEF MessageKeys
<1>2. QED BY <1>1

LEMMA PreKeyStep ==
  ASSUME SignalTypeOK, KeyInv, SkippedInv, PreKeyInv, [Next]_vars
  PROVE  PreKeyInv'
<1>0. Consumed /\ SetUp /\ PreKeyUsedOnce
  BY DEF PreKeyInv
<1>1. \A m : OneTime(m)' = OneTime(m)
  BY DEF OneTime, SessionOf
<1>2. \A m \in net : OneTime(m) = (m.key[1].oneTime # None) /\ m.from \in Parties
  BY DEF OneTime, SessionOf, SignalTypeOK, Message
<1>3. ASSUME NEW m \in accepted, m.pre # None
      PROVE  m.pre.base = m.key[1].base /\ m.pre.oneTime = m.key[1].oneTime
             /\ m.key[1].base[1] = m.from /\ m \in net
  <2>1. m \in net /\ MessageKeys
    BY DEF SignalTypeOK, KeyInv
  <2>2. QED BY <1>3, <2>1, HeaderFacts
<1>4. CASE UNCHANGED <<session, keyCount, net, preKeys, accepted, twice>>
  BY <1>0, <1>1, <1>4 DEF PreKeyInv, Consumed, SetUp, PreKeyUsedOnce
<1>5. ASSUME UNCHANGED <<preKeys, accepted>>,
             \A q \in Parties :
               session'[q] # None /\ session'[q].root[1].base[1] # q
               => session[q] # None /\ session'[q].root[1] = session[q].root[1]
      PROVE  PreKeyInv'
  <2>1. Consumed' /\ PreKeyUsedOnce'
    BY <1>0, <1>1, <1>5 DEF Consumed, PreKeyUsedOnce
  <2>2. SetUp'
    BY <1>0, <1>5 DEF SetUp
  <2>3. QED BY <2>1, <2>2 DEF PreKeyInv
<1>6. ASSUME NEW p \in Parties, Drops(p) PROVE PreKeyInv'
  BY <1>5, <1>6 DEF Drops, SignalTypeOK
<1>7. ASSUME NEW p \in Parties, NEW rec, NEW m, Sending(p, rec, m) PROVE PreKeyInv'
  <2>1. /\ UNCHANGED <<preKeys, accepted>> /\ session'[p].root = rec.root
        /\ \A q \in Parties : q # p => session'[q] = session[q]
    BY <1>7, SendingFacts
  <2>2. \/ session[p] # None /\ rec.root[1] = session[p].root[1]
        \/ rec.root[1].base[1] = p
    BY <1>7 DEF Sending, OldChain, NewChain, NewSession
  <2>3. QED BY <1>5, <2>1, <2>2
<1>8. ASSUME NEW p \in Parties, NEW m, NEW r, GoesOn(p, m, r) PROVE PreKeyInv'
  <2>1. PICK rec : rec = session[p]
    OBVIOUS
  <2>2. /\ m \in net /\ m.from = Peer(p) /\ m.from # p /\ rec # None
        /\ OwnKeys(p, rec) /\ Decrypts(rec, m, r) /\ r.root[1] = rec.root[1]
        /\ session'[p] = r /\ \A q \in Parties : q # p => session'[q] = session[q]
        /\ accepted' = accepted \cup {m} /\ UNCHANGED preKeys
    BY <1>8, <2>1, GoesOnFacts
  <2>3. m.key[1] = rec.root[1]
    BY <2>1, <2>2, DecryptsOwn DEF SkippedInv
  <2>4. SetUp'
    BY <1>0, <2>1, <2>2 DEF SetUp
  <2>5. ASSUME OneTime(m), m.key[1].base[1] # p
        PROVE  \E m0 \in accepted : m0.from = m.from /\ m0.pre # None /\ m0.key[1] = m.key[1]
    <3>1. m.key[1].oneTime # None
      BY <1>2, <2>2, <2>5
    <3>2. PICK m0 \in accepted : m0.from # p /\ m0.pre # None /\ m0.key[1] = rec.root[1]
      BY <1>0, <2>1, <2>2, <2>3, <2>5, <3>1 DEF SetUp
    <3>3. m0.from \in Parties
      BY <1>2, <1>3, <3>2
    <3>4. m0.from = m.from
      BY <2>2, <3>2, <3>3, OtherParty
    <3>5. QED BY <2>3, <3>2, <3>4
  <2>6. Consumed'
    <3>1. ASSUME OneTime(m), m.key[1].base[1] = m.from
          PROVE  m.key[1].oneTime \notin preKeys[Peer(m.from)]
      <4>1. PICK m0 \in accepted : m0.from = m.from /\ m0.pre # None /\ m0.key[1] = m.key[1]
        BY <2>2, <2>5, <3>1
      <4>2. OneTime(m0)
        BY <1>2, <1>3, <2>2, <3>1, <4>1
      <4>3. QED BY <1>0, <3>1, <4>1, <4>2 DEF Consumed
    <3>2. QED BY <1>0, <1>1, <2>2, <3>1 DEF Consumed
  <2>7. PreKeyUsedOnce'
    <3>1. ASSUME OneTime(m), m.pre # None
          PROVE  \E m0 \in accepted : /\ m0.from = m.from /\ m0.pre # None /\ OneTime(m0)
                                      /\ m0.pre.oneTime = m.pre.oneTime /\ m0.pre.base = m.pre.base
      <4>1. m.pre.base = m.key[1].base /\ m.pre.oneTime = m.key[1].oneTime
            /\ m.key[1].base[1] = m.from
        BY <2>2, <3>1, HeaderFacts DEF KeyInv
      <4>2. PICK m0 \in accepted : m0.from = m.from /\ m0.pre # None /\ m0.key[1] = m.key[1]
        BY <2>2, <2>5, <3>1, <4>1
      <4>3. OneTime(m0)
        BY <1>2, <1>3, <2>2, <3>1, <4>2
      <4>4. QED BY <1>3, <4>1, <4>2, <4>3
    <3>2. ASSUME NEW m1 \in accepted, m1.pre # None, m.pre # None, m1.from = m.from,
                 m1.pre.oneTime = m.pre.oneTime, OneTime(m) \/ OneTime(m1)
          PROVE  m1.pre.base = m.pre.base
      <4>1. OneTime(m) /\ OneTime(m1)
        <5>1. m1 \in net /\ m1.pre.oneTime = m1.key[1].oneTime
          BY <1>3, <3>2
        <5>2. m.pre.oneTime = m.key[1].oneTime
          BY <2>2, <3>2, HeaderFacts DEF KeyInv
        <5>3. QED BY <1>2, <2>2, <3>2, <5>1, <5>2
      <4>2. PICK m0 \in accepted : /\ m0.from = m.from /\ m0.pre # None /\ OneTime(m0)
                                   /\ m0.pre.oneTime = m.pre.oneTime /\ m0.pre.base = m.pre.base
        BY <3>1, <3>2, <4>1
      <4>3. m0.pre.base = m1.pre.base
        BY <1>0, <3>2, <4>1, <4>2 DEF PreKeyUsedOnce
      <4>4. QED BY <4>2, <4>3
    <3>3. QED BY <1>0, <1>1, <2>2, <3>2 DEF PreKeyUsedOnce
  <2>8. QED BY <2>4, <2>6, <2>7 DEF PreKeyInv
<1>9. ASSUME NEW p \in Parties, NEW m, NEW r, Begins(p, m, r) PROVE PreKeyInv'
  <2>1. /\ m \in net /\ m.from = Peer(p) /\ m.from # p /\ BootstrapOK(p, m, r)
        /\ m.pre # None /\ m.pre.oneTime \in preKeys[p] \cup {None}
        /\ m.pre.oneTime = m.key[1].oneTime /\ m.key[1].base[1] = m.from
        /\ session'[p] = r /\ \A q \in Parties : q # p => session'[q] = session[q]
        /\ preKeys' = [preKeys EXCEPT ![p] = @ \ {m.pre.oneTime}]
        /\ accepted' = accepted \cup {m}
    BY <1>9, BeginsFacts
  <2>2. \A q \in Parties : preKeys'[q] \subseteq preKeys[q]
        /\ (q = p => m.key[1].oneTime \notin preKeys'[q])
    BY <2>1 DEF SignalTypeOK
  <2>3. Peer(m.from) = p
    BY <1>2, <2>1, OtherParty
  <2>4. \A n \in accepted : Peer(n.from) \in Parties
    BY <1>2, PeerFacts DEF SignalTypeOK
  <2>5. Consumed'
    BY <1>0, <1>1, <2>1, <2>2, <2>3, <2>4 DEF Consumed
  <2>6. SetUp'
    <3>1. r.root = m.key
      BY <2>1 DEF BootstrapOK
    <3>2. QED BY <1>0, <2>1, <3>1 DEF SetUp
  <2>7. ASSUME NEW m1 \in accepted, m1.pre # None, m1.from = m.from,
               m1.pre.oneTime = m.pre.oneTime, OneTime(m) \/ OneTime(m1)
        PROVE  FALSE
    <3>1. m1 \in net /\ m1.pre.oneTime = m1.key[1].oneTime /\ m1.key[1].base[1] = m1.from
      BY <1>3, <2>7
    <3>2. OneTime(m) /\ OneTime(m1)
      BY <1>2, <2>1, <2>7, <3>1
    <3>3. m1.key[1].oneTime \notin preKeys[p]
      BY <1>0, <2>3, <2>7, <3>1, <3>2 DEF Consumed
    <3>4. m.key[1].oneTime # None
      BY <1>2, <2>1, <3>2
    <3>5. QED BY <2>1, <2>7, <3>1, <3>3, <3>4
  <2>8. PreKeyUsedOnce'
    BY <1>0, <1>1, <2>1, <2>7 DEF PreKeyUsedOnce
  <2>9. QED BY <2>5, <2>6, <2>8 DEF PreKeyInv
<1>10. QED BY <1>4, <1>6, <1>7, <1>8, <1>9, SignalSteps

(* store_inbound_pre_key_session_records removes a one-time pre-key in the  *)
(* transaction that stores the session, so that no second session is set up *)
(* with it, however often a first message comes and whichever comes.        *)
THEOREM PreKeysAlways == Spec => []PreKeyInv
<1>1. Init => PreKeyInv
  BY DEF Init, PreKeyInv, Consumed, SetUp, PreKeyUsedOnce
<1>2. SignalTypeOK /\ KeyInv /\ SkippedInv /\ PreKeyInv /\ [Next]_vars => PreKeyInv'
  BY PreKeyStep
<1>3. QED BY <1>1, <1>2, SignalKeysAlways, SkippedAlways, PTL DEF Spec

(* Two first messages of one sender that name the same one-time pre-key are *)
(* only both accepted when they are of the same session.                    *)
THEOREM PreKeyUsedOnceAlways == Spec => []PreKeyUsedOnce
<1>1. PreKeyInv => PreKeyUsedOnce
  BY DEF PreKeyInv
<1>2. QED BY <1>1, PreKeysAlways, PTL

-----------------------------------------------------------------------------
(* Messages are decrypted once.                                            *)

\* What was behind the record stays behind it.
LEMMA BehindStays ==
  ASSUME SignalTypeOK, NEW p \in Parties, NEW m \in net, NEW rec, OwnKeys(p, rec), SkippedOf(rec),
         NEW r, Decrypts(rec, m, r), NEW n \in net, Behind(rec, n)
  PROVE  Behind(r, n)
<1>1. /\ rec \in Record /\ Valid(rec) /\ m \in Message /\ r \in Record
      /\ Taken(rec, m, r) \/ OnChain(rec, m, r)
  BY DEF Decrypts, SignalTypeOK
<1>2. /\ rec.recv # None /\ Len(n.key) <= Len(rec.recv.key)
      /\ n.key = rec.recv.key => n.counter < rec.recv.counter
      /\ \A k \in ToSet(rec.skipped) : ~(SameKey(k, n) /\ k.key = n.key)
  BY DEF Behind
<1>3. n.counter \in Nat /\ Len(n.key) \in Nat
  BY DEF SignalTypeOK, Message, RootKey
<1>4. rec.recv \in MessageChain
  BY <1>1, <1>2 DEF Record
<1>5. rec.recv.counter \in Nat /\ Len(rec.recv.key) \in Nat
  BY <1>4 DEF MessageChain, RootKey
<1>6. CASE Taken(rec, m, r)
  <2>1. r.recv = rec.recv /\ ToSet(r.skipped) \subseteq ToSet(rec.skipped)
    BY <1>1, <1>6, TakenStays
  <2>2. QED BY <1>2, <2>1 DEF Behind
<1>7. CASE OnChain(rec, m, r)
  <2>1. r.recv # None /\ r.recv.key = m.key /\ r.recv.counter = m.counter + 1 /\ m.counter \in Nat
    BY <1>7, OnChainFacts
  <2>2. CASE Stayed(rec, m, r)
    <3>1. /\ m.key = rec.recv.key /\ rec.recv.counter <= m.counter
          /\ \A k \in ToSet(r.skipped) :
               \/ k \in ToSet(rec.skipped)
               \/ k.key = m.key /\ rec.recv.counter <= k.counter
      BY <2>2 DEF Stayed
    <3>2. n.key = m.key => n.counter < m.counter + 1
      BY <1>2, <1>3, <1>5, <2>1, <3>1
    <3>3. ASSUME NEW k \in ToSet(r.skipped), SameKey(k, n), k.key = n.key PROVE FALSE
      <4>1. k.counter = n.counter
        BY <3>3 DEF SameKey
      <4>2. QED BY <1>2, <1>3, <1>5, <3>1, <3>3, <4>1
    <3>4. QED BY <1>2, <2>1, <3>1, <3>2, <3>3 DEF Behind
  <2>3. CASE Moved(rec, m, r)
    <3>1. Len(m.key) = Len(rec.root) + 1 /\ Len(rec.root) \in Nat
      BY <1>1, <2>3, MovedFacts
    <3>2. Len(rec.recv.key) <= Len(rec.root)
      BY <1>2 DEF OwnKeys
    <3>3. Len(n.key) <= Len(m.key) /\ n.key # m.key
      BY <1>2, <1>3, <1>5, <3>1, <3>2
    <3>4. \A k \in ToSet(r.skipped) :
            \/ k \in ToSet(rec.skipped)
            \/ k.key = rec.recv.key /\ rec.recv.counter <= k.counter
            \/ k.key = m.key
      BY <2>3 DEF Moved
    <3>5. ASSUME NEW k \in ToSet(r.skipped), SameKey(k, n), k.key = n.key PROVE FALSE
      <4>1. k.counter = n.counter
        BY <3>5 DEF SameKey
      <4>2. QED BY <1>2, <1>3, <1>5, <3>3, <3>4, <3>5, <4>1
    <3>6. QED BY <2>1, <3>3, <3>5 DEF Behind
  <2>4. QED BY <1>7, <2>2, <2>3 DEF OnChain
<1>8. QED BY <1>1, <1>6, <1>7

\* A message that has been decrypted is behind the record, and was not before.
LEMMA BehindNow ==
  ASSUME SignalTypeOK, NEW p \in Parties, NEW m \in net, NEW rec, OwnKeys(p, rec), SkippedOf(rec),
         NEW r, Decrypts(rec, m, r)
  PROVE  Behind(r, m) /\ ~Behind(rec, m)
<1>1. /\ rec \in Record /\ Valid(rec) /\ m \in Message /\ r \in Record /\ InOrder(rec.skipped)
      /\ Taken(rec, m, r) \/ OnChain(rec, m, r)
  BY DEF Decrypts, SignalTypeOK, Valid, InOrder
<1>2. m.counter \in Nat /\ Len(m.key) \in Nat
  BY DEF SignalTypeOK, Message, RootKey
<1>3. CASE Taken(rec, m, r)
  <2>1. r.recv = rec.recv
    BY <1>1, <1>3, TakenStays
  <2>2. \A k \in ToSet(r.skipped) : ~SameKey(k, m)
    BY <1>1, <1>3, TakenFacts
  <2>3. PICK k \in ToSet(rec.skipped) : SameKey(k, m) /\ k.key = m.key
    BY <1>1, <1>3, TakenFacts
  <2>4. rec.recv # None /\ Len(m.key) <= Len(rec.recv.key)
    BY <1>1, <2>3, SkippedFacts
  <2>5. m.key = rec.recv.key => m.counter < rec.recv.counter
    BY <2>3, <2>4 DEF SkippedOf, SameKey
  <2>6. QED BY <2>1, <2>2, <2>3, <2>4, <2>5 DEF Behind
<1>4. CASE OnChain(rec, m, r)
  <2>1. r.recv # None /\ r.recv.key = m.key /\ r.recv.counter = m.counter + 1
    BY <1>4, OnChainFacts
  <2>2. \A k \in ToSet(rec.skipped) : ~SameKey(k, m)
    BY <1>4 DEF OnChain
  <2>3. CASE Stayed(rec, m, r)
    <3>1. /\ rec.recv # None /\ m.key = rec.recv.key /\ rec.recv.counter <= m.counter
          /\ \A k \in ToSet(r.skipped) : k \in ToSet(rec.skipped) \/ k.counter < m.counter
      BY <2>3 DEF Stayed
    <3>2. rec.recv.counter \in Nat
      BY <1>1, <3>1 DEF Record, MessageChain
    <3>3. ~Behind(rec, m)
      BY <1>2, <3>1, <3>2 DEF Behind
    <3>4. \A k \in ToSet(r.skipped) : ~SameKey(k, m)
      BY <1>2, <2>2, <3>1 DEF SameKey
    <3>5. QED BY <1>2, <2>1, <3>3, <3>4 DEF Behind
  <2>4. CASE Moved(rec, m, r)
    <3>1. Len(m.key) = Len(rec.root) + 1 /\ Len(rec.root) \in Nat
      BY <1>1, <2>4, MovedFacts
    <3>2. ASSUME rec.recv # None PROVE Len(rec.recv.key) < Len(m.key)
      <4>1. rec.recv \in MessageChain
        BY <1>1, <3>2 DEF Record
      <4>2. Len(rec.recv.key) \in Nat /\ Len(rec.recv.key) <= Len(rec.root)
        BY <3>2, <4>1 DEF MessageChain, RootKey, OwnKeys
      <4>3. QED BY <3>1, <4>2
    <3>3. ~Behind(rec, m)
      <4>1. SUFFICES ASSUME Behind(rec, m) PROVE FALSE
        OBVIOUS
      <4>2. rec.recv # None /\ Len(m.key) <= Len(rec.recv.key)
        BY <4>1 DEF Behind
      <4>3. rec.recv \in MessageChain
        BY <1>1, <4>2 DEF Record
      <4>4. Len(rec.recv.key) \in Nat
        BY <4>3 DEF MessageChain, RootKey
      <4>5. QED BY <1>2, <3>2, <4>2, <4>4
    <3>4. \A k \in ToSet(r.skipped) :
            \/ k \in ToSet(rec.skipped)
            \/ rec.recv # None /\ k.key = rec.recv.key
            \/ k.counter < m.counter
      BY <2>4 DEF Moved
    <3>5. ASSUME NEW k \in ToSet(r.skipped), SameKey(k, m), k.key = m.key PROVE FALSE
      <4>1. k.counter = m.counter
        BY <3>5 DEF SameKey
      <4>2. rec.recv # None /\ m.key = rec.recv.key
        BY <1>2, <2>2, <3>4, <3>5, <4>1
      <4>3. Len(m.key) < Len(m.key)
        BY <3>2, <4>2
      <4>4. QED BY <1>2, <4>3
    <3>6. QED BY <1>2, <2>1, <3>3, <3>5 DEF Behind
  <2>5. QED BY <1>4, <2>3, <2>4 DEF OnChain
<1>5. QED BY <1>1, <1>3, <1>4

\* The message that sets up a session is behind it.
LEMMA BehindFirst ==
  ASSUME SignalTypeOK, NEW p \in Parties, NEW m \in net, NEW r, BootstrapOK(p, m, r)
  PROVE  Behind(r, m)
<1>1. m.counter \in Nat /\ Len(m.key) \in Nat
  BY DEF SignalTypeOK, Message, RootKey
<1>2. /\ r.recv # None /\ r.recv.key = m.key /\ r.recv.counter = m.counter + 1
      /\ \A k \in ToSet(r.skipped) : k.counter < m.counter
  BY DEF BootstrapOK
<1>3. QED BY <1>1, <1>2 DEF Behind, SameKey

LEMMA SpentStep ==
  ASSUME SignalTypeOK, KeyInv, SkippedInv, PreKeyInv, Spent, AtMostOnce, [Next]_vars
  PROVE  Spent' /\ AtMostOnce'
<1>1. \A m : OneTime(m)' = OneTime(m)
  BY DEF OneTime, SessionOf
<1>2. \A m \in net : (OneTime(m) = (m.key[1].oneTime # None)) /\ m.from \in Parties
                     /\ m.key[1] \in Agreement /\ Known(m.key[1].base)
  <2>1. SUFFICES ASSUME NEW m \in net
                 PROVE  /\ OneTime(m) = (m.key[1].oneTime # None) /\ m.from \in Parties
                        /\ m.key[1] \in Agreement /\ Known(m.key[1].base)
    OBVIOUS
  <2>2. OneTime(m) = (m.key[1].oneTime # None)
    <3>1. "root" \notin DOMAIN m
      BY DEF SignalTypeOK, Message
    <3>2. QED BY <3>1 DEF OneTime, SessionOf
  <2>3. m.from \in Parties
    BY DEF SignalTypeOK, Message
  <2>4. m.key[1] \in Agreement /\ Known(m.key[1].base)
    <3>1. Derived(m.key)
      BY DEF KeyInv, MessageKeys
    <3>2. QED BY <3>1 DEF Derived
  <2>5. QED BY <2>2, <2>3, <2>4
<1>3. accepted \subseteq net
  BY DEF SignalTypeOK
<1>4. CASE UNCHANGED <<session, keyCount, net, preKeys, accepted, twice>>
  BY <1>1, <1>4 DEF Spent, AtMostOnce, Behind
<1>5. ASSUME UNCHANGED <<accepted, twice>>,
             \A q \in Parties : session'[q] # None =>
               \/ /\ session[q] # None /\ session'[q].root[1] = session[q].root[1]
                  /\ session'[q].recv = session[q].recv /\ session'[q].skipped = session[q].skipped
               \/ ~Known(session'[q].root[1].base)
      PROVE  Spent' /\ AtMostOnce'
  <2>1. AtMostOnce'
    BY <1>1, <1>5 DEF AtMostOnce
  <2>2. ASSUME NEW q \in Parties, NEW n \in accepted, n.from # q, OneTime(n),
               session'[q] # None, session'[q].root[1] = n.key[1]
        PROVE  Behind(session'[q], n)
    <3>1. Known(n.key[1].base)
      BY <1>2, <1>3
    <3>2. session[q] # None /\ session[q].root[1] = n.key[1]
          /\ session'[q].recv = session[q].recv /\ session'[q].skipped = session[q].skipped
      BY <1>5, <2>2, <3>1
    <3>3. Behind(session[q], n)
      BY <2>2, <3>2 DEF Spent
    <3>4. QED BY <3>2, <3>3 DEF Behind
  <2>3. Spent'
    BY <1>1, <1>5, <2>2 DEF Spent, Behind
  <2>4. QED BY <2>1, <2>3
<1>6. ASSUME NEW p \in Parties, Drops(p) PROVE Spent' /\ AtMostOnce'
  BY <1>5, <1>6 DEF Drops, SignalTypeOK
<1>7. ASSUME NEW p \in Parties, NEW rec, NEW m, Sending(p, rec, m) PROVE Spent' /\ AtMostOnce'
  <2>1. /\ UNCHANGED <<accepted, twice>> /\ session'[p].root = rec.root
        /\ session'[p].recv = rec.recv /\ session'[p].skipped = rec.skipped
        /\ \A q \in Parties : q # p => session'[q] = session[q]
    BY <1>7, SendingFacts
  <2>2. \/ /\ session[p] # None /\ rec.root[1] = session[p].root[1]
           /\ rec.recv = session[p].recv /\ rec.skipped = session[p].skipped
        \/ ~Known(rec.root[1].base)
    BY <1>7 DEF Sending, OldChain, NewChain, NewSession
  <2>3. QED BY <1>5, <2>1, <2>2
<1>8. ASSUME NEW p \in Parties, NEW m \in net, NEW r, m.from # p, session'[p] = r,
             \A q \in Parties : q # p => session'[q] = session[q],
             accepted' = accepted \cup {m}, twice' = twice \cup ({m} \cap accepted),
             m \in accepted => ~OneTime(m), Behind(r, m),
             \A n \in accepted : n.from # p /\ OneTime(n) /\ r.root[1] = n.key[1] => Behind(r, n)
      PROVE  Spent' /\ AtMostOnce'
  <2>1. AtMostOnce'
    BY <1>1, <1>8 DEF AtMostOnce
  <2>2. ASSUME NEW q \in Parties, NEW n \in accepted', n.from # q, OneTime(n),
               session'[q] # None, session'[q].root[1] = n.key[1]
        PROVE  Behind(session'[q], n)
    <3>1. CASE q = p
      BY <1>8, <2>2, <3>1
    <3>2. CASE q # p
      <4>1. n # m
        BY <1>2, <1>8, <2>2, <3>2, OtherParty
      <4>2. QED BY <1>8, <2>2, <3>2, <4>1 DEF Spent
    <3>3. QED BY <3>1, <3>2
  <2>3. Spent'
    BY <1>1, <2>2 DEF Spent, Behind
  <2>4. QED BY <2>1, <2>3
<1>9. ASSUME NEW p \in Parties, NEW m, NEW r, GoesOn(p, m, r) PROVE Spent' /\ AtMostOnce'
  <2>1. PICK rec : rec = session[p]
    OBVIOUS
  <2>2. /\ m \in net /\ m.from # p /\ rec # None
        /\ OwnKeys(p, rec) /\ Decrypts(rec, m, r) /\ r.root[1] = rec.root[1]
        /\ session'[p] = r /\ \A q \in Parties : q # p => session'[q] = session[q]
        /\ accepted' = accepted \cup {m} /\ twice' = twice \cup ({m} \cap accepted)
    BY <1>9, <2>1, GoesOnFacts
  <2>3. SkippedOf(rec)
    BY <2>1, <2>2 DEF SkippedInv
  <2>4. m.key[1] = rec.root[1]
    BY <2>2, <2>3, DecryptsOwn
  <2>5. Behind(r, m) /\ ~Behind(rec, m)
    BY <2>2, <2>3, BehindNow
  <2>6. m \in accepted => ~OneTime(m)
    BY <2>1, <2>2, <2>4, <2>5 DEF Spent
  <2>7. ASSUME NEW n \in accepted, n.from # p, OneTime(n), r.root[1] = n.key[1]
        PROVE  Behind(r, n)
    <3>1. Behind(rec, n) /\ n \in net
      BY <1>3, <2>1, <2>2, <2>7 DEF Spent
    <3>2. QED BY <2>2, <2>3, <3>1, BehindStays
  <2>8. QED BY <1>8, <2>2, <2>5, <2>6, <2>7
<1>10. ASSUME NEW p \in Parties, NEW m, NEW r, Begins(p, m, r) PROVE Spent' /\ AtMostOnce'
  <2>1. /\ m \in net /\ m.from = Peer(p) /\ m.from # p /\ BootstrapOK(p, m, r)
        /\ m.pre.oneTime \in preKeys[p] \cup {None}
        /\ m.pre.oneTime = m.key[1].oneTime /\ m.key[1].base[1] = m.from
        /\ session'[p] = r /\ \A q \in Parties : q # p => session'[q] = session[q]
        /\ accepted' = accepted \cup {m} /\ twice' = twice \cup ({m} \cap accepted)
    BY <1>10, BeginsFacts
  <2>2. ASSUME NEW n \in accepted, n.from # p, OneTime(n), n.key[1] = m.key[1] PROVE FALSE
    <3>1. n \in net /\ n.from \in Parties
      BY <1>2, <1>3
    <3>2. n.from = m.from /\ Peer(n.from) = p
      BY <2>1, <2>2, <3>1, OtherParty
    <3>3. n.key[1].oneTime \notin preKeys[p]
      BY <2>1, <2>2, <3>2 DEF PreKeyInv, Consumed
    <3>4. n.key[1].oneTime # None
      BY <1>2, <2>2, <3>1
    <3>5. QED BY <2>1, <2>2, <3>3, <3>4
  <2>3. Behind(r, m) /\ r.root[1] = m.key[1]
    BY <2>1, BehindFirst DEF BootstrapOK
  <2>4. m \in accepted => ~OneTime(m)
    BY <2>1, <2>2
  <2>5. \A n \in accepted : n.from # p /\ OneTime(n) /\ r.root[1] = n.key[1] => Behind(r, n)
    BY <2>2, <2>3
  <2>6. QED BY <1>8, <2>1, <2>3, <2>4, <2>5
<1>11. QED BY <1>4, <1>6, <1>7, <1>9, <1>10, SignalSteps

(* A message of a session with a one-time pre-key is given to a receiver at *)
(* most once: once decrypted it stays behind the record, its skipped key is *)
(* gone, and the pre-key that would set its session up again is gone too.   *)
THEOREM AtMostOnceAlways == Spec => []AtMostOnce
<1>1. Init => Spent /\ AtMostOnce
  BY DEF Init, Spent, AtMostOnce
<1>2. /\ SignalTypeOK /\ KeyInv /\ SkippedInv /\ PreKeyInv /\ Spent /\ AtMostOnce /\ [Next]_vars
      => Spent' /\ AtMostOnce'
  BY SpentStep
<1>3. Spec => [](Spent /\ AtMostOnce)
  BY <1>1, <1>2, SignalKeysAlways, SkippedAlways, PreKeysAlways, PTL DEF Spec
<1>4. QED BY <1>3, PTL

-----------------------------------------------------------------------------
(* What the two ends of a session know of each other.                      *)

Prefix(x, y) == Len(x) <= Len(y) /\ \A i \in 1 .. Len(x) : x[i] = y[i]

LEMMA PrefixFacts ==
  ASSUME NEW x \in RootKey, NEW y \in RootKey
  PROVE  /\ Prefix(x, x) /\ Len(x) \in Nat \ {0}
         /\ Prefix(x, y) => x[1] = y[1]
         /\ Prefix(x, y) /\ Len(y) <= Len(x) => x = y
         /\ \A z \in RootKey : Prefix(x, y) /\ Prefix(y, z) => Prefix(x, z)
         /\ \A z \in RootKey : Prefix(x, z) /\ Prefix(y, z) /\ Len(x) <= Len(y) => Prefix(x, y)
<1>1. PICK S : RootKey = Seq(S) \ {<<>>}
  BY DEF RootKey
<1>2. \A z \in RootKey : z \in Seq(S) /\ Len(z) \in Nat \ {0}
  BY <1>1
<1>3. ASSUME Prefix(x, y), Len(y) <= Len(x) PROVE x = y
  <2>1. Len(x) = Len(y) /\ \A i \in 1 .. Len(x) : x[i] = y[i]
    BY <1>2, <1>3 DEF Prefix
  <2>2. x \in Seq(S) /\ y \in Seq(S)
    BY <1>2
  <2>3. QED BY <2>1, <2>2, SeqEqual
<1>4. QED BY <1>2, <1>3 DEF Prefix

\* A ratchet step makes a key longer, and the step before it is determined.
LEMMA PrefixStep ==
  ASSUME NEW x \in RootKey, NEW mine \in KeyPair, NEW theirs \in KeyPair, NEW y \in RootKey
  PROVE  /\ y = RootStep(x, mine, theirs) =>
              Prefix(x, y) /\ Len(y) = Len(x) + 1 /\ y[Len(y)] = {mine, theirs}
         /\ Prefix(x, y) /\ Len(y) = Len(x) + 1 /\ y[Len(y)] = {mine, theirs} =>
              y = RootStep(x, mine, theirs)
<1>1. PICK S : RootKey = Seq(S) \ {<<>>} /\ SUBSET KeyPair \subseteq S
  BY DEF RootKey
<1>2. PICK e \in S : e = {mine, theirs}
  BY <1>1
<1>3. x \in Seq(S) /\ y \in Seq(S) /\ Len(x) \in Nat
  BY <1>1
<1>4. PICK s : s = Append(x, e)
  OBVIOUS
<1>5. /\ s \in Seq(S) /\ s = RootStep(x, mine, theirs)
      /\ Len(s) = Len(x) + 1 /\ s[Len(x) + 1] = e /\ \A i \in 1 .. Len(x) : s[i] = x[i]
  BY <1>2, <1>3, <1>4 DEF RootStep
<1>6. ASSUME Prefix(x, y), Len(y) = Len(x) + 1, y[Len(y)] = e PROVE y = s
  <2>1. ASSUME NEW i \in 1 .. Len(s) PROVE s[i] = y[i]
    <3>1. i \in 1 .. Len(x) \/ i = Len(x) + 1
      BY <1>3, <1>5
    <3>2. QED BY <1>5, <1>6, <3>1 DEF Prefix
  <2>2. Len(s) = Len(y)
    BY <1>5, <1>6
  <2>3. QED BY <1>3, <1>5, <2>1, <2>2, SeqEqual
<1>7. QED BY <1>2, <1>3, <1>5, <1>6 DEF Prefix

\* The chains of a session form one line, each of one sender and one ratchet key.
OneLine ==
  \A m1, m2 \in net :
    OneTime(m1) /\ m1.key[1] = m2.key[1] /\ Len(m1.key) <= Len(m2.key) => Prefix(m1.key, m2.key)

ChainOwner ==
  /\ \A m1, m2 \in net : m1.key = m2.key => m1.from = m2.from /\ m1.ratchet = m2.ratchet
  /\ \A p \in Parties, m \in net :
       Sends(p) /\ m.key = session[p].send.key => m.ratchet = session[p].local

\* A chain after the first answers one of the other party.
Answers(m, n) ==
  /\ n.from # m.from /\ Len(m.key) = Len(n.key) + 1 /\ Prefix(n.key, m.key)
  /\ m.key[Len(m.key)] = {m.ratchet, n.ratchet}

Answered ==
  \A m \in net :
    \/ Len(m.key) = 2 /\ m.from = m.key[1].base[1]
    \/ \E n \in net : Answers(m, n)

\* A message names the last counter of its sender's chain before.
PrevSound ==
  \A m, w \in net :
    OneTime(m) /\ m.from = w.from /\ m.key[1] = w.key[1] /\ Len(w.key) = Len(m.key) + 2
    => m.counter <= w.prev

\* Who answers a session with a one-time pre-key has used the pre-key up.
Silent ==
  \A n \in net :
    OneTime(n) /\ n.key[1].base[1] # n.from => n.key[1].oneTime \notin preKeys[n.from]

\* Counters stay within the number of messages.
Counted ==
  /\ \A m \in net : m.counter < MaxSends /\ m.prev < MaxSends
  /\ \A p \in Parties : session[p] # None =>
       session[p].send.counter <= Cardinality(Sent(p)) /\ session[p].prev <= Cardinality(Sent(p))

\* A record has one chain beyond the one it received on, unless it is yet to answer.
Standing(p, rec) ==
  /\ rec.recv = None => rec.send # Uninitialized /\ Len(rec.root) = 2
  /\ rec.recv # None =>
       \E n \in net : /\ n.from # p /\ n.ratchet = rec.remote /\ n.key = rec.recv.key
                      /\ rec.recv.counter <= n.counter + 1
  /\ rec.recv # None /\ rec.send = Uninitialized => rec.root = rec.recv.key
  /\ rec.recv # None /\ rec.send # Uninitialized =>
       /\ Len(rec.root) = Len(rec.recv.key) + 1 /\ Prefix(rec.recv.key, rec.root)
       /\ rec.root[Len(rec.root)] = {rec.local, rec.remote}

InSession(m, rec) == m.key[1] = rec.root[1] /\ OneTime(m)

\* What p has sent in the session of its record.
SentBefore(p, rec) ==
  \A m \in net : m.from = p /\ InSession(m, rec) =>
    /\ Prefix(m.key, rec.root)
    /\ Len(rec.root) = Len(m.key) + (IF rec.send = Uninitialized THEN 1 ELSE 2)
       => m.counter <= rec.prev

\* What p was sent in the session of its record and has not decrypted.
Owes(rec, m) ==
  \/ m.key = rec.recv.key /\ rec.recv.counter <= m.counter
  \/ \E k \in Held(rec) : SameKey(k, m) /\ k.key = m.key

KeepsOwed(p, rec) ==
  \A m \in net \ accepted :
    m.from # p /\ InSession(m, rec) /\ rec.recv # None /\ Len(m.key) <= Len(rec.recv.key)
    => Owes(rec, m)

Ends == \A p \in Parties : session[p] # None =>
          Standing(p, session[p]) /\ SentBefore(p, session[p]) /\ KeepsOwed(p, session[p])

Dialogue == OneLine /\ ChainOwner /\ Answered /\ PrevSound /\ Silent /\ Counted /\ Ends


LEMMA MessageFacts ==
  ASSUME SignalTypeOK, KeyInv, NEW m \in net
  PROVE  /\ m \in Message /\ m.from \in Parties /\ m.ratchet \in KeyPair
         /\ m.counter \in Nat /\ m.prev \in Nat
         /\ m.key \in RootKey /\ Len(m.key) \in Nat /\ 2 <= Len(m.key) /\ Known(m.key[1].base)
         /\ OneTime(m) <=> m.key[1].oneTime # None
<1>1. m \in Message
  BY DEF SignalTypeOK
<1>2. m.key \in RootKey /\ Len(m.key) >= 2 /\ Known(m.key[1].base)
  BY <1>1 DEF Message, KeyInv, MessageKeys, Derived
<1>3. Len(m.key) \in Nat
  BY <1>2, PrefixFacts
<1>4. OneTime(m) <=> m.key[1].oneTime # None
  BY <1>1 DEF OneTime, SessionOf, Message
<1>5. QED BY <1>1, <1>2, <1>3, <1>4 DEF Message

LEMMA RecordFacts ==
  ASSUME SignalTypeOK, KeyInv, NEW p \in Parties, session[p] # None, NEW rec, rec = session[p]
  PROVE  /\ rec \in Record /\ OwnKeys(p, rec)
         /\ rec.root \in RootKey /\ Len(rec.root) \in Nat /\ 2 <= Len(rec.root)
         /\ rec.local \in KeyPair /\ rec.prev \in Nat /\ rec.send.counter \in Nat
         /\ rec.recv # None => /\ rec.recv \in MessageChain /\ rec.recv.key \in RootKey
                               /\ rec.recv.counter \in Nat /\ Len(rec.recv.key) \in Nat
                               /\ rec.remote \in KeyPair /\ rec.recv.key[1] = rec.root[1]
                               /\ Len(rec.recv.key) <= Len(rec.root)
         /\ rec.send # Uninitialized => rec.send \in MessageChain /\ rec.send.key = rec.root
<1>1. rec \in Record /\ OwnKeys(p, rec)
  BY DEF SignalTypeOK, KeyInv, SessionKeys
<1>2. rec.root \in RootKey /\ Len(rec.root) \in Nat
  BY <1>1, PrefixFacts DEF Record
<1>3. rec.recv # None => rec.recv \in MessageChain /\ rec.remote \in KeyPair
  BY <1>1 DEF Record, OwnKeys, Valid
<1>4. rec.recv # None => rec.recv.key \in RootKey /\ Len(rec.recv.key) \in Nat
                         /\ rec.recv.counter \in Nat
  BY <1>3, PrefixFacts DEF MessageChain
<1>5. rec.send.counter \in Nat /\ rec.local \in KeyPair /\ rec.prev \in Nat
  BY <1>1 DEF Record, MessageChain, Uninitialized
<1>6. rec.send # Uninitialized => rec.send \in MessageChain
  BY <1>1 DEF Record
<1>7. QED BY <1>1, <1>2, <1>3, <1>4, <1>5, <1>6 DEF OwnKeys, Derived

\* Where a message of the peer is that a record's session has: it is not beyond
\* the receiving chain, or it begins the next one.
LEMMA PeerOnLine ==
  ASSUME SignalTypeOK, KeyInv, OneLine, ChainOwner, Answered,
         NEW p \in Parties, session[p] # None, NEW rec, rec = session[p],
         Standing(p, rec), SentBefore(p, rec),
         NEW m \in net, m.from # p, InSession(m, rec)
  PROVE  \/ rec.recv # None /\ Prefix(m.key, rec.recv.key)
         \/ /\ rec.send # Uninitialized /\ m.key = RootStep(rec.root, rec.local, m.ratchet)
            /\ Len(m.key) = Len(rec.root) + 1 /\ Prefix(rec.root, m.key)
<1> DEFINE Next1 == /\ rec.send # Uninitialized /\ m.key = RootStep(rec.root, rec.local, m.ratchet)
                    /\ Len(m.key) = Len(rec.root) + 1 /\ Prefix(rec.root, m.key)
<1>1. /\ rec \in Record /\ OwnKeys(p, rec) /\ rec.root \in RootKey /\ Len(rec.root) \in Nat
      /\ rec.local \in KeyPair /\ (rec.send # Uninitialized => rec.send.key = rec.root)
      /\ rec.recv # None => /\ rec.recv.key \in RootKey /\ Len(rec.recv.key) \in Nat
                            /\ rec.recv.key[1] = rec.root[1]
  BY RecordFacts
<1>2. /\ m.key \in RootKey /\ Len(m.key) \in Nat /\ 2 <= Len(m.key) /\ m.from \in Parties
      /\ m.ratchet \in KeyPair /\ m.key[1] = rec.root[1] /\ m.key[1].oneTime # None
  BY MessageFacts DEF InSession
\* If it answers a message of p, that one is on p's chains.
<1>3. ASSUME NEW n \in net, Answers(m, n)
      PROVE  /\ n.key \in RootKey /\ Len(n.key) \in Nat /\ Len(m.key) = Len(n.key) + 1
             /\ Prefix(n.key, m.key) /\ 2 <= Len(n.key) /\ n.from = p
             /\ Prefix(n.key, rec.root) /\ m.key[Len(m.key)] = {m.ratchet, n.ratchet}
  <2>1. n.from \in Parties /\ n.from # m.from /\ n.key \in RootKey /\ Len(n.key) \in Nat
        /\ 2 <= Len(n.key)
    BY <1>3, MessageFacts DEF Answers
  <2>2. n.from = p
    BY <1>2, <2>1, PeerFacts
  <2>3. Len(m.key) = Len(n.key) + 1 /\ Prefix(n.key, m.key)
        /\ m.key[Len(m.key)] = {m.ratchet, n.ratchet}
    BY <1>3 DEF Answers
  <2>4. n.key[1] = m.key[1]
    BY <1>2, <2>1, <2>3, PrefixFacts
  <2>5. OneTime(n)
    BY <1>2, <2>4, MessageFacts
  <2>6. InSession(n, rec)
    BY <1>2, <2>4, <2>5 DEF InSession
  <2>7. Prefix(n.key, rec.root)
    BY <2>2, <2>6 DEF SentBefore
  <2>8. QED BY <2>1, <2>2, <2>3, <2>7
\* If that one is on p's sending chain, the message begins the next chain.
<1>4. ASSUME NEW n \in net, Answers(m, n), rec.send # Uninitialized, Len(rec.root) <= Len(n.key)
      PROVE  Next1
  <2>1. n.key = rec.root
    BY <1>1, <1>3, <1>4, PrefixFacts
  <2>2. n.ratchet = rec.local
    BY <1>1, <1>4, <2>1 DEF ChainOwner, Sends
  <2>3. m.key[Len(m.key)] = {rec.local, m.ratchet}
    BY <1>3, <1>4, <2>2
  <2>4. Prefix(rec.root, m.key) /\ Len(m.key) = Len(rec.root) + 1
    BY <1>3, <1>4, <2>1
  <2>5. m.key = RootStep(rec.root, rec.local, m.ratchet)
    <3>1. PICK x \in RootKey, y \in RootKey, mine \in KeyPair, theirs \in KeyPair :
            x = rec.root /\ y = m.key /\ mine = rec.local /\ theirs = m.ratchet
      BY <1>1, <1>2
    <3>2. QED BY <2>3, <2>4, <3>1, PrefixStep
  <2>6. QED BY <1>4, <2>4, <2>5
<1>5. CASE rec.recv = None
  <2>1. rec.send # Uninitialized /\ Len(rec.root) = 2 /\ rec.root[1].base[1] = p
    BY <1>1, <1>5 DEF Standing, OwnKeys
  <2>2. ~(Len(m.key) = 2 /\ m.from = m.key[1].base[1])
    BY <1>2, <2>1
  <2>3. PICK n \in net : Answers(m, n)
    BY <2>2 DEF Answered
  <2>4. Len(rec.root) <= Len(n.key)
    BY <1>3, <2>1, <2>3
  <2>5. QED BY <1>4, <2>1, <2>3, <2>4
<1>6. CASE rec.recv # None
  <2>1. PICK w \in net : w.from # p /\ w.ratchet = rec.remote /\ w.key = rec.recv.key
    BY <1>6 DEF Standing
  <2>2. w.key \in RootKey /\ Len(w.key) \in Nat /\ 2 <= Len(w.key) /\ w.key[1] = rec.root[1]
    BY <1>1, <1>6, <2>1, MessageFacts
  <2>3. CASE Len(m.key) <= Len(w.key)
    BY <1>2, <1>6, <2>1, <2>2, <2>3 DEF OneLine, InSession
  <2>4. CASE ~(Len(m.key) <= Len(w.key))
    <3>1. PICK n \in net : Answers(m, n)
      BY <1>2, <2>2, <2>4 DEF Answered
    <3>2. Len(w.key) <= Len(n.key) /\ n.from = p /\ n.key \in RootKey /\ Len(n.key) \in Nat
          /\ Prefix(n.key, rec.root)
      BY <1>2, <1>3, <2>2, <2>4, <3>1
    <3>3. n.key # w.key
      BY <2>1, <3>2 DEF ChainOwner
    <3>4. CASE rec.send = Uninitialized
      <4>1. rec.root = w.key
        BY <1>6, <2>1, <3>4 DEF Standing
      <4>2. QED BY <2>2, <3>2, <3>3, <4>1, PrefixFacts
    <3>5. CASE rec.send # Uninitialized
      <4>1. Len(rec.root) = Len(w.key) + 1 /\ Prefix(w.key, rec.root)
        BY <1>6, <2>1, <3>5 DEF Standing
      <4>2. ~(Len(n.key) <= Len(w.key))
        <5>1. SUFFICES ASSUME Len(n.key) <= Len(w.key) PROVE FALSE
          OBVIOUS
        <5>2. Prefix(n.key, w.key)
          BY <1>1, <2>2, <3>2, <4>1, <5>1, PrefixFacts
        <5>3. QED BY <2>2, <3>2, <3>3, <5>2, PrefixFacts
      <4>3. Len(rec.root) <= Len(n.key)
        BY <2>2, <3>2, <4>1, <4>2
      <4>4. QED BY <1>4, <3>1, <3>5, <4>3
    <3>6. QED BY <3>4, <3>5
  <2>5. QED BY <2>3, <2>4
<1>7. QED BY <1>5, <1>6

-----------------------------------------------------------------------------
(* Sending.                                                                *)

LEMMA SendingStep ==
  ASSUME SignalTypeOK, KeyInv, NEW p \in Parties, NEW rec, NEW m, Sending(p, rec, m)
  PROVE  /\ rec \in Record /\ rec.send.counter \in Nat /\ rec.prev \in Nat /\ rec.root \in RootKey
         /\ rec.local \in KeyPair
         /\ m \in Message /\ m \notin net /\ m.from = p /\ m.ratchet = rec.local
         /\ m.key = rec.root /\ m.counter = rec.send.counter /\ m.prev = rec.prev
         /\ net' = net \cup {m} /\ Cardinality(Sent(p)) < MaxSends
         /\ UNCHANGED <<preKeys, accepted>>
         /\ session'[p] \in Record /\ session'[p] # None /\ session'[p].root = rec.root
         /\ session'[p].send # Uninitialized /\ session'[p].send.counter = rec.send.counter + 1
         /\ session'[p].send.key = rec.root
         /\ session'[p].recv = rec.recv /\ session'[p].remote = rec.remote
         /\ session'[p].local = rec.local /\ session'[p].prev = rec.prev
         /\ session'[p].skipped = rec.skipped /\ session'[p].lost = rec.lost
         /\ \A q \in Parties : q # p => session'[q] = session[q]
<1>1. SendEffect(p, rec, m) /\ rec.send.key = rec.root
      /\ (OldChain(p, rec) \/ NewChain(p, rec) \/ NewSession(p, rec))
  BY DEF Sending, SendsOn
<1>2. /\ rec \in Record /\ rec.send \in MessageChain
      /\ m \in Message /\ m.from = p /\ m.ratchet = rec.local /\ m.prev = rec.prev
      /\ m.counter = rec.send.counter /\ m.key = rec.root
      /\ Cardinality(Sent(p)) < MaxSends /\ net' = net \cup {m}
      /\ session' = [session EXCEPT ![p] = AfterSend(rec)]
      /\ UNCHANGED <<preKeys, accepted>>
  BY <1>1 DEF SendEffect
<1>3. PICK r : r = AfterSend(rec)
  OBVIOUS
<1>4. /\ r \in Record /\ r.root = rec.root /\ r.recv = rec.recv /\ r.remote = rec.remote
      /\ r.local = rec.local /\ r.skipped = rec.skipped /\ r.lost = rec.lost
      /\ r.prev = rec.prev /\ r.send.key = rec.send.key /\ r.send.counter = rec.send.counter + 1
      /\ r.send # Uninitialized
  BY <1>2, <1>3, AfterSendFacts
<1>5. session'[p] = r /\ \A q \in Parties : q # p => session'[q] = session[q]
  BY <1>2, <1>3 DEF SignalTypeOK
<1>6. rec.send.counter \in Nat /\ rec.prev \in Nat /\ rec.root \in RootKey /\ rec.local \in KeyPair
  BY <1>2 DEF Record, MessageChain
<1>7. m \notin net
  <2>1. SUFFICES ASSUME m \in net PROVE FALSE
    OBVIOUS
  <2>2. CASE OldChain(p, rec)
    <3>1. m.counter < rec.send.counter
      BY <1>1, <1>2, <2>1, <2>2 DEF OldChain, KeyInv, ChainsAhead, Sends
    <3>2. QED BY <1>2, <1>6, <3>1
  <2>3. CASE NewChain(p, rec) \/ NewSession(p, rec)
    <3>1. FreshKey(rec.root) /\ Derived(m.key)
      BY <2>1, <2>3 DEF NewChain, NewSession, KeyInv, MessageKeys
    <3>2. QED BY <1>2, <3>1, FreshIsNew
  <2>4. QED BY <1>1, <2>2, <2>3
<1>8. r # None
  BY <1>4, SessionAssumption
<1>9. QED BY <1>1, <1>2, <1>4, <1>5, <1>6, <1>7, <1>8

\* A sent message is on p's root, or begins a session of its own.
Extends(p, rec, m) ==
  /\ session[p] # None /\ rec.root[1] = session[p].root[1]
  /\ rec.recv = session[p].recv /\ rec.remote = session[p].remote
  /\ rec.prev = session[p].prev /\ rec.skipped = session[p].skipped /\ rec.lost = session[p].lost
  /\ Prefix(session[p].root, m.key)
  /\ \/ session[p].send # Uninitialized /\ rec = session[p]
     \/ /\ session[p].send = Uninitialized /\ Len(m.key) = Len(session[p].root) + 1
        /\ rec.recv # None /\ rec.send.counter = 0 /\ FreshKey(m.key)
        /\ m.key[Len(m.key)] = {rec.local, rec.remote}

Founds(p, rec, m) ==
  /\ ~Known(m.key[1].base) /\ m.key[1].base[1] = p /\ Len(m.key) = 2 /\ FreshKey(m.key)
  /\ rec.recv = None /\ rec.prev = 0 /\ rec.send.counter = 0

LEMMA SendingWays ==
  ASSUME SignalTypeOK, KeyInv, NEW p \in Parties, NEW rec, NEW m, Sending(p, rec, m)
  PROVE  Extends(p, rec, m) \/ Founds(p, rec, m)
<1>1. rec \in Record /\ m.key = rec.root /\ rec.root \in RootKey /\ rec.local \in KeyPair
  BY SendingStep
<1>2. OldChain(p, rec) \/ NewChain(p, rec) \/ NewSession(p, rec)
  BY DEF Sending
<1>3. CASE OldChain(p, rec)
  <2>1. Prefix(session[p].root, m.key)
    BY <1>1, <1>3, PrefixFacts DEF OldChain
  <2>2. QED BY <1>3, <2>1 DEF OldChain, Extends
<1>4. CASE NewChain(p, rec)
  <2>1. /\ session[p] # None /\ rec.root[1] = session[p].root[1] /\ rec.recv = session[p].recv
        /\ rec.remote = session[p].remote /\ rec.recv # None /\ rec.skipped = session[p].skipped
        /\ FreshKey(rec.root) /\ session[p].send = Uninitialized /\ rec.send = Chain(rec.root)
        /\ rec.root = RootStep(session[p].root, rec.local, rec.remote)
        /\ rec.prev = session[p].prev /\ rec.lost = session[p].lost
    BY <1>4 DEF NewChain
  <2>2. session[p].root \in RootKey /\ rec.remote \in KeyPair
    BY <2>1, RecordFacts
  <2>3. PICK x \in RootKey, y \in RootKey, mine \in KeyPair, theirs \in KeyPair :
          x = session[p].root /\ y = rec.root /\ mine = rec.local /\ theirs = rec.remote
    BY <1>1, <2>2
  <2>4. Prefix(x, y) /\ Len(y) = Len(x) + 1 /\ y[Len(y)] = {mine, theirs}
    BY <2>1, <2>3, PrefixStep
  <2>5. rec.send.counter = 0
    BY <2>1 DEF Chain
  <2>6. QED BY <1>1, <2>1, <2>3, <2>4, <2>5 DEF Extends
<1>5. CASE NewSession(p, rec)
  BY <1>1, <1>5 DEF NewSession, Founds, Chain
<1>6. QED BY <1>2, <1>3, <1>4, <1>5

\* The messages of the session of a message that p sends: those of p are on the
\* root it had, those of the peer too, or they come after the message.
LEMMA SentOnLine ==
  ASSUME SignalTypeOK, KeyInv, Dialogue, NEW p \in Parties, NEW rec, NEW m, Sending(p, rec, m),
         NEW n \in net, n.key[1] = m.key[1], m.key[1].oneTime # None
  PROVE  /\ Extends(p, rec, m) /\ InSession(n, session[p])
         /\ n.from = p => Prefix(n.key, session[p].root)
         /\ Prefix(n.key, m.key) \/ Prefix(m.key, n.key)
<1>1. rec \in Record /\ m.key = rec.root /\ m.key \in RootKey
  BY SendingStep
<1>2. n.key \in RootKey /\ Known(n.key[1].base) /\ OneTime(n)
  BY MessageFacts
<1>3. Extends(p, rec, m)
  BY <1>2, SendingWays DEF Founds
<1>4. PICK old \in Record : old = session[p] /\ old # None
  BY <1>3, RecordFacts DEF Extends
<1>5. /\ old.root \in RootKey /\ old.root[1] = m.key[1]
      /\ old.recv # None => old.recv.key \in RootKey
  BY <1>1, <1>3, <1>4, RecordFacts DEF Extends
<1>6. Standing(p, old) /\ SentBefore(p, old)
  BY <1>4 DEF Dialogue, Ends
<1>7. InSession(n, old)
  BY <1>2, <1>5 DEF InSession
<1>8. Prefix(old.root, m.key)
  BY <1>3, <1>4 DEF Extends
<1>9. CASE n.from = p
  <2>1. Prefix(n.key, old.root)
    BY <1>6, <1>7, <1>9 DEF SentBefore
  <2>2. Prefix(n.key, m.key)
    BY <1>1, <1>2, <1>5, <1>8, <2>1, PrefixFacts
  <2>3. QED BY <1>3, <1>4, <1>7, <2>1, <2>2
<1>10. CASE n.from # p
  <2>1. \/ old.recv # None /\ Prefix(n.key, old.recv.key)
        \/ old.send # Uninitialized /\ Prefix(old.root, n.key)
    BY <1>4, <1>6, <1>7, <1>10, PeerOnLine DEF Dialogue
  <2>2. CASE old.recv # None /\ Prefix(n.key, old.recv.key)
    <3>1. Prefix(old.recv.key, old.root)
      BY <1>5, <1>6, <2>2, PrefixFacts DEF Standing
    <3>2. Prefix(n.key, old.root)
      BY <1>2, <1>5, <2>2, <3>1, PrefixFacts
    <3>3. Prefix(n.key, m.key)
      BY <1>1, <1>2, <1>5, <1>8, <3>2, PrefixFacts
    <3>4. QED BY <1>3, <1>4, <1>7, <1>10, <3>3
  <2>3. CASE old.send # Uninitialized /\ Prefix(old.root, n.key)
    <3>1. m.key = old.root
      BY <1>1, <1>3, <1>4, <2>3 DEF Extends
    <3>2. QED BY <1>3, <1>4, <1>7, <1>10, <2>3, <3>1
  <2>4. QED BY <2>1, <2>2, <2>3
<1>11. QED BY <1>9, <1>10

LEMMA OneTimeFacts ==
  ASSUME NEW m \in Message
  PROVE  OneTime(m) <=> m.key[1].oneTime # None
BY DEF OneTime, SessionOf, Message

LEMMA LineSend ==
  ASSUME SignalTypeOK, KeyInv, Dialogue, NEW p \in Parties, NEW rec, NEW m, Sending(p, rec, m)
  PROVE  OneLine'
<1>1. net' = net \cup {m} /\ m \in Message /\ m.key \in RootKey
  BY SendingStep
<1>2. ASSUME NEW n \in net, OneTime(n) \/ OneTime(m), n.key[1] = m.key[1]
      PROVE  /\ Len(n.key) <= Len(m.key) => Prefix(n.key, m.key)
             /\ Len(m.key) <= Len(n.key) => Prefix(m.key, n.key)
  <2>1. n \in Message /\ n.key \in RootKey
    BY MessageFacts
  <2>2. m.key[1].oneTime # None
    BY <1>1, <1>2, <2>1, OneTimeFacts
  <2>3. Prefix(n.key, m.key) \/ Prefix(m.key, n.key)
    BY <1>2, <2>2, SentOnLine
  <2>4. QED BY <1>1, <2>1, <2>3, PrefixFacts
<1>3. Prefix(m.key, m.key)
  BY <1>1, PrefixFacts
<1>4. OneLine
  BY DEF Dialogue
<1>5. QED BY <1>1, <1>2, <1>3, <1>4 DEF OneLine

LEMMA OwnerSend ==
  ASSUME SignalTypeOK, KeyInv, KeyInv', Dialogue, NEW p \in Parties, NEW rec, NEW m,
         Sending(p, rec, m)
  PROVE  ChainOwner'
<1>1. /\ net' = net \cup {m} /\ m.from = p /\ m.key = rec.root /\ m.ratchet = rec.local
      /\ session'[p] # None /\ session'[p].send.key = rec.root /\ session'[p].local = rec.local
      /\ \A q \in Parties : q # p => session'[q] = session[q]
  BY SendingStep
<1>2. ChainOwner
  BY DEF Dialogue
<1>3. ASSUME NEW n \in net, n.key = m.key PROVE n.from = p /\ n.ratchet = m.ratchet
  <2>1. Derived(n.key) /\ n.key \in RootKey
    BY MessageFacts DEF KeyInv, MessageKeys
  <2>2. ~FreshKey(m.key)
    BY <1>3, <2>1, FreshIsNew
  <2>3. session[p] # None /\ session[p].send # Uninitialized /\ rec = session[p]
    BY <2>2, SendingWays DEF Extends, Founds
  <2>4. session[p].send.key = rec.root
    BY <2>3, RecordFacts
  <2>5. QED BY <1>1, <1>2, <1>3, <2>3, <2>4 DEF ChainOwner, Sends, KeyInv, ChainsAhead
<1>4. \A m1, m2 \in net' : m1.key = m2.key => m1.from = m2.from /\ m1.ratchet = m2.ratchet
  BY <1>1, <1>2, <1>3 DEF ChainOwner
<1>5. ASSUME NEW q \in Parties, NEW n \in net', Sends(q)', n.key = session'[q].send.key
      PROVE  n.ratchet = session'[q].local
  <2>1. CASE q = p
    BY <1>1, <1>3, <1>5, <2>1
  <2>2. CASE q # p
    <3>1. n.from = q
      BY <1>5 DEF KeyInv, ChainsAhead
    <3>2. n \in net
      BY <1>1, <2>2, <3>1
    <3>3. session'[q] = session[q] /\ Sends(q)
      BY <1>1, <1>5, <2>2 DEF Sends
    <3>4. QED BY <1>2, <1>5, <3>2, <3>3 DEF ChainOwner
  <2>3. QED BY <2>1, <2>2
<1>6. QED BY <1>4, <1>5 DEF ChainOwner

LEMMA AnsweredSend ==
  ASSUME SignalTypeOK, KeyInv, Dialogue, NEW p \in Parties, NEW rec, NEW m, Sending(p, rec, m)
  PROVE  Answered'
<1>1. net' = net \cup {m} /\ m.from = p /\ m.key = rec.root /\ m.ratchet = rec.local
  BY SendingStep
<1>2. \/ Len(m.key) = 2 /\ m.from = m.key[1].base[1]
      \/ \E n \in net : Answers(m, n)
  <2>1. CASE Founds(p, rec, m)
    BY <1>1, <2>1 DEF Founds
  <2>2. CASE Extends(p, rec, m)
    <3>1. PICK old : old = session[p] /\ old # None
      BY <2>2 DEF Extends
    <3>2. /\ OwnKeys(p, old) /\ old.root \in RootKey
          /\ old.recv # None => old.recv.key \in RootKey
      BY <3>1, RecordFacts
    <3>3. Standing(p, old)
      BY <3>1 DEF Dialogue, Ends
    <3>4. CASE old.recv = None
      <4>1. old.send # Uninitialized /\ Len(old.root) = 2 /\ old.root[1].base[1] = p
        BY <3>2, <3>3, <3>4 DEF Standing, OwnKeys
      <4>2. m.key = old.root
        BY <1>1, <2>2, <3>1, <4>1 DEF Extends
      <4>3. QED BY <1>1, <4>1, <4>2
    <3>5. CASE old.recv # None
      <4>1. PICK w \in net : w.from # p /\ w.ratchet = old.remote /\ w.key = old.recv.key
        BY <3>3, <3>5 DEF Standing
      <4>2. CASE old.send # Uninitialized
        <5>1. rec = old /\ m.key = old.root
          BY <1>1, <2>2, <3>1, <4>2 DEF Extends
        <5>2. Len(m.key) = Len(w.key) + 1 /\ Prefix(w.key, m.key)
              /\ m.key[Len(m.key)] = {m.ratchet, w.ratchet}
          BY <1>1, <3>3, <3>5, <4>1, <4>2, <5>1 DEF Standing
        <5>3. QED BY <1>1, <4>1, <5>2 DEF Answers
      <4>3. CASE old.send = Uninitialized
        <5>1. old.root = w.key
          BY <3>3, <3>5, <4>1, <4>3 DEF Standing
        <5>2. Len(m.key) = Len(w.key) + 1 /\ Prefix(w.key, m.key)
              /\ m.key[Len(m.key)] = {m.ratchet, w.ratchet}
          BY <1>1, <2>2, <3>1, <4>1, <4>3, <5>1 DEF Extends
        <5>3. QED BY <1>1, <4>1, <5>2 DEF Answers
      <4>4. QED BY <4>2, <4>3
    <3>6. QED BY <3>4, <3>5
  <2>3. QED BY <2>1, <2>2, SendingWays
<1>3. Answered
  BY DEF Dialogue
<1>4. QED BY <1>1, <1>2, <1>3 DEF Answered

LEMMA PrevSend ==
  ASSUME SignalTypeOK, KeyInv, Dialogue, NEW p \in Parties, NEW rec, NEW m, Sending(p, rec, m)
  PROVE  PrevSound'
<1>1. /\ net' = net \cup {m} /\ m \in Message /\ m.from = p /\ m.key \in RootKey /\ m.prev = rec.prev
      /\ m.key = rec.root /\ Len(m.key) \in Nat
  BY SendingStep, PrefixFacts
<1>2. ASSUME NEW n \in net, n.from = p, n.key[1] = m.key[1], m.key[1].oneTime # None
      PROVE  /\ n.key \in RootKey /\ Len(n.key) \in Nat /\ Len(n.key) <= Len(m.key)
             /\ Len(m.key) = Len(n.key) + 2 => n.counter <= m.prev
  <2>1. Extends(p, rec, m) /\ InSession(n, session[p]) /\ Prefix(n.key, session[p].root)
    BY <1>2, SentOnLine
  <2>2. PICK old : old = session[p] /\ old # None
    BY <2>1 DEF Extends
  <2>3. old.root \in RootKey /\ Len(old.root) \in Nat
    BY <2>2, RecordFacts
  <2>4. n.key \in RootKey /\ Len(n.key) \in Nat
    BY MessageFacts
  <2>5. Prefix(old.root, m.key)
    BY <2>1, <2>2 DEF Extends
  <2>6. Len(n.key) <= Len(m.key)
    BY <1>1, <2>1, <2>2, <2>3, <2>4, <2>5 DEF Prefix
  <2>7. ASSUME Len(m.key) = Len(n.key) + 2 PROVE n.counter <= m.prev
    <3>1. Len(old.root) = Len(n.key) + (IF old.send = Uninitialized THEN 1 ELSE 2)
      <4>1. CASE old.send = Uninitialized
        <5>1. Len(m.key) = Len(old.root) + 1
          BY <2>1, <2>2, <4>1 DEF Extends
        <5>2. QED BY <2>3, <2>4, <2>7, <4>1, <5>1
      <4>2. CASE old.send # Uninitialized
        BY <1>1, <2>1, <2>2, <2>7, <4>2 DEF Extends
      <4>3. QED BY <4>1, <4>2
    <3>2. SentBefore(p, old)
      BY <2>2 DEF Dialogue, Ends
    <3>3. n.counter <= old.prev
      BY <1>2, <2>1, <2>2, <3>1, <3>2 DEF SentBefore
    <3>4. QED BY <1>1, <2>1, <2>2, <3>3 DEF Extends
  <2>8. QED BY <2>4, <2>6, <2>7
<1>3. ASSUME NEW x \in net', NEW w \in net', OneTime(x), x.from = w.from, x.key[1] = w.key[1],
             Len(w.key) = Len(x.key) + 2
      PROVE  x.counter <= w.prev
  <2>1. x \in Message
    BY <1>1 DEF SignalTypeOK
  <2>2. x.key[1].oneTime # None
    BY <1>3, <2>1, OneTimeFacts
  <2>3. CASE x \in net /\ w \in net
    BY <1>3, <2>3 DEF Dialogue, PrevSound
  <2>4. CASE x \in net /\ w = m
    BY <1>1, <1>2, <1>3, <2>2, <2>4
  <2>5. CASE x = m /\ w \in net
    BY <1>1, <1>2, <1>3, <2>2, <2>5
  <2>6. CASE x = m /\ w = m
    BY <1>1, <1>3, <2>6
  <2>7. QED BY <1>1, <2>3, <2>4, <2>5, <2>6
<1>4. QED BY <1>3 DEF PrevSound

LEMMA SilentSend ==
  ASSUME SignalTypeOK, KeyInv, PreKeyInv, Dialogue, NEW p \in Parties, NEW rec, NEW m,
         Sending(p, rec, m)
  PROVE  Silent'
<1>1. /\ net' = net \cup {m} /\ m \in Message /\ m.from = p /\ m.key = rec.root
      /\ preKeys' = preKeys
  BY SendingStep
<1>2. ASSUME OneTime(m), m.key[1].base[1] # p PROVE m.key[1].oneTime \notin preKeys[p]
  <2>1. session[p] # None /\ session[p].root[1] = m.key[1]
    BY <1>1, <1>2, SendingWays DEF Extends, Founds
  <2>2. m.key[1].oneTime # None
    BY <1>1, <1>2, OneTimeFacts
  <2>3. PICK n \in accepted : n.from # p /\ n.pre # None /\ n.key[1] = m.key[1]
    BY <1>2, <2>1, <2>2 DEF PreKeyInv, SetUp
  <2>4. n \in net /\ n.key[1].base[1] = n.from /\ n.from \in Parties /\ OneTime(n)
    <3>1. n \in net
      BY DEF SignalTypeOK
    <3>2. QED BY <2>2, <2>3, <3>1, MessageFacts DEF KeyInv, MessageKeys
  <2>5. Peer(n.from) = p
    BY <2>3, <2>4, OtherParty
  <2>6. QED BY <2>3, <2>4, <2>5 DEF PreKeyInv, Consumed
<1>3. QED BY <1>1, <1>2 DEF Dialogue, Silent

LEMMA CountedSend ==
  ASSUME SignalTypeOK, KeyInv, Dialogue, NEW p \in Parties, NEW rec, NEW m, Sending(p, rec, m)
  PROVE  Counted'
<1>1. /\ rec.send.counter \in Nat /\ rec.prev \in Nat /\ m \notin net /\ m.from = p
      /\ m.counter = rec.send.counter /\ m.prev = rec.prev
      /\ net' = net \cup {m} /\ Cardinality(Sent(p)) < MaxSends
      /\ session'[p].send.counter = rec.send.counter + 1 /\ session'[p].prev = rec.prev
      /\ \A q \in Parties : q # p => session'[q] = session[q]
  BY SendingStep
<1>2. /\ Sent(p)' = Sent(p) \cup {m} /\ m \notin Sent(p)
      /\ \A q \in Parties : q # p => Sent(q)' = Sent(q)
  BY <1>1 DEF Sent
<1>3. IsFiniteSet(Sent(p)) /\ Cardinality(Sent(p)) \in Nat
  <2>1. IsFiniteSet(Sent(p))
    BY FS_Subset DEF SignalTypeOK, Sent
  <2>2. QED BY <2>1, FS_CardinalityType
<1>4. Cardinality(Sent(p)') = Cardinality(Sent(p)) + 1
  <2>1. Cardinality(Sent(p) \cup {m}) = Cardinality(Sent(p)) + 1
    BY <1>2, <1>3, FS_AddElement
  <2>2. QED BY <1>2, <2>1
<1>5. rec.send.counter <= Cardinality(Sent(p)) /\ rec.prev <= Cardinality(Sent(p))
  <2>1. CASE Extends(p, rec, m)
    <3>1. session[p] # None /\ rec.prev = session[p].prev
          /\ (rec.send.counter = 0 \/ rec.send = session[p].send)
      BY <2>1 DEF Extends
    <3>2. QED BY <1>1, <1>3, <3>1 DEF Dialogue, Counted
  <2>2. CASE Founds(p, rec, m)
    BY <1>3, <2>2 DEF Founds
  <2>3. QED BY <2>1, <2>2, SendingWays
<1>6. \A n \in net' : n.counter < MaxSends /\ n.prev < MaxSends
  <2>1. m.counter < MaxSends /\ m.prev < MaxSends
    BY <1>1, <1>3, <1>5, SessionAssumption
  <2>2. QED BY <1>1, <2>1 DEF Dialogue, Counted
<1>7. ASSUME NEW q \in Parties, session'[q] # None
      PROVE  /\ session'[q].send.counter <= Cardinality(Sent(q)')
             /\ session'[q].prev <= Cardinality(Sent(q)')
  <2>1. CASE q = p
    BY <1>1, <1>3, <1>4, <1>5, <2>1
  <2>2. CASE q # p
    BY <1>1, <1>2, <1>7, <2>2 DEF Dialogue, Counted
  <2>3. QED BY <2>1, <2>2
<1>8. QED BY <1>6, <1>7 DEF Counted

\* The sender's own end.
LEMMA StandingSend ==
  ASSUME SignalTypeOK, KeyInv, Dialogue, NEW p \in Parties, NEW rec, NEW m, Sending(p, rec, m),
         NEW r, r = session'[p]
  PROVE  Standing(p, r)'
<1>1. /\ net' = net \cup {m} /\ m.key = rec.root /\ r.root = rec.root /\ r.recv = rec.recv
      /\ r.send # Uninitialized /\ r.remote = rec.remote /\ r.local = rec.local
      /\ rec.root \in RootKey
  BY SendingStep
<1>2. CASE Founds(p, rec, m)
  BY <1>1, <1>2 DEF Founds, Standing
<1>3. CASE Extends(p, rec, m)
  <2>1. PICK old : old = session[p] /\ old # None
    BY <1>3 DEF Extends
  <2>2. Standing(p, old)
    BY <2>1 DEF Dialogue, Ends
  <2>3. rec.recv = old.recv /\ rec.remote = old.remote
    BY <1>3, <2>1 DEF Extends
  <2>4. CASE old.send # Uninitialized
    <3>1. rec = old
      BY <1>3, <2>1, <2>4 DEF Extends
    <3>2. QED BY <1>1, <2>2, <2>4, <3>1 DEF Standing
  <2>5. CASE old.send = Uninitialized
    <3>1. /\ Len(r.root) = Len(old.root) + 1 /\ r.recv # None /\ Prefix(old.root, r.root)
          /\ r.root[Len(r.root)] = {r.local, r.remote}
      BY <1>1, <1>3, <2>1, <2>5 DEF Extends
    <3>2. old.root = r.recv.key
      BY <1>1, <2>2, <2>3, <2>5, <3>1 DEF Standing
    <3>3. \E n \in net' : /\ n.from # p /\ n.ratchet = r.remote /\ n.key = r.recv.key
                          /\ r.recv.counter <= n.counter + 1
      BY <1>1, <2>2, <2>3, <3>1 DEF Standing
    <3>4. QED BY <1>1, <3>1, <3>2, <3>3 DEF Standing
  <2>6. QED BY <2>4, <2>5
<1>4. QED BY <1>2, <1>3, SendingWays

LEMMA SentBeforeSend ==
  ASSUME SignalTypeOK, KeyInv, Dialogue, NEW p \in Parties, NEW rec, NEW m, Sending(p, rec, m),
         NEW r, r = session'[p]
  PROVE  SentBefore(p, r)'
<1>1. /\ net' = net \cup {m} /\ m.from = p /\ m.key = rec.root /\ r.root = rec.root
      /\ r.send # Uninitialized /\ r.prev = rec.prev /\ m.key \in RootKey
  BY SendingStep
<1>2. Prefix(m.key, r.root) /\ Len(m.key) \in Nat
  BY <1>1, PrefixFacts
<1>3. ASSUME NEW n \in net, n.from = p, InSession(n, r)
      PROVE  /\ Prefix(n.key, r.root)
             /\ Len(r.root) = Len(n.key) + 2 => n.counter <= r.prev
  <2>1. n.key \in RootKey /\ n.key[1] = m.key[1] /\ m.key[1].oneTime # None
    BY <1>1, <1>3, MessageFacts DEF InSession
  <2>2. Extends(p, rec, m) /\ InSession(n, session[p]) /\ Prefix(n.key, session[p].root)
    BY <1>3, <2>1, SentOnLine
  <2>3. PICK old : old = session[p] /\ old # None
    BY <2>2 DEF Extends
  <2>4. old.root \in RootKey /\ Len(old.root) \in Nat /\ Prefix(old.root, m.key)
    BY <2>2, <2>3, RecordFacts DEF Extends
  <2>5. Prefix(n.key, r.root)
    BY <1>1, <2>1, <2>2, <2>3, <2>4, PrefixFacts
  <2>6. ASSUME Len(r.root) = Len(n.key) + 2 PROVE n.counter <= r.prev
    <3>1. Len(old.root) = Len(n.key) + (IF old.send = Uninitialized THEN 1 ELSE 2)
      <4>1. CASE old.send = Uninitialized
        <5>1. Len(m.key) = Len(old.root) + 1 /\ Len(n.key) \in Nat
          BY <2>1, <2>2, <2>3, <4>1, PrefixFacts DEF Extends
        <5>2. QED BY <1>1, <2>4, <2>6, <4>1, <5>1
      <4>2. CASE old.send # Uninitialized
        BY <1>1, <2>2, <2>3, <2>6, <4>2 DEF Extends
      <4>3. QED BY <4>1, <4>2
    <3>2. SentBefore(p, old)
      BY <2>3 DEF Dialogue, Ends
    <3>3. n.counter <= old.prev
      BY <1>3, <2>2, <2>3, <3>1, <3>2 DEF SentBefore
    <3>4. QED BY <1>1, <2>2, <2>3, <3>3 DEF Extends
  <2>7. QED BY <2>5, <2>6
<1>4. QED BY <1>1, <1>2, <1>3 DEF SentBefore

LEMMA OwedSend ==
  ASSUME SignalTypeOK, KeyInv, Dialogue, NEW p \in Parties, NEW rec, NEW m, Sending(p, rec, m),
         NEW r, r = session'[p]
  PROVE  KeepsOwed(p, r)'
<1>1. /\ net' = net \cup {m} /\ accepted' = accepted /\ m.from = p
      /\ r.root = rec.root /\ r.recv = rec.recv /\ r.skipped = rec.skipped /\ r.lost = rec.lost
  BY SendingStep
<1>2. CASE Founds(p, rec, m)
  BY <1>1, <1>2 DEF Founds, KeepsOwed
<1>3. CASE Extends(p, rec, m)
  <2>1. PICK old : old = session[p] /\ old # None
    BY <1>3 DEF Extends
  <2>2. /\ old.root[1] = r.root[1] /\ r.recv = old.recv /\ r.skipped = old.skipped
        /\ r.lost = old.lost
    BY <1>1, <1>3, <2>1 DEF Extends
  <2>3. KeepsOwed(p, old)
    BY <2>1 DEF Dialogue, Ends
  <2>4. QED BY <1>1, <2>2, <2>3 DEF KeepsOwed, InSession, Owes, Held
<1>4. QED BY <1>2, <1>3, SendingWays

\* The other end.
LEMMA OtherEndSend ==
  ASSUME SignalTypeOK, KeyInv, Dialogue, NEW p \in Parties, NEW rec, NEW m, Sending(p, rec, m),
         NEW q \in Parties, q # p, session[q] # None, NEW r, r = session[q]
  PROVE  Standing(q, r)' /\ SentBefore(q, r)' /\ KeepsOwed(q, r)'
<1>1. /\ net' = net \cup {m} /\ m \in Message /\ m \notin net /\ accepted' = accepted
      /\ m.from = p /\ m.key = rec.root /\ m.counter = rec.send.counter /\ rec.send.counter \in Nat
      /\ m.key \in RootKey
  BY SendingStep
<1>2. Standing(q, r) /\ SentBefore(q, r) /\ KeepsOwed(q, r)
  BY DEF Dialogue, Ends
<1>3. Standing(q, r)'
  BY <1>1, <1>2 DEF Standing
<1>4. SentBefore(q, r)'
  BY <1>1, <1>2 DEF SentBefore
<1>5. ASSUME InSession(m, r), r.recv # None, Len(m.key) <= Len(r.recv.key)
      PROVE  Owes(r, m)
  <2>1. PICK n \in net : /\ n.from # q /\ n.ratchet = r.remote /\ n.key = r.recv.key
                         /\ r.recv.counter <= n.counter + 1
    BY <1>2, <1>5 DEF Standing
  <2>2. /\ r.recv.key \in RootKey /\ Len(r.recv.key) \in Nat /\ r.recv.key[1] = r.root[1]
        /\ r.recv.counter \in Nat
    BY <1>5, RecordFacts
  <2>3. n.from = p /\ n.key[1] = m.key[1] /\ n.counter \in Nat
    <3>1. n.from \in Parties /\ n.counter \in Nat
      BY MessageFacts
    <3>2. n.from = Peer(q) /\ p = Peer(q)
      BY <2>1, <3>1, PeerFacts
    <3>3. n.key[1] = m.key[1]
      BY <1>5, <2>1, <2>2 DEF InSession
    <3>4. QED BY <3>1, <3>2, <3>3
  <2>4. m.key[1].oneTime # None
    BY <1>1, <1>5, OneTimeFacts DEF InSession
  <2>5. Extends(p, rec, m) /\ Prefix(n.key, session[p].root)
    BY <2>3, <2>4, SentOnLine
  <2>6. PICK old : old = session[p] /\ old # None
    BY <2>5 DEF Extends
  <2>7. old.root \in RootKey /\ Len(old.root) \in Nat /\ Prefix(old.root, m.key)
    BY <2>5, <2>6, RecordFacts DEF Extends
  <2>8. Len(m.key) \in Nat /\ Len(old.root) <= Len(m.key) /\ Len(n.key) <= Len(old.root)
    BY <1>1, <2>5, <2>6, <2>7, PrefixFacts DEF Prefix
  <2>9. old.send # Uninitialized
    <3>1. SUFFICES ASSUME old.send = Uninitialized PROVE FALSE
      OBVIOUS
    <3>2. Len(m.key) = Len(old.root) + 1
      BY <2>5, <2>6, <3>1 DEF Extends
    <3>3. QED BY <1>5, <2>1, <2>2, <2>7, <2>8, <3>2
  <2>10. rec = old
    BY <2>5, <2>6, <2>9 DEF Extends
  <2>11. n.key = old.root
    <3>1. Len(old.root) <= Len(n.key)
      BY <1>5, <2>1, <2>2, <2>7, <2>8
    <3>2. n.key \in RootKey
      BY MessageFacts
    <3>3. QED BY <2>5, <2>6, <2>7, <3>1, <3>2, PrefixFacts
  <2>12. n.key = session[p].send.key
    BY <2>6, <2>9, <2>11, RecordFacts
  <2>13. n.counter < m.counter
    BY <1>1, <2>6, <2>9, <2>10, <2>12 DEF KeyInv, ChainsAhead, Sends
  <2>14. QED BY <1>1, <2>1, <2>2, <2>3, <2>10, <2>11, <2>13 DEF Owes
<1>6. KeepsOwed(q, r)'
  BY <1>1, <1>2, <1>5 DEF KeepsOwed, Owes
<1>7. QED BY <1>3, <1>4, <1>6

LEMMA DialogueSend ==
  ASSUME SignalTypeOK, KeyInv, KeyInv', PreKeyInv, Dialogue, NEW p \in Parties, NEW rec, NEW m,
         Sending(p, rec, m)
  PROVE  Dialogue'
<1>1. ASSUME NEW q \in Parties, session'[q] # None
      PROVE  Standing(q, session[q])' /\ SentBefore(q, session[q])' /\ KeepsOwed(q, session[q])'
  <2>1. PICK r : r = session'[q]
    OBVIOUS
  <2>2. CASE q = p
    BY <2>1, <2>2, StandingSend, SentBeforeSend, OwedSend
  <2>3. CASE q # p
    <3>1. session'[q] = session[q] /\ session[q] # None
      BY <1>1, <2>3, SendingStep
    <3>2. Standing(q, r)' /\ SentBefore(q, r)' /\ KeepsOwed(q, r)'
      BY <2>1, <2>3, <3>1, OtherEndSend
    <3>3. QED BY <2>1, <3>2
  <2>4. QED BY <2>2, <2>3
<1>2. Ends'
  BY <1>1 DEF Ends
<1>3. OneLine' /\ ChainOwner' /\ Answered' /\ PrevSound' /\ Silent' /\ Counted'
  BY LineSend, OwnerSend, AnsweredSend, PrevSend, SilentSend, CountedSend
<1>4. QED BY <1>2, <1>3 DEF Dialogue

-----------------------------------------------------------------------------
(* Receiving.                                                              *)

\* The key of a message.
LEMMA KeyOf ==
  ASSUME SignalTypeOK, KeyInv, NEW m \in net
  PROVE  \E k \in SkippedKey : k.ratchet = m.ratchet /\ k.counter = m.counter /\ k.key = m.key
<1>1. m.ratchet \in KeyPair /\ m.counter \in Nat /\ m.key \in RootKey
  BY MessageFacts
<1>2. PICK k : k = [ratchet |-> m.ratchet, counter |-> m.counter, key |-> m.key]
  OBVIOUS
<1>3. QED BY <1>1, <1>2 DEF SkippedKey

\* A record turns only to answer what it was sent in answer to its own chain.
TurnsTo(rec, m, r) ==
  /\ rec.send # Uninitialized
  /\ m.key \in RootKey /\ Len(m.key) = Len(rec.root) + 1 /\ Prefix(rec.root, m.key)
  /\ r.root = m.key /\ r.send = Uninitialized
  /\ r.recv = [key |-> m.key, counter |-> m.counter + 1] /\ r.recv # None
  /\ r.recv.key = m.key /\ r.remote = m.ratchet

LEMMA TurnedSends ==
  ASSUME SignalTypeOK, KeyInv, ChainOwner, Answered, NEW p \in Parties, session[p] # None,
         NEW rec, rec = session[p], Standing(p, rec), NEW m \in net, m.from # p, NEW r,
         Turned(rec, m, r)
  PROVE  TurnsTo(rec, m, r)
<1>1. /\ OnChain(rec, m, r) /\ m.key = RootStep(rec.root, rec.local, m.ratchet)
      /\ r.root = m.key /\ r.send = Uninitialized
  BY DEF Turned, Moved
<1>2. r.recv # None /\ r.recv.key = m.key /\ r.remote = m.ratchet
      /\ r.recv = [key |-> m.key, counter |-> m.counter + 1]
  BY <1>1, OnChainFacts DEF OnChain
<1>3. /\ rec.root \in RootKey /\ Len(rec.root) \in Nat /\ 2 <= Len(rec.root) /\ OwnKeys(p, rec)
      /\ rec.local \in KeyPair
  BY RecordFacts
<1>4. m.key \in RootKey /\ m.ratchet \in KeyPair /\ m.from \in Parties
  BY MessageFacts
<1>5. Len(m.key) = Len(rec.root) + 1 /\ Prefix(rec.root, m.key)
  <2>1. PICK x \in RootKey, y \in RootKey, mine \in KeyPair, theirs \in KeyPair :
          x = rec.root /\ y = m.key /\ mine = rec.local /\ theirs = m.ratchet
    BY <1>3, <1>4
  <2>2. QED BY <1>1, <2>1, PrefixStep
<1>6. ASSUME rec.send = Uninitialized PROVE FALSE
  <2>1. rec.recv # None /\ rec.root = rec.recv.key
    BY <1>3, <1>6 DEF OwnKeys, Standing
  <2>2. PICK w \in net : w.from # p /\ w.key = rec.root
    BY <2>1 DEF Standing
  <2>3. PICK n \in net : Answers(m, n)
    <3>1. Len(m.key) # 2
      BY <1>3, <1>5
    <3>2. QED BY <3>1 DEF Answered
  <2>4. n.from \in Parties /\ n.key \in RootKey /\ Len(n.key) \in Nat
    BY MessageFacts
  <2>5. n.from # m.from /\ Len(m.key) = Len(n.key) + 1 /\ Prefix(n.key, m.key)
    BY <2>3 DEF Answers
  <2>6. n.from = p
    BY <1>4, <2>4, <2>5, PeerFacts
  <2>7. Len(n.key) = Len(rec.root)
    BY <1>3, <1>5, <2>4, <2>5
  <2>8. Prefix(n.key, rec.root)
    BY <1>3, <1>4, <1>5, <2>4, <2>5, <2>7, PrefixFacts
  <2>9. n.key = rec.root
    BY <1>3, <2>4, <2>7, <2>8, PrefixFacts
  <2>10. QED BY <2>2, <2>6, <2>9 DEF ChainOwner
<1>7. QED BY <1>1, <1>2, <1>4, <1>5, <1>6 DEF TurnsTo

\* What a receiving step leaves alone when it stays in the chains.
Stays(rec, r) ==
  /\ r.root = rec.root /\ r.send = rec.send /\ r.remote = rec.remote /\ r.local = rec.local
  /\ r.prev = rec.prev

LEMMA ContinuedStays ==
  ASSUME SignalTypeOK, NEW m \in net, NEW rec, NEW r, Continued(rec, m, r)
  PROVE  /\ Stays(rec, r) /\ rec.recv # None /\ rec.remote = m.ratchet /\ m.key = rec.recv.key
         /\ rec.recv.counter <= m.counter /\ r.recv # None
         /\ r.recv.key = m.key /\ r.recv.counter = m.counter + 1
<1>1. OnChain(rec, m, r) /\ Stayed(rec, m, r) /\ r.prev = rec.prev
  BY DEF Continued
<1>2. r.recv # None /\ r.recv.key = m.key /\ r.recv.counter = m.counter + 1
  BY <1>1, OnChainFacts
<1>3. QED BY <1>1, <1>2 DEF Stayed, OnChain, Stays

LEMMA TookStays ==
  ASSUME NEW rec \in Record, Valid(rec), NEW m \in Message, NEW r, Took(rec, m, r)
  PROVE  Stays(rec, r) /\ r.recv = rec.recv
BY TakenStays DEF Took, Stays

LEMMA StandingReceive ==
  ASSUME SignalTypeOK, KeyInv, Dialogue, NEW p \in Parties, NEW m, NEW r, GoesOn(p, m, r)
  PROVE  Standing(p, r)'
<1>1. /\ m \in net /\ m \in Message /\ m.from # p /\ session[p] # None /\ session[p] \in Record
      /\ OwnKeys(p, session[p]) /\ Decrypts(session[p], m, r) /\ UNCHANGED net
  BY GoesOnFacts
<1>2. PICK rec \in Record : rec = session[p]
  BY <1>1
<1>3. Standing(p, rec) /\ Valid(rec) /\ m.counter \in Nat
  BY <1>1, <1>2 DEF Dialogue, Ends, OwnKeys, Message
<1>4. Took(rec, m, r) \/ Continued(rec, m, r) \/ Turned(rec, m, r)
  BY <1>1, <1>2 DEF Decrypts
<1>5. CASE Took(rec, m, r)
  <2>1. Stays(rec, r) /\ r.recv = rec.recv
    BY <1>1, <1>3, <1>5, TookStays
  <2>2. QED BY <1>1, <1>3, <2>1 DEF Stays, Standing
<1>6. CASE Continued(rec, m, r)
  <2>1. /\ Stays(rec, r) /\ rec.recv # None /\ rec.remote = m.ratchet /\ m.key = rec.recv.key
        /\ r.recv # None /\ r.recv.key = m.key /\ r.recv.counter = m.counter + 1
    BY <1>1, <1>6, ContinuedStays
  <2>2. r.recv.counter <= m.counter + 1
    BY <1>3, <2>1
  <2>3. QED BY <1>1, <1>3, <2>1, <2>2 DEF Stays, Standing
<1>7. CASE Turned(rec, m, r)
  <2>1. /\ r.root = m.key /\ r.send = Uninitialized /\ r.recv # None /\ r.recv.key = m.key
        /\ r.remote = m.ratchet /\ r.recv = [key |-> m.key, counter |-> m.counter + 1]
    <3>1. ChainOwner /\ Answered
      BY DEF Dialogue
    <3>2. Standing(p, rec) /\ m \in net /\ m.from # p /\ session[p] # None
      BY <1>1, <1>3
    <3>3. TurnsTo(rec, m, r)
      BY <1>2, <1>7, <3>1, <3>2, TurnedSends
    <3>4. QED BY <3>3 DEF TurnsTo
  <2>2. r.recv.counter <= m.counter + 1
    BY <1>3, <2>1
  <2>3. QED BY <1>1, <2>1, <2>2 DEF Standing
<1>8. QED BY <1>4, <1>5, <1>6, <1>7

LEMMA SentBeforeReceive ==
  ASSUME SignalTypeOK, KeyInv, Dialogue, NEW p \in Parties, NEW m, NEW r, GoesOn(p, m, r)
  PROVE  SentBefore(p, r)'
<1>1. /\ m \in net /\ m \in Message /\ m.from # p /\ session[p] # None /\ session[p] \in Record
      /\ OwnKeys(p, session[p]) /\ Decrypts(session[p], m, r) /\ UNCHANGED net
      /\ r.root[1] = session[p].root[1]
  BY GoesOnFacts
<1>2. PICK rec \in Record : rec = session[p]
  BY <1>1
<1>3. SentBefore(p, rec) /\ Standing(p, rec) /\ Valid(rec)
  BY <1>1, <1>2 DEF Dialogue, Ends, OwnKeys
<1>4. Took(rec, m, r) \/ Continued(rec, m, r) \/ Turned(rec, m, r)
  BY <1>1, <1>2 DEF Decrypts
<1>5. CASE Stays(rec, r)
  BY <1>1, <1>3, <1>5 DEF Stays, SentBefore, InSession
<1>6. CASE Turned(rec, m, r)
  <2>1. /\ rec.send # Uninitialized /\ m.key \in RootKey /\ Len(m.key) = Len(rec.root) + 1
        /\ Prefix(rec.root, m.key) /\ r.root = m.key /\ r.send = Uninitialized
    <3>1. ChainOwner /\ Answered
      BY DEF Dialogue
    <3>2. Standing(p, rec) /\ m \in net /\ m.from # p /\ session[p] # None
      BY <1>1, <1>3
    <3>3. TurnsTo(rec, m, r)
      BY <1>2, <1>6, <3>1, <3>2, TurnedSends
    <3>4. QED BY <3>3 DEF TurnsTo
  <2>2. /\ rec.root \in RootKey /\ Len(rec.root) \in Nat /\ rec.send.counter \in Nat
        /\ rec.send.key = rec.root
    BY <1>1, <1>2, <2>1, RecordFacts
  <2>3. r.prev = IF rec.send.counter = 0 THEN 0 ELSE rec.send.counter - 1
    BY <1>6 DEF Turned
  <2>4. ASSUME NEW n \in net, n.from = p, InSession(n, r)
        PROVE  Prefix(n.key, r.root) /\ (Len(r.root) = Len(n.key) + 1 => n.counter <= r.prev)
    <3>1. InSession(n, rec)
      BY <1>1, <1>2, <2>4 DEF InSession
    <3>2. Prefix(n.key, rec.root)
      BY <1>3, <2>4, <3>1 DEF SentBefore
    <3>3. n.key \in RootKey /\ Len(n.key) \in Nat /\ n.counter \in Nat
      BY MessageFacts
    <3>4. Prefix(n.key, r.root)
      BY <2>1, <2>2, <3>2, <3>3, PrefixFacts
    <3>5. ASSUME Len(r.root) = Len(n.key) + 1 PROVE n.counter <= r.prev
      <4>1. Len(rec.root) = Len(n.key)
        BY <2>1, <2>2, <3>3, <3>5
      <4>2. n.key = rec.root
        BY <2>2, <3>2, <3>3, <4>1, PrefixFacts
      <4>3. n.counter < rec.send.counter
        BY <1>1, <1>2, <2>1, <2>2, <4>2 DEF KeyInv, ChainsAhead, Sends
      <4>4. QED BY <2>2, <2>3, <3>3, <4>3
    <3>6. QED BY <3>4, <3>5
  <2>5. QED BY <1>1, <2>1, <2>4 DEF SentBefore
<1>7. Took(rec, m, r) \/ Continued(rec, m, r) => Stays(rec, r)
  BY <1>1, <1>3, TookStays, ContinuedStays
<1>8. QED BY <1>4, <1>5, <1>6, <1>7

\* One key, one message.
LEMMA OneMessage ==
  ASSUME KeyInv, NEW n \in net, NEW m \in net, n.key = m.key, n.counter = m.counter
  PROVE  n = m
BY DEF KeyInv, KeyNeverReused

LEMMA OwedTook ==
  ASSUME SignalTypeOK, KeyInv, NEW p \in Parties, NEW rec \in Record, Valid(rec),
         KeepsOwed(p, rec), NEW m \in net, NEW r, Took(rec, m, r),
         net' = net, accepted' = accepted \cup {m}
  PROVE  KeepsOwed(p, r)'
<1>1. m \in Message
  BY MessageFacts
<1>2. Stays(rec, r) /\ r.recv = rec.recv
  BY <1>1, TookStays
<1>3. ASSUME NEW n \in net \ accepted, n # m, Owes(rec, n) PROVE Owes(r, n)
  <2>1. CASE n.key = rec.recv.key /\ rec.recv.counter <= n.counter
    BY <1>2, <2>1 DEF Owes
  <2>2. CASE \E k \in Held(rec) : SameKey(k, n) /\ k.key = n.key
    <3>1. PICK k \in Held(rec) : SameKey(k, n) /\ k.key = n.key
      BY <2>2
    <3>2. ~(SameKey(k, m) /\ k.key = m.key)
      BY <1>3, <3>1, OneMessage DEF SameKey
    <3>3. k \in Held(r)
      BY <3>2 DEF Took
    <3>4. QED BY <3>1, <3>3 DEF Owes
  <2>3. QED BY <1>3, <2>1, <2>2 DEF Owes
<1>4. QED BY <1>2, <1>3 DEF KeepsOwed, Stays, InSession

LEMMA OwedContinued ==
  ASSUME SignalTypeOK, KeyInv, ChainOwner, NEW p \in Parties, NEW rec \in Record,
         KeepsOwed(p, rec), NEW m \in net, NEW r, Continued(rec, m, r),
         net' = net, accepted' = accepted \cup {m}
  PROVE  KeepsOwed(p, r)'
<1>1. /\ Stays(rec, r) /\ rec.recv # None /\ rec.remote = m.ratchet /\ m.key = rec.recv.key
      /\ rec.recv.counter <= m.counter /\ r.recv # None
      /\ r.recv.key = m.key /\ r.recv.counter = m.counter + 1
  BY ContinuedStays
<1>2. m.counter \in Nat
  BY MessageFacts
<1>3. ASSUME NEW n \in net \ accepted, n # m, Owes(rec, n) PROVE Owes(r, n)
  <2>1. CASE n.key = rec.recv.key /\ rec.recv.counter <= n.counter
    <3>1. PICK k \in SkippedKey : k.ratchet = n.ratchet /\ k.counter = n.counter /\ k.key = n.key
      BY <1>3, KeyOf
    <3>2. n.ratchet = m.ratchet /\ n.key = m.key
      BY <1>1, <2>1 DEF ChainOwner
    <3>3. n.counter \in Nat /\ n.counter # m.counter
      BY <1>3, <3>2, OneMessage, MessageFacts
    <3>4. CASE n.counter < m.counter
      <4>1. Passed(k, m.ratchet, rec.recv, m.counter - 1)
        BY <1>1, <1>2, <2>1, <3>1, <3>2, <3>3, <3>4 DEF Passed
      <4>2. k \in Held(r)
        BY <4>1 DEF Continued
      <4>3. QED BY <3>1, <4>2 DEF Owes, SameKey
    <3>5. CASE m.counter < n.counter
      BY <1>1, <1>2, <3>2, <3>3, <3>5 DEF Owes
    <3>6. QED BY <1>2, <3>3, <3>4, <3>5
  <2>2. CASE \E k \in Held(rec) : SameKey(k, n) /\ k.key = n.key
    BY <2>2 DEF Continued, Owes
  <2>3. QED BY <1>3, <2>1, <2>2 DEF Owes
<1>4. QED BY <1>1, <1>3 DEF KeepsOwed, Stays, InSession

LEMMA OwedTurned ==
  ASSUME SignalTypeOK, KeyInv, OneLine, ChainOwner, Answered, PrevSound,
         NEW p \in Parties, session[p] # None, NEW rec, rec = session[p], Standing(p, rec),
         SentBefore(p, rec), KeepsOwed(p, rec), NEW m \in net, m.from # p,
         NEW r, Turned(rec, m, r), net' = net, accepted' = accepted \cup {m}
  PROVE  KeepsOwed(p, r)'
<1>1. TurnsTo(rec, m, r)
  BY TurnedSends
<1>2. /\ rec.send # Uninitialized /\ m.key \in RootKey /\ Len(m.key) = Len(rec.root) + 1
      /\ Prefix(rec.root, m.key) /\ r.root = m.key /\ r.recv # None /\ r.recv.key = m.key
      /\ r.recv = [key |-> m.key, counter |-> m.counter + 1]
  BY <1>1 DEF TurnsTo
<1>3. /\ rec.root \in RootKey /\ Len(rec.root) \in Nat
      /\ rec.recv # None => rec.recv.key \in RootKey /\ Len(rec.recv.key) \in Nat
  BY RecordFacts
<1>4. m.counter \in Nat /\ m.key[1] = rec.root[1] /\ m.from \in Parties
  BY <1>2, <1>3, MessageFacts, PrefixFacts
<1>5. ASSUME NEW n \in net \ accepted, n # m, n.from # p, InSession(n, rec) PROVE Owes(r, n)
  <2>1. /\ n.key \in RootKey /\ Len(n.key) \in Nat /\ n.counter \in Nat /\ n.from \in Parties
        /\ OneTime(n) /\ n.key[1] = m.key[1]
    BY <1>4, <1>5, MessageFacts DEF InSession
  <2>2. PICK k \in SkippedKey : k.ratchet = n.ratchet /\ k.counter = n.counter /\ k.key = n.key
    BY <1>5, KeyOf
  <2>3. k \in Held(r) => Owes(r, n)
    BY <2>2 DEF Owes, SameKey
  <2>4. \/ rec.recv # None /\ Prefix(n.key, rec.recv.key)
        \/ Len(n.key) = Len(rec.root) + 1
    BY <1>5, PeerOnLine
  <2>5. CASE Len(n.key) = Len(rec.root) + 1
    <3>1. Prefix(n.key, m.key)
      BY <1>2, <1>3, <2>1, <2>5 DEF OneLine
    <3>2. n.key = m.key
      BY <1>2, <1>3, <2>1, <2>5, <3>1, PrefixFacts
    <3>3. n.ratchet = m.ratchet /\ n.counter # m.counter
      BY <1>5, <3>2, OneMessage DEF ChainOwner
    <3>4. CASE n.counter < m.counter
      <4>1. k \in Held(r)
        BY <2>2, <3>2, <3>3, <3>4 DEF Turned
      <4>2. QED BY <2>3, <4>1
    <3>5. CASE m.counter < n.counter
      BY <1>2, <1>4, <2>1, <3>2, <3>5 DEF Owes
    <3>6. QED BY <1>4, <2>1, <3>3, <3>4, <3>5
  <2>6. CASE rec.recv # None /\ Prefix(n.key, rec.recv.key)
    <3>1. Owes(rec, n)
      BY <1>5, <2>6 DEF KeepsOwed, Prefix
    <3>2. CASE n.key = rec.recv.key /\ rec.recv.counter <= n.counter
      <4>1. PICK w \in net : w.from # p /\ w.ratchet = rec.remote /\ w.key = rec.recv.key
        BY <2>6 DEF Standing
      <4>2. n.ratchet = rec.remote
        BY <3>2, <4>1 DEF ChainOwner
      <4>3. Len(rec.root) = Len(rec.recv.key) + 1
        BY <1>2, <2>6 DEF Standing
      <4>4. Len(m.key) = Len(n.key) + 2
        BY <1>2, <1>3, <2>1, <3>2, <4>3
      <4>5. n.from = m.from
        BY <1>4, <1>5, <2>1, PeerFacts
      <4>6. n.counter <= m.prev
        BY <2>1, <4>4, <4>5 DEF PrevSound
      <4>7. Passed(k, rec.remote, rec.recv, m.prev)
        BY <2>2, <3>2, <4>2, <4>6 DEF Passed
      <4>8. k \in Held(r)
        BY <2>6, <4>7 DEF Turned
      <4>9. QED BY <2>3, <4>8
    <3>3. CASE \E e \in Held(rec) : SameKey(e, n) /\ e.key = n.key
      BY <3>3 DEF Turned, Owes
    <3>4. QED BY <3>1, <3>2, <3>3 DEF Owes
  <2>7. QED BY <2>4, <2>5, <2>6
<1>6. QED BY <1>2, <1>4, <1>5 DEF KeepsOwed, InSession

LEMMA OwedReceive ==
  ASSUME SignalTypeOK, KeyInv, Dialogue, NEW p \in Parties, NEW m, NEW r, GoesOn(p, m, r)
  PROVE  KeepsOwed(p, r)'
<1>1. /\ m \in net /\ m.from # p /\ session[p] # None /\ session[p] \in Record
      /\ OwnKeys(p, session[p]) /\ Decrypts(session[p], m, r)
      /\ net' = net /\ accepted' = accepted \cup {m}
  BY GoesOnFacts
<1>2. PICK rec \in Record : rec = session[p] /\ rec # None
  BY <1>1
<1>3. /\ OneLine /\ ChainOwner /\ Answered /\ PrevSound
      /\ Standing(p, rec) /\ SentBefore(p, rec) /\ KeepsOwed(p, rec) /\ Valid(rec)
  BY <1>1, <1>2 DEF Dialogue, Ends, OwnKeys
<1>4. Took(rec, m, r) \/ Continued(rec, m, r) \/ Turned(rec, m, r)
  BY <1>1, <1>2 DEF Decrypts
<1>5. CASE Took(rec, m, r)
  BY <1>1, <1>3, <1>5, OwedTook
<1>6. CASE Continued(rec, m, r)
  BY <1>1, <1>3, <1>6, OwedContinued
<1>7. CASE Turned(rec, m, r)
  BY <1>1, <1>2, <1>3, <1>7, OwedTurned
<1>8. QED BY <1>4, <1>5, <1>6, <1>7

\* A new session starts with both ends in agreement.
LEMMA BeginsEnds ==
  ASSUME SignalTypeOK, KeyInv, Dialogue, NEW p \in Parties, NEW m, NEW r, Begins(p, m, r)
  PROVE  Standing(p, r)' /\ SentBefore(p, r)' /\ KeepsOwed(p, r)'
<1>1. /\ m \in net /\ m.from # p /\ m.pre.oneTime \in preKeys[p] \cup {None}
      /\ m.pre.oneTime = m.key[1].oneTime /\ m.key[1].base[1] = m.from
      /\ net' = net /\ accepted' = accepted \cup {m} /\ BootstrapOK(p, m, r)
  BY BeginsFacts
<1>2. /\ r.root = m.key /\ r.send = Uninitialized /\ r.recv # None /\ r.remote = m.ratchet
      /\ r.recv = [key |-> m.key, counter |-> m.counter + 1] /\ Len(m.key) = 2
      /\ \A k \in SkippedKey :
           k.ratchet = m.ratchet /\ k.key = m.key /\ k.counter < m.counter => k \in Held(r)
  BY <1>1 DEF BootstrapOK
<1>3. m.counter \in Nat /\ m.key \in RootKey
  BY <1>1, MessageFacts
<1>4. r.recv.key = m.key /\ r.recv.counter = m.counter + 1
  BY <1>2
<1>5. Standing(p, r)'
  <2>1. r.recv.counter <= m.counter + 1
    BY <1>3, <1>4
  <2>2. QED BY <1>1, <1>2, <1>4, <2>1 DEF Standing
<1>6. SentBefore(p, r)'
  <2>1. SUFFICES ASSUME NEW n \in net, n.from = p, InSession(n, r) PROVE FALSE
    BY <1>1 DEF SentBefore
  <2>2. OneTime(n) /\ n.key[1] = m.key[1]
    BY <1>2, <2>1 DEF InSession
  <2>3. n.key[1].oneTime # None
    BY <2>2, MessageFacts
  <2>4. QED BY <1>1, <2>1, <2>2, <2>3 DEF Dialogue, Silent
<1>7. ASSUME NEW n \in net \ accepted, n # m, n.from # p, InSession(n, r), Len(n.key) <= Len(r.recv.key)
      PROVE  Owes(r, n)
  <2>1. /\ n.key \in RootKey /\ Len(n.key) \in Nat /\ 2 <= Len(n.key) /\ n.counter \in Nat
        /\ OneTime(n) /\ n.key[1] = m.key[1]
    BY <1>2, <1>7, MessageFacts DEF InSession
  <2>2. PICK k \in SkippedKey : k.ratchet = n.ratchet /\ k.counter = n.counter /\ k.key = n.key
    BY <1>7, KeyOf
  <2>3. Len(n.key) = Len(m.key)
    <3>1. Len(m.key) = 2 /\ Len(r.recv.key) = 2
      BY <1>2, <1>4
    <3>2. PICK len \in Nat : len = Len(n.key) /\ 2 <= len
      BY <2>1
    <3>3. len <= 2
      BY <1>7, <3>1, <3>2
    <3>4. len = 2
      BY <3>2, <3>3
    <3>5. QED BY <3>1, <3>2, <3>4
  <2>4. Prefix(n.key, m.key)
    BY <1>1, <2>1, <2>3 DEF Dialogue, OneLine
  <2>5. n.key = m.key
    BY <1>3, <2>1, <2>3, <2>4, PrefixFacts
  <2>6. n.ratchet = m.ratchet /\ n.counter # m.counter
    BY <1>1, <1>7, <2>5, OneMessage DEF Dialogue, ChainOwner
  <2>7. CASE n.counter < m.counter
    <3>1. k \in Held(r)
      BY <1>2, <2>2, <2>5, <2>6, <2>7
    <3>2. QED BY <2>2, <3>1 DEF Owes, SameKey
  <2>8. CASE m.counter < n.counter
    BY <1>3, <1>4, <2>1, <2>5, <2>8 DEF Owes
  <2>9. QED BY <1>3, <2>1, <2>6, <2>7, <2>8
<1>8. KeepsOwed(p, r)'
  BY <1>1, <1>7 DEF KeepsOwed
<1>9. QED BY <1>5, <1>6, <1>8

\* Receiving leaves the sending chain alone, or ends it.
LEMMA ReceiveEndsChain ==
  ASSUME SignalTypeOK, KeyInv, Dialogue, NEW p \in Parties, NEW m, NEW r,
         GoesOn(p, m, r) \/ Begins(p, m, r)
  PROVE  /\ \/ r.send = Uninitialized
            \/ Sends(p) /\ r.send = session[p].send /\ r.local = session[p].local
         /\ r.send.counter <= Cardinality(Sent(p)) /\ r.prev <= Cardinality(Sent(p))
<1>1. Cardinality(Sent(p)) \in Nat
  <2>1. IsFiniteSet(Sent(p))
    BY FS_Subset DEF SignalTypeOK, Sent
  <2>2. QED BY <2>1, FS_CardinalityType
<1>2. Uninitialized.counter = 0
  BY DEF Uninitialized
<1>3. CASE Begins(p, m, r)
  <2>1. r.send = Uninitialized /\ r.prev = 0
    BY <1>3 DEF Begins, BootstrapOK
  <2>2. r.send.counter = 0
    BY <1>2, <2>1
  <2>3. r.send.counter <= Cardinality(Sent(p)) /\ r.prev <= Cardinality(Sent(p))
    BY <1>1, <2>1, <2>2
  <2>4. QED BY <2>1, <2>3
<1>4. CASE GoesOn(p, m, r)
  <2>1. /\ m \in net /\ m \in Message /\ session[p] # None /\ session[p] \in Record
        /\ OwnKeys(p, session[p]) /\ Decrypts(session[p], m, r)
    BY <1>4, GoesOnFacts
  <2>2. PICK rec \in Record : rec = session[p] /\ rec # None
    BY <2>1
  <2>3. /\ rec.send.counter \in Nat /\ rec.prev \in Nat /\ Valid(rec)
        /\ rec.send.counter <= Cardinality(Sent(p)) /\ rec.prev <= Cardinality(Sent(p))
    BY <2>1, <2>2, RecordFacts DEF Dialogue, Counted, OwnKeys
  <2>4. Took(rec, m, r) \/ Continued(rec, m, r) \/ Turned(rec, m, r)
    BY <2>1, <2>2 DEF Decrypts
  <2>5. CASE Turned(rec, m, r)
    <3>1. /\ r.send = Uninitialized
          /\ r.prev = IF rec.send.counter = 0 THEN 0 ELSE rec.send.counter - 1
      BY <2>5 DEF Turned, Moved
    <3>2. r.send.counter = 0
      BY <1>2, <3>1
    <3>3. r.send.counter <= Cardinality(Sent(p)) /\ r.prev <= Cardinality(Sent(p))
      BY <1>1, <2>3, <3>1, <3>2
    <3>4. QED BY <3>1, <3>3
  <2>6. CASE Took(rec, m, r) \/ Continued(rec, m, r)
    <3>1. Stays(rec, r)
      BY <2>1, <2>3, <2>6, TookStays, ContinuedStays
    <3>2. QED BY <2>2, <2>3, <3>1 DEF Stays, Sends
  <2>7. QED BY <2>4, <2>5, <2>6
<1>5. QED BY <1>3, <1>4

LEMMA DialogueReceive ==
  ASSUME SignalTypeOK, KeyInv, Dialogue, NEW p \in Parties, NEW m, NEW r,
         GoesOn(p, m, r) \/ Begins(p, m, r)
  PROVE  Dialogue'
<1>1. /\ session'[p] = r /\ \A q \in Parties : q # p => session'[q] = session[q]
      /\ net' = net /\ accepted \subseteq accepted'
  BY GoesOnFacts, BeginsFacts
<1>2. \A q \in Parties : preKeys'[q] \subseteq preKeys[q]
  <2>1. CASE GoesOn(p, m, r)
    BY <2>1, GoesOnFacts
  <2>2. CASE Begins(p, m, r)
    <3>1. preKeys' = [preKeys EXCEPT ![p] = @ \ {m.pre.oneTime}]
      BY <2>2, BeginsFacts
    <3>2. QED BY <3>1 DEF SignalTypeOK
  <2>3. QED BY <2>1, <2>2
<1>3. /\ \/ r.send = Uninitialized
         \/ Sends(p) /\ r.send = session[p].send /\ r.local = session[p].local
      /\ r.send.counter <= Cardinality(Sent(p)) /\ r.prev <= Cardinality(Sent(p))
  BY ReceiveEndsChain
<1>4. OneLine' /\ Answered' /\ PrevSound'
  BY <1>1 DEF Dialogue, OneLine, Answered, PrevSound
<1>5. ChainOwner'
  <2>1. ASSUME NEW q \in Parties, Sends(q)'
        PROVE  Sends(q) /\ session'[q].send = session[q].send /\ session'[q].local = session[q].local
    <3>1. CASE q = p
      BY <1>1, <1>3, <2>1, <3>1 DEF Sends
    <3>2. CASE q # p
      BY <1>1, <2>1, <3>2 DEF Sends
    <3>3. QED BY <3>1, <3>2
  <2>2. QED BY <1>1, <2>1 DEF Dialogue, ChainOwner
<1>6. Silent'
  <2>1. \A n \in net : n.from \in Parties
    BY MessageFacts
  <2>2. QED BY <1>1, <1>2, <2>1 DEF Dialogue, Silent
<1>7. Counted'
  <2>1. ASSUME NEW q \in Parties, session'[q] # None
        PROVE  /\ session'[q].send.counter <= Cardinality(Sent(q))
               /\ session'[q].prev <= Cardinality(Sent(q))
    <3>1. CASE q = p
      BY <1>1, <1>3, <3>1
    <3>2. CASE q # p
      BY <1>1, <2>1, <3>2 DEF Dialogue, Counted
    <3>3. QED BY <3>1, <3>2
  <2>2. \A q \in Parties : Sent(q)' = Sent(q)
    BY <1>1 DEF Sent
  <2>3. QED BY <1>1, <2>1, <2>2 DEF Dialogue, Counted
<1>8. ASSUME NEW q \in Parties, session'[q] # None
      PROVE  Standing(q, session[q])' /\ SentBefore(q, session[q])' /\ KeepsOwed(q, session[q])'
  <2>1. CASE q = p
    <3>1. Standing(p, r)' /\ SentBefore(p, r)' /\ KeepsOwed(p, r)'
      BY StandingReceive, SentBeforeReceive, OwedReceive, BeginsEnds
    <3>2. QED BY <1>1, <2>1, <3>1
  <2>2. CASE q # p
    <3>1. PICK o : o = session[q] /\ o = session'[q] /\ o # None
      BY <1>1, <1>8, <2>2
    <3>2. Standing(q, o) /\ SentBefore(q, o) /\ KeepsOwed(q, o)
      BY <3>1 DEF Dialogue, Ends
    <3>3. Standing(q, o)' /\ SentBefore(q, o)' /\ KeepsOwed(q, o)'
      BY <1>1, <3>2 DEF Standing, SentBefore, KeepsOwed
    <3>4. QED BY <3>1, <3>3
  <2>3. QED BY <2>1, <2>2
<1>9. Ends'
  BY <1>8 DEF Ends
<1>10. QED BY <1>4, <1>5, <1>6, <1>7, <1>9 DEF Dialogue

LEMMA DialogueStay ==
  ASSUME SignalTypeOK, Dialogue, net' = net, accepted' = accepted, preKeys' = preKeys,
         \A q \in Parties : session'[q] = None \/ session'[q] = session[q]
  PROVE  Dialogue'
<1>1. OneLine' /\ Answered' /\ PrevSound' /\ Silent'
  BY DEF Dialogue, OneLine, Answered, PrevSound, Silent
<1>2. ChainOwner'
  BY DEF Dialogue, ChainOwner, Sends
<1>3. Counted'
  <2>1. \A q \in Parties : Sent(q)' = Sent(q)
    BY DEF Sent
  <2>2. QED BY <2>1 DEF Dialogue, Counted
<1>4. ASSUME NEW q \in Parties, session'[q] # None
      PROVE  Standing(q, session[q])' /\ SentBefore(q, session[q])' /\ KeepsOwed(q, session[q])'
  <2>1. PICK o : o = session[q] /\ o = session'[q] /\ o # None
    BY <1>4
  <2>2. Standing(q, o) /\ SentBefore(q, o) /\ KeepsOwed(q, o)
    BY <2>1 DEF Dialogue, Ends
  <2>3. Standing(q, o)' /\ SentBefore(q, o)' /\ KeepsOwed(q, o)'
    BY <2>2 DEF Standing, SentBefore, KeepsOwed
  <2>4. QED BY <2>1, <2>3
<1>5. QED BY <1>1, <1>2, <1>3, <1>4 DEF Dialogue, Ends

LEMMA DialogueStart == Init => Dialogue
<1>1. SUFFICES ASSUME Init PROVE Dialogue
  OBVIOUS
<1>2. net = {} /\ \A p \in Parties : session[p] = None
  BY <1>1 DEF Init
<1>3. QED BY <1>2 DEF Dialogue, OneLine, ChainOwner, Answered, PrevSound, Silent, Counted, Ends, Sends

LEMMA DialogueStep ==
  ASSUME SignalTypeOK, KeyInv, KeyInv', PreKeyInv, Dialogue, [Next]_vars
  PROVE  Dialogue'
<1>1. CASE UNCHANGED <<session, keyCount, net, preKeys, accepted, twice>>
  BY <1>1, DialogueStay
<1>2. ASSUME NEW p \in Parties, Drops(p) PROVE Dialogue'
  BY <1>2, DialogueStay DEF Drops, SignalTypeOK
<1>3. ASSUME NEW p \in Parties, NEW rec \in Record, NEW m \in Message, Sending(p, rec, m)
      PROVE  Dialogue'
  BY <1>3, DialogueSend
<1>4. ASSUME NEW p \in Parties, NEW m \in Message, NEW r \in Record,
             GoesOn(p, m, r) \/ Begins(p, m, r)
      PROVE  Dialogue'
  BY <1>4, DialogueReceive
<1>5. QED BY <1>1, <1>2, <1>3, <1>4, SignalSteps

(* The chains of a session form one line, on which the two parties take     *)
(* turns, and each record of the provider still has a key, or a chain to    *)
(* derive it from, for every message of its session not yet decrypted.      *)
THEOREM DialogueAlways == Spec => []Dialogue
<1>1. Spec => [](SignalTypeOK /\ KeyInv)
  BY SignalKeysAlways
<1>2. Spec => []PreKeyInv
  BY PreKeysAlways
<1>3. Init => Dialogue
  BY DialogueStart
<1>4. SignalTypeOK /\ KeyInv /\ KeyInv' /\ PreKeyInv /\ Dialogue /\ [Next]_vars => Dialogue'
  BY DialogueStep
<1>5. QED BY <1>1, <1>2, <1>3, <1>4, PTL DEF Spec

-----------------------------------------------------------------------------
(* What can be decrypted is.                                               *)

\* Storing the keys up to a message and moving past it gives a record.
LEMMA MovesPast ==
  ASSUME NEW c \in Record, c.recv \in MessageChain, NEW w \in Message
  PROVE  [StoreSkipped(c, w.ratchet, c.recv, w.counter - 1) EXCEPT !.recv.counter = w.counter + 1]
           \in Record
<1>1. PICK last \in Int, chain \in MessageChain, ratchet \in KeyPair :
        last = w.counter - 1 /\ chain = c.recv /\ ratchet = w.ratchet
  BY DEF Message
<1>2. PICK s : s = StoreSkipped(c, ratchet, chain, last)
  OBVIOUS
<1>3. Skips(c, ratchet, chain, last, s)
  BY <1>2, StoreSkippedFacts
<1>4. s \in Record /\ s.recv = chain
  BY <1>1, <1>3 DEF Skips, Record
<1>5. PICK n \in Nat : n = w.counter + 1
  BY DEF Message
<1>6. [s EXCEPT !.recv.counter = n] \in Record
  <2>1. [chain EXCEPT !.counter = n] \in MessageChain
    BY DEF MessageChain
  <2>2. [s EXCEPT !.recv.counter = n] = [s EXCEPT !.recv = [chain EXCEPT !.counter = n]]
    BY <1>4
  <2>3. QED BY <1>4, <2>1, <2>2 DEF Record
<1>7. QED BY <1>1, <1>2, <1>5, <1>6

LEMMA DhRatchetFacts ==
  ASSUME NEW rec \in Record, Valid(rec), NEW w \in Message, NEW c, c = DhRatchet(rec, w)
  PROVE  /\ c \in Record /\ c.recv \in MessageChain /\ c.recv.counter = 0
         /\ c.recv.key = RootStep(rec.root, rec.local, w.ratchet)
<1>1. w.prev \in Nat /\ w.ratchet \in KeyPair
  BY DEF Message
<1>2. PICK root \in RootKey : root = RootStep(rec.root, rec.local, w.ratchet)
  BY <1>1, RootStepFacts DEF Record
<1>3. PICK e : e = IF rec.recv = None THEN rec
                   ELSE StoreSkipped(rec, rec.remote, rec.recv, w.prev)
  OBVIOUS
<1>4. e \in Record
  <2>1. CASE rec.recv = None
    BY <1>3, <2>1
  <2>2. CASE rec.recv # None
    <3>1. rec.recv \in MessageChain /\ rec.remote \in KeyPair
      BY <2>2 DEF Record, Valid
    <3>2. PICK last \in Int, chain \in MessageChain, ratchet \in KeyPair :
            last = w.prev /\ chain = rec.recv /\ ratchet = rec.remote
      BY <1>1, <3>1
    <3>3. Skips(rec, ratchet, chain, last, e)
      BY <1>3, <2>2, <3>2, StoreSkippedFacts
    <3>4. QED BY <3>3 DEF Skips, Record
  <2>3. QED BY <2>1, <2>2
<1>5. PICK prev \in Nat : prev = IF rec.send.counter = 0 THEN 0 ELSE rec.send.counter - 1
  <2>1. rec.send.counter \in Nat
    BY DEF Record, MessageChain, Uninitialized
  <2>2. QED BY <2>1
<1>6. c = [e EXCEPT !.prev = prev, !.root = root, !.recv = Chain(root),
                    !.remote = w.ratchet, !.send = Uninitialized]
  BY <1>2, <1>3, <1>5 DEF DhRatchet
<1>7. PICK chain \in MessageChain : chain = Chain(root) /\ chain.counter = 0 /\ chain.key = root
  BY ChainFacts
<1>8. c \in Record /\ c.recv = chain
  BY <1>1, <1>4, <1>6, <1>7 DEF Record
<1>9. QED BY <1>2, <1>7, <1>8

\* A message with a stored key.
LEMMA StoredAdvances ==
  ASSUME SignalTypeOK, Paired, NEW rec \in Record, SkippedOf(rec), NEW m \in net,
         NEW k \in ToSet(rec.skipped), SameKey(k, m)
  PROVE  Advance(rec, m) \in Record
<1>1. \E j \in DOMAIN rec.skipped : SameKey(rec.skipped[j], m)
  BY DEF ToSet
<1>2. PICK i : i = CHOOSE n \in DOMAIN rec.skipped : SameKey(rec.skipped[n], m)
  OBVIOUS
<1>3. i \in DOMAIN rec.skipped /\ SameKey(rec.skipped[i], m)
  BY <1>1, <1>2
<1>4. rec.skipped[i].key = m.key
  <2>1. PICK n \in net : n.ratchet = rec.skipped[i].ratchet /\ n.key = rec.skipped[i].key
    BY <1>3 DEF SkippedOf, ToSet
  <2>2. QED BY <1>3, <2>1 DEF Paired, SameKey
<1>5. PICK r : r = [rec EXCEPT !.skipped = RemoveAt(rec.skipped, i)]
  OBVIOUS
<1>6. Advance(rec, m) = r
  <2>1. Advance(rec, m) = [rec EXCEPT !.skipped = RemoveAt(@, i)]
    BY <1>1, <1>2, <1>4 DEF Advance, DecryptStored
  <2>2. QED BY <1>5, <2>1 DEF Record
<1>7. Taken(rec, m, r)
  BY <1>3, <1>4, <1>5 DEF Taken
<1>8. QED BY <1>6, <1>7, TakenFacts

\* A message of the receiving chain.
LEMMA ChainAdvances ==
  ASSUME SignalTypeOK, NEW rec \in Record, NEW m \in net,
         \A k \in ToSet(rec.skipped) : ~SameKey(k, m),
         rec.recv # None, rec.remote = m.ratchet, rec.recv.key = m.key,
         rec.recv.counter <= m.counter, m.counter <= MaxJump
  PROVE  Advance(rec, m) \in Record
<1>1. m \in Message /\ m.counter \in Nat /\ rec.recv \in MessageChain
  BY DEF SignalTypeOK, Message, Record
<1>2. rec.recv.counter \in Nat
  BY <1>1 DEF MessageChain
<1>3. ~(m.counter < rec.recv.counter) /\ ~(m.counter > rec.recv.counter + MaxJump)
  BY <1>1, <1>2, RatchetAssumption
<1>4. ~\E i \in DOMAIN rec.skipped : SameKey(rec.skipped[i], m)
  BY DEF ToSet
<1>5. Advance(rec, m) = [StoreSkipped(rec, m.ratchet, rec.recv, m.counter - 1)
                           EXCEPT !.recv.counter = m.counter + 1]
  BY <1>3, <1>4 DEF Advance, DecryptOnChain
<1>6. QED BY <1>1, <1>5, MovesPast

\* A message of the next chain.
LEMMA MoveAdvances ==
  ASSUME SignalTypeOK, NEW rec \in Record, Valid(rec), NEW m \in net,
         \A k \in ToSet(rec.skipped) : k.ratchet # m.ratchet,
         rec.remote # m.ratchet \/ rec.recv = None,
         m.key = RootStep(rec.root, rec.local, m.ratchet),
         m.counter <= MaxJump, m.prev <= MaxJump
  PROVE  Advance(rec, m) \in Record
<1>1. m \in Message /\ m.counter \in Nat /\ m.prev \in Nat
  BY DEF SignalTypeOK, Message
<1>2. PICK c : c = DhRatchet(rec, m)
  OBVIOUS
<1>3. c \in Record /\ c.recv \in MessageChain /\ c.recv.counter = 0 /\ c.recv.key = m.key
  BY <1>1, <1>2, DhRatchetFacts
<1>4. ~(m.counter < c.recv.counter) /\ ~(m.counter > c.recv.counter + MaxJump)
  BY <1>1, <1>3, RatchetAssumption
<1>5. ~(rec.recv # None /\ m.prev > rec.recv.counter + MaxJump)
  <2>1. rec.recv # None => rec.recv.counter \in Nat
    BY DEF Record, MessageChain
  <2>2. QED BY <1>1, <2>1, RatchetAssumption
<1>6. {n \in DOMAIN rec.skipped : rec.skipped[n].ratchet = m.ratchet} = {}
  BY DEF ToSet
<1>7. ~\E i \in DOMAIN rec.skipped : SameKey(rec.skipped[i], m)
  BY <1>6 DEF SameKey
<1>8. {rec.skipped[i].counter :
         i \in {n \in DOMAIN rec.skipped : rec.skipped[n].ratchet = m.ratchet}} = {}
  BY <1>6
<1>9. Advance(rec, m) = [StoreSkipped(c, m.ratchet, c.recv, m.counter - 1)
                           EXCEPT !.recv.counter = m.counter + 1]
  <2>1. Advance(rec, m) = DecryptOnChain(rec, m)
    BY <1>7 DEF Advance
  <2>2. QED BY <1>2, <1>3, <1>4, <1>5, <1>8, <2>1 DEF DecryptOnChain
<1>10. QED BY <1>1, <1>3, <1>9, MovesPast

\* Validation does not refuse what the ratchet produces.
LEMMA AdvancesDecrypts ==
  ASSUME SignalTypeOK, Paired, NEW p \in Parties, NEW m \in net, NEW rec \in Record,
         OwnKeys(p, rec), SkippedOf(rec), Advance(rec, m) \in Record
  PROVE  Decrypt(rec, m) # None
<1>1. PICK r \in Record : r = Advance(rec, m)
  OBVIOUS
<1>2. r # None /\ rec # None
  BY SessionAssumption
<1>3. Valid(r) /\ Valid(rec)
  BY <1>1, <1>2, AdvanceValid DEF OwnKeys
<1>4. QED BY <1>1, <1>2, <1>3 DEF Decrypt

LEMMA OwedAdvances ==
  ASSUME SignalTypeOK, KeyInv, SkippedInv, Dialogue, NEW m \in net \ accepted,
         NEW p \in Parties, p # m.from, session[p] # None, NEW rec, rec = session[p],
         InSession(m, rec), \A k \in rec.lost : ~(SameKey(k, m) /\ k.key = m.key),
         MaxSends <= MaxJump + 1
  PROVE  Advance(rec, m) \in Record
<1>1. /\ rec \in Record /\ OwnKeys(p, rec) /\ Valid(rec) /\ Len(rec.root) \in Nat
      /\ rec.recv # None => /\ rec.recv.counter \in Nat /\ Len(rec.recv.key) \in Nat
                            /\ Len(rec.recv.key) <= Len(rec.root)
  BY RecordFacts DEF OwnKeys
<1>2. /\ Paired /\ SkippedOf(rec) /\ Standing(p, rec) /\ SentBefore(p, rec) /\ KeepsOwed(p, rec)
      /\ OneLine /\ ChainOwner /\ Answered
  BY DEF SkippedInv, Dialogue, Ends
<1>3. m.counter \in Nat /\ m.prev \in Nat /\ m.counter <= MaxJump /\ m.prev <= MaxJump
  <2>1. m.counter \in Nat /\ m.prev \in Nat
    BY MessageFacts
  <2>2. m.counter < MaxSends /\ m.prev < MaxSends
    BY DEF Dialogue, Counted
  <2>3. QED BY <2>1, <2>2, SessionAssumption, RatchetAssumption
<1>4. CASE \E k \in ToSet(rec.skipped) : SameKey(k, m)
  BY <1>1, <1>2, <1>4, StoredAdvances
<1>5. CASE \A k \in ToSet(rec.skipped) : ~SameKey(k, m)
  <2>1. \/ rec.recv # None /\ Prefix(m.key, rec.recv.key)
        \/ /\ m.key = RootStep(rec.root, rec.local, m.ratchet)
           /\ Len(m.key) = Len(rec.root) + 1
    BY <1>2, PeerOnLine
  <2>2. CASE rec.recv # None /\ Prefix(m.key, rec.recv.key)
    <3>1. Owes(rec, m)
      BY <1>2, <2>2 DEF KeepsOwed, Prefix
    <3>2. m.key = rec.recv.key /\ rec.recv.counter <= m.counter
      BY <1>5, <3>1 DEF Owes, Held
    <3>3. PICK w \in net : w.ratchet = rec.remote /\ w.key = rec.recv.key
      BY <1>2, <2>2 DEF Standing
    <3>4. rec.remote = m.ratchet
      BY <1>2, <3>2, <3>3 DEF ChainOwner
    <3>5. QED BY <1>1, <1>3, <1>5, <2>2, <3>2, <3>4, ChainAdvances
  <2>3. CASE m.key = RootStep(rec.root, rec.local, m.ratchet) /\ Len(m.key) = Len(rec.root) + 1
    <3>1. rec.remote # m.ratchet \/ rec.recv = None
      <4>1. SUFFICES ASSUME rec.remote = m.ratchet, rec.recv # None PROVE FALSE
        OBVIOUS
      <4>2. PICK w \in net : w.ratchet = rec.remote /\ w.key = rec.recv.key
        BY <1>2, <4>1 DEF Standing
      <4>3. m.key = rec.recv.key
        BY <1>2, <4>1, <4>2 DEF Paired
      <4>4. QED BY <1>1, <2>3, <4>1, <4>3
    <3>2. ASSUME NEW k \in ToSet(rec.skipped), k.ratchet = m.ratchet PROVE FALSE
      <4>1. PICK n \in net : n.ratchet = k.ratchet /\ n.key = k.key
        BY <1>2 DEF SkippedOf
      <4>2. m.key = k.key
        BY <1>2, <3>2, <4>1 DEF Paired
      <4>3. Len(k.key) <= Len(rec.root) /\ Len(k.key) \in Nat
        BY <1>1, <1>2, SkippedFacts
      <4>4. QED BY <1>1, <2>3, <4>2, <4>3
    <3>3. QED BY <1>1, <1>3, <2>3, <3>1, <3>2, MoveAdvances
  <2>4. QED BY <2>1, <2>2, <2>3
<1>6. QED BY <1>4, <1>5

(* While both ends are in one session, every order of delivery of its      *)
(* messages to decrypt_session_record_message leaves each of them          *)
(* decryptable until it is accepted, but for the keys that gave way at the *)
(* limit on skipped ones.                                                  *)
THEOREM SameSessionDecryptsAlways == Spec => []SameSessionDecrypts
<1>1. ASSUME SignalTypeOK, KeyInv, SkippedInv, Dialogue PROVE SameSessionDecrypts
  <2>1. SUFFICES ASSUME NEW m \in net \ accepted, NEW rec, rec = session[Peer(m.from)],
                        rec # None, SessionOf(rec) = SessionOf(m), OneTime(m),
                        \A k \in rec.lost : ~(SameKey(k, m) /\ k.key = m.key),
                        MaxSends <= MaxJump + 1
                 PROVE  Decrypt(rec, m) # None
    BY DEF SameSessionDecrypts
  <2>2. m \in Message /\ m.from \in Parties
    BY <1>1, MessageFacts
  <2>3. PICK p \in Parties : p = Peer(m.from) /\ p # m.from
    BY <2>2, PeerFacts
  <2>4. rec = session[p] /\ rec \in Record /\ OwnKeys(p, rec) /\ SkippedOf(rec) /\ Paired
    BY <1>1, <2>1, <2>3, RecordFacts DEF SkippedInv
  <2>5. InSession(m, rec)
    BY <2>1, <2>2, <2>4 DEF InSession, SessionOf, Record, Message
  <2>6. Advance(rec, m) \in Record
    BY <1>1, <2>1, <2>3, <2>4, <2>5, OwedAdvances
  <2>7. QED BY <1>1, <2>3, <2>4, <2>6, AdvancesDecrypts
<1>2. Spec => [](SignalTypeOK /\ KeyInv)
  BY SignalKeysAlways
<1>3. Spec => []SkippedInv
  BY SkippedAlways
<1>4. Spec => []Dialogue
  BY DialogueAlways
<1>5. QED BY <1>1, <1>2, <1>3, <1>4, PTL
=============================================================================
