--------------------------- MODULE RequestsProofs ---------------------------
(***************************************************************************)
(* The tables behind request keys, for every number of keys, every ceiling *)
(* and every sequence of requests, cancellations, refused acknowledgements *)
(* and restarts: they agree with the queues they are evicted by, nothing   *)
(* stays reserved, a key commits again only after the ceiling's worth of   *)
(* other keys, and a retry hears a decision that was made for it.          *)
(***************************************************************************)
EXTENDS Requests, TLAPS, FiniteSetTheorems, SequenceTheorems

(* The queue of a table lists each of its keys once.                        *)
Lists(seq, keys) ==
  /\ seq \in Seq(keys)
  /\ \A k \in keys : \E i \in 1 .. Len(seq) : seq[i] = k
  /\ \A i, j \in 1 .. Len(seq) : i # j => seq[i] # seq[j]

Table(f, seq) ==
  /\ DOMAIN f \subseteq Key
  /\ Cardinality(DOMAIN f) <= MaxRequestCache
  /\ Lists(seq, DOMAIN f)

Entry == [key : Key, attempt : Nat, process : Nat]

Tables ==
  /\ opened \in BOOLEAN /\ inside \in {0} \cup Key
  /\ Table(request_cache, request_order)
  /\ Table(requests_, order_)
  /\ DOMAIN saved \subseteq Key /\ Cardinality(DOMAIN saved) <= MaxRequestCache
  /\ decided \in Seq(Entry) /\ restarts \in Nat /\ process \in Nat
  /\ \A i \in 1 .. Len(decided) : decided[i].process <= process

(* While an operation runs its key is the only one that has not committed,  *)
(* the last one registered, and has no decision on record.                  *)
Settled ==
  /\ \A k \in DOMAIN requests_ :
       requests_[k] = IF k = inside THEN "Active" ELSE "Committed"
  /\ inside # 0 =>
       /\ inside \in DOMAIN requests_ /\ inside \notin DOMAIN request_cache
       /\ order_[Len(order_)] = inside

RInv == Tables /\ Settled

(* The keys decided after the i-th decision, but its own.                   *)
Since(i) == {decided[m].key : m \in i + 1 .. Len(decided)} \ {decided[i].key}

CommittedHere(i) == decided[i].process = process /\ decided[i].attempt # NoAttempt

(* A key that committed in this process is registered, and every key behind *)
(* it in the queue was decided since; or enough others were, counting the   *)
(* one whose operation is running.                                          *)
EvictionEarned ==
  \A i \in 1 .. Len(decided) : CommittedHere(i) =>
    LET k == decided[i].key IN
    IF k \in DOMAIN requests_ /\ k # inside
    THEN \A p, q \in 1 .. Len(order_) :
           p < q /\ order_[p] = k /\ order_[q] # inside => order_[q] \in Since(i)
    ELSE Cardinality(Since(i) \cup ({inside} \ {0, k})) >= MaxRequestCache

(* What the snapshot would bring back was decided too.                      *)
SavedDecided ==
  \A k \in DOMAIN saved \cap (Key \ AckKeys) :
    \E i \in 1 .. Len(decided) : decided[i].key = k /\ decided[i].attempt = saved[k]

ClosedOnce == ~opened => restarts > 0

-----------------------------------------------------------------------------
(* Sets of keys are finite, and change by one key at a time.                *)
LEMMA KeySets ==
  /\ \A S \in SUBSET Key : IsFiniteSet(S) /\ Cardinality(S) \in Nat
  /\ \A S \in SUBSET Key, k \in Key :
       /\ k \notin S => Cardinality(S \cup {k}) = Cardinality(S) + 1
       /\ k \in S => Cardinality(S \ {k}) = Cardinality(S) - 1
<1>1. \A S \in SUBSET Key : IsFiniteSet(S)
  <2>1. IsFiniteSet(Key)
    BY RequestsAssumption, FS_Interval DEF Key
  <2> QED  BY <2>1, FS_Subset
<1>2. \A S \in SUBSET Key : Cardinality(S) \in Nat
  BY <1>1, FS_CardinalityType
<1>3. \A S \in SUBSET Key, k \in Key :
        k \notin S => Cardinality(S \cup {k}) = Cardinality(S) + 1
  BY <1>1, FS_AddElement
<1>4. \A S \in SUBSET Key, k \in Key :
        k \in S => Cardinality(S \ {k}) = Cardinality(S) - 1
  BY <1>1, FS_RemoveElement
<1> QED  BY <1>1, <1>2, <1>3, <1>4

(* A larger set of keys has no fewer.                                       *)
LEMMA KeySubsets ==
  ASSUME NEW T \in SUBSET Key, NEW S \in SUBSET T
  PROVE  Cardinality(S) <= Cardinality(T)
<1>1. IsFiniteSet(T)
  BY KeySets
<1> QED  BY <1>1, FS_Subset

(* A queue that lists keys once is as long as the table is large.           *)
LEMMA ListsCount ==
  ASSUME NEW seq, NEW S, Lists(seq, S)
  PROVE  Len(seq) = Cardinality(S) /\ Range(seq) = S
<1>1. /\ Len(seq) \in Nat /\ seq \in [1 .. Len(seq) -> S] /\ DOMAIN seq = 1 .. Len(seq)
  BY DEF Lists
<1>2. seq \in Bijection(1 .. Len(seq), S)
  BY <1>1 DEF Lists, Bijection, Injection, Surjection, IsInjective, Range
<1>3. Len(seq) = Cardinality(S)
  BY <1>1, <1>2, FS_CountingElements DEF ExistsBijection
<1>4. Range(seq) = S
  BY <1>1 DEF Lists, Range
<1> QED  BY <1>3, <1>4

(* A queue that lists some keys lists one more with that key at its end.    *)
LEMMA ListsAppend ==
  ASSUME NEW seq, NEW S, NEW k, Lists(seq, S), k \notin S
  PROVE  Lists(Append(seq, k), S \cup {k})
<1> DEFINE new == Append(seq, k)
<1>1. seq \in Seq(S \cup {k}) /\ Len(seq) \in Nat /\ seq \in Seq(S)
  BY DEF Lists
<1>2. /\ new \in Seq(S \cup {k}) /\ Len(new) = Len(seq) + 1
      /\ \A i \in 1 .. Len(seq) : new[i] = seq[i] /\ seq[i] \in S
      /\ new[Len(seq) + 1] = k
  BY <1>1
<1> HIDE DEF new
<1>3. \A i \in 1 .. Len(new) : i \in 1 .. Len(seq) \/ i = Len(seq) + 1
  BY <1>1, <1>2
<1>4. \A i \in 1 .. Len(seq) : i \in 1 .. Len(new)
  BY <1>1, <1>2
<1>5. Len(seq) + 1 \in 1 .. Len(new)
  BY <1>1, <1>2
<1>6. \A j \in S \cup {k} : \E i \in 1 .. Len(new) : new[i] = j
  BY <1>2, <1>4, <1>5 DEF Lists
<1>7. \A i, j \in 1 .. Len(new) : i # j => new[i] # new[j]
  BY <1>2, <1>3 DEF Lists
<1> QED  BY <1>2, <1>6, <1>7 DEF Lists, new

(* A queue without its head lists one key less.                             *)
LEMMA ListsTail ==
  ASSUME NEW seq, NEW S, Lists(seq, S), seq # <<>>
  PROVE  /\ Head(seq) \in S
         /\ Lists(Tail(seq), S \ {Head(seq)})
<1> DEFINE new == Tail(seq)
           h == Head(seq)
<1>1. seq \in Seq(S) /\ Len(seq) \in Nat \ {0} /\ h = seq[1] /\ h \in S
  BY DEF Lists
<1>2. /\ new \in Seq(S) /\ Len(new) = Len(seq) - 1
      /\ \A i \in 1 .. Len(new) : new[i] = seq[i + 1]
  BY <1>1
<1> HIDE DEF new, h
<1>3. \A i \in 1 .. Len(new) : i + 1 \in 1 .. Len(seq) /\ i + 1 # 1 /\ 1 \in 1 .. Len(seq)
  BY <1>1, <1>2
<1> DEFINE Distinct == \A i, j \in 1 .. Len(seq) : i # j => seq[i] # seq[j]
<1>d. Distinct
  BY DEF Lists
<1>4. ASSUME NEW i \in 1 .. Len(new)
      PROVE  new[i] \in S \ {h}
  <2>1. new[i] = seq[i + 1] /\ i + 1 \in 1 .. Len(seq) /\ i + 1 # 1 /\ 1 \in 1 .. Len(seq)
    BY <1>2, <1>3
  <2>2. seq[i + 1] # seq[1]
    BY <1>d, <2>1
  <2>3. seq[i + 1] \in S
    BY <1>1, <2>1, ElementOfSeq
  <2> QED  BY <1>1, <2>1, <2>2, <2>3
<1>5. new \in Seq(S \ {h})
  BY <1>2, <1>4, IsASeq, LenProperties
<1>6. ASSUME NEW j \in S \ {h}
      PROVE  \E i \in 1 .. Len(new) : new[i] = j
  <2>1. PICK i \in 1 .. Len(seq) : seq[i] = j
    BY DEF Lists
  <2>2. i - 1 \in 1 .. Len(new) /\ (i - 1) + 1 = i
    BY <1>1, <1>2, <2>1
  <2> QED  BY <1>2, <2>1, <2>2
<1>7. ASSUME NEW i \in 1 .. Len(new), NEW j \in 1 .. Len(new), i # j
      PROVE  new[i] # new[j]
  <2>1. i + 1 \in 1 .. Len(seq) /\ j + 1 \in 1 .. Len(seq) /\ i + 1 # j + 1
    BY <1>3, <1>7
  <2>2. seq[i + 1] # seq[j + 1]
    BY <1>d, <2>1
  <2> QED  BY <1>2, <2>2
<1> QED  BY <1>1, <1>5, <1>6, <1>7 DEF Lists, new, h

(* The key of the running operation is erased from the end of the queue.    *)
LEMMA ListsErase ==
  ASSUME NEW seq, NEW S, Lists(seq, S), seq # <<>>, NEW k, k = seq[Len(seq)]
  PROVE  /\ Len(Erase(seq, k)) = Len(seq) - 1
         /\ \A i \in 1 .. Len(seq) - 1 : Erase(seq, k)[i] = seq[i]
         /\ Lists(Erase(seq, k), S \ {k})
<1> DEFINE new == Erase(seq, k)
           n == Len(seq)
<1>1. seq \in Seq(S) /\ n \in Nat \ {0} /\ DOMAIN seq = 1 .. n
  BY DEF Lists
<1>2. k \in Range(seq)
  BY <1>1 DEF Range
<1>3. (CHOOSE i \in DOMAIN seq : seq[i] = k) = n
  BY <1>1 DEF Lists
<1>4. new = SubSeq(seq, 1, n - 1) \o SubSeq(seq, n + 1, n)
  BY <1>2, <1>3 DEF Erase
<1>5. /\ SubSeq(seq, 1, n - 1) \in Seq(S) /\ Len(SubSeq(seq, 1, n - 1)) = n - 1
      /\ \A i \in 1 .. n - 1 : SubSeq(seq, 1, n - 1)[i] = seq[i]
      /\ SubSeq(seq, n + 1, n) = <<>>
  BY <1>1
<1> HIDE DEF n
<1>6. /\ new \in Seq(S) /\ Len(new) = n - 1
      /\ \A i \in 1 .. n - 1 : new[i] = seq[i]
  BY <1>1, <1>4, <1>5
<1> HIDE DEF new
<1>7. \A i \in 1 .. n - 1 : i \in 1 .. n /\ i # n /\ n \in 1 .. n
  BY <1>1
<1>8. ASSUME NEW i \in 1 .. Len(new)
      PROVE  new[i] \in S \ {k}
  <2>1. new[i] = seq[i] /\ i \in 1 .. n /\ i # n /\ n \in 1 .. n
    BY <1>6, <1>7
  <2>2. seq[i] # seq[n]
    BY <2>1 DEF Lists, n
  <2>3. seq[i] \in S
    BY <1>1, <2>1, ElementOfSeq DEF n
  <2> QED  BY <2>1, <2>2, <2>3 DEF n
<1>9. new \in Seq(S \ {k})
  BY <1>6, <1>8, IsASeq, LenProperties
<1>10. \A j \in S \ {k} : \E i \in 1 .. Len(new) : new[i] = j
  <2>1. \A i \in 1 .. n : i = n \/ i \in 1 .. n - 1
    BY <1>1
  <2> QED  BY <1>6, <2>1 DEF Lists, n
<1>11. \A i, j \in 1 .. Len(new) : i # j => new[i] # new[j]
  BY <1>6, <1>7 DEF Lists, n
<1> QED  BY <1>6, <1>9, <1>10, <1>11 DEF Lists, new, n

-----------------------------------------------------------------------------
(* remember() keeps the ceiling, and drops nothing but the oldest entry.    *)
LEMMA RememberTable ==
  ASSUME RInv, NEW k \in Key, NEW d \in Nat, Remember(k, d)
  PROVE  /\ Table(request_cache, request_order)'
         /\ k \in DOMAIN request_cache' /\ request_cache'[k] = d
         /\ DOMAIN request_cache' \subseteq DOMAIN request_cache \cup {k}
         /\ \A j \in DOMAIN request_cache' : j # k => request_cache'[j] = request_cache[j]
<1> DEFINE D == DOMAIN request_cache
           h == Head(request_order)
<1>1. /\ D \in SUBSET Key /\ Cardinality(D) <= MaxRequestCache /\ Lists(request_order, D)
      /\ Cardinality(D) \in Nat /\ MaxRequestCache \in Nat \ {0}
      /\ Len(request_order) = Cardinality(D)
  BY KeySets, ListsCount, RequestsAssumption DEF RInv, Tables, Table
<1>2. CASE k \in D
  <2>1. DOMAIN request_cache' = D /\ request_order' = request_order
    BY <1>2 DEF Remember
  <2>2. /\ request_cache'[k] = d
        /\ \A j \in D : j # k => request_cache'[j] = request_cache[j]
    BY <1>2 DEF Remember
  <2> QED  BY <1>1, <1>2, <2>1, <2>2 DEF Table
<1>3. CASE k \notin D
  <2> DEFINE E == Evicted
             left == IF E = {} THEN request_order ELSE Tail(request_order)
  <2>1. /\ request_cache' = With(Without(request_cache, E), k, d)
        /\ request_order' = Append(left, k)
    BY <1>3 DEF Remember
  <2>2. /\ DOMAIN request_cache' = (D \ E) \cup {k} /\ request_cache'[k] = d
        /\ \A j \in DOMAIN request_cache' : j # k => request_cache'[j] = request_cache[j]
    BY <2>1 DEF With, Without
  <2>3. Lists(left, D \ E) /\ Cardinality(D \ E) < MaxRequestCache
    <3>1. CASE Cardinality(D) >= MaxRequestCache
      <4>1. request_order # <<>>
        BY <1>1, <3>1
      <4>2. E = {h}
        BY <3>1 DEF Evicted
      <4>3. h \in D /\ Lists(Tail(request_order), D \ {h})
        BY <1>1, <4>1, ListsTail
      <4>4. Cardinality(D \ {h}) = Cardinality(D) - 1
        BY <1>1, <4>3, KeySets
      <4> QED  BY <1>1, <4>2, <4>3, <4>4
    <3>2. CASE ~(Cardinality(D) >= MaxRequestCache)
      <4>1. E = {} /\ D \ E = D
        BY <3>2 DEF Evicted
      <4> QED  BY <1>1, <3>2, <4>1
    <3> QED  BY <3>1, <3>2
  <2> HIDE DEF E, left
  <2>4. Lists(request_order', DOMAIN request_cache')
    BY <1>3, <2>1, <2>2, <2>3, ListsAppend
  <2>5. Cardinality(DOMAIN request_cache') <= MaxRequestCache
    <3>1. D \ E \in SUBSET Key /\ k \notin D \ E
      BY <1>1, <1>3
    <3>2. Cardinality((D \ E) \cup {k}) = Cardinality(D \ E) + 1 /\ Cardinality(D \ E) \in Nat
      BY <3>1, KeySets
    <3> QED  BY <1>1, <2>2, <2>3, <3>2
  <2> QED  BY <1>1, <2>2, <2>4, <2>5 DEF Table
<1> QED  BY <1>2, <1>3

(* trim() between two operations: every key has committed, so the oldest    *)
(* one goes when the registry is full, and none otherwise.                  *)
LEMMA TrimsOldest ==
  ASSUME RInv, inside = 0
  PROVE  LET D == DOMAIN requests_ IN
         /\ Cardinality(D) < MaxRequestCache => Popped = 0 /\ Trimmed = {}
         /\ ~(Cardinality(D) < MaxRequestCache) =>
              order_ # <<>> /\ Popped = 1 /\ Trimmed = {Head(order_)}
<1> DEFINE D == DOMAIN requests_
           L == Len(order_)
           settled(n) == {k \in Range(SubSeq(order_, 1, n)) : requests_[k] # "Active"}
           room(n) == Cardinality(D \ settled(n)) < MaxRequestCache
           ok(n) == /\ room(n) \/ n = L
                    /\ \A m \in 0 .. n - 1 : ~room(m)
<1>1. /\ D \in SUBSET Key /\ Cardinality(D) <= MaxRequestCache /\ Lists(order_, D)
      /\ Cardinality(D) \in Nat /\ MaxRequestCache \in Nat \ {0}
      /\ L = Cardinality(D) /\ order_ \in Seq(D) /\ L \in Nat
  BY KeySets, ListsCount, RequestsAssumption DEF RInv, Tables, Table, Lists
<1>2. \A k \in D : requests_[k] # "Active"
  BY RequestsAssumption DEF RInv, Settled, Tables, Table, Key
<1>3. Popped = (CHOOSE n \in 0 .. L : ok(n)) /\ Trimmed = settled(Popped)
  BY DEF Popped, Trimmed
<1>4. settled(0) = {}
  <2>1. SubSeq(order_, 1, 0) = <<>>
    BY <1>1
  <2> QED  BY <2>1 DEF Range
<1>5. L # 0 => settled(1) = {Head(order_)} /\ Head(order_) \in D
  <2>1. ASSUME L # 0
        PROVE  /\ Head(order_) = order_[1] /\ order_[1] \in D
               /\ DOMAIN SubSeq(order_, 1, 1) = {1} /\ SubSeq(order_, 1, 1)[1] = order_[1]
    <3>1. order_ # <<>> /\ 1 \in 1 .. L
      BY <1>1, <2>1
    <3>2. Head(order_) = order_[1] /\ order_[1] \in D
      BY <1>1, <3>1, ElementOfSeq
    <3>3. Len(SubSeq(order_, 1, 1)) = 1 /\ SubSeq(order_, 1, 1) \in Seq(D)
      BY <1>1, <3>1
    <3>4. SubSeq(order_, 1, 1)[1] = order_[1]
      BY <1>1, <3>1
    <3>5. DOMAIN SubSeq(order_, 1, 1) = 1 .. 1
      BY <3>3, LenProperties
    <3> QED  BY <3>2, <3>4, <3>5
  <2>2. L # 0 => Range(SubSeq(order_, 1, 1)) = {order_[1]}
    BY <2>1 DEF Range
  <2> QED  BY <1>2, <2>1, <2>2
<1> HIDE DEF settled
<1>6. room(0) <=> Cardinality(D) < MaxRequestCache
  <2>1. D \ settled(0) = D
    BY <1>4
  <2> QED  BY <2>1
<1>7. CASE Cardinality(D) < MaxRequestCache
  <2>1. ok(0) /\ 0 \in 0 .. L
    BY <1>1, <1>6, <1>7
  <2>2. \A n \in 0 .. L : ok(n) => n = 0
    <3>1. \A n \in 0 .. L : n # 0 => 0 \in 0 .. n - 1
      BY <1>1
    <3> QED  BY <1>6, <1>7, <3>1
  <2> HIDE DEF ok
  <2>3. Popped = 0
    BY <1>3, <2>1, <2>2
  <2> QED  BY <1>3, <1>4, <1>7, <2>3
<1>8. CASE ~(Cardinality(D) < MaxRequestCache)
  <2>1. L # 0
    BY <1>1, <1>8
  <2>2. Cardinality(D \ {Head(order_)}) = Cardinality(D) - 1
    BY <1>1, <1>5, <2>1, KeySets
  <2>3. room(1)
    <3>1. D \ settled(1) = D \ {Head(order_)}
      BY <1>5, <2>1
    <3>2. Cardinality(D \ settled(1)) = Cardinality(D) - 1
      BY <2>2, <3>1, Zenon
    <3> QED  BY <1>1, <3>2
  <2>4. ok(1) /\ 1 \in 0 .. L
    <3>1. \A m \in 0 .. 1 - 1 : m = 0
      OBVIOUS
    <3> QED  BY <1>1, <1>6, <1>8, <2>1, <2>3, <3>1
  <2>5. \A n \in 0 .. L : ok(n) => n = 1
    <3>1. \A n \in 0 .. L : n # 0 /\ n # 1 => 1 \in 0 .. n - 1
      BY <1>1
    <3>2. ~ok(0)
      BY <1>6, <1>8, <2>1
    <3> QED  BY <2>3, <3>1, <3>2
  <2> HIDE DEF ok
  <2>6. Popped = 1
    BY <1>3, <2>4, <2>5
  <2>7. order_ # <<>>
    BY <2>1
  <2> QED  BY <1>3, <1>5, <1>8, <2>1, <2>6, <2>7
<1> QED  BY <1>7, <1>8

(* What is left of the queue behind the keys that were popped.              *)
LEMMA TrimmedTable ==
  ASSUME RInv, inside = 0
  PROVE  LET D == DOMAIN requests_
             rest == SubSeq(order_, Popped + 1, Len(order_))
         IN /\ Lists(rest, D \ Trimmed)
            /\ Cardinality(D \ Trimmed) < MaxRequestCache
            /\ \/ rest = order_ /\ Trimmed = {}
               \/ /\ Cardinality(D) = MaxRequestCache /\ order_ # <<>>
                  /\ rest = Tail(order_) /\ Trimmed = {Head(order_)}
<1> DEFINE D == DOMAIN requests_
           rest == SubSeq(order_, Popped + 1, Len(order_))
<1>1. /\ D \in SUBSET Key /\ Cardinality(D) <= MaxRequestCache /\ Lists(order_, D)
      /\ Cardinality(D) \in Nat /\ MaxRequestCache \in Nat \ {0} /\ order_ \in Seq(D)
  BY KeySets, RequestsAssumption DEF RInv, Tables, Table, Lists
<1>2. CASE Cardinality(D) < MaxRequestCache
  <2>1. Popped = 0 /\ Trimmed = {}
    BY <1>2, TrimsOldest
  <2>2. rest = order_
    BY <1>1, <2>1, SubSeqFull
  <2> QED  BY <1>1, <1>2, <2>1, <2>2
<1>3. CASE ~(Cardinality(D) < MaxRequestCache)
  <2>1. order_ # <<>> /\ Popped = 1 /\ Trimmed = {Head(order_)}
    BY <1>3, TrimsOldest
  <2>2. rest = Tail(order_)
    BY <1>1, <2>1, TailIsSubSeq
  <2>3. Head(order_) \in D /\ Lists(Tail(order_), D \ {Head(order_)})
    BY <1>1, <2>1, ListsTail
  <2>4. Cardinality(D \ {Head(order_)}) = Cardinality(D) - 1
    BY <1>1, <2>3, KeySets
  <2>5. Cardinality(D) = MaxRequestCache
    BY <1>1, <1>3
  <2>6. Cardinality(D \ {Head(order_)}) < MaxRequestCache
    BY <1>1, <2>4, <2>5
  <2> QED  BY <2>1, <2>2, <2>3, <2>5, <2>6
<1> QED  BY <1>2, <1>3

-----------------------------------------------------------------------------
(* What the parts of an operation do.                                       *)

(* A decision is written at the end of the history, by the process that     *)
(* runs.                                                                    *)
LEMMA DecidedGrows ==
  ASSUME RInv, NEW k \in Key, NEW d \in Nat, Decision(k, d)
  PROVE  /\ decided' \in Seq(Entry) /\ Len(decided') = Len(decided) + 1
         /\ \A i \in 1 .. Len(decided) : decided'[i] = decided[i]
         /\ decided'[Len(decided) + 1].key = k
         /\ decided'[Len(decided) + 1].attempt = d
         /\ decided'[Len(decided) + 1].process = process
         /\ process' = process =>
              \A i \in 1 .. Len(decided') : decided'[i].process <= process'
<1> DEFINE e == [key |-> k, attempt |-> d, process |-> process]
<1>1. /\ decided \in Seq(Entry) /\ Len(decided) \in Nat /\ process \in Nat
      /\ decided' = Append(decided, e)
      /\ \A i \in 1 .. Len(decided) : decided[i].process <= process
  BY DEF RInv, Tables, Decision
<1>2. e \in Entry /\ e.key = k /\ e.attempt = d /\ e.process = process
  BY <1>1 DEF Entry
<1> HIDE DEF e
<1>3. /\ decided' \in Seq(Entry) /\ Len(decided') = Len(decided) + 1
      /\ \A i \in 1 .. Len(decided) : decided'[i] = decided[i]
      /\ decided'[Len(decided) + 1] = e
  BY <1>1, <1>2
<1>4. \A i \in 1 .. Len(decided') : i \in 1 .. Len(decided) \/ i = Len(decided) + 1
  BY <1>1, <1>3
<1>5. \A i \in 1 .. Len(decided') : decided'[i].process <= process
  BY <1>1, <1>2, <1>3, <1>4
<1> QED  BY <1>2, <1>3, <1>5

(* Zero, which stands for no operation, is no key.                          *)
LEMMA ZeroIsNoKey == 0 \notin Key
  BY RequestsAssumption DEF Key

(* The end of an operation that committed, ...                              *)
LEMMA LeaveCommitted ==
  ASSUME RInv, NEW k \in Key, inside = k,
         Leave([requests_ EXCEPT ![k] = CommitPhase], k)
  PROVE  /\ inside' = 0 /\ order_' = order_ /\ DOMAIN requests_' = DOMAIN requests_
         /\ \A j \in DOMAIN requests_' : requests_'[j] = "Committed"
         /\ Table(requests_, order_)'
<1> DEFINE reg == [requests_ EXCEPT ![k] = CommitPhase]
<1>1. k \in DOMAIN requests_
  BY ZeroIsNoKey DEF RInv, Settled
<1>2. /\ DOMAIN reg = DOMAIN requests_ /\ reg[k] = "Committed"
      /\ \A j \in DOMAIN reg : reg[j] = "Committed"
  BY <1>1 DEF RInv, Settled, CommitPhase
<1> HIDE DEF reg
<1>3. ReleaseIfActive(reg, k) = reg
  BY <1>2 DEF ReleaseIfActive
<1>4. requests_' = reg /\ order_' = order_ /\ inside' = 0
  BY <1>1, <1>2, <1>3 DEF Leave, reg
<1>5. Table(requests_, order_)'
  BY <1>2, <1>4 DEF RInv, Tables, Table
<1> QED  BY <1>2, <1>4, <1>5

(* ... and of one that did not.                                             *)
LEMMA LeaveReleased ==
  ASSUME RInv, NEW k \in Key, inside = k, Leave(requests_, k)
  PROVE  /\ inside' = 0 /\ DOMAIN requests_' = DOMAIN requests_ \ {k}
         /\ \A j \in DOMAIN requests_' : requests_'[j] = "Committed"
         /\ Len(order_) \in Nat \ {0} /\ Len(order_') = Len(order_) - 1
         /\ \A i \in 1 .. Len(order_) - 1 : order_'[i] = order_[i]
         /\ Table(requests_, order_)'
<1>1. /\ k \in DOMAIN requests_ /\ requests_[k] = "Active" /\ order_[Len(order_)] = k
      /\ \A j \in DOMAIN requests_ : j # k => requests_[j] = "Committed"
  BY ZeroIsNoKey DEF RInv, Settled
<1>2. /\ requests_' = Without(requests_, {k}) /\ inside' = 0
  BY <1>1 DEF Leave, ReleaseIfActive
<1>3. /\ DOMAIN requests_' = DOMAIN requests_ \ {k}
      /\ \A j \in DOMAIN requests_' : requests_'[j] = "Committed"
  BY <1>1, <1>2 DEF Without
<1>4. order_' = Erase(order_, k)
  BY <1>3 DEF Leave
<1>5. /\ Lists(order_, DOMAIN requests_) /\ order_ \in Seq(DOMAIN requests_)
      /\ order_ # <<>> /\ Len(order_) \in Nat \ {0}
  BY <1>1 DEF RInv, Tables, Table, Lists
<1>6. /\ Len(order_') = Len(order_) - 1
      /\ \A i \in 1 .. Len(order_) - 1 : order_'[i] = order_[i]
      /\ Lists(order_', DOMAIN requests_ \ {k})
  <2>1. /\ Len(Erase(order_, k)) = Len(order_) - 1
        /\ \A i \in 1 .. Len(order_) - 1 : Erase(order_, k)[i] = order_[i]
        /\ Lists(Erase(order_, k), DOMAIN requests_ \ {k})
    <3>1. Lists(order_, DOMAIN requests_) /\ order_ # <<>> /\ k = order_[Len(order_)]
      BY <1>1, <1>5
    <3> QED  BY <3>1, ListsErase, Zenon
  <2> QED  BY <1>4, <2>1
<1>7. DOMAIN requests_ \in SUBSET Key /\ Cardinality(DOMAIN requests_) <= MaxRequestCache
  BY DEF RInv, Tables, Table
<1>8. /\ Cardinality(DOMAIN requests_) \in Nat /\ MaxRequestCache \in Nat
      /\ Cardinality(DOMAIN requests_ \ {k}) = Cardinality(DOMAIN requests_) - 1
  BY <1>1, <1>7, KeySets, RequestsAssumption
<1>9. Cardinality(DOMAIN requests_ \ {k}) <= MaxRequestCache
  BY <1>7, <1>8
<1>10. Table(requests_, order_)'
  BY <1>3, <1>6, <1>7, <1>9 DEF Table
<1> QED  BY <1>2, <1>3, <1>5, <1>6, <1>10

(* The start of an operation.                                               *)
LEMMA EnterTable ==
  ASSUME RInv, NEW k \in Key, Enter(k)
  PROVE  RInv'
<1> DEFINE D == DOMAIN requests_
           rest == SubSeq(order_, Popped + 1, Len(order_))
<1>1. /\ inside = 0 /\ k \notin DOMAIN request_cache /\ k \notin D
      /\ requests_' = With(Without(requests_, Trimmed), k, "Active")
      /\ order_' = Append(rest, k) /\ inside' = k
      /\ UNCHANGED <<opened, request_cache, request_order, saved, decided, restarts, process>>
  BY DEF Enter, cache
<1>2. Lists(rest, D \ Trimmed) /\ Cardinality(D \ Trimmed) < MaxRequestCache
  BY <1>1, TrimmedTable
<1> HIDE DEF rest
<1>3. /\ DOMAIN requests_' = (D \ Trimmed) \cup {k} /\ requests_'[k] = "Active"
      /\ \A j \in D \ Trimmed : j # k => requests_'[j] = requests_[j]
  BY <1>1 DEF With, Without
<1>4. D \ Trimmed \in SUBSET Key /\ k \notin D \ Trimmed
  BY <1>1 DEF RInv, Tables, Table
<1> DEFINE E == D \ Trimmed
<1> HIDE DEF E
<1>5. /\ Lists(rest, E) /\ Cardinality(E) < MaxRequestCache
      /\ DOMAIN requests_' = E \cup {k} /\ E \in SUBSET Key /\ k \notin E
  BY <1>2, <1>3, <1>4 DEF E
<1>6. Lists(order_', DOMAIN requests_')
  BY <1>1, <1>5, ListsAppend
<1>7. Cardinality(E \cup {k}) = Cardinality(E) + 1 /\ Cardinality(E) \in Nat /\ MaxRequestCache \in Nat
  BY <1>5, KeySets, RequestsAssumption
<1>8. Cardinality(DOMAIN requests_') <= MaxRequestCache
  BY <1>5, <1>7
<1>9. Table(requests_, order_)'
  BY <1>5, <1>6, <1>8 DEF Table
<1>10. Tables'
  BY <1>1, <1>9 DEF RInv, Tables, Table
<1>11. order_'[Len(order_')] = k
  <2>1. rest \in Seq(E)
    BY <1>5 DEF Lists
  <2>2. rest \in Seq(E \cup {k})
    BY <2>1
  <2> QED  BY <1>1, <2>2, AppendProperties
<1>12. Settled'
  BY <1>1, <1>3, <1>11, ZeroIsNoKey DEF RInv, Settled
<1> QED  BY <1>10, <1>12 DEF RInv

(* remember_request of a committed decision keeps the tables in step.       *)
LEMMA CommitTable ==
  ASSUME RInv, NEW k \in Key, Commit(k)
  PROVE  RInv'
<1>1. Len(decided) + 1 \in Nat
  BY DEF RInv, Tables
<1>2. /\ inside = k /\ Remember(k, Len(decided) + 1) /\ Decision(k, Len(decided) + 1)
      /\ Leave([requests_ EXCEPT ![k] = CommitPhase], k)
      /\ saved' \in {saved, request_cache'}
      /\ UNCHANGED <<opened, restarts, process>>
  BY DEF Commit
<1>3. Table(request_cache, request_order)'
  BY <1>1, <1>2, RememberTable
<1>4. /\ Table(requests_, order_)' /\ inside' = 0
      /\ \A j \in DOMAIN requests_' : requests_'[j] = "Committed"
  BY <1>2, LeaveCommitted
<1>5. /\ decided' \in Seq(Entry)
      /\ \A i \in 1 .. Len(decided') : decided'[i].process <= process'
  BY <1>1, <1>2, DecidedGrows
<1>6. Tables'
  BY <1>2, <1>3, <1>4, <1>5 DEF RInv, Tables, Table
<1>7. Settled'
  BY <1>3, <1>4, ZeroIsNoKey DEF Settled, Table
<1> QED  BY <1>6, <1>7 DEF RInv, Tables

(* An operation that refuses or keeps the target alive keeps them in step.  *)
LEMMA RefuseTable ==
  ASSUME RInv, NEW k \in Key, Refuse(k) \/ KeepAlive(k)
  PROVE  RInv'
<1>1. 0 \in Nat /\ NoAttempt = 0
  BY DEF NoAttempt
<1>2. /\ inside = k /\ Decision(k, NoAttempt) /\ Leave(requests_, k)
      /\ Remember(k, NoAttempt) \/ UNCHANGED <<request_cache, request_order>>
      /\ saved' \in {saved, request_cache}
      /\ UNCHANGED <<opened, restarts, process>>
  BY DEF Refuse, KeepAlive, cache
<1>3. Table(request_cache, request_order)'
  <2>1. CASE Remember(k, NoAttempt)
    BY <1>1, <2>1, RememberTable
  <2>2. CASE UNCHANGED <<request_cache, request_order>>
    BY <2>2 DEF RInv, Tables, Table
  <2> QED  BY <1>2, <2>1, <2>2
<1>4. /\ Table(requests_, order_)' /\ inside' = 0
      /\ \A j \in DOMAIN requests_' : requests_'[j] = "Committed"
  BY <1>2, LeaveReleased
<1>5. /\ decided' \in Seq(Entry)
      /\ \A i \in 1 .. Len(decided') : decided'[i].process <= process'
  BY <1>1, <1>2, DecidedGrows
<1>6. Tables'
  BY <1>2, <1>3, <1>4, <1>5 DEF RInv, Tables, Table
<1>7. Settled'
  BY <1>3, <1>4, ZeroIsNoKey DEF Settled, Table
<1> QED  BY <1>6, <1>7 DEF RInv, Tables

(* The cache after a restart.                                               *)
LEMMA ReadBackTable ==
  ASSUME RInv, ReadBack
  PROVE  Table(request_cache, request_order)' /\ request_cache' = saved /\ opened' = TRUE
<1> DEFINE D == DOMAIN saved
<1>1. D \in SUBSET Key /\ Cardinality(D) <= MaxRequestCache
  BY DEF RInv, Tables
<1>2. Cardinality(D) \in Nat
  BY <1>1, KeySets
<1>3. PICK seq \in [1 .. Cardinality(D) -> D] : InKeyOrder(seq, D) /\ request_order' = seq
  BY DEF ReadBack
<1>4. seq \in Seq(D) /\ Len(seq) = Cardinality(D) /\ DOMAIN seq = 1 .. Len(seq)
  BY <1>2, <1>3
<1>5. \A k \in D : \E i \in 1 .. Len(seq) : seq[i] = k
  BY <1>3, <1>4 DEF InKeyOrder, Range
<1>6. \A i, j \in 1 .. Len(seq) : i # j => seq[i] # seq[j]
  <2>1. D \subseteq Nat
    BY <1>1, RequestsAssumption DEF Key
  <2>2. \A i, j \in 1 .. Len(seq) : i < j => seq[i] < seq[j] /\ seq[i] \in Nat /\ seq[j] \in Nat
    BY <1>3, <1>4, <2>1 DEF InKeyOrder
  <2>3. \A i, j \in 1 .. Len(seq) : i # j => i < j \/ j < i
    BY <1>2, <1>4
  <2> QED  BY <2>2, <2>3
<1>7. request_cache' = saved /\ opened' = TRUE
  BY DEF ReadBack
<1> QED  BY <1>1, <1>3, <1>4, <1>5, <1>6, <1>7 DEF Table, Lists

(* Every step keeps the tables and their queues together.                   *)
LEMMA StepTables ==
  ASSUME RInv, [Next]_vars
  PROVE  RInv'
<1>1. CASE UNCHANGED vars
  BY <1>1 DEF RInv, Tables, Settled, Table, vars, cache, registry
<1>2. ASSUME NEW k \in Key, ReplayCached(k) \/ RefuseInFlight(k)
      PROVE  RInv'
  BY <1>1, <1>2 DEF ReplayCached, RefuseInFlight
<1>3. ASSUME NEW k \in Key, Enter(k) \/ Commit(k) \/ Refuse(k) \/ KeepAlive(k)
      PROVE  RInv'
  BY <1>3, EnterTable, CommitTable, RefuseTable
<1>4. ASSUME NEW k \in Key, Cancel(k)
      PROVE  RInv'
  <2>1. /\ inside = 0 /\ inside' = 0
        /\ DOMAIN requests_' = DOMAIN requests_
        /\ \A j \in DOMAIN requests_ :
             requests_[j] # "Active" => requests_'[j] = requests_[j]
        /\ UNCHANGED <<opened, request_cache, request_order, order_, saved, decided, restarts, process>>
    BY <1>4 DEF Cancel, cache
  <2>2. \A j \in DOMAIN requests_ : j # 0 /\ requests_[j] = "Committed"
    BY <2>1, ZeroIsNoKey DEF RInv, Settled, Tables, Table
  <2>3. Tables'
    BY <2>1 DEF RInv, Tables, Table
  <2>4. Settled'
    BY <2>1, <2>2 DEF Settled
  <2> QED  BY <2>3, <2>4 DEF RInv
<1>5. ASSUME NEW k \in AckKeys, RefuseAcknowledgement(k)
      PROVE  RInv'
  <2>1. /\ inside = 0 /\ Remember(k, 0)
        /\ UNCHANGED <<opened, inside, requests_, order_, saved, decided, restarts, process>>
    BY <1>5 DEF RefuseAcknowledgement, registry, NoAttempt
  <2>2. Table(request_cache, request_order)'
    BY <2>1, RememberTable, RequestsAssumption
  <2> QED  BY <2>1, <2>2 DEF RInv, Tables, Settled, Table
<1>6. CASE Close
  <2>1. /\ opened' = FALSE /\ restarts' = restarts + 1
        /\ UNCHANGED <<inside, request_cache, request_order, requests_, order_, saved, decided, process>>
    BY <1>6 DEF Close, cache, registry
  <2>2. restarts' \in Nat
    BY <2>1 DEF RInv, Tables
  <2>3. opened' \in BOOLEAN
    BY <2>1
  <2>4. Tables'
    BY <2>1, <2>2, <2>3 DEF RInv, Tables, Table
  <2> QED  BY <2>1, <2>4 DEF RInv, Settled
<1>7. CASE Reopen
  <2>1. /\ ReadBack /\ inside = 0
        /\ UNCHANGED <<inside, requests_, order_, saved, decided, restarts, process>>
    BY <1>7 DEF Reopen, registry
  <2>2. Table(request_cache, request_order)' /\ opened' = TRUE
    BY <2>1, ReadBackTable
  <2> QED  BY <2>1, <2>2 DEF RInv, Tables, Settled, Table
<1>8. CASE Rotate
  <2>1. /\ saved' = request_cache
        /\ UNCHANGED <<opened, inside, request_cache, request_order, requests_, order_,
                       decided, restarts, process>>
    BY <1>8 DEF Rotate, cache, registry
  <2> QED  BY <2>1 DEF RInv, Tables, Settled, Table
<1>9. CASE Crash
  <2>1. /\ ReadBack /\ inside' = 0 /\ restarts' = restarts + 1 /\ process' = process + 1
        /\ requests_' = <<>> /\ order_' = <<>>
        /\ UNCHANGED <<saved, decided>>
    BY <1>9 DEF Crash
  <2>2. Table(request_cache, request_order)' /\ opened' = TRUE
    BY <2>1, ReadBackTable
  <2>3. DOMAIN requests_' = {} /\ Cardinality(DOMAIN requests_') = 0
    BY <2>1, FS_EmptySet
  <2>4. Lists(order_', {})
    BY <2>1 DEF Lists
  <2>5. Table(requests_, order_)'
    BY <2>3, <2>4, RequestsAssumption DEF Table
  <2>6. \A i \in 1 .. Len(decided') : decided'[i].process <= process'
    <3>1. \A i \in 1 .. Len(decided) : decided[i].process \in Nat /\ decided[i].process <= process
      <4>1. \A i \in 1 .. Len(decided) : decided[i] \in Entry
        BY ElementOfSeq DEF RInv, Tables
      <4> QED  BY <4>1 DEF RInv, Tables, Entry
    <3> QED  BY <2>1, <3>1 DEF RInv, Tables
  <2>7. Tables'
    BY <2>1, <2>2, <2>5, <2>6 DEF RInv, Tables, Table
  <2> QED  BY <2>1, <2>3, <2>7 DEF RInv, Settled
<1> QED  BY <1>1, <1>2, <1>3, <1>4, <1>5, <1>6, <1>7, <1>8, <1>9 DEF Next

-----------------------------------------------------------------------------
(* How often a key may commit.                                              *)

(* What was decided since an entry of the history is a set of keys.         *)
LEMMA SinceKeys ==
  ASSUME RInv, NEW i \in 1 .. Len(decided)
  PROVE  Since(i) \in SUBSET Key /\ decided[i].key \in Key
<1>1. decided \in Seq(Entry) /\ Len(decided) \in Nat
  BY DEF RInv, Tables
<1>2. \A m \in 1 .. Len(decided) : decided[m].key \in Key
  <2>1. \A m \in 1 .. Len(decided) : decided[m] \in Entry
    BY <1>1, ElementOfSeq
  <2> QED  BY <2>1 DEF Entry
<1>3. \A m \in i + 1 .. Len(decided) : m \in 1 .. Len(decided)
  BY <1>1
<1> QED  BY <1>2, <1>3 DEF Since

(* A decision adds its key to what was decided since the others.            *)
LEMMA SinceGrows ==
  ASSUME RInv, NEW k \in Key, NEW d \in Nat, Decision(k, d), NEW i \in 1 .. Len(decided)
  PROVE  /\ decided'[i] = decided[i]
         /\ Since(i)' = Since(i) \cup ({k} \ {decided[i].key})
<1> DEFINE n == Len(decided)
<1>1. /\ n \in Nat /\ Len(decided') = n + 1
      /\ \A m \in 1 .. n : decided'[m] = decided[m]
      /\ decided'[n + 1].key = k
  BY DecidedGrows DEF RInv, Tables
<1>2. Since(i)' = {decided'[m].key : m \in i + 1 .. n + 1} \ {decided[i].key}
  BY <1>1 DEF Since
<1>3. Since(i) = {decided[m].key : m \in i + 1 .. n} \ {decided[i].key}
  BY DEF Since
<1> HIDE DEF n
<1>4. \A m : m \in i + 1 .. n + 1 <=> (m \in i + 1 .. n \/ m = n + 1)
  BY <1>1 DEF n
<1>5. \A m \in i + 1 .. n : decided'[m] = decided[m]
  <2>1. \A m \in i + 1 .. n : m \in 1 .. n
    BY <1>1
  <2> QED  BY <1>1, <2>1
<1>6. {decided'[m].key : m \in i + 1 .. n + 1} = {decided[m].key : m \in i + 1 .. n} \cup {k}
  <2>1. ASSUME NEW x \in {decided'[m].key : m \in i + 1 .. n + 1}
        PROVE  x \in {decided[m].key : m \in i + 1 .. n} \cup {k}
    <3>1. PICK m \in i + 1 .. n + 1 : x = decided'[m].key
      OBVIOUS
    <3> QED  BY <1>1, <1>4, <1>5, <3>1
  <2>2. ASSUME NEW x \in {decided[m].key : m \in i + 1 .. n} \cup {k}
        PROVE  x \in {decided'[m].key : m \in i + 1 .. n + 1}
    <3>1. CASE x = k
      <4>1. n + 1 \in i + 1 .. n + 1
        BY <1>4
      <4> QED  BY <1>1, <3>1, <4>1
    <3>2. CASE x \in {decided[m].key : m \in i + 1 .. n}
      <4>1. PICK m \in i + 1 .. n : x = decided[m].key
        BY <3>2
      <4>2. m \in i + 1 .. n + 1 /\ x = decided'[m].key
        BY <1>4, <1>5, <4>1
      <4> QED  BY <4>2
    <3> QED  BY <3>1, <3>2
  <2> QED  BY <2>1, <2>2
<1>7. decided'[i] = decided[i]
  BY <1>1 DEF n
<1> QED  BY <1>2, <1>3, <1>6, <1>7

(* A new key may push the oldest one out: all that are registered behind it *)
(* were decided since it committed, and the new one is about to be.         *)
LEMMA EnterEarned ==
  ASSUME RInv, EvictionEarned, NEW k \in Key, Enter(k)
  PROVE  EvictionEarned'
<1> DEFINE D == DOMAIN requests_
           rest == SubSeq(order_, Popped + 1, Len(order_))
<1>1. /\ inside = 0 /\ k \notin D
      /\ requests_' = With(Without(requests_, Trimmed), k, "Active")
      /\ order_' = Append(rest, k) /\ inside' = k
      /\ UNCHANGED <<decided, process>>
  BY DEF Enter, cache
<1>2. /\ Lists(rest, D \ Trimmed)
      /\ \/ rest = order_ /\ Trimmed = {}
         \/ /\ Cardinality(D) = MaxRequestCache /\ order_ # <<>>
            /\ rest = Tail(order_) /\ Trimmed = {Head(order_)}
  BY <1>1, TrimmedTable
<1> HIDE DEF rest
<1>3. DOMAIN requests_' = (D \ Trimmed) \cup {k}
  BY <1>1 DEF With, Without
<1>4. /\ D \in SUBSET Key /\ Lists(order_, D) /\ order_ \in Seq(D) /\ Len(order_) \in Nat
  BY DEF RInv, Tables, Table, Lists
<1>5. SUFFICES ASSUME NEW i \in 1 .. Len(decided), CommittedHere(i)
               PROVE  LET a == decided[i].key IN
                      IF a \in (D \ Trimmed) \cup {k} /\ a # k
                      THEN \A p, q \in 1 .. Len(order_') :
                             p < q /\ order_'[p] = a /\ order_'[q] # k => order_'[q] \in Since(i)
                      ELSE Cardinality(Since(i) \cup ({k} \ {0, a})) >= MaxRequestCache
  BY <1>1, <1>3 DEF EvictionEarned, CommittedHere, Since
<1> DEFINE a == decided[i].key
<1>6. Since(i) \in SUBSET Key /\ a \in Key
  BY SinceKeys
<1>7. /\ Cardinality(Since(i)) \in Nat /\ Cardinality(Since(i) \cup {k}) \in Nat
      /\ Cardinality(Since(i)) <= Cardinality(Since(i) \cup {k}) /\ MaxRequestCache \in Nat
  <2>1. Since(i) \cup {k} \in SUBSET Key /\ Since(i) \in SUBSET (Since(i) \cup {k})
    BY <1>6
  <2> QED  BY <1>6, <2>1, KeySets, KeySubsets, RequestsAssumption
<1>8. a \notin D => Cardinality(Since(i)) >= MaxRequestCache
  <2>1. ASSUME a \notin D
        PROVE  Cardinality(Since(i) \cup ({0} \ {0, a})) >= MaxRequestCache
    BY <1>1, <1>5, <2>1 DEF EvictionEarned
  <2>2. Since(i) \cup ({0} \ {0, a}) = Since(i)
    OBVIOUS
  <2> QED  BY <2>1, <2>2, Zenon
<1>9. a \in D => \A p, q \in 1 .. Len(order_) :
                   p < q /\ order_[p] = a => order_[q] \in Since(i)
  <2>1. ASSUME a \in D, NEW p \in 1 .. Len(order_), NEW q \in 1 .. Len(order_),
               p < q, order_[p] = a
        PROVE  order_[q] \in Since(i)
    <3>1. order_[q] # inside /\ a # inside
      BY <1>1, <1>4, <1>6, ElementOfSeq, ZeroIsNoKey
    <3> QED  BY <1>5, <2>1, <3>1 DEF EvictionEarned
  <2> QED  BY <2>1
<1>10. CASE a = k
  <2>1. Since(i) \cup ({k} \ {0, a}) = Since(i)
    BY <1>10
  <2>2. Cardinality(Since(i) \cup ({k} \ {0, a})) = Cardinality(Since(i))
    BY <2>1, Zenon
  <2> QED  BY <1>1, <1>8, <1>10, <2>2
<1>11. CASE a # k /\ a \notin D
  <2>1. Since(i) \cup ({k} \ {0, a}) = Since(i) \cup {k}
    BY <1>11, ZeroIsNoKey
  <2>2. Cardinality(Since(i) \cup ({k} \ {0, a})) = Cardinality(Since(i) \cup {k})
    BY <2>1, Zenon
  <2>3. Cardinality(Since(i) \cup {k}) >= MaxRequestCache
    BY <1>7, <1>8, <1>11
  <2> QED  BY <1>11, <2>2, <2>3
<1>12. CASE a \in D /\ a \in Trimmed
  <2>1. /\ Cardinality(D) = MaxRequestCache /\ order_ # <<>> /\ Trimmed = {a}
        /\ a = order_[1] /\ 1 \in 1 .. Len(order_)
    BY <1>2, <1>4, <1>12
  <2>2. \A j \in D \ {a} : j \in Since(i)
    <3>1. ASSUME NEW j \in D \ {a}
          PROVE  j \in Since(i)
      <4>1. PICK q \in 1 .. Len(order_) : order_[q] = j
        BY <1>4 DEF Lists
      <4>2. 1 < q
        BY <1>4, <2>1, <4>1
      <4> QED  BY <1>9, <1>12, <2>1, <4>1, <4>2
    <3> QED  BY <3>1
  <2>3. /\ Cardinality(D \ {a}) = Cardinality(D) - 1 /\ Cardinality(D) \in Nat
        /\ Cardinality((D \ {a}) \cup {k}) = Cardinality(D \ {a}) + 1
    <3>1. D \ {a} \in SUBSET Key /\ k \notin D \ {a}
      BY <1>1, <1>4
    <3> QED  BY <1>4, <1>6, <1>12, <3>1, KeySets
  <2>4. Cardinality((D \ {a}) \cup {k}) <= Cardinality(Since(i) \cup {k})
    <3>1. Since(i) \cup {k} \in SUBSET Key /\ (D \ {a}) \cup {k} \in SUBSET (Since(i) \cup {k})
      BY <1>6, <2>2
    <3> QED  BY <3>1, KeySubsets
  <2>5. Cardinality(Since(i) \cup {k}) >= MaxRequestCache
    BY <1>7, <2>1, <2>3, <2>4
  <2>6. Since(i) \cup ({k} \ {0, a}) = Since(i) \cup {k}
    BY <1>1, <1>12, ZeroIsNoKey
  <2>7. Cardinality(Since(i) \cup ({k} \ {0, a})) = Cardinality(Since(i) \cup {k})
    BY <2>6, Zenon
  <2>8. ~(a \in (D \ Trimmed) \cup {k} /\ a # k)
    BY <1>12
  <2> QED  BY <2>5, <2>7, <2>8
<1>13. CASE a \in D /\ a \notin Trimmed
  <2>1. a # k /\ a \in (D \ Trimmed) \cup {k}
    BY <1>1, <1>13
  <2>2. /\ rest \in Seq(D) /\ Len(rest) \in Nat
        /\ \/ /\ Len(rest) = Len(order_)
              /\ \A p \in 1 .. Len(rest) : rest[p] = order_[p]
           \/ /\ Len(rest) = Len(order_) - 1
              /\ \A p \in 1 .. Len(rest) : rest[p] = order_[p + 1]
    BY <1>2, <1>4
  <2>3. /\ Len(order_') = Len(rest) + 1 /\ order_'[Len(rest) + 1] = k
        /\ \A p \in 1 .. Len(rest) : order_'[p] = rest[p]
    <3>1. rest \in Seq(D \cup {k})
      BY <2>2
    <3> QED  BY <1>1, <3>1, AppendProperties
  <2>4. ASSUME NEW p \in 1 .. Len(order_'), NEW q \in 1 .. Len(order_'),
               p < q, order_'[p] = a, order_'[q] # k
        PROVE  order_'[q] \in Since(i)
    <3>1. p \in 1 .. Len(rest) /\ q \in 1 .. Len(rest)
      BY <2>2, <2>3, <2>4
    <3>2. rest[p] = a /\ order_'[q] = rest[q]
      BY <2>3, <2>4, <3>1
    <3>3. CASE /\ Len(rest) = Len(order_)
               /\ \A j \in 1 .. Len(rest) : rest[j] = order_[j]
      BY <1>9, <1>13, <2>4, <3>1, <3>2, <3>3
    <3>4. CASE /\ Len(rest) = Len(order_) - 1
               /\ \A j \in 1 .. Len(rest) : rest[j] = order_[j + 1]
      <4>1. p + 1 \in 1 .. Len(order_) /\ q + 1 \in 1 .. Len(order_) /\ p + 1 < q + 1
        BY <1>4, <2>4, <3>1, <3>4
      <4>2. order_[p + 1] = a /\ rest[q] = order_[q + 1]
        BY <3>1, <3>2, <3>4
      <4> QED  BY <1>9, <1>13, <3>2, <4>1, <4>2
    <3> QED  BY <2>2, <3>3, <3>4
  <2> QED  BY <2>1, <2>4
<1> QED  BY <1>10, <1>11, <1>12, <1>13

(* An operation that commits: its key is the last one registered, and is    *)
(* now one that was decided since the others.                               *)
LEMMA CommitEarned ==
  ASSUME RInv, EvictionEarned, NEW k \in Key, Commit(k)
  PROVE  EvictionEarned'
<1> DEFINE D == DOMAIN requests_
           n == Len(decided)
<1>1. n \in Nat /\ n + 1 \in Nat
  BY DEF RInv, Tables
<1>2. /\ inside = k /\ Decision(k, n + 1)
      /\ Leave([requests_ EXCEPT ![k] = CommitPhase], k) /\ process' = process
  BY DEF Commit
<1>3. /\ Len(decided') = n + 1
      /\ \A i \in 1 .. n : decided'[i] = decided[i]
      /\ decided'[n + 1].key = k
  BY <1>1, <1>2, DecidedGrows
<1>4. inside' = 0 /\ order_' = order_ /\ DOMAIN requests_' = D
  BY <1>2, LeaveCommitted
<1>5. /\ D \in SUBSET Key /\ Lists(order_, D) /\ order_ \in Seq(D) /\ Len(order_) \in Nat
      /\ k \in D /\ order_[Len(order_)] = k
  <2>1. D \in SUBSET Key /\ Lists(order_, D) /\ k \in D /\ order_[Len(order_)] = k
    BY <1>2, ZeroIsNoKey DEF RInv, Settled, Tables, Table
  <2>2. order_ \in Seq(D) /\ Len(order_) \in Nat
    BY <2>1 DEF Lists
  <2> QED  BY <2>1, <2>2
<1>6. \A p, q \in 1 .. Len(order_) : p < q => order_[p] # k
  <2>1. \A p, q \in 1 .. Len(order_) : p < q => p # Len(order_) /\ Len(order_) \in 1 .. Len(order_)
    BY <1>5
  <2> QED  BY <1>5, <2>1 DEF Lists
<1>7. ASSUME NEW i \in 1 .. n, decided[i].key # k,
             decided[i].process = process, decided[i].attempt # NoAttempt
      PROVE  LET a == decided[i].key IN
             IF a \in D
             THEN \A p, q \in 1 .. Len(order_) :
                    p < q /\ order_[p] = a => order_[q] \in Since(i)'
             ELSE Cardinality(Since(i)' \cup ({0} \ {0, a})) >= MaxRequestCache
  <2> DEFINE a == decided[i].key
  <2>1. Since(i)' = Since(i) \cup ({k} \ {a})
    BY <1>1, <1>2, SinceGrows
  <2>2. Since(i)' = Since(i) \cup {k}
    BY <1>7, <2>1
  <2>3. CommittedHere(i)
    BY <1>7 DEF CommittedHere
  <2>4. CASE a \in D
    <3>1. ASSUME NEW p \in 1 .. Len(order_), NEW q \in 1 .. Len(order_), p < q, order_[p] = a
          PROVE  order_[q] \in Since(i)'
      <4>1. CASE order_[q] = k
        BY <2>2, <4>1
      <4>2. CASE order_[q] # k
        <5>1. order_[q] \in Since(i)
          BY <1>2, <1>7, <2>3, <2>4, <3>1, <4>2 DEF EvictionEarned
        <5> QED  BY <2>2, <5>1
      <4> QED  BY <4>1, <4>2
    <3> QED  BY <2>4, <3>1
  <2>5. CASE a \notin D
    <3>1. Cardinality(Since(i) \cup ({k} \ {0, a})) >= MaxRequestCache
      BY <1>2, <2>3, <2>5 DEF EvictionEarned
    <3>2. Since(i) \cup ({k} \ {0, a}) = Since(i)' \cup ({0} \ {0, a})
      BY <1>7, <2>2, ZeroIsNoKey
    <3>3. Cardinality(Since(i) \cup ({k} \ {0, a})) = Cardinality(Since(i)' \cup ({0} \ {0, a}))
      BY <3>2, Zenon
    <3> QED  BY <2>5, <3>1, <3>3
  <2> QED  BY <2>4, <2>5
<1>8. ASSUME NEW i \in 1 .. n + 1, CommittedHere(i)'
      PROVE  LET a == decided'[i].key IN
             IF a \in D /\ a # 0
             THEN \A p, q \in 1 .. Len(order_) :
                    p < q /\ order_[p] = a /\ order_[q] # 0 => order_[q] \in Since(i)'
             ELSE Cardinality(Since(i)' \cup ({0} \ {0, a})) >= MaxRequestCache
  <2>1. CASE decided'[i].key = k
    BY <1>5, <1>6, <2>1, ZeroIsNoKey
  <2>2. CASE decided'[i].key # k
    <3>1. i \in 1 .. n /\ decided'[i] = decided[i]
      BY <1>1, <1>3, <2>2
    <3>2. decided[i].key # k /\ decided[i].process = process /\ decided[i].attempt # NoAttempt
      BY <1>2, <1>8, <2>2, <3>1 DEF CommittedHere
    <3>3. decided[i].key # 0
      BY <3>1, SinceKeys, ZeroIsNoKey
    <3> QED  BY <1>7, <3>1, <3>2, <3>3
  <2> QED  BY <2>1, <2>2
<1> QED  BY <1>3, <1>4, <1>8 DEF EvictionEarned

(* An operation that does not: its key leaves the registry.                 *)
LEMMA RefuseEarned ==
  ASSUME RInv, EvictionEarned, NEW k \in Key, Refuse(k) \/ KeepAlive(k)
  PROVE  EvictionEarned'
<1> DEFINE D == DOMAIN requests_
           n == Len(decided)
           L == Len(order_)
<1>1. n \in Nat /\ 0 \in Nat /\ NoAttempt = 0
  BY DEF RInv, Tables, NoAttempt
<1>2. /\ inside = k /\ Decision(k, NoAttempt) /\ Leave(requests_, k) /\ process' = process
  BY DEF Refuse, KeepAlive
<1>3. /\ Len(decided') = n + 1 /\ decided'[n + 1].attempt = NoAttempt
      /\ \A i \in 1 .. n : decided'[i] = decided[i]
  BY <1>1, <1>2, DecidedGrows
<1>4. /\ inside' = 0 /\ DOMAIN requests_' = D \ {k}
      /\ L \in Nat \ {0} /\ Len(order_') = L - 1
      /\ \A i \in 1 .. L - 1 : order_'[i] = order_[i]
  BY <1>2, LeaveReleased
<1>5. /\ Lists(order_, D) /\ k \in D /\ order_[L] = k
  BY <1>2, ZeroIsNoKey DEF RInv, Settled, Tables, Table
<1>6. \A q \in 1 .. L - 1 : q \in 1 .. L /\ order_[q] # k
  <2>1. \A q \in 1 .. L - 1 : q \in 1 .. L /\ q # L /\ L \in 1 .. L
    BY <1>4
  <2> QED  BY <1>5, <2>1 DEF Lists
<1>7. ASSUME NEW i \in 1 .. n, decided[i].process = process, decided[i].attempt # NoAttempt
      PROVE  LET a == decided[i].key IN
             IF a \in D \ {k}
             THEN \A p, q \in 1 .. Len(order_') :
                    p < q /\ order_'[p] = a => order_'[q] \in Since(i)'
             ELSE Cardinality(Since(i)' \cup ({0} \ {0, a})) >= MaxRequestCache
  <2> DEFINE a == decided[i].key
  <2>1. Since(i)' = Since(i) \cup ({k} \ {a})
    BY <1>1, <1>2, SinceGrows
  <2>2. CommittedHere(i)
    BY <1>7 DEF CommittedHere
  <2>3. CASE a \in D \ {k}
    <3>1. ASSUME NEW p \in 1 .. L - 1, NEW q \in 1 .. L - 1, p < q, order_'[p] = a
          PROVE  order_'[q] \in Since(i)'
      <4>1. /\ p \in 1 .. L /\ q \in 1 .. L /\ order_[p] = a
            /\ order_[q] # inside /\ order_'[q] = order_[q]
        BY <1>2, <1>4, <1>6, <3>1
      <4>2. order_[q] \in Since(i)
        BY <1>2, <2>2, <2>3, <3>1, <4>1 DEF EvictionEarned
      <4> QED  BY <2>1, <4>1, <4>2
    <3> QED  BY <1>4, <2>3, <3>1
  <2>4. CASE a \notin D \ {k}
    <3>1. Cardinality(Since(i) \cup ({k} \ {0, a})) >= MaxRequestCache
      BY <1>2, <2>2, <2>4 DEF EvictionEarned
    <3>2. Since(i) \cup ({k} \ {0, a}) = Since(i)' \cup ({0} \ {0, a})
      BY <2>1, ZeroIsNoKey
    <3>3. Cardinality(Since(i) \cup ({k} \ {0, a})) = Cardinality(Since(i)' \cup ({0} \ {0, a}))
      BY <3>2, Zenon
    <3> QED  BY <2>4, <3>1, <3>3
  <2> QED  BY <2>3, <2>4
<1>8. ASSUME NEW i \in 1 .. n + 1, CommittedHere(i)'
      PROVE  LET a == decided'[i].key IN
             IF a \in D \ {k} /\ a # 0
             THEN \A p, q \in 1 .. Len(order_') :
                    p < q /\ order_'[p] = a /\ order_'[q] # 0 => order_'[q] \in Since(i)'
             ELSE Cardinality(Since(i)' \cup ({0} \ {0, a})) >= MaxRequestCache
  <2>1. i # n + 1
    BY <1>3, <1>8 DEF CommittedHere
  <2>2. i \in 1 .. n /\ decided'[i] = decided[i]
    BY <1>1, <1>3, <2>1
  <2>3. decided[i].process = process /\ decided[i].attempt # NoAttempt
    BY <1>2, <1>8, <2>2 DEF CommittedHere
  <2>4. decided[i].key # 0
    BY <2>2, SinceKeys, ZeroIsNoKey
  <2> QED  BY <1>7, <2>2, <2>3, <2>4
<1> QED  BY <1>3, <1>4, <1>8 DEF EvictionEarned

(* Every step leaves a committed key in its table until enough other keys   *)
(* were decided.                                                            *)
LEMMA StepEarned ==
  ASSUME RInv, EvictionEarned, [Next]_vars
  PROVE  EvictionEarned'
<1>1. ASSUME DOMAIN requests_' = DOMAIN requests_,
             UNCHANGED <<inside, order_, decided, process>>
      PROVE  EvictionEarned'
  BY <1>1 DEF EvictionEarned, CommittedHere, Since
<1>2. CASE UNCHANGED vars
  BY <1>1, <1>2 DEF vars, registry
<1>3. ASSUME NEW k \in Key, ReplayCached(k) \/ RefuseInFlight(k)
      PROVE  EvictionEarned'
  BY <1>2, <1>3 DEF ReplayCached, RefuseInFlight
<1>4. ASSUME NEW k \in Key, Enter(k) \/ Commit(k) \/ Refuse(k) \/ KeepAlive(k)
      PROVE  EvictionEarned'
  BY <1>4, EnterEarned, CommitEarned, RefuseEarned
<1>5. ASSUME NEW k \in Key, Cancel(k)
      PROVE  EvictionEarned'
  BY <1>1, <1>5 DEF Cancel
<1>6. CASE (\E k \in AckKeys : RefuseAcknowledgement(k)) \/ Rotate \/ Close \/ Reopen
  BY <1>1, <1>6 DEF RefuseAcknowledgement, Rotate, Close, Reopen, registry
<1>7. CASE Crash
  <2>1. process' = process + 1 /\ decided' = decided
    BY <1>7 DEF Crash
  <2>2. \A i \in 1 .. Len(decided) : decided[i].process # process + 1
    <3>1. decided \in Seq(Entry) /\ process \in Nat
          /\ \A i \in 1 .. Len(decided) : decided[i].process <= process
      BY DEF RInv, Tables
    <3>2. \A i \in 1 .. Len(decided) : decided[i] \in Entry
      BY <3>1, ElementOfSeq
    <3>3. \A i \in 1 .. Len(decided) : decided[i].process \in Nat
      BY <3>2 DEF Entry
    <3> QED  BY <3>1, <3>3
  <2> QED  BY <2>1, <2>2 DEF EvictionEarned, CommittedHere
<1> QED  BY <1>2, <1>3, <1>4, <1>5, <1>6, <1>7 DEF Next

(* A decision that commits a key again finds enough others since the last.  *)
LEMMA StepRecommits ==
  ASSUME RInv, EvictionEarned, RecommitNeedsEviction, [Next]_vars
  PROVE  RecommitNeedsEviction'
<1> DEFINE n == Len(decided)
           Between(f, i, j) == {f[m].key : m \in i + 1 .. j - 1} \ {f[i].key}
<1>1. decided \in Seq(Entry) /\ n \in Nat /\ DOMAIN decided = 1 .. n
  BY DEF RInv, Tables
<1>2. CASE decided' = decided
  BY <1>2 DEF RecommitNeedsEviction
<1>3. ASSUME NEW k \in Key, Commit(k) \/ Refuse(k) \/ KeepAlive(k)
      PROVE  RecommitNeedsEviction'
  <2>1. PICK d \in Nat : /\ inside = k /\ Decision(k, d) /\ process' = process
                         /\ d # NoAttempt => Commit(k)
    <3>1. n + 1 \in Nat /\ 0 \in Nat /\ NoAttempt = 0
      BY <1>1 DEF NoAttempt
    <3> QED  BY <1>3, <3>1 DEF Commit, Refuse, KeepAlive
  <2>2. /\ decided' \in Seq(Entry) /\ Len(decided') = n + 1
        /\ \A i \in 1 .. n : decided'[i] = decided[i]
        /\ decided'[n + 1].key = k /\ decided'[n + 1].process = process
    BY <2>1, DecidedGrows
  <2>3. DOMAIN decided' = 1 .. n + 1
    BY <2>2
  <2>4. \A i, j \in 1 .. n + 1 : i < j => Between(decided', i, j) = Between(decided, i, j)
    <3>1. ASSUME NEW i \in 1 .. n + 1, NEW j \in 1 .. n + 1, i < j
          PROVE  Between(decided', i, j) = Between(decided, i, j)
      <4>1. i \in 1 .. n /\ \A m \in i + 1 .. j - 1 : m \in 1 .. n
        BY <1>1, <3>1
      <4> QED  BY <2>2, <4>1
    <3> QED  BY <3>1
  <2> HIDE DEF Between
  <2>5. ASSUME NEW i \in 1 .. n + 1, NEW j \in 1 .. n + 1, i < j,
               decided'[i].key = decided'[j].key, decided'[i].process = decided'[j].process,
               decided'[i].attempt # NoAttempt, decided'[j].attempt # NoAttempt
        PROVE  Cardinality(Between(decided', i, j)) >= MaxRequestCache
    <3>1. i \in 1 .. n /\ decided'[i] = decided[i]
      BY <1>1, <2>2, <2>5
    <3>2. Between(decided', i, j) = Between(decided, i, j)
      BY <2>4, <2>5
    <3>3. CASE j \in 1 .. n
      <4>1. decided'[j] = decided[j]
        BY <2>2, <3>3
      <4>2. Cardinality(Between(decided, i, j)) >= MaxRequestCache
        BY <1>1, <2>5, <3>1, <3>3, <4>1 DEF RecommitNeedsEviction, Between
      <4> QED  BY <3>2, <4>2
    <3>4. CASE j = n + 1
      <4>1. /\ decided[i].key = k /\ CommittedHere(i)
        BY <2>2, <2>5, <3>1, <3>4 DEF CommittedHere
      <4>2. Cardinality(Since(i) \cup ({k} \ {0, k})) >= MaxRequestCache
        BY <2>1, <3>1, <4>1 DEF EvictionEarned
      <4>3. Between(decided, i, j) = Since(i) \cup ({k} \ {0, k})
        <5>1. j - 1 = n
          BY <1>1, <3>4
        <5> QED  BY <5>1 DEF Between, Since
      <4> QED  BY <3>2, <4>2, <4>3
    <3> QED  BY <1>1, <3>3, <3>4
  <2> QED  BY <2>3, <2>5 DEF RecommitNeedsEviction, Between
<1>4. (decided' = decided) \/ \E k \in Key : Commit(k) \/ Refuse(k) \/ KeepAlive(k)
  BY DEF Next, vars, ReplayCached, Enter, RefuseInFlight, Cancel, RefuseAcknowledgement,
         Rotate, Close, Reopen, Crash
<1> QED  BY <1>2, <1>3, <1>4

-----------------------------------------------------------------------------
(* What a retry is told.                                                    *)

(* A decision was made for the key, and while nothing restarted it is the   *)
(* last one.                                                                *)
Made(k, d) ==
  \E i \in DOMAIN decided :
    /\ decided[i].key = k /\ decided[i].attempt = d
    /\ restarts = 0 => \A j \in i + 1 .. Len(decided) : decided[j].key # k

(* Decisions for other keys do not change that, nor does a restart.         *)
LEMMA MadeGrows ==
  ASSUME RInv, NEW k \in Key, NEW d \in Nat, Decision(k, d), restarts' = restarts
  PROVE  /\ Made(k, d)'
         /\ \A j, e : j # k /\ Made(j, e) => Made(j, e)'
         /\ \A j, e : (\E i \in 1 .. Len(decided) : decided[i].key = j /\ decided[i].attempt = e)
              => \E i \in 1 .. Len(decided') : decided'[i].key = j /\ decided'[i].attempt = e
<1> DEFINE n == Len(decided)
<1>1. /\ n \in Nat /\ DOMAIN decided = 1 .. n /\ DOMAIN decided' = 1 .. n + 1
      /\ Len(decided') = n + 1
      /\ \A i \in 1 .. n : decided'[i] = decided[i] /\ i \in 1 .. n + 1
      /\ decided'[n + 1].key = k /\ decided'[n + 1].attempt = d
  <2>1. decided \in Seq(Entry) /\ decided' \in Seq(Entry)
    BY DecidedGrows DEF RInv, Tables
  <2>2. DOMAIN decided = 1 .. n /\ n \in Nat /\ DOMAIN decided' = 1 .. Len(decided')
    BY <2>1
  <2>3. /\ Len(decided') = n + 1
        /\ \A i \in 1 .. n : decided'[i] = decided[i]
        /\ decided'[n + 1].key = k /\ decided'[n + 1].attempt = d
    BY DecidedGrows
  <2>4. \A i \in 1 .. n : i \in 1 .. n + 1
    BY <2>2
  <2> QED  BY <2>2, <2>3, <2>4
<1>2. Made(k, d)'
  <2>1. n + 1 \in DOMAIN decided' /\ n + 1 + 1 .. n + 1 = {}
    BY <1>1
  <2>2. n + 1 + 1 .. Len(decided') = {}
    BY <1>1
  <2> QED  BY <1>1, <2>1, <2>2 DEF Made
<1>3. ASSUME NEW j, NEW e, j # k, Made(j, e)
      PROVE  Made(j, e)'
  <2>1. PICK i \in 1 .. n :
          /\ decided[i].key = j /\ decided[i].attempt = e
          /\ restarts = 0 => \A m \in i + 1 .. n : decided[m].key # j
    BY <1>1, <1>3 DEF Made
  <2>2. \A m \in i + 1 .. n + 1 : (m \in i + 1 .. n /\ m \in 1 .. n) \/ m = n + 1
    BY <1>1
  <2>3. restarts = 0 => \A m \in i + 1 .. n + 1 : decided'[m].key # j
    BY <1>1, <1>3, <2>1, <2>2
  <2> QED  BY <1>1, <2>1, <2>3 DEF Made
<1> QED  BY <1>1, <1>2, <1>3

(* Every step answers a retry with a decision of its key.                   *)
LEMMA StepDecisions ==
  ASSUME RInv, DecisionsRepeat, SavedDecided, ClosedOnce, [Next]_vars
  PROVE  DecisionsRepeat' /\ SavedDecided' /\ ClosedOnce'
<1> DEFINE Told == DOMAIN request_cache \cap (Key \ AckKeys)
<1>1. /\ decided \in Seq(Entry) /\ DOMAIN decided = 1 .. Len(decided) /\ restarts \in Nat
      /\ \A k \in Told : Made(k, request_cache[k])
  BY DEF RInv, Tables, DecisionsRepeat, DecisionsRepeatFor, Made
<1>2. (\A j \in DOMAIN request_cache' \cap (Key \ AckKeys) :
          \E e : e = request_cache'[j] /\ Made(j, e)')
        => DecisionsRepeat'
  BY DEF DecisionsRepeat, DecisionsRepeatFor, Made
<1>3. ASSUME UNCHANGED <<request_cache, saved, decided, restarts, opened>>
      PROVE  DecisionsRepeat' /\ SavedDecided' /\ ClosedOnce'
  BY <1>3 DEF DecisionsRepeat, DecisionsRepeatFor, SavedDecided, ClosedOnce
<1>4. ASSUME NEW k \in Key,
             ReplayCached(k) \/ RefuseInFlight(k) \/ Enter(k) \/ Cancel(k)
      PROVE  DecisionsRepeat' /\ SavedDecided' /\ ClosedOnce'
  BY <1>3, <1>4 DEF ReplayCached, RefuseInFlight, Enter, Cancel, vars, cache
<1>5. CASE UNCHANGED vars
  BY <1>3, <1>5 DEF vars, cache
<1>6. ASSUME NEW k \in Key, Commit(k) \/ Refuse(k) \/ KeepAlive(k)
      PROVE  DecisionsRepeat' /\ SavedDecided' /\ ClosedOnce'
  <2>1. PICK d \in Nat :
          /\ inside = k /\ Decision(k, d)
          /\ Remember(k, d) \/ UNCHANGED <<request_cache, request_order>>
          /\ saved' \in {saved, request_cache'}
          /\ UNCHANGED <<opened, restarts>>
    <3>1. Len(decided) + 1 \in Nat /\ NoAttempt \in Nat
      BY <1>1 DEF NoAttempt
    <3> QED  BY <1>6, <3>1 DEF Commit, Refuse, KeepAlive, cache
  <2>2. /\ Made(k, d)'
        /\ \A j, e : j # k /\ Made(j, e) => Made(j, e)'
        /\ \A j, e : (\E i \in 1 .. Len(decided) : decided[i].key = j /\ decided[i].attempt = e)
             => \E i \in 1 .. Len(decided') : decided'[i].key = j /\ decided'[i].attempt = e
    BY <2>1, MadeGrows
  <2>3. k \notin DOMAIN request_cache
    BY <2>1, ZeroIsNoKey DEF RInv, Settled
  <2>4. \A j \in DOMAIN request_cache' \cap (Key \ AckKeys) :
          \E e : e = request_cache'[j] /\ Made(j, e)'
    <3>1. CASE Remember(k, d)
      <4>1. /\ request_cache'[k] = d
            /\ DOMAIN request_cache' \subseteq DOMAIN request_cache \cup {k}
            /\ \A j \in DOMAIN request_cache' : j # k => request_cache'[j] = request_cache[j]
        BY <3>1, RememberTable
      <4>2. ASSUME NEW j \in DOMAIN request_cache' \cap (Key \ AckKeys)
            PROVE  \E e : e = request_cache'[j] /\ Made(j, e)'
        <5>1. CASE j = k
          BY <2>2, <4>1, <5>1
        <5>2. CASE j # k
          <6>1. j \in Told /\ request_cache'[j] = request_cache[j]
            BY <4>1, <4>2, <5>2
          <6> QED  BY <1>1, <2>2, <5>2, <6>1
        <5> QED  BY <5>1, <5>2
      <4> QED  BY <4>2
    <3>2. CASE UNCHANGED <<request_cache, request_order>>
      <4>1. ASSUME NEW j \in DOMAIN request_cache' \cap (Key \ AckKeys)
            PROVE  \E e : e = request_cache'[j] /\ Made(j, e)'
        <5>1. j \in Told /\ j # k /\ request_cache'[j] = request_cache[j]
          BY <2>3, <3>2
        <5> QED  BY <1>1, <2>2, <5>1
      <4> QED  BY <4>1
    <3> QED  BY <2>1, <3>1, <3>2
  <2>5. DecisionsRepeat'
    BY <1>2, <2>4
  <2>6. SavedDecided'
    <3>1. CASE saved' = saved
      BY <2>2, <3>1 DEF SavedDecided
    <3>2. CASE saved' = request_cache'
      <4>1. DOMAIN decided' = 1 .. Len(decided')
        BY <2>1, DecidedGrows
      <4> QED  BY <2>4, <3>2, <4>1 DEF SavedDecided, Made
    <3> QED  BY <2>1, <3>1, <3>2
  <2>7. ClosedOnce'
    BY <2>1 DEF ClosedOnce
  <2> QED  BY <2>5, <2>6, <2>7
<1>7. ASSUME NEW k \in AckKeys, RefuseAcknowledgement(k)
      PROVE  DecisionsRepeat' /\ SavedDecided' /\ ClosedOnce'
  <2>1. /\ Remember(k, 0) /\ k \in Key /\ UNCHANGED <<saved, decided, restarts, opened>>
    BY <1>7, RequestsAssumption DEF RefuseAcknowledgement, NoAttempt
  <2>2. /\ DOMAIN request_cache' \subseteq DOMAIN request_cache \cup {k}
        /\ \A j \in DOMAIN request_cache' : j # k => request_cache'[j] = request_cache[j]
    BY <2>1, RememberTable
  <2>3. \A j \in DOMAIN request_cache' \cap (Key \ AckKeys) :
          j \in Told /\ request_cache'[j] = request_cache[j]
    BY <2>2
  <2>4. DecisionsRepeat'
    BY <2>1, <2>3 DEF DecisionsRepeat, DecisionsRepeatFor
  <2> QED  BY <2>1, <2>4 DEF SavedDecided, ClosedOnce
<1>8. CASE Close
  <2>1. opened = TRUE /\ restarts' = restarts + 1 /\ UNCHANGED <<request_cache, saved, decided>>
    BY <1>8 DEF Close, cache, RInv, Tables
  <2>2. restarts' > 0
    BY <1>1, <2>1
  <2>3. DecisionsRepeat'
    BY <2>1, <2>2 DEF DecisionsRepeat, DecisionsRepeatFor
  <2> QED  BY <2>1, <2>2, <2>3 DEF SavedDecided, ClosedOnce
<1>9. CASE Reopen \/ Crash
  <2>1. ReadBack /\ UNCHANGED <<saved, decided>>
    BY <1>9 DEF Reopen, Crash
  <2>2. restarts' > 0
    BY <1>1, <1>9 DEF Reopen, Crash, ClosedOnce
  <2>3. request_cache' = saved /\ opened' = TRUE
    BY <2>1, ReadBackTable
  <2>4. DecisionsRepeat'
    BY <1>1, <2>1, <2>2, <2>3 DEF DecisionsRepeat, DecisionsRepeatFor, SavedDecided
  <2> QED  BY <2>1, <2>3, <2>4 DEF SavedDecided, ClosedOnce
<1>10. CASE Rotate
  <2>1. saved' = request_cache /\ UNCHANGED <<opened, request_cache, decided, restarts>>
    BY <1>10 DEF Rotate, cache
  <2>2. DecisionsRepeat' /\ ClosedOnce'
    BY <2>1 DEF DecisionsRepeat, DecisionsRepeatFor, ClosedOnce
  <2> QED  BY <1>1, <2>1, <2>2 DEF SavedDecided, Made
<1> QED  BY <1>4, <1>5, <1>6, <1>7, <1>8, <1>9, <1>10 DEF Next

-----------------------------------------------------------------------------
(* A first process satisfies all the invariants.                            *)
LEMMA InitRequests ==
  ASSUME Init
  PROVE  /\ RInv /\ EvictionEarned /\ RecommitNeedsEviction
         /\ DecisionsRepeat /\ SavedDecided /\ ClosedOnce
<1>1. /\ opened = TRUE /\ inside = 0 /\ request_cache = <<>> /\ request_order = <<>>
      /\ requests_ = <<>> /\ order_ = <<>> /\ saved = <<>> /\ decided = <<>>
      /\ restarts = 0 /\ process = 1
  BY DEF Init
<1>2. DOMAIN <<>> = {} /\ Cardinality({}) = 0 /\ Len(<<>>) = 0 /\ 1 .. 0 = {}
  BY FS_EmptySet
<1>3. Lists(<<>>, {})
  BY DEF Lists
<1>4. Table(request_cache, request_order) /\ Table(requests_, order_)
  BY <1>1, <1>2, <1>3, RequestsAssumption DEF Table
<1>5. decided \in Seq(Entry) /\ restarts \in Nat /\ process \in Nat
  BY <1>1
<1>6. opened \in BOOLEAN
  BY <1>1
<1>7. DOMAIN saved \subseteq Key /\ Cardinality(DOMAIN saved) <= MaxRequestCache
  BY <1>1, <1>2, RequestsAssumption
<1>8. \A i \in 1 .. Len(decided) : FALSE
  BY <1>1, <1>2
<1>9. Tables
  BY <1>1, <1>4, <1>5, <1>6, <1>7, <1>8 DEF Tables
<1>10. Settled
  BY <1>1, <1>2 DEF Settled
<1>11. EvictionEarned /\ SavedDecided
  BY <1>1, <1>2, <1>8 DEF EvictionEarned, SavedDecided
<1>12. RecommitNeedsEviction /\ DecisionsRepeat
  BY <1>1, <1>2 DEF RecommitNeedsEviction, DecisionsRepeat, DecisionsRepeatFor
<1> QED  BY <1>1, <1>9, <1>10, <1>11, <1>12 DEF RInv, ClosedOnce

(* Both tables keep their ceilings and list the same keys as the queues     *)
(* they are evicted by; no key but the running operation's is uncommitted.  *)
THEOREM RequestsInvariance == Spec => []RInv
<1>1. Init => RInv
  BY InitRequests
<1>2. RInv /\ [Next]_vars => RInv'
  BY StepTables
<1> QED  BY <1>1, <1>2, PTL DEF Spec

(* Both tables stay within max_request_cache and in step with the queues    *)
(* they evict by.                                                           *)
THEOREM RequestsTypeCorrect == Spec => []RequestsTypeOK
<1>1. RInv => RequestsTypeOK
  <2> SUFFICES ASSUME RInv PROVE RequestsTypeOK
    OBVIOUS
  <2>1. /\ Lists(request_order, DOMAIN request_cache) /\ Lists(order_, DOMAIN requests_)
        /\ DOMAIN request_cache \subseteq Key /\ DOMAIN requests_ \subseteq Key
        /\ Cardinality(DOMAIN request_cache) <= MaxRequestCache
        /\ Cardinality(DOMAIN requests_) <= MaxRequestCache
    BY DEF RInv, Tables, Table
  <2>2. /\ Range(request_order) = DOMAIN request_cache
        /\ Len(request_order) = Cardinality(DOMAIN request_cache)
        /\ Range(order_) = DOMAIN requests_
        /\ Len(order_) = Cardinality(DOMAIN requests_)
    BY <2>1, ListsCount
  <2>3. Range(requests_) \subseteq {"Active", "Cancelled", "Committed"}
    BY DEF RInv, Settled, Range
  <2>4. opened \in BOOLEAN /\ inside \in {0} \cup Key
    BY DEF RInv, Tables
  <2> QED  BY <2>1, <2>2, <2>3, <2>4 DEF RequestsTypeOK
<1> QED  BY <1>1, RequestsInvariance, PTL

(* Whenever the state mutex is free the registry holds committed keys only: *)
(* a refused or cancelled key never stays reserved.                         *)
THEOREM RefusalsReleaseKeys == Spec => []RegistrySettled
<1>1. RInv => RegistrySettled
  BY ZeroIsNoKey DEF RInv, Settled, Tables, Table, RegistrySettled
<1> QED  BY <1>1, RequestsInvariance, PTL

(* A key commits a second time in one process only after the ceiling's      *)
(* worth of other keys were decided in between, whatever was refused,       *)
(* closed, reopened or evicted meanwhile.                                   *)
THEOREM RecommitsAreEarned == Spec => []RecommitNeedsEviction
<1>1. Init => EvictionEarned /\ RecommitNeedsEviction
  BY InitRequests
<1>2. RInv /\ (EvictionEarned /\ RecommitNeedsEviction) /\ [Next]_vars
        => (EvictionEarned /\ RecommitNeedsEviction)'
  BY StepEarned, StepRecommits
<1> QED  BY <1>1, <1>2, RequestsInvariance, PTL DEF Spec

(* A retry hears a decision that was made for its key, and the last one as  *)
(* long as nothing restarted.                                               *)
THEOREM RetriesHearDecisions == Spec => []DecisionsRepeat
<1>1. Init => DecisionsRepeat /\ SavedDecided /\ ClosedOnce
  BY InitRequests
<1>2. RInv /\ (DecisionsRepeat /\ SavedDecided /\ ClosedOnce) /\ [Next]_vars
        => (DecisionsRepeat /\ SavedDecided /\ ClosedOnce)'
  BY StepDecisions
<1> QED  BY <1>1, <1>2, RequestsInvariance, PTL DEF Spec
=============================================================================
