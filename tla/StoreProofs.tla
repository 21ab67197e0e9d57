----------------------------- MODULE StoreProofs -----------------------------
(***************************************************************************)
(* Store's properties for all record sizes, bounds and error switches.     *)
(***************************************************************************)
EXTENDS Store, SequenceTheorems, FiniteSetTheorems, WellFoundedInduction, TLAPS

-----------------------------------------------------------------------------
(* Numbers.                                                                 *)

(* A set of naturals that is not empty has a least element.                 *)
LEMMA LeastNatural ==
  ASSUME NEW T \in SUBSET Nat, T # {}
  PROVE  \E n \in T : \A m \in T : n <= m
<1>1. PICK x \in T : \A y \in T : ~(<<y, x>> \in OpToRel(<, Nat))
  BY NatLessThanWellFounded, WFMin
<1>2. \A y \in T : ~(y < x)
  BY <1>1 DEF OpToRel
<1> QED  BY <1>2

(* The least of a set of naturals is what Min returns.                      *)
LEMMA MinOf ==
  ASSUME NEW T \in SUBSET Nat, T # {}
  PROVE  Min(T) \in T /\ \A m \in T : Min(T) <= m
<1>1. \E n \in T : \A m \in T : n <= m
  BY LeastNatural
<1> QED  BY <1>1 DEF Min

(* The greatest of a bounded set of naturals is what Max returns.           *)
LEMMA MaxOf ==
  ASSUME NEW M \in Nat, NEW T \in SUBSET (0 .. M), T # {}
  PROVE  Max(T) \in T /\ \A m \in T : m <= Max(T)
<1> DEFINE D == {n \in Nat : \E m \in T : n + m = M}
<1>1. D # {} /\ D \in SUBSET Nat
  <2>1. PICK m \in T : TRUE
    OBVIOUS
  <2>2. M - m \in Nat /\ (M - m) + m = M
    BY <2>1
  <2> QED  BY <2>1, <2>2
<1>2. PICK n \in D : \A d \in D : n <= d
  <2> HIDE DEF D
  <2> QED  BY <1>1, LeastNatural
<1>3. PICK x \in T : n + x = M
  BY <1>2
<1>4. \A m \in T : m <= x
  <2> SUFFICES ASSUME NEW m \in T PROVE m <= x
    OBVIOUS
  <2>1. M - m \in D
    OBVIOUS
  <2>2. n <= M - m
    BY <1>2, <2>1
  <2> QED  BY <2>2, <1>3
<1>5. \E y \in T : \A m \in T : m <= y
  BY <1>4
<1> QED  BY <1>5 DEF Max

(* A set of numbers has a k-th smallest one.                                *)
LEMMA KthSmallest ==
  ASSUME NEW M \in Nat, NEW ids \in SUBSET (1 .. M), NEW k \in 1 .. Cardinality(ids)
  PROVE  \E e \in ids : Cardinality({d \in ids : d < e}) = k - 1
<1> DEFINE Below(n) == {d \in ids : d < n}
           T == {n \in Nat : Cardinality(Below(n)) >= k}
<1>0. \A d \in ids : d \in Nat /\ 0 < d /\ d < M + 1
  OBVIOUS
<1>1. IsFiniteSet(ids) /\ Cardinality(ids) \in Nat
  <2>1. IsFiniteSet(1 .. M)
    BY FS_Interval
  <2>2. IsFiniteSet(ids)
    BY <2>1, FS_Subset
  <2> QED  BY <2>2, FS_CardinalityType
<1>2. \A n \in Nat : IsFiniteSet(Below(n)) /\ Cardinality(Below(n)) \in Nat
  <2>1. \A n \in Nat : Below(n) \in SUBSET ids
    OBVIOUS
  <2>2. \A n \in Nat : IsFiniteSet(Below(n))
    BY <1>1, <2>1, FS_Subset
  <2> QED  BY <2>2, FS_CardinalityType
<1>3. M + 1 \in T
  <2>1. Below(M + 1) = ids
    BY <1>0
  <2> HIDE DEF Below
  <2> QED  BY <2>1, <1>1
<1>4. PICK n \in T : \A m \in T : n <= m
  <2>1. T \in SUBSET Nat /\ T # {}
    BY <1>3
  <2> HIDE DEF T
  <2> QED  BY <2>1, LeastNatural
<1>5. n \in Nat /\ Cardinality(Below(n)) >= k
  BY <1>4
<1>6. n # 0
  <2>1. \A d \in ids : ~(d < 0)
    BY <1>0
  <2>2. Below(0) = {}
    BY <2>1
  <2>3. Cardinality(Below(0)) = 0
    BY <2>2, FS_EmptySet
  <2> HIDE DEF Below
  <2> QED  BY <2>3, <1>5
<1>7. n - 1 \in Nat /\ n - 1 \notin T
  BY <1>4, <1>5, <1>6
<1>8. n - 1 \notin Below(n - 1)
  BY <1>7
<1>9. /\ n - 1 \in ids => Below(n) = Below(n - 1) \cup {n - 1}
      /\ n - 1 \notin ids => Below(n) = Below(n - 1)
  <2>1. \A d \in ids : d < n <=> (d < n - 1 \/ d = n - 1)
    BY <1>0, <1>7, <1>5
  <2> QED  BY <2>1
<1>10. Cardinality(Below(n - 1)) \in Nat /\ Cardinality(Below(n - 1)) < k
  BY <1>7, <1>2
<1> HIDE DEF Below
<1>11. n - 1 \in ids /\ Cardinality(Below(n - 1)) = k - 1
  <2>1. CASE n - 1 \notin ids
    BY <2>1, <1>9, <1>10, <1>5
  <2>2. CASE n - 1 \in ids
    <3>1. Cardinality(Below(n)) = Cardinality(Below(n - 1)) + 1
      BY <2>2, <1>8, <1>9, <1>2, <1>7, FS_AddElement
    <3> QED  BY <3>1, <2>2, <1>10, <1>5
  <2> QED  BY <2>1, <2>2
<1> QED  BY <1>11 DEF Below

-----------------------------------------------------------------------------
(* Bytes.                                                                   *)

(* The recursion of Bytes has a solution.                                   *)
LEMMA SumExists ==
  ASSUME NEW w, NEW n \in Nat, \A i \in 1 .. n : w[i] \in Int
  PROVE  \E f : f = [m \in 0 .. n |-> IF m = 0 THEN 0 ELSE f[m - 1] + w[m]]
<1> DEFINE P(k) == \E f \in [0 .. k -> Int] :
                     f[0] = 0 /\ \A i \in 1 .. k : f[i] = f[i - 1] + w[i]
           T == {k \in 0 .. n : ~P(k)}
<1>1. P(0)
  <2> DEFINE f == [m \in 0 .. 0 |-> 0]
  <2>1. f \in [0 .. 0 -> Int] /\ f[0] = 0 /\ \A i \in 1 .. 0 : f[i] = f[i - 1] + w[i]
    OBVIOUS
  <2> QED  BY <2>1
<1>2. ASSUME NEW k \in 0 .. n - 1, P(k) PROVE P(k + 1)
  <2>1. PICK f \in [0 .. k -> Int] : f[0] = 0 /\ \A i \in 1 .. k : f[i] = f[i - 1] + w[i]
    BY <1>2
  <2> DEFINE g == [m \in 0 .. k + 1 |-> IF m = k + 1 THEN f[k] + w[k + 1] ELSE f[m]]
  <2>2. k + 1 \in 1 .. n /\ w[k + 1] \in Int /\ f[k] \in Int
    OBVIOUS
  <2>3. g \in [0 .. k + 1 -> Int]
    BY <2>2
  <2>4. g[0] = 0
    BY <2>1
  <2>5. ASSUME NEW i \in 1 .. k + 1 PROVE g[i] = g[i - 1] + w[i]
    <3>1. CASE i = k + 1
      BY <3>1
    <3>2. CASE i # k + 1
      <4>1. i \in 1 .. k /\ i - 1 \in 0 .. k
        BY <3>2
      <4> QED  BY <4>1, <2>1
    <3> QED  BY <3>1, <3>2
  <2> QED  BY <2>3, <2>4, <2>5
<1>3. P(n)
  <2>1. SUFFICES ASSUME T # {} PROVE FALSE
    OBVIOUS
  <2>2. T \in SUBSET Nat
    OBVIOUS
  <2>3. PICK k \in T : \A m \in T : k <= m
    <3> HIDE DEF T
    <3> QED  BY <2>1, <2>2, LeastNatural
  <2>4. k # 0 /\ k \in 0 .. n /\ ~P(k)
    BY <2>3, <1>1
  <2>5. k - 1 \in 0 .. n - 1 /\ k - 1 \notin T
    <3>1. k - 1 \in 0 .. n - 1 /\ ~(k <= k - 1)
      BY <2>4
    <3> HIDE DEF T
    <3> QED  BY <3>1, <2>3
  <2>6. P(k - 1)
    BY <2>5
  <2> HIDE DEF P
  <2>7. P((k - 1) + 1)
    BY <1>2, <2>5, <2>6
  <2> QED  BY <2>4, <2>7
<1>4. PICK f \in [0 .. n -> Int] : f[0] = 0 /\ \A i \in 1 .. n : f[i] = f[i - 1] + w[i]
  BY <1>3
<1>5. f = [m \in 0 .. n |-> IF m = 0 THEN 0 ELSE f[m - 1] + w[m]]
  BY <1>4
<1> QED  BY <1>5

(* Sums of the same steps differ by what they start from.                   *)
LEMMA SameSteps ==
  \A n, k \in Nat : \A f, g :
    /\ \A i \in 0 .. n : f[k + i] \in Int /\ g[i] \in Int
    /\ \A i \in 1 .. n : f[k + i] - f[k + i - 1] = g[i] - g[i - 1]
    => f[k + n] = f[k] + g[n] - g[0]
<1> SUFFICES
      ASSUME NEW n \in Nat, NEW k \in Nat, NEW f, NEW g,
             \A i \in 0 .. n : f[k + i] \in Int /\ g[i] \in Int,
             \A i \in 1 .. n : f[k + i] - f[k + i - 1] = g[i] - g[i - 1]
      PROVE  f[k + n] = f[k] + g[n] - g[0]
  OBVIOUS
<1> DEFINE T == {i \in 0 .. n : f[k + i] # f[k] + g[i] - g[0]}
<1>1. SUFFICES ASSUME T # {} PROVE FALSE
  OBVIOUS
<1>2. T \in SUBSET Nat
  OBVIOUS
<1>3. PICK i \in T : \A j \in T : i <= j
  <2> HIDE DEF T
  <2> QED  BY <1>1, <1>2, LeastNatural
<1>4. i \in 0 .. n /\ f[k + i] # f[k] + g[i] - g[0]
  BY <1>3
<1>5. 0 \in 0 .. n /\ k + 0 = k
  OBVIOUS
<1>6. f[k] \in Int /\ g[0] \in Int
  BY <1>5
<1>7. i # 0
  <2> SUFFICES ASSUME i = 0 PROVE FALSE
    OBVIOUS
  <2>1. f[k + i] = f[k] /\ g[i] = g[0]
    BY <1>5
  <2> QED  BY <2>1, <1>4, <1>6
<1>8. i - 1 \in 0 .. n /\ i \in 1 .. n /\ k + (i - 1) = k + i - 1 /\ ~(i <= i - 1)
  BY <1>4, <1>7
<1>9. f[k + (i - 1)] = f[k] + g[i - 1] - g[0]
  <2>1. i - 1 \notin T
    <3> HIDE DEF T
    <3> QED  BY <1>3, <1>8
  <2> QED  BY <2>1, <1>8
<1>10. /\ f[k + i] - f[k + i - 1] = g[i] - g[i - 1]
       /\ f[k + i] \in Int /\ f[k + (i - 1)] \in Int /\ g[i] \in Int /\ g[i - 1] \in Int
  BY <1>4, <1>8
<1>11. f[k + i - 1] = f[k + (i - 1)]
  BY <1>8
<1> QED  BY <1>4, <1>6, <1>9, <1>10, <1>11

(* The size of a frame is a number.                                         *)
LEMMA FrameBytesType ==
  ASSUME NEW f \in Frame
  PROVE  FrameBytes(f) \in Int
BY DEF Frame, Record, FrameBytes

(* What Bytes sums up.                                                      *)
LEMMA BytesSum ==
  ASSUME NEW fs \in Seq(Frame)
  PROVE  \E f : /\ Bytes(fs) = f[Len(fs)] /\ f[0] = 0
                /\ \A i \in 0 .. Len(fs) : f[i] \in Int
                /\ \A i \in 1 .. Len(fs) : f[i] = f[i - 1] + FrameBytes(fs[i])
<1> DEFINE n == Len(fs)
           w == [i \in 1 .. n |-> FrameBytes(fs[i])]
           Solves(f) == f = [m \in 0 .. n |-> IF m = 0 THEN 0 ELSE f[m - 1] + FrameBytes(fs[m])]
           sum == CHOOSE f : Solves(f)
<1>1. n \in Nat /\ \A i \in 1 .. n : fs[i] \in Frame
  OBVIOUS
<1>2. \A i \in 1 .. n : w[i] \in Int /\ w[i] = FrameBytes(fs[i])
  BY <1>1, FrameBytesType
<1> HIDE DEF w
<1>3. PICK f : f = [m \in 0 .. n |-> IF m = 0 THEN 0 ELSE f[m - 1] + w[m]]
  BY <1>1, <1>2, SumExists
<1>4. \A m \in 0 .. n : (IF m = 0 THEN 0 ELSE f[m - 1] + w[m])
                         = (IF m = 0 THEN 0 ELSE f[m - 1] + FrameBytes(fs[m]))
  BY <1>1, <1>2
<1>5. Solves(f)
  BY <1>3, <1>4
<1>6. Solves(sum)
  <2> HIDE DEF Solves
  <2> QED  BY <1>5
<1>7. Bytes(fs) = sum[n]
  BY DEF Bytes
<1> HIDE DEF sum
<1>8. sum[0] = 0 /\ \A i \in 1 .. n : sum[i] = sum[i - 1] + FrameBytes(fs[i])
  BY <1>1, <1>6
<1>9. \A i \in 1 .. n : FrameBytes(fs[i]) \in Int
  BY <1>1, FrameBytesType
<1> DEFINE T == {i \in 0 .. n : sum[i] \notin Int}
<1>10. T = {}
  <2>1. SUFFICES ASSUME T # {} PROVE FALSE
    OBVIOUS
  <2>2. T \in SUBSET Nat
    BY <1>1
  <2>3. PICK i \in T : \A j \in T : i <= j
    <3> HIDE DEF T
    <3> QED  BY <2>1, <2>2, LeastNatural
  <2>4. i \in 0 .. n /\ sum[i] \notin Int
    BY <2>3
  <2>5. i # 0
    BY <2>4, <1>8
  <2>6. i - 1 \in 0 .. n /\ i \in 1 .. n /\ ~(i <= i - 1)
    BY <2>4, <2>5, <1>1
  <2>7. i - 1 \notin T
    <3> HIDE DEF T
    <3> QED  BY <2>3, <2>6
  <2>8. sum[i - 1] \in Int
    BY <2>6, <2>7
  <2>9. sum[i] = sum[i - 1] + FrameBytes(fs[i]) /\ FrameBytes(fs[i]) \in Int
    BY <2>6, <1>8, <1>9
  <2> QED  BY <2>4, <2>8, <2>9
<1> QED  BY <1>7, <1>8, <1>10

(* No frames, no bytes.                                                     *)
LEMMA BytesOfNone == Bytes(<<>>) = 0
<1>1. <<>> \in Seq(Frame) /\ Len(<<>>) = 0
  OBVIOUS
<1> QED  BY <1>1, BytesSum

(* The bytes of a file are those of its parts.                              *)
LEMMA BytesConcat ==
  ASSUME NEW fs \in Seq(Frame), NEW gs \in Seq(Frame)
  PROVE  Bytes(fs \o gs) = Bytes(fs) + Bytes(gs)
<1> DEFINE k == Len(fs)
           n == Len(gs)
           hs == fs \o gs
<1>1. /\ k \in Nat /\ n \in Nat /\ hs \in Seq(Frame) /\ Len(hs) = k + n
      /\ \A i \in 1 .. k : hs[i] = fs[i]
      /\ \A i \in 1 .. n : hs[k + i] = gs[i]
  OBVIOUS
<1> HIDE DEF hs
<1>2. PICK f : /\ Bytes(fs) = f[k] /\ f[0] = 0
               /\ \A i \in 0 .. k : f[i] \in Int
               /\ \A i \in 1 .. k : f[i] = f[i - 1] + FrameBytes(fs[i])
  BY BytesSum
<1>3. PICK g : /\ Bytes(gs) = g[n] /\ g[0] = 0
               /\ \A i \in 0 .. n : g[i] \in Int
               /\ \A i \in 1 .. n : g[i] = g[i - 1] + FrameBytes(gs[i])
  BY BytesSum
<1>4. PICK h : /\ Bytes(hs) = h[k + n] /\ h[0] = 0
               /\ \A i \in 0 .. k + n : h[i] \in Int
               /\ \A i \in 1 .. k + n : h[i] = h[i - 1] + FrameBytes(hs[i])
  <2>1. PICK h : /\ Bytes(hs) = h[Len(hs)] /\ h[0] = 0
                 /\ \A i \in 0 .. Len(hs) : h[i] \in Int
                 /\ \A i \in 1 .. Len(hs) : h[i] = h[i - 1] + FrameBytes(hs[i])
    BY <1>1, BytesSum
  <2>2. Len(hs) = k + n
    BY <1>1
  <2> HIDE DEF k, n
  <2> QED  BY <2>1, <2>2
<1>5. h[k] = f[k]
  <2>1. \A i \in 0 .. k : h[0 + i] \in Int /\ f[i] \in Int
    BY <1>1, <1>2, <1>4
  <2>2. \A i \in 1 .. k : h[0 + i] - h[0 + i - 1] = f[i] - f[i - 1]
    <3> SUFFICES ASSUME NEW i \in 1 .. k PROVE h[0 + i] - h[0 + i - 1] = f[i] - f[i - 1]
      OBVIOUS
    <3>1. i \in 1 .. k + n /\ i - 1 \in 0 .. k + n /\ i \in 0 .. k + n /\ 0 + i = i /\ i - 1 \in 0 .. k
          /\ i \in 0 .. k
      BY <1>1
    <3>2. h[i] = h[i - 1] + FrameBytes(fs[i]) /\ f[i] = f[i - 1] + FrameBytes(fs[i])
      BY <3>1, <1>1, <1>2, <1>4
    <3>3. h[i - 1] \in Int /\ f[i - 1] \in Int /\ FrameBytes(fs[i]) \in Int
      BY <3>1, <1>2, <1>4, FrameBytesType
    <3> QED  BY <3>1, <3>2, <3>3
  <2> HIDE DEF k
  <2>3. h[0 + k] = h[0] + f[k] - f[0]
    <3>1. 0 \in Nat /\ k \in Nat
      BY <1>1
    <3>2. \A a, b :
            /\ \A i \in 0 .. k : a[0 + i] \in Int /\ b[i] \in Int
            /\ \A i \in 1 .. k : a[0 + i] - a[0 + i - 1] = b[i] - b[i - 1]
            => a[0 + k] = a[0] + b[k] - b[0]
      BY <3>1, SameSteps
    <3> QED  BY <3>2, <2>1, <2>2
  <2>4. f[k] \in Int
    BY <1>1, <1>2
  <2> QED  BY <2>3, <2>4, <1>1, <1>2, <1>4
<1>6. h[k + n] = h[k] + g[n] - g[0]
  <2>1. \A i \in 0 .. n : h[k + i] \in Int /\ g[i] \in Int
    BY <1>1, <1>3, <1>4
  <2>2. \A i \in 1 .. n : h[k + i] - h[k + i - 1] = g[i] - g[i - 1]
    <3> SUFFICES ASSUME NEW i \in 1 .. n PROVE h[k + i] - h[k + i - 1] = g[i] - g[i - 1]
      OBVIOUS
    <3>1. k + i \in 1 .. k + n /\ k + i - 1 \in 0 .. k + n /\ i - 1 \in 0 .. n
      BY <1>1
    <3>2. h[k + i] = h[k + i - 1] + FrameBytes(gs[i]) /\ g[i] = g[i - 1] + FrameBytes(gs[i])
      <4>1. hs[k + i] = gs[i]
        BY <1>1
      <4>2. h[k + i] = h[k + i - 1] + FrameBytes(hs[k + i])
        BY <3>1, <1>4
      <4> QED  BY <4>1, <4>2, <1>3
    <3>3. h[k + i - 1] \in Int /\ g[i - 1] \in Int /\ FrameBytes(gs[i]) \in Int
      BY <3>1, <1>3, <1>4, FrameBytesType
    <3> QED  BY <3>2, <3>3
  <2> HIDE DEF k, n
  <2>3. k \in Nat /\ n \in Nat
    BY <1>1
  <2>4. \A a, b :
          /\ \A i \in 0 .. n : a[k + i] \in Int /\ b[i] \in Int
          /\ \A i \in 1 .. n : a[k + i] - a[k + i - 1] = b[i] - b[i - 1]
          => a[k + n] = a[k] + b[n] - b[0]
    BY <2>3, SameSteps
  <2> QED  BY <2>1, <2>2, <2>4
<1>7. h[k] \in Int /\ g[n] \in Int
  BY <1>1, <1>3, <1>4
<1> QED  BY <1>2, <1>3, <1>4, <1>5, <1>6, <1>7 DEF hs

-----------------------------------------------------------------------------
(* Journals.                                                                *)

(* p is the beginning of q.                                                 *)
Beginning(p, q) == Len(p) <= Len(q) /\ \A i \in 1 .. Len(p) : p[i] = q[i]

(* The commits before a position.                                           *)
Below(fs, c) == {d \in Commits(fs) : d < c}

(* Position i is inside of the transaction whose Begin frame is at b.       *)
IsOpening(fs, i, b) ==
  /\ b \in 1 .. i - 1 /\ fs[b].kind = "Begin"
  /\ \A j \in b + 1 .. i - 1 : fs[j].kind = "Record"

(* The Commit frame at c ends a complete transaction t.                     *)
Carries(fs, c, t) ==
  LET b == c - Len(t) - 1 IN
  /\ b \in 1 .. c - 1
  /\ fs[b].kind = "Begin" /\ fs[b].id = fs[c].id
  /\ \A j \in 1 .. Len(t) : fs[b + j].kind = "Record" /\ fs[b + j].record = t[j]

(* A transaction is a sequence of records with its number.                  *)
LEMMA TransactionIs ==
  ASSUME NEW t \in Transaction
  PROVE  /\ t \in Seq(Record) /\ Len(t) \in Nat \ {0}
         /\ t[1].txn \in 1 .. MaxTransactions
         /\ \A i \in 1 .. Len(t) : t[i].txn = t[1].txn /\ t[i].size \in Nat \ {0}
<1>1. PICK n \in 1 .. MaxTransactions, shape \in Shapes : t = TransactionOf(n, shape)
  BY DEF Transaction
<1>2. shape \in Seq(Nat \ {0}) /\ shape # <<>>
  BY StoreAssumption
<1>3. Len(shape) \in Nat \ {0} /\ DOMAIN shape = 1 .. Len(shape)
  BY <1>2
<1>4. \A i \in 1 .. Len(shape) : shape[i] \in Nat \ {0}
  BY <1>2
<1>5. t = [i \in 1 .. Len(shape) |-> [txn |-> n, part |-> i, size |-> shape[i]]]
  BY <1>1, <1>3 DEF TransactionOf
<1>6. n \in Nat
  BY StoreAssumption
<1>7. \A i \in 1 .. Len(shape) : t[i] \in Record /\ t[i].txn = n /\ t[i].size \in Nat \ {0}
  BY <1>4, <1>5, <1>6 DEF Record
<1>8. t \in Seq(Record) /\ Len(t) = Len(shape)
  <2>1. t \in [1 .. Len(shape) -> Record]
    BY <1>5, <1>7
  <2> QED  BY <2>1, <1>3
<1> QED  BY <1>3, <1>7, <1>8

(* The number of a transaction.                                             *)
LEMMA TxnType ==
  ASSUME NEW t \in Transaction
  PROVE  t[1].txn \in Nat
<1>1. t[1].txn \in 1 .. MaxTransactions
  BY TransactionIs
<1> QED  BY <1>1

(* The Commit frames of a journal are finitely many.                        *)
LEMMA CommitsType ==
  ASSUME NEW fs \in Seq(Frame)
  PROVE  /\ Commits(fs) \in SUBSET (1 .. Len(fs))
         /\ IsFiniteSet(Commits(fs)) /\ Cardinality(Commits(fs)) \in Nat
         /\ \A c \in Nat : /\ Below(fs, c) \in SUBSET Commits(fs)
                           /\ IsFiniteSet(Below(fs, c)) /\ Cardinality(Below(fs, c)) \in Nat
<1>1. Commits(fs) \in SUBSET (1 .. Len(fs))
  BY DEF Commits
<1>2. IsFiniteSet(Commits(fs))
  BY <1>1, FS_Interval, FS_Subset
<1>3. \A c \in Nat : Below(fs, c) \in SUBSET Commits(fs)
  BY DEF Below
<1>4. \A c \in Nat : IsFiniteSet(Below(fs, c))
  BY <1>2, <1>3, FS_Subset
<1> QED  BY <1>1, <1>2, <1>3, <1>4, FS_CardinalityType

(* So are they counted by a number.                                         *)
LEMMA CommitCount ==
  ASSUME NEW fs \in Seq(Frame)
  PROVE  Cardinality(Commits(fs)) \in Nat
BY CommitsType

(* A Commit frame is at its place.                                          *)
LEMMA CommitsAt ==
  ASSUME NEW fs \in Seq(Frame), NEW c \in Commits(fs)
  PROVE  /\ c \in Nat /\ c \in 1 .. Len(fs) /\ fs[c] \in Frame /\ fs[c].kind = "Commit"
         /\ Below(fs, c) \in SUBSET Commits(fs)
         /\ IsFiniteSet(Below(fs, c)) /\ Cardinality(Below(fs, c)) \in Nat
<1>1. c \in 1 .. Len(fs) /\ fs[c].kind = "Commit"
  BY DEF Commits
<1>2. c \in Nat /\ fs[c] \in Frame
  BY <1>1
<1> QED  BY <1>1, <1>2, CommitsType

(* A later Commit frame has more of them below it.                          *)
LEMMA RankIncreases ==
  ASSUME NEW fs \in Seq(Frame), NEW c \in Commits(fs), NEW d \in Commits(fs), d < c
  PROVE  Cardinality(Below(fs, d)) < Cardinality(Below(fs, c))
<1>1. c \in Nat /\ d \in Nat
  BY CommitsAt
<1>2. Below(fs, d) \in SUBSET Below(fs, c) /\ d \in Below(fs, c) /\ d \notin Below(fs, d)
  <2>1. \A e \in Commits(fs) : e < d => e < c
    <3>1. \A e \in Commits(fs) : e \in Nat
      BY CommitsAt
    <3> QED  BY <3>1, <1>1
  <2>2. Below(fs, d) \in SUBSET Below(fs, c)
    BY <2>1 DEF Below
  <2>3. d \in Below(fs, c)
    BY DEF Below
  <2>4. d \notin Below(fs, d)
    BY <1>1 DEF Below
  <2> QED  BY <2>2, <2>3, <2>4
<1>3. IsFiniteSet(Below(fs, c)) /\ Cardinality(Below(fs, c)) \in Nat /\ Cardinality(Below(fs, d)) \in Nat
  BY <1>1, CommitsType
<1>4. Cardinality(Below(fs, d)) <= Cardinality(Below(fs, c))
  BY <1>2, <1>3, FS_Subset
<1>5. Cardinality(Below(fs, d)) # Cardinality(Below(fs, c))
  BY <1>2, <1>3, FS_Subset
<1> QED  BY <1>3, <1>4, <1>5

(* Commits are numbered in their order.                                     *)
LEMMA KthCommitIs ==
  ASSUME NEW fs \in Seq(Frame), NEW k \in 1 .. Cardinality(Commits(fs))
  PROVE  KthCommit(fs, k) \in Commits(fs) /\ Cardinality(Below(fs, KthCommit(fs, k))) = k - 1
<1>1. Commits(fs) \in SUBSET (1 .. Len(fs)) /\ Len(fs) \in Nat
  <2>1. Commits(fs) \in SUBSET (1 .. Len(fs))
    BY CommitsType
  <2> QED  BY <2>1
<1>2. \E c \in Commits(fs) : Cardinality({d \in Commits(fs) : d < c}) = k - 1
  BY <1>1, KthSmallest
<1> QED  BY <1>2 DEF KthCommit, Below

(* A Commit frame is the k-th when k - 1 are below it.                      *)
LEMMA RankOf ==
  ASSUME NEW fs \in Seq(Frame), NEW c \in Commits(fs), NEW k \in Nat,
         k = Cardinality(Below(fs, c)) + 1
  PROVE  k \in 1 .. Cardinality(Commits(fs)) /\ KthCommit(fs, k) = c
<1>1. c \in Nat /\ IsFiniteSet(Commits(fs)) /\ Cardinality(Commits(fs)) \in Nat
      /\ Below(fs, c) \in SUBSET Commits(fs) /\ Cardinality(Below(fs, c)) \in Nat
  BY CommitsAt, CommitsType
<1>2. c \notin Below(fs, c)
  BY <1>1 DEF Below
<1>3. Cardinality(Below(fs, c)) <= Cardinality(Commits(fs))
      /\ Cardinality(Below(fs, c)) # Cardinality(Commits(fs))
  BY <1>1, <1>2, FS_Subset
<1>4. k \in 1 .. Cardinality(Commits(fs))
  BY <1>1, <1>3
<1>5. KthCommit(fs, k) \in Commits(fs) /\ Cardinality(Below(fs, KthCommit(fs, k))) = k - 1
  BY <1>4, KthCommitIs
<1>6. k - 1 = Cardinality(Below(fs, c))
  BY <1>1
<1>7. ~(KthCommit(fs, k) < c) /\ ~(c < KthCommit(fs, k))
  <2>1. ~(k - 1 < k - 1)
    OBVIOUS
  <2> QED  BY <2>1, <1>5, <1>6, RankIncreases
<1>8. KthCommit(fs, k) \in Nat
  BY <1>5, CommitsAt
<1> QED  BY <1>1, <1>4, <1>7, <1>8

(* Commit frames are enumerated in their order.                             *)
LEMMA KthIncreases ==
  ASSUME NEW fs \in Seq(Frame),
         NEW j \in 1 .. Cardinality(Commits(fs)), NEW k \in 1 .. Cardinality(Commits(fs)), j < k
  PROVE  KthCommit(fs, j) < KthCommit(fs, k)
<1> DEFINE c == KthCommit(fs, j)
           d == KthCommit(fs, k)
<1>1. c \in Commits(fs) /\ Cardinality(Below(fs, c)) = j - 1
  BY KthCommitIs
<1>2. d \in Commits(fs) /\ Cardinality(Below(fs, d)) = k - 1
  BY KthCommitIs
<1>3. c \in Nat /\ d \in Nat
  BY <1>1, <1>2, CommitsAt
<1> HIDE DEF c, d
<1>4. c # d
  BY <1>1, <1>2
<1>5. ~(d < c)
  <2>1. ~(k - 1 < j - 1)
    OBVIOUS
  <2> QED  BY <2>1, <1>1, <1>2, RankIncreases
<1>6. c < d
  BY <1>3, <1>4, <1>5
<1> QED  BY <1>6 DEF c, d

(* OpenedAt finds the Begin frame.                                          *)
LEMMA OpenedAtIs ==
  ASSUME NEW fs \in Seq(Frame), NEW i \in 1 .. Len(fs)
  PROVE  /\ OpenedAt(fs, i) = 0 \/ IsOpening(fs, i, OpenedAt(fs, i))
         /\ \A b : IsOpening(fs, i, b) => OpenedAt(fs, i) = b
<1> DEFINE I == {j \in 1 .. i - 1 : fs[j].kind # "Record"}
           mark == IF I # {} THEN Max(I) ELSE 0
<1>1. OpenedAt(fs, i) = IF mark # 0 /\ fs[mark].kind = "Begin" THEN mark ELSE 0
  BY DEF OpenedAt, SelectLastInSubSeq
<1>2. i \in Nat /\ i - 1 \in Nat /\ I \in SUBSET (0 .. i - 1)
  OBVIOUS
<1>3. I # {} => Max(I) \in I /\ \A j \in I : j <= Max(I)
  <2> HIDE DEF I
  <2> QED  BY <1>2, MaxOf
<1>4. ASSUME OpenedAt(fs, i) # 0 PROVE IsOpening(fs, i, OpenedAt(fs, i))
  <2>1. mark # 0 /\ fs[mark].kind = "Begin" /\ OpenedAt(fs, i) = mark
    BY <1>1, <1>4
  <2>2. I # {} /\ mark = Max(I)
    BY <2>1
  <2>3. mark \in 1 .. i - 1 /\ \A j \in I : j <= mark
    BY <2>2, <1>3
  <2>4. \A j \in mark + 1 .. i - 1 : j \in 1 .. i - 1 /\ ~(j <= mark)
    BY <2>3, <1>2
  <2>5. \A j \in mark + 1 .. i - 1 : fs[j].kind = "Record"
    BY <2>3, <2>4
  <2> HIDE DEF mark
  <2> QED  BY <2>1, <2>3, <2>5 DEF IsOpening
<1>5. ASSUME NEW b, IsOpening(fs, i, b) PROVE OpenedAt(fs, i) = b
  <2>1. b \in 1 .. i - 1 /\ fs[b].kind = "Begin" /\ \A j \in b + 1 .. i - 1 : fs[j].kind = "Record"
    BY <1>5 DEF IsOpening
  <2>2. b \in I
    BY <2>1
  <2>3. Max(I) \in I /\ \A j \in I : j <= Max(I)
    BY <2>2, <1>3
  <2>4. ~(b < Max(I))
    <3>1. ASSUME b < Max(I) PROVE FALSE
      <4>1. Max(I) \in b + 1 .. i - 1
        BY <2>1, <2>3, <3>1, <1>2
      <4> QED  BY <4>1, <2>1, <2>3
    <3> QED  BY <3>1
  <2>5. Max(I) = b
    <3>1. b <= Max(I) /\ Max(I) \in Nat /\ b \in Nat
      BY <2>1, <2>2, <2>3
    <3> QED  BY <3>1, <2>4
  <2>6. mark = b /\ b # 0
    BY <2>1, <2>2, <2>5
  <2> HIDE DEF mark
  <2> QED  BY <1>1, <2>1, <2>6
<1> QED  BY <1>4, <1>5

(* What comes after a position does not matter.                             *)
LEMMA OpenedAtBeginning ==
  ASSUME NEW p \in Seq(Frame), NEW q \in Seq(Frame), Beginning(p, q), NEW i \in 1 .. Len(p)
  PROVE  OpenedAt(p, i) = OpenedAt(q, i)
<1>1. i \in 1 .. Len(q) /\ \A j \in 1 .. i : p[j] = q[j]
  BY DEF Beginning
<1>2. \A b : IsOpening(p, i, b) <=> IsOpening(q, i, b)
  <2>1. ASSUME NEW b \in 1 .. i - 1 PROVE IsOpening(p, i, b) <=> IsOpening(q, i, b)
    <3>1. b \in 1 .. i /\ \A j \in b + 1 .. i - 1 : j \in 1 .. i
      OBVIOUS
    <3>2. p[b] = q[b] /\ \A j \in b + 1 .. i - 1 : p[j] = q[j]
      BY <1>1, <3>1
    <3> QED  BY <3>2 DEF IsOpening
  <2> QED  BY <2>1 DEF IsOpening
<1>3. CASE OpenedAt(p, i) = 0
  <2>1. ~IsOpening(p, i, OpenedAt(q, i))
    <3>1. ~IsOpening(p, i, 0)
      BY DEF IsOpening
    <3> QED  BY <3>1, <1>3, OpenedAtIs
  <2> QED  BY <2>1, <1>1, <1>2, <1>3, OpenedAtIs
<1>4. CASE OpenedAt(p, i) # 0
  BY <1>1, <1>2, <1>4, OpenedAtIs
<1> QED  BY <1>3, <1>4

(* A complete transaction is read as it was written.                        *)
LEMMA RecordsCarried ==
  ASSUME NEW fs \in Seq(Frame), NEW c \in 1 .. Len(fs), NEW t \in Seq(Record), Carries(fs, c, t)
  PROVE  OpenedAt(fs, c) = c - Len(t) - 1 /\ RecordsBefore(fs, c) = t
<1> DEFINE b == c - Len(t) - 1
<1>1. /\ b \in 1 .. c - 1 /\ fs[b].kind = "Begin" /\ Len(t) \in Nat
      /\ \A j \in 1 .. Len(t) : fs[b + j].kind = "Record" /\ fs[b + j].record = t[j]
  BY DEF Carries
<1>2. ASSUME NEW j \in b + 1 .. c - 1 PROVE fs[j].kind = "Record"
  <2>1. j - b \in 1 .. Len(t) /\ b + (j - b) = j
    BY <1>1
  <2> QED  BY <2>1, <1>1
<1>3. IsOpening(fs, c, b)
  BY <1>1, <1>2 DEF IsOpening
<1>4. OpenedAt(fs, c) = b
  BY <1>3, OpenedAtIs
<1>5. c - b - 1 = Len(t)
  BY <1>1
<1>6. RecordsBefore(fs, c) = [i \in 1 .. c - b - 1 |-> fs[b + i].record]
  BY <1>4 DEF RecordsBefore
<1>7. RecordsBefore(fs, c) = [i \in 1 .. Len(t) |-> t[i]]
  BY <1>1, <1>5, <1>6
<1> QED  BY <1>4, <1>7

(* The records read at a Commit frame depend on nothing after it.           *)
LEMMA RecordsBeginning ==
  ASSUME NEW p \in Seq(Frame), NEW q \in Seq(Frame), Beginning(p, q), NEW c \in 1 .. Len(p)
  PROVE  RecordsBefore(p, c) = RecordsBefore(q, c)
<1> DEFINE b == OpenedAt(p, c)
<1>1. OpenedAt(q, c) = b
  BY OpenedAtBeginning
<1>2. b \in Nat
  BY OpenedAtIs DEF IsOpening
<1>3. \A i \in 1 .. c - b - 1 : p[b + i] = q[b + i]
  BY <1>2 DEF Beginning
<1> QED  BY <1>1, <1>3 DEF RecordsBefore

(* The Commit frames of a beginning of a journal.                           *)
LEMMA CommitsBeginning ==
  ASSUME NEW p \in Seq(Frame), NEW q \in Seq(Frame), Beginning(p, q)
  PROVE  /\ Commits(p) = {c \in Commits(q) : c <= Len(p)}
         /\ Cardinality(Commits(p)) <= Cardinality(Commits(q))
         /\ \A c \in Commits(p) : Below(p, c) = Below(q, c)
<1>1. Commits(p) = {c \in Commits(q) : c <= Len(p)}
  BY DEF Commits, Beginning
<1>2. Cardinality(Commits(p)) <= Cardinality(Commits(q))
  <2>1. Commits(p) \in SUBSET Commits(q)
    BY <1>1
  <2> QED  BY <2>1, CommitsType, FS_Subset
<1>3. ASSUME NEW c \in Commits(p) PROVE Below(p, c) = Below(q, c)
  <2>1. c \in 1 .. Len(p)
    BY CommitsAt
  <2>2. \A d \in Commits(q) : d \in Nat
    BY CommitsAt
  <2>3. \A d \in Commits(q) : d < c => d <= Len(p)
    BY <2>1, <2>2
  <2> QED  BY <1>1, <2>3 DEF Below
<1> QED  BY <1>1, <1>2, <1>3

(* There is one transaction read for each Commit frame.                     *)
LEMMA CommittedLen ==
  ASSUME NEW fs \in Seq(Frame)
  PROVE  /\ Len(Committed(fs)) = Cardinality(Commits(fs)) /\ Len(Committed(fs)) \in Nat
         /\ DOMAIN Committed(fs) = 1 .. Cardinality(Commits(fs))
         /\ \A k \in 1 .. Cardinality(Commits(fs)) :
              Committed(fs)[k] = RecordsBefore(fs, KthCommit(fs, k))
<1>1. Cardinality(Commits(fs)) \in Nat
  BY CommitsType
<1>2. Committed(fs) = [k \in 1 .. Cardinality(Commits(fs)) |-> RecordsBefore(fs, KthCommit(fs, k))]
  BY DEF Committed
<1> QED  BY <1>1, <1>2

(* The beginning of a journal has the beginning of its transactions.        *)
LEMMA CommittedBeginning ==
  ASSUME NEW p \in Seq(Frame), NEW q \in Seq(Frame), Beginning(p, q)
  PROVE  Beginning(Committed(p), Committed(q))
<1>1. ASSUME NEW k \in 1 .. Cardinality(Commits(p))
      PROVE  KthCommit(q, k) = KthCommit(p, k) /\ Committed(p)[k] = Committed(q)[k]
  <2> DEFINE c == KthCommit(p, k)
  <2>1. c \in Commits(p) /\ Cardinality(Below(p, c)) = k - 1
    BY KthCommitIs
  <2>2. c \in Commits(q) /\ Cardinality(Below(q, c)) = k - 1 /\ c \in 1 .. Len(p)
    BY <2>1, CommitsBeginning, CommitsAt
  <2>3. k \in Nat /\ k = Cardinality(Below(q, c)) + 1
    BY <2>2
  <2>4. KthCommit(q, k) = c /\ k \in 1 .. Cardinality(Commits(q))
    BY <2>2, <2>3, RankOf
  <2>5. RecordsBefore(p, c) = RecordsBefore(q, c)
    BY <2>2, RecordsBeginning
  <2> QED  BY <2>4, <2>5, CommittedLen
<1> QED  BY <1>1, CommitsBeginning, CommittedLen DEF Beginning

(* p is q cut off, perhaps inside of its last frame.                        *)
Alike(p, q) ==
  /\ Len(p) <= Len(q)
  /\ \A i \in 1 .. Len(p) : /\ p[i].kind = q[i].kind /\ p[i].sequence = q[i].sequence
                            /\ p[i].id = q[i].id /\ p[i].record = q[i].record

(* The transaction that the Commit frame at c ends.                         *)
TxnAt(fs, c) == fs[c - 1].record.txn

(* Frames are where a transaction has them: only a Begin frame comes first  *)
(* or behind a Commit frame, every Commit frame ends a complete             *)
(* transaction, and transactions are in the order they began.               *)
Structure(fs) ==
  /\ \A i \in 1 .. Len(fs) : fs[i].kind # "Begin" => i > 1 /\ fs[i - 1].kind # "Commit"
  /\ \A c \in Commits(fs) : \E t \in Transaction : Carries(fs, c, t)
  /\ \A c, d \in Commits(fs) : c < d => TxnAt(fs, c) < TxnAt(fs, d)

(* A journal cut or torn at its end keeps the structure.                    *)
LEMMA StructureAlike ==
  ASSUME NEW p \in Seq(Frame), NEW q \in Seq(Frame), Alike(p, q), Structure(q)
  PROVE  /\ Structure(p)
         /\ Commits(p) = {c \in Commits(q) : c <= Len(p)}
         /\ \A c \in Commits(p) : TxnAt(p, c) = TxnAt(q, c)
<1>1. Len(p) \in Nat /\ Len(q) \in Nat /\ Len(p) <= Len(q)
  BY DEF Alike
<1>2. \A i \in 1 .. Len(p) : /\ i \in 1 .. Len(q)
                             /\ p[i].kind = q[i].kind /\ p[i].id = q[i].id
                             /\ p[i].record = q[i].record
  BY <1>1 DEF Alike
<1>3. Commits(p) = {c \in Commits(q) : c <= Len(p)}
  BY <1>1, <1>2 DEF Commits
<1>4. ASSUME NEW i \in 1 .. Len(p), p[i].kind # "Begin" PROVE i > 1 /\ p[i - 1].kind # "Commit"
  <2>1. i > 1 /\ q[i - 1].kind # "Commit"
    BY <1>2, <1>4 DEF Structure
  <2>2. i - 1 \in 1 .. Len(p)
    BY <2>1, <1>1
  <2> QED  BY <2>1, <2>2, <1>2
<1>5. ASSUME NEW c \in Commits(p)
      PROVE  /\ \E t \in Transaction : Carries(p, c, t)
             /\ TxnAt(p, c) = TxnAt(q, c)
  <2>1. c \in Commits(q) /\ c \in 1 .. Len(p)
    BY <1>3, CommitsAt
  <2>2. PICK t \in Transaction : Carries(q, c, t)
    BY <2>1 DEF Structure
  <2>3. Len(t) \in Nat \ {0}
    BY TransactionIs
  <2> DEFINE b == c - Len(t) - 1
  <2>4. /\ b \in 1 .. c - 1 /\ q[b].kind = "Begin" /\ q[b].id = q[c].id
        /\ \A j \in 1 .. Len(t) : q[b + j].kind = "Record" /\ q[b + j].record = t[j]
    BY <2>2 DEF Carries
  <2>5. b \in 1 .. Len(p) /\ \A j \in 1 .. Len(t) : b + j \in 1 .. Len(p)
    BY <2>1, <2>3, <2>4
  <2>6. /\ p[b].kind = "Begin" /\ p[b].id = p[c].id
        /\ \A j \in 1 .. Len(t) : p[b + j].kind = "Record" /\ p[b + j].record = t[j]
    BY <2>1, <2>4, <2>5, <1>2
  <2>7. Carries(p, c, t)
    BY <2>4, <2>6 DEF Carries
  <2>8. c - 1 \in 1 .. Len(p)
    BY <2>1, <2>4
  <2> QED  BY <2>7, <2>8, <1>2 DEF TxnAt
<1>6. ASSUME NEW c \in Commits(p), NEW d \in Commits(p), c < d PROVE TxnAt(p, c) < TxnAt(p, d)
  <2>1. c \in Commits(q) /\ d \in Commits(q)
    BY <1>3
  <2>2. TxnAt(q, c) < TxnAt(q, d)
    BY <2>1, <1>6 DEF Structure
  <2>3. TxnAt(p, c) = TxnAt(q, c) /\ TxnAt(p, d) = TxnAt(q, d)
    BY <1>5
  <2> QED  BY <2>2, <2>3
<1>7. Structure(p)
  BY <1>4, <1>5, <1>6 DEF Structure
<1> QED  BY <1>3, <1>5, <1>7

(* A beginning is alike.                                                    *)
LEMMA BeginningAlike ==
  ASSUME NEW p, NEW q, Beginning(p, q)
  PROVE  Alike(p, q)
BY DEF Beginning, Alike

(* What is read at a Commit frame.                                          *)
LEMMA TransactionRead ==
  ASSUME NEW fs \in Seq(Frame), Structure(fs), NEW c \in Commits(fs)
  PROVE  /\ RecordsBefore(fs, c) \in Transaction
         /\ RecordsBefore(fs, c)[1].txn = TxnAt(fs, c)
         /\ TxnAt(fs, c) \in 1 .. MaxTransactions
         /\ OpenedAt(fs, c) # 0 /\ OpenedAt(fs, c) \in 1 .. Len(fs)
         /\ fs[c].id = fs[OpenedAt(fs, c)].id
<1>1. c \in 1 .. Len(fs) /\ c \in Nat
  BY CommitsAt
<1>2. PICK t \in Transaction : Carries(fs, c, t)
  BY DEF Structure
<1>3. t \in Seq(Record) /\ Len(t) \in Nat \ {0} /\ t[1].txn \in 1 .. MaxTransactions
      /\ t[Len(t)].txn = t[1].txn
  BY TransactionIs
<1>4. OpenedAt(fs, c) = c - Len(t) - 1 /\ RecordsBefore(fs, c) = t
  BY <1>1, <1>2, <1>3, RecordsCarried
<1>5. /\ c - Len(t) - 1 \in 1 .. c - 1
      /\ fs[c - Len(t) - 1].id = fs[c].id
      /\ \A j \in 1 .. Len(t) : fs[(c - Len(t) - 1) + j].record = t[j]
  BY <1>2 DEF Carries
<1>6. TxnAt(fs, c) = t[Len(t)].txn
  <2>1. (c - Len(t) - 1) + Len(t) = c - 1
    BY <1>1, <1>3
  <2>2. Len(t) \in 1 .. Len(t)
    BY <1>3
  <2> QED  BY <2>1, <2>2, <1>5 DEF TxnAt
<1> QED  BY <1>1, <1>2, <1>3, <1>4, <1>5, <1>6

(* Transactions in the order they began.                                    *)
InOrder(s) == \A i, j \in 1 .. Len(s) : i < j => s[i][1].txn < s[j][1].txn

(* What is read back are whole transactions in order.                       *)
LEMMA CommittedWhole ==
  ASSUME NEW fs \in Seq(Frame), Structure(fs)
  PROVE  /\ Committed(fs) \in Seq(Transaction) /\ InOrder(Committed(fs))
         /\ \A k \in 1 .. Len(Committed(fs)) :
              \E c \in Commits(fs) : Committed(fs)[k][1].txn = TxnAt(fs, c)
<1>1. ASSUME NEW k \in 1 .. Cardinality(Commits(fs))
      PROVE  /\ KthCommit(fs, k) \in Commits(fs)
             /\ Committed(fs)[k] \in Transaction
             /\ Committed(fs)[k][1].txn = TxnAt(fs, KthCommit(fs, k))
  <2>1. KthCommit(fs, k) \in Commits(fs)
    BY KthCommitIs
  <2> QED  BY <2>1, TransactionRead, CommittedLen
<1>2. Cardinality(Commits(fs)) \in Nat
  BY CommitsType
<1>3. Committed(fs) \in Seq(Transaction)
  <2>1. Committed(fs) = [k \in 1 .. Cardinality(Commits(fs)) |-> Committed(fs)[k]]
    BY DEF Committed
  <2>2. Committed(fs) \in [1 .. Cardinality(Commits(fs)) -> Transaction]
    BY <2>1, <1>1
  <2> QED  BY <2>2, <1>2
<1>4. Len(Committed(fs)) = Cardinality(Commits(fs))
  BY CommittedLen
<1>5. InOrder(Committed(fs))
  <2> SUFFICES ASSUME NEW i \in 1 .. Len(Committed(fs)), NEW j \in 1 .. Len(Committed(fs)), i < j
               PROVE  Committed(fs)[i][1].txn < Committed(fs)[j][1].txn
    BY DEF InOrder
  <2>1. KthCommit(fs, i) < KthCommit(fs, j)
    BY <1>4, KthIncreases
  <2>2. TxnAt(fs, KthCommit(fs, i)) < TxnAt(fs, KthCommit(fs, j))
    BY <2>1, <1>1, <1>4 DEF Structure
  <2> QED  BY <2>2, <1>1, <1>4
<1> QED  BY <1>1, <1>3, <1>4, <1>5

(* The frames of a transaction.                                             *)
LEMMA FramesOfIs ==
  ASSUME NEW t \in Seq(Record), NEW n \in Nat
  PROVE  /\ FramesOf(t, n) \in Seq(Frame) /\ Len(FramesOf(t, n)) = Len(t) + 2
         /\ FramesOf(t, n)[1].kind = "Begin" /\ FramesOf(t, n)[1].id = n
         /\ FramesOf(t, n)[Len(t) + 2].kind = "Commit" /\ FramesOf(t, n)[Len(t) + 2].id = n
         /\ \A j \in 1 .. Len(t) : /\ FramesOf(t, n)[j + 1].kind = "Record"
                                   /\ FramesOf(t, n)[j + 1].record = t[j]
         /\ \A i \in 1 .. Len(t) + 2 : /\ FramesOf(t, n)[i].missing = 0
                                       /\ FramesOf(t, n)[i].sequence + 1 = n + i
<1> DEFINE L == Len(t)
           b == [kind |-> "Begin", sequence |-> n, id |-> n, record |-> Marker, missing |-> 0]
           rs == [i \in 1 .. L |-> [kind |-> "Record", sequence |-> n + i, id |-> 0,
                                    record |-> t[i], missing |-> 0]]
           e == [kind |-> "Commit", sequence |-> n + L + 1, id |-> n, record |-> Marker,
                 missing |-> 0]
<1>1. L \in Nat /\ DOMAIN t = 1 .. L /\ \A i \in 1 .. L : t[i] \in Record
  OBVIOUS
<1>2. FramesOf(t, n) = (<<b>> \o rs) \o <<e>>
  BY <1>1 DEF FramesOf
<1>3. b \in Frame /\ e \in Frame
  BY <1>1 DEF Frame, Marker, Record
<1>4. \A i \in 1 .. L : rs[i] \in Frame
  BY <1>1 DEF Frame
<1>5. rs \in [1 .. L -> Frame]
  BY <1>4
<1>6. rs \in Seq(Frame) /\ Len(rs) = L
  <2> HIDE DEF rs, L
  <2> QED  BY <1>1, <1>5
<1>7. /\ b.kind = "Begin" /\ b.id = n /\ b.sequence = n /\ b.missing = 0
      /\ e.kind = "Commit" /\ e.id = n /\ e.sequence = n + L + 1 /\ e.missing = 0
      /\ \A i \in 1 .. L : rs[i].kind = "Record" /\ rs[i].sequence = n + i
                           /\ rs[i].record = t[i] /\ rs[i].missing = 0
  OBVIOUS
<1> DEFINE f == FramesOf(t, n)
<1> HIDE DEF b, rs, e
<1>8. /\ f \in Seq(Frame) /\ Len(f) = L + 2
      /\ f[1] = b /\ f[L + 2] = e
      /\ \A i \in 1 .. L : f[i + 1] = rs[i]
  BY <1>1, <1>2, <1>3, <1>6
<1> HIDE DEF f
<1>9. \A i \in 1 .. L + 2 : i = 1 \/ i = L + 2 \/ (i - 1 \in 1 .. L /\ (i - 1) + 1 = i)
  BY <1>1
<1>10. \A i \in 1 .. L + 2 : f[i].missing = 0 /\ f[i].sequence + 1 = n + i
  <2> SUFFICES ASSUME NEW i \in 1 .. L + 2 PROVE f[i].missing = 0 /\ f[i].sequence + 1 = n + i
    OBVIOUS
  <2>1. CASE i = 1
    BY <2>1, <1>7, <1>8
  <2>2. CASE i = L + 2
    BY <2>2, <1>1, <1>7, <1>8
  <2>3. CASE i - 1 \in 1 .. L
    <3>1. f[i] = rs[i - 1]
      BY <2>3, <1>8
    <3> QED  BY <3>1, <2>3, <1>7
  <2> QED  BY <2>1, <2>2, <2>3, <1>9
<1> QED  BY <1>7, <1>8, <1>10 DEF f

(* A journal and a transaction behind it.                                   *)
Grown(fs, t, n) == fs \o FramesOf(t, n)

(* A journal with a transaction appended, frame by frame.                   *)
LEMMA Appended ==
  ASSUME NEW fs \in Seq(Frame), NEW t \in Seq(Record), NEW n \in Nat
  PROVE  /\ Grown(fs, t, n) \in Seq(Frame) /\ Len(Grown(fs, t, n)) = Len(fs) + Len(t) + 2
         /\ Beginning(fs, Grown(fs, t, n))
         /\ Grown(fs, t, n)[Len(fs) + 1].kind = "Begin" /\ Grown(fs, t, n)[Len(fs) + 1].id = n
         /\ Grown(fs, t, n)[Len(Grown(fs, t, n))].kind = "Commit" /\ Grown(fs, t, n)[Len(Grown(fs, t, n))].id = n
         /\ \A j \in 1 .. Len(t) : /\ Grown(fs, t, n)[Len(fs) + 1 + j].kind = "Record"
                                   /\ Grown(fs, t, n)[Len(fs) + 1 + j].record = t[j]
         /\ \A i \in 1 .. Len(t) + 2 : /\ Grown(fs, t, n)[Len(fs) + i].missing = 0
                                       /\ Grown(fs, t, n)[Len(fs) + i].sequence + 1 = n + i
<1> DEFINE w == Grown(fs, t, n)
<1> HIDE DEF w
<1> DEFINE f == FramesOf(t, n)
           L == Len(fs)
           K == Len(t)
<1>1. f \in Seq(Frame) /\ Len(f) = K + 2 /\ K \in Nat /\ L \in Nat
  BY FramesOfIs
<1>2. /\ f[1].kind = "Begin" /\ f[1].id = n
      /\ f[K + 2].kind = "Commit" /\ f[K + 2].id = n
      /\ \A j \in 1 .. K : f[j + 1].kind = "Record" /\ f[j + 1].record = t[j]
      /\ \A i \in 1 .. K + 2 : f[i].missing = 0 /\ f[i].sequence + 1 = n + i
  <2>1. f[1].kind = "Begin" /\ f[1].id = n
    BY FramesOfIs
  <2>2. f[K + 2].kind = "Commit" /\ f[K + 2].id = n
    BY FramesOfIs
  <2>3. \A j \in 1 .. K : f[j + 1].kind = "Record" /\ f[j + 1].record = t[j]
    BY FramesOfIs
  <2>4. \A i \in 1 .. K + 2 : f[i].missing = 0 /\ f[i].sequence + 1 = n + i
    <3>1. ASSUME NEW i \in 1 .. K + 2 PROVE f[i].missing = 0
      BY FramesOfIs
    <3>2. ASSUME NEW i \in 1 .. K + 2 PROVE f[i].sequence + 1 = n + i
      BY FramesOfIs
    <3> QED  BY <3>1, <3>2
  <2> QED  BY <2>1, <2>2, <2>3, <2>4
<1> HIDE DEF f
<1>3. /\ w \in Seq(Frame) /\ Len(w) = L + K + 2
      /\ \A i \in 1 .. L : w[i] = fs[i]
      /\ \A i \in 1 .. K + 2 : w[L + i] = f[i]
  <2>1. w = fs \o f
    BY DEF f, w, Grown
  <2>2. w \in Seq(Frame) /\ Len(w) = L + (K + 2)
    <3>1. w \in Seq(Frame) /\ Len(w) = Len(fs) + Len(f)
      BY <2>1, <1>1, ConcatProperties, Zenon
    <3> QED  BY <3>1, <1>1
  <2>3. \A i \in 1 .. L : w[i] = fs[i]
    BY <2>1, <1>1
  <2>4. \A i \in 1 .. K + 2 : w[L + i] = f[i]
    BY <2>1, <1>1
  <2> HIDE DEF L, K
  <2> QED  BY <2>2, <2>3, <2>4, <1>1
<1>4. w[L + 1] = f[1] /\ w[Len(w)] = f[K + 2]
  BY <1>1, <1>3
<1>5. \A j \in 1 .. K : w[L + 1 + j] = f[j + 1]
  <2> SUFFICES ASSUME NEW j \in 1 .. K PROVE w[L + 1 + j] = f[j + 1]
    OBVIOUS
  <2>1. j + 1 \in 1 .. K + 2 /\ L + (j + 1) = L + 1 + j
    BY <1>1
  <2> QED  BY <2>1, <1>3
<1>6. Beginning(fs, w)
  BY <1>1, <1>3 DEF Beginning
<1> QED  BY <1>2, <1>3, <1>4, <1>5, <1>6 DEF w

(* A complete transaction behind a journal is read behind what is read.     *)
LEMMA AppendedCommits ==
  ASSUME NEW fs \in Seq(Frame), NEW t \in Transaction, NEW n \in Nat
  PROVE  /\ Commits(Grown(fs, t, n)) = Commits(fs) \cup {Len(Grown(fs, t, n))}
         /\ Cardinality(Commits(Grown(fs, t, n))) = Cardinality(Commits(fs)) + 1
         /\ Carries(Grown(fs, t, n), Len(Grown(fs, t, n)), t) /\ RecordsBefore(Grown(fs, t, n), Len(Grown(fs, t, n))) = t
         /\ TxnAt(Grown(fs, t, n), Len(Grown(fs, t, n))) = t[1].txn
         /\ \A k \in 1 .. Cardinality(Commits(fs)) : Committed(Grown(fs, t, n))[k] = Committed(fs)[k]
         /\ Committed(Grown(fs, t, n))[Cardinality(Commits(fs)) + 1] = t
<1> DEFINE w == Grown(fs, t, n)
<1> HIDE DEF w
<1> DEFINE L == Len(fs)
           K == Len(t)
<1>1. t \in Seq(Record) /\ K \in Nat \ {0} /\ L \in Nat /\ t[K].txn = t[1].txn
  BY TransactionIs
<1>2. /\ w \in Seq(Frame) /\ Len(w) = L + K + 2 /\ Beginning(fs, w)
      /\ w[L + 1].kind = "Begin" /\ w[L + 1].id = n
      /\ w[Len(w)].kind = "Commit" /\ w[Len(w)].id = n
      /\ \A j \in 1 .. K : w[L + 1 + j].kind = "Record" /\ w[L + 1 + j].record = t[j]
  <2>1. t \in Seq(Record)
    BY <1>1
  <2> QED  BY <2>1, Appended DEF w
<1>3. Commits(w) = Commits(fs) \cup {Len(w)}
  <2>1. Commits(fs) = {c \in Commits(w) : c <= L}
    BY <1>2, CommitsBeginning
  <2>2. ASSUME NEW c \in Commits(w), ~(c <= L) PROVE c = Len(w)
    <3>1. c \in 1 .. Len(w) /\ w[c].kind = "Commit"
      BY <1>2, CommitsAt
    <3>2. c = L + 1 \/ c = Len(w) \/ c - L - 1 \in 1 .. K
      <4>1. c \in 1 .. L + K + 2 /\ Len(w) = L + K + 2
        BY <3>1, <1>2
      <4> HIDE DEF L, K
      <4> QED  BY <4>1, <2>2, <1>1
    <3>3. c # L + 1
      BY <3>1, <1>2
    <3>4. c - L - 1 \notin 1 .. K
      <4>1. c = L + 1 + (c - L - 1)
        BY <3>1, <1>1
      <4> QED  BY <4>1, <3>1, <1>2
    <3> QED  BY <3>2, <3>3, <3>4
  <2>3. Len(w) \in Commits(w)
    BY <1>1, <1>2 DEF Commits
  <2> QED  BY <2>1, <2>2, <2>3
<1>4. Len(w) \notin Commits(fs)
  <2>1. ~(Len(w) <= L)
    BY <1>1, <1>2
  <2> QED  BY <2>1, CommitsAt
<1>5. Cardinality(Commits(w)) = Cardinality(Commits(fs)) + 1
  BY <1>3, <1>4, CommitsType, FS_AddElement
<1>6. Carries(w, Len(w), t)
  <2>1. Len(w) - K - 1 = L + 1
    BY <1>1, <1>2
  <2>2. L + 1 \in 1 .. Len(w) - 1
    BY <1>1, <1>2
  <2> QED  BY <2>1, <2>2, <1>2 DEF Carries
<1>7. Len(w) \in 1 .. Len(w)
  BY <1>1, <1>2
<1>8. RecordsBefore(w, Len(w)) = t
  BY <1>1, <1>2, <1>6, <1>7, RecordsCarried
<1>9. TxnAt(w, Len(w)) = t[1].txn
  <2>1. L + 1 + K = Len(w) - 1 /\ K \in 1 .. K
    BY <1>1, <1>2
  <2>2. w[Len(w) - 1].record = t[K]
    BY <2>1, <1>2
  <2> QED  BY <2>2, <1>1 DEF TxnAt
<1> DEFINE k == Cardinality(Commits(fs)) + 1
<1>10. KthCommit(w, k) = Len(w)
  <2>1. Below(w, Len(w)) = Commits(fs)
    <3>1. \A c \in Commits(fs) : c < Len(w)
      <4>1. \A c \in Commits(fs) : c \in 1 .. L
        BY CommitsAt
      <4> QED  BY <4>1, <1>1, <1>2
    <3>2. ~(Len(w) < Len(w))
      BY <1>7
    <3> QED  BY <3>1, <3>2, <1>3 DEF Below
  <2>2. k \in Nat /\ k = Cardinality(Below(w, Len(w))) + 1
    BY <2>1, CommitCount
  <2>3. Len(w) \in Commits(w)
    BY <1>3
  <2> QED  BY <2>2, <2>3, <1>2, RankOf
<1>11. Committed(w)[k] = t
  <2>1. k \in 1 .. Cardinality(Commits(w))
    BY <1>5, CommitCount
  <2> QED  BY <2>1, <1>2, <1>8, <1>10, CommittedLen
<1>12. Beginning(Committed(fs), Committed(w))
  BY <1>2, CommittedBeginning
<1> QED  BY <1>3, <1>5, <1>6, <1>8, <1>9, <1>11, <1>12, CommittedLen DEF Beginning, w

(* What a Commit frame carries, it carries in a longer journal.             *)
LEMMA CarriedBeginning ==
  ASSUME NEW p \in Seq(Frame), NEW q \in Seq(Frame), Beginning(p, q), Structure(p),
         NEW c \in Commits(p)
  PROVE  /\ \E t \in Transaction : Carries(q, c, t)
         /\ TxnAt(q, c) = TxnAt(p, c)
<1>1. c \in 1 .. Len(p) /\ Len(p) \in Nat /\ \A i \in 1 .. Len(p) : q[i] = p[i]
  BY CommitsAt DEF Beginning
<1>2. PICK t \in Transaction : Carries(p, c, t)
  BY DEF Structure
<1>3. Len(t) \in Nat \ {0}
  BY TransactionIs
<1> DEFINE b == c - Len(t) - 1
<1>4. /\ b \in 1 .. c - 1 /\ p[b].kind = "Begin" /\ p[b].id = p[c].id
      /\ \A j \in 1 .. Len(t) : p[b + j].kind = "Record" /\ p[b + j].record = t[j]
  BY <1>2 DEF Carries
<1>5. b \in 1 .. Len(p) /\ c - 1 \in 1 .. Len(p) /\ \A j \in 1 .. Len(t) : b + j \in 1 .. Len(p)
  BY <1>1, <1>3, <1>4
<1>6. Carries(q, c, t)
  BY <1>1, <1>4, <1>5 DEF Carries
<1>7. TxnAt(q, c) = TxnAt(p, c)
  BY <1>1, <1>5 DEF TxnAt
<1> QED  BY <1>6, <1>7

(* commit_transaction keeps frames where a transaction has them, as long as *)
(* transactions are told apart.                                             *)
LEMMA GrownStructure ==
  ASSUME NEW fs \in Seq(Frame), NEW t \in Transaction, NEW n \in Nat, Structure(fs),
         \A c \in Commits(fs) : TxnAt(fs, c) < t[1].txn
  PROVE  Structure(Grown(fs, t, n))
<1> DEFINE w == Grown(fs, t, n)
           L == Len(fs)
           K == Len(t)
<1>1. t \in Seq(Record) /\ K \in Nat \ {0} /\ L \in Nat
  BY TransactionIs
<1>2. /\ w \in Seq(Frame) /\ Len(w) = L + K + 2 /\ Beginning(fs, w)
      /\ w[L + 1].kind = "Begin"
      /\ \A j \in 1 .. K : w[L + 1 + j].kind = "Record"
  BY <1>1, Appended
<1>3. /\ Commits(w) = Commits(fs) \cup {Len(w)}
      /\ Carries(w, Len(w), t) /\ TxnAt(w, Len(w)) = t[1].txn
  BY AppendedCommits
<1> HIDE DEF w
<1>4. ASSUME NEW i \in 1 .. Len(w), w[i].kind # "Begin" PROVE i > 1 /\ w[i - 1].kind # "Commit"
  <2>1. CASE i <= L
    <3>1. i \in 1 .. L /\ w[i] = fs[i]
      BY <2>1, <1>1, <1>2 DEF Beginning
    <3>2. i > 1 /\ fs[i - 1].kind # "Commit"
      BY <3>1, <1>4 DEF Structure
    <3>3. i - 1 \in 1 .. L
      BY <3>1, <3>2
    <3> QED  BY <3>2, <3>3, <1>2 DEF Beginning
  <2>2. CASE ~(i <= L)
    <3>1. i # L + 1
      BY <1>2, <1>4
    <3>2. i - 1 = L + 1 \/ (i - L - 2 \in 1 .. K /\ i - 1 = L + 1 + (i - L - 2))
      <4>1. i \in 1 .. L + K + 2
        BY <1>2
      <4> HIDE DEF L, K
      <4> QED  BY <4>1, <3>1, <2>2, <1>1
    <3>3. w[i - 1].kind = "Begin" \/ w[i - 1].kind = "Record"
      BY <3>2, <1>2
    <3> QED  BY <3>2, <3>3, <1>1, <2>2
  <2> QED  BY <2>1, <2>2
<1>5. ASSUME NEW c \in Commits(w) PROVE \E x \in Transaction : Carries(w, c, x)
  BY <1>2, <1>3, CarriedBeginning
<1>6. ASSUME NEW c \in Commits(w), NEW d \in Commits(w), c < d PROVE TxnAt(w, c) < TxnAt(w, d)
  <2>1. c \in 1 .. Len(w) /\ d \in 1 .. Len(w)
    BY <1>2, CommitsAt
  <2>2. c \in Commits(fs)
    <3>1. c # Len(w)
      BY <1>6, <2>1
    <3> QED  BY <3>1, <1>3
  <2>3. TxnAt(w, c) = TxnAt(fs, c)
    BY <2>2, <1>2, CarriedBeginning
  <2>4. CASE d = Len(w)
    BY <2>2, <2>3, <2>4, <1>3
  <2>5. CASE d \in Commits(fs)
    <3>1. TxnAt(w, d) = TxnAt(fs, d)
      BY <2>5, <1>2, CarriedBeginning
    <3> QED  BY <3>1, <2>2, <2>3, <2>5, <1>6 DEF Structure
  <2> QED  BY <2>4, <2>5, <1>3
<1>7. Structure(w)
  BY <1>4, <1>5, <1>6 DEF Structure
<1> QED  BY <1>7 DEF w

(* Frames are numbered in their order.                                      *)
Increasing(fs) == \A i \in 1 .. Len(fs) : i > 1 => fs[i].sequence > fs[i - 1].sequence

(* Sequence numbers still increase in a journal cut or torn at its end.     *)
LEMMA IncreasingAlike ==
  ASSUME NEW p \in Seq(Frame), NEW q \in Seq(Frame), Alike(p, q), Increasing(q)
  PROVE  Increasing(p)
<1> SUFFICES ASSUME NEW i \in 1 .. Len(p), i > 1 PROVE p[i].sequence > p[i - 1].sequence
  BY DEF Increasing
<1>1. i \in 1 .. Len(q) /\ i - 1 \in 1 .. Len(p)
  BY DEF Alike
<1>2. q[i].sequence > q[i - 1].sequence
  BY <1>1 DEF Increasing
<1> QED  BY <1>1, <1>2 DEF Alike

(* The sequence number a journal ends with.                                 *)
LEMMA LastSequenceIs ==
  ASSUME NEW fs \in Seq(Frame)
  PROVE  /\ LastSequence(fs) \in Nat
         /\ Len(fs) > 0 => LastSequence(fs) = fs[Len(fs)].sequence
         /\ Len(fs) = 0 => LastSequence(fs) = 0
<1>1. Len(fs) = 0 <=> fs = <<>>
  OBVIOUS
<1>2. Len(fs) > 0 => Len(fs) \in 1 .. Len(fs) /\ fs[Len(fs)] \in Frame
  OBVIOUS
<1>3. \A f \in Frame : f.sequence \in Nat
  BY DEF Frame
<1> QED  BY <1>1, <1>2, <1>3 DEF LastSequence, Last

(* commit_transaction goes on with the numbers.                             *)
LEMMA GrownIncreasing ==
  ASSUME NEW fs \in Seq(Frame), NEW t \in Transaction, Increasing(fs)
  PROVE  Increasing(Grown(fs, t, LastSequence(fs) + 1))
<1> DEFINE n == LastSequence(fs) + 1
           w == Grown(fs, t, n)
           L == Len(fs)
           K == Len(t)
<1>1. t \in Seq(Record) /\ K \in Nat \ {0} /\ L \in Nat /\ n \in Nat /\ LastSequence(fs) \in Nat
  BY TransactionIs, LastSequenceIs
<1>2. /\ w \in Seq(Frame) /\ Len(w) = L + K + 2 /\ Beginning(fs, w)
      /\ \A i \in 1 .. K + 2 : w[L + i].sequence + 1 = n + i
  BY <1>1, Appended
<1> HIDE DEF w
<1>3. ASSUME NEW i \in 1 .. Len(w), i > 1 PROVE w[i].sequence > w[i - 1].sequence
  <2>1. w[i].sequence \in Nat /\ w[i - 1].sequence \in Nat
    <3>1. w[i] \in Frame /\ w[i - 1] \in Frame
      BY <1>2, <1>3
    <3> QED  BY <3>1 DEF Frame
  <2>2. CASE i <= L
    <3>1. i \in 1 .. L /\ i - 1 \in 1 .. L /\ w[i] = fs[i] /\ w[i - 1] = fs[i - 1]
      <4>1. i \in 1 .. L /\ i - 1 \in 1 .. L
        BY <2>2, <1>1, <1>3
      <4>2. \A j \in 1 .. L : w[j] = fs[j]
        BY <1>1, <1>2 DEF Beginning
      <4> QED  BY <4>1, <4>2
    <3> QED  BY <3>1, <1>3 DEF Increasing
  <2>3. CASE i = L + 1
    <3>1. i - 1 = L /\ L \in 1 .. L /\ 1 \in 1 .. K + 2 /\ w[L] = fs[L]
      BY <2>3, <1>1, <1>2, <1>3 DEF Beginning
    <3>2. w[i - 1].sequence = LastSequence(fs)
      BY <3>1, LastSequenceIs
    <3>3. w[i].sequence + 1 = n + 1
      BY <3>1, <2>3, <1>2
    <3> QED  BY <3>2, <3>3, <1>1, <2>1
  <2>4. CASE ~(i <= L) /\ i # L + 1
    <3>1. i \in 1 .. L + K + 2
      BY <1>2
    <3>2. /\ i - L \in 1 .. K + 2 /\ i - L - 1 \in 1 .. K + 2
          /\ i = L + (i - L) /\ i - 1 = L + (i - L - 1)
      <4> HIDE DEF L, K
      <4> QED  BY <3>1, <2>4, <1>1
    <3>3. w[L + (i - L)].sequence + 1 = n + (i - L)
          /\ w[L + (i - L - 1)].sequence + 1 = n + (i - L - 1)
      BY <3>2, <1>2
    <3>4. w[i].sequence + 1 = n + (i - L) /\ w[i - 1].sequence + 1 = n + (i - L - 1)
      BY <3>2, <3>3
    <3> HIDE DEF n, L, K
    <3>5. i \in Nat /\ L \in Nat /\ n \in Nat
      BY <3>1, <1>1
    <3>6. \A a, b \in Nat : a + 1 = n + (i - L) /\ b + 1 = n + (i - L - 1) => a > b
      BY <3>5
    <3> QED  BY <3>4, <3>6, <2>1
  <2> QED  BY <2>2, <2>3, <2>4
<1> QED  BY <1>3 DEF Increasing, w

-----------------------------------------------------------------------------
(* Reading a journal back.                                                  *)

(* What a crash or a failed write leaves of fs if its first k frames are    *)
(* certain.                                                                 *)
Survives(p, fs, k) ==
  /\ p \in Seq(Frame) /\ Alike(p, fs) /\ k <= Len(p)
  /\ \A i \in 1 .. Len(p) : i < Len(p) \/ i <= k => p[i] = fs[i]

(* What may be left of a journal.                                           *)
LEMMA SurvivingIs ==
  ASSUME NEW fs \in Seq(Frame), NEW k \in 0 .. Len(fs), NEW p \in Surviving(fs, k)
  PROVE  Survives(p, fs, k)
<1>1. Len(fs) \in Nat /\ \A i \in 1 .. Len(fs) : fs[i] \in Frame
  OBVIOUS
<1>2. ASSUME NEW n \in k .. Len(fs), p = SubSeq(fs, 1, n) PROVE Survives(p, fs, k)
  <2>1. p \in Seq(Frame) /\ Len(p) = n /\ \A i \in 1 .. n : p[i] = fs[i]
    BY <1>2
  <2> QED  BY <2>1, <1>1 DEF Survives, Alike
<1>3. ASSUME NEW n \in (k + 1) .. Len(fs), NEW m \in 1 .. fs[n].record.size,
             p = Append(SubSeq(fs, 1, n - 1), [fs[n] EXCEPT !.missing = m])
      PROVE  Survives(p, fs, k)
  <2> DEFINE f == [fs[n] EXCEPT !.missing = m]
             h == SubSeq(fs, 1, n - 1)
  <2>1. n \in 1 .. Len(fs) /\ n \in Nat /\ fs[n] \in Frame
    BY <1>1
  <2>2. m \in Nat
    BY <2>1 DEF Frame, Record
  <2>3. f \in Frame /\ f.kind = fs[n].kind /\ f.sequence = fs[n].sequence
        /\ f.id = fs[n].id /\ f.record = fs[n].record
    BY <2>1, <2>2 DEF Frame
  <2>4. h \in Seq(Frame) /\ Len(h) = n - 1 /\ \A i \in 1 .. n - 1 : h[i] = fs[i]
    BY <2>1
  <2> HIDE DEF f, h
  <2>5. p = Append(h, f)
    BY <1>3 DEF f, h
  <2>6. p \in Seq(Frame) /\ Len(p) = n
    BY <2>1, <2>3, <2>4, <2>5
  <2>7. p[n] = f
    BY <2>1, <2>3, <2>4, <2>5
  <2>8. \A i \in 1 .. n - 1 : p[i] = fs[i]
    BY <2>1, <2>3, <2>4, <2>5
  <2>9. Alike(p, fs)
    <3>1. Len(p) <= Len(fs)
      BY <2>1, <2>6
    <3>2. \A i \in 1 .. n : i = n \/ i \in 1 .. n - 1
      BY <2>1
    <3> QED  BY <3>1, <3>2, <2>3, <2>6, <2>7, <2>8 DEF Alike
  <2>10. \A i \in 1 .. Len(p) : i < Len(p) \/ i <= k => p[i] = fs[i]
    <3>1. \A i \in 1 .. n : i < n \/ i <= k => i \in 1 .. n - 1
      BY <2>1
    <3> QED  BY <3>1, <2>6, <2>8
  <2>11. k <= Len(p)
    BY <2>6
  <2> QED  BY <2>6, <2>9, <2>10, <2>11 DEF Survives
<1> QED  BY <1>2, <1>3 DEF Surviving

(* The first torn frame.                                                    *)
LEMMA FirstTornIs ==
  ASSUME NEW fs \in Seq(Frame)
  PROVE  /\ FirstTorn(fs) = 0 => \A i \in 1 .. Len(fs) : fs[i].missing = 0
         /\ FirstTorn(fs) # 0 => /\ FirstTorn(fs) \in 1 .. Len(fs)
                                 /\ fs[FirstTorn(fs)].missing # 0
                                 /\ \A i \in 1 .. FirstTorn(fs) - 1 : fs[i].missing = 0
<1> DEFINE I == {i \in 1 .. Len(fs) : fs[i].missing # 0}
<1>1. FirstTorn(fs) = IF I # {} THEN Min(I) ELSE 0
  BY DEF FirstTorn, SelectInSeq
<1>2. CASE I = {}
  <2>1. FirstTorn(fs) = 0
    BY <1>1, <1>2
  <2>2. \A i \in 1 .. Len(fs) : fs[i].missing = 0
    BY <1>2
  <2> QED  BY <2>1, <2>2
<1>3. CASE I # {}
  <2>1. I \in SUBSET Nat
    OBVIOUS
  <2>2. Min(I) \in I /\ \A i \in I : Min(I) <= i
    <3> HIDE DEF I
    <3> QED  BY <1>3, <2>1, MinOf
  <2>3. FirstTorn(fs) = Min(I)
    BY <1>1, <1>3
  <2> DEFINE f == FirstTorn(fs)
  <2>4. f \in 1 .. Len(fs) /\ fs[f].missing # 0 /\ \A i \in I : f <= i
    BY <2>2, <2>3
  <2> HIDE DEF f
  <2>5. \A i \in 1 .. f - 1 : i \in 1 .. Len(fs) /\ ~(f <= i)
    BY <2>4
  <2>6. \A i \in 1 .. f - 1 : fs[i].missing = 0
    BY <2>4, <2>5
  <2>7. f # 0
    BY <2>4
  <2> QED  BY <2>4, <2>6, <2>7 DEF f
<1> QED  BY <1>2, <1>3

(* What scan_journal accepts is the beginning of the file, whole frames.    *)
LEMMA IntactIs ==
  ASSUME NEW fs \in Seq(Frame)
  PROVE  /\ Intact(fs) \in Seq(Frame) /\ Beginning(Intact(fs), fs)
         /\ ~ScanCorrupt(fs) => \A i \in 1 .. Len(Intact(fs)) : Intact(fs)[i].missing = 0
         /\ FirstTorn(fs) = 0 => Intact(fs) = fs /\ ~ScanCorrupt(fs)
<1>1. CASE TornTail(fs)
  <2> DEFINE f == FirstTorn(fs)
             p == SubSeq(fs, 1, f - 1)
  <2>1. f # 0 /\ Intact(fs) = p
    BY <1>1 DEF TornTail, Intact
  <2>2. f \in 1 .. Len(fs) /\ \A i \in 1 .. f - 1 : fs[i].missing = 0
    BY <2>1, FirstTornIs
  <2> HIDE DEF f
  <2>3. p \in Seq(Frame) /\ Len(p) = f - 1 /\ \A i \in 1 .. f - 1 : p[i] = fs[i]
    BY <2>2
  <2> HIDE DEF p
  <2>4. Beginning(p, fs)
    BY <2>2, <2>3 DEF Beginning
  <2>5. \A i \in 1 .. Len(p) : p[i].missing = 0
    BY <2>2, <2>3
  <2> QED  BY <2>1, <2>3, <2>4, <2>5 DEF f
<1>2. CASE ~TornTail(fs)
  <2>1. Intact(fs) = fs /\ (~ScanCorrupt(fs) => FirstTorn(fs) = 0)
    BY <1>2 DEF Intact, ScanCorrupt
  <2>2. Beginning(fs, fs)
    BY DEF Beginning
  <2>3. FirstTorn(fs) = 0 => ~ScanCorrupt(fs)
    BY DEF ScanCorrupt
  <2> QED  BY <2>1, <2>2, <2>3, FirstTornIs
<1> QED  BY <1>1, <1>2

(* A frame that is torn at the end of the file is a torn tail.              *)
LEMMA IntactTail ==
  ASSUME NEW fs \in Seq(Frame), \A i \in 1 .. Len(fs) : fs[i].missing # 0 => i = Len(fs)
  PROVE  /\ ~ScanCorrupt(fs) /\ Len(Intact(fs)) \in Nat
         /\ Len(Intact(fs)) # Len(fs) => /\ Len(fs) > 0 /\ fs[Len(fs)].missing # 0
                                         /\ Len(Intact(fs)) = Len(fs) - 1
<1>1. CASE FirstTorn(fs) = 0
  BY <1>1, IntactIs
<1>2. CASE FirstTorn(fs) # 0
  <2>1. FirstTorn(fs) \in 1 .. Len(fs) /\ fs[FirstTorn(fs)].missing # 0
    BY <1>2, FirstTornIs
  <2>2. FirstTorn(fs) = Len(fs) /\ Len(fs) \in Nat \ {0}
    BY <2>1
  <2>3. fs[Len(fs)] \in Frame
    BY <2>1, <2>2
  <2>4. fs[Len(fs)].missing \in Nat \ {0}
    BY <2>1, <2>2, <2>3 DEF Frame
  <2>5. SubSeq(fs, FirstTorn(fs) + 1, Len(fs)) = <<>>
    BY <2>2
  <2>6. TornTail(fs)
    <3>1. Bytes(SubSeq(fs, FirstTorn(fs) + 1, Len(fs))) = 0
      BY <2>5, BytesOfNone
    <3>2. 0 < fs[FirstTorn(fs)].missing
      BY <2>2, <2>4
    <3> QED  BY <3>1, <3>2, <1>2 DEF TornTail
  <2>7. Len(Intact(fs)) = Len(fs) - 1
    BY <2>2, <2>6 DEF Intact
  <2> QED  BY <2>1, <2>2, <2>6, <2>7 DEF ScanCorrupt
<1> QED  BY <1>1, <1>2

(* The beginning of a journal that is accepted is accepted.                 *)
LEMMA WellFormedBeginning ==
  ASSUME NEW p \in Seq(Frame), NEW q \in Seq(Frame), Beginning(p, q), WellFormed(q)
  PROVE  WellFormed(p)
<1>1. DOMAIN p = 1 .. Len(p) /\ DOMAIN q = 1 .. Len(q)
  OBVIOUS
<1>2. ASSUME NEW i \in 1 .. Len(p)
      PROVE  /\ i > 1 => p[i].sequence > p[i - 1].sequence
             /\ p[i].kind = "Begin" <=> OpenedAt(p, i) = 0
             /\ p[i].kind = "Commit" => p[i].id = p[OpenedAt(p, i)].id
  <2>1. i \in 1 .. Len(q) /\ p[i] = q[i] /\ (i > 1 => p[i - 1] = q[i - 1])
    BY DEF Beginning
  <2>2. OpenedAt(p, i) = OpenedAt(q, i)
    BY OpenedAtBeginning
  <2>3. /\ i > 1 => q[i].sequence > q[i - 1].sequence
        /\ q[i].kind = "Begin" <=> OpenedAt(q, i) = 0
        /\ q[i].kind = "Commit" => q[i].id = q[OpenedAt(q, i)].id
    BY <2>1, <1>1 DEF WellFormed
  <2>4. OpenedAt(p, i) # 0 => p[OpenedAt(p, i)] = q[OpenedAt(p, i)]
    <3>1. OpenedAt(p, i) # 0 => OpenedAt(p, i) \in 1 .. i - 1
      BY OpenedAtIs DEF IsOpening
    <3> QED  BY <3>1 DEF Beginning
  <2>5. p[i].kind = "Commit" => p[i].id = p[OpenedAt(p, i)].id
    BY <2>1, <2>2, <2>3, <2>4
  <2> QED  BY <2>1, <2>2, <2>3, <2>5
<1> QED  BY <1>1, <1>2 DEF WellFormed

(* Nothing but an abandoned transaction is refused.                         *)
LEMMA WellFormedIf ==
  ASSUME NEW fs \in Seq(Frame), Structure(fs), Increasing(fs),
         \A i \in 1 .. Len(fs) : fs[i].kind = "Begin" => OpenedAt(fs, i) = 0
  PROVE  WellFormed(fs)
<1>1. ASSUME NEW i \in 1 .. Len(fs), fs[i].kind # "Begin" PROVE OpenedAt(fs, i) # 0
  <2> DEFINE I == {j \in 1 .. i - 1 : fs[j].kind # "Record"}
             m == Max(I)
  <2>1. \A j \in 1 .. Len(fs) : fs[j].kind # "Begin" => j > 1 /\ fs[j - 1].kind # "Commit"
    BY DEF Structure
  <2>2. 1 \in I
    <3>1. 1 \in 1 .. Len(fs) /\ ~(1 > 1) /\ i > 1
      BY <2>1, <1>1
    <3> QED  BY <3>1, <2>1
  <2>3. I \in SUBSET (0 .. i - 1) /\ i - 1 \in Nat /\ I # {}
    BY <2>2
  <2>4. m \in I /\ \A j \in I : j <= m
    <3> HIDE DEF I
    <3> QED  BY <2>3, MaxOf
  <2>5. m \in 1 .. i - 1 /\ fs[m].kind # "Record"
    BY <2>4
  <2> HIDE DEF m
  <2>6. ASSUME NEW j \in m + 1 .. i - 1 PROVE fs[j].kind = "Record"
    <3>1. j \in 1 .. i - 1 /\ ~(j <= m)
      BY <2>5
    <3> QED  BY <3>1, <2>4
  <2>7. fs[m].kind # "Commit"
    <3>1. m + 1 \in 1 .. Len(fs) /\ (m + 1) - 1 = m /\ (m + 1 = i \/ m + 1 \in m + 1 .. i - 1)
      BY <2>5
    <3>2. fs[m + 1].kind # "Begin"
      BY <3>1, <2>6, <1>1
    <3>3. fs[(m + 1) - 1].kind # "Commit"
      BY <3>1, <3>2, <2>1
    <3> QED  BY <3>1, <3>3
  <2>8. fs[m].kind = "Begin"
    <3>1. fs[m] \in Frame
      BY <2>5
    <3> QED  BY <3>1, <2>5, <2>7 DEF Frame
  <2>9. IsOpening(fs, i, m)
    BY <2>5, <2>6, <2>8 DEF IsOpening
  <2> QED  BY <2>5, <2>9, OpenedAtIs
<1>2. ASSUME NEW i \in 1 .. Len(fs), fs[i].kind = "Commit"
      PROVE  fs[i].id = fs[OpenedAt(fs, i)].id
  <2>1. i \in Commits(fs)
    BY <1>2 DEF Commits
  <2> QED  BY <2>1, TransactionRead
<1> QED  BY <1>1, <1>2 DEF WellFormed, Increasing

(* Nothing was written yet.                                                 *)
LEMMA EmptyJournal ==
  /\ <<>> \in Seq(Frame) /\ Len(<<>>) = 0
  /\ Commits(<<>>) = {} /\ Committed(<<>>) = <<>> /\ Structure(<<>>)
  /\ Increasing(<<>>) /\ LastSequence(<<>>) = 0 /\ Bytes(<<>>) = 0
  /\ WellFormed(<<>>) /\ Intact(<<>>) = <<>> /\ ~ScanCorrupt(<<>>)
<1>1. <<>> \in Seq(Frame) /\ Len(<<>>) = 0 /\ DOMAIN <<>> = {} /\ 1 .. Len(<<>>) = {}
  OBVIOUS
<1>2. Commits(<<>>) = {}
  BY <1>1 DEF Commits
<1>3. Cardinality(Commits(<<>>)) = 0
  BY <1>2, FS_EmptySet
<1>4. Committed(<<>>) = <<>>
  BY <1>3 DEF Committed
<1>5. Structure(<<>>)
  BY <1>1, <1>2 DEF Structure
<1>6. Increasing(<<>>)
  BY <1>1 DEF Increasing
<1>7. WellFormed(<<>>)
  BY <1>1 DEF WellFormed
<1>8. FirstTorn(<<>>) = 0
  <2>1. FirstTorn(<<>>) # 0 => FirstTorn(<<>>) \in 1 .. Len(<<>>)
    BY <1>1, FirstTornIs
  <2> QED  BY <2>1, <1>1
<1>9. Intact(<<>>) = <<>> /\ ~ScanCorrupt(<<>>)
  BY <1>1, <1>8, IntactIs
<1>10. LastSequence(<<>>) = 0
  BY DEF LastSequence
<1> QED  BY <1>1, <1>2, <1>4, <1>5, <1>6, <1>7, <1>9, <1>10, BytesOfNone

-----------------------------------------------------------------------------
(* The invariant.                                                           *)

(* The files, with k frames of the newest journal on stable storage.        *)
FilesOK(ss, js, k) ==
  /\ DOMAIN ss \subseteq Generation /\ DOMAIN js \subseteq Generation
  /\ \A g \in DOMAIN ss : ss[g] \in Seq(Transaction)
  /\ \A g \in DOMAIN js : js[g] \in Seq(Frame)
  /\ k \in Nat /\ (DOMAIN js # {} => k <= Len(js[Newest(js)]))

(* The newest snapshot, and the journal that is read with it.               *)
ImageOf(ss) == IF DOMAIN ss = {} THEN <<>> ELSE ss[Newest(ss)]
ScanOf(js, ss) ==
  IF DOMAIN js # {} /\ Newest(js) >= Newest(ss) THEN js[Newest(js)] ELSE <<>>

Image == ImageOf(snapshots)

Up == pc \notin {"closed", "refused"}

Types ==
  /\ pc \in {"closed", "idle", "writing", "applied", "snapshotted", "created", "refused"}
  /\ FilesOK(snapshots, journals, synced)
  /\ journal_ \in BOOLEAN /\ next_sequence_ \in Nat \ {0} /\ journal_generation_ \in Nat
  /\ log \in Seq(Transaction) /\ stable \in 0 .. Len(log)
  /\ pending = <<>> \/ \E t \in Transaction : pending = <<t>>
  /\ begun \in 0 .. MaxTransactions /\ faulty \in BOOLEAN

(* A compaction that has renamed its snapshot and has no journal yet.       *)
Between ==
  /\ ~faulty
  /\ journal_generation_ + 1 \in Generation
  /\ DOMAIN snapshots # {} /\ Newest(snapshots) = journal_generation_ + 1 /\ Image = log
  /\ DOMAIN journals # {}
  /\ \/ Newest(journals) = journal_generation_
     \/ /\ Newest(journals) = journal_generation_ + 1
        /\ journals[journal_generation_ + 1] = <<>>

(* The handle names the newest journal, and no snapshot is newer.           *)
HandleOK ==
  /\ journal_ => /\ pc \in {"idle", "writing", "applied"}
                 /\ DOMAIN journals # {} /\ journal_generation_ = Newest(journals)
                 /\ Newest(snapshots) <= journal_generation_
  /\ pc \in {"writing", "applied"} => journal_
  /\ Up /\ ~journal_ => Between
  /\ pc = "snapshotted" => ~journal_ /\ Newest(journals) = journal_generation_
  /\ pc = "created" => ~journal_ /\ Newest(journals) = journal_generation_ + 1
  /\ pc = "writing" => pending # <<>> /\ pending[1][1].txn = begun
  /\ Up /\ pc # "writing" => pending = <<>>

(* Transactions are in order, in the coordinator's log lg, and in the       *)
(* snapshot im and then the journal fs; none has a number above n.          *)
Ordered(im, lg, fs, n) ==
  /\ Structure(fs) /\ InOrder(im) /\ InOrder(lg)
  /\ \A i \in 1 .. Len(im) : im[i][1].txn <= n
  /\ \A i \in 1 .. Len(lg) : lg[i][1].txn <= n
  /\ \A c \in Commits(fs) : TxnAt(fs, c) <= n
  /\ \A i \in 1 .. Len(im) : \A c \in Commits(fs) : im[i][1].txn < TxnAt(fs, c)

(* The first k frames of the journal and the snapshot have m transactions.  *)
Counted(im, fs, m, k) == m <= Len(im) + Cardinality({c \in Commits(fs) : c <= k})

(* Only the end of the journal is torn, and only behind its first k frames. *)
TornBehind(fs, k) == \A i \in 1 .. Len(fs) : fs[i].missing # 0 => i = Len(fs) /\ k < i

Whole(fs) == \A i \in 1 .. Len(fs) : fs[i].missing = 0

(* What is accepted is a beginning of what was offered.                     *)
Reads(im, fs, offered) ==
  ~ScanCorrupt(fs) /\ WellFormed(Intact(fs)) =>
    Beginning(im \o Committed(Intact(fs)), offered)

(* An open journal that is accepted is the log, and one that is not is on   *)
(* stable storage.                                                          *)
Current(im, fs, lg, k) ==
  /\ WellFormed(fs) => lg = im \o Committed(fs)
  /\ k = Len(fs) \/ WellFormed(fs)

OrderOK == Ordered(Image, log, Scanned, IF pc = "writing" THEN begun - 1 ELSE begun)

CountsOK ==
  /\ Counted(Image, Scanned, stable, synced)
  /\ journal_ => Counted(Image, Scanned, Len(log), Len(Scanned))

(* This is void once a write to the journal in use has failed.              *)
SoundOK ==
  ~faulty =>
    /\ TornBehind(Scanned, synced) /\ Increasing(Scanned)
    /\ Reads(Image, Scanned, log \o pending)
    /\ journal_ => /\ Whole(Scanned) /\ Current(Image, Scanned, log, synced)
                   /\ next_sequence_ = LastSequence(Scanned) + 1
                   /\ journal_bytes_ = Bytes(Scanned)

Inv == Types /\ HandleOK /\ OrderOK /\ CountsOK /\ SoundOK

-----------------------------------------------------------------------------
(* Logs of transactions.                                                    *)

(* One log after another.                                                   *)
LEMMA Joined ==
  ASSUME NEW a \in Seq(Transaction), NEW b \in Seq(Transaction)
  PROVE  /\ a \o b \in Seq(Transaction) /\ Len(a) \in Nat /\ Len(b) \in Nat
         /\ Len(a \o b) = Len(a) + Len(b)
         /\ \A i \in 1 .. Len(a) : (a \o b)[i] = a[i]
         /\ \A i \in 1 .. Len(b) : (a \o b)[Len(a) + i] = b[i]
         /\ \A i \in 1 .. Len(a) + Len(b) :
              i \in 1 .. Len(a) \/ \E j \in 1 .. Len(b) : i = Len(a) + j
<1>1. /\ a \o b \in Seq(Transaction)
      /\ Len(a \o b) = Len(a) + Len(b)
      /\ \A i \in 1 .. Len(a) + Len(b) :
           (a \o b)[i] = IF i <= Len(a) THEN a[i] ELSE b[i - Len(a)]
  BY ConcatProperties, Zenon
<1>2. Len(a) \in Nat /\ Len(b) \in Nat
  OBVIOUS
<1>3. ASSUME NEW i \in 1 .. Len(a) PROVE (a \o b)[i] = a[i]
  <2>1. i \in 1 .. Len(a) + Len(b) /\ i <= Len(a)
    BY <1>2
  <2> QED  BY <2>1, <1>1, Zenon
<1>4. ASSUME NEW i \in 1 .. Len(b) PROVE (a \o b)[Len(a) + i] = b[i]
  <2>1. Len(a) + i \in 1 .. Len(a) + Len(b) /\ ~(Len(a) + i <= Len(a)) /\ (Len(a) + i) - Len(a) = i
    BY <1>2
  <2>2. (a \o b)[Len(a) + i] = b[(Len(a) + i) - Len(a)]
    BY <2>1, <1>1, Zenon
  <2> QED  BY <2>1, <2>2
<1>5. ASSUME NEW i \in 1 .. Len(a) + Len(b), i \notin 1 .. Len(a)
      PROVE  \E j \in 1 .. Len(b) : i = Len(a) + j
  <2>1. i - Len(a) \in 1 .. Len(b) /\ i = Len(a) + (i - Len(a))
    BY <1>2, <1>5
  <2> QED  BY <2>1
<1> QED  BY <1>1, <1>2, <1>3, <1>4, <1>5

(* A beginning after the same log is a beginning.                           *)
LEMMA BeginningJoined ==
  ASSUME NEW a \in Seq(Transaction), NEW p \in Seq(Transaction), NEW q \in Seq(Transaction),
         Beginning(p, q)
  PROVE  Beginning(a \o p, a \o q)
<1> DEFINE x == a \o p
           y == a \o q
<1>1. /\ Len(a) \in Nat /\ Len(p) \in Nat /\ Len(x) = Len(a) + Len(p)
      /\ \A i \in 1 .. Len(a) : x[i] = a[i]
      /\ \A i \in 1 .. Len(p) : x[Len(a) + i] = p[i]
      /\ \A i \in 1 .. Len(a) + Len(p) :
           i \in 1 .. Len(a) \/ \E j \in 1 .. Len(p) : i = Len(a) + j
  BY Joined, Zenon
<1>2. /\ Len(q) \in Nat /\ Len(y) = Len(a) + Len(q)
      /\ \A i \in 1 .. Len(a) : y[i] = a[i]
      /\ \A i \in 1 .. Len(q) : y[Len(a) + i] = q[i]
  BY Joined, Zenon
<1> HIDE DEF x, y
<1>3. Len(p) <= Len(q) /\ \A i \in 1 .. Len(p) : p[i] = q[i] /\ i \in 1 .. Len(q)
  BY <1>1, <1>2 DEF Beginning
<1>4. ASSUME NEW i \in 1 .. Len(x) PROVE x[i] = y[i]
  <2>1. CASE i \in 1 .. Len(a)
    BY <2>1, <1>1, <1>2
  <2>2. ASSUME NEW j \in 1 .. Len(p), i = Len(a) + j PROVE x[i] = y[i]
    BY <2>2, <1>1, <1>2, <1>3
  <2> QED  BY <2>1, <2>2, <1>1
<1>5. Len(x) <= Len(y)
  BY <1>1, <1>2, <1>3
<1>6. Beginning(x, y)
  BY <1>4, <1>5 DEF Beginning
<1> QED  BY <1>6 DEF x, y

(* A log is a beginning of itself and more.                                 *)
LEMMA BeginningOffered ==
  ASSUME NEW a \in Seq(Transaction), NEW b \in Seq(Transaction)
  PROVE  Beginning(a, a \o b)
<1>1. /\ Len(a) \in Nat /\ Len(b) \in Nat /\ Len(a \o b) = Len(a) + Len(b)
      /\ \A i \in 1 .. Len(a) : (a \o b)[i] = a[i]
  BY Joined, Zenon
<1>2. Len(a) <= Len(a \o b)
  BY <1>1
<1> QED  BY <1>1, <1>2 DEF Beginning

(* A beginning of a beginning is a beginning.                               *)
LEMMA BeginningTransitive ==
  ASSUME NEW a \in Seq(Transaction), NEW b \in Seq(Transaction), NEW c \in Seq(Transaction),
         Beginning(a, b), Beginning(b, c)
  PROVE  Beginning(a, c)
  BY DEF Beginning

(* Nothing offered adds nothing.                                            *)
LEMMA NothingPending ==
  ASSUME NEW a \in Seq(Transaction)
  PROVE  a \o <<>> = a /\ <<>> \in Seq(Transaction) /\ Len(<<>>) = 0
<1>1. a \o <<>> = a
  BY ConcatEmptySeq
<1> QED  BY <1>1

(* A later transaction keeps the log in order.                              *)
LEMMA JoinedInOrder ==
  ASSUME NEW a \in Seq(Transaction), NEW b \in Seq(Transaction), InOrder(a), InOrder(b),
         \A i \in 1 .. Len(a) : \A j \in 1 .. Len(b) : a[i][1].txn < b[j][1].txn
  PROVE  InOrder(a \o b)
<1> DEFINE x == a \o b
<1>1. /\ Len(a) \in Nat /\ Len(b) \in Nat /\ Len(x) = Len(a) + Len(b)
      /\ \A i \in 1 .. Len(a) : x[i] = a[i]
      /\ \A i \in 1 .. Len(b) : x[Len(a) + i] = b[i]
      /\ \A i \in 1 .. Len(a) + Len(b) :
           i \in 1 .. Len(a) \/ \E j \in 1 .. Len(b) : i = Len(a) + j
  BY Joined, Zenon
<1> HIDE DEF x
<1>2. ASSUME NEW i \in 1 .. Len(x), NEW j \in 1 .. Len(x), i < j
      PROVE  x[i][1].txn < x[j][1].txn
  <2>1. CASE i \in 1 .. Len(a) /\ j \in 1 .. Len(a)
    BY <2>1, <1>1, <1>2 DEF InOrder
  <2>2. ASSUME i \in 1 .. Len(a), NEW l \in 1 .. Len(b), j = Len(a) + l
        PROVE  x[i][1].txn < x[j][1].txn
    BY <2>2, <1>1
  <2>3. ASSUME NEW m \in 1 .. Len(b), NEW l \in 1 .. Len(b), i = Len(a) + m, j = Len(a) + l
        PROVE  x[i][1].txn < x[j][1].txn
    <3>1. m < l
      BY <2>3, <1>1, <1>2
    <3>2. b[m][1].txn < b[l][1].txn
      BY <3>1 DEF InOrder
    <3> QED  BY <2>3, <3>2, <1>1
  <2>4. i \notin 1 .. Len(a) => j \notin 1 .. Len(a)
    BY <1>1, <1>2
  <2> QED  BY <2>1, <2>2, <2>3, <2>4, <1>1
<1>3. InOrder(x)
  BY <1>2 DEF InOrder
<1> QED  BY <1>3 DEF x

(* One transaction is in order.                                             *)
LEMMA OneInOrder ==
  ASSUME NEW t \in Transaction
  PROVE  <<t>> \in Seq(Transaction) /\ Len(<<t>>) = 1 /\ <<t>>[1] = t /\ InOrder(<<t>>)
  BY DEF InOrder

-----------------------------------------------------------------------------
(* What the parts of the invariant say of an image, a log and a journal.    *)

(* A journal cut or torn at its end is in order.                            *)
LEMMA OrderedAlike ==
  ASSUME NEW im, NEW lg, NEW p \in Seq(Frame), NEW q \in Seq(Frame), NEW n,
         Alike(p, q), Ordered(im, lg, q, n)
  PROVE  Ordered(im, lg, p, n)
<1>1. /\ Structure(p)
      /\ Commits(p) = {c \in Commits(q) : c <= Len(p)}
      /\ \A c \in Commits(p) : TxnAt(p, c) = TxnAt(q, c)
  BY StructureAlike DEF Ordered
<1>2. \A c \in Commits(p) : c \in Commits(q) /\ TxnAt(p, c) = TxnAt(q, c)
  BY <1>1
<1> QED  BY <1>1, <1>2 DEF Ordered

(* What is read back from an image and a journal is in order.               *)
LEMMA ReadInOrder ==
  ASSUME NEW im \in Seq(Transaction), NEW lg, NEW fs \in Seq(Frame), NEW n \in Nat,
         Ordered(im, lg, fs, n)
  PROVE  /\ im \o Committed(fs) \in Seq(Transaction)
         /\ Len(im \o Committed(fs)) = Len(im) + Cardinality(Commits(fs))
         /\ Len(im) \in Nat /\ Cardinality(Commits(fs)) \in Nat
         /\ InOrder(im \o Committed(fs))
         /\ \A i \in 1 .. Len(im \o Committed(fs)) : (im \o Committed(fs))[i][1].txn <= n
<1> DEFINE b == Committed(fs)
           x == im \o b
<1>1. /\ b \in Seq(Transaction) /\ InOrder(b)
      /\ \A k \in 1 .. Len(b) : \E c \in Commits(fs) : b[k][1].txn = TxnAt(fs, c)
  BY CommittedWhole DEF Ordered
<1>2. Len(b) = Cardinality(Commits(fs)) /\ Len(b) \in Nat
  BY CommittedLen
<1> HIDE DEF b
<1>3. /\ x \in Seq(Transaction) /\ Len(im) \in Nat /\ Len(x) = Len(im) + Len(b)
      /\ \A i \in 1 .. Len(im) : x[i] = im[i]
      /\ \A i \in 1 .. Len(b) : x[Len(im) + i] = b[i]
      /\ \A i \in 1 .. Len(im) + Len(b) :
           i \in 1 .. Len(im) \/ \E j \in 1 .. Len(b) : i = Len(im) + j
  BY <1>1, Joined, Zenon
<1>4. \A i \in 1 .. Len(im) : \A j \in 1 .. Len(b) : im[i][1].txn < b[j][1].txn
  BY <1>1 DEF Ordered
<1>5. InOrder(x)
  BY <1>1, <1>4, JoinedInOrder DEF Ordered
<1> HIDE DEF x
<1>6. ASSUME NEW i \in 1 .. Len(x) PROVE x[i][1].txn <= n
  <2>1. CASE i \in 1 .. Len(im)
    BY <2>1, <1>3 DEF Ordered
  <2>2. ASSUME NEW j \in 1 .. Len(b), i = Len(im) + j PROVE x[i][1].txn <= n
    BY <2>2, <1>3, <1>1 DEF Ordered
  <2> QED  BY <2>1, <2>2, <1>3
<1>7. /\ x \in Seq(Transaction)
      /\ Len(x) = Len(im) + Cardinality(Commits(fs))
      /\ Len(im) \in Nat /\ Cardinality(Commits(fs)) \in Nat
      /\ InOrder(x)
      /\ \A i \in 1 .. Len(x) : x[i][1].txn <= n
  BY <1>2, <1>3, <1>5, <1>6
<1> QED  BY <1>7 DEF x, b

(* A transaction is written after everything else.                          *)
LEMMA OrderedGrown ==
  ASSUME NEW im \in Seq(Transaction), NEW lg \in Seq(Transaction), NEW fs \in Seq(Frame),
         NEW n \in Nat, NEW t \in Transaction, NEW s \in Nat,
         Ordered(im, lg, fs, n), t[1].txn = n + 1
  PROVE  Ordered(im, lg, Grown(fs, t, s), n + 1)
<1>1. \A c \in Commits(fs) : TxnAt(fs, c) \in Nat /\ TxnAt(fs, c) <= n
  BY TransactionRead DEF Ordered
<1>2. Structure(Grown(fs, t, s))
  <2>1. \A c \in Commits(fs) : TxnAt(fs, c) < t[1].txn
    BY <1>1
  <2> QED  BY <2>1, GrownStructure DEF Ordered
<1>3. ASSUME NEW c \in Commits(Grown(fs, t, s))
      PROVE  TxnAt(Grown(fs, t, s), c) = n + 1 \/ (c \in Commits(fs) /\ TxnAt(Grown(fs, t, s), c) = TxnAt(fs, c))
  <2>1. /\ Commits(Grown(fs, t, s)) = Commits(fs) \cup {Len(Grown(fs, t, s))}
        /\ TxnAt(Grown(fs, t, s), Len(Grown(fs, t, s))) = t[1].txn
    BY AppendedCommits
  <2>2. CASE c \in Commits(fs)
    <3>1. Grown(fs, t, s) \in Seq(Frame) /\ Beginning(fs, Grown(fs, t, s)) /\ Structure(fs)
      BY Appended, TransactionIs DEF Ordered
    <3> QED  BY <2>2, <3>1, CarriedBeginning
  <2> QED  BY <2>1, <2>2
<1>4. \A i \in 1 .. Len(im) : im[i][1].txn \in Nat /\ im[i][1].txn <= n
  <2>1. \A i \in 1 .. Len(im) : im[i] \in Transaction
    OBVIOUS
  <2> QED  BY <2>1, TxnType DEF Ordered
<1>5. \A i \in 1 .. Len(lg) : lg[i][1].txn \in Nat /\ lg[i][1].txn <= n
  <2>1. \A i \in 1 .. Len(lg) : lg[i] \in Transaction
    OBVIOUS
  <2> QED  BY <2>1, TxnType DEF Ordered
<1>6. \A c \in Commits(Grown(fs, t, s)) : TxnAt(Grown(fs, t, s), c) <= n + 1
  BY <1>1, <1>3
<1>7. \A i \in 1 .. Len(im) : \A c \in Commits(Grown(fs, t, s)) : im[i][1].txn < TxnAt(Grown(fs, t, s), c)
  <2>1. \A i \in 1 .. Len(im) : \A c \in Commits(fs) : im[i][1].txn < TxnAt(fs, c)
    BY DEF Ordered
  <2> QED  BY <1>3, <1>4, <2>1
<1>8. /\ \A i \in 1 .. Len(im) : im[i][1].txn <= n + 1
      /\ \A i \in 1 .. Len(lg) : lg[i][1].txn <= n + 1
  BY <1>4, <1>5
<1>9. InOrder(im) /\ InOrder(lg)
  BY DEF Ordered
<1> QED  BY <1>2, <1>6, <1>7, <1>8, <1>9 DEF Ordered

(* ... and applied after everything else.                                   *)
LEMMA OrderedApplied ==
  ASSUME NEW im \in Seq(Transaction), NEW lg \in Seq(Transaction), NEW fs \in Seq(Frame),
         NEW n \in Nat, NEW t \in Transaction, NEW s \in Nat,
         Ordered(im, lg, fs, n), t[1].txn = n + 1
  PROVE  Ordered(im, lg \o <<t>>, Grown(fs, t, s), n + 1)
<1> DEFINE x == lg \o <<t>>
<1>1. Ordered(im, lg, Grown(fs, t, s), n + 1)
  BY OrderedGrown
<1>2. <<t>> \in Seq(Transaction) /\ Len(<<t>>) = 1 /\ <<t>>[1] = t /\ InOrder(<<t>>)
  BY OneInOrder
<1>3. \A i \in 1 .. Len(lg) : lg[i][1].txn \in Nat /\ lg[i][1].txn <= n
  <2>1. \A i \in 1 .. Len(lg) : lg[i] \in Transaction
    OBVIOUS
  <2> QED  BY <2>1, TxnType DEF Ordered
<1>4. InOrder(x)
  <2>1. \A i \in 1 .. Len(lg) : \A j \in 1 .. Len(<<t>>) : lg[i][1].txn < <<t>>[j][1].txn
    BY <1>2, <1>3
  <2> QED  BY <2>1, <1>2, JoinedInOrder DEF Ordered
<1>5. \A i \in 1 .. Len(x) : x[i][1].txn <= n + 1
  <2>1. /\ Len(lg) \in Nat /\ Len(x) = Len(lg) + Len(<<t>>)
        /\ \A i \in 1 .. Len(lg) : x[i] = lg[i]
        /\ \A i \in 1 .. Len(<<t>>) : x[Len(lg) + i] = <<t>>[i]
        /\ \A i \in 1 .. Len(lg) + Len(<<t>>) :
             i \in 1 .. Len(lg) \/ \E j \in 1 .. Len(<<t>>) : i = Len(lg) + j
    BY <1>2, Joined, Zenon
  <2> HIDE DEF x
  <2>2. ASSUME NEW i \in 1 .. Len(x) PROVE x[i][1].txn <= n + 1
    <3>1. CASE i \in 1 .. Len(lg)
      BY <3>1, <2>1, <1>3
    <3>2. ASSUME NEW j \in 1 .. Len(<<t>>), i = Len(lg) + j PROVE x[i][1].txn <= n + 1
      <4>1. j = 1 /\ x[i] = t
        BY <3>2, <2>1, <1>2
      <4> QED  BY <4>1
    <3> QED  BY <3>1, <3>2, <2>1
  <2> QED  BY <2>2
<1> HIDE DEF x
<1>6. Ordered(im, x, Grown(fs, t, s), n + 1)
  BY <1>1, <1>4, <1>5 DEF Ordered
<1> QED  BY <1>6 DEF x

(* A journal with no torn frame is read to its end.                         *)
LEMMA WholeIntact ==
  ASSUME NEW fs \in Seq(Frame), Whole(fs)
  PROVE  Intact(fs) = fs /\ ~ScanCorrupt(fs)
  BY FirstTornIs, IntactIs DEF Whole

(* What is read of it is whole.                                             *)
LEMMA IntactWhole ==
  ASSUME NEW fs \in Seq(Frame), ~ScanCorrupt(fs)
  PROVE  Intact(fs) \in Seq(Frame) /\ Whole(Intact(fs)) /\ Beginning(Intact(fs), fs)
  BY IntactIs DEF Whole

(* More is counted when no commit among the certain frames was lost.        *)
LEMMA CountedMore ==
  ASSUME NEW im \in Seq(Transaction), NEW p \in Seq(Frame), NEW q \in Seq(Frame),
         NEW m \in Int, NEW j, NEW k, Counted(im, p, m, j),
         \A c \in Commits(p) : c <= j => c \in Commits(q) /\ c <= k
  PROVE  Counted(im, q, m, k)
<1> DEFINE P == {c \in Commits(p) : c <= j}
           Q == {c \in Commits(q) : c <= k}
<1>1. IsFiniteSet(Commits(q)) /\ Q \subseteq Commits(q) /\ P \subseteq Q
  BY CommitsType
<1>2. IsFiniteSet(Q)
  BY <1>1, FS_Subset
<1>3. IsFiniteSet(P) /\ Cardinality(P) <= Cardinality(Q)
  <2> HIDE DEF P, Q
  <2> QED  BY <1>1, <1>2, FS_Subset
<1>4. Cardinality(P) \in Nat /\ Cardinality(Q) \in Nat
  BY <1>2, <1>3, FS_CardinalityType
<1>5. m <= Len(im) + Cardinality(P) /\ Len(im) \in Nat
  BY DEF Counted
<1> HIDE DEF P, Q
<1>6. m <= Len(im) + Cardinality(Q)
  BY <1>3, <1>4, <1>5
<1> QED  BY <1>6 DEF Counted, Q

(* All the frames hold all the transactions.                                *)
LEMMA CountedAll ==
  ASSUME NEW im, NEW fs \in Seq(Frame), NEW m
  PROVE  Counted(im, fs, m, Len(fs)) <=> m <= Len(im) + Cardinality(Commits(fs))
<1>1. {c \in Commits(fs) : c <= Len(fs)} = Commits(fs)
  BY CommitsType
<1> QED  BY <1>1 DEF Counted

(* Without a journal only the image counts.                                 *)
LEMMA CountedNone ==
  ASSUME NEW im \in Seq(Transaction), NEW m, NEW k
  PROVE  Counted(im, <<>>, m, k) <=> m <= Len(im)
<1>1. {c \in Commits(<<>>) : c <= k} = {}
  BY EmptyJournal
<1>2. Cardinality({c \in Commits(<<>>) : c <= k}) = 0
  BY <1>1, FS_EmptySet
<1> QED  BY <1>2 DEF Counted

(* An open journal reads back as a beginning of the log.                    *)
LEMMA CurrentReads ==
  ASSUME NEW im \in Seq(Transaction), NEW fs \in Seq(Frame), NEW lg \in Seq(Transaction), NEW k,
         Whole(fs), Current(im, fs, lg, k)
  PROVE  Reads(im, fs, lg \o <<>>)
<1>1. lg \o <<>> = lg /\ Beginning(lg, lg)
  BY NothingPending DEF Beginning
<1>2. Intact(fs) = fs
  BY WholeIntact
<1>3. WellFormed(fs) => im \o Committed(fs) = lg
  BY DEF Current
<1> QED  BY <1>1, <1>2, <1>3 DEF Reads

(* Nothing was read of an empty journal but the image.                      *)
LEMMA ImageRead ==
  ASSUME NEW im \in Seq(Transaction)
  PROVE  /\ im \o Committed(<<>>) = im
         /\ \A offered : Reads(im, <<>>, offered) <=> Beginning(im, offered)
<1>1. im \o Committed(<<>>) = im
  BY EmptyJournal, NothingPending
<1>2. Intact(<<>>) = <<>> /\ ~ScanCorrupt(<<>>) /\ WellFormed(<<>>)
  BY EmptyJournal
<1> QED  BY <1>1, <1>2 DEF Reads

(* The journal of a commit that was written out.                            *)
LEMMA CurrentGrown ==
  ASSUME NEW im \in Seq(Transaction), NEW fs \in Seq(Frame), NEW lg \in Seq(Transaction), NEW k,
         NEW t \in Transaction, NEW s \in Nat, Structure(fs), Current(im, fs, lg, k),
         WellFormed(fs)
  PROVE  lg \o <<t>> = im \o Committed(Grown(fs, t, s))
<1> DEFINE f == Committed(fs)
           g == Committed(Grown(fs, t, s))
           n == Cardinality(Commits(fs))
<1>1. f \in Seq(Transaction) /\ Len(f) = n /\ n \in Nat
  BY CommittedWhole, CommittedLen
<1>2. Grown(fs, t, s) \in Seq(Frame)
  BY Appended, TransactionIs
<1>3. Len(g) = n + 1 /\ DOMAIN g = 1 .. n + 1
  <2>1. Cardinality(Commits(Grown(fs, t, s))) = n + 1
    BY AppendedCommits
  <2> QED  BY <1>2, <2>1, CommittedLen
<1>4. (\A i \in 1 .. n : g[i] = f[i]) /\ g[n + 1] = t
  BY AppendedCommits
<1>5. <<t>> \in Seq(Transaction) /\ Len(<<t>>) = 1 /\ <<t>>[1] = t
  BY OneInOrder
<1>6. g \in Seq(Transaction)
  <2>1. \A i \in 1 .. n + 1 : g[i] \in Transaction
    <3> HIDE DEF f, g, n
    <3>1. \A i \in 1 .. n + 1 : i \in 1 .. n \/ i = n + 1
      BY <1>1
    <3> QED  BY <3>1, <1>1, <1>4
  <2>2. g = [i \in 1 .. n + 1 |-> g[i]]
    BY <1>3 DEF Committed
  <2>3. n + 1 \in Nat
    BY <1>1
  <2> DEFINE h == [i \in 1 .. n + 1 |-> g[i]]
  <2> HIDE DEF g, n
  <2>4. h \in [1 .. n + 1 -> Transaction]
    BY <2>1
  <2>5. g = h
    BY <2>2
  <2> HIDE DEF h
  <2> QED  BY <2>3, <2>4, <2>5
<1>7. f \o <<t>> = g
  <2> HIDE DEF f, g, n
  <2> DEFINE x == f \o <<t>>
  <2>1. /\ x \in Seq(Transaction) /\ Len(x) = Len(f) + Len(<<t>>)
        /\ \A i \in 1 .. Len(f) : x[i] = f[i]
        /\ \A i \in 1 .. Len(<<t>>) : x[Len(f) + i] = <<t>>[i]
    BY <1>1, <1>5, Joined, Zenon
  <2> HIDE DEF x
  <2>2. Len(x) = n + 1 /\ x[n + 1] = t /\ \A i \in 1 .. n : x[i] = f[i]
    BY <2>1, <1>1, <1>5
  <2>3. ASSUME NEW i \in 1 .. Len(x) PROVE x[i] = g[i]
    <3>1. i \in 1 .. n \/ i = n + 1
      BY <2>2, <1>1
    <3> QED  BY <3>1, <2>2, <1>4
  <2>4. Len(x) = Len(g)
    BY <2>2, <1>3
  <2>5. x = g
    BY <2>1, <2>3, <2>4, <1>6, SeqEqual
  <2> QED  BY <2>5 DEF x
<1>8. lg = im \o f
  BY DEF Current
<1>9. lg \o <<t>> = im \o (f \o <<t>>)
  <2> HIDE DEF f
  <2>1. im \in Seq(Transaction) /\ f \in Seq(Transaction) /\ <<t>> \in Seq(Transaction)
    BY <1>1, <1>5
  <2>2. (im \o f) \o <<t>> = im \o (f \o <<t>>)
    <3> DEFINE u == <<t>>
    <3>1. u \in Seq(Transaction)
      BY <2>1
    <3> HIDE DEF u
    <3>2. (im \o f) \o u = im \o (f \o u)
      BY <2>1, <3>1, ConcatAssociative
    <3> QED  BY <3>2 DEF u
  <2> QED  BY <2>2, <1>8
<1> QED  BY <1>7, <1>9

(* Frames with the same fields are the same.                                *)
LEMMA SameFrame ==
  ASSUME NEW f \in Frame, NEW g \in Frame, f.kind = g.kind, f.sequence = g.sequence,
         f.id = g.id, f.record = g.record, f.missing = g.missing
  PROVE  f = g
  BY DEF Frame

(* A crash: what is read back of the frames that are left is a beginning of *)
(* what all the frames say.                                                 *)
LEMMA SurvivorsRead ==
  ASSUME NEW im \in Seq(Transaction), NEW fs \in Seq(Frame), NEW k \in Nat, NEW p,
         NEW ls \in Seq(Frame), NEW lg \in Seq(Transaction),
         Structure(fs), Whole(fs), Increasing(fs), Survives(p, fs, k),
         Beginning(ls, fs), k <= Len(ls), k = Len(ls) \/ WellFormed(ls),
         WellFormed(ls) => lg = im \o Committed(fs)
  PROVE  TornBehind(p, k) /\ Increasing(p) /\ Reads(im, p, lg)
<1>1. p \in Seq(Frame) /\ Alike(p, fs) /\ k <= Len(p)
      /\ \A i \in 1 .. Len(p) : i < Len(p) \/ i <= k => p[i] = fs[i]
  BY DEF Survives
<1>2. Len(p) \in Nat /\ Len(fs) \in Nat /\ Len(p) <= Len(fs) /\ Len(ls) \in Nat /\ Len(ls) <= Len(fs)
  BY <1>1 DEF Alike, Beginning
<1>3. ASSUME NEW i \in 1 .. Len(p), p[i].missing # 0 PROVE i = Len(p) /\ k < i
  <2>1. fs[i].missing = 0
    BY <1>2 DEF Whole
  <2>2. ~(i < Len(p) \/ i <= k)
    BY <2>1, <1>3, <1>1
  <2> QED  BY <2>2, <1>2
<1>4. TornBehind(p, k)
  BY <1>3 DEF TornBehind
<1>5. Increasing(p)
  BY <1>1, IncreasingAlike
<1> DEFINE J == Intact(p)
<1>6. /\ ~ScanCorrupt(p) /\ Len(J) \in Nat
      /\ Len(J) # Len(p) => /\ Len(p) > 0 /\ p[Len(p)].missing # 0
                            /\ Len(J) = Len(p) - 1
  <2>1. \A i \in 1 .. Len(p) : p[i].missing # 0 => i = Len(p)
    BY <1>3
  <2> QED  BY <2>1, <1>1, IntactTail
<1>7. J \in Seq(Frame) /\ Whole(J) /\ Beginning(J, p)
  BY <1>1, <1>6, IntactWhole
<1> HIDE DEF J
<1>8. k <= Len(J)
  <2>1. CASE Len(J) # Len(p)
    <3>1. Len(p) \in 1 .. Len(p)
      BY <2>1, <1>6, <1>2
    <3> QED  BY <3>1, <2>1, <1>3, <1>6
  <2> QED  BY <2>1, <1>1
<1>9. ASSUME NEW i \in 1 .. Len(J) PROVE J[i] = fs[i]
  <2>1. i \in 1 .. Len(p) /\ i \in 1 .. Len(fs) /\ J[i] = p[i]
    BY <1>2, <1>7 DEF Beginning
  <2>2. J[i].missing = 0 /\ fs[i].missing = 0
    BY <2>1, <1>7 DEF Whole
  <2>3. /\ p[i].kind = fs[i].kind /\ p[i].sequence = fs[i].sequence
        /\ p[i].id = fs[i].id /\ p[i].record = fs[i].record
    BY <2>1, <1>1 DEF Alike
  <2>4. p[i] \in Frame /\ fs[i] \in Frame /\ p[i].missing = fs[i].missing
    BY <2>1, <2>2, <1>1
  <2>5. p[i] = fs[i]
    BY <2>3, <2>4, SameFrame
  <2> QED  BY <2>1, <2>5
<1>10. Beginning(J, fs)
  BY <1>2, <1>7, <1>9 DEF Beginning
<1>11. ASSUME WellFormed(J) PROVE WellFormed(ls)
  <2>1. CASE k = Len(ls)
    <3>1. Len(ls) <= Len(J) /\ \A i \in 1 .. Len(ls) : ls[i] = fs[i] /\ i \in 1 .. Len(J)
      BY <2>1, <1>2, <1>6, <1>8 DEF Beginning
    <3>2. Beginning(ls, J)
      BY <3>1, <1>9 DEF Beginning
    <3> QED  BY <3>2, <1>7, <1>11, WellFormedBeginning
  <2> QED  BY <2>1
<1>12. Beginning(im \o Committed(J), im \o Committed(fs))
  <2>1. Structure(J)
    BY <1>10, <1>7, StructureAlike, BeginningAlike
  <2>2. Committed(J) \in Seq(Transaction) /\ Committed(fs) \in Seq(Transaction)
    BY <2>1, <1>7, CommittedWhole
  <2>3. Beginning(Committed(J), Committed(fs))
    BY <1>7, <1>10, CommittedBeginning
  <2> QED  BY <2>2, <2>3, BeginningJoined
<1>13. Reads(im, p, lg)
  <2>1. WellFormed(J) => Beginning(im \o Committed(J), lg)
    BY <1>11, <1>12
  <2> QED  BY <2>1 DEF Reads, J
<1> QED  BY <1>4, <1>5, <1>13

(* ... and nothing that was certain is lost.                                *)
LEMMA SurvivorsCounted ==
  ASSUME NEW im \in Seq(Transaction), NEW ls \in Seq(Frame), NEW fs \in Seq(Frame),
         NEW k \in Nat, NEW p, NEW m \in Int,
         Survives(p, fs, k), Beginning(ls, fs), Counted(im, ls, m, k)
  PROVE  Counted(im, p, m, k)
<1>1. p \in Seq(Frame) /\ k <= Len(p) /\ \A i \in 1 .. Len(p) : i <= k => p[i] = fs[i]
  BY DEF Survives
<1>2. ASSUME NEW c \in Commits(ls), c <= k PROVE c \in Commits(p) /\ c <= k
  <2>1. c \in 1 .. Len(ls) /\ ls[c].kind = "Commit"
    BY CommitsAt
  <2>2. c \in 1 .. Len(p) /\ p[c] = fs[c] /\ ls[c] = fs[c]
    BY <2>1, <1>1, <1>2 DEF Beginning
  <2> QED  BY <2>1, <2>2, <1>1, <1>2 DEF Commits
<1> QED  BY <1>1, <1>2, CountedMore

-----------------------------------------------------------------------------
(* The files.                                                               *)

Rewritten(js, new) == [js EXCEPT ![Newest(js)] = new]
Without(fs, gs) == [g \in DOMAIN fs \ gs |-> fs[g]]

(* The newest generation of the files.                                      *)
LEMMA NewestIs ==
  ASSUME NEW fs, DOMAIN fs \subseteq Generation
  PROVE  /\ Newest(fs) \in 0 .. MaxGeneration
         /\ DOMAIN fs # {} => Newest(fs) \in DOMAIN fs /\ Newest(fs) \in Generation
         /\ \A g \in DOMAIN fs : g <= Newest(fs)
         /\ \A g \in DOMAIN fs : (\A h \in DOMAIN fs : h <= g) => Newest(fs) = g
<1> DEFINE T == DOMAIN fs
<1>1. MaxGeneration \in Nat /\ T \in SUBSET (0 .. MaxGeneration)
  BY StoreAssumption DEF Generation
<1>2. CASE T = {}
  BY <1>1, <1>2 DEF Newest
<1>3. CASE T # {}
  <2> DEFINE m == Max(T)
  <2>1. m \in T /\ \A g \in T : g <= m
    <3> HIDE DEF T
    <3> QED  BY <1>1, <1>3, MaxOf
  <2>2. Newest(fs) = m
    BY <1>3 DEF Newest
  <2> HIDE DEF m
  <2>3. \A g \in DOMAIN fs : (\A h \in DOMAIN fs : h <= g) => m = g
    BY <2>1, <1>1
  <2> QED  BY <2>1, <2>2, <2>3, <1>1 DEF Generation
<1> QED  BY <1>2, <1>3

(* What is read of the files.                                               *)
LEMMA FilesRead ==
  ASSUME NEW ss, NEW js, NEW k, FilesOK(ss, js, k)
  PROVE  /\ ImageOf(ss) \in Seq(Transaction) /\ ScanOf(js, ss) \in Seq(Frame)
         /\ Newest(ss) \in 0 .. MaxGeneration /\ Newest(js) \in 0 .. MaxGeneration
         /\ MaxGeneration \in Nat \ {0}
         /\ DOMAIN js # {} => Newest(js) \in DOMAIN js /\ js[Newest(js)] \in Seq(Frame)
         /\ DOMAIN js # {} /\ Newest(ss) <= Newest(js) =>
              ScanOf(js, ss) = js[Newest(js)] /\ k <= Len(ScanOf(js, ss))
         /\ Newest(js) < Newest(ss) => ScanOf(js, ss) = <<>>
<1>1. /\ DOMAIN ss \subseteq Generation /\ DOMAIN js \subseteq Generation
      /\ \A g \in DOMAIN ss : ss[g] \in Seq(Transaction)
      /\ \A g \in DOMAIN js : js[g] \in Seq(Frame)
      /\ k \in Nat /\ (DOMAIN js # {} => k <= Len(js[Newest(js)]))
  BY DEF FilesOK
<1>2. /\ Newest(ss) \in 0 .. MaxGeneration /\ Newest(js) \in 0 .. MaxGeneration
      /\ DOMAIN ss # {} => Newest(ss) \in DOMAIN ss
      /\ DOMAIN js # {} => Newest(js) \in DOMAIN js
  BY <1>1, NewestIs
<1>3. MaxGeneration \in Nat \ {0}
  BY StoreAssumption
<1>4. ImageOf(ss) \in Seq(Transaction)
  <2>1. <<>> \in Seq(Transaction)
    OBVIOUS
  <2> QED  BY <2>1, <1>1, <1>2 DEF ImageOf
<1>5. ScanOf(js, ss) \in Seq(Frame)
  BY <1>1, <1>2 DEF ScanOf
<1>6. DOMAIN js # {} /\ Newest(ss) <= Newest(js) =>
        ScanOf(js, ss) = js[Newest(js)] /\ k <= Len(ScanOf(js, ss))
  BY <1>1, <1>2 DEF ScanOf
<1>7. Newest(js) < Newest(ss) => ScanOf(js, ss) = <<>>
  BY <1>2, <1>3 DEF ScanOf
<1> QED  BY <1>1, <1>2, <1>3, <1>4, <1>5, <1>6, <1>7

(* The newest journal is written to, or cut.                                *)
LEMMA FilesRewritten ==
  ASSUME NEW ss, NEW js, NEW k, FilesOK(ss, js, k), DOMAIN js # {},
         NEW new \in Seq(Frame), NEW m \in Nat, m <= Len(new)
  PROVE  /\ FilesOK(ss, Rewritten(js, new), m)
         /\ DOMAIN Rewritten(js, new) = DOMAIN js
         /\ Newest(Rewritten(js, new)) = Newest(js)
         /\ Rewritten(js, new)[Newest(js)] = new
         /\ Newest(ss) <= Newest(js) => ScanOf(Rewritten(js, new), ss) = new
         /\ Newest(js) < Newest(ss) => ScanOf(Rewritten(js, new), ss) = <<>>
<1> DEFINE r == Rewritten(js, new)
<1>1. /\ DOMAIN ss \subseteq Generation /\ DOMAIN js \subseteq Generation
      /\ \A g \in DOMAIN ss : ss[g] \in Seq(Transaction)
      /\ \A g \in DOMAIN js : js[g] \in Seq(Frame)
  BY DEF FilesOK
<1>2. Newest(js) \in DOMAIN js
  BY <1>1, NewestIs
<1>3. /\ DOMAIN r = DOMAIN js /\ r[Newest(js)] = new
      /\ \A g \in DOMAIN js : g # Newest(js) => r[g] = js[g]
  BY <1>2 DEF Rewritten
<1>4. Newest(r) = Newest(js)
  BY <1>3 DEF Newest
<1> HIDE DEF r
<1>5. FilesOK(ss, r, m)
  BY <1>1, <1>3, <1>4 DEF FilesOK
<1>6. /\ Newest(ss) <= Newest(js) => ScanOf(r, ss) = new
      /\ Newest(js) < Newest(ss) => ScanOf(r, ss) = <<>>
  BY <1>3, <1>4, <1>5, FilesRead
<1> QED  BY <1>3, <1>4, <1>5, <1>6 DEF r

(* The files with one created or replaced.                                  *)
LEMMA WithIs ==
  ASSUME NEW fs, DOMAIN fs \subseteq Generation, NEW g \in Generation, NEW new
  PROVE  /\ DOMAIN With(fs, g, new) = DOMAIN fs \cup {g} /\ With(fs, g, new)[g] = new
         /\ DOMAIN With(fs, g, new) \subseteq Generation
         /\ \A h \in DOMAIN fs : h # g => With(fs, g, new)[h] = fs[h]
         /\ Newest(fs) <= g => Newest(With(fs, g, new)) = g
<1> DEFINE w == With(fs, g, new)
<1>1. /\ DOMAIN w = DOMAIN fs \cup {g} /\ w[g] = new
      /\ \A h \in DOMAIN fs : h # g => w[h] = fs[h]
  BY DEF With
<1>2. DOMAIN w \subseteq Generation
  BY <1>1
<1> HIDE DEF w
<1>3. ASSUME Newest(fs) <= g PROVE Newest(w) = g
  <2>1. \A h \in DOMAIN fs : h <= Newest(fs)
    BY NewestIs
  <2>2. Newest(fs) \in Nat /\ \A h \in Generation : h \in Nat
    <3>1. Newest(fs) \in 0 .. MaxGeneration
      BY NewestIs
    <3> QED  BY <3>1, StoreAssumption DEF Generation
  <2>3. \A h \in DOMAIN w : h <= g
    BY <2>1, <2>2, <1>1, <1>2, <1>3
  <2> QED  BY <2>3, <1>1, <1>2, NewestIs
<1> QED  BY <1>1, <1>2, <1>3 DEF w

(* A journal of a generation as new as any is created or replaced.          *)
LEMMA JournalAdded ==
  ASSUME NEW ss, NEW js, NEW k, FilesOK(ss, js, k), NEW g \in Generation,
         Newest(js) <= g, NEW new \in Seq(Frame), NEW m \in Nat, m <= Len(new)
  PROVE  /\ FilesOK(ss, With(js, g, new), m)
         /\ DOMAIN With(js, g, new) # {} /\ Newest(With(js, g, new)) = g
         /\ With(js, g, new)[g] = new
         /\ Newest(ss) <= g => ScanOf(With(js, g, new), ss) = new
<1> DEFINE w == With(js, g, new)
<1>1. /\ DOMAIN ss \subseteq Generation /\ DOMAIN js \subseteq Generation
      /\ \A h \in DOMAIN ss : ss[h] \in Seq(Transaction)
      /\ \A h \in DOMAIN js : js[h] \in Seq(Frame)
  BY DEF FilesOK
<1>2. /\ DOMAIN w = DOMAIN js \cup {g} /\ w[g] = new
      /\ DOMAIN w \subseteq Generation
      /\ \A h \in DOMAIN js : h # g => w[h] = js[h]
      /\ Newest(w) = g
  <2>1. DOMAIN js \subseteq Generation
    BY <1>1
  <2>2. /\ DOMAIN With(js, g, new) = DOMAIN js \cup {g} /\ With(js, g, new)[g] = new
        /\ DOMAIN With(js, g, new) \subseteq Generation
        /\ \A h \in DOMAIN js : h # g => With(js, g, new)[h] = js[h]
        /\ Newest(js) <= g => Newest(With(js, g, new)) = g
    BY <2>1, WithIs
  <2> QED  BY <2>2
<1> HIDE DEF w
<1>3. \A h \in DOMAIN w : w[h] \in Seq(Frame)
  BY <1>1, <1>2
<1>4. FilesOK(ss, w, m)
  BY <1>1, <1>2, <1>3 DEF FilesOK
<1>5. Newest(ss) <= g => ScanOf(w, ss) = new
  BY <1>2, <1>4, FilesRead
<1>6. DOMAIN w # {}
  BY <1>2
<1> QED  BY <1>2, <1>4, <1>5, <1>6 DEF w

(* A snapshot of a generation as new as any is renamed into place.          *)
LEMMA SnapshotAdded ==
  ASSUME NEW ss, NEW js, NEW k, FilesOK(ss, js, k), NEW g \in Generation,
         Newest(ss) <= g, NEW new \in Seq(Transaction)
  PROVE  /\ FilesOK(With(ss, g, new), js, k)
         /\ DOMAIN With(ss, g, new) # {} /\ Newest(With(ss, g, new)) = g
         /\ ImageOf(With(ss, g, new)) = new
<1> DEFINE w == With(ss, g, new)
<1>1. /\ DOMAIN ss \subseteq Generation /\ DOMAIN js \subseteq Generation
      /\ \A h \in DOMAIN ss : ss[h] \in Seq(Transaction)
      /\ \A h \in DOMAIN js : js[h] \in Seq(Frame)
      /\ k \in Nat /\ (DOMAIN js # {} => k <= Len(js[Newest(js)]))
  BY DEF FilesOK
<1>2. /\ DOMAIN w = DOMAIN ss \cup {g} /\ w[g] = new
      /\ DOMAIN w \subseteq Generation
      /\ \A h \in DOMAIN ss : h # g => w[h] = ss[h]
      /\ Newest(w) = g
  <2>1. DOMAIN ss \subseteq Generation
    BY <1>1
  <2>2. /\ DOMAIN With(ss, g, new) = DOMAIN ss \cup {g} /\ With(ss, g, new)[g] = new
        /\ DOMAIN With(ss, g, new) \subseteq Generation
        /\ \A h \in DOMAIN ss : h # g => With(ss, g, new)[h] = ss[h]
        /\ Newest(ss) <= g => Newest(With(ss, g, new)) = g
    BY <2>1, WithIs
  <2> QED  BY <2>2
<1> HIDE DEF w
<1>3. \A h \in DOMAIN w : w[h] \in Seq(Transaction)
  BY <1>1, <1>2
<1>4. FilesOK(w, js, k)
  BY <1>1, <1>2, <1>3 DEF FilesOK
<1>5. ImageOf(w) = new
  BY <1>2 DEF ImageOf
<1>6. DOMAIN w # {}
  BY <1>2
<1> QED  BY <1>2, <1>4, <1>5, <1>6 DEF w

(* Old files are removed, the newest one is kept.                           *)
LEMMA WithoutIs ==
  ASSUME NEW fs, DOMAIN fs \subseteq Generation, DOMAIN fs # {}, NEW gs, Newest(fs) \notin gs
  PROVE  /\ DOMAIN Without(fs, gs) \subseteq DOMAIN fs /\ DOMAIN Without(fs, gs) # {}
         /\ \A g \in DOMAIN Without(fs, gs) : Without(fs, gs)[g] = fs[g]
         /\ Newest(Without(fs, gs)) = Newest(fs) /\ Newest(fs) \in DOMAIN Without(fs, gs)
<1> DEFINE w == Without(fs, gs)
<1>1. DOMAIN w = DOMAIN fs \ gs /\ \A g \in DOMAIN w : w[g] = fs[g]
  BY DEF Without
<1>2. Newest(fs) \in DOMAIN fs /\ \A g \in DOMAIN fs : g <= Newest(fs)
  BY NewestIs
<1> HIDE DEF w
<1>3. Newest(fs) \in DOMAIN w /\ DOMAIN w \subseteq Generation /\ \A g \in DOMAIN w : g <= Newest(fs)
  BY <1>1, <1>2
<1>4. Newest(w) = Newest(fs)
  BY <1>3, NewestIs
<1> QED  BY <1>1, <1>3, <1>4 DEF w

(* What may be removed of the files.                                        *)
Removable(ss, js, k, gs, hs) ==
  /\ FilesOK(ss, js, k) /\ DOMAIN ss # {} /\ DOMAIN js # {}
  /\ Newest(ss) \notin gs /\ Newest(js) \notin hs

(* What is read does not depend on the old files.                           *)
LEMMA FilesExpired ==
  ASSUME NEW ss, NEW js, NEW k, NEW gs, NEW hs, Removable(ss, js, k, gs, hs)
  PROVE  /\ FilesOK(Without(ss, gs), Without(js, hs), k)
         /\ ImageOf(Without(ss, gs)) = ImageOf(ss)
         /\ DOMAIN Without(js, hs) # {} /\ Newest(Without(js, hs)) = Newest(js)
         /\ Newest(Without(ss, gs)) = Newest(ss)
         /\ Without(js, hs)[Newest(js)] = js[Newest(js)]
<1> DEFINE s == Without(ss, gs)
           j == Without(js, hs)
<1>1. /\ DOMAIN ss \subseteq Generation /\ DOMAIN js \subseteq Generation
      /\ \A h \in DOMAIN ss : ss[h] \in Seq(Transaction)
      /\ \A h \in DOMAIN js : js[h] \in Seq(Frame)
      /\ k \in Nat /\ (DOMAIN js # {} => k <= Len(js[Newest(js)]))
  BY DEF FilesOK, Removable
<1>2. /\ DOMAIN s \subseteq DOMAIN ss /\ DOMAIN s # {}
      /\ \A g \in DOMAIN s : s[g] = ss[g]
      /\ Newest(s) = Newest(ss) /\ Newest(ss) \in DOMAIN s
  BY <1>1, WithoutIs DEF Removable
<1>3. /\ DOMAIN j \subseteq DOMAIN js /\ DOMAIN j # {}
      /\ \A g \in DOMAIN j : j[g] = js[g]
      /\ Newest(j) = Newest(js) /\ Newest(js) \in DOMAIN j
  BY <1>1, WithoutIs DEF Removable
<1> HIDE DEF s, j
<1>4. FilesOK(s, j, k)
  BY <1>1, <1>2, <1>3 DEF FilesOK
<1>5. ImageOf(s) = ImageOf(ss)
  BY <1>2 DEF ImageOf
<1>6. j[Newest(js)] = js[Newest(js)]
  BY <1>3
<1> QED  BY <1>2, <1>3, <1>4, <1>5, <1>6 DEF s, j

-----------------------------------------------------------------------------
(* The invariant holds: the first state, then each action.                  *)

(* What is read, in terms of the files.                                     *)
LEMMA ReadNow ==
  /\ Scanned = ScanOf(journals, snapshots)
  /\ JournalScanned <=> (DOMAIN journals # {} /\ Newest(journals) >= Newest(snapshots))
  /\ Recovered = Image \o Committed(Intact(Scanned))
  BY DEF Scanned, JournalScanned, ScanOf, Recovered, Image, ImageOf

(* What is read after a step.                                               *)
LEMMA ReadNext ==
  Scanned' = ScanOf(journals', snapshots') /\ Image' = ImageOf(snapshots')
  BY DEF Scanned, JournalScanned, ScanOf, Image

(* A type-correct state.                                                    *)
LEMMA FilesNow ==
  ASSUME Types
  PROVE  /\ FilesOK(snapshots, journals, synced)
         /\ Image \in Seq(Transaction) /\ Scanned \in Seq(Frame)
         /\ Newest(snapshots) \in 0 .. MaxGeneration /\ Newest(journals) \in 0 .. MaxGeneration
         /\ MaxGeneration \in Nat \ {0} /\ synced \in Nat
         /\ log \in Seq(Transaction) /\ stable \in Nat /\ begun \in Nat
<1>1. FilesOK(snapshots, journals, synced)
  BY DEF Types
<1>2. /\ ImageOf(snapshots) \in Seq(Transaction) /\ ScanOf(journals, snapshots) \in Seq(Frame)
      /\ Newest(snapshots) \in 0 .. MaxGeneration /\ Newest(journals) \in 0 .. MaxGeneration
      /\ MaxGeneration \in Nat \ {0}
  BY <1>1, FilesRead
<1>3. log \in Seq(Transaction) /\ stable \in Nat /\ begun \in Nat
  BY DEF Types
<1>4. synced \in Nat
  BY <1>1 DEF FilesOK
<1> QED  BY <1>1, <1>2, <1>3, <1>4, ReadNow DEF Image

(* A journal that is open is the one that is read.                          *)
LEMMA OpenJournal ==
  ASSUME Types, HandleOK, journal_
  PROVE  /\ DOMAIN journals # {} /\ Newest(snapshots) <= Newest(journals)
         /\ journal_generation_ = Newest(journals) /\ Journal = Scanned
         /\ journals[Newest(journals)] = Scanned /\ synced <= Len(Scanned)
<1>1. /\ DOMAIN journals # {} /\ Newest(snapshots) <= Newest(journals)
      /\ journal_generation_ = Newest(journals)
  BY DEF HandleOK
<1>2. FilesOK(snapshots, journals, synced)
  BY DEF Types
<1>3. ScanOf(journals, snapshots) = journals[Newest(journals)] /\ synced <= Len(ScanOf(journals, snapshots))
  BY <1>1, <1>2, FilesRead
<1> QED  BY <1>1, <1>3, ReadNow DEF Journal

(* Between a snapshot and its journal, the image is all there is to read.   *)
LEMMA ClosedJournal ==
  ASSUME Types, HandleOK, Up, ~journal_
  PROVE  /\ ~faulty /\ journal_generation_ + 1 \in Generation
         /\ DOMAIN snapshots # {} /\ DOMAIN journals # {}
         /\ Newest(snapshots) = journal_generation_ + 1 /\ Image = log
         /\ Scanned = <<>> /\ pending = <<>>
         /\ Newest(journals) <= Newest(snapshots)
         /\ \/ Newest(journals) < Newest(snapshots)
            \/ /\ Newest(journals) = Newest(snapshots)
               /\ journals[Newest(journals)] = <<>>
<1>1. Between /\ (pc # "writing" => pending = <<>>) /\ pc # "writing"
  BY DEF HandleOK
<1>2. FilesOK(snapshots, journals, synced) /\ journal_generation_ \in Nat
  BY DEF Types
<1>3. \/ Newest(journals) < Newest(snapshots)
      \/ Newest(journals) = Newest(snapshots) /\ journals[Newest(journals)] = <<>>
  BY <1>1, <1>2 DEF Between
<1>4. Newest(snapshots) \in Nat /\ Newest(journals) \in Nat
  BY FilesNow
<1>5. Scanned = <<>>
  <2>1. CASE Newest(journals) < Newest(snapshots)
    BY <2>1, <1>2, FilesRead, ReadNow
  <2>2. CASE Newest(journals) = Newest(snapshots) /\ journals[Newest(journals)] = <<>>
    <3>1. DOMAIN journals # {} /\ Newest(snapshots) <= Newest(journals)
      BY <2>2, <1>1, <1>4 DEF Between
    <3>2. ScanOf(journals, snapshots) = journals[Newest(journals)]
      BY <3>1, <1>2, FilesRead
    <3> QED  BY <3>2, <2>2, ReadNow
  <2> QED  BY <2>1, <2>2, <1>3
<1> QED  BY <1>1, <1>3, <1>4, <1>5 DEF Between

(* There are no files yet.                                                  *)
LEMMA InitInv ==
  ASSUME Init
  PROVE  Inv
<1>1. pc = "closed" /\ snapshots = <<>> /\ journals = <<>> /\ synced = 0 /\ journal_ = FALSE
      /\ next_sequence_ = 1 /\ journal_generation_ = 0 /\ log = <<>> /\ pending = <<>>
      /\ stable = 0 /\ begun = 0 /\ faulty = FALSE
  BY DEF Init
<1>2. DOMAIN snapshots = {} /\ DOMAIN journals = {}
  BY <1>1
<1>3. FilesOK(snapshots, journals, synced)
  BY <1>1, <1>2 DEF FilesOK
<1>4. <<>> \in Seq(Transaction) /\ Len(<<>>) = 0
  OBVIOUS
<1>5. Types
  <2>1. /\ stable \in 0 .. Len(log) /\ begun \in 0 .. MaxTransactions
        /\ next_sequence_ \in Nat \ {0} /\ journal_generation_ \in Nat
    BY <1>1, <1>4, StoreAssumption
  <2>2. log \in Seq(Transaction)
    BY <1>1, <1>4
  <2> QED  BY <2>1, <2>2, <1>1, <1>3 DEF Types
<1>6. Image = <<>> /\ Scanned = <<>>
  BY <1>2 DEF Image, ImageOf, Scanned, JournalScanned
<1>7. HandleOK
  BY <1>1 DEF HandleOK, Up
<1>8. OrderOK
  <2>1. Structure(<<>>) /\ Commits(<<>>) = {} /\ InOrder(<<>>)
    BY <1>4, EmptyJournal DEF InOrder
  <2> QED  BY <2>1, <1>1, <1>4, <1>6 DEF OrderOK, Ordered
<1>9. CountsOK
  <2>1. Counted(<<>>, <<>>, 0, 0)
    <3>1. 0 <= Len(<<>>)
      BY <1>4
    <3> QED  BY <3>1, <1>4, CountedNone
  <2> QED  BY <2>1, <1>1, <1>6 DEF CountsOK
<1>10. SoundOK
  <2>1. TornBehind(<<>>, 0) /\ Increasing(<<>>)
    BY <1>4, EmptyJournal DEF TornBehind
  <2>2. <<>> \o <<>> = <<>> /\ Beginning(<<>>, <<>>)
    BY <1>4, NothingPending DEF Beginning
  <2>3. Reads(<<>>, <<>>, <<>> \o <<>>)
    BY <1>4, <2>2, ImageRead
  <2> QED  BY <2>1, <2>3, <1>1, <1>6 DEF SoundOK
<1> QED  BY <1>5, <1>7, <1>8, <1>9, <1>10 DEF Inv

(* Store::open.                                                             *)
LEMMA OpenInv ==
  ASSUME Inv, Open
  PROVE  Inv'
<1> DEFINE J == Intact(Scanned)
           g == IF JournalScanned THEN Newest(journals) ELSE Max({1, Newest(snapshots)})
           n == Len(Recovered)
<1>1. Types /\ HandleOK /\ OrderOK /\ CountsOK
  BY DEF Inv
<1>2. /\ pc = "closed" /\ Readable
      /\ journals' = With(journals, g, J)
      /\ synced' = IF JournalScanned THEN Min({synced, Len(J)}) ELSE 0
      /\ journal_' = TRUE /\ journal_bytes_' = Bytes(J)
      /\ next_sequence_' = LastSequence(J) + 1
      /\ journal_generation_' = g
      /\ log' = Recovered /\ pending' = <<>>
      /\ stable' = Min({stable, n}) /\ faulty' = FALSE
      /\ pc' = "idle" /\ snapshots' = snapshots /\ begun' = begun
  BY DEF Open
<1>3. /\ FilesOK(snapshots, journals, synced)
      /\ Image \in Seq(Transaction) /\ Scanned \in Seq(Frame)
      /\ Newest(snapshots) \in 0 .. MaxGeneration /\ Newest(journals) \in 0 .. MaxGeneration
      /\ MaxGeneration \in Nat \ {0} /\ synced \in Nat
      /\ log \in Seq(Transaction) /\ stable \in Nat /\ begun \in Nat
  BY <1>1, FilesNow
<1>4. ~ScanCorrupt(Scanned) /\ WellFormed(J)
  BY <1>2 DEF Readable
<1>5. J \in Seq(Frame) /\ Whole(J) /\ Beginning(J, Scanned) /\ Len(J) \in Nat
  BY <1>3, <1>4, IntactWhole
<1>6. g \in Generation /\ Newest(journals) <= g /\ Newest(snapshots) <= g
  <2>1. CASE JournalScanned
    <3>1. DOMAIN journals # {} /\ Newest(journals) >= Newest(snapshots) /\ DOMAIN journals \subseteq Generation
      BY <2>1, <1>3, ReadNow DEF FilesOK
    <3>2. Newest(journals) \in Generation
      BY <3>1, NewestIs
    <3> QED  BY <2>1, <3>1, <3>2, <1>3
  <2>2. CASE ~JournalScanned
    <3> DEFINE T == {1, Newest(snapshots)}
    <3>1. T \in SUBSET (0 .. MaxGeneration) /\ T # {} /\ MaxGeneration \in Nat
      BY <1>3
    <3>2. Max(T) \in T /\ \A h \in T : h <= Max(T)
      <4> HIDE DEF T
      <4> QED  BY <3>1, MaxOf
    <3>3. g = Max(T)
      BY <2>2
    <3>4. 1 <= Max(T) /\ Newest(snapshots) <= Max(T) /\ Max(T) \in 0 .. MaxGeneration
      BY <3>1, <3>2
    <3>5. Newest(journals) <= Newest(snapshots)
      <4>1. CASE DOMAIN journals = {}
        BY <4>1, <1>3 DEF Newest
      <4>2. CASE ~(Newest(journals) >= Newest(snapshots))
        BY <4>2, <1>3
      <4> QED  BY <4>1, <4>2, <2>2, ReadNow
    <3> HIDE DEF T
    <3> QED  BY <3>3, <3>4, <3>5, <1>3 DEF Generation
  <2> QED  BY <2>1, <2>2
<1>7. synced' \in Nat /\ (synced' = Len(J) \/ (synced' = synced /\ synced <= Len(J)))
  <2>1. CASE JournalScanned
    <3> DEFINE T == {synced, Len(J)}
    <3>1. T \in SUBSET Nat /\ T # {}
      BY <1>3, <1>5
    <3>2. Min(T) \in T /\ \A h \in T : Min(T) <= h
      <4> HIDE DEF T
      <4> QED  BY <3>1, MinOf
    <3>3. synced' = Min(T)
      BY <2>1, <1>2
    <3> HIDE DEF J
    <3>4. Min(T) \in Nat /\ Min(T) <= Len(J) /\ (Min(T) = synced \/ Min(T) = Len(J))
      BY <3>1, <3>2
    <3> QED  BY <3>3, <3>4
  <2>2. CASE ~JournalScanned
    <3>1. J = <<>> /\ Len(<<>>) = 0
      BY <2>2, EmptyJournal DEF Scanned
    <3> QED  BY <3>1, <2>2, <1>2
  <2> QED  BY <2>1, <2>2
<1>8. stable' \in Nat /\ stable' <= stable /\ stable' <= n /\ n \in Nat
      /\ n = Len(Image) + Cardinality(Commits(J)) /\ Recovered = Image \o Committed(J)
      /\ Recovered \in Seq(Transaction)
      /\ Ordered(Image, Recovered, J, begun)
  <2>1. Ordered(Image, log, Scanned, begun)
    BY <1>1, <1>2 DEF OrderOK
  <2>2. Ordered(Image, log, J, begun)
    BY <2>1, <1>3, <1>5, OrderedAlike, BeginningAlike
  <2>3. Recovered = Image \o Committed(J)
    BY ReadNow
  <2> HIDE DEF J
  <2>4. /\ Recovered \in Seq(Transaction)
        /\ n = Len(Image) + Cardinality(Commits(J))
        /\ Len(Image) \in Nat /\ Cardinality(Commits(J)) \in Nat
        /\ InOrder(Recovered)
        /\ \A i \in 1 .. Len(Recovered) : Recovered[i][1].txn <= begun
    BY <2>2, <2>3, <1>3, <1>5, ReadInOrder
  <2>5. Ordered(Image, Recovered, J, begun)
    BY <2>2, <2>4 DEF Ordered
  <2> DEFINE T == {stable, n}
  <2>6. T \in SUBSET Nat /\ T # {}
    BY <2>4, <1>3
  <2>7. Min(T) \in T /\ \A h \in T : Min(T) <= h
    <3> HIDE DEF T
    <3> QED  BY <2>6, MinOf
  <2>8. stable' = Min(T)
    BY <1>2
  <2> HIDE DEF n
  <2>9. Min(T) \in Nat /\ Min(T) <= stable /\ Min(T) <= n
    BY <2>6, <2>7
  <2>10. n \in Nat
    BY <2>6
  <2> QED  BY <2>3, <2>4, <2>5, <2>8, <2>9, <2>10
<1> HIDE DEF J, g, n
<1>9. /\ FilesOK(snapshots, journals', synced')
      /\ DOMAIN journals' # {} /\ Newest(journals') = g
      /\ ScanOf(journals', snapshots) = J
  <2>1. synced' <= Len(J)
    BY <1>5, <1>7
  <2> QED  BY <2>1, <1>2, <1>3, <1>5, <1>6, <1>7, JournalAdded
<1>10. Image' = Image /\ Scanned' = J
  BY <1>2, <1>9, ReadNext DEF Image
<1>11. g \in Nat /\ LastSequence(J) + 1 \in Nat \ {0}
  BY <1>5, <1>6, LastSequenceIs DEF Generation
<1>12. Types'
  <2>1. stable' \in 0 .. n /\ n = Len(log')
    BY <1>2, <1>8 DEF n
  <2>2. log' \in Seq(Transaction)
    BY <1>2, <1>8
  <2>3. begun' \in 0 .. MaxTransactions
    BY <1>1, <1>2 DEF Types
  <2> QED  BY <2>1, <2>2, <2>3, <1>2, <1>9, <1>11 DEF Types
<1>13. HandleOK'
  BY <1>2, <1>6, <1>9 DEF HandleOK, Up
<1>14. OrderOK'
  BY <1>2, <1>8, <1>10 DEF OrderOK
<1>15. CountsOK'
  <2>1. Counted(Image, J, n, Len(J))
    BY <1>5, <1>8, CountedAll
  <2>2. CASE synced' = Len(J)
    <3>1. Counted(Image, J, stable', Len(J))
      BY <1>5, <1>8, CountedAll
    <3> QED  BY <2>1, <2>2, <3>1, <1>2, <1>10 DEF CountsOK, n
  <2>3. CASE synced' = synced /\ synced <= Len(J)
    <3>1. Counted(Image, Scanned, stable, synced)
      BY <1>1 DEF CountsOK
    <3>2. ASSUME NEW c \in Commits(Scanned), c <= synced PROVE c \in Commits(J) /\ c <= synced
      <4>1. c \in 1 .. Len(Scanned) /\ Scanned[c].kind = "Commit"
        BY <1>3, CommitsAt
      <4>2. c \in 1 .. Len(J)
        BY <4>1, <3>2, <2>3, <1>3, <1>5
      <4> QED  BY <4>1, <4>2, <3>2, <1>5 DEF Commits, Beginning
    <3>3. Counted(Image, J, stable, synced)
      <4>1. stable \in Int
        BY <1>3
      <4> QED  BY <4>1, <3>1, <3>2, <1>3, <1>5, CountedMore
    <3>4. Counted(Image, J, stable', synced)
      <4> DEFINE C == Cardinality({c \in Commits(J) : c <= synced})
      <4>1. stable <= Len(Image) + C
        BY <3>3 DEF Counted
      <4>2. IsFiniteSet({c \in Commits(J) : c <= synced})
        <5>1. IsFiniteSet(Commits(J)) /\ {c \in Commits(J) : c <= synced} \subseteq Commits(J)
          BY <1>5, CommitsType
        <5> QED  BY <5>1, FS_Subset
      <4>3. C \in Nat
        BY <4>2, FS_CardinalityType
      <4> HIDE DEF C
      <4>4. stable' <= Len(Image) + C
        BY <4>1, <4>3, <1>3, <1>8
      <4> QED  BY <4>4 DEF Counted, C
    <3> QED  BY <2>1, <2>3, <3>4, <1>2, <1>10 DEF CountsOK, n
  <2> QED  BY <2>2, <2>3, <1>7
<1>16. SoundOK'
  <2>1. TornBehind(J, synced')
    BY <1>5 DEF TornBehind, Whole
  <2>2. Increasing(J)
    BY <1>4, <1>5 DEF WellFormed, Increasing, J
  <2>3. Current(Image, J, Recovered, synced')
    BY <1>4, <1>8 DEF Current, J
  <2>4. Reads(Image, J, Recovered \o <<>>)
    BY <2>3, <1>3, <1>5, <1>8, CurrentReads
  <2> QED  BY <2>1, <2>2, <2>3, <2>4, <1>2, <1>5, <1>10 DEF SoundOK
<1> QED  BY <1>12, <1>13, <1>14, <1>15, <1>16 DEF Inv

(* A step that leaves the files and the coordinator's memory alone.         *)
LEMMA FilesKept ==
  ASSUME snapshots' = snapshots, journals' = journals
  PROVE  Image' = Image /\ Scanned' = Scanned
  BY ReadNow, ReadNext DEF Image

(* Only pc moves, or the handle is dropped.                                 *)
LEMMA KeptInv ==
  ASSUME Inv, UNCHANGED <<files, memory, journal_bytes_, next_sequence_, journal_generation_>>,
         journal_' = journal_ \/ journal_' = FALSE,
         pc # "writing", pc' # "writing",
         pc' \in {"closed", "idle", "writing", "applied", "snapshotted", "created", "refused"}
  PROVE  Types' /\ OrderOK' /\ CountsOK' /\ SoundOK' /\ Image' = Image
<1>1. /\ snapshots' = snapshots /\ journals' = journals /\ synced' = synced
      /\ log' = log /\ pending' = pending /\ stable' = stable /\ begun' = begun
      /\ faulty' = faulty /\ journal_bytes_' = journal_bytes_
      /\ next_sequence_' = next_sequence_ /\ journal_generation_' = journal_generation_
  BY DEF files, memory
<1>2. Types /\ OrderOK /\ CountsOK /\ SoundOK
  BY DEF Inv
<1>3. Image' = Image /\ Scanned' = Scanned
  BY <1>1, FilesKept
<1>4. journal_' \in BOOLEAN /\ (journal_' => journal_)
  <2>1. journal_ \in BOOLEAN
    BY <1>2 DEF Types
  <2>2. CASE journal_' = journal_
    BY <2>1, <2>2
  <2>3. CASE journal_' = FALSE
    BY <2>3
  <2> QED  BY <2>2, <2>3
<1>5. Types'
  BY <1>1, <1>2, <1>4 DEF Types
<1>6. OrderOK'
  BY <1>1, <1>2, <1>3 DEF OrderOK
<1>7. CountsOK'
  BY <1>1, <1>2, <1>3, <1>4 DEF CountsOK
<1>8. SoundOK'
  BY <1>1, <1>2, <1>3, <1>4 DEF SoundOK
<1> QED  BY <1>3, <1>5, <1>6, <1>7, <1>8

(* Store::open refuses.                                                     *)
LEMMA OpenRefusedInv ==
  ASSUME Inv, OpenRefused
  PROVE  Inv'
<1>1. /\ pc = "closed" /\ pc' = "refused" /\ journal_' = journal_
      /\ UNCHANGED <<files, memory, journal_bytes_, next_sequence_, journal_generation_>>
  BY DEF OpenRefused, handle, memory, files
<1>2. Types' /\ OrderOK' /\ CountsOK' /\ SoundOK'
  BY <1>1, KeptInv
<1>3. HandleOK'
  BY <1>1 DEF HandleOK, Up, Inv
<1> QED  BY <1>2, <1>3 DEF Inv

(* Store::close.                                                            *)
LEMMA CloseInv ==
  ASSUME Inv, Close
  PROVE  Inv'
<1>1. /\ pc = "idle" /\ pc' = "closed" /\ journal_' = FALSE
      /\ UNCHANGED <<files, memory, journal_bytes_, next_sequence_, journal_generation_>>
  BY DEF Close, memory, files
<1>2. Types' /\ OrderOK' /\ CountsOK' /\ SoundOK'
  BY <1>1, KeptInv
<1>3. HandleOK'
  BY <1>1 DEF HandleOK, Up
<1> QED  BY <1>2, <1>3 DEF Inv

(* Nothing is compacted, or nothing came of it.                             *)
LEMMA RotateInv ==
  ASSUME Inv, RotateNotDue \/ CompactSnapshotFails
  PROVE  Inv'
<1>1. /\ pc = "applied" /\ pc' = "idle" /\ journal_' = journal_
      /\ UNCHANGED <<files, memory, journal_bytes_, next_sequence_, journal_generation_>>
  BY DEF RotateNotDue, CompactSnapshotFails, handle, memory, files
<1>2. Types' /\ OrderOK' /\ CountsOK' /\ SoundOK'
  BY <1>1, KeptInv
<1>3. /\ journals' = journals /\ snapshots' = snapshots /\ pending' = pending
      /\ journal_generation_' = journal_generation_
  BY <1>1 DEF files, memory
<1>4. HandleOK /\ journal_
  BY <1>1 DEF Inv, HandleOK
<1>5. HandleOK'
  BY <1>1, <1>3, <1>4 DEF HandleOK, Up
<1> QED  BY <1>2, <1>5 DEF Inv

(* The journal of the new generation is not there, or not open.             *)
LEMMA CompactJournalFailsInv ==
  ASSUME Inv, CompactJournalFails
  PROVE  Inv'
<1>1. /\ pc \in {"snapshotted", "created"} /\ pc' = "idle" /\ journal_' = journal_
      /\ UNCHANGED <<files, memory, journal_bytes_, next_sequence_, journal_generation_>>
  BY DEF CompactJournalFails, handle, memory, files
<1>2. Types' /\ OrderOK' /\ CountsOK' /\ SoundOK' /\ Image' = Image
  BY <1>1, KeptInv
<1>3. /\ journals' = journals /\ snapshots' = snapshots /\ pending' = pending
      /\ journal_generation_' = journal_generation_ /\ log' = log /\ faulty' = faulty
  BY <1>1 DEF files, memory
<1>4. ~journal_ /\ Between /\ pending = <<>>
  BY <1>1 DEF Inv, HandleOK, Up
<1>5. Between'
  BY <1>2, <1>3, <1>4 DEF Between
<1>6. HandleOK'
  BY <1>1, <1>3, <1>4, <1>5 DEF HandleOK, Up
<1> QED  BY <1>2, <1>6 DEF Inv

(* commit_transaction is entered.                                           *)
LEMMA CommitBeginInv ==
  ASSUME Inv, NEW shape \in Shapes, CommitBegin(shape)
  PROVE  Inv'
<1> DEFINE t == TransactionOf(begun + 1, shape)
<1>1. /\ pc = "idle" /\ journal_ /\ begun < MaxTransactions /\ begun' = begun + 1
      /\ pending' = <<t>> /\ pc' = "writing"
      /\ snapshots' = snapshots /\ journals' = journals /\ synced' = synced
      /\ journal_' = journal_ /\ journal_bytes_' = journal_bytes_
      /\ next_sequence_' = next_sequence_ /\ journal_generation_' = journal_generation_
      /\ log' = log /\ stable' = stable /\ faulty' = faulty
  BY DEF CommitBegin, files, handle
<1>2. Types /\ HandleOK /\ OrderOK /\ CountsOK /\ SoundOK
  BY DEF Inv
<1>3. /\ Image \in Seq(Transaction) /\ Scanned \in Seq(Frame)
      /\ log \in Seq(Transaction) /\ begun \in Nat /\ begun \in 0 .. MaxTransactions
  BY <1>2, FilesNow DEF Types
<1>4. MaxTransactions \in Nat /\ begun + 1 \in 1 .. MaxTransactions
  BY <1>1, <1>3, StoreAssumption
<1>5. t \in Transaction /\ t[1].txn = begun + 1
  <2>1. t \in Transaction
    BY <1>4 DEF Transaction
  <2>2. 1 \in DOMAIN shape
    <3>1. shape \in Seq(Nat \ {0}) /\ shape # <<>>
      BY StoreAssumption
    <3>2. Len(shape) \in Nat \ {0}
      BY <3>1, EmptySeq
    <3> QED  BY <3>1, <3>2
  <2> QED  BY <2>1, <2>2 DEF TransactionOf
<1> HIDE DEF t
<1>6. Image' = Image /\ Scanned' = Scanned
  BY <1>1, FilesKept
<1>7. Types'
  <2>1. begun' \in 0 .. MaxTransactions
    BY <1>1, <1>4
  <2>2. \E u \in Transaction : pending' = <<u>>
    BY <1>1, <1>5
  <2> QED  BY <2>1, <2>2, <1>1, <1>2 DEF Types
<1>8. HandleOK'
  <2>1. <<t>> # <<>> /\ <<t>>[1] = t
    OBVIOUS
  <2> QED  BY <2>1, <1>1, <1>2, <1>5 DEF HandleOK, Up
<1>9. OrderOK'
  <2>1. Ordered(Image, log, Scanned, begun) /\ begun' - 1 = begun
    BY <1>1, <1>2, <1>3 DEF OrderOK
  <2> QED  BY <2>1, <1>1, <1>6 DEF OrderOK
<1>10. CountsOK'
  BY <1>1, <1>2, <1>6 DEF CountsOK
<1>11. SoundOK'
  <2>1. ASSUME ~faulty PROVE Reads(Image, Scanned, log \o <<t>>)
    <3>1. pending = <<>>
      BY <1>1, <1>2 DEF HandleOK, Up
    <3>2. Reads(Image, Scanned, log)
      <4>1. Reads(Image, Scanned, log \o pending) /\ log \o <<>> = log
        BY <2>1, <1>2, <1>3, NothingPending DEF SoundOK
      <4> QED  BY <4>1, <3>1
    <3>3. ASSUME ~ScanCorrupt(Scanned), WellFormed(Intact(Scanned))
          PROVE  Beginning(Image \o Committed(Intact(Scanned)), log \o <<t>>)
      <4>1. Beginning(Image \o Committed(Intact(Scanned)), log)
        BY <3>2, <3>3 DEF Reads
      <4>2. Beginning(log, log \o <<t>>) /\ log \o <<t>> \in Seq(Transaction)
        <5>1. <<t>> \in Seq(Transaction)
          BY <1>5
        <5> QED  BY <5>1, <1>3, BeginningOffered, Joined
      <4>3. Image \o Committed(Intact(Scanned)) \in Seq(Transaction)
        <5>1. Intact(Scanned) \in Seq(Frame) /\ Beginning(Intact(Scanned), Scanned)
          BY <1>3, IntactIs
        <5>2. Ordered(Image, log, Intact(Scanned), begun)
          BY <5>1, <1>1, <1>2, <1>3, OrderedAlike, BeginningAlike DEF OrderOK
        <5> QED  BY <5>1, <5>2, <1>3, ReadInOrder
      <4> QED  BY <4>1, <4>2, <4>3, <1>3, BeginningTransitive
    <3> QED  BY <3>3 DEF Reads
  <2> QED  BY <2>1, <1>1, <1>2, <1>6 DEF SoundOK
<1> QED  BY <1>7, <1>8, <1>9, <1>10, <1>11 DEF Inv

(* A transaction is written whole.                                          *)
LEMMA GrownWhole ==
  ASSUME NEW fs \in Seq(Frame), NEW t \in Transaction, NEW s \in Nat, Whole(fs)
  PROVE  Whole(Grown(fs, t, s))
<1> DEFINE w == Grown(fs, t, s)
<1>1. /\ Len(w) = Len(fs) + Len(t) + 2 /\ Len(fs) \in Nat /\ Len(t) \in Nat
      /\ \A i \in 1 .. Len(fs) : fs[i] = w[i]
      /\ \A i \in 1 .. Len(t) + 2 : w[Len(fs) + i].missing = 0
  BY Appended, TransactionIs DEF Beginning
<1> HIDE DEF w
<1>2. ASSUME NEW i \in 1 .. Len(w) PROVE w[i].missing = 0
  <2>1. CASE i \in 1 .. Len(fs)
    BY <2>1, <1>1 DEF Whole
  <2>2. CASE i \notin 1 .. Len(fs)
    <3>1. i - Len(fs) \in 1 .. Len(t) + 2 /\ Len(fs) + (i - Len(fs)) = i
      BY <2>2, <1>1
    <3>2. w[Len(fs) + (i - Len(fs))].missing = 0
      BY <3>1, <1>1
    <3> QED  BY <3>1, <3>2
  <2> QED  BY <2>1, <2>2
<1> QED  BY <1>2 DEF Whole, w

(* While a transaction is being written.                                    *)
LEMMA Writing ==
  ASSUME Inv, pc = "writing"
  PROVE  \E t \in Transaction :
           /\ pending = <<t>> /\ t[1].txn = begun /\ begun - 1 \in Nat /\ (begun - 1) + 1 = begun
           /\ t \in Seq(Record)
           /\ Written = Grown(Scanned, t, next_sequence_) /\ next_sequence_ \in Nat
           /\ Ordered(Image, log, Scanned, begun - 1) /\ journal_
<1>1. Types /\ HandleOK /\ OrderOK
  BY DEF Inv
<1>2. journal_ /\ pending # <<>> /\ pending[1][1].txn = begun
  BY <1>1 DEF HandleOK
<1>3. PICK t \in Transaction : pending = <<t>>
  BY <1>1, <1>2 DEF Types
<1>4. pending[1] = t /\ t[1].txn = begun
  BY <1>2, <1>3
<1>5. t \in Seq(Record) /\ t[1].txn \in 1 .. MaxTransactions
  BY TransactionIs
<1>6. begun - 1 \in Nat /\ (begun - 1) + 1 = begun
  BY <1>4, <1>5, StoreAssumption
<1>7. Written = Grown(Scanned, t, next_sequence_)
  BY <1>1, <1>2, <1>4, OpenJournal DEF Written, Grown
<1>8. next_sequence_ \in Nat
  BY <1>1 DEF Types
<1>9. Ordered(Image, log, Scanned, begun - 1)
  BY <1>1 DEF OrderOK
<1> QED  BY <1>2, <1>3, <1>4, <1>5, <1>6, <1>7, <1>8, <1>9

(* commit_transaction returns Ok.                                           *)
LEMMA CommitOkInv ==
  ASSUME Inv, CommitOk
  PROVE  Inv'
<1>1. Types /\ HandleOK /\ OrderOK /\ CountsOK /\ SoundOK
  BY DEF Inv
<1>2. /\ FilesOK(snapshots, journals, synced)
      /\ Image \in Seq(Transaction) /\ Scanned \in Seq(Frame)
      /\ log \in Seq(Transaction) /\ stable \in Nat /\ begun \in Nat
  BY <1>1, FilesNow
<1>3. PICK t \in Transaction :
        /\ pending = <<t>> /\ t[1].txn = begun /\ begun - 1 \in Nat /\ (begun - 1) + 1 = begun
        /\ t \in Seq(Record)
        /\ Written = Grown(Scanned, t, next_sequence_) /\ next_sequence_ \in Nat
        /\ Ordered(Image, log, Scanned, begun - 1) /\ journal_
  BY Writing DEF CommitOk
<1> DEFINE G == Grown(Scanned, t, next_sequence_)
           L == log \o <<t>>
<1>4. /\ DOMAIN journals # {} /\ Newest(snapshots) <= Newest(journals)
      /\ journal_generation_ = Newest(journals) /\ Journal = Scanned
  BY <1>1, <1>3, OpenJournal
<1>5. /\ pc = "writing" /\ pc' = "applied"
      /\ journals' = Rewritten(journals, G)
      /\ synced' = Len(G) /\ log' = L /\ stable' = Len(L) /\ pending' = <<>>
      /\ next_sequence_' = LastSequence(G) + 1
      /\ journal_bytes_' = journal_bytes_ + Bytes(FramesOf(t, next_sequence_))
      /\ snapshots' = snapshots /\ journal_' = journal_
      /\ journal_generation_' = journal_generation_ /\ begun' = begun /\ faulty' = faulty
  <2>1. pending[1] = t
    BY <1>3
  <2> QED  BY <2>1, <1>3, <1>4 DEF CommitOk, Rewritten
<1>6. G \in Seq(Frame) /\ Len(G) \in Nat /\ Beginning(Scanned, G)
  <2>1. G \in Seq(Frame) /\ Beginning(Scanned, G)
    BY <1>2, <1>3, Appended
  <2> QED  BY <2>1
<1>7. /\ <<t>> \in Seq(Transaction) /\ Len(<<t>>) = 1
      /\ L \in Seq(Transaction) /\ Len(L) = Len(log) + 1 /\ Len(log) \in Nat
  <2>1. <<t>> \in Seq(Transaction) /\ Len(<<t>>) = 1
    BY OneInOrder
  <2>2. L \in Seq(Transaction) /\ Len(L) = Len(log) + Len(<<t>>) /\ Len(log) \in Nat
    BY <2>1, <1>2, Joined, Zenon
  <2> HIDE DEF L
  <2> QED  BY <2>1, <2>2
<1>8. Ordered(Image, L, G, begun)
  <2>1. Ordered(Image, L, G, (begun - 1) + 1)
    <3>1. t[1].txn = (begun - 1) + 1
      BY <1>3
    <3> QED  BY <3>1, <1>2, <1>3, OrderedApplied
  <2> QED  BY <2>1, <1>3
<1>9. Cardinality(Commits(G)) = Cardinality(Commits(Scanned)) + 1
      /\ Cardinality(Commits(Scanned)) \in Nat
  BY <1>2, <1>3, AppendedCommits, CommitCount
<1>10. ~faulty => /\ Whole(G) /\ Increasing(G) /\ Current(Image, G, L, Len(G))
                  /\ journal_bytes_' = Bytes(G)
  <2>1. SUFFICES ASSUME ~faulty
                 PROVE  /\ Whole(G) /\ Increasing(G) /\ Current(Image, G, L, Len(G))
                        /\ journal_bytes_' = Bytes(G)
    OBVIOUS
  <2>2. /\ Increasing(Scanned) /\ Whole(Scanned) /\ Current(Image, Scanned, log, synced)
        /\ next_sequence_ = LastSequence(Scanned) + 1
        /\ journal_bytes_ = Bytes(Scanned)
    BY <2>1, <1>1, <1>3 DEF SoundOK
  <2>3. Whole(G)
    BY <2>2, <1>2, <1>3, GrownWhole
  <2>4. Increasing(G)
    BY <2>2, <1>2, GrownIncreasing
  <2>5. Bytes(G) = Bytes(Scanned) + Bytes(FramesOf(t, next_sequence_))
    <3>1. FramesOf(t, next_sequence_) \in Seq(Frame)
      BY <1>3, FramesOfIs
    <3> QED  BY <3>1, <1>2, BytesConcat DEF Grown
  <2>6. ASSUME WellFormed(G) PROVE L = Image \o Committed(G)
    <3>1. WellFormed(Scanned)
      BY <2>6, <1>2, <1>6, WellFormedBeginning
    <3>2. Structure(Scanned)
      BY <1>3 DEF Ordered
    <3>3. /\ Image \in Seq(Transaction) /\ Scanned \in Seq(Frame) /\ log \in Seq(Transaction)
          /\ next_sequence_ \in Nat /\ Current(Image, Scanned, log, synced)
      BY <2>2, <1>2, <1>3
    <3> QED  BY <3>1, <3>2, <3>3, CurrentGrown
  <2>7. Current(Image, G, L, Len(G))
    BY <2>6 DEF Current
  <2> QED  BY <2>2, <2>3, <2>4, <2>5, <2>7, <1>5
<1> HIDE DEF G, L
<1>11. /\ FilesOK(snapshots, journals', Len(G))
       /\ DOMAIN journals' = DOMAIN journals /\ Newest(journals') = Newest(journals)
       /\ ScanOf(journals', snapshots) = G
  <2>1. /\ FilesOK(snapshots, journals, synced) /\ DOMAIN journals # {}
        /\ G \in Seq(Frame) /\ Len(G) \in Nat /\ Len(G) <= Len(G)
    BY <1>2, <1>4, <1>6
  <2>2. /\ FilesOK(snapshots, Rewritten(journals, G), Len(G))
        /\ DOMAIN Rewritten(journals, G) = DOMAIN journals
        /\ Newest(Rewritten(journals, G)) = Newest(journals)
        /\ Newest(snapshots) <= Newest(journals) =>
             ScanOf(Rewritten(journals, G), snapshots) = G
    BY <2>1, FilesRewritten
  <2> QED  BY <2>2, <1>4, <1>5
<1>12. Image' = Image /\ Scanned' = G
  BY <1>5, <1>11, ReadNext DEF Image
<1>13. Types'
  <2>1. next_sequence_' \in Nat \ {0}
    <3>1. LastSequence(G) \in Nat
      BY <1>6, LastSequenceIs
    <3> QED  BY <3>1, <1>5
  <2>2. stable' \in 0 .. Len(log')
    BY <1>5, <1>7
  <2> QED  BY <2>1, <2>2, <1>1, <1>5, <1>7, <1>11 DEF Types
<1>14. HandleOK'
  BY <1>1, <1>3, <1>4, <1>5, <1>11 DEF HandleOK, Up
<1>15. OrderOK'
  BY <1>5, <1>8, <1>12 DEF OrderOK
<1>16. CountsOK'
  <2>1. Len(log) <= Len(Image) + Cardinality(Commits(Scanned)) /\ Len(Image) \in Nat
    BY <1>1, <1>2, <1>3, CountedAll DEF CountsOK
  <2>2. Len(L) <= Len(Image) + Cardinality(Commits(G))
    BY <2>1, <1>7, <1>9
  <2>3. Counted(Image, G, Len(L), Len(G))
    BY <2>2, <1>6, CountedAll
  <2> QED  BY <2>3, <1>5, <1>12 DEF CountsOK
<1>17. SoundOK'
  <2>1. SUFFICES ASSUME ~faulty
                 PROVE  /\ TornBehind(G, Len(G)) /\ Increasing(G)
                        /\ Reads(Image, G, L \o <<>>)
                        /\ Whole(G) /\ Current(Image, G, L, Len(G))
                        /\ next_sequence_' = LastSequence(G) + 1
                        /\ journal_bytes_' = Bytes(G)
    BY <1>5, <1>12 DEF SoundOK
  <2>2. TornBehind(G, Len(G))
    BY <2>1, <1>10 DEF Whole, TornBehind
  <2>3. Reads(Image, G, L \o <<>>)
    BY <2>1, <1>2, <1>6, <1>7, <1>10, CurrentReads
  <2> QED  BY <2>1, <2>2, <2>3, <1>5, <1>10
<1> QED  BY <1>13, <1>14, <1>15, <1>16, <1>17 DEF Inv

(* Fewer certain frames say less of what is left.                           *)
LEMMA SurvivesLess ==
  ASSUME NEW p, NEW fs, NEW k \in Nat, NEW j \in Nat, j <= k, Survives(p, fs, k)
  PROVE  Survives(p, fs, j)
<1>1. p \in Seq(Frame) /\ Alike(p, fs) /\ k <= Len(p)
      /\ \A i \in 1 .. Len(p) : i < Len(p) \/ i <= k => p[i] = fs[i]
  BY DEF Survives
<1>2. Len(p) \in Nat
  BY <1>1
<1>3. j <= Len(p) /\ \A i \in 1 .. Len(p) : i < Len(p) \/ i <= j => p[i] = fs[i]
  BY <1>1, <1>2
<1> QED  BY <1>1, <1>3 DEF Survives

(* commit_transaction fails half way.                                       *)
LEMMA CommitFailsInv ==
  ASSUME Inv, CommitFails
  PROVE  Inv'
<1>1. Types /\ HandleOK /\ OrderOK /\ CountsOK
  BY DEF Inv
<1>2. /\ FilesOK(snapshots, journals, synced)
      /\ Image \in Seq(Transaction) /\ Scanned \in Seq(Frame) /\ synced \in Nat
      /\ log \in Seq(Transaction) /\ stable \in Nat /\ begun \in Nat
  BY <1>1, FilesNow
<1>3. PICK t \in Transaction :
        /\ pending = <<t>> /\ t[1].txn = begun /\ begun - 1 \in Nat /\ (begun - 1) + 1 = begun
        /\ t \in Seq(Record)
        /\ Written = Grown(Scanned, t, next_sequence_) /\ next_sequence_ \in Nat
        /\ Ordered(Image, log, Scanned, begun - 1) /\ journal_
  BY Writing DEF CommitFails
<1> DEFINE G == Grown(Scanned, t, next_sequence_)
<1>4. /\ DOMAIN journals # {} /\ Newest(snapshots) <= Newest(journals)
      /\ journal_generation_ = Newest(journals) /\ Journal = Scanned /\ synced <= Len(Scanned)
  BY <1>1, <1>3, OpenJournal
<1>5. PICK p \in Surviving(G, Len(Scanned)) : journals' = Rewritten(journals, p)
  BY <1>3, <1>4 DEF CommitFails, Rewritten
<1>6. /\ pc = "writing" /\ pc' = "idle" /\ pending' = <<>> /\ faulty' = TRUE
      /\ snapshots' = snapshots /\ synced' = synced /\ journal_' = journal_
      /\ next_sequence_' = next_sequence_ /\ log' = log /\ stable' = stable
      /\ journal_generation_' = journal_generation_ /\ begun' = begun
  BY DEF CommitFails, handle
<1>7. G \in Seq(Frame) /\ Len(Scanned) \in 0 .. Len(G) /\ Beginning(Scanned, G) /\ Len(Scanned) \in Nat
  <2>1. G \in Seq(Frame) /\ Beginning(Scanned, G)
    BY <1>2, <1>3, Appended
  <2> HIDE DEF G
  <2> QED  BY <2>1, <1>2 DEF Beginning
<1>8. Ordered(Image, log, G, begun)
  <2>1. Ordered(Image, log, G, (begun - 1) + 1)
    <3>1. t[1].txn = (begun - 1) + 1
      BY <1>3
    <3> QED  BY <3>1, <1>2, <1>3, OrderedGrown
  <2> QED  BY <2>1, <1>3
<1> HIDE DEF G
<1>9. Survives(p, G, Len(Scanned))
  BY <1>7, SurvivingIs
<1>10. Survives(p, G, synced)
  BY <1>2, <1>4, <1>7, <1>9, SurvivesLess
<1>11. p \in Seq(Frame) /\ Len(p) \in Nat /\ Len(Scanned) <= Len(p) /\ Alike(p, G)
  BY <1>9 DEF Survives
<1>12. /\ FilesOK(snapshots, journals', synced)
       /\ DOMAIN journals' = DOMAIN journals /\ Newest(journals') = Newest(journals)
       /\ ScanOf(journals', snapshots) = p
  <2>1. synced <= Len(p)
    BY <1>2, <1>4, <1>7, <1>11
  <2> QED  BY <2>1, <1>2, <1>4, <1>5, <1>11, FilesRewritten
<1>13. Image' = Image /\ Scanned' = p
  BY <1>6, <1>12, ReadNext DEF Image
<1>14. Types'
  BY <1>1, <1>6, <1>12 DEF Types
<1>15. HandleOK'
  BY <1>1, <1>3, <1>4, <1>6, <1>12 DEF HandleOK, Up
<1>16. OrderOK'
  <2>1. Ordered(Image, log, p, begun)
    BY <1>7, <1>8, <1>11, OrderedAlike
  <2> QED  BY <2>1, <1>6, <1>13 DEF OrderOK
<1>17. CountsOK'
  <2>1. Counted(Image, p, stable, synced)
    <3>1. Counted(Image, Scanned, stable, synced) /\ stable \in Int
      BY <1>1, <1>2 DEF CountsOK
    <3> QED  BY <3>1, <1>2, <1>7, <1>10, SurvivorsCounted
  <2>2. Counted(Image, p, Len(log), Len(p))
    <3>1. Counted(Image, Scanned, Len(log), Len(Scanned)) /\ Len(log) \in Int
      BY <1>1, <1>2, <1>3 DEF CountsOK
    <3>2. Counted(Image, p, Len(log), Len(Scanned))
      BY <3>1, <1>2, <1>7, <1>9, SurvivorsCounted
    <3>3. \A c \in Commits(p) : c <= Len(Scanned) => c \in Commits(p) /\ c <= Len(p)
      BY <1>11, CommitsAt
    <3> QED  BY <3>1, <3>2, <3>3, <1>2, <1>11, CountedMore
  <2> QED  BY <2>1, <2>2, <1>6, <1>13 DEF CountsOK
<1>18. SoundOK'
  BY <1>6 DEF SoundOK
<1> QED  BY <1>14, <1>15, <1>16, <1>17, <1>18 DEF Inv

(* The frames fs that were in the open journal at the crash, certain or not.*)
LEMMA CrashOpen ==
  ASSUME Inv, Crash, journal_, NEW fs \in Seq(Frame), NEW p \in Surviving(fs, synced),
         journals' = Rewritten(journals, p), Beginning(Scanned, fs),
         Ordered(Image, log, fs, begun), log \o pending \in Seq(Transaction),
         ~faulty => /\ Whole(fs) /\ Increasing(fs)
                    /\ WellFormed(Scanned) => log \o pending = Image \o Committed(fs)
  PROVE  Inv'
<1>1. Types /\ HandleOK /\ CountsOK /\ SoundOK
  BY DEF Inv
<1>2. /\ FilesOK(snapshots, journals, synced)
      /\ Image \in Seq(Transaction) /\ Scanned \in Seq(Frame) /\ synced \in Nat
      /\ log \in Seq(Transaction) /\ stable \in Nat
  BY <1>1, FilesNow
<1>3. /\ DOMAIN journals # {} /\ Newest(snapshots) <= Newest(journals)
      /\ synced <= Len(Scanned)
  BY <1>1, OpenJournal
<1>4. /\ pc' = "closed" /\ journal_' = FALSE /\ snapshots' = snapshots /\ synced' = synced
      /\ next_sequence_' = next_sequence_ /\ journal_generation_' = journal_generation_
      /\ log' = log /\ pending' = pending /\ stable' = stable /\ begun' = begun
      /\ faulty' = faulty
  BY DEF Crash, memory
<1>5. Survives(p, fs, synced)
  <2>1. synced \in 0 .. Len(fs)
    BY <1>2, <1>3 DEF Beginning
  <2> QED  BY <2>1, SurvivingIs
<1>6. p \in Seq(Frame) /\ synced <= Len(p) /\ Alike(p, fs)
  BY <1>5 DEF Survives
<1>7. /\ FilesOK(snapshots, journals', synced)
      /\ ScanOf(journals', snapshots) = p
  BY <1>2, <1>3, <1>6, FilesRewritten
<1>8. Image' = Image /\ Scanned' = p
  BY <1>4, <1>7, ReadNext DEF Image
<1>9. Types'
  BY <1>1, <1>4, <1>7 DEF Types
<1>10. HandleOK'
  BY <1>4 DEF HandleOK, Up
<1>11. OrderOK'
  <2>1. Ordered(Image, log, p, begun)
    BY <1>6, OrderedAlike
  <2> QED  BY <2>1, <1>4, <1>8 DEF OrderOK
<1>12. CountsOK'
  <2>1. Counted(Image, Scanned, stable, synced) /\ stable \in Int
    BY <1>1, <1>2 DEF CountsOK
  <2>2. Counted(Image, p, stable, synced)
    BY <2>1, <1>2, <1>5, SurvivorsCounted
  <2> QED  BY <2>2, <1>4, <1>8 DEF CountsOK
<1>13. SoundOK'
  <2>1. SUFFICES ASSUME ~faulty
                 PROVE  TornBehind(p, synced) /\ Increasing(p) /\ Reads(Image, p, log \o pending)
    BY <1>4, <1>8 DEF SoundOK
  <2>2. Structure(fs) /\ Whole(fs) /\ Increasing(fs)
    BY <2>1 DEF Ordered
  <2>3. synced = Len(Scanned) \/ WellFormed(Scanned)
    BY <2>1, <1>1 DEF SoundOK, Current
  <2>4. WellFormed(Scanned) => log \o pending = Image \o Committed(fs)
    BY <2>1
  <2> QED  BY <2>2, <2>3, <2>4, <1>2, <1>3, <1>5, SurvivorsRead
<1> QED  BY <1>9, <1>10, <1>11, <1>12, <1>13 DEF Inv

(* The process or the machine stops.                                        *)
LEMMA CrashInv ==
  ASSUME Inv, Crash
  PROVE  Inv'
<1>1. Types /\ HandleOK /\ OrderOK /\ CountsOK /\ SoundOK
  BY DEF Inv
<1>2. /\ FilesOK(snapshots, journals, synced)
      /\ Image \in Seq(Transaction) /\ Scanned \in Seq(Frame) /\ synced \in Nat
      /\ log \in Seq(Transaction) /\ stable \in Nat /\ begun \in Nat
  BY <1>1, FilesNow
<1>3. /\ pc' = "closed" /\ journal_' = FALSE /\ snapshots' = snapshots /\ synced' = synced
      /\ next_sequence_' = next_sequence_ /\ journal_generation_' = journal_generation_
      /\ log' = log /\ pending' = pending /\ stable' = stable /\ begun' = begun
      /\ faulty' = faulty /\ Up
  BY DEF Crash, memory, Up
<1>4. CASE ~journal_
  <2>1. /\ DOMAIN journals # {} /\ Scanned = <<>> /\ pending = <<>>
        /\ \/ Newest(journals) < Newest(snapshots)
           \/ /\ Newest(journals) = Newest(snapshots)
              /\ journals[Newest(journals)] = <<>>
    BY <1>1, <1>3, <1>4, ClosedJournal
  <2> DEFINE fs == journals[Newest(journals)]
  <2>2. pc # "writing"
    BY <1>1, <1>4 DEF HandleOK
  <2>3. PICK p \in Surviving(fs, synced) : journals' = Rewritten(journals, p)
    BY <2>2 DEF Crash, Rewritten
  <2>4. fs \in Seq(Frame) /\ synced \in 0 .. Len(fs)
    <3>1. fs \in Seq(Frame) /\ synced <= Len(fs)
      BY <2>1, <1>2, FilesRead DEF FilesOK
    <3> HIDE DEF fs
    <3> QED  BY <3>1, <1>2
  <2> HIDE DEF fs
  <2>5. Survives(p, fs, synced)
    BY <2>4, SurvivingIs
  <2>6. p \in Seq(Frame) /\ synced <= Len(p) /\ Len(p) <= Len(fs)
    BY <2>5 DEF Survives, Alike
  <2>7. /\ FilesOK(snapshots, journals', synced)
        /\ Newest(snapshots) <= Newest(journals) => ScanOf(journals', snapshots) = p
        /\ Newest(journals) < Newest(snapshots) => ScanOf(journals', snapshots) = <<>>
    BY <2>1, <2>3, <2>6, <1>2, FilesRewritten
  <2>8. ScanOf(journals', snapshots) = <<>>
    <3>1. CASE Newest(journals) < Newest(snapshots)
      BY <3>1, <2>7
    <3>2. CASE Newest(journals) = Newest(snapshots) /\ fs = <<>>
      <4>1. Len(p) = 0
        BY <3>2, <2>6
      <4>2. p = <<>>
        BY <4>1, <2>6
      <4>3. Newest(snapshots) <= Newest(journals)
        BY <3>2, <1>1, FilesNow
      <4> QED  BY <4>2, <4>3, <2>7
    <3> QED  BY <3>1, <3>2, <2>1 DEF fs
  <2>9. Image' = Image /\ Scanned' = Scanned
    BY <2>1, <2>8, <1>3, ReadNext DEF Image
  <2>10. Types'
    BY <2>7, <1>1, <1>3 DEF Types
  <2>11. HandleOK'
    BY <1>3 DEF HandleOK, Up
  <2>12. OrderOK'
    BY <2>2, <2>9, <1>1, <1>3 DEF OrderOK
  <2>13. CountsOK'
    BY <2>9, <1>1, <1>3 DEF CountsOK
  <2>14. SoundOK'
    BY <2>9, <1>1, <1>3 DEF SoundOK
  <2> QED  BY <2>10, <2>11, <2>12, <2>13, <2>14 DEF Inv
<1>5. CASE journal_ /\ pc # "writing"
  <2>1. journals[Newest(journals)] = Scanned
    BY <1>1, <1>5, OpenJournal
  <2>2. PICK p \in Surviving(Scanned, synced) : journals' = Rewritten(journals, p)
    BY <2>1, <1>5 DEF Crash, Rewritten
  <2>3. pending = <<>> /\ log \o pending = log
    <3>1. pending = <<>>
      BY <1>1, <1>3, <1>5 DEF HandleOK
    <3> QED  BY <3>1, <1>2, NothingPending
  <2>4. Ordered(Image, log, Scanned, begun) /\ Beginning(Scanned, Scanned)
    BY <1>1, <1>2, <1>5 DEF OrderOK, Beginning
  <2>5. ~faulty => /\ Whole(Scanned) /\ Increasing(Scanned)
                   /\ WellFormed(Scanned) => log \o pending = Image \o Committed(Scanned)
    BY <2>3, <1>1, <1>5 DEF SoundOK, Current
  <2> QED  BY <2>2, <2>3, <2>4, <2>5, <1>2, <1>5, CrashOpen
<1>6. CASE pc = "writing"
  <2>1. PICK t \in Transaction :
          /\ pending = <<t>> /\ t[1].txn = begun /\ begun - 1 \in Nat /\ (begun - 1) + 1 = begun
          /\ t \in Seq(Record)
          /\ Written = Grown(Scanned, t, next_sequence_) /\ next_sequence_ \in Nat
          /\ Ordered(Image, log, Scanned, begun - 1) /\ journal_
    BY <1>6, Writing
  <2> DEFINE G == Grown(Scanned, t, next_sequence_)
  <2>2. PICK p \in Surviving(G, synced) : journals' = Rewritten(journals, p)
    BY <2>1, <1>6 DEF Crash, Rewritten
  <2>3. G \in Seq(Frame) /\ Beginning(Scanned, G)
    BY <2>1, <1>2, Appended
  <2>4. Ordered(Image, log, G, begun)
    <3>1. Ordered(Image, log, G, (begun - 1) + 1)
      <4>1. t[1].txn = (begun - 1) + 1
        BY <2>1
      <4> QED  BY <4>1, <2>1, <1>2, OrderedGrown
    <3> QED  BY <3>1, <2>1
  <2>5. log \o pending \in Seq(Transaction)
    <3>1. <<t>> \in Seq(Transaction)
      BY OneInOrder
    <3> QED  BY <3>1, <2>1, <1>2, Joined
  <2>6. ASSUME ~faulty
        PROVE  /\ Whole(G) /\ Increasing(G)
               /\ WellFormed(Scanned) => log \o pending = Image \o Committed(G)
    <3>1. /\ Increasing(Scanned) /\ Whole(Scanned) /\ Current(Image, Scanned, log, synced)
          /\ next_sequence_ = LastSequence(Scanned) + 1
      BY <2>1, <2>6, <1>1 DEF SoundOK
    <3>2. Whole(G)
      BY <2>1, <3>1, <1>2, GrownWhole
    <3>3. Increasing(G)
      BY <3>1, <1>2, GrownIncreasing
    <3>4. ASSUME WellFormed(Scanned) PROVE log \o pending = Image \o Committed(G)
      <4>1. Structure(Scanned)
        BY <2>1 DEF Ordered
      <4>2. log \o <<t>> = Image \o Committed(G)
        <5>1. /\ Image \in Seq(Transaction) /\ Scanned \in Seq(Frame) /\ log \in Seq(Transaction)
              /\ next_sequence_ \in Nat /\ Current(Image, Scanned, log, synced)
              /\ WellFormed(Scanned)
          BY <3>1, <3>4, <2>1, <1>2
        <5> QED  BY <4>1, <5>1, CurrentGrown
      <4> QED  BY <4>2, <2>1
    <3> QED  BY <3>2, <3>3, <3>4
  <2> HIDE DEF G
  <2> QED  BY <2>1, <2>2, <2>3, <2>4, <2>5, <2>6, CrashOpen
<1>7. journal_ \in BOOLEAN
  BY <1>1 DEF Types
<1> QED  BY <1>4, <1>5, <1>6, <1>7

(* The new snapshot alone says what snapshot and journal said.              *)
LEMMA CompactSnapshotInv ==
  ASSUME Inv, CompactSnapshot
  PROVE  Inv'
<1>1. Types /\ HandleOK /\ OrderOK
  BY DEF Inv
<1>2. /\ FilesOK(snapshots, journals, synced)
      /\ Image \in Seq(Transaction) /\ Scanned \in Seq(Frame) /\ synced \in Nat
      /\ Newest(snapshots) \in Nat /\ MaxGeneration \in Nat \ {0}
      /\ log \in Seq(Transaction) /\ stable \in Nat /\ begun \in Nat
  BY <1>1, FilesNow
<1> DEFINE g == journal_generation_ + 1
<1>3. /\ pc = "applied" /\ pc' = "snapshotted" /\ journal_generation_ < MaxGeneration
      /\ snapshots' = With(snapshots, g, log) /\ journal_' = FALSE /\ faulty' = FALSE
      /\ journals' = journals /\ synced' = synced
      /\ next_sequence_' = next_sequence_ /\ journal_generation_' = journal_generation_
      /\ log' = log /\ pending' = pending /\ stable' = stable /\ begun' = begun
  BY DEF CompactSnapshot, SnapshotImage
<1>4. journal_ /\ pending = <<>>
  BY <1>1, <1>3 DEF HandleOK, Up
<1>5. /\ DOMAIN journals # {} /\ Newest(snapshots) <= Newest(journals)
      /\ journal_generation_ = Newest(journals)
  BY <1>1, <1>4, OpenJournal
<1>6. g \in Generation /\ Newest(snapshots) <= g /\ Newest(journals) < g
      /\ journal_generation_ \in Nat
  <2>1. journal_generation_ \in Nat
    BY <1>1 DEF Types
  <2> QED  BY <2>1, <1>2, <1>3, <1>5 DEF Generation
<1> HIDE DEF g
<1>7. /\ FilesOK(snapshots', journals, synced)
      /\ DOMAIN snapshots' # {} /\ Newest(snapshots') = g
      /\ ImageOf(snapshots') = log
  BY <1>2, <1>3, <1>6, SnapshotAdded
<1>8. ScanOf(journals, snapshots') = <<>>
  BY <1>6, <1>7, FilesRead
<1>9. Image' = log /\ Scanned' = <<>>
  BY <1>3, <1>7, <1>8, ReadNext
<1>10. Types'
  BY <1>1, <1>3, <1>7 DEF Types
<1>11. HandleOK'
  <2>1. Between'
    BY <1>3, <1>5, <1>6, <1>7, <1>9 DEF Between, g
  <2> QED  BY <2>1, <1>3, <1>4, <1>5 DEF HandleOK, Up
<1>12. OrderOK'
  <2>1. Ordered(Image, log, Scanned, begun)
    BY <1>1, <1>3 DEF OrderOK
  <2>2. Structure(<<>>) /\ Commits(<<>>) = {}
    BY EmptyJournal
  <2>3. Ordered(log, log, <<>>, begun)
    BY <2>1, <2>2 DEF Ordered
  <2> QED  BY <2>3, <1>3, <1>9 DEF OrderOK
<1>13. CountsOK'
  <2>1. stable <= Len(log)
    BY <1>1, <1>2 DEF Types
  <2>2. Counted(log, <<>>, stable, synced)
    BY <2>1, <1>2, CountedNone
  <2> QED  BY <2>2, <1>3, <1>9 DEF CountsOK
<1>14. SoundOK'
  <2>1. TornBehind(<<>>, synced) /\ Increasing(<<>>)
    BY EmptyJournal DEF TornBehind
  <2>2. Reads(log, <<>>, log \o <<>>)
    BY <1>2, ImageRead, NothingPending DEF Beginning
  <2> QED  BY <2>1, <2>2, <1>3, <1>4, <1>9 DEF SoundOK
<1> QED  BY <1>10, <1>11, <1>12, <1>13, <1>14 DEF Inv

(* The journal of the new generation is created.                            *)
LEMMA CompactCreateInv ==
  ASSUME Inv, CompactCreate
  PROVE  Inv'
<1>1. Types /\ HandleOK /\ OrderOK /\ CountsOK /\ SoundOK
  BY DEF Inv
<1>2. /\ FilesOK(snapshots, journals, synced)
      /\ Image \in Seq(Transaction) /\ log \in Seq(Transaction) /\ stable \in Nat
      /\ Newest(snapshots) \in Nat /\ Newest(journals) \in Nat
  BY <1>1, FilesNow
<1> DEFINE g == journal_generation_ + 1
<1>3. /\ pc = "snapshotted" /\ pc' = "created"
      /\ journals' = With(journals, g, <<>>) /\ synced' = 0
      /\ snapshots' = snapshots /\ journal_' = journal_ /\ faulty' = faulty
      /\ next_sequence_' = next_sequence_ /\ journal_generation_' = journal_generation_
      /\ log' = log /\ pending' = pending /\ stable' = stable /\ begun' = begun
  BY DEF CompactCreate, handle, memory
<1>4. ~journal_ /\ Up
  BY <1>1, <1>3 DEF HandleOK, Up
<1>5. /\ ~faulty /\ g \in Generation
      /\ DOMAIN snapshots # {} /\ DOMAIN journals # {}
      /\ Newest(snapshots) = g /\ Image = log
      /\ Scanned = <<>> /\ pending = <<>> /\ Newest(journals) <= Newest(snapshots)
  BY <1>1, <1>4, ClosedJournal
<1> HIDE DEF g
<1>6. /\ FilesOK(snapshots, journals', 0)
      /\ DOMAIN journals' # {} /\ Newest(journals') = g /\ journals'[g] = <<>>
      /\ ScanOf(journals', snapshots) = <<>>
  <2> DEFINE e == <<>>
  <2>1. /\ FilesOK(snapshots, journals, synced) /\ g \in Generation
        /\ e \in Seq(Frame) /\ 0 <= Len(e) /\ 0 \in Nat
        /\ Newest(journals) <= g /\ Newest(snapshots) <= g
    BY <1>2, <1>5
  <2>2. journals' = With(journals, g, e)
    BY <1>3
  <2> HIDE DEF e
  <2>3. /\ FilesOK(snapshots, With(journals, g, e), 0)
        /\ DOMAIN With(journals, g, e) # {} /\ Newest(With(journals, g, e)) = g
        /\ With(journals, g, e)[g] = e
        /\ Newest(snapshots) <= g => ScanOf(With(journals, g, e), snapshots) = e
    BY <2>1, JournalAdded
  <2> QED  BY <2>1, <2>2, <2>3 DEF e
<1>7. Image' = Image /\ Scanned' = Scanned
  BY <1>3, <1>5, <1>6, ReadNext DEF Image
<1>8. Types'
  BY <1>1, <1>3, <1>6 DEF Types
<1>9. HandleOK'
  <2>1. Between'
    BY <1>3, <1>5, <1>6, <1>7 DEF Between, g
  <2> QED  BY <2>1, <1>3, <1>4, <1>5, <1>6 DEF HandleOK, Up, g
<1>10. OrderOK'
  BY <1>1, <1>3, <1>7 DEF OrderOK
<1>11. CountsOK'
  <2>1. stable <= Len(Image)
    BY <1>1, <1>2, <1>5 DEF Types
  <2>2. Counted(Image, <<>>, stable, 0)
    BY <2>1, <1>2, CountedNone
  <2> QED  BY <2>2, <1>3, <1>4, <1>5, <1>7 DEF CountsOK
<1>12. SoundOK'
  <2>1. TornBehind(<<>>, 0)
    BY EmptyJournal DEF TornBehind
  <2> QED  BY <2>1, <1>1, <1>3, <1>4, <1>5, <1>7 DEF SoundOK
<1> QED  BY <1>8, <1>9, <1>10, <1>11, <1>12 DEF Inv

(* The new generation is never expired.                                     *)
LEMMA NotExpired ==
  ASSUME NEW fs, journal_generation_ \in Nat
  PROVE  journal_generation_ + 1 \notin Expired(fs)
<1> DEFINE T == {1, Retained}
           M == Retained + 1
<1>1. T \in SUBSET (0 .. M) /\ T # {} /\ M \in Nat
  BY StoreAssumption
<1>2. Max(T) \in T
  <2> HIDE DEF T, M
  <2> QED  BY <1>1, MaxOf
<1>3. Max(T) \in Nat
  BY <1>1, <1>2
<1>4. ~((journal_generation_ + 1) + Max(T) < journal_generation_ + 1)
  <2> HIDE DEF T
  <2> QED  BY <1>3
<1> QED  BY <1>4 DEF Expired

(* The new generation is in force and old files are removed.                *)
LEMMA CompactFinishInv ==
  ASSUME Inv, CompactFinish
  PROVE  Inv'
<1>1. Types /\ HandleOK /\ OrderOK /\ CountsOK /\ SoundOK
  BY DEF Inv
<1>2. /\ FilesOK(snapshots, journals, synced)
      /\ Image \in Seq(Transaction) /\ log \in Seq(Transaction) /\ stable \in Nat
      /\ Newest(snapshots) \in Nat /\ Newest(journals) \in Nat /\ synced \in Nat
  BY <1>1, FilesNow
<1> DEFINE g == journal_generation_ + 1
<1>3. /\ pc = "created" /\ pc' = "idle" /\ journal_' = TRUE /\ faulty' = faulty
      /\ journal_bytes_' = 0 /\ next_sequence_' = 1 /\ journal_generation_' = g
      /\ synced' = synced /\ log' = log /\ pending' = pending /\ stable' = stable
      /\ begun' = begun
  BY DEF CompactFinish, BytesAfterRotation, memory
<1>4. PICK gs \in SUBSET Expired(snapshots) : snapshots' = Without(snapshots, gs)
  BY DEF CompactFinish, Without
<1>5. PICK hs \in SUBSET Expired(journals) : journals' = Without(journals, hs)
  BY DEF CompactFinish, Without
<1>6. ~journal_ /\ Up /\ Newest(journals) = g
  BY <1>1, <1>3 DEF HandleOK, Up
<1>7. /\ ~faulty /\ DOMAIN snapshots # {} /\ DOMAIN journals # {}
      /\ Newest(snapshots) = g /\ Image = log
      /\ Scanned = <<>> /\ pending = <<>>
  BY <1>1, <1>6, ClosedJournal
<1>8. journal_generation_ \in Nat /\ g \in Nat
  BY <1>1 DEF Types
<1>9. journals[g] = <<>>
  <2>1. \/ Newest(journals) < Newest(snapshots)
        \/ /\ Newest(journals) = Newest(snapshots)
           /\ journals[Newest(journals)] = <<>>
    BY <1>1, <1>6, ClosedJournal
  <2> HIDE DEF g
  <2> QED  BY <2>1, <1>6, <1>7, <1>8
<1>10. g \notin gs /\ g \notin hs
  BY <1>8, NotExpired
<1> HIDE DEF g
<1>11. /\ FilesOK(snapshots', journals', synced)
       /\ ImageOf(snapshots') = ImageOf(snapshots)
       /\ DOMAIN journals' # {} /\ Newest(journals') = g /\ Newest(snapshots') = g
       /\ journals'[g] = <<>>
  <2>1. Removable(snapshots, journals, synced, gs, hs)
    BY <1>2, <1>6, <1>7, <1>10 DEF Removable
  <2>2. /\ FilesOK(Without(snapshots, gs), Without(journals, hs), synced)
        /\ ImageOf(Without(snapshots, gs)) = ImageOf(snapshots)
        /\ DOMAIN Without(journals, hs) # {}
        /\ Newest(Without(journals, hs)) = Newest(journals)
        /\ Newest(Without(snapshots, gs)) = Newest(snapshots)
        /\ Without(journals, hs)[Newest(journals)] = journals[Newest(journals)]
    BY <2>1, FilesExpired
  <2> QED  BY <2>2, <1>4, <1>5, <1>6, <1>7, <1>9
<1>12. ScanOf(journals', snapshots') = <<>> /\ synced <= Len(<<>>)
  <2>1. Newest(snapshots') <= Newest(journals')
    BY <1>8, <1>11
  <2> QED  BY <2>1, <1>11, FilesRead
<1>13. Image' = Image /\ Scanned' = Scanned
  BY <1>7, <1>11, <1>12, ReadNext DEF Image
<1>14. Types'
  BY <1>1, <1>3, <1>8, <1>11 DEF Types
<1>15. HandleOK'
  <2>1. Newest(snapshots') <= journal_generation_'
    BY <1>3, <1>8, <1>11
  <2> QED  BY <2>1, <1>3, <1>7, <1>11 DEF HandleOK, Up
<1>16. OrderOK'
  BY <1>1, <1>3, <1>13 DEF OrderOK
<1>17. CountsOK'
  <2>1. Len(log) <= Len(Image) /\ Len(log) \in Nat
    BY <1>2, <1>7
  <2>2. Counted(Image, <<>>, Len(log), Len(<<>>))
    BY <2>1, <1>2, CountedNone
  <2> QED  BY <2>2, <1>1, <1>3, <1>7, <1>13 DEF CountsOK
<1>18. SoundOK'
  <2>1. TornBehind(<<>>, synced) /\ Increasing(<<>>) /\ Whole(<<>>)
        /\ LastSequence(<<>>) = 0 /\ Bytes(<<>>) = 0
    BY EmptyJournal DEF TornBehind, Whole
  <2>2. Current(Image, <<>>, log, synced)
    <3>1. log = Image \o Committed(<<>>) /\ WellFormed(<<>>)
      BY <1>2, <1>7, ImageRead, EmptyJournal
    <3> QED  BY <3>1 DEF Current
  <2>3. Reads(Image, <<>>, log \o pending)
    BY <1>1, <1>7 DEF SoundOK
  <2> QED  BY <2>1, <2>2, <2>3, <1>3, <1>7, <1>13 DEF SoundOK
<1> QED  BY <1>14, <1>15, <1>16, <1>17, <1>18 DEF Inv

(* Nothing happens.                                                         *)
LEMMA StutterInv ==
  ASSUME Inv, UNCHANGED vars
  PROVE  Inv'
<1>1. /\ pc' = pc /\ snapshots' = snapshots /\ journals' = journals /\ synced' = synced
      /\ journal_' = journal_ /\ journal_bytes_' = journal_bytes_
      /\ next_sequence_' = next_sequence_ /\ journal_generation_' = journal_generation_
      /\ log' = log /\ pending' = pending /\ stable' = stable /\ begun' = begun
      /\ faulty' = faulty
  BY DEF vars, files, handle, memory
<1>2. Image' = Image /\ Scanned' = Scanned
  BY <1>1, FilesKept
<1>3. Types' /\ HandleOK'
  BY <1>1, <1>2 DEF Inv, Types, HandleOK, Between, Up
<1>4. OrderOK' /\ CountsOK' /\ SoundOK'
  BY <1>1, <1>2 DEF Inv, OrderOK, CountsOK, SoundOK
<1> QED  BY <1>3, <1>4 DEF Inv

(* Every step keeps the invariant.                                          *)
LEMMA StepInv ==
  ASSUME Inv, [Next]_vars
  PROVE  Inv'
<1>1. CASE Open
  BY <1>1, OpenInv
<1>2. CASE OpenRefused
  BY <1>2, OpenRefusedInv
<1>3. CASE Close
  BY <1>3, CloseInv
<1>4. CASE \E shape \in Shapes : CommitBegin(shape)
  BY <1>4, CommitBeginInv
<1>5. CASE CommitOk
  BY <1>5, CommitOkInv
<1>6. CASE CommitFails
  BY <1>6, CommitFailsInv
<1>7. CASE RotateNotDue \/ CompactSnapshotFails
  BY <1>7, RotateInv
<1>8. CASE CompactSnapshot
  BY <1>8, CompactSnapshotInv
<1>9. CASE CompactCreate
  BY <1>9, CompactCreateInv
<1>10. CASE CompactJournalFails
  BY <1>10, CompactJournalFailsInv
<1>11. CASE CompactFinish
  BY <1>11, CompactFinishInv
<1>12. CASE Crash
  BY <1>12, CrashInv
<1>13. CASE UNCHANGED vars
  BY <1>13, StutterInv
<1> QED
  BY <1>1, <1>2, <1>3, <1>4, <1>5, <1>6, <1>7, <1>8, <1>9, <1>10, <1>11, <1>12, <1>13 DEF Next

(* The files always say, in the image and the committed transactions of the *)
(* journal, what the coordinator's log says, cut at most where a crash may  *)
(* have cut it; this is what Store::open, commit_transaction and compact    *)
(* keep true of each other's files.                                         *)
THEOREM StoreInvariant == Spec => []Inv
<1>1. Init => Inv
  BY InitInv
<1>2. Inv /\ [Next]_vars => Inv'
  BY StepInv
<1> QED  BY <1>1, <1>2, PTL DEF Spec

-----------------------------------------------------------------------------
(* What the invariant means for the runs' properties.                       *)

(* The files, the handle and the log stay well typed; every journal file    *)
(* holds its synced frames, and journal_bytes_ is the size of the journal.  *)
THEOREM StoreTypeCorrect == Spec => []StoreTypeOK
<1>1. ASSUME Inv PROVE StoreTypeOK
  <2>1. Types /\ HandleOK /\ SoundOK
    BY <1>1 DEF Inv
  <2>2. FilesOK(snapshots, journals, synced)
    BY <2>1 DEF Types
  <2>3. \A g \in DOMAIN snapshots : Range(snapshots[g]) \subseteq Transaction
    <3>1. ASSUME NEW g \in DOMAIN snapshots PROVE Range(snapshots[g]) \subseteq Transaction
      <4>1. snapshots[g] \in Seq(Transaction)
        BY <2>2 DEF FilesOK
      <4> QED  BY <4>1 DEF Range
    <3> QED  BY <3>1
  <2>4. \A g \in DOMAIN journals : Range(journals[g]) \subseteq Frame
    <3>1. ASSUME NEW g \in DOMAIN journals PROVE Range(journals[g]) \subseteq Frame
      <4>1. journals[g] \in Seq(Frame)
        BY <2>2 DEF FilesOK
      <4> QED  BY <4>1 DEF Range
    <3> QED  BY <3>1
  <2>5. DOMAIN journals # {} => synced \in 0 .. Len(journals[Newest(journals)])
    <3>1. ASSUME DOMAIN journals # {} PROVE synced \in 0 .. Len(journals[Newest(journals)])
      <4>1. journals[Newest(journals)] \in Seq(Frame) /\ synced \in Nat
            /\ synced <= Len(journals[Newest(journals)])
        BY <2>2, <3>1, FilesRead DEF FilesOK
      <4> QED  BY <4>1
    <3> QED  BY <3>1
  <2>6. journal_ /\ ~faulty =>
          /\ journal_generation_ = Newest(journals)
          /\ journal_bytes_ = Bytes(Journal)
    BY <2>1, OpenJournal DEF SoundOK
  <2>7. Range(log) \subseteq Transaction
    <3>1. log \in Seq(Transaction)
      BY <2>1 DEF Types
    <3> QED  BY <3>1 DEF Range
  <2>8. pending = <<>> \/ pending[1] \in Transaction
    BY <2>1 DEF Types
  <2> QED
    BY <2>1, <2>2, <2>3, <2>4, <2>5, <2>6, <2>7, <2>8 DEF StoreTypeOK, Types, FilesOK
<1> QED  BY <1>1, StoreInvariant, PTL

(* Beginnings are prefixes.                                                 *)
LEMMA BeginningIs ==
  ASSUME NEW a \in Seq(Transaction), NEW b \in Seq(Transaction), Beginning(a, b)
  PROVE  a = SubSeq(b, 1, Len(a)) /\ IsPrefix(a, b)
<1>1. Len(a) \in Nat /\ Len(b) \in Nat /\ Len(a) <= Len(b) /\ \A i \in 1 .. Len(a) : a[i] = b[i]
  BY DEF Beginning
<1> DEFINE s == SubSeq(b, 1, Len(a))
<1>2. \A i \in 1 .. Len(a) : b[i] \in Transaction
  BY <1>1
<1>3. /\ s \in Seq(Transaction) /\ Len(s) = (IF 1 <= Len(a) THEN Len(a) - 1 + 1 ELSE 0)
      /\ \A i \in 1 .. Len(a) - 1 + 1 : s[i] = b[1 + i - 1]
  BY <1>1, <1>2, SubSeqProperties
<1> HIDE DEF s
<1>4. Len(s) = Len(a) /\ \A i \in 1 .. Len(a) : s[i] = a[i]
  BY <1>1, <1>3
<1>5. a = s
  BY <1>3, <1>4, SeqEqual
<1>6. SubSeq(a, 1, Len(a)) = a
  BY SubSeqFull
<1> QED  BY <1>1, <1>5, <1>6 DEF s, IsPrefix

(* What an open that succeeds reads, in a state of the invariant.           *)
LEMMA RecoveredIs ==
  ASSUME Inv, Readable
  PROVE  /\ Recovered \in Seq(Transaction) /\ InOrder(Recovered)
         /\ log \in Seq(Transaction) /\ log \o pending \in Seq(Transaction)
         /\ stable \in 0 .. Len(log)
         /\ ~faulty => /\ stable <= Len(Recovered)
                       /\ Beginning(Recovered, log \o pending)
                       /\ Beginning(log, log \o pending)
<1> DEFINE J == Intact(Scanned)
<1>1. Types /\ OrderOK /\ CountsOK /\ SoundOK
  BY DEF Inv
<1>2. /\ Image \in Seq(Transaction) /\ Scanned \in Seq(Frame) /\ synced \in Nat
      /\ log \in Seq(Transaction) /\ stable \in Nat /\ begun \in Nat
  BY <1>1, FilesNow
<1>3. ~ScanCorrupt(Scanned) /\ WellFormed(J) /\ Recovered = Image \o Committed(J)
  BY ReadNow DEF Readable
<1>4. J \in Seq(Frame) /\ Whole(J) /\ Beginning(J, Scanned) /\ Len(J) \in Nat
  BY <1>2, <1>3, IntactWhole
<1>5. PICK n \in Nat : Ordered(Image, log, Scanned, n)
  <2>1. CASE pc = "writing"
    BY <2>1, Writing
  <2>2. CASE pc # "writing"
    BY <2>2, <1>1, <1>2 DEF OrderOK
  <2> QED  BY <2>1, <2>2
<1>6. Ordered(Image, log, J, n)
  BY <1>2, <1>4, <1>5, OrderedAlike, BeginningAlike
<1>7. pending \in Seq(Transaction)
  <2>1. CASE pending = <<>>
    BY <2>1, <1>2, NothingPending
  <2>2. CASE \E t \in Transaction : pending = <<t>>
    BY <2>2, OneInOrder
  <2> QED  BY <2>1, <2>2, <1>1 DEF Types
<1>8. log \o pending \in Seq(Transaction) /\ Beginning(log, log \o pending)
  BY <1>2, <1>7, Joined, BeginningOffered
<1>9. stable \in 0 .. Len(log)
  BY <1>1 DEF Types
<1> HIDE DEF J
<1>10. /\ Recovered \in Seq(Transaction) /\ InOrder(Recovered)
       /\ Len(Recovered) = Len(Image) + Cardinality(Commits(J))
  BY <1>2, <1>3, <1>4, <1>6, ReadInOrder
<1>11. ASSUME ~faulty PROVE stable <= Len(Recovered) /\ Beginning(Recovered, log \o pending)
  <2>1. TornBehind(Scanned, synced) /\ Reads(Image, Scanned, log \o pending)
    BY <1>1, <1>11 DEF SoundOK
  <2>2. Beginning(Recovered, log \o pending)
    BY <2>1, <1>3 DEF Reads, J
  <2>3. ASSUME NEW c \in Commits(Scanned), c <= synced PROVE c \in Commits(J) /\ c <= Len(J)
    <3>1. c \in 1 .. Len(Scanned) /\ Scanned[c].kind = "Commit"
      BY <1>2, CommitsAt
    <3>2. \A i \in 1 .. Len(Scanned) : Scanned[i].missing # 0 => i = Len(Scanned) /\ synced < i
      BY <2>1 DEF TornBehind
    <3>3. Len(J) # Len(Scanned) => /\ Len(Scanned) > 0 /\ Scanned[Len(Scanned)].missing # 0
                                   /\ Len(J) = Len(Scanned) - 1
      BY <3>2, <1>2, IntactTail DEF J
    <3>4. c <= Len(J)
      <4>1. CASE Len(J) # Len(Scanned)
        <5>1. Len(Scanned) \in 1 .. Len(Scanned)
          BY <3>1
        <5>2. synced < Len(Scanned)
          BY <4>1, <5>1, <3>2, <3>3
        <5> QED  BY <4>1, <5>2, <3>1, <3>3, <2>3, <1>2, <1>4
      <4>2. CASE Len(J) = Len(Scanned)
        BY <4>2, <3>1
      <4> QED  BY <4>1, <4>2
    <3>5. c \in 1 .. Len(J)
      BY <3>1, <3>4, <1>4
    <3> QED  BY <3>1, <3>4, <3>5, <1>4 DEF Commits, Beginning
  <2>4. Counted(Image, J, stable, Len(J))
    <3>1. Counted(Image, Scanned, stable, synced) /\ stable \in Int
      BY <1>1, <1>2 DEF CountsOK
    <3> QED  BY <3>1, <2>3, <1>2, <1>4, CountedMore
  <2>5. stable <= Len(Recovered)
    BY <2>4, <1>4, <1>10, CountedAll
  <2> QED  BY <2>2, <2>5
<1> QED  BY <1>2, <1>8, <1>9, <1>10, <1>11

(* However the process is cut off between the steps of a commit, of a       *)
(* compaction or of an open, what Store::open hands back is what was        *)
(* acknowledged and then at most what was being written.                    *)
THEOREM StoreReadsBack == Spec => []AcknowledgedReadBack
<1>1. ASSUME Inv PROVE AcknowledgedReadBack
  <2>1. SUFFICES ASSUME Readable, ~faulty
                 PROVE  /\ IsPrefix(SubSeq(log, 1, stable), Recovered)
                        /\ IsPrefix(Recovered, log \o pending)
    BY DEF AcknowledgedReadBack
  <2> DEFINE O == log \o pending
             s == SubSeq(log, 1, stable)
  <2>2. /\ Recovered \in Seq(Transaction) /\ log \in Seq(Transaction)
        /\ O \in Seq(Transaction) /\ stable \in 0 .. Len(log)
        /\ stable <= Len(Recovered)
        /\ Beginning(Recovered, O) /\ Beginning(log, O)
    BY <1>1, <2>1, RecoveredIs
  <2>3. /\ s \in Seq(Transaction) /\ Len(s) = (IF 1 <= stable THEN stable - 1 + 1 ELSE 0)
        /\ \A i \in 1 .. stable - 1 + 1 : s[i] = log[1 + i - 1]
    <3>1. stable \in Int /\ \A i \in 1 .. stable : log[i] \in Transaction
      BY <2>2
    <3> QED  BY <3>1, SubSeqProperties
  <2> HIDE DEF s, O
  <2>4. Len(s) = stable /\ \A i \in 1 .. stable : s[i] = log[i]
    BY <2>2, <2>3
  <2>5. Beginning(s, Recovered)
    <3>1. ASSUME NEW i \in 1 .. Len(s) PROVE s[i] = Recovered[i]
      <4>1. i \in 1 .. Len(log) /\ i \in 1 .. Len(Recovered) /\ s[i] = log[i]
        BY <2>2, <2>4
      <4>2. log[i] = O[i] /\ Recovered[i] = O[i]
        BY <4>1, <2>2 DEF Beginning
      <4> QED  BY <4>1, <4>2
    <3> QED  BY <3>1, <2>2, <2>4 DEF Beginning
  <2>6. IsPrefix(s, Recovered)
    BY <2>2, <2>3, <2>5, BeginningIs
  <2>7. IsPrefix(Recovered, O)
    BY <2>2, BeginningIs
  <2> QED  BY <2>6, <2>7 DEF s, O
<1> QED  BY <1>1, StoreInvariant, PTL

(* A write that failed half way, and was written on after, never makes      *)
(* Store::open hand back part of a transaction, or one twice.               *)
THEOREM StoreReadsWhole == Spec => []RecoveredWhole
<1>1. ASSUME Inv PROVE RecoveredWhole
  <2>1. SUFFICES ASSUME Readable
                 PROVE  /\ Range(Recovered) \subseteq Transaction
                        /\ \A i, j \in DOMAIN Recovered :
                             i < j => Recovered[i][1].txn < Recovered[j][1].txn
    BY DEF RecoveredWhole
  <2>2. Recovered \in Seq(Transaction) /\ InOrder(Recovered)
    BY <1>1, <2>1, RecoveredIs
  <2>3. DOMAIN Recovered = 1 .. Len(Recovered)
    BY <2>2
  <2>4. Range(Recovered) \subseteq Transaction
    BY <2>2 DEF Range
  <2> QED  BY <2>2, <2>3, <2>4 DEF InOrder
<1> QED  BY <1>1, StoreInvariant, PTL

(* Only an abandoned transaction or a failed write is ever refused.         *)
THEOREM StoreRefusesOnlyAbandoned == Spec => []UnreadableOnlyIfAbandoned
<1>1. ASSUME Inv PROVE UnreadableOnlyIfAbandoned
  <2> DEFINE J == Intact(Scanned)
  <2>1. SUFFICES ASSUME ~faulty, ~AbandonedTransaction(Scanned)
                 PROVE  Readable
    BY DEF UnreadableOnlyIfAbandoned
  <2>2. Scanned \in Seq(Frame) /\ Structure(Scanned)
    BY <1>1, FilesNow DEF Inv, OrderOK, Ordered
  <2>3. TornBehind(Scanned, synced) /\ Increasing(Scanned)
    BY <1>1, <2>1 DEF Inv, SoundOK
  <2>4. ~ScanCorrupt(Scanned)
    <3>1. \A i \in 1 .. Len(Scanned) : Scanned[i].missing # 0 => i = Len(Scanned)
      BY <2>3 DEF TornBehind
    <3> QED  BY <3>1, <2>2, IntactTail
  <2>5. J \in Seq(Frame) /\ Beginning(J, Scanned)
    BY <2>2, <2>4, IntactWhole
  <2> HIDE DEF J
  <2>6. Structure(J) /\ Increasing(J)
    BY <2>2, <2>3, <2>5, BeginningAlike, StructureAlike, IncreasingAlike
  <2>7. ASSUME NEW i \in 1 .. Len(J), J[i].kind = "Begin" PROVE OpenedAt(J, i) = 0
    <3>1. i \in DOMAIN Scanned /\ Scanned[i].kind = "Begin"
      BY <2>2, <2>5, <2>7 DEF Beginning
    <3>2. OpenedAt(Scanned, i) = 0
      BY <3>1, <2>1 DEF AbandonedTransaction
    <3> QED  BY <3>2, <2>2, <2>5, OpenedAtBeginning
  <2>8. WellFormed(J)
    BY <2>5, <2>6, <2>7, WellFormedIf
  <2> QED  BY <2>4, <2>8 DEF Readable, J
<1> QED  BY <1>1, StoreInvariant, PTL

-----------------------------------------------------------------------------
(* The store implements the log it promises.                                *)

(* Store::open hands a recovered log over.                                  *)
LEMMA OpenRecovers ==
  ASSUME Inv, Open
  PROVE  PromisedLog!Recover
<1>1. /\ pc = "closed" /\ Readable /\ pc' = "idle" /\ pending' = <<>> /\ faulty' = FALSE
      /\ log' = Recovered /\ stable' = Min({stable, Len(Recovered)})
  BY DEF Open
<1>2. /\ Recovered \in Seq(Transaction) /\ log \in Seq(Transaction)
      /\ log \o pending \in Seq(Transaction) /\ stable \in 0 .. Len(log)
      /\ ~faulty => /\ stable <= Len(Recovered)
                    /\ Beginning(Recovered, log \o pending)
  BY <1>1, RecoveredIs
<1>3. stable \in Nat /\ Len(Recovered) \in Nat
  BY <1>2
<1>4. stable' \in 0 .. stable /\ (stable <= Len(Recovered) => stable' = stable)
  <2> DEFINE n == Len(Recovered)
             T == {stable, n}
  <2>1. T \in SUBSET Nat /\ T # {}
    BY <1>3
  <2>2. Min(T) \in T /\ \A h \in T : Min(T) <= h
    <3> HIDE DEF T
    <3> QED  BY <2>1, MinOf
  <2>3. stable' = Min(T)
    BY <1>1
  <2>4. n \in Nat
    BY <1>3
  <2> HIDE DEF n
  <2>5. Min(T) \in 0 .. stable /\ (stable <= n => Min(T) = stable)
    BY <2>2, <2>4, <1>3
  <2> QED  BY <2>3, <2>5 DEF n
<1>5. CASE ~faulty
  <2> DEFINE O == log \o pending
             n == Len(Recovered)
  <2>1. stable' = stable /\ n \in stable .. Len(O)
    BY <1>2, <1>3, <1>4, <1>5 DEF Beginning
  <2>2. log' = SubSeq(O, 1, n)
    <3>1. Recovered \in Seq(Transaction) /\ O \in Seq(Transaction) /\ Beginning(Recovered, O)
      BY <1>2, <1>5
    <3> HIDE DEF O
    <3> QED  BY <3>1, <1>1, BeginningIs
  <2>3. \E m \in stable .. Len(O) : log' = SubSeq(O, 1, m)
    BY <2>1, <2>2
  <2> QED  BY <2>1, <2>3, <1>1, <1>5 DEF PromisedLog!Recover, PromisedLog!Offered
<1>6. CASE faulty
  BY <1>1, <1>2, <1>4, <1>6 DEF PromisedLog!Recover
<1> QED  BY <1>5, <1>6

(* The first state is the first state of the promised log.                  *)
LEMMA InitPromised ==
  ASSUME Init
  PROVE  PromisedLog!Init
  BY DEF Init, PromisedLog!Init

(* Every step is one of the promised log, or none.                          *)
LEMMA StepPromised ==
  ASSUME Inv, [Next]_vars
  PROVE  [PromisedLog!Next]_(PromisedLog!vars)
<1> DEFINE Same == /\ log' = log /\ pending' = pending /\ stable' = stable
                   /\ Up' = Up /\ faulty' = faulty
<1>1. ASSUME Same PROVE UNCHANGED PromisedLog!vars
  BY <1>1 DEF PromisedLog!vars, Up
<1>2. HandleOK
  BY DEF Inv
<1>3. CASE Open
  BY <1>3, OpenRecovers DEF PromisedLog!Next
<1>4. CASE OpenRefused
  <2>1. Same
    BY <1>4 DEF OpenRefused, memory, Up
  <2> QED  BY <2>1, <1>1
<1>5. CASE Close
  <2>1. PromisedLog!Stop
    BY <1>5 DEF Close, memory, PromisedLog!Stop
  <2> QED  BY <2>1 DEF PromisedLog!Next
<1>6. ASSUME NEW shape \in Shapes, CommitBegin(shape)
      PROVE  PromisedLog!Next
  <2>1. pending = <<>>
    BY <1>2, <1>6 DEF HandleOK, Up, CommitBegin
  <2>2. PICK t \in Transaction : pending' = <<t>>
    <3>1. CommitBegin(shape) => pending' # <<>>
      BY DEF CommitBegin
    <3>2. Types'
      BY <1>6, CommitBeginInv DEF Inv
    <3> QED  BY <1>6, <3>1, <3>2 DEF Types
  <2>3. PromisedLog!Begin(t)
    BY <2>1, <2>2, <1>6 DEF CommitBegin, PromisedLog!Begin
  <2> QED  BY <2>3 DEF PromisedLog!Next
<1>7. CASE CommitOk
  <2>1. pending # <<>>
    BY <1>2, <1>7 DEF HandleOK, CommitOk
  <2>2. PromisedLog!Acknowledge
    BY <2>1, <1>7 DEF CommitOk, PromisedLog!Acknowledge, PromisedLog!Offered
  <2> QED  BY <2>2 DEF PromisedLog!Next
<1>8. CASE CommitFails
  <2>1. pending # <<>>
    BY <1>2, <1>8 DEF HandleOK, CommitFails
  <2>2. PromisedLog!Fail
    BY <2>1, <1>8 DEF CommitFails, PromisedLog!Fail
  <2> QED  BY <2>2 DEF PromisedLog!Next
<1>9. CASE RotateNotDue \/ CompactSnapshotFails \/ CompactCreate \/ CompactJournalFails \/ CompactFinish
  <2>1. Same
    BY <1>9 DEF RotateNotDue, CompactSnapshotFails, CompactCreate, CompactJournalFails,
                CompactFinish, memory, Up
  <2> QED  BY <2>1, <1>1
<1>10. CASE CompactSnapshot
  <2>1. /\ log' = log /\ pending' = pending /\ stable' = stable /\ faulty' = FALSE
        /\ pc = "applied" /\ pc' = "snapshotted" /\ pending = <<>>
    BY <1>2, <1>10 DEF CompactSnapshot, HandleOK, Up
  <2>2. CASE faulty
    <3>1. PromisedLog!Repair
      BY <2>1, <2>2 DEF PromisedLog!Repair
    <3> QED  BY <3>1 DEF PromisedLog!Next
  <2>3. CASE ~faulty
    <3>1. faulty' = faulty
      BY <2>1, <2>3 DEF Inv, Types
    <3>2. Same
      BY <2>1, <3>1 DEF Up
    <3> QED  BY <3>2, <1>1
  <2> QED  BY <2>2, <2>3
<1>11. CASE Crash
  <2>1. PromisedLog!Stop
    BY <1>11 DEF Crash, memory, PromisedLog!Stop
  <2> QED  BY <2>1 DEF PromisedLog!Next
<1>12. CASE UNCHANGED vars
  <2>1. Same
    BY <1>12 DEF vars, memory, Up
  <2> QED  BY <2>1, <1>1
<1> QED
  BY <1>3, <1>4, <1>5, <1>6, <1>7, <1>8, <1>9, <1>10, <1>11, <1>12 DEF Next

(* A commit that returned Ok is never lost and one a crash caught in flight *)
(* is read back whole or not at all: transaction journal and snapshots      *)
(* together implement a durable log.                                        *)
THEOREM StoreImplementsLog == Spec => ImplementsLog
<1>1. Init => PromisedLog!Init
  BY InitPromised
<1>2. Inv /\ [Next]_vars => [PromisedLog!Next]_(PromisedLog!vars)
  BY StepPromised
<1>3. PromisedLog!Init /\ [][PromisedLog!Next]_(PromisedLog!vars) => PromisedLog!Spec
  BY DEF PromisedLog!Spec
<1> QED  BY <1>1, <1>2, <1>3, StoreInvariant, PTL DEF Spec, ImplementsLog
=============================================================================
