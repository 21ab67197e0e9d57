-------------------------- MODULE SelectionProofs ---------------------------
(***************************************************************************)
(* select_fallback decides: whatever the targets, hosts and device ranks,  *)
(* there is a winner exactly if a considered candidate is eligible, it is  *)
(* the only one, and a wider ceiling does not take the choice from it.     *)
(***************************************************************************)
EXTENDS MCSelection, FiniteSetTheorems, WellFoundedInduction, TLAPS

(* Registered targets only are evaluated.                                   *)
SelectionInv ==
  /\ failed \in {0} \cup Target
  /\ registered \subseteq Target /\ eligible \subseteq registered
  /\ ceiling \in 1 .. NumTargets

-----------------------------------------------------------------------------
(* The candidate order is a strict total order of the targets.              *)
LEMMA PrecedesIrreflexive ==
  ASSUME NEW f, NEW R, NEW a \in Target
  PROVE  ~Precedes(f, R, a, a)
BY DescriptorAssumption DEF Precedes, Target

(* The candidate order is transitive.                                       *)
LEMMA PrecedesTransitive ==
  ASSUME NEW f, NEW R, NEW a \in Target, NEW b \in Target, NEW c \in Target,
         Precedes(f, R, a, b), Precedes(f, R, b, c)
  PROVE  Precedes(f, R, a, c)
<1> DEFINE near(t) == SameHost(f, R, t)
<1>1. /\ a \in Nat /\ b \in Nat /\ c \in Nat
      /\ DeviceRank[a] \in Nat /\ DeviceRank[b] \in Nat /\ DeviceRank[c] \in Nat
  BY DescriptorAssumption DEF Target
<1>2. \A t : near(t) \in BOOLEAN
  BY DEF SameHost
<1> HIDE DEF near
<1>3. \/ ~near(a) /\ near(b)
      \/ (near(a) = near(b)) /\ (DeviceRank[a] > DeviceRank[b]
                                 \/ (DeviceRank[a] = DeviceRank[b] /\ a < b))
  BY DEF Precedes, near
<1>4. \/ ~near(b) /\ near(c)
      \/ (near(b) = near(c)) /\ (DeviceRank[b] > DeviceRank[c]
                                 \/ (DeviceRank[b] = DeviceRank[c] /\ b < c))
  BY DEF Precedes, near
<1>5. \/ ~near(a) /\ near(c)
      \/ (near(a) = near(c)) /\ (DeviceRank[a] > DeviceRank[c]
                                 \/ (DeviceRank[a] = DeviceRank[c] /\ a < c))
  BY <1>1, <1>2, <1>3, <1>4
<1> QED BY <1>5 DEF Precedes, near

(* The candidate order compares any two candidates.                         *)
LEMMA PrecedesTotal ==
  ASSUME NEW f, NEW R, NEW a \in Target, NEW b \in Target, a # b
  PROVE  Precedes(f, R, a, b) \/ Precedes(f, R, b, a)
<1>1. a \in Nat /\ b \in Nat /\ DeviceRank[a] \in Nat /\ DeviceRank[b] \in Nat
  BY DescriptorAssumption DEF Target
<1>2. SameHost(f, R, a) \in BOOLEAN /\ SameHost(f, R, b) \in BOOLEAN
  BY DEF SameHost
<1> QED BY <1>1, <1>2 DEF Precedes

(* The candidates that are considered before c.                             *)
Before(f, R, c) == {d \in R \ {f} : Precedes(f, R, d, c)}

(* The candidates before a candidate are finitely many.                     *)
LEMMA BeforeFinite ==
  ASSUME NEW f, NEW R \in SUBSET Target, NEW c
  PROVE  IsFiniteSet(Before(f, R, c)) /\ Cardinality(Before(f, R, c)) \in Nat
<1>1. IsFiniteSet(Target)
  BY DescriptorAssumption, FS_Interval DEF Target
<1>2. Before(f, R, c) \in SUBSET Target
  BY DEF Before
<1> QED BY <1>1, <1>2, FS_Subset, FS_CardinalityType

(* Fewer candidates come before the one that precedes.                      *)
LEMMA BeforeMonotone ==
  ASSUME NEW f, NEW R \in SUBSET Target, NEW a \in Target, NEW c \in Target,
         Precedes(f, R, a, c)
  PROVE  Cardinality(Before(f, R, a)) <= Cardinality(Before(f, R, c))
<1>1. Before(f, R, a) \in SUBSET Before(f, R, c)
  BY PrecedesTransitive DEF Before
<1> QED BY <1>1, BeforeFinite, FS_Subset

(* A candidate is considered if fewer candidates than the ceiling are       *)
(* before it.                                                               *)
LEMMA ConsideredBefore ==
  ASSUME NEW f, NEW R, NEW n
  PROVE  Considered(f, R, n) = {c \in R \ {f} : Cardinality(Before(f, R, c)) < n}
BY Zenon DEF Considered, Before

-----------------------------------------------------------------------------
(* There is at most one winner; it was considered and is eligible.          *)
LEMMA WinnerUnique ==
  ASSUME NEW f, NEW R \in SUBSET Target, NEW n \in Nat, NEW E,
         NEW c \in SelectFallback(f, R, n, E)
  PROVE  /\ SelectFallback(f, R, n, E) = {c}
         /\ c \in Considered(f, R, n) /\ c \in E /\ c \in R /\ c # f
<1> DEFINE W == SelectFallback(f, R, n, E)
           A == Considered(f, R, n) \cap E
<1>1. W = {x \in A : \A y \in A \ {x} : Precedes(f, R, x, y)}
  BY DEF SelectFallback
<1>2. A \subseteq R \ {f}
  BY DEF Considered
<1> HIDE DEF W, A
<1>3. c \in W
  BY DEF W
<1>4. ASSUME NEW d \in W PROVE d = c
  <2> SUFFICES ASSUME d # c PROVE FALSE
    OBVIOUS
  <2>1. Precedes(f, R, c, d) /\ Precedes(f, R, d, c)
    BY <1>1, <1>3, <1>4
  <2>2. c \in Target /\ d \in Target
    BY <1>1, <1>2, <1>3, <1>4
  <2> QED BY <2>1, <2>2, PrecedesTransitive, PrecedesIrreflexive
<1>5. W = {c} /\ c \in A /\ c \in R /\ c # f
  BY <1>1, <1>2, <1>3, <1>4
<1> QED BY <1>5 DEF W, A

(* Where a considered candidate is eligible, one of them is first: the one  *)
(* before which the fewest candidates come.                                 *)
LEMMA WinnerExists ==
  ASSUME NEW f, NEW R \in SUBSET Target, NEW n \in Nat, NEW E,
         Considered(f, R, n) \cap E # {}
  PROVE  SelectFallback(f, R, n, E) # {}
<1> DEFINE A == Considered(f, R, n) \cap E
           W == SelectFallback(f, R, n, E)
           place(c) == Cardinality(Before(f, R, c))
           less == OpToRel(<, Nat)
           places == {place(c) : c \in A}
<1>1. A \subseteq R \ {f} /\ A # {}
  BY DEF Considered
<1>2. \A c : place(c) \in Nat
  BY BeforeFinite
<1>3. W = {x \in A : \A y \in A \ {x} : Precedes(f, R, x, y)}
  BY DEF SelectFallback
<1>4. \A i, j \in Nat : i < j => <<i, j>> \in less
  BY DEF OpToRel
<1>5. \A a, c \in Target : Precedes(f, R, a, c) => place(a) <= place(c)
  BY BeforeMonotone
<1>6. IsWellFoundedOn(less, Nat)
  BY NatLessThanWellFounded
<1> HIDE DEF A, W, place, less
<1>7. places \subseteq Nat /\ places # {}
  BY <1>1, <1>2
<1> HIDE DEF places
<1>8. PICK p \in places : \A i \in places : ~(<<i, p>> \in less)
  BY <1>6, <1>7, WFMin
<1>9. PICK c \in A : place(c) = p
  BY <1>8 DEF places
<1>10. ASSUME NEW d \in A, d # c PROVE Precedes(f, R, c, d)
  <2>1. c \in Target /\ d \in Target
    BY <1>1
  <2> SUFFICES ASSUME Precedes(f, R, d, c) PROVE FALSE
    BY <1>10, <2>1, PrecedesTotal
  <2>2. Before(f, R, d) \in SUBSET Before(f, R, c)
    BY <2>1, PrecedesTransitive DEF Before
  <2>3. d \in Before(f, R, c) /\ d \notin Before(f, R, d)
    BY <1>1, <2>1, PrecedesIrreflexive DEF Before
  <2>4. place(d) # place(c)
    BY <2>2, <2>3, BeforeFinite, FS_Subset DEF place
  <2>5. place(d) <= place(c)
    BY <1>5, <2>1
  <2>6. place(d) < p
    BY <1>2, <1>9, <2>4, <2>5
  <2>7. place(d) \in places /\ p \in Nat
    BY <1>7 DEF places
  <2> QED BY <1>2, <1>4, <1>8, <2>6, <2>7
<1> QED BY <1>3, <1>9, <1>10 DEF W

(* select_fallback: it finds nothing only if no candidate below the ceiling *)
(* is eligible, and what it finds is one eligible registered target, never  *)
(* the one that failed.                                                     *)
THEOREM ChoiceDecided ==
  ASSUME NEW f, NEW R \in SUBSET Target, NEW n \in Nat, NEW E
  PROVE  \/ /\ SelectFallback(f, R, n, E) = {}
            /\ Considered(f, R, n) \cap E = {}
         \/ \E c \in (R \cap E) \ {f} : SelectFallback(f, R, n, E) = {c}
<1>1. CASE SelectFallback(f, R, n, E) = {}
  BY <1>1, WinnerExists
<1>2. ASSUME NEW c \in SelectFallback(f, R, n, E)
      PROVE  c \in (R \cap E) \ {f} /\ SelectFallback(f, R, n, E) = {c}
  BY <1>2, WinnerUnique
<1> QED BY <1>1, <1>2

(* A winner under one ceiling is the winner under every wider one: what a   *)
(* wider ceiling adds comes after everything considered before.             *)
LEMMA WiderKeepsWinner ==
  ASSUME NEW f, NEW R \in SUBSET Target, NEW n \in Nat, NEW m \in Nat, n <= m, NEW E,
         SelectFallback(f, R, n, E) # {}
  PROVE  SelectFallback(f, R, m, E) = SelectFallback(f, R, n, E)
<1> DEFINE place(c) == Cardinality(Before(f, R, c))
           A(k) == Considered(f, R, k) \cap E
           W(k) == SelectFallback(f, R, k, E)
<1>1. \A k : A(k) = {c \in (R \ {f}) \cap E : place(c) < k}
  BY ConsideredBefore
<1>2. \A k : W(k) = {x \in A(k) : \A y \in A(k) \ {x} : Precedes(f, R, x, y)}
  BY DEF SelectFallback
<1>3. \A c : place(c) \in Nat
  BY BeforeFinite
<1>4. \A a, c \in Target : Precedes(f, R, a, c) => place(a) <= place(c)
  BY BeforeMonotone
<1>5. PICK c : c \in W(n)
  OBVIOUS
<1>6. W(n) = {c} /\ \A d \in W(m) : W(m) = {d}
  BY <1>5, WinnerUnique
<1> HIDE DEF place, A, W
<1>7. c \in A(m) /\ c \in Target /\ place(c) < n
  BY <1>1, <1>2, <1>3, <1>5
<1>8. ASSUME NEW d \in A(m), d # c PROVE Precedes(f, R, c, d)
  <2>1. CASE d \in A(n)
    BY <1>2, <1>5, <1>8, <2>1
  <2>2. CASE d \notin A(n)
    <3>1. d \in Target /\ ~(place(d) < n)
      BY <1>1, <1>8, <2>2
    <3>2. ~Precedes(f, R, d, c)
      BY <1>3, <1>4, <1>7, <3>1
    <3> QED BY <1>7, <1>8, <3>1, <3>2, PrecedesTotal
  <2> QED BY <2>1, <2>2
<1>9. c \in W(m)
  BY <1>2, <1>7, <1>8
<1> QED BY <1>6, <1>9 DEF W

-----------------------------------------------------------------------------
(* Any registration, report or ceiling is covered.                          *)
LEMMA SelectionInvariance == Spec => []SelectionInv
<1>1. Init => SelectionInv
  BY DEF Init, SelectionInv
<1>2. SelectionInv /\ [Next]_vars => SelectionInv'
  BY DescriptorAssumption DEF SelectionInv, Next, vars
<1> QED BY <1>1, <1>2, PTL DEF Spec

(* select_fallback orders the candidates before it cuts the list, so a      *)
(* wider ceiling never takes the choice away from a target that wins.       *)
THEOREM WideningKeeps == Spec => WideningKeepsWinner
<1>1. SelectionInv /\ [Next]_vars
        => [ceiling' # ceiling /\ Winner # {} => Winner' = Winner]_vars
  <2> SUFFICES ASSUME SelectionInv, Next, ceiling' # ceiling, Winner # {}
               PROVE  Winner' = Winner
    BY DEF vars
  <2>1. ceiling' = ceiling + 1 /\ UNCHANGED <<failed, registered, eligible>>
    BY DEF Next
  <2>2. ceiling \in Nat /\ ceiling + 1 \in Nat /\ ceiling <= ceiling + 1
    BY DescriptorAssumption DEF SelectionInv
  <2>3. SelectFallback(failed, registered, ceiling, eligible) # {}
    BY DEF Winner
  <2>4. registered \in SUBSET Target
    BY DEF SelectionInv
  <2>5. SelectFallback(failed, registered, ceiling + 1, eligible)
          = SelectFallback(failed, registered, ceiling, eligible)
    BY <2>2, <2>3, <2>4, WiderKeepsWinner
  <2>6. Winner' = SelectFallback(failed', registered', ceiling', eligible')
    BY DEF Winner
  <2> QED BY <2>1, <2>5, <2>6 DEF Winner
<1> QED BY <1>1, SelectionInvariance, PTL DEF Spec, WideningKeepsWinner
=============================================================================
