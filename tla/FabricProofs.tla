---------------------------- MODULE FabricProofs ----------------------------
(***************************************************************************)
(* The authority the coordinator hands out is consistent, durable and      *)
(* never handed out twice, for every number of services, targets and       *)
(* incarnations, every policy and every pattern of compaction and restart. *)
(*                                                                         *)
(* The argument separates the steps that leave authority alone (`Quiet')   *)
(* from the ones that commit a recovery attempt.                           *)
(***************************************************************************)
EXTENDS Fabric, SequenceTheorems, FiniteSetTheorems, WellFoundedInduction, TLAPS

-----------------------------------------------------------------------------
(* The operators Fabric is built from: what they return and which parts of  *)
(* a record they leave alone.                                               *)

(* A set of naturals that is not empty has a least element.                 *)
LEMMA LeastNatural ==
  ASSUME NEW T \in SUBSET Nat, T # {}
  PROVE  \E n \in T : \A m \in T : n <= m
<1>1. PICK x \in T : \A y \in T : ~(<<y, x>> \in OpToRel(<, Nat))
  BY NatLessThanWellFounded, WFMin
<1>2. \A y \in T : ~(y < x)
  BY <1>1 DEF OpToRel
<1> QED  BY <1>2

(* Identifiers in order: the k-th smallest of a finite set exists, so the   *)
(* list a snapshot is decoded into holds evidence identifiers only.         *)
LEMMA KthSmallest ==
  ASSUME NEW M \in Nat, NEW ids \in SUBSET (1 .. M), NEW k \in 1 .. Cardinality(ids)
  PROVE  \E e \in ids : Cardinality({d \in ids : d < e}) = k - 1
<1> DEFINE Below(n) == {d \in ids : d < n}
           T == {n \in Nat : Cardinality(Below(n)) >= k}
<1>0. \A d \in ids : d \in Nat /\ 0 < d /\ d < M + 1
  OBVIOUS
<1>1. IsFiniteSet(ids) /\ Cardinality(ids) \in Nat
  <2>1. IsFiniteSet(1 .. M)
    BY FS_Interval
  <2>2. IsFiniteSet(ids)
    BY <2>1, FS_Subset
  <2> QED  BY <2>2, FS_CardinalityType
<1>2. \A n \in Nat : IsFiniteSet(Below(n)) /\ Cardinality(Below(n)) \in Nat
  <2>1. \A n \in Nat : Below(n) \in SUBSET ids
    OBVIOUS
  <2>2. \A n \in Nat : IsFiniteSet(Below(n))
    BY <1>1, <2>1, FS_Subset
  <2> QED  BY <2>2, FS_CardinalityType
<1>3. M + 1 \in T
  <2>1. Below(M + 1) = ids
    BY <1>0
  <2> HIDE DEF Below
  <2> QED  BY <2>1, <1>1
<1>4. PICK n \in T : \A m \in T : n <= m
  <2>1. T \in SUBSET Nat /\ T # {}
    BY <1>3
  <2> HIDE DEF T
  <2> QED  BY <2>1, LeastNatural
<1>5. n \in Nat /\ Cardinality(Below(n)) >= k
  BY <1>4
<1>6. n # 0
  <2>1. \A d \in ids : ~(d < 0)
    BY <1>0
  <2>2. Below(0) = {}
    BY <2>1
  <2>3. Cardinality(Below(0)) = 0
    BY <2>2, FS_EmptySet
  <2> HIDE DEF Below
  <2> QED  BY <2>3, <1>5
<1>7. n - 1 \in Nat /\ n - 1 \notin T
  BY <1>4, <1>5, <1>6
<1>8. n - 1 \notin Below(n - 1)
  BY <1>7
<1>9. /\ n - 1 \in ids => Below(n) = Below(n - 1) \cup {n - 1}
      /\ n - 1 \notin ids => Below(n) = Below(n - 1)
  <2>1. \A d \in ids : d < n <=> (d < n - 1 \/ d = n - 1)
    BY <1>0, <1>7, <1>5
  <2> QED  BY <2>1
<1>10. Cardinality(Below(n - 1)) \in Nat /\ Cardinality(Below(n - 1)) < k
  BY <1>7, <1>2
<1> HIDE DEF Below
<1>11. n - 1 \in ids /\ Cardinality(Below(n - 1)) = k - 1
  <2>1. CASE n - 1 \notin ids
    BY <2>1, <1>9, <1>10, <1>5
  <2>2. CASE n - 1 \in ids
    <3>1. Cardinality(Below(n)) = Cardinality(Below(n - 1)) + 1
      BY <2>2, <1>8, <1>9, <1>2, <1>7, FS_AddElement
    <3> QED  BY <3>1, <2>2, <1>10, <1>5
  <2> QED  BY <2>1, <2>2
<1> QED  BY <1>11 DEF Below

(* A snapshot lists its evidence as a sequence of the retained identifiers. *)
LEMMA InIdOrderType ==
  ASSUME NEW M \in Nat, NEW ids \in SUBSET (1 .. M)
  PROVE  InIdOrder(ids) \in Seq(ids)
<1> DEFINE At(k) == CHOOSE e \in ids : Cardinality({d \in ids : d < e}) = k - 1
<1>1. Cardinality(ids) \in Nat
  <2>1. IsFiniteSet(1 .. M)
    BY FS_Interval
  <2> QED  BY <2>1, FS_Subset, FS_CardinalityType
<1>2. \A k \in 1 .. Cardinality(ids) : At(k) \in ids
  BY KthSmallest
<1>3. InIdOrder(ids) = [k \in 1 .. Cardinality(ids) |-> At(k)]
  BY DEF InIdOrder
<1> HIDE DEF At
<1> QED  BY <1>1, <1>2, <1>3, IsASeq

-----------------------------------------------------------------------------
(* Runtime `a' has the authority of runtime `b': same placement, counters   *)
(* and attempt identities, and it is registered if `b' is.                  *)
SameAuthority(a, b) ==
  /\ a.lifecycle = "Unregistered" => b.lifecycle = "Unregistered"
  /\ a.active = b.active
  /\ a.fence = b.fence
  /\ a.generation = b.generation
  /\ a.lease_term = b.lease_term
  /\ a.current_attempt = b.current_attempt
  /\ Len(a.history) = Len(b.history)
  /\ \A k \in 1 .. Len(b.history) :
       /\ a.history[k].id = b.history[k].id /\ a.history[k].to = b.history[k].to
       /\ a.history[k].from = b.history[k].from

(* Dropping claims keeps the authority.                                     *)
LEMMA InvalidateVerificationFacts ==
  ASSUME NEW rt \in ServiceRuntime
  PROVE  /\ InvalidateVerification(rt) \in ServiceRuntime
         /\ SameAuthority(InvalidateVerification(rt), rt)
         /\ InvalidateVerification(rt).history = rt.history
  BY DEF InvalidateVerification, ServiceRuntime, SameAuthority, ContinuityClass

(* So does waiting for an operator.                                         *)
LEMMA AwaitOperatorFacts ==
  ASSUME NEW rt \in ServiceRuntime, NEW e \in Nat
  PROVE  /\ AwaitOperator(rt, e) \in ServiceRuntime
         /\ SameAuthority(AwaitOperator(rt, e), rt)
<1> DEFINE mid == [rt EXCEPT !.ambiguity_pending = TRUE, !.pending_ambiguity = e,
                    !.recovery = "AmbiguityPending",
                    !.lifecycle = "RecoveryPending"]
<1>1. mid \in ServiceRuntime /\ SameAuthority(mid, rt)
  BY DEF ServiceRuntime, SameAuthority, RecoveryPhase, LifecyclePhase
<1>2. AwaitOperator(rt, e) = InvalidateVerification(mid)
  BY DEF AwaitOperator
<1> HIDE DEF mid
<1>3. InvalidateVerification(mid) \in ServiceRuntime /\ SameAuthority(InvalidateVerification(mid), mid)
  BY <1>1, InvalidateVerificationFacts
<1> QED  BY <1>1, <1>2, <1>3 DEF SameAuthority

(* Replacing an attempt by one with the same identity and placement keeps   *)
(* a history what it is.                                                    *)
LEMMA HistoryUpdate ==
  ASSUME NEW h \in AttemptHistory, NEW k \in 1 .. Len(h), NEW a \in AttemptRecord,
         a.id = h[k].id, a.to = h[k].to, a.from = h[k].from
  PROVE  /\ [h EXCEPT ![k] = a] \in AttemptHistory
         /\ Len([h EXCEPT ![k] = a]) = Len(h)
         /\ \A j \in 1 .. Len(h) : /\ [h EXCEPT ![k] = a][j].id = h[j].id
                                   /\ [h EXCEPT ![k] = a][j].to = h[j].to
                                   /\ [h EXCEPT ![k] = a][j].from = h[j].from
<1> DEFINE g == [h EXCEPT ![k] = a]
<1>1. h \in Seq(AttemptRecord) /\ Len(h) <= MaxHistory
  BY DEF AttemptHistory
<1>2. g \in Seq(AttemptRecord) /\ Len(g) = Len(h)
  BY <1>1, ExceptSeq
<1>3. \A j \in 1 .. Len(h) : g[j] = IF j = k THEN a ELSE h[j]
  BY <1>1
<1> HIDE DEF g
<1>4. g \in AttemptHistory
  BY <1>1, <1>2 DEF AttemptHistory
<1>5. \A j \in 1 .. Len(h) : /\ g[j].id = h[j].id /\ g[j].to = h[j].to
                              /\ g[j].from = h[j].from
  BY <1>3
<1> QED  BY <1>2, <1>4, <1>5 DEF g

(* A new history with the same identities, and new phases, keep authority.  *)
LEMMA RephasedRuntime ==
  ASSUME NEW rt \in ServiceRuntime, NEW h \in AttemptHistory,
         NEW rec \in RecoveryPhase, NEW life \in LifecyclePhase,
         life = "Unregistered" => rt.lifecycle = "Unregistered",
         Len(h) = Len(rt.history),
         \A j \in 1 .. Len(rt.history) :
            /\ h[j].id = rt.history[j].id /\ h[j].to = rt.history[j].to
            /\ h[j].from = rt.history[j].from
  PROVE  LET n == [rt EXCEPT !.history = h, !.recovery = rec, !.lifecycle = life]
         IN  n \in ServiceRuntime /\ SameAuthority(n, rt)
  BY DEF ServiceRuntime, SameAuthority

(* New phases and a new continuity class alone keep it too.                 *)
LEMMA ReclassedRuntime ==
  ASSUME NEW rt \in ServiceRuntime, NEW life \in LifecyclePhase,
         NEW rec \in RecoveryPhase, NEW class \in ContinuityClass,
         life = "Unregistered" => rt.lifecycle = "Unregistered"
  PROVE  LET n == [rt EXCEPT !.lifecycle = life, !.recovery = rec, !.continuity = class]
         IN  n \in ServiceRuntime /\ SameAuthority(n, rt)
  BY DEF ServiceRuntime, SameAuthority

(* An answer keeps the identity and the placement of an attempt.            *)
LEMMA AnsweredFacts ==
  ASSUME NEW a \in AttemptRecord, NEW accepted \in BOOLEAN
  PROVE  /\ Answered(a, accepted) \in AttemptRecord
         /\ Answered(a, accepted).id = a.id
         /\ Answered(a, accepted).to = a.to
         /\ Answered(a, accepted).from = a.from
  BY DEF Answered, AttemptRecord, AttemptOutcome

(* An acknowledgement keeps the authority.                                  *)
LEMMA AckedRuntimeFacts ==
  ASSUME NEW rt \in ServiceRuntime, NEW k \in DOMAIN rt.history,
         NEW accepted \in BOOLEAN
  PROVE  /\ AckedRuntime(rt, k, accepted) \in ServiceRuntime
         /\ SameAuthority(AckedRuntime(rt, k, accepted), rt)
<1> DEFINE h == [rt.history EXCEPT ![k] = Answered(rt.history[k], accepted)]
           rec == IF accepted
                  THEN IF rt.recovery \in {"Verified", "EffectReported"}
                       THEN rt.recovery ELSE "ActivationRequested"
                  ELSE "Refused"
           life == IF accepted THEN rt.lifecycle ELSE "Failed"
           n == [rt EXCEPT !.history = h, !.recovery = rec, !.lifecycle = life]
<1>1. /\ rt.history \in AttemptHistory
      /\ k \in 1 .. Len(rt.history)
      /\ rt.history[k] \in AttemptRecord
  BY DEF ServiceRuntime, AttemptHistory
<1>2. /\ h \in AttemptHistory
      /\ Len(h) = Len(rt.history)
      /\ \A j \in 1 .. Len(rt.history) :
            /\ h[j].id = rt.history[j].id /\ h[j].to = rt.history[j].to
            /\ h[j].from = rt.history[j].from
  BY <1>1, AnsweredFacts, HistoryUpdate
<1>3. /\ rec \in RecoveryPhase /\ life \in LifecyclePhase
      /\ life = "Unregistered" => rt.lifecycle = "Unregistered"
  BY DEF ServiceRuntime, RecoveryPhase, LifecyclePhase
<1>4. AckedRuntime(rt, k, accepted) = IF accepted THEN n ELSE InvalidateVerification(n)
  BY DEF AckedRuntime, ServiceRuntime
<1> HIDE DEF h, rec, life
<1>5. n \in ServiceRuntime /\ SameAuthority(n, rt)
  BY <1>2, <1>3, RephasedRuntime
<1> HIDE DEF n
<1>6. InvalidateVerification(n) \in ServiceRuntime /\ SameAuthority(InvalidateVerification(n), n)
  BY <1>5, InvalidateVerificationFacts
<1> QED  BY <1>4, <1>5, <1>6 DEF SameAuthority

(* A restart keeps the authority of every service.                          *)
LEMMA DowngradedFacts ==
  ASSUME NEW rt \in ServiceRuntime
  PROVE  /\ Downgraded(rt) \in ServiceRuntime
         /\ SameAuthority(Downgraded(rt), rt)
<1> DEFINE Aged(a) == IF a.acknowledged THEN a ELSE [a EXCEPT !.outcome = "OutcomeUnknown"]
           h == [k \in DOMAIN rt.history |-> Aged(rt.history[k])]
           rec == IF InFlight(rt) THEN "IntentRecorded" ELSE rt.recovery
           life == IF InFlight(rt) \/ rt.recovery = "AmbiguityPending"
                   THEN "RecoveryPending" ELSE rt.lifecycle
           n == [rt EXCEPT !.history = h, !.recovery = rec, !.lifecycle = life]
<1>1. rt.history \in Seq(AttemptRecord) /\ Len(rt.history) <= MaxHistory
      /\ Len(rt.history) \in Nat /\ DOMAIN rt.history = 1 .. Len(rt.history)
  BY DEF ServiceRuntime, AttemptHistory
<1>2. ASSUME NEW a \in AttemptRecord
      PROVE  Aged(a) \in AttemptRecord /\ Aged(a).id = a.id /\ Aged(a).to = a.to
             /\ Aged(a).from = a.from
  BY DEF AttemptRecord, AttemptOutcome
<1>3. PushedBack(rt) = n
  BY DEF PushedBack
<1> HIDE DEF Aged
<1>4. \A k \in 1 .. Len(rt.history) : Aged(rt.history[k]) \in AttemptRecord
  BY <1>1, <1>2
<1>5. h \in Seq(AttemptRecord) /\ Len(h) = Len(rt.history)
  BY <1>1, <1>4, IsASeq
<1>6. \A j \in 1 .. Len(rt.history) :
        /\ h[j].id = rt.history[j].id /\ h[j].to = rt.history[j].to
        /\ h[j].from = rt.history[j].from
  BY <1>1, <1>2
<1>7. /\ rec \in RecoveryPhase /\ life \in LifecyclePhase
      /\ life = "Unregistered" => rt.lifecycle = "Unregistered"
  BY DEF ServiceRuntime, RecoveryPhase, LifecyclePhase
<1> HIDE DEF h, rec, life
<1>8. h \in AttemptHistory
  BY <1>1, <1>5 DEF AttemptHistory
<1>9. n \in ServiceRuntime /\ SameAuthority(n, rt)
  BY <1>5, <1>6, <1>7, <1>8, RephasedRuntime
<1> HIDE DEF n
<1>10. InvalidateVerification(n) \in ServiceRuntime /\ SameAuthority(InvalidateVerification(n), n)
  BY <1>9, InvalidateVerificationFacts
<1> QED  BY <1>3, <1>9, <1>10 DEF SameAuthority, Downgraded

-----------------------------------------------------------------------------
(* The record of the current attempt is the last one, and it names the      *)
(* placement in force.                                                      *)
HistoryCurrent(rt) ==
  rt.history # <<>> =>
    /\ rt.history[Len(rt.history)].id = rt.current_attempt
    /\ rt.history[Len(rt.history)].to = rt.active

(* Keeping the authority keeps the last record current.                     *)
LEMMA SameAuthorityKeepsHistoryCurrent ==
  ASSUME NEW a \in ServiceRuntime, NEW b \in ServiceRuntime,
         SameAuthority(a, b), HistoryCurrent(b)
  PROVE  HistoryCurrent(a)
<1>1. /\ a.history \in Seq(AttemptRecord) /\ b.history \in Seq(AttemptRecord)
      /\ Len(a.history) = Len(b.history)
  BY DEF ServiceRuntime, AttemptHistory, SameAuthority
<1>2. SUFFICES ASSUME a.history # <<>>
               PROVE  /\ a.history[Len(a.history)].id = a.current_attempt
                      /\ a.history[Len(a.history)].to = a.active
  BY DEF HistoryCurrent
<1>3. b.history # <<>> /\ Len(b.history) \in 1 .. Len(b.history)
  BY <1>1, <1>2
<1> QED  BY <1>1, <1>3 DEF SameAuthority, HistoryCurrent

(* What do_request_failover resumes is the attempt in force.                *)
LEMMA CurrentRecordFacts ==
  ASSUME NEW rt \in ServiceRuntime, HistoryCurrent(rt), NEW k \in CurrentRecords(rt)
  PROVE  /\ k \in 1 .. Len(rt.history)
         /\ rt.history[k] \in AttemptRecord
         /\ rt.history[k].id = rt.current_attempt
         /\ rt.history[k].to = rt.active
         /\ k = Len(rt.history) /\ rt.history # <<>>
<1>1. rt.history \in Seq(AttemptRecord)
  BY DEF ServiceRuntime, AttemptHistory
<1>2. k \in 1 .. Len(rt.history) /\ rt.history[k].id = rt.current_attempt
  BY <1>1 DEF CurrentRecords
<1>3. rt.history # <<>> /\ Len(rt.history) \in DOMAIN rt.history
  BY <1>1, <1>2
<1>4. Len(rt.history) <= k
  BY <1>3 DEF CurrentRecords, HistoryCurrent
<1>5. k = Len(rt.history)
  BY <1>1, <1>2, <1>4
<1> QED  BY <1>1, <1>2, <1>3, <1>5 DEF HistoryCurrent

(* A bounded append ends with what was appended.                            *)
LEMMA AppendAttemptFacts ==
  ASSUME NEW h \in AttemptHistory, NEW a \in AttemptRecord
  PROVE  /\ AppendAttempt(h, a) \in AttemptHistory
         /\ AppendAttempt(h, a) # <<>>
         /\ AppendAttempt(h, a)[Len(AppendAttempt(h, a))] = a
<1> DEFINE l == Append(h, a)
<1>0. MaxHistory \in Nat \ {0}
  BY FabricAssumption
<1>1. h \in Seq(AttemptRecord) /\ Len(h) <= MaxHistory /\ Len(h) \in Nat
  BY DEF AttemptHistory
<1>2. /\ l \in Seq(AttemptRecord) /\ l # <<>> /\ Len(l) = Len(h) + 1
      /\ l[Len(l)] = a
  BY <1>1, AppendProperties
<1>3. AppendAttempt(h, a) = IF Len(l) > MaxHistory THEN Tail(l) ELSE l
  BY DEF AppendAttempt
<1> HIDE DEF l
<1>4. /\ Tail(l) \in Seq(AttemptRecord)
      /\ Len(Tail(l)) = Len(l) - 1
      /\ \A i \in 1 .. Len(Tail(l)) : Tail(l)[i] = l[i + 1]
  BY <1>2, HeadTailProperties
<1>5. CASE Len(l) > MaxHistory
  <2>1. AppendAttempt(h, a) = Tail(l) /\ Len(Tail(l)) = MaxHistory
    BY <1>0, <1>1, <1>2, <1>3, <1>4, <1>5
  <2>2. Tail(l)[Len(Tail(l))] = a
    BY <2>1, <1>0, <1>2, <1>4
  <2>3. Tail(l) # <<>>
    BY <2>1, <1>0, <1>4
  <2> QED  BY <2>1, <2>2, <2>3, <1>0, <1>4 DEF AttemptHistory
<1>6. CASE ~(Len(l) > MaxHistory)
  BY <1>0, <1>1, <1>2, <1>3, <1>6 DEF AttemptHistory
<1> QED  BY <1>5, <1>6

(* A resume refreshes a retained attempt and keeps every identity.          *)
LEMMA ReissuedFacts ==
  ASSUME NEW h \in AttemptHistory, NEW id, NEW k \in 1 .. Len(h), h[k].id = id
  PROVE  /\ Reissued(h, id) \in AttemptHistory
         /\ Len(Reissued(h, id)) = Len(h)
         /\ \A j \in 1 .. Len(h) : /\ Reissued(h, id)[j].id = h[j].id
                                   /\ Reissued(h, id)[j].to = h[j].to
                                   /\ Reissued(h, id)[j].from = h[j].from
<1> DEFINE T == {j \in 1 .. Len(h) : h[j].id = id}
           F(j) == h[j].id = id /\ \A i \in 1 .. j - 1 : h[i].id # id
           first == CHOOSE j \in DOMAIN h : F(j)
           a == [h[first] EXCEPT !.acknowledged = FALSE, !.outcome = "Committed"]
<1>1. h \in Seq(AttemptRecord) /\ DOMAIN h = 1 .. Len(h)
  BY DEF AttemptHistory
<1>2. PICK n \in T : \A m \in T : n <= m
  <2>1. T \in SUBSET Nat /\ T # {}
    BY <1>1
  <2> HIDE DEF T
  <2> QED  BY <2>1, LeastNatural
<1>3. n \in DOMAIN h /\ F(n)
  BY <1>1, <1>2
<1>4. first \in DOMAIN h /\ F(first)
  BY <1>3
<1>5. Reissued(h, id) = [h EXCEPT ![first] = a]
  BY <1>1 DEF Reissued
<1> HIDE DEF first
<1>6. h[first] \in AttemptRecord /\ first \in 1 .. Len(h)
  BY <1>1, <1>4
<1>7. /\ a \in AttemptRecord /\ a.id = h[first].id /\ a.to = h[first].to
      /\ a.from = h[first].from
  BY <1>6 DEF AttemptRecord, AttemptOutcome
<1> HIDE DEF a
<1>8. /\ [h EXCEPT ![first] = a] \in AttemptHistory
      /\ Len([h EXCEPT ![first] = a]) = Len(h)
      /\ \A j \in 1 .. Len(h) : /\ [h EXCEPT ![first] = a][j].id = h[j].id
                                /\ [h EXCEPT ![first] = a][j].to = h[j].to
                                /\ [h EXCEPT ![first] = a][j].from = h[j].from
  BY <1>6, <1>7, HistoryUpdate
<1> QED  BY <1>5, <1>8, Zenon

-----------------------------------------------------------------------------
CommitMode == {"InitialPlacement", "Failover", "Resume"}

(* An attempt record exists for the identity a resume reuses.               *)
Resumable(rt) ==
  \E k \in 1 .. Len(rt.history) : rt.history[k].id = rt.current_attempt

(* The identity of a committed attempt has its type.                        *)
LEMMA NextIdentityTypes ==
  ASSUME TypeOK, NEW s \in Service, NEW mode \in CommitMode,
         mode = "Resume" => Resumable(services[s])
  PROVE  /\ NextAttempt(s, mode) \in Nat \ {0}
         /\ NextGeneration(s, mode) \in Nat
         /\ NextFence(s, mode) \in Nat
         /\ NextTerm(s, mode) \in Nat
<1>1. services[s] \in ServiceRuntime /\ fences[s] \in FenceRecord
      /\ next_attempt_id \in Nat \ {0}
  BY DEF TypeOK, MemoryTypeOK
<1>2. ASSUME mode = "Resume"
      PROVE  services[s].current_attempt \in Nat \ {0}
  <2>1. PICK k \in 1 .. Len(services[s].history) :
               services[s].history[k].id = services[s].current_attempt
    BY <1>2 DEF Resumable
  <2>2. services[s].history[k] \in AttemptRecord
    BY <1>1, <2>1 DEF ServiceRuntime, AttemptHistory
  <2> QED  BY <2>1, <2>2 DEF AttemptRecord
<1> QED  BY <1>1, <1>2 DEF NextAttempt, NextGeneration, NextFence, NextTerm,
                          ServiceRuntime, FenceRecord

(* The history a commit leaves ends with the attempt it commits; a resume   *)
(* keeps every identity in it.                                              *)
LEMMA NextHistoryFacts ==
  ASSUME TypeOK, NEW s \in Service, NEW to \in TargetRef, NEW from \in OptionalRef,
         NEW mode \in CommitMode, mode = "Resume" => Resumable(services[s])
  PROVE  /\ NextHistory(s, to, from, mode) \in AttemptHistory
         /\ mode # "Resume" =>
              LET h == NextHistory(s, to, from, mode) IN
              /\ h[Len(h)].id = NextAttempt(s, mode) /\ h[Len(h)].to = to
              /\ h[Len(h)].from = from
         /\ mode = "Resume" =>
              LET h == NextHistory(s, to, from, mode) IN
              /\ Len(h) = Len(services[s].history)
              /\ \A j \in 1 .. Len(services[s].history) :
                   /\ h[j].id = services[s].history[j].id
                   /\ h[j].to = services[s].history[j].to
                   /\ h[j].from = services[s].history[j].from
<1> DEFINE old == services[s].history
           a == [id |-> NextAttempt(s, mode), fence |-> NextFence(s, mode),
                 from |-> from, to |-> to, acknowledged |-> FALSE,
                 outcome |-> "Committed"]
<1>1. old \in AttemptHistory
  BY DEF TypeOK, MemoryTypeOK, ServiceRuntime
<1>2. CASE mode = "Resume"
  <2>1. PICK k \in 1 .. Len(old) : old[k].id = services[s].current_attempt
    BY <1>2 DEF Resumable
  <2>2. NextHistory(s, to, from, mode) = Reissued(old, services[s].current_attempt)
    BY <1>2 DEF NextHistory
  <2> HIDE DEF old
  <2>3. /\ Reissued(old, services[s].current_attempt) \in AttemptHistory
        /\ Len(Reissued(old, services[s].current_attempt)) = Len(old)
        /\ \A j \in 1 .. Len(old) :
             /\ Reissued(old, services[s].current_attempt)[j].id = old[j].id
             /\ Reissued(old, services[s].current_attempt)[j].to = old[j].to
             /\ Reissued(old, services[s].current_attempt)[j].from = old[j].from
    BY <1>1, <2>1, ReissuedFacts
  <2> QED  BY <1>2, <2>2, <2>3 DEF old
<1>3. CASE mode # "Resume"
  <2>1. /\ a \in AttemptRecord /\ a.id = NextAttempt(s, mode) /\ a.to = to
        /\ a.from = from
    BY NextIdentityTypes DEF AttemptRecord, AttemptOutcome
  <2>2. NextHistory(s, to, from, mode) = AppendAttempt(old, a)
    BY <1>3 DEF NextHistory
  <2> HIDE DEF old, a
  <2>3. /\ AppendAttempt(old, a) \in AttemptHistory
        /\ AppendAttempt(old, a)[Len(AppendAttempt(old, a))] = a
    BY <1>1, <2>1, AppendAttemptFacts
  <2> QED  BY <1>3, <2>1, <2>2, <2>3
<1> QED  BY <1>2, <1>3

(* What commit_recovery leaves in the runtime.                              *)
LEMMA CommittedRuntimeFacts ==
  ASSUME TypeOK, NEW s \in Service, NEW to \in TargetRef, NEW from \in OptionalRef,
         NEW mode \in CommitMode, mode = "Resume" => Resumable(services[s])
  PROVE  LET n == CommittedRuntime(s, to, from, mode) IN
         /\ n \in ServiceRuntime
         /\ n.lifecycle # "Unregistered"
         /\ n.active = to
         /\ n.fence = NextFence(s, mode)
         /\ n.generation = NextGeneration(s, mode)
         /\ n.lease_term = NextTerm(s, mode)
         /\ n.current_attempt = NextAttempt(s, mode)
         /\ n.history = NextHistory(s, to, from, mode)
<1> DEFINE old == InvalidateVerification(services[s])
           moved == old.pre_failover_target = NoRef /\ from # NoRef
           first == mode = "InitialPlacement"
           cap == IF moved THEN capabilities[from.target].generation
                  ELSE old.pre_failover_capability
           h == NextHistory(s, to, from, mode)
           f == NextFence(s, mode)
           g == NextGeneration(s, mode)
           l == NextTerm(s, mode)
           id == NextAttempt(s, mode)
<1>1. old \in ServiceRuntime
  BY InvalidateVerificationFacts DEF TypeOK, MemoryTypeOK
<1>2. h \in AttemptHistory
  BY NextHistoryFacts
<1>3. id \in Nat \ {0} /\ g \in Nat /\ f \in Nat /\ l \in Nat
  BY NextIdentityTypes
<1>4. cap \in Nat
  <2>1. CASE moved
    <3>1. from.target \in Target
      BY <2>1 DEF OptionalRef, TargetRef
    <3>2. capabilities[from.target] \in CapabilitySlot \cup {NoSlot}
      BY <3>1 DEF TypeOK, MemoryTypeOK
    <3> QED  BY <2>1, <3>2 DEF CapabilitySlot, NoSlot
  <2>2. CASE ~moved
    BY <2>2, <1>1 DEF ServiceRuntime
  <2> QED  BY <2>1, <2>2
<1>5. NoRef \in OptionalRef /\ to \in OptionalRef
  BY DEF OptionalRef
<1> DEFINE count == IF first THEN old.attempts_since_verified
                    ELSE old.attempts_since_verified + 1
           rec == IF first THEN "IntentRecorded" ELSE "Authorized"
           life == IF first THEN "Active" ELSE "RecoveryAuthorized"
           recorded == ~first
           origin == IF first THEN NoRef
                     ELSE IF moved THEN from ELSE old.pre_failover_target
           n == CommittedRuntime(s, to, from, mode)
<1>6. n = [old EXCEPT
             !.history = h, !.generation = g, !.fence = f, !.lease_term = l,
             !.current_attempt = id, !.attempts_since_verified = count,
             !.active = to, !.recovery = rec, !.lifecycle = life,
             !.failover_recorded = recorded, !.ambiguity_pending = FALSE,
             !.pending_ambiguity = 0, !.pre_failover_target = origin,
             !.pre_failover_capability = cap]
  BY DEF CommittedRuntime
<1>7. /\ count \in Nat /\ rec \in RecoveryPhase /\ life \in LifecyclePhase
      /\ recorded \in BOOLEAN /\ origin \in OptionalRef
  <2>1. old.attempts_since_verified \in Nat /\ old.pre_failover_target \in OptionalRef
    BY <1>1 DEF ServiceRuntime
  <2> HIDE DEF old, moved, cap, h, f, g, l, id
  <2>2. count \in Nat
    BY <2>1
  <2>3. rec \in RecoveryPhase /\ life \in LifecyclePhase
    BY DEF RecoveryPhase, LifecyclePhase
  <2>4. recorded \in BOOLEAN
    OBVIOUS
  <2>5. origin \in OptionalRef
    BY <2>1, <1>5
  <2> QED  BY <2>2, <2>3, <2>4, <2>5
<1> HIDE DEF old, moved, first, cap, h, f, g, l, id, count, rec, life, recorded, origin, n
<1>8. n \in ServiceRuntime
  <2> DEFINE a == [old EXCEPT !.history = h, !.generation = g, !.fence = f,
                              !.lease_term = l, !.current_attempt = id]
             b == [a EXCEPT !.attempts_since_verified = count, !.active = to,
                            !.recovery = rec, !.lifecycle = life]
             c == [b EXCEPT !.failover_recorded = recorded, !.ambiguity_pending = FALSE,
                            !.pending_ambiguity = 0, !.pre_failover_target = origin,
                            !.pre_failover_capability = cap]
  <2>1. a \in ServiceRuntime
    BY <1>1, <1>2, <1>3 DEF ServiceRuntime
  <2>2. n = c
    BY <1>6
  <2> HIDE DEF a
  <2>3. b \in ServiceRuntime
    BY <2>1, <1>5, <1>7 DEF ServiceRuntime
  <2> HIDE DEF b
  <2>4. c \in ServiceRuntime
    BY <2>3, <1>4, <1>7 DEF ServiceRuntime
  <2> QED  BY <2>2, <2>4
<1>9. /\ n.lifecycle = life /\ n.active = to /\ n.fence = f /\ n.generation = g
      /\ n.lease_term = l /\ n.current_attempt = id /\ n.history = h
  BY <1>1, <1>6 DEF ServiceRuntime
<1>10. life # "Unregistered"
  BY DEF life
<1> QED  BY <1>8, <1>9, <1>10 DEF h, f, g, l, id, n

(* The committed attempt is the current one, whichever way it came about.   *)
LEMMA CommittedHistoryCurrent ==
  ASSUME TypeOK, NEW s \in Service, NEW to \in TargetRef, NEW from \in OptionalRef,
         NEW mode \in CommitMode, mode = "Resume" => Resumable(services[s]),
         mode = "Resume" => HistoryCurrent(services[s]) /\ to = services[s].active
  PROVE  HistoryCurrent(CommittedRuntime(s, to, from, mode))
<1> DEFINE n == CommittedRuntime(s, to, from, mode)
           h == NextHistory(s, to, from, mode)
<1>1. /\ n.active = to
      /\ n.current_attempt = NextAttempt(s, mode)
      /\ n.history = h
  BY CommittedRuntimeFacts
<1> HIDE DEF n
<1>2. CASE mode # "Resume"
  <2>1. h[Len(h)].id = NextAttempt(s, mode) /\ h[Len(h)].to = to
    BY <1>2, NextHistoryFacts
  <2> HIDE DEF h
  <2> QED  BY <2>1, <1>1 DEF n, HistoryCurrent
<1>3. CASE mode = "Resume"
  <2>1. /\ Len(h) = Len(services[s].history)
        /\ \A j \in 1 .. Len(services[s].history) :
             /\ h[j].id = services[s].history[j].id
             /\ h[j].to = services[s].history[j].to
    BY <1>3, NextHistoryFacts
  <2> HIDE DEF h
  <2>2. services[s].history \in Seq(AttemptRecord)
    BY DEF TypeOK, MemoryTypeOK, ServiceRuntime, AttemptHistory
  <2>3. /\ Len(services[s].history) \in 1 .. Len(services[s].history)
        /\ services[s].history # <<>>
    <3>1. PICK k \in 1 .. Len(services[s].history) : TRUE
      BY <1>3 DEF Resumable
    <3> QED  BY <3>1, <2>2
  <2>4. NextAttempt(s, mode) = services[s].current_attempt
    BY <1>3 DEF NextAttempt
  <2> QED  BY <1>1, <1>3, <2>1, <2>3, <2>4 DEF n, HistoryCurrent
<1> QED  BY <1>2, <1>3

-----------------------------------------------------------------------------
(* The durable image.                                                       *)

FailureMap == [EvidenceId -> FailureEvidence \cup {NoEvidence}]

(* A snapshot of well-typed parts is a well-typed image.                    *)
LEMMA SnapshotImage ==
  ASSUME NEW ep \in Nat, NEW fs \in FailureMap, NEW ne \in Nat \ {0},
         NEW svcs \in [Service -> ServiceRuntime],
         NEW fns \in [Service -> FenceRecord],
         NEW ws \in [Service -> [Target -> Nat]], NEW na \in Nat \ {0},
         NEW ok \in BOOLEAN
  PROVE  [epoch |-> ep, failures |-> fs,
          failure_order |-> InIdOrder(RetainedIn(fs)), next_evidence_id |-> ne,
          latest_failure |-> [s \in Service |-> 0], services |-> svcs,
          fences |-> fns, witnesses |-> ws, next_attempt_id |-> na,
          decodable |-> ok] \in Image
<1>1. MaxEvidence \in Nat
  BY FabricAssumption
<1>2. RetainedIn(fs) \in SUBSET (1 .. MaxEvidence)
  BY DEF RetainedIn, EvidenceId
<1>3. InIdOrder(RetainedIn(fs)) \in Seq(RetainedIn(fs))
  BY <1>1, <1>2, InIdOrderType
<1>4. InIdOrder(RetainedIn(fs)) \in Seq(EvidenceId)
  BY <1>2, <1>3, SeqMonotonic DEF EvidenceId
<1>5. [s \in Service |-> 0] \in [Service -> {0} \cup EvidenceId]
  OBVIOUS
<1> QED  BY <1>4, <1>5 DEF Image, FailureMap

(* Whatever an operation writes, record or snapshot, is a well-typed image. *)
LEMMA PersistType ==
  ASSUME MemoryTypeOK', NEW journaled \in Image, Persist(journaled)
  PROVE  disk' \in Image
<1> DEFINE ok == (Cardinality(RetainedIn(failures)) <= MaxRetained)'
<1>1. CASE disk' = journaled
  BY <1>1
<1>2. CASE disk' = Snapshot(services)'
  <2>1. ok \in BOOLEAN
    OBVIOUS
  <2>2. /\ epoch' \in Nat /\ failures' \in FailureMap /\ next_evidence_id' \in Nat \ {0}
        /\ services' \in [Service -> ServiceRuntime]
        /\ fences' \in [Service -> FenceRecord]
        /\ witnesses' \in [Service -> [Target -> Nat]]
        /\ next_attempt_id' \in Nat \ {0}
    BY DEF MemoryTypeOK, FailureMap
  <2>3. Snapshot(services)' =
          [epoch |-> epoch', failures |-> failures',
           failure_order |-> InIdOrder(RetainedIn(failures')),
           next_evidence_id |-> next_evidence_id',
           latest_failure |-> [s \in Service |-> 0], services |-> services',
           fences |-> fences', witnesses |-> witnesses',
           next_attempt_id |-> next_attempt_id', decodable |-> ok]
    BY DEF Snapshot
  <2> HIDE DEF ok
  <2>4. [epoch |-> epoch', failures |-> failures',
         failure_order |-> InIdOrder(RetainedIn(failures')),
         next_evidence_id |-> next_evidence_id',
         latest_failure |-> [s \in Service |-> 0], services |-> services',
         fences |-> fences', witnesses |-> witnesses',
         next_attempt_id |-> next_attempt_id', decodable |-> ok] \in Image
    BY <2>1, <2>2, SnapshotImage
  <2> QED  BY <1>2, <2>3, <2>4, Zenon
<1> QED  BY <1>1, <1>2 DEF Persist

(* Replaying a runtime record changes one service of the image.             *)
LEMMA JournalRuntimeType ==
  ASSUME NEW image \in Image, NEW s \in Service, NEW rt \in ServiceRuntime
  PROVE  /\ JournalRuntime(image, s, rt) \in Image
         /\ JournalRuntime(image, s, rt).services = [image.services EXCEPT ![s] = rt]
         /\ JournalRuntime(image, s, rt).fences = image.fences
         /\ JournalRuntime(image, s, rt).witnesses = image.witnesses
  BY DEF JournalRuntime, Image

(* Replaying a failure record leaves the authority in the image alone.      *)
LEMMA JournalFailureType ==
  ASSUME NEW image \in Image, NEW e \in EvidenceId, NEW obs \in FailureEvidence
  PROVE  /\ JournalFailure(image, e, obs) \in Image
         /\ JournalFailure(image, e, obs).services = image.services
         /\ JournalFailure(image, e, obs).fences = image.fences
         /\ JournalFailure(image, e, obs).witnesses = image.witnesses
<1>1. image.failure_order \in Seq(EvidenceId)
  BY DEF Image
<1>2. Append(image.failure_order, e) \in Seq(EvidenceId)
  BY <1>1, AppendProperties
<1>3. obs.service \in Service
  BY DEF FailureEvidence
<1> QED  BY <1>2, <1>3 DEF JournalFailure, Image

(* The number of evicted observations is well defined.                      *)
LEMMA EvictedType ==
  ASSUME failure_order \in Seq(EvidenceId)
  PROVE  Evicted \in 0 .. Len(failure_order)
<1> DEFINE dropped(n) == {failure_order[k] : k \in 1 .. n}
           fits(n) == \/ n = Len(failure_order)
                      \/ Cardinality(RetainedIn(failures) \ dropped(n)) < MaxRetained
           T == {n \in 0 .. Len(failure_order) : fits(n)}
<1>1. Len(failure_order) \in T
  OBVIOUS
<1>2. PICK n \in T : \A m \in T : n <= m
  <2>1. T \in SUBSET Nat /\ T # {}
    BY <1>1
  <2> HIDE DEF T
  <2> QED  BY <2>1, LeastNatural
<1>3. n \in 0 .. Len(failure_order) /\ fits(n) /\ \A m \in 0 .. n - 1 : ~fits(m)
  <2> HIDE DEF fits
  <2> QED  BY <1>2
<1>4. Evicted = CHOOSE j \in 0 .. Len(failure_order) :
                  fits(j) /\ \A m \in 0 .. j - 1 : ~fits(m)
  BY DEF Evicted
<1> HIDE DEF fits
<1> QED  BY <1>3, <1>4

-----------------------------------------------------------------------------
(* The state of the coordinator.                                            *)

(* What holds of a runtime, in memory or on disk: its history ends with the *)
(* attempt in force, that attempt was handed out as an intent, and a        *)
(* service nobody registered has no authority.                              *)
Sound(s, rt) ==
  /\ HistoryCurrent(rt)
  /\ rt.history # <<>> =>
       \E i \in intents : i.service = s /\ i.fence = rt.fence /\ i.to = rt.active
  /\ rt.lifecycle = "Unregistered" =>
       /\ rt.active = NoRef /\ rt.fence = 0 /\ rt.generation = 0
       /\ rt.lease_term = 0 /\ rt.current_attempt = 0 /\ rt.history = <<>>

RuntimesSound ==
  \A s \in Service : Sound(s, services[s]) /\ Sound(s, disk.services[s])

(* An intent is older than the authority in force, or it is that authority. *)
IntentsIdentified ==
  \A i \in intents :
    /\ i.fence <= services[i.service].fence
    /\ i.fence = services[i.service].fence =>
         /\ i.to = services[i.service].active
         /\ i.attempt = services[i.service].current_attempt
         /\ i.generation = services[i.service].generation
         /\ i.lease_term = services[i.service].lease_term

(* The inductive invariant.  Lockstep and GrantsDurable are not          *)
(* inductive alone: a resume copies what the attempt history says and a     *)
(* registration resets a runtime, so both need RuntimesSound.               *)
Inv ==
  TypeOK /\ Lockstep /\ GrantsDurable /\ RuntimesSound /\ IntentsIdentified

-----------------------------------------------------------------------------
(* Steps that leave authority alone.                                        *)

KeepsAuthority(s, rt) ==
  SameAuthority(rt, services[s]) \/ SameAuthority(rt, disk.services[s])

Quiet ==
  /\ fences' = fences /\ witnesses' = witnesses /\ intents' = intents
  /\ disk'.fences = fences /\ disk'.witnesses = witnesses
  /\ \A s \in Service : /\ KeepsAuthority(s, services'[s])
                        /\ KeepsAuthority(s, disk'.services[s])

(* A sound runtime stays sound when its authority is kept.                  *)
LEMMA SoundKept ==
  ASSUME NEW s \in Service, NEW a \in ServiceRuntime, NEW b \in ServiceRuntime,
         SameAuthority(a, b), Sound(s, b)
  PROVE  Sound(s, a)
<1>1. HistoryCurrent(a)
  BY SameAuthorityKeepsHistoryCurrent DEF Sound
<1>2. (a.history # <<>>) <=> (b.history # <<>>)
  <2>1. /\ a.history \in Seq(AttemptRecord) /\ b.history \in Seq(AttemptRecord)
        /\ Len(a.history) = Len(b.history)
    BY DEF ServiceRuntime, AttemptHistory, SameAuthority
  <2> QED  BY <2>1, EmptySeq
<1>3. a.history # <<>> =>
        \E i \in intents : i.service = s /\ i.fence = a.fence /\ i.to = a.active
  BY <1>2 DEF Sound, SameAuthority
<1>4. a.lifecycle = "Unregistered" =>
       /\ a.active = NoRef /\ a.fence = 0 /\ a.generation = 0
       /\ a.lease_term = 0 /\ a.current_attempt = 0 /\ a.history = <<>>
  BY <1>2 DEF Sound, SameAuthority
<1> QED  BY <1>1, <1>3, <1>4 DEF Sound

(* A quiet step preserves the invariant.                                    *)
LEMMA QuietStep ==
  ASSUME Inv, TypeOK', Quiet
  PROVE  Inv'
<1>1. \A s \in Service : /\ services[s] \in ServiceRuntime
                         /\ disk.services[s] \in ServiceRuntime
                         /\ services'[s] \in ServiceRuntime
                         /\ disk'.services[s] \in ServiceRuntime
  BY DEF Inv, TypeOK, MemoryTypeOK, Image
<1>2. \A s \in Service :
        /\ services'[s].active = services[s].active
        /\ services'[s].fence = services[s].fence
        /\ services'[s].generation = services[s].generation
        /\ services'[s].lease_term = services[s].lease_term
        /\ services'[s].current_attempt = services[s].current_attempt
  BY DEF Inv, GrantsDurable, Quiet, KeepsAuthority, SameAuthority
<1>3. \A s \in Service :
        /\ disk'.services[s].active = services[s].active
        /\ disk'.services[s].fence = services[s].fence
        /\ disk'.services[s].generation = services[s].generation
        /\ disk'.services[s].lease_term = services[s].lease_term
        /\ disk'.services[s].current_attempt = services[s].current_attempt
  BY DEF Inv, GrantsDurable, Quiet, KeepsAuthority, SameAuthority
<1>4. Lockstep'
  BY <1>2 DEF Inv, Lockstep, Quiet
<1>5. GrantsDurable'
  BY <1>2, <1>3 DEF GrantsDurable, Quiet
<1>6. IntentsIdentified'
  <2>1. \A i \in intents : i.service \in Service
    BY DEF Inv, TypeOK, MemoryTypeOK, FailoverIntent
  <2> QED  BY <2>1, <1>2 DEF Inv, IntentsIdentified, Quiet
<1>7. RuntimesSound'
  <2>1. SUFFICES ASSUME NEW s \in Service
                 PROVE  Sound(s, services[s])' /\ Sound(s, disk.services[s])'
    BY DEF RuntimesSound
  <2>2. Sound(s, services[s]) /\ Sound(s, disk.services[s])
    BY DEF Inv, RuntimesSound
  <2>3. Sound(s, services'[s])
    BY <1>1, <2>2, SoundKept DEF Quiet, KeepsAuthority
  <2>4. Sound(s, disk'.services[s])
    BY <1>1, <2>2, SoundKept DEF Quiet, KeepsAuthority
  <2> QED  BY <2>3, <2>4 DEF Sound, Quiet
<1> QED  BY <1>4, <1>5, <1>6, <1>7 DEF Inv

(* An operation whose record keeps authority writes an image that keeps it, *)
(* whether or not the journal is compacted afterwards.                      *)
LEMMA PersistQuiet ==
  ASSUME Inv, MemoryTypeOK', fences' = fences, witnesses' = witnesses,
         intents' = intents,
         \A s \in Service : KeepsAuthority(s, services'[s]),
         NEW journaled \in Image, journaled.fences = disk.fences,
         journaled.witnesses = disk.witnesses,
         \A s \in Service : KeepsAuthority(s, journaled.services[s]),
         Persist(journaled)
  PROVE  TypeOK' /\ Quiet
<1>1. disk' \in Image
  BY PersistType
<1>2. disk.fences = fences /\ disk.witnesses = witnesses
  BY DEF Inv, GrantsDurable
<1>3. CASE disk' = journaled
  BY <1>1, <1>2, <1>3 DEF TypeOK, Quiet
<1>4. CASE disk' = Snapshot(services)'
  <2>1. /\ disk'.fences = fences' /\ disk'.witnesses = witnesses'
        /\ disk'.services = services'
    BY <1>4 DEF Snapshot
  <2> QED  BY <1>1, <2>1 DEF TypeOK, Quiet
<1> QED  BY <1>3, <1>4 DEF Persist

(* Everything but the authority and the durable image.                      *)
OtherTypeOK ==
  /\ opened \in BOOLEAN
  /\ epoch \in Nat
  /\ topology \in Nat
  /\ policy \in Policy
  /\ targets \in [Target -> Nat]
  /\ \A t \in Target : targets[t] \in {0} \cup Incarnations[t]
  /\ capabilities \in [Target -> CapabilitySlot \cup {NoSlot}]
  /\ failures \in FailureMap
  /\ failure_order \in Seq(EvidenceId)
  /\ latest_failure \in [Service -> {0} \cup EvidenceId]
  /\ next_evidence_id \in Nat \ {0}

(* A runtime has its own authority.                                         *)
LEMMA KeepsOwnAuthority ==
  ASSUME NEW s \in Service
  PROVE  KeepsAuthority(s, services[s]) /\ KeepsAuthority(s, disk.services[s])
  BY DEF KeepsAuthority, SameAuthority

(* A record about a registry is quiet.                                      *)
LEMMA RegistryQuiet ==
  ASSUME Inv, OtherTypeOK', UNCHANGED authority, Persist(disk)
  PROVE  TypeOK' /\ Quiet
<1>1. MemoryTypeOK'
  BY DEF Inv, TypeOK, MemoryTypeOK, OtherTypeOK, FailureMap, authority
<1>2. disk \in Image
  BY DEF Inv, TypeOK
<1>3. \A s \in Service : KeepsAuthority(s, services'[s]) /\ KeepsAuthority(s, disk.services[s])
  BY KeepsOwnAuthority DEF authority
<1> QED  BY <1>1, <1>2, <1>3, PersistQuiet DEF authority

(* So is a record that carries a runtime with the same authority.           *)
LEMMA RuntimeQuiet ==
  ASSUME Inv, OtherTypeOK', NEW s \in Service, NEW rt \in ServiceRuntime,
         SameAuthority(rt, services[s]),
         services' = [services EXCEPT ![s] = rt],
         UNCHANGED <<fences, witnesses, next_attempt_id, intents>>,
         Persist(JournalRuntime(disk, s, rt))
  PROVE  TypeOK' /\ Quiet
<1>1. MemoryTypeOK'
  BY DEF Inv, TypeOK, MemoryTypeOK, OtherTypeOK, FailureMap
<1>2. /\ disk \in Image
      /\ services \in [Service -> ServiceRuntime]
      /\ disk.services \in [Service -> ServiceRuntime]
  BY DEF Inv, TypeOK, MemoryTypeOK, Image
<1> DEFINE journaled == JournalRuntime(disk, s, rt)
<1>3. /\ journaled \in Image
      /\ journaled.fences = disk.fences
      /\ journaled.witnesses = disk.witnesses
      /\ journaled.services = [disk.services EXCEPT ![s] = rt]
  BY <1>2, JournalRuntimeType
<1>4. KeepsAuthority(s, rt)
  BY DEF KeepsAuthority
<1> HIDE DEF journaled
<1>5. \A r \in Service : KeepsAuthority(r, services'[r])
  BY <1>2, <1>4, KeepsOwnAuthority
<1>6. \A r \in Service : KeepsAuthority(r, journaled.services[r])
  BY <1>2, <1>3, <1>4, KeepsOwnAuthority
<1>7. Persist(journaled)
  BY DEF journaled
<1> QED  BY <1>1, <1>3, <1>5, <1>6, <1>7, PersistQuiet

-----------------------------------------------------------------------------
(* The registries.                                                          *)

(* Registering a service is quiet: it had no authority before.              *)
LEMMA RegisterServiceQuiet ==
  ASSUME Inv, NEW s \in Service, RegisterService(s)
  PROVE  TypeOK' /\ Quiet
<1> DEFINE rt == NewRuntime("Registered")
<1>1. rt \in ServiceRuntime
  <2>1. <<>> \in AttemptHistory
    BY FabricAssumption DEF AttemptHistory
  <2> QED  BY <2>1 DEF NewRuntime, ServiceRuntime, LifecyclePhase, RecoveryPhase,
                     ContinuityClass, OptionalRef
<1>2. SameAuthority(rt, services[s])
  <2>1. Sound(s, services[s]) /\ services[s].lifecycle = "Unregistered"
    BY DEF RegisterService, Registered, Inv, RuntimesSound
  <2> QED  BY <2>1 DEF Sound, SameAuthority, NewRuntime
<1>3. OtherTypeOK'
  BY DEF RegisterService, Inv, TypeOK, MemoryTypeOK, OtherTypeOK, FailureMap,
         registry, evidence
<1>4. /\ services' = [services EXCEPT ![s] = rt]
      /\ UNCHANGED <<fences, witnesses, next_attempt_id, intents>>
      /\ Persist(JournalRuntime(disk, s, rt))
  BY DEF RegisterService
<1> HIDE DEF rt
<1> QED  BY <1>1, <1>2, <1>3, <1>4, RuntimeQuiet

(* Withdrawing a service changes its phases and no authority.               *)
LEMMA WithdrawServiceQuiet ==
  ASSUME Inv, NEW s \in Service, WithdrawService(s)
  PROVE  TypeOK' /\ Quiet
<1> DEFINE rt == [services[s] EXCEPT !.lifecycle = "Withdrawn", !.recovery = "None",
                                     !.continuity = "None"]
           old == disk.services[s]
           dt == [old EXCEPT !.lifecycle = "Withdrawn"]
           journaled == [disk EXCEPT !.services[s].lifecycle = "Withdrawn"]
<1>1. /\ disk \in Image
      /\ services \in [Service -> ServiceRuntime]
      /\ disk.services \in [Service -> ServiceRuntime]
  BY DEF Inv, TypeOK, MemoryTypeOK, Image
<1>2. rt \in ServiceRuntime /\ SameAuthority(rt, services[s])
  BY <1>1, ReclassedRuntime DEF LifecyclePhase, RecoveryPhase, ContinuityClass
<1>3. dt \in ServiceRuntime /\ SameAuthority(dt, old)
  BY <1>1 DEF ServiceRuntime, SameAuthority, LifecyclePhase
<1>4. services' = [services EXCEPT ![s] = rt]
  BY <1>1 DEF WithdrawService
<1>5. journaled = JournalRuntime(disk, s, dt)
  BY <1>1 DEF JournalRuntime, Image
<1>6. Persist(JournalRuntime(disk, s, dt))
  BY <1>5 DEF WithdrawService
<1> HIDE DEF rt, dt
<1>7. /\ JournalRuntime(disk, s, dt) \in Image
      /\ JournalRuntime(disk, s, dt).fences = disk.fences
      /\ JournalRuntime(disk, s, dt).witnesses = disk.witnesses
      /\ JournalRuntime(disk, s, dt).services = [disk.services EXCEPT ![s] = dt]
  BY <1>1, <1>3, JournalRuntimeType
<1>8. MemoryTypeOK'
  <2>1. services' \in [Service -> ServiceRuntime]
    BY <1>1, <1>2, <1>4
  <2> QED  BY <2>1 DEF WithdrawService, Inv, TypeOK, MemoryTypeOK, registry, evidence
<1>9. KeepsAuthority(s, rt) /\ KeepsAuthority(s, dt)
  BY <1>2, <1>3 DEF KeepsAuthority
<1>10. \A r \in Service : KeepsAuthority(r, services'[r])
  BY <1>1, <1>4, <1>9, KeepsOwnAuthority
<1>11. \A r \in Service : KeepsAuthority(r, JournalRuntime(disk, s, dt).services[r])
  BY <1>1, <1>7, <1>9, KeepsOwnAuthority
<1>12. fences' = fences /\ witnesses' = witnesses /\ intents' = intents
  BY DEF WithdrawService
<1> QED  BY <1>6, <1>7, <1>8, <1>10, <1>11, <1>12, PersistQuiet

(* The other registries hold no authority.                                  *)
LEMMA RegistriesQuiet ==
  ASSUME Inv,
         \/ \E t \in Target : \E inc \in Incarnations[t] : RegisterTarget(t, inc)
         \/ \E t \in Retirable : RetireTarget(t)
         \/ \E g \in 1 .. MaxTopology : SetTopologyGeneration(g)
         \/ \E p \in Policies : SetPolicy(p)
         \/ \E t \in Target, g \in 1 .. MaxCapability, c \in Coverages :
              IngestCapability(t, g, c)
  PROVE  TypeOK' /\ Quiet
<1>1. OtherTypeOK
  BY DEF Inv, TypeOK, MemoryTypeOK, OtherTypeOK, FailureMap
<1>2. ASSUME NEW t \in Target, NEW inc \in Incarnations[t], RegisterTarget(t, inc)
      PROVE  OtherTypeOK'
  <2>1. inc \in Nat
    BY FabricAssumption
  <2>2. targets' \in [Target -> Nat] /\ \A r \in Target : targets'[r] \in {0} \cup Incarnations[r]
    BY <1>1, <1>2, <2>1 DEF RegisterTarget, OtherTypeOK
  <2> QED  BY <1>1, <1>2, <2>2 DEF RegisterTarget, OtherTypeOK, evidence
<1>3. ASSUME NEW t \in Retirable, RetireTarget(t)
      PROVE  OtherTypeOK'
  <2>1. targets' \in [Target -> Nat] /\ \A r \in Target : targets'[r] \in {0} \cup Incarnations[r]
    BY <1>1, <1>3 DEF RetireTarget, OtherTypeOK
  <2>2. capabilities' \in [Target -> CapabilitySlot \cup {NoSlot}]
    BY <1>1, <1>3 DEF RetireTarget, OtherTypeOK
  <2> QED  BY <1>1, <1>3, <2>1, <2>2 DEF RetireTarget, OtherTypeOK, evidence
<1>4. ASSUME NEW g \in 1 .. MaxTopology, SetTopologyGeneration(g)
      PROVE  OtherTypeOK'
  BY <1>1, <1>4, FabricAssumption DEF SetTopologyGeneration, OtherTypeOK, evidence
<1>5. ASSUME NEW p \in Policies, SetPolicy(p)
      PROVE  OtherTypeOK'
  BY <1>1, <1>5, FabricAssumption DEF SetPolicy, OtherTypeOK, evidence
<1>6. ASSUME NEW t \in Target, NEW g \in 1 .. MaxCapability, NEW c \in Coverages,
             IngestCapability(t, g, c)
      PROVE  OtherTypeOK'
  <2> DEFINE slot == [generation |-> g, inc |-> targets[t], topology |-> topology,
                      covers |-> c, requires_reconfirmation |-> FALSE]
  <2>1. slot \in CapabilitySlot
    BY <1>1, <1>6, FabricAssumption DEF OtherTypeOK, CapabilitySlot, IngestCapability
  <2>2. capabilities' = [capabilities EXCEPT ![t] = slot]
    BY <1>6 DEF IngestCapability
  <2> HIDE DEF slot
  <2>3. capabilities' \in [Target -> CapabilitySlot \cup {NoSlot}]
    BY <1>1, <2>1, <2>2 DEF OtherTypeOK
  <2> QED  BY <1>1, <1>6, <2>3 DEF IngestCapability, OtherTypeOK, evidence
<1>7. OtherTypeOK'
  BY <1>2, <1>3, <1>4, <1>5, <1>6
<1>8. UNCHANGED authority /\ Persist(disk)
  BY DEF RegisterTarget, RetireTarget, SetTopologyGeneration, SetPolicy, IngestCapability
<1> QED  BY <1>7, <1>8, RegistryQuiet

-----------------------------------------------------------------------------
(* Failure evidence, ambiguity and executor feedback.                       *)

(* A failure report may block a service on an operator and evict older      *)
(* evidence; it leaves authority alone.                                     *)
LEMMA IngestFailureQuiet ==
  ASSUME Inv, NEW s \in Service, NEW t \in Target, NEW inc \in Incarnations[t],
         NEW e \in EvidenceId, NEW a \in Ambiguities,
         IngestFailure(s, [target |-> t, inc |-> inc], e, a)
  PROVE  TypeOK' /\ Quiet
<1> DEFINE ref == [target |-> t, inc |-> inc]
           observed == [service |-> s, target |-> ref, epoch |-> epoch,
                        topology |-> topology, ambiguous |-> a]
<1>1. OtherTypeOK /\ services \in [Service -> ServiceRuntime] /\ disk \in Image
  BY DEF Inv, TypeOK, MemoryTypeOK, OtherTypeOK, FailureMap
<1>2. e \in Nat \ {0}
  BY FabricAssumption DEF EvidenceId
<1>3. observed \in FailureEvidence /\ observed.service = s
  <2>1. ref \in TargetRef
    BY FabricAssumption DEF TargetRef
  <2>2. a \in BOOLEAN
    BY FabricAssumption
  <2> HIDE DEF ref
  <2> QED  BY <1>1, <2>1, <2>2 DEF FailureEvidence, OtherTypeOK
<1>4. /\ failures' = [d \in EvidenceId |->
            IF d = e THEN observed
            ELSE IF d \in EvictedIds THEN NoEvidence ELSE failures[d]]
      /\ failure_order' =
           Append(SubSeq(failure_order, Evicted + 1, Len(failure_order)), e)
      /\ latest_failure' = [r \in Service |->
            IF r = s THEN e
            ELSE IF latest_failure[r] \in EvictedIds THEN 0 ELSE latest_failure[r]]
      /\ next_evidence_id' = IF e = next_evidence_id THEN e + 1 ELSE next_evidence_id
      /\ services' = IF a THEN [services EXCEPT ![s] = AwaitOperator(services[s], e)]
                     ELSE services
      /\ UNCHANGED <<opened, epoch, topology, policy, targets, capabilities>>
      /\ UNCHANGED <<fences, witnesses, next_attempt_id, intents>>
      /\ Persist(JournalFailure(disk, e, observed))
  BY DEF IngestFailure, registry
<1> HIDE DEF observed
<1>5. failures' \in FailureMap
  BY <1>1, <1>3, <1>4 DEF FailureMap, OtherTypeOK
<1>6. failure_order' \in Seq(EvidenceId)
  <2>1. failure_order \in Seq(EvidenceId)
    BY <1>1 DEF OtherTypeOK
  <2>2. Evicted \in 0 .. Len(failure_order) /\ Len(failure_order) \in Nat
    BY <2>1, EvictedType
  <2>3. SubSeq(failure_order, Evicted + 1, Len(failure_order)) \in Seq(EvidenceId)
    BY <2>1, <2>2, SubSeqProperties
  <2> QED  BY <2>3, <1>4, AppendProperties
<1>7. latest_failure' \in [Service -> {0} \cup EvidenceId]
  BY <1>1, <1>4 DEF OtherTypeOK
<1>8. next_evidence_id' \in Nat \ {0}
  BY <1>1, <1>2, <1>4 DEF OtherTypeOK
<1> DEFINE rt == AwaitOperator(services[s], e)
<1>9. rt \in ServiceRuntime /\ SameAuthority(rt, services[s])
  BY <1>1, <1>2, AwaitOperatorFacts
<1> HIDE DEF rt
<1>10. services' \in [Service -> ServiceRuntime]
  BY <1>1, <1>4, <1>9 DEF rt
<1>11. \A r \in Service : KeepsAuthority(r, services'[r])
  <2>1. KeepsAuthority(s, rt)
    BY <1>9 DEF KeepsAuthority
  <2> QED  BY <1>1, <1>4, <2>1, KeepsOwnAuthority DEF rt
<1>12. MemoryTypeOK'
  <2>1. OtherTypeOK'
    BY <1>1, <1>4, <1>5, <1>6, <1>7, <1>8 DEF OtherTypeOK
  <2>2. /\ fences' \in [Service -> FenceRecord]
        /\ witnesses' \in [Service -> [Target -> Nat]]
        /\ next_attempt_id' \in Nat \ {0}
        /\ intents' \subseteq FailoverIntent
    BY <1>4 DEF Inv, TypeOK, MemoryTypeOK
  <2> QED  BY <2>1, <2>2, <1>10 DEF MemoryTypeOK, OtherTypeOK, FailureMap
<1>13. /\ JournalFailure(disk, e, observed) \in Image
       /\ JournalFailure(disk, e, observed).services = disk.services
       /\ JournalFailure(disk, e, observed).fences = disk.fences
       /\ JournalFailure(disk, e, observed).witnesses = disk.witnesses
  BY <1>1, <1>3, JournalFailureType
<1>14. \A r \in Service : KeepsAuthority(r, JournalFailure(disk, e, observed).services[r])
  BY <1>13, KeepsOwnAuthority
<1> QED  BY <1>4, <1>11, <1>12, <1>13, <1>14, PersistQuiet

(* An operation that only rewrites one runtime in memory is quiet.          *)
LEMMA MemoryQuiet ==
  ASSUME Inv, NEW s \in Service, NEW rt \in ServiceRuntime,
         SameAuthority(rt, services[s]), services' = [services EXCEPT ![s] = rt],
         failures' \in FailureMap,
         UNCHANGED <<opened, epoch, registry, failure_order, latest_failure,
                     next_evidence_id, fences, witnesses, next_attempt_id, intents>>,
         disk' \in Image, disk'.fences = disk.fences,
         disk'.witnesses = disk.witnesses, disk'.services = disk.services
  PROVE  TypeOK' /\ Quiet
<1>1. services \in [Service -> ServiceRuntime]
  BY DEF Inv, TypeOK, MemoryTypeOK
<1>2. services' \in [Service -> ServiceRuntime]
  BY <1>1
<1>3. TypeOK'
  BY <1>2 DEF Inv, TypeOK, MemoryTypeOK, FailureMap, registry
<1>4. KeepsAuthority(s, rt)
  BY DEF KeepsAuthority
<1>5. \A r \in Service : KeepsAuthority(r, services'[r]) /\ KeepsAuthority(r, disk'.services[r])
  BY <1>1, <1>4, KeepsOwnAuthority
<1> QED  BY <1>3, <1>5 DEF Quiet, Inv, GrantsDurable

(* A refused ambiguous request only blocks the service on an operator.      *)
LEMMA RefuseAmbiguousQuiet ==
  ASSUME Inv, NEW s \in Service, NEW e \in EvidenceId, RefuseAmbiguous(s, e)
  PROVE  TypeOK' /\ Quiet
<1> DEFINE rt == AwaitOperator(services[s], e)
<1>1. rt \in ServiceRuntime /\ SameAuthority(rt, services[s])
  BY AwaitOperatorFacts, FabricAssumption DEF Inv, TypeOK, MemoryTypeOK, EvidenceId
<1>2. services' = [services EXCEPT ![s] = rt]
  BY DEF RefuseAmbiguous
<1>3. failures' \in FailureMap /\ disk' \in Image
  BY DEF RefuseAmbiguous, Inv, TypeOK, MemoryTypeOK, FailureMap, evidence
<1>4. UNCHANGED <<opened, epoch, registry, failure_order, latest_failure,
                  next_evidence_id, fences, witnesses, next_attempt_id, intents, disk>>
  BY DEF RefuseAmbiguous, evidence
<1> HIDE DEF rt
<1> QED  BY <1>1, <1>2, <1>3, <1>4, MemoryQuiet

(* Nor does an operator who finds the target alive move any authority.      *)
LEMMA ResolveAliveQuiet ==
  ASSUME Inv, NEW s \in Service, ResolveAlive(s)
  PROVE  TypeOK' /\ Quiet
<1> DEFINE old == services[s]
           rt == [old EXCEPT !.ambiguity_pending = FALSE, !.pending_ambiguity = 0,
                             !.recovery = "Refused", !.lifecycle = "Failed",
                             !.continuity = "None"]
<1>1. OtherTypeOK'
  BY DEF ResolveAlive, Inv, TypeOK, MemoryTypeOK, OtherTypeOK, FailureMap,
         registry, evidence
<1>2. /\ services' = [services EXCEPT ![s] = rt]
      /\ UNCHANGED <<fences, witnesses, next_attempt_id, intents>>
      /\ Persist(JournalRuntime(disk, s, rt))
  BY DEF ResolveAlive
<1>3. old \in ServiceRuntime
  BY DEF Inv, TypeOK, MemoryTypeOK
<1> HIDE DEF old
<1>4. rt \in ServiceRuntime /\ SameAuthority(rt, old)
  BY <1>3 DEF ServiceRuntime, SameAuthority, LifecyclePhase, RecoveryPhase, ContinuityClass
<1> HIDE DEF rt
<1> QED  BY <1>1, <1>2, <1>4, RuntimeQuiet DEF old

(* An acknowledgement moves no authority, whichever service it finds.       *)
LEMMA AcknowledgeIntentQuiet ==
  ASSUME Inv, NEW i \in intents, NEW accepted \in BOOLEAN, AcknowledgeIntent(i, accepted)
  PROVE  TypeOK' /\ Quiet
<1>1. OtherTypeOK'
  BY DEF AcknowledgeIntent, Inv, TypeOK, MemoryTypeOK, OtherTypeOK, FailureMap,
         registry, evidence
<1>2. PICK s \in Service : \E k \in CurrentRecords(services[s]) :
        /\ services' = [services EXCEPT ![s] = AckedRuntime(services[s], k, accepted)]
        /\ UNCHANGED <<fences, witnesses, next_attempt_id, intents>>
        /\ Persist(JournalRuntime(disk, s, AckedRuntime(services[s], k, accepted)))
  BY DEF AcknowledgeIntent, AckedService
<1> PICK k \in CurrentRecords(services[s]) :
        /\ services' = [services EXCEPT ![s] = AckedRuntime(services[s], k, accepted)]
        /\ UNCHANGED <<fences, witnesses, next_attempt_id, intents>>
        /\ Persist(JournalRuntime(disk, s, AckedRuntime(services[s], k, accepted)))
  BY <1>2
<1>3. services[s] \in ServiceRuntime /\ k \in DOMAIN services[s].history
  BY DEF Inv, TypeOK, MemoryTypeOK, CurrentRecords
<1> DEFINE rt == AckedRuntime(services[s], k, accepted)
<1>4. rt \in ServiceRuntime /\ SameAuthority(rt, services[s])
  BY <1>3, AckedRuntimeFacts
<1> HIDE DEF rt
<1> QED  BY <1>1, <1>4, RuntimeQuiet DEF rt

(* Recording an effect is quiet if the recorded runtime keeps authority.    *)
LEMMA RecordEffectQuiet ==
  ASSUME Inv, NEW s \in Service, NEW rt \in ServiceRuntime,
         SameAuthority(rt, services[s]), RecordEffect(s, rt)
  PROVE  TypeOK' /\ Quiet
<1>1. OtherTypeOK'
  BY DEF RecordEffect, Inv, TypeOK, MemoryTypeOK, OtherTypeOK, FailureMap,
         registry, evidence
<1> QED  BY <1>1, RuntimeQuiet DEF RecordEffect

(* No effect report moves authority.                                        *)
LEMMA EffectsQuiet ==
  ASSUME Inv, NEW s \in Service, NEW i \in intents,
         \/ ReportNegative(s, i)
         \/ ReportActivationAccepted(s, i)
         \/ ReportDeactivationAcknowledged(s, i)
         \/ ReportStateTransferComplete(s, i)
         \/ ReportServiceHealthy(s, i)
  PROVE  TypeOK' /\ Quiet
<1> DEFINE old == services[s]
<1>1. old \in ServiceRuntime
  BY DEF Inv, TypeOK, MemoryTypeOK
<1>2. CASE ReportNegative(s, i)
  <2> DEFINE mid == [old EXCEPT !.recovery = "EffectReported", !.lifecycle = "Failed"]
  <2>1. RecordEffect(s, InvalidateVerification(mid))
    BY <1>2 DEF ReportNegative
  <2> HIDE DEF old
  <2>2. mid \in ServiceRuntime /\ SameAuthority(mid, old)
    BY <1>1 DEF ServiceRuntime, SameAuthority, LifecyclePhase, RecoveryPhase
  <2> DEFINE rt == InvalidateVerification(mid)
  <2> HIDE DEF mid
  <2>3. rt \in ServiceRuntime /\ SameAuthority(rt, mid)
    BY <2>2, InvalidateVerificationFacts
  <2> HIDE DEF rt
  <2>4. SameAuthority(rt, old)
    BY <2>2, <2>3 DEF SameAuthority
  <2> QED  BY <2>1, <2>3, <2>4, RecordEffectQuiet DEF old, rt
<1>3. CASE ReportActivationAccepted(s, i)
  <2> DEFINE rt == [old EXCEPT !.activation_accepted = TRUE, !.recovery = "EffectReported"]
  <2>1. RecordEffect(s, rt)
    BY <1>3 DEF ReportActivationAccepted
  <2> HIDE DEF old
  <2>2. rt \in ServiceRuntime /\ SameAuthority(rt, old)
    BY <1>1 DEF ServiceRuntime, SameAuthority, RecoveryPhase
  <2> HIDE DEF rt
  <2> QED  BY <2>1, <2>2, RecordEffectQuiet DEF old
<1>4. CASE ReportDeactivationAcknowledged(s, i)
  <2> DEFINE rt == [old EXCEPT !.recovery = "EffectReported"]
  <2>1. RecordEffect(s, rt)
    BY <1>4 DEF ReportDeactivationAcknowledged
  <2> HIDE DEF old
  <2>2. rt \in ServiceRuntime /\ SameAuthority(rt, old)
    BY <1>1 DEF ServiceRuntime, SameAuthority, RecoveryPhase
  <2> HIDE DEF rt
  <2> QED  BY <2>1, <2>2, RecordEffectQuiet DEF old
<1>5. CASE ReportStateTransferComplete(s, i)
  <2> DEFINE rt == [old EXCEPT !.state_transfer_verified = TRUE]
  <2>1. RecordEffect(s, rt)
    BY <1>5 DEF ReportStateTransferComplete
  <2> HIDE DEF old
  <2>2. rt \in ServiceRuntime /\ SameAuthority(rt, old)
    BY <1>1 DEF ServiceRuntime, SameAuthority
  <2> HIDE DEF rt
  <2> QED  BY <2>1, <2>2, RecordEffectQuiet DEF old
<1>6. CASE ReportServiceHealthy(s, i)
  <2> DEFINE class == HealthyContinuity(s)
             rt == [old EXCEPT !.effect_verified = TRUE, !.recovery = "Verified",
                      !.lifecycle = "FallbackActive", !.attempts_since_verified = 0,
                      !.continuity = class]
  <2>1. RecordEffect(s, rt)
    BY <1>6 DEF ReportServiceHealthy, VerifiedRuntime
  <2>2. class \in ContinuityClass
    BY DEF HealthyContinuity, ContinuityClass
  <2> HIDE DEF old, class
  <2>3. rt \in ServiceRuntime /\ SameAuthority(rt, old)
    BY <1>1, <2>2 DEF ServiceRuntime, SameAuthority, LifecyclePhase, RecoveryPhase
  <2> HIDE DEF rt
  <2> QED  BY <2>1, <2>3, RecordEffectQuiet DEF old
<1> QED  BY <1>2, <1>3, <1>4, <1>5, <1>6

-----------------------------------------------------------------------------
(* Restart.                                                                 *)

(* Stopping the process changes nothing that is durable.                    *)
LEMMA CloseQuiet ==
  ASSUME Inv, Close
  PROVE  TypeOK' /\ Quiet
<1>1. TypeOK'
  BY DEF Close, Inv, TypeOK, MemoryTypeOK, registry, evidence, authority
<1>2. UNCHANGED authority /\ disk' = disk
  BY DEF Close
<1> QED  BY <1>1, <1>2, KeepsOwnAuthority DEF Quiet, Inv, GrantsDurable, authority

(* A restart recovers the authority it had, and nothing but that.           *)
LEMMA OpenQuiet ==
  ASSUME Inv, Open
  PROVE  TypeOK' /\ Quiet
<1>1. /\ disk \in Image
      /\ disk.services \in [Service -> ServiceRuntime]
      /\ disk.fences = fences /\ disk.witnesses = witnesses
  BY DEF Inv, TypeOK, GrantsDurable, Image
<1>2. \A s \in Service : /\ Downgraded(disk.services[s]) \in ServiceRuntime
                         /\ SameAuthority(Downgraded(disk.services[s]), disk.services[s])
  BY <1>1, DowngradedFacts
<1>3. services' = [s \in Service |-> Downgraded(disk.services[s])]
  BY DEF Open
<1>4. services' \in [Service -> ServiceRuntime]
  BY <1>2, <1>3
<1>5. \A s \in Service : /\ KeepsAuthority(s, services'[s])
                         /\ KeepsAuthority(s, disk.services[s])
  BY <1>2, <1>3, KeepsOwnAuthority DEF KeepsAuthority
<1>6. capabilities' \in [Target -> CapabilitySlot \cup {NoSlot}]
  <2> DEFINE aged(slot) == IF slot = NoSlot THEN NoSlot
                           ELSE [slot EXCEPT !.requires_reconfirmation = TRUE]
  <2>1. \A slot \in CapabilitySlot \cup {NoSlot} : aged(slot) \in CapabilitySlot \cup {NoSlot}
    BY DEF CapabilitySlot
  <2>2. capabilities' = [t \in Target |-> aged(capabilities[t])]
    BY DEF Open
  <2>3. capabilities \in [Target -> CapabilitySlot \cup {NoSlot}]
    BY DEF Inv, TypeOK, MemoryTypeOK
  <2> HIDE DEF aged
  <2> QED  BY <2>1, <2>2, <2>3
<1>7. MemoryTypeOK'
  <2>1. /\ opened' \in BOOLEAN
        /\ epoch' \in Nat
        /\ failures' \in FailureMap
        /\ failure_order' \in Seq(EvidenceId)
        /\ latest_failure' \in [Service -> {0} \cup EvidenceId]
        /\ next_evidence_id' \in Nat \ {0}
        /\ next_attempt_id' \in Nat \ {0}
        /\ fences' \in [Service -> FenceRecord]
        /\ witnesses' \in [Service -> [Target -> Nat]]
    BY <1>1 DEF Open, Image, FailureMap
  <2>2. UNCHANGED <<topology, policy, targets, intents>>
    BY DEF Open
  <2> QED  BY <1>4, <1>6, <2>1, <2>2 DEF Inv, TypeOK, MemoryTypeOK, FailureMap
<1> DEFINE journaled == [disk EXCEPT !.epoch = epoch']
<1>8. /\ journaled \in Image
      /\ journaled.fences = disk.fences
      /\ journaled.witnesses = disk.witnesses
      /\ journaled.services = disk.services
  <2>1. epoch' \in Nat
    BY <1>7 DEF MemoryTypeOK
  <2> QED  BY <1>1, <2>1 DEF Image
<1>9. fences' = fences /\ witnesses' = witnesses /\ intents' = intents
  BY <1>1 DEF Open
<1>10. Persist(journaled)
  BY DEF Open
<1> HIDE DEF journaled
<1> QED  BY <1>5, <1>7, <1>8, <1>9, <1>10, PersistQuiet

-----------------------------------------------------------------------------
(* Committing a recovery attempt.                                           *)

(* A commit starts in a sound state, and a resume re-issues the attempt in  *)
(* force: what do_request_failover reads from the history is what the       *)
(* runtime holds.                                                           *)
CommitReady(s, to, from, mode) ==
  /\ to \in TargetRef /\ from \in OptionalRef /\ mode \in CommitMode
  /\ mode = "Resume" => Resumable(services[s]) /\ to = services[s].active

(* The counters a commit moves to: one step up together, or all in place.   *)
LEMMA NextCounters ==
  ASSUME Inv, NEW s \in Service, NEW mode \in CommitMode
  PROVE  /\ NextGeneration(s, mode) = NextFence(s, mode)
         /\ NextTerm(s, mode) = NextFence(s, mode)
         /\ mode = "Resume" => NextFence(s, mode) = services[s].fence
         /\ mode # "Resume" => NextFence(s, mode) = services[s].fence + 1
         /\ services[s].fence \in Nat
<1>1. services[s] \in ServiceRuntime
  BY DEF Inv, TypeOK, MemoryTypeOK
<1> QED  BY <1>1 DEF NextGeneration, NextTerm, NextFence, Inv, Lockstep, ServiceRuntime

(* The types after a commit.                                                *)
LEMMA CommitTypes ==
  ASSUME Inv, NEW image \in Image, NEW s \in Service, NEW to, NEW from, NEW mode,
         CommitReady(s, to, from, mode), NEW settled \in ServiceRuntime, OtherTypeOK',
         CommitRecovery(image, s, to, from, mode, settled)
  PROVE  TypeOK'
<1> DEFINE next == CommittedRuntime(s, to, from, mode)
           committed == [services EXCEPT ![s] = next]
<1>0. /\ to \in TargetRef /\ from \in OptionalRef /\ mode \in CommitMode
      /\ mode = "Resume" => Resumable(services[s])
      /\ TypeOK
  BY DEF CommitReady, Inv
<1>1. /\ services \in [Service -> ServiceRuntime]
      /\ fences \in [Service -> FenceRecord]
      /\ witnesses \in [Service -> [Target -> Nat]]
      /\ next_attempt_id \in Nat \ {0}
      /\ intents \subseteq FailoverIntent
      /\ epoch \in Nat
  BY <1>0 DEF TypeOK, MemoryTypeOK
<1>2. next \in ServiceRuntime
  BY <1>0, CommittedRuntimeFacts
<1>3. /\ NextAttempt(s, mode) \in Nat \ {0} /\ NextGeneration(s, mode) \in Nat
      /\ NextFence(s, mode) \in Nat /\ NextTerm(s, mode) \in Nat
  BY <1>0, NextIdentityTypes
<1>4. services' \in [Service -> ServiceRuntime]
  BY <1>1 DEF CommitRecovery
<1>5. fences' \in [Service -> FenceRecord]
  <2> DEFINE new == [token |-> NextFence(s, mode), holder |-> to]
  <2>1. new \in FenceRecord
    BY <1>0, <1>3 DEF FenceRecord, OptionalRef
  <2>2. fences' = [fences EXCEPT ![s] = new]
    BY DEF CommitRecovery
  <2> HIDE DEF new
  <2> QED  BY <1>1, <2>1, <2>2
<1>6. witnesses' \in [Service -> [Target -> Nat]]
  <2>1. CASE from = NoRef
    BY <1>1, <2>1 DEF CommitRecovery
  <2>2. CASE from # NoRef
    <3>1. from.target \in Target /\ from.inc \in Nat
      BY <1>0, <2>2 DEF OptionalRef, TargetRef
    <3>2. witnesses' = [witnesses EXCEPT ![s][from.target] = from.inc]
      BY <2>2 DEF CommitRecovery
    <3> QED  BY <1>1, <3>1, <3>2
  <2> QED  BY <2>1, <2>2
<1>7. next_attempt_id' \in Nat \ {0}
  BY <1>1 DEF CommitRecovery
<1>8. intents' \subseteq FailoverIntent
  <2>1. Intent(s, to, from, mode) \in FailoverIntent
    BY <1>0, <1>1, <1>3 DEF Intent, FailoverIntent
  <2>2. intents' = intents \cup {Intent(s, to, from, mode)}
    BY DEF CommitRecovery
  <2> QED  BY <1>1, <2>1, <2>2
<1>9. MemoryTypeOK'
  BY <1>4, <1>5, <1>6, <1>7, <1>8 DEF MemoryTypeOK, OtherTypeOK, FailureMap
<1>10. disk' \in Image
  <2> HIDE DEF next
  <2>1. committed \in [Service -> ServiceRuntime]
    BY <1>1, <1>2
  <2>2. CASE disk' = [Snapshot(services)' EXCEPT !.services = committed]
    <3> DEFINE ok == (Cardinality(RetainedIn(failures)) <= MaxRetained)'
    <3>1. ok \in BOOLEAN
      OBVIOUS
    <3>2. disk' =
            [epoch |-> epoch', failures |-> failures',
             failure_order |-> InIdOrder(RetainedIn(failures')),
             next_evidence_id |-> next_evidence_id',
             latest_failure |-> [r \in Service |-> 0], services |-> committed,
             fences |-> fences', witnesses |-> witnesses',
             next_attempt_id |-> next_attempt_id', decodable |-> ok]
      BY <2>2 DEF Snapshot
    <3>3. epoch' \in Nat /\ failures' \in FailureMap /\ next_evidence_id' \in Nat \ {0}
      BY DEF OtherTypeOK
    <3> HIDE DEF ok, committed
    <3>4. [epoch |-> epoch', failures |-> failures',
           failure_order |-> InIdOrder(RetainedIn(failures')),
           next_evidence_id |-> next_evidence_id',
           latest_failure |-> [r \in Service |-> 0], services |-> committed,
           fences |-> fences', witnesses |-> witnesses',
           next_attempt_id |-> next_attempt_id', decodable |-> ok] \in Image
      BY <2>1, <3>1, <3>3, <1>5, <1>6, <1>7, SnapshotImage
    <3> QED  BY <3>2, <3>4, Zenon
  <2>3. CASE disk' = JournalAttempt(image, s, next)
    <3>1. JournalRuntime(image, s, next) \in Image
      BY <1>2, JournalRuntimeType
    <3> QED  BY <2>3, <3>1, <1>5, <1>6 DEF JournalAttempt, Image
  <2> QED  BY <2>2, <2>3 DEF CommitRecovery, next
<1> QED  BY <1>9, <1>10 DEF TypeOK

(* What a commit hands out, in memory and on disk.                          *)
LEMMA CommitFacts ==
  ASSUME Inv, NEW image \in Image, image.services = disk.services,
         NEW s \in Service, NEW to, NEW from, NEW mode,
         CommitReady(s, to, from, mode), NEW settled \in ServiceRuntime,
         SameAuthority(settled, CommittedRuntime(s, to, from, mode)),
         CommitRecovery(image, s, to, from, mode, settled)
  PROVE  LET next == CommittedRuntime(s, to, from, mode) IN
         /\ services' = [services EXCEPT ![s] = settled]
         /\ fences' = [fences EXCEPT ![s] = [token |-> NextFence(s, mode), holder |-> to]]
         /\ intents' = intents \cup {Intent(s, to, from, mode)}
         /\ disk'.fences = fences' /\ disk'.witnesses = witnesses'
         /\ \/ disk'.services = [services EXCEPT ![s] = next]
            \/ disk'.services = [disk.services EXCEPT ![s] = next]
<1> DEFINE next == CommittedRuntime(s, to, from, mode)
           committed == [services EXCEPT ![s] = next]
<1>1. /\ to \in TargetRef /\ from \in OptionalRef /\ mode \in CommitMode
      /\ mode = "Resume" => Resumable(services[s])
      /\ TypeOK
  BY DEF CommitReady, Inv
<1>2. next \in ServiceRuntime
  BY <1>1, CommittedRuntimeFacts
<1>3. /\ services' = [services EXCEPT ![s] = settled]
      /\ fences' = [fences EXCEPT ![s] = [token |-> NextFence(s, mode), holder |-> to]]
      /\ intents' = intents \cup {Intent(s, to, from, mode)}
      /\ \/ disk' = [Snapshot(services)' EXCEPT !.services = committed]
         \/ disk' = JournalAttempt(image, s, next)
  BY DEF CommitRecovery
<1> HIDE DEF next
<1>4. CASE disk' = [Snapshot(services)' EXCEPT !.services = committed]
  <2>1. disk'.fences = fences' /\ disk'.witnesses = witnesses' /\ disk'.services = committed
    BY <1>4 DEF Snapshot
  <2> QED  BY <1>3, <2>1 DEF next
<1>5. CASE disk' = JournalAttempt(image, s, next)
  <2>1. /\ JournalRuntime(image, s, next) \in Image
        /\ JournalRuntime(image, s, next).services = [image.services EXCEPT ![s] = next]
    BY <1>2, JournalRuntimeType
  <2>2. /\ disk'.fences = fences' /\ disk'.witnesses = witnesses'
        /\ disk'.services = [disk.services EXCEPT ![s] = next]
    BY <1>5, <2>1 DEF JournalAttempt, Image
  <2> QED  BY <1>3, <2>2 DEF next
<1> QED  BY <1>3, <1>4, <1>5

(* A committed attempt preserves the invariant.                             *)
LEMMA CommitStep ==
  ASSUME Inv, NEW image \in Image, image.services = disk.services,
         NEW s \in Service, NEW to, NEW from, NEW mode,
         CommitReady(s, to, from, mode), NEW settled \in ServiceRuntime, OtherTypeOK',
         SameAuthority(settled, CommittedRuntime(s, to, from, mode)),
         CommitRecovery(image, s, to, from, mode, settled)
  PROVE  Inv'
<1> DEFINE next == CommittedRuntime(s, to, from, mode)
           new == Intent(s, to, from, mode)
           f == NextFence(s, mode)
<1>1. TypeOK'
  BY CommitTypes
<1>2. /\ services' = [services EXCEPT ![s] = settled]
      /\ fences' = [fences EXCEPT ![s] = [token |-> f, holder |-> to]]
      /\ intents' = intents \cup {new}
      /\ disk'.fences = fences' /\ disk'.witnesses = witnesses'
      /\ \/ disk'.services = [services EXCEPT ![s] = next]
         \/ disk'.services = [disk.services EXCEPT ![s] = next]
  BY CommitFacts
<1>3. /\ next \in ServiceRuntime
      /\ next.lifecycle # "Unregistered" /\ next.active = to
      /\ next.fence = f /\ next.generation = f /\ next.lease_term = f
      /\ next.current_attempt = NextAttempt(s, mode)
  BY CommittedRuntimeFacts, NextCounters DEF CommitReady, Inv
<1>4. HistoryCurrent(next)
  BY CommittedHistoryCurrent DEF CommitReady, Inv, RuntimesSound, Sound
<1>5. /\ new.service = s /\ new.to = to /\ new.attempt = NextAttempt(s, mode)
      /\ new.fence = f /\ new.generation = f /\ new.lease_term = f
  BY NextCounters DEF Intent, CommitReady
<1>6. /\ mode = "Resume" => f = services[s].fence /\ to = services[s].active
                            /\ NextAttempt(s, mode) = services[s].current_attempt
      /\ mode # "Resume" => f = services[s].fence + 1
      /\ services[s].fence \in Nat
  BY NextCounters DEF CommitReady, NextAttempt
<1>7. /\ services \in [Service -> ServiceRuntime]
      /\ disk.services \in [Service -> ServiceRuntime]
      /\ fences \in [Service -> FenceRecord]
      /\ intents \subseteq FailoverIntent
  BY DEF Inv, TypeOK, MemoryTypeOK, Image
<1> HIDE DEF next, new, f
<1>8. /\ settled.active = to /\ settled.fence = f /\ settled.generation = f
      /\ settled.lease_term = f /\ settled.current_attempt = NextAttempt(s, mode)
      /\ settled.lifecycle # "Unregistered"
  BY <1>3 DEF SameAuthority, next
<1>9. Lockstep'
  <2>1. SUFFICES ASSUME NEW r \in Service
                 PROVE  /\ fences'[r].token = services'[r].fence
                        /\ fences'[r].token = services'[r].generation
                        /\ fences'[r].token = services'[r].lease_term
                        /\ fences'[r].holder = services'[r].active
    BY DEF Lockstep
  <2>2. CASE r = s
    BY <2>2, <1>2, <1>7, <1>8
  <2>3. CASE r # s
    BY <2>3, <1>2, <1>7 DEF Inv, Lockstep
  <2> QED  BY <2>2, <2>3
<1>10. GrantsDurable'
  <2>1. SUFFICES ASSUME NEW r \in Service
                 PROVE  /\ disk'.services[r].active = services'[r].active
                        /\ disk'.services[r].fence = services'[r].fence
                        /\ disk'.services[r].generation = services'[r].generation
                        /\ disk'.services[r].lease_term = services'[r].lease_term
                        /\ disk'.services[r].current_attempt = services'[r].current_attempt
    BY <1>2 DEF GrantsDurable
  <2>2. CASE r = s
    <3>1. services'[r] = settled /\ disk'.services[r] = next
      BY <2>2, <1>2, <1>7
    <3> QED  BY <3>1, <1>3, <1>8
  <2>3. CASE r # s
    <3>1. /\ services'[r] = services[r]
          /\ disk'.services[r] = services[r] \/ disk'.services[r] = disk.services[r]
      BY <2>3, <1>2, <1>7
    <3> QED  BY <3>1 DEF Inv, GrantsDurable
  <2> QED  BY <2>2, <2>3
<1>11. IntentsIdentified'
  <2>1. SUFFICES ASSUME NEW i \in intents'
                 PROVE  /\ i.fence <= services'[i.service].fence
                        /\ i.fence = services'[i.service].fence =>
                             /\ i.to = services'[i.service].active
                             /\ i.attempt = services'[i.service].current_attempt
                             /\ i.generation = services'[i.service].generation
                             /\ i.lease_term = services'[i.service].lease_term
    BY DEF IntentsIdentified
  <2>2. CASE i = new
    <3>1. services'[i.service] = settled
      BY <2>2, <1>2, <1>5, <1>7
    <3> QED  BY <2>2, <3>1, <1>5, <1>6, <1>8
  <2>3. CASE i \in intents /\ i.service = s
    <3>1. services'[i.service] = settled
      BY <2>3, <1>2, <1>7
    <3>2. /\ i.fence <= services[s].fence
          /\ i.fence = services[s].fence =>
               /\ i.to = services[s].active
               /\ i.attempt = services[s].current_attempt
               /\ i.generation = services[s].generation
               /\ i.lease_term = services[s].lease_term
          /\ i.fence \in Nat
      BY <2>3, <1>7 DEF Inv, IntentsIdentified, FailoverIntent
    <3>3. services[s].generation = services[s].fence /\ services[s].lease_term = services[s].fence
      BY DEF Inv, Lockstep
    <3> QED  BY <3>1, <3>2, <3>3, <1>6, <1>8
  <2>4. CASE i \in intents /\ i.service # s
    <3>1. i.service \in Service
      BY <2>4, <1>7 DEF FailoverIntent
    <3>2. services'[i.service] = services[i.service]
      BY <2>4, <3>1, <1>2, <1>7
    <3> QED  BY <2>4, <3>2 DEF Inv, IntentsIdentified
  <2> QED  BY <2>2, <2>3, <2>4, <1>2
<1>12. RuntimesSound'
  <2>1. SUFFICES ASSUME NEW r \in Service
                 PROVE  Sound(r, services[r])' /\ Sound(r, disk.services[r])'
    BY DEF RuntimesSound
  <2>2. ASSUME NEW rt, Sound(r, rt)
        PROVE  /\ HistoryCurrent(rt)
               /\ rt.history # <<>> =>
                    \E i \in intents' : i.service = r /\ i.fence = rt.fence /\ i.to = rt.active
               /\ rt.lifecycle = "Unregistered" =>
                    /\ rt.active = NoRef /\ rt.fence = 0 /\ rt.generation = 0
                    /\ rt.lease_term = 0 /\ rt.current_attempt = 0 /\ rt.history = <<>>
    BY <2>2, <1>2 DEF Sound
  <2>3. CASE r = s
    <3>1. services'[r] = settled /\ disk'.services[r] = next
      BY <2>3, <1>2, <1>7
    <3>2. HistoryCurrent(settled)
      BY <1>3, <1>4, SameAuthorityKeepsHistoryCurrent DEF next
    <3>3. \E i \in intents' : i.service = r /\ i.fence = f /\ i.to = to
      BY <2>3, <1>2, <1>5
    <3> QED  BY <3>1, <3>2, <3>3, <1>3, <1>4, <1>8 DEF Sound
  <2>4. CASE r # s
    <3>1. /\ services'[r] = services[r]
          /\ disk'.services[r] = services[r] \/ disk'.services[r] = disk.services[r]
      BY <2>4, <1>2, <1>7
    <3>2. Sound(r, services[r]) /\ Sound(r, disk.services[r])
      BY DEF Inv, RuntimesSound
    <3> QED  BY <3>1, <3>2, <2>2 DEF Sound
  <2> QED  BY <2>3, <2>4
<1> QED  BY <1>1, <1>9, <1>10, <1>11, <1>12 DEF Inv

-----------------------------------------------------------------------------
(* Every step is quiet or commits an attempt on an adopted placement.       *)

(* What the decision behind a commit has established: a resume repeats the  *)
(* move of the attempt in force, any other decision leaves the placement in *)
(* force, for a target no witness excludes unless a failback is permitted.  *)
Decided(s, to, from, mode) ==
  /\ to.target \in Target /\ to.inc = targets[to.target] /\ to.inc # 0
  /\ mode = "Resume" =>
       LET h == services[s].history IN h # <<>> /\ from = h[Len(h)].from
  /\ mode # "Resume" =>
       /\ from = services[s].active
       /\ \/ policy.allow_failback
          \/ to.target # from.target /\ to.inc > witnesses[s][to.target]

CommitsFor(s, to, mode) ==
  \E image \in Image, from \in OptionalRef, settled \in ServiceRuntime :
    /\ image.services = disk.services
    /\ CommitReady(s, to, from, mode)
    /\ Decided(s, to, from, mode)
    /\ SameAuthority(settled, CommittedRuntime(s, to, from, mode))
    /\ CommitRecovery(image, s, to, from, mode, settled)

CommitsAttempt ==
  /\ OtherTypeOK'
  /\ \E s \in Service, to \in AdoptedRef, mode \in CommitMode : CommitsFor(s, to, mode)

(* A registered target at its registered incarnation is an adopted one.     *)
LEMMA RegisteredIsAdopted ==
  ASSUME Inv, NEW t \in Target, NEW inc, inc = targets[t], inc # 0
  PROVE  [target |-> t, inc |-> inc] \in AdoptedRef
<1>1. inc \in Incarnations[t]
  BY DEF Inv, TypeOK, MemoryTypeOK
<1> QED  BY <1>1 DEF AdoptedRef

(* An adopted placement is a placement.                                     *)
LEMMA AdoptedIsRef ==
  AdoptedRef \subseteq TargetRef
<1>1. SUFFICES ASSUME NEW t \in Target, NEW r \in [target : {t}, inc : Incarnations[t]]
               PROVE  r \in TargetRef
  BY DEF AdoptedRef
<1>2. Incarnations[t] \subseteq Nat \ {0}
  BY FabricAssumption
<1> QED  BY <1>2 DEF TargetRef

(* An ordinary commit, whose runtime stays as it was committed.             *)
LEMMA PlainCommit ==
  ASSUME Inv, OtherTypeOK', NEW image \in Image, image.services = disk.services,
         NEW s \in Service, NEW to \in AdoptedRef, NEW from \in OptionalRef,
         NEW mode \in CommitMode,
         mode = "Resume" => Resumable(services[s]) /\ to = services[s].active,
         Decided(s, to, from, mode),
         Commit(image, s, to, from, mode)
  PROVE  CommitsAttempt
<1> DEFINE next == CommittedRuntime(s, to, from, mode)
<1>1. CommitReady(s, to, from, mode)
  BY AdoptedIsRef DEF CommitReady
<1>2. next \in ServiceRuntime
  BY <1>1, CommittedRuntimeFacts DEF CommitReady, Inv
<1>3. SameAuthority(next, next)
  BY DEF SameAuthority
<1>4. CommitRecovery(image, s, to, from, mode, next)
  BY DEF Commit
<1> HIDE DEF next
<1> QED  BY <1>1, <1>2, <1>3, <1>4 DEF CommitsAttempt, CommitsFor, next

(* A failover moves to a registered target, at its registered incarnation.  *)
LEMMA FailoverCommits ==
  ASSUME Inv, OtherTypeOK', NEW image \in Image, image.services = disk.services,
         NEW s \in Service, CommitFailover(image, s)
  PROVE  CommitsAttempt
<1>1. PICK t \in Fallback(s) : Commit(image, s, Ref(t), services[s].active, "Failover")
  BY DEF CommitFailover
<1>2. t \in Target /\ Eligible(s, t)
  BY DEF Fallback, SelectFallback
<1>3. Ref(t) \in AdoptedRef
  BY <1>2, RegisteredIsAdopted DEF Ref, Eligible, EvaluateCandidate
<1>4. services[s].active \in OptionalRef
  BY DEF Inv, TypeOK, MemoryTypeOK, ServiceRuntime
<1>5. t # services[s].active.target
  BY DEF Fallback, SelectFallback, Considered
<1>6. Decided(s, Ref(t), services[s].active, "Failover")
  BY <1>2, <1>5 DEF Decided, Ref, Eligible, EvaluateCandidate
<1> QED  BY <1>1, <1>3, <1>4, <1>6, PlainCommit DEF CommitMode

(* Commits with unchanged evidence keep the other types.                    *)
LEMMA OtherUnchanged ==
  ASSUME Inv, UNCHANGED <<opened, epoch, registry, evidence>>
  PROVE  OtherTypeOK'
  BY DEF Inv, TypeOK, MemoryTypeOK, OtherTypeOK, FailureMap, registry, evidence

(* The recovery decisions that commit whenever they are accepted.           *)
LEMMA DecisionsCommit ==
  ASSUME Inv, NEW s \in Service,
         \/ \E t \in Target : EstablishPlacement(s, t)
         \/ \E e \in EvidenceId, a \in BOOLEAN : RequestFailoverOnEvidence(s, e, a)
         \/ RequestFailoverByOperator(s)
         \/ ResumeRecovery(s)
         \/ RequestFailback(s)
  PROVE  CommitsAttempt
<1>1. disk \in Image /\ NoRef \in OptionalRef /\ services[s] \in ServiceRuntime
  BY DEF Inv, TypeOK, MemoryTypeOK, OptionalRef
<1>2. OtherTypeOK'
  <2>1. UNCHANGED <<opened, epoch, registry, evidence>>
    BY DEF EstablishPlacement, RequestFailoverOnEvidence, RequestFailoverByOperator,
           ResumeRecovery, RequestFailback, CommitFailover, Commit, CommitRecovery
  <2> QED  BY <2>1, OtherUnchanged
<1>3. ASSUME NEW t \in Target, EstablishPlacement(s, t)
      PROVE  CommitsAttempt
  <2>1. Ref(t) \in AdoptedRef
    BY <1>3, RegisteredIsAdopted DEF Ref, EstablishPlacement, Eligible, EvaluateCandidate
  <2>2. Commit(disk, s, Ref(t), NoRef, "InitialPlacement")
    BY <1>3 DEF EstablishPlacement
  <2>3. services[s].active = NoRef /\ t # NoRef.target
    BY <1>3, DescriptorAssumption DEF EstablishPlacement, Target, NoRef
  <2>4. Decided(s, Ref(t), NoRef, "InitialPlacement")
    BY <1>3, <2>3 DEF Decided, Ref, EstablishPlacement, Eligible, EvaluateCandidate
  <2> QED  BY <1>1, <1>2, <2>1, <2>2, <2>4, PlainCommit DEF CommitMode
<1>4. ASSUME NEW e \in EvidenceId, NEW a \in BOOLEAN, RequestFailoverOnEvidence(s, e, a)
      PROVE  CommitsAttempt
  BY <1>1, <1>2, <1>4, FailoverCommits DEF RequestFailoverOnEvidence
<1>5. CASE RequestFailoverByOperator(s)
  BY <1>1, <1>2, <1>5, FailoverCommits DEF RequestFailoverByOperator
<1>6. CASE ResumeRecovery(s)
  <2>1. PICK k \in CurrentRecords(services[s]) :
          LET previous == services[s].history[k] IN
          /\ targets[previous.to.target] = previous.to.inc
          /\ Commit(disk, s, previous.to, previous.from, "Resume")
    BY <1>6 DEF ResumeRecovery
  <2> DEFINE previous == services[s].history[k]
  <2>2. /\ k \in 1 .. Len(services[s].history)
        /\ previous \in AttemptRecord
        /\ previous.id = services[s].current_attempt
        /\ previous.to = services[s].active
        /\ k = Len(services[s].history) /\ services[s].history # <<>>
    BY <1>1, CurrentRecordFacts DEF Inv, RuntimesSound, Sound
  <2>3. Resumable(services[s])
    BY <2>2 DEF Resumable
  <2> HIDE DEF previous
  <2>4. previous.to \in TargetRef /\ previous.from \in OptionalRef
    BY <2>2 DEF AttemptRecord
  <2>5. previous.to \in AdoptedRef
    <3>1. /\ previous.to.target \in Target /\ previous.to.inc # 0
          /\ previous.to = [target |-> previous.to.target, inc |-> previous.to.inc]
      BY <2>4 DEF TargetRef
    <3> QED  BY <3>1, <2>1, RegisteredIsAdopted DEF previous
  <2>6. Commit(disk, s, previous.to, previous.from, "Resume")
    BY <2>1 DEF previous
  <2>7. Decided(s, previous.to, previous.from, "Resume")
    BY <2>1, <2>2, <2>4 DEF Decided, previous, TargetRef
  <2> QED  BY <1>1, <1>2, <2>2, <2>3, <2>4, <2>5, <2>6, <2>7, PlainCommit DEF CommitMode
<1>7. CASE RequestFailback(s)
  <2> DEFINE origin == services[s].pre_failover_target
             to == Ref(origin.target)
             next == CommittedRuntime(s, to, services[s].active, "Failover")
             settled == [next EXCEPT !.pre_failover_target = NoRef,
                                     !.failover_recorded = FALSE]
  <2>1. /\ origin \in TargetRef /\ services[s].active \in OptionalRef
        /\ targets[origin.target] > origin.inc
        /\ CommitRecovery(disk, s, to, services[s].active, "Failover", settled)
    BY <1>1, <1>7 DEF RequestFailback, ServiceRuntime, OptionalRef
  <2>2. to \in AdoptedRef
    <3>1. origin.target \in Target /\ origin.inc \in Nat \ {0}
      BY <2>1 DEF TargetRef
    <3>2. targets[origin.target] \in Nat
      BY <3>1 DEF Inv, TypeOK, MemoryTypeOK
    <3>3. targets[origin.target] # 0
      BY <2>1, <3>1, <3>2
    <3> QED  BY <3>1, <3>3, RegisteredIsAdopted DEF Ref
  <2>7. Decided(s, to, services[s].active, "Failover")
    <3>1. to.target \in Target /\ to.inc = targets[to.target] /\ policy.allow_failback
      BY <1>7, <2>1 DEF Ref, TargetRef, RequestFailback
    <3>2. to.inc # 0
      BY <2>2, AdoptedIsRef DEF TargetRef
    <3> QED  BY <3>1, <3>2 DEF Decided
  <2> HIDE DEF to
  <2>3. CommitReady(s, to, services[s].active, "Failover")
    BY <2>1, <2>2, AdoptedIsRef DEF CommitReady, CommitMode
  <2>4. next \in ServiceRuntime
    BY <2>3, CommittedRuntimeFacts DEF CommitReady, Inv
  <2> HIDE DEF next
  <2>5. settled \in ServiceRuntime /\ SameAuthority(settled, next)
    BY <2>4 DEF ServiceRuntime, SameAuthority, OptionalRef
  <2> HIDE DEF settled
  <2>6. CommitsFor(s, to, "Failover")
    BY <1>1, <2>1, <2>3, <2>5, <2>7 DEF CommitsFor, next
  <2> QED  BY <1>2, <2>2, <2>6 DEF CommitsAttempt, CommitMode
<1> QED  BY <1>3, <1>4, <1>5, <1>6, <1>7

(* A confirmed ambiguity commits a failover or only clears the ambiguity.   *)
LEMMA ResolveConfirmedCases ==
  ASSUME Inv, NEW s \in Service, ResolveConfirmed(s)
  PROVE  (TypeOK' /\ Quiet) \/ CommitsAttempt
<1> DEFINE e == services[s].pending_ambiguity
           confirmed == [failures[e] EXCEPT !.ambiguous = FALSE]
           promoted == JournalFailure(disk, e, confirmed)
<1>1. /\ disk \in Image /\ services[s] \in ServiceRuntime
      /\ failures \in FailureMap
  BY DEF Inv, TypeOK, MemoryTypeOK, FailureMap
<1>2. e \in EvidenceId /\ failures[e] # NoEvidence
  BY DEF ResolveConfirmed, Retained, RetainedIn
<1>3. confirmed \in FailureEvidence
  <2>1. failures[e] \in FailureEvidence
    BY <1>1, <1>2 DEF FailureMap
  <2> QED  BY <2>1 DEF FailureEvidence
<1>4. /\ failures' = [failures EXCEPT ![e] = confirmed]
      /\ UNCHANGED <<failure_order, latest_failure, next_evidence_id>>
      /\ UNCHANGED <<opened, epoch, registry>>
      /\ \/ CommitFailover(promoted, s)
         \/ /\ services' = [services EXCEPT ![s].ambiguity_pending = FALSE,
                                            ![s].pending_ambiguity = 0]
            /\ disk' = promoted
            /\ UNCHANGED <<fences, witnesses, next_attempt_id, intents>>
  BY DEF ResolveConfirmed, CommitFailover, Commit, CommitRecovery
<1> HIDE DEF confirmed, e
<1>5. failures' \in FailureMap
  BY <1>1, <1>2, <1>3, <1>4 DEF FailureMap
<1>6. /\ promoted \in Image /\ promoted.services = disk.services
      /\ promoted.fences = disk.fences /\ promoted.witnesses = disk.witnesses
  BY <1>1, <1>2, <1>3, JournalFailureType
<1> HIDE DEF promoted
<1>7. CASE CommitFailover(promoted, s)
  <2>1. OtherTypeOK'
    BY <1>4, <1>5 DEF Inv, TypeOK, MemoryTypeOK, OtherTypeOK, FailureMap, registry
  <2> QED  BY <1>6, <1>7, <2>1, FailoverCommits
<1>8. CASE /\ services' = [services EXCEPT ![s].ambiguity_pending = FALSE,
                                          ![s].pending_ambiguity = 0]
           /\ disk' = promoted
           /\ UNCHANGED <<fences, witnesses, next_attempt_id, intents>>
  <2> DEFINE old == services[s]
             rt == [old EXCEPT !.ambiguity_pending = FALSE, !.pending_ambiguity = 0]
  <2>1. services' = [services EXCEPT ![s] = rt]
    BY <1>8 DEF Inv, TypeOK, MemoryTypeOK
  <2>2. rt \in ServiceRuntime /\ SameAuthority(rt, services[s])
    BY <1>1 DEF ServiceRuntime, SameAuthority
  <2> HIDE DEF rt
  <2> QED  BY <1>4, <1>5, <1>6, <1>8, <2>1, <2>2, MemoryQuiet
<1> QED  BY <1>4, <1>7, <1>8

(* The case split on Next.                                                  *)
LEMMA StepCases ==
  ASSUME Inv, Next
  PROVE  (TypeOK' /\ Quiet) \/ CommitsAttempt
<1>1. CASE RegistryStep
  BY <1>1, RegisterServiceQuiet, WithdrawServiceQuiet, RegistriesQuiet DEF RegistryStep
<1>2. CASE EvidenceStep
  BY <1>2, IngestFailureQuiet, RegistriesQuiet DEF EvidenceStep
<1>3. CASE RecoveryStep
  BY <1>3, DecisionsCommit, RefuseAmbiguousQuiet, ResolveAliveQuiet,
     ResolveConfirmedCases DEF RecoveryStep
<1>4. CASE ExecutorStep
  BY <1>4, AcknowledgeIntentQuiet, EffectsQuiet DEF ExecutorStep
<1> QED  BY <1>1, <1>2, <1>3, <1>4, CloseQuiet, OpenQuiet DEF Next

(* The invariant holds initially.                                           *)
LEMMA InitInv ==
  ASSUME Init
  PROVE  Inv
<1> DEFINE rt == NewRuntime("Unregistered")
<1>1. rt \in ServiceRuntime
  <2>1. <<>> \in AttemptHistory
    BY FabricAssumption DEF AttemptHistory
  <2> QED  BY <2>1 DEF NewRuntime, ServiceRuntime, LifecyclePhase, RecoveryPhase,
                     ContinuityClass, OptionalRef
<1>2. /\ rt.active = NoRef /\ rt.fence = 0 /\ rt.generation = 0
      /\ rt.lease_term = 0 /\ rt.current_attempt = 0 /\ rt.history = <<>>
  BY DEF NewRuntime
<1>3. services = [s \in Service |-> rt]
  BY DEF Init
<1> HIDE DEF rt
<1>4. services \in [Service -> ServiceRuntime]
  BY <1>1, <1>3
<1>5. /\ fences \in [Service -> FenceRecord]
      /\ witnesses \in [Service -> [Target -> Nat]]
      /\ failures \in FailureMap
      /\ next_evidence_id \in Nat \ {0} /\ next_attempt_id \in Nat \ {0}
      /\ epoch \in Nat
  BY DEF Init, FenceRecord, OptionalRef, FailureMap
<1>6. /\ opened \in BOOLEAN /\ topology \in Nat /\ policy \in Policy
      /\ failure_order \in Seq(EvidenceId) /\ intents \subseteq FailoverIntent
      /\ latest_failure \in [Service -> {0} \cup EvidenceId]
      /\ targets \in [Target -> Nat] /\ \A t \in Target : targets[t] \in {0} \cup Incarnations[t]
      /\ capabilities \in [Target -> CapabilitySlot \cup {NoSlot}]
  BY FabricAssumption DEF Init
<1>7. MemoryTypeOK
  BY <1>4, <1>5, <1>6 DEF MemoryTypeOK, FailureMap
<1> DEFINE ok == Cardinality(RetainedIn(failures)) <= MaxRetained
<1>8. disk = [epoch |-> epoch, failures |-> failures,
              failure_order |-> InIdOrder(RetainedIn(failures)),
              next_evidence_id |-> next_evidence_id,
              latest_failure |-> [s \in Service |-> 0], services |-> services,
              fences |-> fences, witnesses |-> witnesses,
              next_attempt_id |-> next_attempt_id, decodable |-> ok]
  BY DEF Init, Snapshot
<1>9. ok \in BOOLEAN
  OBVIOUS
<1> HIDE DEF ok
<1>10. disk \in Image
  <2>1. [epoch |-> epoch, failures |-> failures,
         failure_order |-> InIdOrder(RetainedIn(failures)),
         next_evidence_id |-> next_evidence_id,
         latest_failure |-> [s \in Service |-> 0], services |-> services,
         fences |-> fences, witnesses |-> witnesses,
         next_attempt_id |-> next_attempt_id, decodable |-> ok] \in Image
    BY <1>4, <1>5, <1>9, SnapshotImage
  <2> QED  BY <1>8, <2>1, Zenon
<1>11. disk.services = services /\ disk.fences = fences /\ disk.witnesses = witnesses
  BY <1>8
<1>12. TypeOK
  BY <1>7, <1>10 DEF TypeOK
<1>13. Lockstep
  BY <1>2, <1>3 DEF Init, Lockstep
<1>14. GrantsDurable
  BY <1>11 DEF GrantsDurable
<1>15. RuntimesSound
  BY <1>2, <1>3, <1>11 DEF RuntimesSound, Sound, HistoryCurrent
<1>16. IntentsIdentified
  BY DEF Init, IntentsIdentified
<1> QED  BY <1>12, <1>13, <1>14, <1>15, <1>16 DEF Inv

(* The invariant is inductive.                                              *)
LEMMA NextInv ==
  ASSUME Inv, [Next]_vars
  PROVE  Inv'
<1>1. CASE UNCHANGED vars
  <2>1. TypeOK'
    BY <1>1 DEF Inv, TypeOK, MemoryTypeOK, vars, registry, evidence, authority
  <2>2. Quiet
    BY <1>1, KeepsOwnAuthority DEF Quiet, Inv, GrantsDurable, vars, authority
  <2> QED  BY <2>1, <2>2, QuietStep
<1>2. CASE TypeOK' /\ Quiet
  BY <1>2, QuietStep
<1>3. CASE CommitsAttempt
  BY <1>3, CommitStep DEF CommitsAttempt, CommitsFor
<1> QED  BY <1>1, <1>2, <1>3, StepCases

(* Inv holds in every reachable state.                                      *)
THEOREM Invariance == Spec => []Inv
<1>1. Init => Inv
  BY InitInv
<1>2. Inv /\ [Next]_vars => Inv'
  BY NextInv
<1> QED  BY <1>1, <1>2, PTL DEF Spec

(* TypeOK: every variable keeps its type, and no attempt history, in memory *)
(* or recovered, exceeds config.max_attempt_history.                        *)
THEOREM TypeCorrect == Spec => []TypeOK
<1>1. Inv => TypeOK
  BY DEF Inv
<1> QED  BY <1>1, Invariance, PTL

(* Lockstep: the fence record, the runtime's fence, the generation and the  *)
(* lease term of a service never drift apart, across commits and restarts.  *)
THEOREM CountersInLockstep == Spec => []Lockstep
<1>1. Inv => Lockstep
  BY DEF Inv
<1> QED  BY <1>1, Invariance, PTL

(* IntentsFenced: every intent ever returned is covered by the fence.       *)
THEOREM EveryIntentFenced == Spec => []IntentsFenced
<1>1. Inv => IntentsFenced
  <2>1. \A i \in intents : Inv => i.service \in Service
    BY DEF Inv, TypeOK, MemoryTypeOK, FailoverIntent
  <2> QED  BY <2>1 DEF Inv, Lockstep, IntentsIdentified, IntentsFenced
<1> QED  BY <1>1, Invariance, PTL

(* SupersededIntentsRejected: verify_fence calls every intent stale for     *)
(* which a newer one of the service was ever returned.                      *)
THEOREM OldIntentsStale == Spec => []SupersededIntentsRejected
<1>1. ASSUME Inv
      PROVE  SupersededIntentsRejected
  <2>1. SUFFICES ASSUME NEW i \in intents, NEW j \in intents,
                        i.service = j.service, i.fence < j.fence
                 PROVE  FenceVerdict(i.service, i.fence, i.to) = "FenceStale"
    BY DEF SupersededIntentsRejected
  <2>2. i.service \in Service /\ i.fence \in Nat /\ j.fence \in Nat
    BY <1>1 DEF Inv, TypeOK, MemoryTypeOK, FailoverIntent
  <2>3. /\ fences[i.service].token \in Nat
        /\ j.fence <= fences[i.service].token
    BY <1>1, <2>1, <2>2 DEF Inv, TypeOK, MemoryTypeOK, FenceRecord, Lockstep, IntentsIdentified
  <2>4. fences[i.service].token # 0 /\ i.fence < fences[i.service].token
    BY <2>1, <2>2, <2>3
  <2> QED  BY <2>4 DEF FenceVerdict
<1> QED  BY <1>1, Invariance, PTL

-----------------------------------------------------------------------------
(* What a committed attempt means to the outside.                           *)

(* A commit raises the token of one service by one and hands out a new      *)
(* intent, or it hands out the intent in force again.                       *)
LEMMA CommitGrants ==
  ASSUME Inv, CommitsAttempt
  PROVE  \E s \in Service, to \in AdoptedRef, new \in intents' :
           /\ intents' = intents \cup {new}
           /\ new.service = s /\ new.to = to
           /\ new.generation = new.fence /\ new.lease_term = new.fence
           /\ fences' = [fences EXCEPT ![s] = [token |-> new.fence, holder |-> to]]
           /\ \/ new.fence = services[s].fence + 1
              \/ /\ new.fence = services[s].fence
                 /\ new.to = services[s].active
                 /\ new.attempt = services[s].current_attempt
                 /\ services[s].history # <<>>
<1>1. PICK s \in Service, to \in AdoptedRef, mode \in CommitMode : CommitsFor(s, to, mode)
  BY DEF CommitsAttempt
<1>2. PICK image \in Image, from \in OptionalRef, settled \in ServiceRuntime :
        /\ image.services = disk.services
        /\ CommitReady(s, to, from, mode)
        /\ SameAuthority(settled, CommittedRuntime(s, to, from, mode))
        /\ CommitRecovery(image, s, to, from, mode, settled)
  BY <1>1 DEF CommitsFor
<1> DEFINE new == Intent(s, to, from, mode)
<1>3. /\ fences' = [fences EXCEPT ![s] = [token |-> NextFence(s, mode), holder |-> to]]
      /\ intents' = intents \cup {new}
  BY <1>2 DEF CommitRecovery
<1>4. /\ new.service = s /\ new.to = to /\ new.attempt = NextAttempt(s, mode)
      /\ new.fence = NextFence(s, mode)
      /\ new.generation = new.fence /\ new.lease_term = new.fence
  <2>1. NextGeneration(s, mode) = NextFence(s, mode) /\ NextTerm(s, mode) = NextFence(s, mode)
    BY NextCounters
  <2> QED  BY <2>1 DEF Intent
<1>5. \/ NextFence(s, mode) = services[s].fence + 1
      \/ /\ NextFence(s, mode) = services[s].fence
         /\ to = services[s].active
         /\ NextAttempt(s, mode) = services[s].current_attempt
         /\ services[s].history # <<>>
  <2>1. CASE mode = "Resume"
    <3>1. services[s].history # <<>>
      <4>1. PICK k \in 1 .. Len(services[s].history) : TRUE
        BY <1>2, <2>1 DEF CommitReady, Resumable
      <4>2. Len(<<>>) = 0
        OBVIOUS
      <4> QED  BY <4>1, <4>2
    <3> QED  BY <1>2, <2>1, <3>1, NextCounters DEF CommitReady, NextAttempt
  <2>2. CASE mode # "Resume"
    BY <2>2, NextCounters
  <2> QED  BY <2>1, <2>2
<1> HIDE DEF new
<1>6. new \in intents'
  BY <1>3
<1> QED  BY <1>3, <1>4, <1>5, <1>6

(* IntentsFreshOrReissued: an executor is never given two different         *)
(* authorities under one token, and never one older than it has seen.       *)
THEOREM FreshOrReissuedAlways == Spec => IntentsFreshOrReissued
<1>1. ASSUME Inv, [Next]_vars
      PROVE  [FreshOrReissued]_vars
  <2>1. CASE UNCHANGED vars
    BY <2>1
  <2>2. CASE Quiet
    BY <2>2 DEF Quiet, FreshOrReissued
  <2>3. CASE CommitsAttempt
    <3>1. PICK s \in Service, to \in AdoptedRef, new \in intents' :
           /\ intents' = intents \cup {new}
           /\ new.service = s /\ new.to = to
           /\ new.generation = new.fence /\ new.lease_term = new.fence
           /\ \/ new.fence = services[s].fence + 1
              \/ /\ new.fence = services[s].fence
                 /\ new.to = services[s].active
                 /\ new.attempt = services[s].current_attempt
      BY <1>1, <2>3, CommitGrants
    <3>2. SUFFICES ASSUME NEW j \in intents, j.service = s
                   PROVE  \/ j.fence < new.fence
                          \/ /\ j.fence = new.fence
                             /\ j.attempt = new.attempt
                             /\ j.generation = new.generation
                             /\ j.lease_term = new.lease_term
                             /\ j.to = new.to
      BY <3>1 DEF FreshOrReissued
    <3>3. /\ j.fence \in Nat /\ services[s].fence \in Nat
          /\ j.fence <= services[s].fence
          /\ j.fence = services[s].fence =>
               /\ j.to = services[s].active
               /\ j.attempt = services[s].current_attempt
               /\ j.generation = services[s].fence
               /\ j.lease_term = services[s].fence
      BY <1>1, <3>2 DEF Inv, TypeOK, MemoryTypeOK, FailoverIntent, ServiceRuntime,
                        IntentsIdentified, Lockstep
    <3> QED  BY <3>1, <3>3
  <2> QED  BY <1>1, <2>1, <2>2, <2>3, StepCases
<1> QED  BY <1>1, Invariance, PTL DEF Spec, IntentsFreshOrReissued

(* ImplementsAuthority: the coordinator implements FenceAuthority.          *)
THEOREM Refinement == Spec => ImplementsAuthority
<1>1. Init => Authority!Init
  BY DEF Init, Authority!Init, TokenInForce, Granted
<1>2. ASSUME Inv, [Next]_vars
      PROVE  [Authority!Next]_<<TokenInForce, Granted>>
  <2>1. CASE UNCHANGED vars
    BY <2>1 DEF vars, authority, TokenInForce, Granted
  <2>2. CASE Quiet
    BY <2>2 DEF Quiet, TokenInForce, Granted
  <2>3. CASE CommitsAttempt
    <3>1. PICK s \in Service, to \in AdoptedRef, new \in intents' :
           /\ intents' = intents \cup {new}
           /\ new.service = s /\ new.to = to
           /\ fences' = [fences EXCEPT ![s] = [token |-> new.fence, holder |-> to]]
           /\ \/ new.fence = services[s].fence + 1
              \/ /\ new.fence = services[s].fence
                 /\ new.to = services[s].active
                 /\ services[s].history # <<>>
      BY <1>2, <2>3, CommitGrants
    <3>2. /\ fences \in [Service -> FenceRecord] /\ services[s].fence \in Nat
          /\ services[s].fence = fences[s].token
      BY <1>2 DEF Inv, TypeOK, MemoryTypeOK, Lockstep, ServiceRuntime
    <3> DEFINE grant(i) == [service |-> i.service, token |-> i.fence, holder |-> i.to]
    <3>3. /\ Granted = {grant(i) : i \in intents}
          /\ Granted' = {grant(i) : i \in intents'}
      BY DEF Granted
    <3>4. grant(new) = [service |-> s, token |-> new.fence, holder |-> to]
      BY <3>1
    <3>5. \A i : grant(i).service = i.service /\ grant(i).token = i.fence /\ grant(i).holder = i.to
      OBVIOUS
    <3>6. \A i, j : i.service = j.service /\ i.fence = j.fence /\ i.to = j.to => grant(i) = grant(j)
      OBVIOUS
    <3> HIDE DEF grant
    <3>7. Granted' = Granted \cup {grant(new)}
      BY <3>1, <3>3
    <3>8. TokenInForce' = [TokenInForce EXCEPT ![s] = new.fence]
      BY <3>1, <3>2 DEF TokenInForce
    <3>9. CASE new.fence = services[s].fence + 1
      <4>1. TokenInForce[s] = services[s].fence
        BY <3>2 DEF TokenInForce
      <4>2. Authority!Grant(s, to)
        BY <3>4, <3>7, <3>8, <3>9, <4>1 DEF Authority!Grant
      <4> QED  BY <4>2 DEF Authority!Next
    <3>10. CASE new.fence = services[s].fence /\ new.to = services[s].active /\ services[s].history # <<>>
      <4>1. PICK i \in intents : i.service = s /\ i.fence = services[s].fence
                                 /\ i.to = services[s].active
        BY <1>2, <3>10 DEF Inv, RuntimesSound, Sound
      <4>2. grant(new) \in Granted
        BY <3>1, <3>3, <3>6, <3>10, <4>1
      <4>3. Granted' = Granted
        BY <3>7, <4>2
      <4>4. TokenInForce' = TokenInForce
        BY <3>2, <3>8, <3>10 DEF TokenInForce
      <4> QED  BY <4>3, <4>4
    <3> QED  BY <3>1, <3>9, <3>10
  <2> QED  BY <1>2, <2>1, <2>2, <2>3, StepCases
<1> QED  BY <1>1, <1>2, Invariance, PTL DEF Spec, ImplementsAuthority, Authority!Spec

(* What FenceAuthority keeps true of the tokens in force and the grants: no *)
(* grant carries a token above the newest.                                  *)
AuthoritySound ==
  /\ Authority!TypeOK /\ Authority!OneHolderPerToken
  /\ \A g \in Granted : g.token <= TokenInForce[g.service]

(* A grant takes the next token of its service.                             *)
LEMMA GrantSound ==
  ASSUME AuthoritySound, NEW s \in Service, NEW h \in AdoptedRef, Authority!Grant(s, h)
  PROVE  AuthoritySound'
<1> DEFINE new == [service |-> s, token |-> TokenInForce[s] + 1, holder |-> h]
<1>1. /\ TokenInForce \in [Service -> Nat] /\ Granted \subseteq Authority!Grants
      /\ \A g \in Granted : g.token <= TokenInForce[g.service]
  BY DEF AuthoritySound, Authority!TypeOK
<1>2. /\ TokenInForce' = [TokenInForce EXCEPT ![s] = TokenInForce[s] + 1]
      /\ Granted' = Granted \cup {new}
  BY DEF Authority!Grant
<1>3. /\ new \in Authority!Grants
      /\ new.service = s /\ new.token = TokenInForce[s] + 1 /\ new.holder = h
  BY <1>1 DEF Authority!Grants
<1> HIDE DEF new
<1>4. Authority!TypeOK'
  BY <1>1, <1>2, <1>3 DEF Authority!TypeOK
<1>5. \A g \in Granted : g.service \in Service /\ g.token \in Nat
  BY <1>1 DEF Authority!Grants
<1>6. \A g \in Granted' : g.token <= TokenInForce'[g.service]
  BY <1>1, <1>2, <1>3, <1>5
<1>7. \A g \in Granted : g.service = s => g.token # new.token
  BY <1>1, <1>3, <1>5
<1>8. Authority!OneHolderPerToken'
  BY <1>2, <1>3, <1>7 DEF AuthoritySound, Authority!OneHolderPerToken
<1> QED  BY <1>4, <1>6, <1>8 DEF AuthoritySound

(* One token, one holder: two executors that present the same token of a    *)
(* service are the same placement, whatever the coordinator committed,      *)
(* resumed, forgot or recovered in between.                                 *)
THEOREM OneHolder == Spec => []Authority!OneHolderPerToken
<1>1. Authority!Init => AuthoritySound
  BY DEF Authority!Init, AuthoritySound, Authority!TypeOK, Authority!OneHolderPerToken
<1>2. ASSUME AuthoritySound, [Authority!Next]_<<TokenInForce, Granted>>
      PROVE  AuthoritySound'
  <2>1. CASE UNCHANGED <<TokenInForce, Granted>>
    BY <1>2, <2>1 DEF AuthoritySound, Authority!TypeOK, Authority!OneHolderPerToken
  <2>2. CASE Authority!Next
    BY <1>2, <2>2, GrantSound DEF Authority!Next
  <2> QED  BY <1>2, <2>1, <2>2
<1>3. AuthoritySound => Authority!OneHolderPerToken
  BY DEF AuthoritySound
<1> QED  BY <1>1, <1>2, <1>3, Refinement, PTL DEF ImplementsAuthority, Authority!Spec

-----------------------------------------------------------------------------
(* Old holders stay out.                                                    *)

(* The move of the attempt in force has left its witness: a resume, which   *)
(* writes that witness again, writes what is there.                         *)
OriginFenced(s, rt) ==
  rt.history # <<>> =>
    LET from == rt.history[Len(rt.history)].from IN
    from # NoRef => witnesses[s][from.target] = from.inc

OriginsFenced ==
  \A s \in Service : /\ OriginFenced(s, services[s])
                     /\ OriginFenced(s, disk.services[s])

(* Placements and witnesses are incarnations reporters adopted, and there   *)
(* is no authority without a placement.                                     *)
PlacementsAdopted ==
  \A s \in Service :
    /\ services[s].active \in AdoptedRef \cup {NoRef}
    /\ services[s].fence # 0 => services[s].active # NoRef
    /\ \A t \in Target : witnesses[s][t] \in {0} \cup Incarnations[t]

(* A placement and a witness were given authority once.                     *)
PlacementsNamed ==
  \A s \in Service :
    /\ services[s].active # NoRef => \E i \in intents : i.to = services[s].active
    /\ \A t \in Target :
         witnesses[s][t] # 0 =>
           \E i \in intents : i.to.target = t /\ i.to.inc = witnesses[s][t]

(* In the following, fwd says that incarnations move forward.  Then no      *)
(* placement and no witness is ahead of the registered incarnation.         *)
NothingAhead(fwd) ==
  fwd =>
    \A s \in Service, t \in Target :
      targets[t] # 0 =>
        /\ witnesses[s][t] <= targets[t]
        /\ services[s].active.target = t => services[s].active.inc <= targets[t]

(* The witness of a target never exceeds the holder on it, and stays below  *)
(* it until a failback is permitted: this is what lets the witness of a     *)
(* placement left behind stand for every older one too.                     *)
HoldersAbove(fwd) ==
  \A s \in Service :
    services[s].active # NoRef =>
      /\ fwd => witnesses[s][services[s].active.target] <= services[s].active.inc
      /\ NoFailbackYet =>
           witnesses[s][services[s].active.target] < services[s].active.inc

OldHoldersOut(fwd) == fwd \/ NoFailbackYet => SupersededHoldersExcluded

Exclusion(fwd) ==
  /\ policy \in Policies
  /\ OriginsFenced /\ PlacementsAdopted /\ PlacementsNamed
  /\ NothingAhead(fwd) /\ HoldersAbove(fwd) /\ OldHoldersOut(fwd)

(* The steps that change a registered incarnation or the policy.            *)
RegistryMoves ==
  \/ \E t \in Target : \E inc \in Incarnations[t] : RegisterTarget(t, inc)
  \/ \E t \in Retirable : RetireTarget(t)
  \/ \E p \in Policies : SetPolicy(p)
  \/ UNCHANGED <<targets, policy>>

(* What any operation may do to registered targets and policy.              *)
LEMMA RegistryFrame ==
  ASSUME Next
  PROVE  RegistryMoves
<1>1. CASE RegistryStep
  BY <1>1 DEF RegistryStep, RegistryMoves, RegisterService, WithdrawService,
              SetTopologyGeneration, registry
<1>2. CASE EvidenceStep
  <2>1. ASSUME NEW t, NEW g, NEW c, IngestCapability(t, g, c)
        PROVE  UNCHANGED <<targets, policy>>
    BY <2>1 DEF IngestCapability
  <2>2. ASSUME NEW s, NEW ref, NEW e, NEW a, IngestFailure(s, ref, e, a)
        PROVE  UNCHANGED <<targets, policy>>
    BY <2>2 DEF IngestFailure, registry
  <2> QED  BY <1>2, <2>1, <2>2 DEF EvidenceStep, RegistryMoves
<1>3. CASE RecoveryStep
  <2>1. ASSUME NEW s, \/ \E t \in Target : EstablishPlacement(s, t)
                      \/ \E e \in EvidenceId, a \in BOOLEAN : RequestFailoverOnEvidence(s, e, a)
                      \/ RequestFailoverByOperator(s)
                      \/ ResumeRecovery(s)
                      \/ RequestFailback(s)
        PROVE  UNCHANGED <<targets, policy>>
    BY <2>1 DEF EstablishPlacement, RequestFailoverOnEvidence, RequestFailoverByOperator,
                ResumeRecovery, RequestFailback, CommitFailover, Commit, CommitRecovery,
                registry
  <2>2. ASSUME NEW s, ResolveConfirmed(s)
        PROVE  UNCHANGED <<targets, policy>>
    BY <2>2 DEF ResolveConfirmed, CommitFailover, Commit, CommitRecovery, registry
  <2>3. ASSUME NEW s, ResolveAlive(s) \/ \E e \in EvidenceId : RefuseAmbiguous(s, e)
        PROVE  UNCHANGED <<targets, policy>>
    BY <2>3 DEF ResolveAlive, RefuseAmbiguous, registry
  <2> QED  BY <1>3, <2>1, <2>2, <2>3 DEF RecoveryStep, RegistryMoves
<1>4. CASE ExecutorStep
  BY <1>4 DEF ExecutorStep, RegistryMoves, AcknowledgeIntent, ReportNegative,
              ReportActivationAccepted, ReportDeactivationAcknowledged,
              ReportStateTransferComplete, ReportServiceHealthy, RecordEffect, registry
<1>5. CASE Close \/ Open
  BY <1>5 DEF RegistryMoves, Close, Open, registry
<1> QED  BY <1>1, <1>2, <1>3, <1>4, <1>5 DEF Next

(* A permission once given stays given, and the policy in force is one of   *)
(* those reporters submit.                                                  *)
LEMMA PolicyForward ==
  ASSUME Inv, policy \in Policies, RegistryMoves
  PROVE  policy' \in Policies /\ (NoFailbackYet' => NoFailbackYet)
<1>1. CASE policy' = policy
  BY <1>1 DEF NoFailbackYet
<1>2. ASSUME NEW p \in Policies, SetPolicy(p)
      PROVE  policy' \in Policies /\ (NoFailbackYet' => NoFailbackYet)
  <2>1. policy' = p /\ p.generation > policy.generation
    BY <1>2 DEF SetPolicy
  <2>2. /\ policy.generation \in Nat
        /\ \A q \in Policies : q.generation \in Nat
    BY FabricAssumption DEF Inv, TypeOK, MemoryTypeOK, Policy
  <2>3. \A q \in Policies : q.generation <= policy.generation => q.generation <= p.generation
    BY <2>1, <2>2
  <2> QED  BY <2>1, <2>3 DEF NoFailbackYet
<1>3. CASE \/ \E t \in Target : \E inc \in Incarnations[t] : RegisterTarget(t, inc)
           \/ \E t \in Retirable : RetireTarget(t)
  <2>1. policy' = policy
    BY <1>3 DEF RegisterTarget, RetireTarget
  <2> QED  BY <1>1, <2>1
<1> QED  BY <1>1, <1>2, <1>3 DEF RegistryMoves

(* Keeping the authority keeps the origin of the attempt in force.          *)
LEMMA OriginKept ==
  ASSUME NEW s \in Service, NEW a \in ServiceRuntime, NEW b \in ServiceRuntime,
         SameAuthority(a, b), OriginFenced(s, b)
  PROVE  OriginFenced(s, a)
<1>1. /\ a.history \in Seq(AttemptRecord) /\ b.history \in Seq(AttemptRecord)
      /\ Len(a.history) = Len(b.history)
  BY DEF ServiceRuntime, AttemptHistory, SameAuthority
<1>2. SUFFICES ASSUME a.history # <<>>
               PROVE  LET from == a.history[Len(a.history)].from IN
                      from # NoRef => witnesses[s][from.target] = from.inc
  BY DEF OriginFenced
<1>3. b.history # <<>> /\ Len(b.history) \in 1 .. Len(b.history)
  BY <1>1, <1>2
<1>4. a.history[Len(a.history)].from = b.history[Len(b.history)].from
  BY <1>1, <1>3 DEF SameAuthority
<1> QED  BY <1>3, <1>4 DEF OriginFenced

(* A quiet step lets nobody back in.                                        *)
LEMMA QuietExclusion ==
  ASSUME NEW CONSTANT fwd \in BOOLEAN, Inv, TypeOK', Exclusion(fwd),
         Quiet, RegistryMoves, fwd => ReturnsForward
  PROVE  Exclusion(fwd)'
<1>1. \A s \in Service : /\ services[s] \in ServiceRuntime
                         /\ disk.services[s] \in ServiceRuntime
                         /\ services'[s] \in ServiceRuntime
                         /\ disk'.services[s] \in ServiceRuntime
  BY DEF Inv, TypeOK, MemoryTypeOK, Image
<1>2. \A s \in Service : /\ services'[s].active = services[s].active
                         /\ services'[s].fence = services[s].fence
  BY DEF Inv, GrantsDurable, Quiet, KeepsAuthority, SameAuthority
<1>3. witnesses' = witnesses /\ intents' = intents
  BY DEF Quiet
<1>4. policy' \in Policies /\ (NoFailbackYet' => NoFailbackYet)
  BY PolicyForward DEF Exclusion
<1>5. OriginsFenced'
  <2>1. SUFFICES ASSUME NEW s \in Service
                 PROVE  OriginFenced(s, services[s])' /\ OriginFenced(s, disk.services[s])'
    BY DEF OriginsFenced
  <2>2. OriginFenced(s, services[s]) /\ OriginFenced(s, disk.services[s])
    BY DEF Exclusion, OriginsFenced
  <2>3. OriginFenced(s, services'[s]) /\ OriginFenced(s, disk'.services[s])
    BY <1>1, <2>2, OriginKept DEF Quiet, KeepsAuthority
  <2> QED  BY <1>3, <2>3 DEF OriginFenced
<1>6. PlacementsAdopted' /\ PlacementsNamed'
  BY <1>2, <1>3 DEF Exclusion, PlacementsAdopted, PlacementsNamed
<1>7. HoldersAbove(fwd)'
  BY <1>2, <1>3, <1>4 DEF Exclusion, HoldersAbove
<1>8. OldHoldersOut(fwd)'
  <2>1. \A i \in intents : i.service \in Service
    BY DEF Inv, TypeOK, MemoryTypeOK, FailoverIntent
  <2> QED  BY <1>2, <1>3, <1>4, <2>1 DEF Exclusion, OldHoldersOut, SupersededHoldersExcluded
<1>9. NothingAhead(fwd)'
  <2>1. SUFFICES ASSUME fwd, NEW s \in Service, NEW t \in Target, targets'[t] # 0
                 PROVE  /\ witnesses[s][t] <= targets'[t]
                        /\ services[s].active.target = t => services[s].active.inc <= targets'[t]
    BY <1>2, <1>3 DEF NothingAhead
  <2>2. targets[t] # 0 =>
          /\ witnesses[s][t] <= targets[t]
          /\ services[s].active.target = t => services[s].active.inc <= targets[t]
    BY <2>1 DEF Exclusion, NothingAhead
  <2>3. /\ witnesses[s][t] \in Nat /\ targets \in [Target -> Nat]
        /\ services[s].active \in OptionalRef
    BY <1>1 DEF Inv, TypeOK, MemoryTypeOK, ServiceRuntime
  <2>4. services[s].active.target = t =>
          services[s].active # NoRef /\ services[s].active.inc \in Nat
    BY <2>3, DescriptorAssumption DEF OptionalRef, TargetRef, NoRef, Target
  <2>5. CASE targets'[t] = targets[t]
    BY <2>1, <2>2, <2>5
  <2>6. CASE targets[t] = 0
    <3>1. \A i \in intents : i.to.target = t => i.to.inc <= targets'[t]
      BY <2>1, <2>6 DEF ReturnsForward
    <3>2. services[s].active.target = t => services[s].active.inc <= targets'[t]
      BY <2>4, <3>1 DEF Exclusion, PlacementsNamed
    <3>3. CASE witnesses[s][t] # 0
      BY <3>1, <3>2, <3>3 DEF Exclusion, PlacementsNamed
    <3>4. CASE witnesses[s][t] = 0
      <4>1. targets'[t] \in Nat
        BY DEF TypeOK, MemoryTypeOK
      <4> QED  BY <3>2, <3>4, <4>1
    <3> QED  BY <3>3, <3>4
  <2>7. ASSUME NEW u \in Target, NEW inc \in Incarnations[u], RegisterTarget(u, inc),
               targets[t] # 0
        PROVE  /\ witnesses[s][t] <= targets'[t]
               /\ services[s].active.target = t => services[s].active.inc <= targets'[t]
    <3>1. targets' = [targets EXCEPT ![u] = inc] /\ inc > targets[u]
      BY <2>7 DEF RegisterTarget
    <3>2. inc \in Nat /\ targets[t] \in Nat
      BY <2>3, FabricAssumption
    <3>3. targets[t] <= targets'[t] /\ targets'[t] \in Nat
      BY <2>3, <3>1, <3>2
    <3> QED  BY <2>2, <2>3, <2>4, <2>7, <3>2, <3>3
  <2>8. ASSUME NEW u \in Retirable, RetireTarget(u)
        PROVE  targets'[t] = targets[t]
    <3>1. targets' = [targets EXCEPT ![u] = 0]
      BY <2>8 DEF RetireTarget
    <3> QED  BY <2>1, <2>3, <3>1
  <2>9. ASSUME NEW p \in Policies, SetPolicy(p)
        PROVE  targets' = targets
    BY <2>9 DEF SetPolicy
  <2> QED  BY <2>5, <2>6, <2>7, <2>8, <2>9 DEF RegistryMoves
<1> QED  BY <1>4, <1>5, <1>6, <1>7, <1>8, <1>9 DEF Exclusion

(* A commit shuts the door behind the holder it replaces, and behind every  *)
(* older incarnation on the same target.                                    *)
LEMMA CommitExclusion ==
  ASSUME NEW CONSTANT fwd \in BOOLEAN, Inv, TypeOK', Exclusion(fwd), CommitsAttempt
  PROVE  Exclusion(fwd)'
<1>1. PICK s \in Service, to \in AdoptedRef, mode \in CommitMode : CommitsFor(s, to, mode)
  BY DEF CommitsAttempt
<1>2. PICK image \in Image, from \in OptionalRef, settled \in ServiceRuntime :
        /\ image.services = disk.services
        /\ CommitReady(s, to, from, mode)
        /\ Decided(s, to, from, mode)
        /\ SameAuthority(settled, CommittedRuntime(s, to, from, mode))
        /\ CommitRecovery(image, s, to, from, mode, settled)
  BY <1>1 DEF CommitsFor
<1> DEFINE next == CommittedRuntime(s, to, from, mode)
           old == services[s].active
           hist == services[s].history
<1>3. /\ to \in TargetRef /\ to.target \in Target /\ to.inc \in Nat \ {0}
      /\ to.inc = targets[to.target]
      /\ to.inc \in Incarnations[to.target]
  BY <1>2, AdoptedIsRef DEF TargetRef, Decided, AdoptedRef
<1>4. /\ services \in [Service -> ServiceRuntime]
      /\ disk.services \in [Service -> ServiceRuntime]
      /\ witnesses \in [Service -> [Target -> Nat]]
      /\ targets \in [Target -> Nat]
      /\ old \in OptionalRef
      /\ intents \subseteq FailoverIntent
  BY DEF Inv, TypeOK, MemoryTypeOK, Image, ServiceRuntime
<1>5. /\ services' = [services EXCEPT ![s] = settled]
      /\ intents' = intents \cup {Intent(s, to, from, mode)}
      /\ \/ disk'.services = [services EXCEPT ![s] = next]
         \/ disk'.services = [disk.services EXCEPT ![s] = next]
  BY <1>2, CommitFacts
<1>6. /\ witnesses' = IF from = NoRef THEN witnesses
                      ELSE [witnesses EXCEPT ![s][from.target] = from.inc]
      /\ UNCHANGED <<targets, policy>>
  BY <1>2 DEF CommitRecovery, registry
<1>7. /\ next \in ServiceRuntime /\ next.active = to
      /\ next.history = NextHistory(s, to, from, mode)
  BY <1>2, <1>3, CommittedRuntimeFacts DEF CommitReady, Inv
<1>8. /\ mode # "Resume" => next.history[Len(next.history)].from = from
      /\ mode = "Resume" =>
           /\ hist # <<>> /\ from = hist[Len(hist)].from
           /\ next.history[Len(next.history)].from = from
  <2>1. CASE mode # "Resume"
    BY <1>2, <1>7, <2>1, NextHistoryFacts DEF CommitReady, Inv
  <2>2. CASE mode = "Resume"
    <3>1. hist # <<>> /\ from = hist[Len(hist)].from
      BY <1>2, <2>2 DEF Decided
    <3>2. hist \in Seq(AttemptRecord)
      BY <1>4 DEF ServiceRuntime, AttemptHistory
    <3>3. Len(hist) \in 1 .. Len(hist)
      BY <3>1, <3>2
    <3>4. /\ Len(next.history) = Len(hist)
          /\ \A j \in 1 .. Len(hist) : next.history[j].from = hist[j].from
      BY <1>2, <1>7, <2>2, NextHistoryFacts DEF CommitReady, Inv
    <3> QED  BY <2>2, <3>1, <3>3, <3>4
  <2> QED  BY <2>1, <2>2
<1> HIDE DEF next
<1>9. settled.active = to
  BY <1>2, <1>7 DEF SameAuthority, next
<1>10. NoFailbackYet' <=> NoFailbackYet
  BY <1>6 DEF NoFailbackYet
<1>11. NoFailbackYet => ~policy.allow_failback
  <2>1. policy.generation \in Nat
    BY DEF Inv, TypeOK, MemoryTypeOK, Policy
  <2> QED  BY <2>1 DEF Exclusion, NoFailbackYet
(* How the witnesses of this service change.                                *)
<1>12. /\ mode = "Resume" => witnesses' = witnesses
       /\ mode # "Resume" => from = old
       /\ from # NoRef => from.target \in Target /\ from.inc \in Nat \ {0}
       /\ \A r \in Service : r # s => witnesses'[r] = witnesses[r]
       /\ \A t \in Target :
            witnesses'[s][t] = IF from # NoRef /\ t = from.target THEN from.inc
                               ELSE witnesses[s][t]
  <2>1. from # NoRef => from.target \in Target /\ from.inc \in Nat \ {0}
    BY DEF OptionalRef, TargetRef
  <2>2. /\ \A r \in Service : r # s => witnesses'[r] = witnesses[r]
        /\ \A t \in Target :
            witnesses'[s][t] = IF from # NoRef /\ t = from.target THEN from.inc
                               ELSE witnesses[s][t]
    BY <1>4, <1>6, <2>1
  <2>3. mode # "Resume" => from = old
    BY <1>2 DEF Decided
  <2>4. ASSUME mode = "Resume"
        PROVE  witnesses' = witnesses
    <3>1. from # NoRef => witnesses[s][from.target] = from.inc
      BY <1>8, <2>4 DEF Exclusion, OriginsFenced, OriginFenced
    <3> QED  BY <1>4, <1>6, <2>1, <3>1
  <2> QED  BY <2>1, <2>2, <2>3, <2>4
<1>13. /\ fwd /\ old # NoRef => witnesses[s][old.target] <= old.inc
       /\ NoFailbackYet /\ old # NoRef => witnesses[s][old.target] < old.inc
  BY DEF Exclusion, HoldersAbove
<1>14. old \in AdoptedRef \cup {NoRef} /\ \A t \in Target : witnesses[s][t] \in {0} \cup Incarnations[t]
  BY DEF Exclusion, PlacementsAdopted
<1>15. old # NoRef => old.inc \in Incarnations[old.target] /\ old.target \in Target
                      /\ old.inc \in Nat
  BY <1>14, AdoptedIsRef DEF AdoptedRef, TargetRef
<1> HIDE DEF old, hist
<1>16. OriginsFenced'
  <2>1. SUFFICES ASSUME NEW r \in Service
                 PROVE  OriginFenced(r, services[r])' /\ OriginFenced(r, disk.services[r])'
    BY DEF OriginsFenced
  <2>2. OriginFenced(r, services[r]) /\ OriginFenced(r, disk.services[r])
    BY DEF Exclusion, OriginsFenced
  <2>3. CASE r # s
    <3>1. /\ services'[r] = services[r] /\ witnesses'[r] = witnesses[r]
          /\ disk'.services[r] = services[r] \/ disk'.services[r] = disk.services[r]
      BY <1>4, <1>5, <1>12, <2>3
    <3> QED  BY <2>2, <3>1 DEF OriginFenced
  <2>4. CASE r = s
    <3>1. services'[r] = settled /\ disk'.services[r] = next
      BY <1>4, <1>5, <2>4
    <3>2. settled.history # <<>> => settled.history[Len(settled.history)].from
                                      = next.history[Len(next.history)].from
      <4>1. /\ settled.history \in Seq(AttemptRecord)
            /\ next.history \in Seq(AttemptRecord)
            /\ Len(settled.history) = Len(next.history)
        BY <1>2, <1>7 DEF ServiceRuntime, AttemptHistory, SameAuthority, next
      <4>2. settled.history # <<>> => Len(next.history) \in 1 .. Len(next.history)
        BY <4>1
      <4> QED  BY <1>2, <4>1, <4>2 DEF SameAuthority, next
    <3>3. from # NoRef => witnesses'[r][from.target] = from.inc
      BY <1>12, <2>4
    <3> QED  BY <1>8, <3>1, <3>2, <3>3 DEF OriginFenced
  <2> QED  BY <2>3, <2>4
<1>17. PlacementsAdopted'
  <2>1. SUFFICES ASSUME NEW r \in Service
                 PROVE  /\ services'[r].active \in AdoptedRef \cup {NoRef}
                        /\ services'[r].fence # 0 => services'[r].active # NoRef
                        /\ \A t \in Target : witnesses'[r][t] \in {0} \cup Incarnations[t]
    BY DEF PlacementsAdopted
  <2>2. CASE r # s
    BY <1>4, <1>5, <1>12, <2>2 DEF Exclusion, PlacementsAdopted
  <2>3. CASE r = s
    <3>1. services'[r].active = to
      BY <1>4, <1>5, <1>9, <2>3
    <3>2. ASSUME NEW t \in Target
          PROVE  witnesses'[s][t] \in {0} \cup Incarnations[t]
      BY <1>12, <1>14, <1>15
    <3>3. to # NoRef
      BY <1>3 DEF NoRef
    <3> QED  BY <2>3, <3>1, <3>2, <3>3
  <2> QED  BY <2>2, <2>3
<1>18. NothingAhead(fwd)'
  <2>1. SUFFICES ASSUME fwd, NEW r \in Service, NEW t \in Target, targets[t] # 0
                 PROVE  /\ witnesses'[r][t] <= targets[t]
                        /\ services'[r].active.target = t => services'[r].active.inc <= targets[t]
    BY <1>6 DEF NothingAhead
  <2>2. /\ witnesses[r][t] <= targets[t]
        /\ services[r].active.target = t => services[r].active.inc <= targets[t]
    BY <2>1 DEF Exclusion, NothingAhead
  <2>3. CASE r # s
    BY <1>4, <1>5, <1>12, <2>2, <2>3
  <2>4. CASE r = s
    <3>1. services'[r].active = to
      BY <1>4, <1>5, <1>9, <2>4
    <3>2. to.target = t => to.inc <= targets[t]
      BY <1>3
    <3>3. witnesses'[s][t] <= targets[t]
      BY <1>12, <2>2, <2>4 DEF old
    <3> QED  BY <2>4, <3>1, <3>2, <3>3
  <2> QED  BY <2>3, <2>4
<1>19. HoldersAbove(fwd)'
  <2>1. SUFFICES ASSUME NEW r \in Service, services'[r].active # NoRef
                 PROVE  LET a == services'[r].active IN
                        /\ fwd => witnesses'[r][a.target] <= a.inc
                        /\ NoFailbackYet => witnesses'[r][a.target] < a.inc
    BY <1>10 DEF HoldersAbove
  <2>2. CASE r # s
    <3>1. services'[r] = services[r] /\ witnesses'[r] = witnesses[r]
      BY <1>4, <1>5, <1>12, <2>2
    <3> QED  BY <2>1, <3>1 DEF Exclusion, HoldersAbove
  <2>3. CASE r = s
    <3>1. services'[r].active = to
      BY <1>4, <1>5, <1>9, <2>3
    <3>2. CASE mode = "Resume"
      <4>1. to = old /\ witnesses' = witnesses
        BY <1>2, <1>12, <3>2 DEF CommitReady, old
      <4> QED  BY <1>13, <2>1, <2>3, <3>1, <4>1
    <3>3. CASE mode # "Resume"
      <4>1. from = old
        BY <1>12, <3>3
      <4>2. \/ policy.allow_failback
            \/ to.target # from.target /\ to.inc > witnesses[s][to.target]
        BY <1>2, <3>3 DEF Decided
      <4>3. ASSUME NoFailbackYet
            PROVE  witnesses'[s][to.target] < to.inc
        <5>1. to.target # from.target /\ to.inc > witnesses[s][to.target]
          BY <1>11, <4>2, <4>3
        <5>2. witnesses'[s][to.target] = witnesses[s][to.target]
          BY <1>3, <1>12, <5>1
        <5> QED  BY <1>3, <1>4, <5>1, <5>2
      <4>4. ASSUME fwd
            PROVE  witnesses'[s][to.target] <= to.inc
        <5>1. /\ witnesses[s][to.target] <= to.inc
              /\ old.target = to.target => old.inc <= to.inc
          BY <1>3, <4>4 DEF Exclusion, NothingAhead, old
        <5> QED  BY <1>3, <1>12, <4>1, <5>1
      <4> QED  BY <2>3, <3>1, <4>3, <4>4
    <3> QED  BY <3>2, <3>3
  <2> QED  BY <2>2, <2>3
<1>20. OldHoldersOut(fwd)'
  <2>1. SUFFICES ASSUME fwd \/ NoFailbackYet, NEW i \in intents'
                 PROVE  \/ i.to = services'[i.service].active
                        \/ i.to.inc <= witnesses'[i.service][i.to.target]
    BY <1>10 DEF OldHoldersOut, SupersededHoldersExcluded
  <2>2. CASE i = Intent(s, to, from, mode)
    <3>1. i.service = s /\ i.to = to
      BY <2>2 DEF Intent
    <3> QED  BY <1>4, <1>5, <1>9, <3>1
  <2>3. CASE i \in intents
    <3>1. /\ i.service \in Service /\ i.to \in TargetRef
          /\ i.to.target \in Target /\ i.to.inc \in Nat
          /\ i.to # NoRef
      <4>1. i.service \in Service /\ i.to \in TargetRef
        BY <1>4, <2>3 DEF FailoverIntent
      <4>2. NoRef \notin TargetRef
        BY DEF NoRef, TargetRef
      <4> QED  BY <4>1, <4>2 DEF TargetRef
    <3>2. \/ i.to = services[i.service].active
          \/ i.to.inc <= witnesses[i.service][i.to.target]
      BY <2>1, <2>3 DEF Exclusion, OldHoldersOut, SupersededHoldersExcluded
    <3>3. CASE i.service # s
      <4>1. services'[i.service] = services[i.service] /\ witnesses'[i.service] = witnesses[i.service]
        BY <1>4, <1>5, <1>12, <3>1, <3>3
      <4> QED  BY <3>2, <4>1
    <3>4. CASE i.service = s /\ mode = "Resume"
      <4>1. to = old /\ witnesses' = witnesses /\ services'[s].active = to
        BY <1>2, <1>4, <1>5, <1>9, <1>12, <3>4 DEF CommitReady, old
      <4> QED  BY <3>2, <3>4, <4>1 DEF old
    <3>5. CASE i.service = s /\ mode # "Resume"
      <4>1. from = old
        BY <1>12, <3>5
      <4>2. CASE i.to = old
        <5>1. witnesses'[s][i.to.target] = i.to.inc
          BY <1>12, <3>1, <4>1, <4>2
        <5> QED  BY <3>1, <3>5, <5>1
      <4>3. CASE i.to # old
        <5>1. i.to.inc <= witnesses[s][i.to.target]
          BY <3>2, <3>5, <4>3 DEF old
        <5>2. old # NoRef => witnesses[s][old.target] \in Nat /\ witnesses[s][old.target] <= old.inc
          BY <1>4, <1>13, <1>15, <2>1
        <5>3. old # NoRef /\ i.to.target = old.target => i.to.inc <= old.inc
          BY <1>15, <3>1, <5>1, <5>2
        <5> QED  BY <1>12, <3>1, <3>5, <4>1, <5>1, <5>3
      <4> QED  BY <4>2, <4>3
    <3> QED  BY <3>3, <3>4, <3>5
  <2> QED  BY <1>5, <2>2, <2>3
<1>21. policy' \in Policies
  BY <1>6 DEF Exclusion
<1>22. PlacementsNamed'
  <2>1. SUFFICES ASSUME NEW r \in Service
                 PROVE  /\ services'[r].active # NoRef => \E i \in intents' : i.to = services'[r].active
                        /\ \A t \in Target :
                             witnesses'[r][t] # 0 =>
                               \E i \in intents' : i.to.target = t /\ i.to.inc = witnesses'[r][t]
    BY DEF PlacementsNamed
  <2>2. /\ services[r].active # NoRef => \E i \in intents : i.to = services[r].active
        /\ \A t \in Target :
             witnesses[r][t] # 0 =>
               \E i \in intents : i.to.target = t /\ i.to.inc = witnesses[r][t]
    BY DEF Exclusion, PlacementsNamed
  <2>3. CASE r # s
    BY <1>4, <1>5, <1>12, <2>2, <2>3
  <2>4. CASE r = s
    <3>1. services'[r].active = to /\ Intent(s, to, from, mode).to = to
      BY <1>4, <1>5, <1>9, <2>4 DEF Intent
    <3>2. ASSUME NEW t \in Target, witnesses'[s][t] # 0
          PROVE  \E i \in intents' : i.to.target = t /\ i.to.inc = witnesses'[s][t]
      <4>1. CASE mode = "Resume"
        BY <1>5, <1>12, <2>2, <2>4, <3>2, <4>1
      <4>2. CASE mode # "Resume"
        <5>1. from = services[r].active
          BY <1>12, <2>4, <4>2 DEF old
        <5>2. CASE from # NoRef /\ t = from.target
          BY <1>5, <1>12, <2>2, <5>1, <5>2
        <5>3. CASE ~(from # NoRef /\ t = from.target)
          <6>1. witnesses'[s][t] = witnesses[s][t]
            BY <1>12, <5>3
          <6> QED  BY <1>5, <2>2, <2>4, <3>2, <6>1
        <5> QED  BY <5>2, <5>3
      <4> QED  BY <4>1, <4>2
    <3> QED  BY <1>5, <2>4, <3>1, <3>2
  <2> QED  BY <2>3, <2>4
<1> QED  BY <1>16, <1>17, <1>18, <1>19, <1>20, <1>21, <1>22 DEF Exclusion

(* A coordinator opened for the first time has no holder to exclude.        *)
LEMMA InitExclusion ==
  ASSUME NEW CONSTANT fwd \in BOOLEAN, Init
  PROVE  Exclusion(fwd)
<1>1. \A s \in Service :
        /\ services[s].active = NoRef /\ services[s].fence = 0
        /\ services[s].history = <<>>
        /\ disk.services[s] = services[s]
        /\ \A t \in Target : witnesses[s][t] = 0
  BY DEF Init, NewRuntime, Snapshot
<1>2. policy \in Policies /\ intents = {}
  BY FabricAssumption DEF Init
<1>3. OriginsFenced
  BY <1>1 DEF OriginsFenced, OriginFenced
<1>4. PlacementsAdopted /\ PlacementsNamed /\ HoldersAbove(fwd)
  BY <1>1 DEF PlacementsAdopted, PlacementsNamed, HoldersAbove
<1>5. NothingAhead(fwd)
  <2>1. \A t \in Target : t # 0 /\ targets[t] = 0
    BY DescriptorAssumption DEF Init, Target
  <2> QED  BY <1>1, <2>1 DEF NothingAhead, NoRef
<1>6. OldHoldersOut(fwd)
  BY <1>2 DEF OldHoldersOut, SupersededHoldersExcluded
<1> QED  BY <1>2, <1>3, <1>4, <1>5, <1>6 DEF Exclusion

(* Together with Inv, Exclusion is inductive.                               *)
LEMMA NextExclusion ==
  ASSUME NEW CONSTANT fwd \in BOOLEAN, Inv, Exclusion(fwd), [Next]_vars,
         fwd => [ReturnsForward]_vars
  PROVE  Exclusion(fwd)'
<1>1. TypeOK'
  BY NextInv DEF Inv
<1>2. CASE UNCHANGED vars
  <2>1. Quiet
    BY <1>2, KeepsOwnAuthority DEF Quiet, Inv, GrantsDurable, vars, authority
  <2>2. RegistryMoves /\ ReturnsForward
    BY <1>2 DEF RegistryMoves, ReturnsForward, vars, registry
  <2> QED  BY <1>1, <2>1, <2>2, QuietExclusion
<1>3. CASE Next
  <2>1. CASE Quiet
    <3>1. fwd => ReturnsForward
      <4>1. CASE ReturnsForward
        BY <4>1
      <4>2. CASE UNCHANGED vars
        BY <4>2 DEF ReturnsForward, vars, registry
      <4> QED  BY <4>1, <4>2
    <3> QED  BY <1>1, <1>3, <2>1, <3>1, RegistryFrame, QuietExclusion
  <2>2. CASE CommitsAttempt
    BY <1>1, <2>2, CommitExclusion
  <2> QED  BY <1>3, <2>1, <2>2, StepCases
<1> QED  BY <1>2, <1>3

(* The invariant behind the next three theorems, without the hypothesis.    *)
THEOREM ExclusionInvariance == Spec => [](Inv /\ Exclusion(FALSE))
<1>1. Init => Inv /\ Exclusion(FALSE)
  BY InitInv, InitExclusion
<1>2. Inv /\ Exclusion(FALSE) /\ [Next]_vars => (Inv /\ Exclusion(FALSE))'
  BY NextInv, NextExclusion
<1> QED  BY <1>1, <1>2, PTL DEF Spec

(* SupersededHoldersExcluded, when incarnations move forward as model.hpp   *)
(* says they do: whatever fails over, fails back, resumes, is retired and   *)
(* registered again or restarts, a placement that lost its authority stays  *)
(* behind a witness.                                                        *)
THEOREM OldHoldersExcluded ==
  Spec /\ IncarnationsForward => []SupersededHoldersExcluded
<1>1. Init => Inv /\ Exclusion(TRUE)
  BY InitInv, InitExclusion
<1>2. Inv /\ Exclusion(TRUE) /\ [Next]_vars /\ [ReturnsForward]_vars
        => (Inv /\ Exclusion(TRUE))'
  BY NextInv, NextExclusion
<1>3. Inv /\ Exclusion(TRUE) => SupersededHoldersExcluded
  BY DEF Exclusion, OldHoldersOut
<1> QED  BY <1>1, <1>2, <1>3, PTL DEF Spec, IncarnationsForward

(* SupersededHoldersExcluded without that hypothesis, until an operator     *)
(* installs a policy that permits a failback.                               *)
THEOREM OldHoldersExcludedWithoutFailback ==
  Spec => [](NoFailbackYet => SupersededHoldersExcluded)
<1>1. Inv /\ Exclusion(FALSE) => (NoFailbackYet => SupersededHoldersExcluded)
  BY DEF Exclusion, OldHoldersOut
<1> QED  BY <1>1, ExclusionInvariance, PTL

(* HolderAuthorizedWithoutFailback: until then, verify_fence accepts the    *)
(* holder in authority with the token in force; in particular no witness    *)
(* ever fences it out.                                                      *)
THEOREM HolderNeverFencedOut == Spec => []HolderAuthorizedWithoutFailback
<1>1. ASSUME Inv, Exclusion(FALSE)
      PROVE  HolderAuthorizedWithoutFailback
  <2>1. SUFFICES ASSUME NoFailbackYet, NEW s \in Service, fences[s].token # 0
                 PROVE  FenceVerdict(s, fences[s].token, fences[s].holder)
                          = "AcceptFenceAdvanced"
    BY DEF HolderAuthorizedWithoutFailback, HolderAuthorized
  <2>2. /\ fences[s].token = services[s].fence
        /\ fences[s].holder = services[s].active
    BY <1>1 DEF Inv, Lockstep
  <2> DEFINE a == services[s].active
  <2>3. a \in AdoptedRef /\ witnesses[s][a.target] < a.inc
    BY <1>1, <2>1, <2>2 DEF Exclusion, PlacementsAdopted, HoldersAbove
  <2>4. a.target \in Target /\ a.inc \in Nat
    BY <2>3, AdoptedIsRef DEF TargetRef
  <2>5. witnesses[s][a.target] \in Nat /\ fences[s].token \in Nat
    BY <1>1, <2>4 DEF Inv, TypeOK, MemoryTypeOK, FenceRecord
  <2> QED  BY <2>1, <2>2, <2>3, <2>4, <2>5 DEF FenceVerdict
<1> QED  BY <1>1, ExclusionInvariance, PTL

-----------------------------------------------------------------------------
(* Claims: continuity and the effects behind it.                            *)

(* Nothing is claimed of the placement.                                     *)
Claimless(rt) ==
  /\ rt.continuity = "Unknown"
  /\ ~rt.effect_verified /\ ~rt.activation_accepted /\ ~rt.state_transfer_verified

(* What a runtime of service s claims was reported to it.                   *)
Earned(s, rt) ==
  rt.continuity \in {"Degraded", "Full"} =>
    /\ rt.effect_verified /\ rt.activation_accepted
    /\ rt.recovery = "Verified" /\ rt.lifecycle = "FallbackActive"
    /\ rt.continuity = "Full" /\ s \in Stateful => rt.state_transfer_verified

(* What a step may do to the claims of a service: drop all of them, or      *)
(* leave the authority they rest on alone and keep them earned.             *)
ClaimsMove ==
  \A s \in Service :
    \/ Claimless(services'[s])
    \/ /\ fences'[s].token = fences[s].token /\ epoch' = epoch
       /\ services'[s].ambiguity_pending => services[s].ambiguity_pending
       /\ Earned(s, services[s]) => Earned(s, services'[s])

(* invalidate_verification leaves nothing claimed.                          *)
LEMMA InvalidatedIsClaimless ==
  ASSUME NEW rt \in ServiceRuntime
  PROVE  Claimless(InvalidateVerification(rt))
  BY DEF InvalidateVerification, Claimless, ServiceRuntime

(* Neither does waiting for an operator.                                    *)
LEMMA AwaitedIsClaimless ==
  ASSUME Inv, NEW s \in Service, NEW e \in EvidenceId
  PROVE  Claimless(AwaitOperator(services[s], e))
<1> DEFINE old == services[s]
           mid == [old EXCEPT !.ambiguity_pending = TRUE, !.pending_ambiguity = e,
                              !.recovery = "AmbiguityPending",
                              !.lifecycle = "RecoveryPending"]
<1>1. old \in ServiceRuntime /\ e \in Nat
  BY FabricAssumption DEF Inv, TypeOK, MemoryTypeOK, EvidenceId
<1>2. AwaitOperator(services[s], e) = InvalidateVerification(mid)
  BY DEF AwaitOperator
<1> HIDE DEF old
<1>3. mid \in ServiceRuntime
  BY <1>1 DEF ServiceRuntime, RecoveryPhase, LifecyclePhase
<1> HIDE DEF mid
<1> QED  BY <1>2, <1>3, InvalidatedIsClaimless

(* An operation that rewrites one runtime and moves no authority.           *)
LEMMA RuntimeClaims ==
  ASSUME Inv, NEW s \in Service, NEW rt, services' = [services EXCEPT ![s] = rt],
         UNCHANGED <<fences, epoch>>,
         \/ Claimless(rt)
         \/ /\ rt.ambiguity_pending => services[s].ambiguity_pending
            /\ Earned(s, services[s]) => Earned(s, rt)
  PROVE  ClaimsMove
<1>1. services \in [Service -> ServiceRuntime]
  BY DEF Inv, TypeOK, MemoryTypeOK
<1>2. \A r \in Service : services'[r] = IF r = s THEN rt ELSE services[r]
  BY <1>1
<1> QED  BY <1>2 DEF ClaimsMove

(* An operation on a registry or on evidence that rewrites no runtime.      *)
LEMMA OtherClaims ==
  ASSUME UNCHANGED <<services, fences, epoch>>
  PROVE  ClaimsMove
  BY DEF ClaimsMove

(* The runtime commit_recovery leaves behind claims nothing.                *)
LEMMA CommittedIsClaimless ==
  ASSUME Inv, NEW s \in Service, NEW to, NEW from, NEW mode
  PROVE  LET next == CommittedRuntime(s, to, from, mode) IN
         /\ Claimless(next)
         /\ ~next.ambiguity_pending
         /\ LET left == [next EXCEPT !.pre_failover_target = NoRef,
                                     !.failover_recorded = FALSE]
            IN  Claimless(left) /\ ~left.ambiguity_pending
<1> DEFINE old == InvalidateVerification(services[s])
           next == CommittedRuntime(s, to, from, mode)
           left == [next EXCEPT !.pre_failover_target = NoRef, !.failover_recorded = FALSE]
<1>1. old \in ServiceRuntime /\ Claimless(old)
  BY InvalidateVerificationFacts, InvalidatedIsClaimless DEF Inv, TypeOK, MemoryTypeOK
<1>2. next = CommittedRuntime(s, to, from, mode)
  OBVIOUS
<1>3. /\ next.continuity = old.continuity
      /\ next.effect_verified = old.effect_verified
      /\ next.activation_accepted = old.activation_accepted
      /\ next.state_transfer_verified = old.state_transfer_verified
      /\ next.ambiguity_pending = FALSE
  <2> HIDE DEF old
  <2> QED  BY <1>1 DEF CommittedRuntime, ServiceRuntime, old
<1> HIDE DEF next, old
<1>4. /\ left.continuity = next.continuity
      /\ left.effect_verified = next.effect_verified
      /\ left.activation_accepted = next.activation_accepted
      /\ left.state_transfer_verified = next.state_transfer_verified
      /\ left.ambiguity_pending = next.ambiguity_pending
  OBVIOUS
<1> HIDE DEF left
<1>5. Claimless(next) /\ ~next.ambiguity_pending /\ Claimless(left) /\ ~left.ambiguity_pending
  BY <1>1, <1>3, <1>4 DEF Claimless
<1> QED  BY <1>5 DEF next, left

(* A commit drops the claims of the service it moves.                       *)
LEMMA CommitClaims ==
  ASSUME Inv, NEW image, NEW s \in Service, NEW to, NEW from, NEW mode,
         NEW settled, Claimless(settled),
         CommitRecovery(image, s, to, from, mode, settled)
  PROVE  ClaimsMove
<1>1. /\ services \in [Service -> ServiceRuntime]
      /\ fences \in [Service -> FenceRecord]
  BY DEF Inv, TypeOK, MemoryTypeOK
<1>2. /\ services' = [services EXCEPT ![s] = settled]
      /\ fences' = [fences EXCEPT ![s] = [token |-> NextFence(s, mode), holder |-> to]]
      /\ epoch' = epoch
  BY DEF CommitRecovery
<1>3. \A r \in Service :
        /\ services'[r] = IF r = s THEN settled ELSE services[r]
        /\ r # s => fences'[r] = fences[r]
  BY <1>1, <1>2
<1> QED  BY <1>2, <1>3 DEF ClaimsMove

(* Registries and evidence.                                                 *)
LEMMA ReportClaims ==
  ASSUME Inv, RegistryStep \/ EvidenceStep
  PROVE  ClaimsMove
<1>1. ASSUME NEW s \in Service, RegisterService(s)
      PROVE  ClaimsMove
  <2> DEFINE rt == NewRuntime("Registered")
  <2>1. /\ services' = [services EXCEPT ![s] = rt] /\ UNCHANGED <<fences, epoch>>
    BY <1>1 DEF RegisterService
  <2>2. Claimless(rt)
    BY DEF NewRuntime, Claimless
  <2> HIDE DEF rt
  <2> QED  BY <2>1, <2>2, RuntimeClaims
<1>2. ASSUME NEW s \in Service, WithdrawService(s)
      PROVE  ClaimsMove
  <2> DEFINE old == services[s]
             rt == [old EXCEPT !.lifecycle = "Withdrawn", !.recovery = "None",
                               !.continuity = "None"]
  <2>1. old \in ServiceRuntime /\ services \in [Service -> ServiceRuntime]
    BY DEF Inv, TypeOK, MemoryTypeOK
  <2>2. services' = [services EXCEPT ![s] = rt] /\ UNCHANGED <<fences, epoch>>
    BY <1>2, <2>1 DEF WithdrawService
  <2> HIDE DEF old
  <2>3. rt.continuity = "None" /\ rt.ambiguity_pending = old.ambiguity_pending
    BY <2>1 DEF ServiceRuntime
  <2> HIDE DEF rt
  <2> QED  BY <2>2, <2>3, RuntimeClaims DEF Earned, old
<1>3. ASSUME NEW s \in Service, NEW ref, NEW e \in EvidenceId, NEW a,
             IngestFailure(s, ref, e, a)
      PROVE  ClaimsMove
  <2> DEFINE rt == AwaitOperator(services[s], e)
  <2>1. Claimless(rt)
    BY AwaitedIsClaimless
  <2>2. /\ services' = IF a THEN [services EXCEPT ![s] = rt] ELSE services
        /\ UNCHANGED <<fences, epoch>>
    BY <1>3 DEF IngestFailure
  <2> HIDE DEF rt
  <2> QED  BY <2>1, <2>2, RuntimeClaims, OtherClaims
<1>4. ASSUME \/ \E t \in Target : \E inc \in Incarnations[t] : RegisterTarget(t, inc)
             \/ \E t \in Retirable : RetireTarget(t)
             \/ \E g \in 1 .. MaxTopology : SetTopologyGeneration(g)
             \/ \E p \in Policies : SetPolicy(p)
             \/ \E t \in Target, g \in 1 .. MaxCapability, c \in Coverages :
                  IngestCapability(t, g, c)
      PROVE  ClaimsMove
  <2>1. UNCHANGED <<services, fences, epoch>>
    BY <1>4 DEF RegisterTarget, RetireTarget, SetTopologyGeneration, SetPolicy,
                IngestCapability, authority
  <2> QED  BY <2>1, OtherClaims
<1> QED  BY <1>1, <1>2, <1>3, <1>4 DEF RegistryStep, EvidenceStep

(* Recovery decisions.                                                      *)
LEMMA DecisionClaims ==
  ASSUME Inv, RecoveryStep
  PROVE  ClaimsMove
<1>1. PICK s \in Service :
        \/ \E t \in Target : EstablishPlacement(s, t)
        \/ \E e \in EvidenceId, a \in BOOLEAN : RequestFailoverOnEvidence(s, e, a)
        \/ \E e \in EvidenceId : RefuseAmbiguous(s, e)
        \/ RequestFailoverByOperator(s)
        \/ ResumeRecovery(s)
        \/ ResolveAlive(s)
        \/ ResolveConfirmed(s)
        \/ RequestFailback(s)
  BY DEF RecoveryStep
<1>2. services[s] \in ServiceRuntime /\ services \in [Service -> ServiceRuntime]
  BY DEF Inv, TypeOK, MemoryTypeOK
<1>3. ASSUME NEW image, NEW to, NEW from, NEW mode, Commit(image, s, to, from, mode)
      PROVE  ClaimsMove
  BY <1>3, CommittedIsClaimless, CommitClaims DEF Commit
<1>4. CASE \/ \E t \in Target : EstablishPlacement(s, t)
           \/ \E e \in EvidenceId, a \in BOOLEAN : RequestFailoverOnEvidence(s, e, a)
           \/ RequestFailoverByOperator(s)
           \/ ResumeRecovery(s)
  <2>1. \E image, to, from, mode : Commit(image, s, to, from, mode)
    BY <1>4 DEF EstablishPlacement, RequestFailoverOnEvidence,
                RequestFailoverByOperator, CommitFailover, ResumeRecovery
  <2> QED  BY <1>3, <2>1
<1>5. ASSUME NEW e \in EvidenceId, RefuseAmbiguous(s, e)
      PROVE  ClaimsMove
  <2>1. services' = [services EXCEPT ![s] = AwaitOperator(services[s], e)]
        /\ UNCHANGED <<fences, epoch>>
    BY <1>5 DEF RefuseAmbiguous
  <2> QED  BY <2>1, AwaitedIsClaimless, RuntimeClaims
<1>6. CASE ResolveAlive(s)
  <2> DEFINE old == services[s]
             rt == [old EXCEPT !.ambiguity_pending = FALSE, !.pending_ambiguity = 0,
                               !.recovery = "Refused", !.lifecycle = "Failed",
                               !.continuity = "None"]
  <2>1. services' = [services EXCEPT ![s] = rt] /\ UNCHANGED <<fences, epoch>>
    BY <1>6 DEF ResolveAlive
  <2>2. old \in ServiceRuntime
    BY <1>2
  <2> HIDE DEF old
  <2>3. rt.continuity = "None" /\ rt.ambiguity_pending = FALSE
    BY <2>2 DEF ServiceRuntime
  <2> HIDE DEF rt
  <2> QED  BY <2>1, <2>3, RuntimeClaims DEF Earned
<1>7. CASE ResolveConfirmed(s)
  <2>1. CASE \E image : CommitFailover(image, s)
    <3>1. \E image, to, from, mode : Commit(image, s, to, from, mode)
      BY <2>1 DEF CommitFailover
    <3> QED  BY <1>3, <3>1
  <2>2. CASE /\ services' = [services EXCEPT ![s].ambiguity_pending = FALSE,
                                             ![s].pending_ambiguity = 0]
             /\ UNCHANGED <<fences, epoch>>
    <3> DEFINE old == services[s]
               rt == [old EXCEPT !.ambiguity_pending = FALSE, !.pending_ambiguity = 0]
    <3>1. services' = [services EXCEPT ![s] = rt]
      BY <1>2, <2>2
    <3>2. old \in ServiceRuntime
      BY <1>2
    <3> HIDE DEF old
    <3>3. /\ rt.ambiguity_pending = FALSE
          /\ rt.continuity = old.continuity /\ rt.effect_verified = old.effect_verified
          /\ rt.activation_accepted = old.activation_accepted
          /\ rt.state_transfer_verified = old.state_transfer_verified
          /\ rt.recovery = old.recovery /\ rt.lifecycle = old.lifecycle
      BY <3>2 DEF ServiceRuntime
    <3> HIDE DEF rt
    <3>4. Earned(s, old) => Earned(s, rt)
      BY <3>3 DEF Earned
    <3> QED  BY <2>2, <3>1, <3>3, <3>4, RuntimeClaims DEF old
  <2>3. \/ \E image : CommitFailover(image, s)
        \/ /\ services' = [services EXCEPT ![s].ambiguity_pending = FALSE,
                                           ![s].pending_ambiguity = 0]
           /\ UNCHANGED <<fences, epoch>>
    BY <1>7 DEF ResolveConfirmed
  <2> QED  BY <2>1, <2>2, <2>3
<1>8. CASE RequestFailback(s)
  <2> DEFINE to == Ref(services[s].pre_failover_target.target)
             next == CommittedRuntime(s, to, services[s].active, "Failover")
             left == [next EXCEPT !.pre_failover_target = NoRef, !.failover_recorded = FALSE]
  <2>1. CommitRecovery(disk, s, to, services[s].active, "Failover", left)
    BY <1>8 DEF RequestFailback
  <2>2. Claimless(left)
    BY CommittedIsClaimless
  <2> HIDE DEF left, to
  <2> QED  BY <2>1, <2>2, CommitClaims
<1> QED  BY <1>1, <1>4, <1>5, <1>6, <1>7, <1>8

(* Executor feedback.  A report that could change what a verified attempt   *)
(* rests on is refused once the attempt is verified.                        *)
LEMMA FeedbackClaims ==
  ASSUME Inv, ExecutorStep
  PROVE  ClaimsMove
<1>1. ASSUME NEW s \in Service, NEW rt, RecordEffect(s, rt),
             \/ Claimless(rt)
             \/ /\ rt.ambiguity_pending => services[s].ambiguity_pending
                /\ Earned(s, services[s]) => Earned(s, rt)
      PROVE  ClaimsMove
  <2>1. services' = [services EXCEPT ![s] = rt] /\ UNCHANGED <<fences, epoch>>
    BY <1>1 DEF RecordEffect
  <2> QED  BY <1>1, <2>1, RuntimeClaims
<1>2. ASSUME NEW i \in intents, NEW accepted \in BOOLEAN, AcknowledgeIntent(i, accepted)
      PROVE  ClaimsMove
  <2>1. PICK s \in Service, k \in Nat :
          /\ k \in DOMAIN services[s].history
          /\ services' = [services EXCEPT ![s] = AckedRuntime(services[s], k, accepted)]
          /\ UNCHANGED <<fences, epoch>>
    <3>1. \A s \in Service : CurrentRecords(services[s]) \subseteq Nat
      <4>1. \A s \in Service : services[s].history \in Seq(AttemptRecord)
        BY DEF Inv, TypeOK, MemoryTypeOK, ServiceRuntime, AttemptHistory
      <4> QED  BY <4>1 DEF CurrentRecords
    <3> QED  BY <1>2, <3>1 DEF AcknowledgeIntent, AckedService, CurrentRecords
  <2> DEFINE old == services[s]
             h == [old.history EXCEPT ![k] = Answered(old.history[k], accepted)]
             rec == IF old.recovery \in {"Verified", "EffectReported"}
                    THEN old.recovery ELSE "ActivationRequested"
             yes == [old EXCEPT !.history = h, !.recovery = rec]
             no == [old EXCEPT !.history = h, !.recovery = "Refused", !.lifecycle = "Failed"]
             rt == AckedRuntime(services[s], k, accepted)
  <2>2. old \in ServiceRuntime
    BY DEF Inv, TypeOK, MemoryTypeOK
  <2>3. rt = IF accepted THEN yes ELSE InvalidateVerification(no)
    BY DEF AckedRuntime
  <2>4. rt \in ServiceRuntime
    BY <2>1, <2>2, AckedRuntimeFacts
  <2> HIDE DEF old, h, rec, rt
  <2>5. CASE accepted
    <3>1. /\ yes.ambiguity_pending = old.ambiguity_pending
          /\ yes.continuity = old.continuity /\ yes.effect_verified = old.effect_verified
          /\ yes.activation_accepted = old.activation_accepted
          /\ yes.state_transfer_verified = old.state_transfer_verified
          /\ yes.recovery = rec /\ yes.lifecycle = old.lifecycle
      BY <2>2 DEF ServiceRuntime
    <3>2. old.recovery = "Verified" => rec = "Verified"
      BY DEF rec
    <3> HIDE DEF yes
    <3>3. Earned(s, old) => Earned(s, rt)
      BY <2>3, <2>5, <3>1, <3>2 DEF Earned
    <3> QED  BY <2>1, <2>3, <2>5, <3>1, <3>3, RuntimeClaims DEF old, rt
  <2>6. CASE ~accepted
    <3>1. Claimless(InvalidateVerification(no))
      BY <2>2 DEF InvalidateVerification, Claimless, ServiceRuntime
    <3> HIDE DEF no
    <3>2. Claimless(rt)
      BY <2>3, <2>6, <3>1
    <3> QED  BY <2>1, <3>2, RuntimeClaims DEF rt
  <2> QED  BY <2>5, <2>6
<1>3. ASSUME NEW i \in intents, NEW s \in Service, ReportNegative(s, i)
      PROVE  ClaimsMove
  <2> DEFINE old == services[s]
             mid == [old EXCEPT !.recovery = "EffectReported", !.lifecycle = "Failed"]
  <2>1. RecordEffect(s, InvalidateVerification(mid))
    BY <1>3 DEF ReportNegative
  <2>2. old \in ServiceRuntime
    BY DEF Inv, TypeOK, MemoryTypeOK
  <2> HIDE DEF old
  <2>3. mid \in ServiceRuntime
    BY <2>2 DEF ServiceRuntime, LifecyclePhase, RecoveryPhase
  <2> HIDE DEF mid
  <2> QED  BY <1>1, <2>1, <2>3, InvalidatedIsClaimless
<1>4. ASSUME NEW i \in intents, NEW s \in Service,
             \/ ReportActivationAccepted(s, i)
             \/ ReportDeactivationAcknowledged(s, i)
             \/ ReportStateTransferComplete(s, i)
      PROVE  ClaimsMove
  <2> DEFINE old == services[s]
             act == [old EXCEPT !.activation_accepted = TRUE, !.recovery = "EffectReported"]
             deact == [old EXCEPT !.recovery = "EffectReported"]
             moved == [old EXCEPT !.state_transfer_verified = TRUE]
  <2>1. /\ RecordEffect(s, act) \/ RecordEffect(s, deact) \/ RecordEffect(s, moved)
        /\ old.recovery # "Verified"
    BY <1>4 DEF ReportActivationAccepted, ReportDeactivationAcknowledged,
                ReportStateTransferComplete
  <2>2. old \in ServiceRuntime
    BY DEF Inv, TypeOK, MemoryTypeOK
  <2> HIDE DEF old
  <2>3. ASSUME NEW rt \in {act, deact, moved}
        PROVE  /\ rt.ambiguity_pending = old.ambiguity_pending
               /\ rt.continuity = old.continuity
    BY <2>2 DEF ServiceRuntime
  <2>4. ASSUME NEW rt \in {act, deact, moved}
        PROVE  Earned(s, old) => Earned(s, rt)
    BY <2>1, <2>3 DEF Earned
  <2> HIDE DEF act, deact, moved
  <2> QED  BY <1>1, <2>1, <2>3, <2>4 DEF old
<1>5. ASSUME NEW i \in intents, NEW s \in Service, ReportServiceHealthy(s, i)
      PROVE  ClaimsMove
  <2> DEFINE old == services[s]
             class == HealthyContinuity(s)
             rt == [old EXCEPT !.effect_verified = TRUE, !.recovery = "Verified",
                      !.lifecycle = "FallbackActive", !.attempts_since_verified = 0,
                      !.continuity = class]
  <2>1. RecordEffect(s, rt) /\ old.activation_accepted
    BY <1>5 DEF ReportServiceHealthy, VerifiedRuntime
  <2>2. class = "Full" /\ s \in Stateful => old.state_transfer_verified
    BY DEF HealthyContinuity
  <2>3. old \in ServiceRuntime
    BY DEF Inv, TypeOK, MemoryTypeOK
  <2> HIDE DEF old, class
  <2>4. /\ rt.effect_verified = TRUE /\ rt.activation_accepted = old.activation_accepted
        /\ rt.recovery = "Verified" /\ rt.lifecycle = "FallbackActive"
        /\ rt.continuity = class
        /\ rt.state_transfer_verified = old.state_transfer_verified
        /\ rt.ambiguity_pending = old.ambiguity_pending
    BY <2>3 DEF ServiceRuntime
  <2> HIDE DEF rt
  <2>5. Earned(s, rt)
    BY <2>1, <2>2, <2>4 DEF Earned
  <2> QED  BY <1>1, <2>1, <2>4, <2>5 DEF old
<1> QED  BY <1>2, <1>3, <1>4, <1>5 DEF ExecutorStep

(* A restart drops every claim.                                             *)
LEMMA OpenClaims ==
  ASSUME Inv, Open
  PROVE  \A s \in Service : Claimless(services'[s])
<1>1. services' = [s \in Service |-> Downgraded(disk.services[s])]
  BY DEF Open
<1>2. ASSUME NEW s \in Service
      PROVE  Claimless(Downgraded(disk.services[s]))
  <2>1. disk.services[s] \in ServiceRuntime
    BY DEF Inv, TypeOK, Image
  <2> QED  BY <2>1 DEF Downgraded, InvalidateVerification, PushedBack, Claimless, ServiceRuntime
<1> QED  BY <1>1, <1>2

(* Every step moves the claims of a service as ClaimsMove says.             *)
LEMMA StepClaims ==
  ASSUME Inv, [Next]_vars
  PROVE  ClaimsMove
<1>1. CASE Close
  BY <1>1, OtherClaims DEF Close, authority
<1>2. CASE Open
  BY <1>2, OpenClaims DEF ClaimsMove
<1>3. CASE UNCHANGED vars
  BY <1>3, OtherClaims DEF vars, authority
<1> QED  BY <1>1, <1>2, <1>3, ReportClaims, DecisionClaims, FeedbackClaims DEF Next

(* ContinuityEarned: whatever order the reports of executors arrive in, and *)
(* however they interleave with failures, withdrawals, resumes and          *)
(* restarts, continuity is claimed only of an attempt that was verified.    *)
THEOREM ContinuityAlwaysEarned == Spec => []ContinuityEarned
<1>1. Init => ContinuityEarned
  BY DEF Init, NewRuntime, ContinuityEarned
<1>2. Inv /\ ContinuityEarned /\ [Next]_vars => ContinuityEarned'
  <2> SUFFICES ASSUME Inv, ContinuityEarned, [Next]_vars, NEW s \in Service
               PROVE  Earned(s, services'[s])
    BY DEF ContinuityEarned, Earned
  <2>1. Earned(s, services[s])
    BY DEF ContinuityEarned, Earned
  <2>2. Claimless(services'[s]) \/ Earned(s, services'[s])
    BY <2>1, StepClaims DEF ClaimsMove
  <2> QED  BY <2>2 DEF Claimless, Earned
<1> QED  BY <1>1, <1>2, Invariance, PTL DEF Spec

(* ClaimsDropWithAuthority: no step changes the fence of a service or the   *)
(* epoch, or finds a failure report ambiguous, and keeps a claim.           *)
THEOREM ClaimsNeverOutliveAuthority == Spec => ClaimsDropWithAuthority
<1>1. Inv /\ [Next]_vars => [ClaimDropped]_vars
  <2> SUFFICES ASSUME Inv, [Next]_vars
               PROVE  ClaimDropped
    OBVIOUS
  <2> QED  BY StepClaims DEF ClaimsMove, ClaimDropped, Claimless
<1> QED  BY <1>1, Invariance, PTL DEF Spec, ClaimsDropWithAuthority

-----------------------------------------------------------------------------
(* Evidence across restarts.                                                *)

DatedBy(fs, ep) == \A e \in EvidenceId : fs[e].epoch <= ep

(* Evidence in memory: none is from a later epoch, and what names evidence  *)
(* finds it.                                                                *)
MemoryNamed ==
  /\ epoch # 0 /\ DatedBy(failures, epoch)
  /\ EvidenceKept(services, failures, latest_failure)

(* The same of an image that a restart may read: it holds at least the      *)
(* evidence `fs' that memory holds, because replay evicts nothing.          *)
ImageNamed(image, fs, ep) ==
  /\ image.epoch = ep /\ DatedBy(image.failures, ep)
  /\ RetainedIn(fs) \subseteq RetainedIn(image.failures)
  /\ EvidenceKept(image.services, image.failures, image.latest_failure)

Named == MemoryNamed /\ ImageNamed(disk, failures, epoch)

(* Evidence is finite.                                                      *)
LEMMA RetainedFinite ==
  ASSUME NEW fs
  PROVE  /\ IsFiniteSet(RetainedIn(fs)) /\ Cardinality(RetainedIn(fs)) \in Nat
         /\ \A S \in SUBSET RetainedIn(fs) :
              /\ IsFiniteSet(S) /\ Cardinality(S) \in Nat
              /\ Cardinality(S) <= Cardinality(RetainedIn(fs))
<1>1. IsFiniteSet(EvidenceId)
  BY FabricAssumption, FS_Interval DEF EvidenceId
<1>2. RetainedIn(fs) \in SUBSET EvidenceId
  BY DEF RetainedIn
<1> HIDE DEF RetainedIn
<1>3. IsFiniteSet(RetainedIn(fs)) /\ Cardinality(RetainedIn(fs)) \in Nat
  BY <1>1, <1>2, FS_Subset, FS_CardinalityType
<1>4. ASSUME NEW S \in SUBSET RetainedIn(fs)
      PROVE  /\ IsFiniteSet(S) /\ Cardinality(S) \in Nat
             /\ Cardinality(S) <= Cardinality(RetainedIn(fs))
  BY <1>3, FS_Subset, FS_CardinalityType
<1> QED  BY <1>3, <1>4

(* More evidence keeps at least as much.                                    *)
LEMMA MoreKept ==
  ASSUME NEW rt, NEW fs, NEW more, RetainedIn(fs) \subseteq RetainedIn(more),
         PendingKept(rt, fs)
  PROVE  PendingKept(rt, more)
<1>1. /\ Cardinality(RetainedIn(fs)) \in Nat /\ Cardinality(RetainedIn(more)) \in Nat
      /\ Cardinality(RetainedIn(fs)) <= Cardinality(RetainedIn(more))
  BY RetainedFinite
<1>2. MaxRetained \in Nat
  BY FabricAssumption
<1> QED  BY <1>1, <1>2 DEF PendingKept

(* Whether or not the journal is compacted.                                 *)
LEMMA PersistNamed ==
  ASSUME NEW journaled, ImageNamed(journaled, failures', epoch'), MemoryNamed',
         Persist(journaled)
  PROVE  Named'
<1>1. CASE disk' = journaled
  BY <1>1 DEF Named
<1>2. CASE disk' = Snapshot(services)'
  <2>1. /\ disk'.epoch = epoch' /\ disk'.failures = failures'
        /\ disk'.services = services'
        /\ disk'.latest_failure = [s \in Service |-> 0]
    BY <1>2 DEF Snapshot
  <2> QED  BY <2>1 DEF Named, MemoryNamed, ImageNamed, EvidenceKept
<1> QED  BY <1>1, <1>2 DEF Persist

(* An operation on a registry.                                              *)
LEMMA RegistryNamed ==
  ASSUME Named, UNCHANGED <<epoch, evidence, services>>, Persist(disk)
  PROVE  Named'
<1>1. MemoryNamed'
  BY DEF Named, MemoryNamed, evidence
<1>2. ImageNamed(disk, failures', epoch')
  BY DEF Named, evidence
<1> QED  BY <1>1, <1>2, PersistNamed

(* A runtime that waits for nothing, or still for what it waited for.       *)
StillWaits(s, rt) ==
  rt.ambiguity_pending =>
    /\ services[s].ambiguity_pending
    /\ rt.pending_ambiguity = services[s].pending_ambiguity

(* A decision about one service keeps the evidence nameable if the service  *)
(* waits for no other evidence than before.                                 *)
LEMMA UpdateNamed ==
  ASSUME Inv, Named, UNCHANGED <<epoch, evidence>>, NEW s \in Service, NEW rt,
         StillWaits(s, rt), services' = [services EXCEPT ![s] = rt]
  PROVE  MemoryNamed'
<1>1. services \in [Service -> ServiceRuntime]
  BY DEF Inv, TypeOK, MemoryTypeOK
<1>2. \A r \in Service : services'[r] = IF r = s THEN rt ELSE services[r]
  BY <1>1
<1>3. PendingKept(rt, failures)
  BY DEF Named, MemoryNamed, EvidenceKept, PendingKept, StillWaits
<1> QED  BY <1>2, <1>3 DEF Named, MemoryNamed, EvidenceKept, evidence

(* An operation that journals such a runtime.                               *)
LEMMA RuntimeNamed ==
  ASSUME Inv, Named, UNCHANGED <<epoch, evidence>>, NEW s \in Service,
         NEW rt, StillWaits(s, rt),
         services' = [services EXCEPT ![s] = rt], Persist(JournalRuntime(disk, s, rt))
  PROVE  Named'
<1> DEFINE journaled == JournalRuntime(disk, s, rt)
<1>1. /\ journaled.epoch = disk.epoch /\ journaled.failures = disk.failures
      /\ journaled.services = [disk.services EXCEPT ![s] = rt]
      /\ journaled.latest_failure = disk.latest_failure
  BY DEF JournalRuntime, Inv, TypeOK, Image
<1>2. PendingKept(rt, disk.failures)
  <2>1. PendingKept(rt, failures)
    BY DEF Named, MemoryNamed, EvidenceKept, PendingKept, StillWaits
  <2>2. RetainedIn(failures) \subseteq RetainedIn(disk.failures)
    BY DEF Named, ImageNamed
  <2> QED  BY <2>1, <2>2, MoreKept
<1>3. disk.services \in [Service -> ServiceRuntime]
  BY DEF Inv, TypeOK, Image
<1> HIDE DEF journaled
<1>4. \A r \in Service : journaled.services[r] = IF r = s THEN rt ELSE disk.services[r]
  BY <1>1, <1>3
<1>5. ImageNamed(journaled, failures', epoch')
  BY <1>1, <1>2, <1>4 DEF Named, ImageNamed, EvidenceKept, evidence
<1> QED  BY <1>5, UpdateNamed, PersistNamed DEF journaled

(* A commit resolves what the service waited for.  `image' is the image the *)
(* record is appended to, which holds the evidence of that moment.          *)
LEMMA CommitNamed ==
  ASSUME Inv, Named, NEW image \in Image, image.services = disk.services,
         NEW s \in Service, NEW to, NEW from, NEW mode, NEW settled,
         ~settled.ambiguity_pending, MemoryNamed', ImageNamed(image, failures', epoch),
         CommitRecovery(image, s, to, from, mode, settled)
  PROVE  Named'
<1> DEFINE next == CommittedRuntime(s, to, from, mode)
           committed == [services EXCEPT ![s] = next]
<1>1. ~next.ambiguity_pending
  BY CommittedIsClaimless
<1>2. /\ epoch' = epoch
      /\ services' = [services EXCEPT ![s] = settled]
      /\ \/ disk' = [Snapshot(services)' EXCEPT !.services = committed]
         \/ disk' = JournalAttempt(image, s, next)
  BY DEF CommitRecovery
<1>3. /\ services \in [Service -> ServiceRuntime]
      /\ image.services \in [Service -> ServiceRuntime]
  BY DEF Inv, TypeOK, MemoryTypeOK, Image
<1> HIDE DEF next
<1>4. CASE disk' = [Snapshot(services)' EXCEPT !.services = committed]
  <2>1. /\ disk'.epoch = epoch' /\ disk'.failures = failures'
        /\ disk'.services = committed
        /\ disk'.latest_failure = [r \in Service |-> 0]
    BY <1>4 DEF Snapshot
  <2>2. \A r \in Service :
          /\ committed[r] = IF r = s THEN next ELSE services[r]
          /\ r # s => services'[r] = services[r]
    BY <1>2, <1>3
  <2>3. ImageNamed(disk', failures', epoch')
    BY <1>1, <2>1, <2>2 DEF MemoryNamed, ImageNamed, EvidenceKept, PendingKept
  <2> QED  BY <2>3 DEF Named
<1>5. CASE disk' = JournalAttempt(image, s, next)
  <2>1. /\ disk'.epoch = image.epoch /\ disk'.failures = image.failures
        /\ disk'.services = [image.services EXCEPT ![s] = next]
        /\ disk'.latest_failure = image.latest_failure
    BY <1>5 DEF JournalAttempt, JournalRuntime, Image
  <2>2. \A r \in Service : disk'.services[r] = IF r = s THEN next ELSE image.services[r]
    BY <1>3, <2>1
  <2>3. ImageNamed(disk', failures', epoch')
    BY <1>1, <1>2, <2>1, <2>2 DEF ImageNamed, EvidenceKept, PendingKept
  <2> QED  BY <2>3 DEF Named
<1> QED  BY <1>2, <1>4, <1>5

(* Eviction stops as soon as there is room for one more.                    *)
LEMMA EvictionStops ==
  ASSUME failure_order \in Seq(EvidenceId)
  PROVE  \/ EvictedIds = {}
         \/ Cardinality(RetainedIn(failures) \ EvictedIds) + 1 >= MaxRetained
<1> DEFINE R == RetainedIn(failures)
           dropped(n) == {failure_order[k] : k \in 1 .. n}
           fits(n) == n = Len(failure_order) \/ Cardinality(R \ dropped(n)) < MaxRetained
           last == failure_order[Evicted]
           left == R \ dropped(Evicted)
           before == R \ dropped(Evicted - 1)
<1>1. /\ Evicted \in 0 .. Len(failure_order) /\ Len(failure_order) \in Nat
      /\ MaxRetained \in Nat
  BY EvictedType, FabricAssumption
<1>2. \A m \in 0 .. Evicted - 1 : ~fits(m)
  <2>1. Evicted = CHOOSE n \in 0 .. Len(failure_order) :
                    fits(n) /\ \A m \in 0 .. n - 1 : ~fits(m)
    BY DEF Evicted
  <2>2. \E n \in 0 .. Len(failure_order) : fits(n) /\ \A m \in 0 .. n - 1 : ~fits(m)
    <3> DEFINE T == {n \in 0 .. Len(failure_order) : fits(n)}
    <3>1. T \in SUBSET Nat /\ Len(failure_order) \in T
      BY <1>1
    <3>2. PICK n \in T : \A m \in T : n <= m
      <4> HIDE DEF T
      <4> QED  BY <3>1, LeastNatural
    <3>3. n \in 0 .. Len(failure_order) /\ fits(n) /\ \A m \in 0 .. n - 1 : ~fits(m)
      <4> HIDE DEF fits
      <4> QED  BY <1>1, <3>2
    <3> QED  BY <3>3
  <2> HIDE DEF fits
  <2> QED  BY <2>1, <2>2
<1>3. CASE Evicted = 0
  BY <1>3 DEF EvictedIds
<1>4. CASE Evicted # 0
  <2>1. ~fits(Evicted - 1)
    <3> HIDE DEF fits
    <3>1. Evicted - 1 \in 0 .. Evicted - 1
      BY <1>1, <1>4
    <3> QED  BY <1>2, <3>1
  <2>2. ~(Cardinality(before) < MaxRetained)
    BY <2>1
  <2>3. before \in SUBSET (left \cup {last})
    <3>1. \A k \in 1 .. Evicted : k \in 1 .. Evicted - 1 \/ k = Evicted
      BY <1>1
    <3> QED  BY <3>1
  <2>4. left \in SUBSET R /\ before \in SUBSET R
    OBVIOUS
  <2> HIDE DEF R, left, last, before
  <2>5. /\ IsFiniteSet(left) /\ Cardinality(left) \in Nat /\ Cardinality(before) \in Nat
    BY <2>4, RetainedFinite DEF R
  <2>6. /\ IsFiniteSet(left \cup {last})
        /\ Cardinality(left \cup {last}) <= Cardinality(left) + 1
    <3>1. /\ IsFiniteSet(left \cup {last})
          /\ Cardinality(left \cup {last}) =
               IF last \in left THEN Cardinality(left) ELSE Cardinality(left) + 1
      BY <2>5, FS_AddElement
    <3>2. CASE last \in left
      BY <2>5, <3>1, <3>2
    <3>3. CASE last \notin left
      BY <2>5, <3>1, <3>3
    <3> QED  BY <3>1, <3>2, <3>3
  <2>7. Cardinality(before) <= Cardinality(left \cup {last})
    BY <2>3, <2>6, FS_Subset
  <2>8. Cardinality(left \cup {last}) \in Nat
    BY <2>6, FS_CardinalityType
  <2>9. Cardinality(left) + 1 >= MaxRetained
    BY <1>1, <2>2, <2>5, <2>6, <2>7, <2>8
  <2> QED  BY <2>9 DEF left, R, EvictedIds
<1> QED  BY <1>3, <1>4

(* A failure record that is replayed adds to the evidence.                  *)
LEMMA JournaledNamed ==
  ASSUME Inv, Named, NEW e \in EvidenceId, NEW obs \in FailureEvidence,
         obs.epoch <= epoch, NEW fs, RetainedIn(fs) \subseteq RetainedIn(failures) \cup {e}
  PROVE  /\ ImageNamed(JournalFailure(disk, e, obs), fs, epoch)
         /\ obs # NoEvidence
<1> DEFINE journaled == JournalFailure(disk, e, obs)
<1>1. /\ disk \in Image /\ disk.failures \in FailureMap
      /\ disk.latest_failure \in [Service -> {0} \cup EvidenceId]
  BY DEF Inv, TypeOK, Image, FailureMap
<1>2. /\ journaled.epoch = disk.epoch /\ journaled.services = disk.services
      /\ journaled.failures = [disk.failures EXCEPT ![e] = obs]
      /\ journaled.latest_failure = [disk.latest_failure EXCEPT ![obs.service] = e]
  BY <1>1 DEF JournalFailure, Image
<1> HIDE DEF journaled
<1>3. \A d \in EvidenceId : journaled.failures[d] = IF d = e THEN obs ELSE disk.failures[d]
  BY <1>1, <1>2 DEF FailureMap
<1>4. obs # NoEvidence
  <2>1. obs.service # 0
    BY DescriptorAssumption DEF FailureEvidence, Service
  <2> QED  BY <2>1 DEF NoEvidence
<1>5. RetainedIn(disk.failures) \cup {e} \subseteq RetainedIn(journaled.failures)
  BY <1>3, <1>4 DEF RetainedIn
<1>6. DatedBy(journaled.failures, epoch)
  BY <1>3 DEF Named, ImageNamed, DatedBy
<1>7. ASSUME NEW s \in Service
      PROVE  /\ journaled.latest_failure[s] # 0 =>
                  journaled.latest_failure[s] \in RetainedIn(journaled.failures)
             /\ PendingKept(journaled.services[s], journaled.failures)
  <2>1. /\ disk.latest_failure[s] # 0 => disk.latest_failure[s] \in RetainedIn(disk.failures)
        /\ PendingKept(disk.services[s], disk.failures)
    BY DEF Named, ImageNamed, EvidenceKept
  <2>2. PendingKept(disk.services[s], journaled.failures)
    BY <1>5, <2>1, MoreKept
  <2>3. journaled.latest_failure[s] \in {e, disk.latest_failure[s]}
    BY <1>1, <1>2
  <2> QED  BY <1>2, <1>5, <2>1, <2>2, <2>3
<1> QED  BY <1>2, <1>4, <1>5, <1>6, <1>7 DEF Named, ImageNamed, EvidenceKept, journaled

(* A new observation, whatever it replaces or evicts.                       *)
LEMMA IngestNamed ==
  ASSUME Inv, Named, NEW s \in Service, NEW t \in Target, NEW inc \in Incarnations[t],
         NEW e \in EvidenceId, NEW a \in Ambiguities,
         IngestFailure(s, [target |-> t, inc |-> inc], e, a)
  PROVE  Named'
<1> DEFINE ref == [target |-> t, inc |-> inc]
           observed == [service |-> s, target |-> ref, epoch |-> epoch,
                        topology |-> topology, ambiguous |-> a]
           rt == AwaitOperator(services[s], e)
<1>1. /\ epoch \in Nat /\ topology \in Nat /\ next_evidence_id \in Nat
      /\ services \in [Service -> ServiceRuntime]
      /\ failure_order \in Seq(EvidenceId)
      /\ failures \in FailureMap
      /\ latest_failure \in [Service -> {0} \cup EvidenceId]
  BY DEF Inv, TypeOK, MemoryTypeOK, FailureMap
<1>2. e \in Nat \ {0}
  BY FabricAssumption DEF EvidenceId
<1>3. observed \in FailureEvidence /\ observed.service = s /\ observed.epoch = epoch
  <2>1. ref \in TargetRef
    BY FabricAssumption DEF TargetRef
  <2>2. a \in BOOLEAN
    BY FabricAssumption
  <2> HIDE DEF ref
  <2> QED  BY <1>1, <2>1, <2>2 DEF FailureEvidence
<1>4. /\ failures' = [d \in EvidenceId |->
            IF d = e THEN observed
            ELSE IF d \in EvictedIds THEN NoEvidence ELSE failures[d]]
      /\ latest_failure' = [r \in Service |->
            IF r = s THEN e
            ELSE IF latest_failure[r] \in EvictedIds THEN 0 ELSE latest_failure[r]]
      /\ services' = IF a THEN [services EXCEPT ![s] = rt] ELSE services
      /\ epoch' = epoch
      /\ Persist(JournalFailure(disk, e, observed))
  BY DEF IngestFailure
<1>5. rt.ambiguity_pending /\ rt.pending_ambiguity = e
  <2>1. services[s] \in ServiceRuntime
    BY <1>1
  <2> QED  BY <2>1 DEF AwaitOperator, InvalidateVerification, ServiceRuntime
<1> HIDE DEF observed, rt
<1>6. RetainedIn(failures') \subseteq RetainedIn(failures) \cup {e}
  BY <1>4 DEF RetainedIn
<1>7. /\ ImageNamed(JournalFailure(disk, e, observed), failures', epoch)
      /\ observed # NoEvidence
  BY <1>1, <1>3, <1>6, JournaledNamed
<1>8. DatedBy(failures', epoch)
  <2>1. NoEvidence.epoch <= epoch
    BY <1>1 DEF NoEvidence
  <2>2. observed.epoch <= epoch
    BY <1>1, <1>3
  <2> QED  BY <1>4, <2>1, <2>2 DEF Named, MemoryNamed, DatedBy
<1>9. /\ (RetainedIn(failures) \ EvictedIds) \cup {e} \subseteq RetainedIn(failures')
      /\ MaxRetained \in Nat
  BY <1>4, <1>7, FabricAssumption DEF RetainedIn
<1>10. ASSUME NEW r \in Service
       PROVE  PendingKept(services'[r], failures')
  <2>1. CASE r = s /\ a
    <3>1. services'[r] = rt
      BY <1>1, <1>4, <2>1
    <3> QED  BY <1>5, <1>9, <3>1 DEF PendingKept
  <2>2. CASE ~(r = s /\ a)
    <3>1. services'[r] = services[r] /\ PendingKept(services[r], failures)
      BY <1>1, <1>4, <2>2 DEF Named, MemoryNamed, EvidenceKept
    <3>2. CASE EvictedIds = {}
      <4>1. RetainedIn(failures) \subseteq RetainedIn(failures')
        BY <1>9, <3>2
      <4> QED  BY <3>1, <4>1, MoreKept
    <3>3. CASE Cardinality(RetainedIn(failures) \ EvictedIds) + 1 >= MaxRetained
      <4>1. RetainedIn(failures) \ EvictedIds \in SUBSET RetainedIn(failures')
        BY <1>9
      <4>2. /\ Cardinality(RetainedIn(failures')) \in Nat
            /\ Cardinality(RetainedIn(failures) \ EvictedIds) \in Nat
            /\ Cardinality(RetainedIn(failures) \ EvictedIds)
                 <= Cardinality(RetainedIn(failures'))
        BY <4>1, RetainedFinite
      <4>3. Cardinality(RetainedIn(failures')) + 1 >= MaxRetained
        BY <1>9, <3>3, <4>2
      <4> QED  BY <4>3 DEF PendingKept
    <3> QED  BY <1>1, <3>2, <3>3, EvictionStops
  <2> QED  BY <2>1, <2>2
<1>11. ASSUME NEW r \in Service, latest_failure'[r] # 0
       PROVE  latest_failure'[r] \in RetainedIn(failures')
  <2>1. latest_failure[r] # 0 => latest_failure[r] \in RetainedIn(failures)
    BY DEF Named, MemoryNamed, EvidenceKept
  <2> QED  BY <1>1, <1>4, <1>9, <1>11, <2>1
<1>12. MemoryNamed'
  BY <1>4, <1>8, <1>10, <1>11 DEF Named, MemoryNamed, EvidenceKept
<1> QED  BY <1>4, <1>7, <1>12, PersistNamed

(* The promotion of an ambiguous observation.                               *)
LEMMA ResolveConfirmedNamed ==
  ASSUME Inv, Named, NEW s \in Service, ResolveConfirmed(s)
  PROVE  Named'
<1> DEFINE e == services[s].pending_ambiguity
           old == failures[e]
           confirmed == [old EXCEPT !.ambiguous = FALSE]
           promoted == JournalFailure(disk, e, confirmed)
           cleared == [services EXCEPT ![s].ambiguity_pending = FALSE,
                                       ![s].pending_ambiguity = 0]
<1>1. /\ failures \in FailureMap /\ services \in [Service -> ServiceRuntime]
      /\ disk \in Image
  BY DEF Inv, TypeOK, MemoryTypeOK, FailureMap
<1>2. e \in EvidenceId /\ old # NoEvidence
  BY DEF ResolveConfirmed, Retained, RetainedIn
<1>3. old \in FailureEvidence
  BY <1>1, <1>2 DEF FailureMap
<1>4. /\ failures' = [failures EXCEPT ![e] = confirmed]
      /\ UNCHANGED <<latest_failure, epoch>>
      /\ CommitFailover(promoted, s) \/ (services' = cleared /\ disk' = promoted)
  <2>1. ASSUME NEW image, CommitFailover(image, s)
        PROVE  epoch' = epoch
    BY <2>1 DEF CommitFailover, Commit, CommitRecovery
  <2>2. failures' = [failures EXCEPT ![e] = confirmed] /\ latest_failure' = latest_failure
    BY DEF ResolveConfirmed
  <2>3. \/ CommitFailover(promoted, s)
        \/ services' = cleared /\ disk' = promoted /\ epoch' = epoch
    BY DEF ResolveConfirmed
  <2> QED  BY <2>1, <2>2, <2>3
<1> HIDE DEF old
<1>5. /\ confirmed \in FailureEvidence
      /\ confirmed.service = old.service /\ confirmed.epoch = old.epoch
  BY <1>3 DEF FailureEvidence
<1> HIDE DEF e, confirmed, cleared
<1>6. /\ \A d \in EvidenceId : failures'[d] = IF d = e THEN confirmed ELSE failures[d]
      /\ old.epoch <= epoch
  BY <1>1, <1>2, <1>4 DEF FailureMap, Named, MemoryNamed, DatedBy, old
<1>7. ImageNamed(promoted, failures', epoch) /\ confirmed # NoEvidence
  <2>1. RetainedIn(failures') \subseteq RetainedIn(failures) \cup {e}
    BY <1>6 DEF RetainedIn
  <2> QED  BY <1>2, <1>5, <1>6, <2>1, JournaledNamed
<1>8. promoted \in Image /\ promoted.services = disk.services
  BY <1>1, <1>2, <1>5, JournalFailureType
<1> HIDE DEF promoted
<1>9. DatedBy(failures', epoch) /\ RetainedIn(failures) \subseteq RetainedIn(failures')
  <2>1. DatedBy(failures, epoch)
    BY DEF Named, MemoryNamed
  <2>2. DatedBy(failures', epoch)
    BY <1>5, <1>6, <2>1 DEF DatedBy
  <2>3. RetainedIn(failures) \subseteq RetainedIn(failures')
    BY <1>6, <1>7 DEF RetainedIn
  <2> QED  BY <2>2, <2>3
<1>10. ASSUME ~services'[s].ambiguity_pending,
              \A r \in Service : r # s => services'[r] = services[r]
       PROVE  MemoryNamed'
  <2>1. ASSUME NEW r \in Service
        PROVE  /\ latest_failure'[r] # 0 => latest_failure'[r] \in RetainedIn(failures')
               /\ PendingKept(services'[r], failures')
    <3>1. /\ latest_failure[r] # 0 => latest_failure[r] \in RetainedIn(failures)
          /\ PendingKept(services[r], failures)
      BY DEF Named, MemoryNamed, EvidenceKept
    <3>2. PendingKept(services[r], failures')
      BY <1>9, <3>1, MoreKept
    <3>3. PendingKept(services'[r], failures')
      BY <1>10, <3>2 DEF PendingKept
    <3> QED  BY <1>4, <1>9, <3>1, <3>3
  <2> QED  BY <1>4, <1>9, <2>1 DEF Named, MemoryNamed, EvidenceKept
<1>11. CASE services' = cleared /\ disk' = promoted
  <2>1. ~services'[s].ambiguity_pending
    <3>1. services[s] \in ServiceRuntime
      BY <1>1
    <3> QED  BY <1>1, <1>11, <3>1 DEF cleared, ServiceRuntime
  <2>2. \A r \in Service : r # s => services'[r] = services[r]
    BY <1>1, <1>11 DEF cleared
  <2> QED  BY <1>4, <1>7, <1>10, <1>11, <2>1, <2>2 DEF Named
<1>12. CASE CommitFailover(promoted, s)
  <2>1. PICK t \in Fallback(s) : Commit(promoted, s, Ref(t), services[s].active, "Failover")
    BY <1>12 DEF CommitFailover
  <2> DEFINE next == CommittedRuntime(s, Ref(t), services[s].active, "Failover")
  <2>2. /\ CommitRecovery(promoted, s, Ref(t), services[s].active, "Failover", next)
        /\ ~next.ambiguity_pending
    BY <2>1, CommittedIsClaimless DEF Commit
  <2> HIDE DEF next
  <2>3. services' = [services EXCEPT ![s] = next]
    BY <2>2 DEF CommitRecovery
  <2>4. /\ ~services'[s].ambiguity_pending
        /\ \A r \in Service : r # s => services'[r] = services[r]
    BY <1>1, <2>2, <2>3
  <2> QED  BY <1>7, <1>8, <1>10, <2>2, <2>4, CommitNamed
<1> QED  BY <1>4, <1>11, <1>12

(* Registries and evidence.                                                 *)
LEMMA ReportNamed ==
  ASSUME Inv, Named, RegistryStep \/ EvidenceStep
  PROVE  Named'
<1>1. ASSUME NEW s \in Service, RegisterService(s)
      PROVE  Named'
  <2>1. StillWaits(s, NewRuntime("Registered"))
    BY DEF NewRuntime, StillWaits
  <2> QED  BY <1>1, <2>1, RuntimeNamed DEF RegisterService
<1>2. ASSUME NEW s \in Service, WithdrawService(s)
      PROVE  Named'
  <2> DEFINE old == services[s]
             rt == [old EXCEPT !.lifecycle = "Withdrawn", !.recovery = "None",
                               !.continuity = "None"]
             journaled == [disk EXCEPT !.services[s].lifecycle = "Withdrawn"]
  <2>1. old \in ServiceRuntime /\ services \in [Service -> ServiceRuntime] /\ disk \in Image
    BY DEF Inv, TypeOK, MemoryTypeOK
  <2>2. /\ services' = [services EXCEPT ![s] = rt] /\ UNCHANGED <<epoch, evidence>>
        /\ Persist(journaled)
    BY <1>2, <2>1 DEF WithdrawService
  <2> HIDE DEF old
  <2>3. StillWaits(s, rt)
    BY <2>1 DEF ServiceRuntime, StillWaits, old
  <2> HIDE DEF rt
  <2>4. MemoryNamed'
    BY <2>2, <2>3, UpdateNamed
  <2>5. /\ journaled.epoch = disk.epoch /\ journaled.failures = disk.failures
        /\ journaled.services = [disk.services EXCEPT ![s].lifecycle = "Withdrawn"]
        /\ journaled.latest_failure = disk.latest_failure
    BY <2>1 DEF Image
  <2> HIDE DEF journaled
  <2>6. \A r \in Service :
          /\ journaled.services[r].ambiguity_pending = disk.services[r].ambiguity_pending
          /\ journaled.services[r].pending_ambiguity = disk.services[r].pending_ambiguity
    <3>1. disk.services \in [Service -> ServiceRuntime]
      BY <2>1 DEF Image
    <3> DEFINE was == disk.services[s]
               is == [was EXCEPT !.lifecycle = "Withdrawn"]
    <3>2. \A r \in Service : journaled.services[r] = IF r = s THEN is ELSE disk.services[r]
      BY <2>5, <3>1
    <3>3. was \in ServiceRuntime
      BY <3>1
    <3> HIDE DEF was
    <3>4. /\ is.ambiguity_pending = was.ambiguity_pending
          /\ is.pending_ambiguity = was.pending_ambiguity
      BY <3>3 DEF ServiceRuntime
    <3> HIDE DEF is
    <3> QED  BY <3>2, <3>4 DEF was
  <2>7. ImageNamed(journaled, failures', epoch')
    BY <2>2, <2>5, <2>6 DEF Named, ImageNamed, EvidenceKept, PendingKept, evidence
  <2> QED  BY <2>2, <2>4, <2>7, PersistNamed
<1>3. ASSUME \/ \E t \in Target : \E inc \in Incarnations[t] : RegisterTarget(t, inc)
             \/ \E t \in Retirable : RetireTarget(t)
             \/ \E g \in 1 .. MaxTopology : SetTopologyGeneration(g)
             \/ \E p \in Policies : SetPolicy(p)
             \/ \E t \in Target, g \in 1 .. MaxCapability, c \in Coverages :
                  IngestCapability(t, g, c)
      PROVE  Named'
  <2>1. UNCHANGED <<epoch, evidence, services>> /\ Persist(disk)
    BY <1>3 DEF RegisterTarget, RetireTarget, SetTopologyGeneration, SetPolicy,
                IngestCapability, authority
  <2> QED  BY <2>1, RegistryNamed
<1> QED  BY <1>1, <1>2, <1>3, IngestNamed DEF RegistryStep, EvidenceStep

(* Recovery decisions.                                                      *)
LEMMA DecisionNamed ==
  ASSUME Inv, Named, RecoveryStep
  PROVE  Named'
<1>1. PICK s \in Service :
        \/ \E t \in Target : EstablishPlacement(s, t)
        \/ \E e \in EvidenceId, a \in BOOLEAN : RequestFailoverOnEvidence(s, e, a)
        \/ \E e \in EvidenceId : RefuseAmbiguous(s, e)
        \/ RequestFailoverByOperator(s)
        \/ ResumeRecovery(s)
        \/ ResolveAlive(s)
        \/ ResolveConfirmed(s)
        \/ RequestFailback(s)
  BY DEF RecoveryStep
<1>2. services[s] \in ServiceRuntime /\ disk \in Image
  BY DEF Inv, TypeOK, MemoryTypeOK
<1>3. ASSUME NEW to, NEW from, NEW mode, NEW settled, ~settled.ambiguity_pending,
             UNCHANGED evidence, CommitRecovery(disk, s, to, from, mode, settled)
      PROVE  Named'
  <2>1. services' = [services EXCEPT ![s] = settled] /\ epoch' = epoch
    BY <1>3 DEF CommitRecovery
  <2>2. MemoryNamed'
    BY <1>3, <2>1, UpdateNamed DEF StillWaits
  <2>3. ImageNamed(disk, failures', epoch)
    BY <1>3 DEF Named, evidence
  <2> QED  BY <1>2, <1>3, <2>2, <2>3, CommitNamed
<1>4. CASE \/ \E t \in Target : EstablishPlacement(s, t)
           \/ \E e \in EvidenceId, a \in BOOLEAN : RequestFailoverOnEvidence(s, e, a)
           \/ RequestFailoverByOperator(s)
           \/ ResumeRecovery(s)
  <2>1. PICK to, from, mode : Commit(disk, s, to, from, mode) /\ UNCHANGED evidence
    BY <1>4 DEF EstablishPlacement, RequestFailoverOnEvidence,
                RequestFailoverByOperator, CommitFailover, ResumeRecovery
  <2>2. ~CommittedRuntime(s, to, from, mode).ambiguity_pending
    BY CommittedIsClaimless
  <2> QED  BY <1>3, <2>1, <2>2 DEF Commit
<1>5. ASSUME NEW e \in EvidenceId, RefuseAmbiguous(s, e)
      PROVE  Named'
  <2> DEFINE rt == AwaitOperator(services[s], e)
  <2>1. /\ services' = [services EXCEPT ![s] = rt] /\ disk' = disk
        /\ UNCHANGED <<epoch, evidence>>
    BY <1>5 DEF RefuseAmbiguous
  <2>2. rt.ambiguity_pending /\ rt.pending_ambiguity = e
    BY <1>2 DEF AwaitOperator, InvalidateVerification, ServiceRuntime
  <2>3. e \in RetainedIn(failures)
    <3>1. failures[e].service = s
      BY <1>5 DEF RefuseAmbiguous, EvidenceCurrent
    <3>2. failures[e] # NoEvidence
      BY <3>1, DescriptorAssumption DEF NoEvidence, Service
    <3> QED  BY <3>2 DEF RetainedIn
  <2> HIDE DEF rt
  <2>4. services \in [Service -> ServiceRuntime]
    BY DEF Inv, TypeOK, MemoryTypeOK
  <2>5. \A r \in Service : services'[r] = IF r = s THEN rt ELSE services[r]
    BY <2>1, <2>4
  <2>6. MemoryNamed'
    BY <2>1, <2>2, <2>3, <2>5 DEF Named, MemoryNamed, EvidenceKept, PendingKept, evidence
  <2> QED  BY <2>1, <2>6 DEF Named, evidence
<1>6. CASE ResolveAlive(s)
  <2> DEFINE old == services[s]
             rt == [old EXCEPT !.ambiguity_pending = FALSE, !.pending_ambiguity = 0,
                               !.recovery = "Refused", !.lifecycle = "Failed",
                               !.continuity = "None"]
  <2>1. /\ services' = [services EXCEPT ![s] = rt] /\ UNCHANGED <<epoch, evidence>>
        /\ Persist(JournalRuntime(disk, s, rt))
    BY <1>6 DEF ResolveAlive
  <2>2. old \in ServiceRuntime
    BY <1>2
  <2> HIDE DEF old
  <2>3. StillWaits(s, rt)
    BY <2>2 DEF ServiceRuntime, StillWaits
  <2> HIDE DEF rt
  <2> QED  BY <2>1, <2>3, RuntimeNamed
<1>7. CASE RequestFailback(s)
  <2> DEFINE to == Ref(services[s].pre_failover_target.target)
             next == CommittedRuntime(s, to, services[s].active, "Failover")
             left == [next EXCEPT !.pre_failover_target = NoRef, !.failover_recorded = FALSE]
  <2>1. /\ CommitRecovery(disk, s, to, services[s].active, "Failover", left)
        /\ UNCHANGED evidence
    BY <1>7 DEF RequestFailback
  <2>2. ~left.ambiguity_pending
    BY CommittedIsClaimless
  <2> HIDE DEF left, to
  <2> QED  BY <1>3, <2>1, <2>2
<1> QED  BY <1>1, <1>4, <1>5, <1>6, <1>7, ResolveConfirmedNamed

(* Executor feedback leaves what a service waits for alone.                 *)
LEMMA FeedbackNamed ==
  ASSUME Inv, Named, ExecutorStep
  PROVE  Named'
<1>1. ASSUME NEW s \in Service, NEW rt, StillWaits(s, rt), RecordEffect(s, rt)
      PROVE  Named'
  <2>1. /\ services' = [services EXCEPT ![s] = rt] /\ UNCHANGED <<epoch, evidence>>
        /\ Persist(JournalRuntime(disk, s, rt))
    BY <1>1 DEF RecordEffect
  <2> QED  BY <1>1, <2>1, RuntimeNamed
<1>2. ASSUME NEW i \in intents, NEW accepted \in BOOLEAN, AcknowledgeIntent(i, accepted)
      PROVE  Named'
  <2>1. PICK s \in Service : \E k \in CurrentRecords(services[s]) :
          RecordEffect(s, AckedRuntime(services[s], k, accepted))
    BY <1>2 DEF AcknowledgeIntent, AckedService, RecordEffect
  <2>2. PICK k \in CurrentRecords(services[s]) :
          RecordEffect(s, AckedRuntime(services[s], k, accepted))
    BY <2>1
  <2> DEFINE rt == AckedRuntime(services[s], k, accepted)
  <2>3. services[s] \in ServiceRuntime
    BY DEF Inv, TypeOK, MemoryTypeOK
  <2>4. StillWaits(s, rt)
    BY <2>3 DEF AckedRuntime, InvalidateVerification, ServiceRuntime, StillWaits
  <2> HIDE DEF rt
  <2> QED  BY <1>1, <2>2, <2>4 DEF rt
<1>3. ASSUME NEW i \in intents, NEW s \in Service,
             \/ ReportNegative(s, i)
             \/ ReportActivationAccepted(s, i)
             \/ ReportDeactivationAcknowledged(s, i)
             \/ ReportStateTransferComplete(s, i)
             \/ ReportServiceHealthy(s, i)
      PROVE  Named'
  <2> DEFINE old == services[s]
             mid == [old EXCEPT !.recovery = "EffectReported", !.lifecycle = "Failed"]
             ended == InvalidateVerification(mid)
             act == [old EXCEPT !.activation_accepted = TRUE, !.recovery = "EffectReported"]
             deact == [old EXCEPT !.recovery = "EffectReported"]
             moved == [old EXCEPT !.state_transfer_verified = TRUE]
             healthy == VerifiedRuntime(s)
  <2>1. \E rt \in {ended, act, deact, moved, healthy} : RecordEffect(s, rt)
    BY <1>3 DEF ReportNegative, ReportActivationAccepted, ReportDeactivationAcknowledged,
                ReportStateTransferComplete, ReportServiceHealthy
  <2>2. old \in ServiceRuntime
    BY DEF Inv, TypeOK, MemoryTypeOK
  <2>3. StillWaits(s, ended)
    BY <2>2 DEF InvalidateVerification, ServiceRuntime, StillWaits
  <2>4. StillWaits(s, act) /\ StillWaits(s, deact) /\ StillWaits(s, moved)
    BY <2>2 DEF ServiceRuntime, StillWaits
  <2>5. StillWaits(s, healthy)
    BY <2>2 DEF VerifiedRuntime, ServiceRuntime, StillWaits
  <2> HIDE DEF ended, act, deact, moved, healthy
  <2> QED  BY <1>1, <2>1, <2>3, <2>4, <2>5
<1> QED  BY <1>2, <1>3 DEF ExecutorStep

(* A restart recovers evidence of earlier epochs only.                      *)
LEMMA OpenNamed ==
  ASSUME Inv, Named, Open
  PROVE  /\ Named'
         /\ \A e \in EvidenceId : failures'[e].epoch < epoch'
<1>1. /\ epoch' = disk.epoch + 1 /\ failures' = disk.failures
      /\ latest_failure' = disk.latest_failure
      /\ services' = [s \in Service |-> Downgraded(disk.services[s])]
      /\ Persist([disk EXCEPT !.epoch = epoch'])
  BY DEF Open
<1>2. /\ epoch \in Nat \ {0} /\ disk.epoch = epoch
      /\ disk \in Image
  BY DEF Inv, TypeOK, MemoryTypeOK, Named, MemoryNamed, ImageNamed
<1>3. ASSUME NEW e \in EvidenceId
      PROVE  failures'[e].epoch <= epoch /\ failures'[e].epoch \in Nat
  <2>1. disk.failures[e] \in FailureEvidence \cup {NoEvidence}
    BY <1>2 DEF Image
  <2>2. disk.failures[e].epoch \in Nat
    BY <2>1 DEF FailureEvidence, NoEvidence
  <2> QED  BY <1>1, <2>2 DEF Named, ImageNamed, DatedBy
<1>4. /\ DatedBy(failures', epoch')
      /\ \A e \in EvidenceId : failures'[e].epoch < epoch'
      /\ epoch' # 0
  BY <1>1, <1>2, <1>3 DEF DatedBy
<1>5. ASSUME NEW s \in Service
      PROVE  /\ services'[s].ambiguity_pending = disk.services[s].ambiguity_pending
             /\ services'[s].pending_ambiguity = disk.services[s].pending_ambiguity
  <2> DEFINE rt == disk.services[s]
  <2>1. rt \in ServiceRuntime
    BY <1>2 DEF Image
  <2> HIDE DEF rt
  <2>2. /\ Downgraded(rt).ambiguity_pending = rt.ambiguity_pending
        /\ Downgraded(rt).pending_ambiguity = rt.pending_ambiguity
    BY <2>1 DEF Downgraded, InvalidateVerification, PushedBack, ServiceRuntime
  <2> QED  BY <1>1, <2>2 DEF rt
<1>6. MemoryNamed'
  BY <1>1, <1>4, <1>5 DEF Named, MemoryNamed, ImageNamed, EvidenceKept, PendingKept
<1> DEFINE journaled == [disk EXCEPT !.epoch = epoch']
<1>7. /\ journaled.epoch = epoch' /\ journaled.failures = disk.failures
      /\ journaled.services = disk.services
      /\ journaled.latest_failure = disk.latest_failure
  BY <1>2 DEF Image
<1> HIDE DEF journaled
<1>8. ImageNamed(journaled, failures', epoch')
  BY <1>1, <1>4, <1>7 DEF Named, ImageNamed
<1>9. Named'
  BY <1>1, <1>6, <1>8, PersistNamed DEF journaled
<1> QED  BY <1>4, <1>9

(* Together with Inv, Named is inductive.                                   *)
LEMMA InitNamed ==
  ASSUME Init
  PROVE  Named
<1>1. /\ epoch = 1 /\ failures = [e \in EvidenceId |-> NoEvidence]
      /\ disk.epoch = epoch /\ disk.failures = failures /\ disk.services = services
      /\ latest_failure = [s \in Service |-> 0]
      /\ disk.latest_failure = [s \in Service |-> 0]
      /\ \A s \in Service : ~services[s].ambiguity_pending
  BY DEF Init, Snapshot, NewRuntime
<1>2. DatedBy(failures, epoch) /\ RetainedIn(failures) = {}
  BY <1>1 DEF DatedBy, RetainedIn, NoEvidence
<1> QED  BY <1>1, <1>2 DEF Named, MemoryNamed, ImageNamed, EvidenceKept, PendingKept

(* Every operation keeps named evidence retained.                           *)
LEMMA NextNamed ==
  ASSUME Inv, Named, [Next]_vars
  PROVE  Named'
<1>1. CASE UNCHANGED vars \/ Close
  <2>1. UNCHANGED <<epoch, failures, latest_failure, services, disk>>
    BY <1>1 DEF Close, vars, evidence, authority
  <2> QED  BY <2>1 DEF Named, MemoryNamed, ImageNamed
<1> QED  BY <1>1, ReportNamed, DecisionNamed, FeedbackNamed, OpenNamed DEF Next

(* In every reachable state what names evidence finds it, and none is from  *)
(* a later epoch.                                                           *)
THEOREM NamedInvariance == Spec => [](Inv /\ Named)
<1>1. Init => Inv /\ Named
  BY InitInv, InitNamed
<1>2. Inv /\ Named /\ [Next]_vars => (Inv /\ Named)'
  BY NextInv, NextNamed
<1> QED  BY <1>1, <1>2, PTL DEF Spec

(* NamedEvidenceKept: whatever was evicted, confirmed, compacted and        *)
(* recovered, the newest failure of a service is retained, a pending        *)
(* ambiguity loses its evidence to the ceiling alone, and the evidence in   *)
(* memory is durable.                                                       *)
THEOREM NamedEvidenceAlwaysKept == Spec => []NamedEvidenceKept
<1>1. Inv /\ Named => NamedEvidenceKept
  BY DEF Named, MemoryNamed, ImageNamed, NamedEvidenceKept
<1> QED  BY <1>1, NamedInvariance, PTL

(* Only a restart changes the epoch.                                        *)
LEMMA EpochFrame ==
  ASSUME [Next]_vars, epoch' # epoch
  PROVE  Open
<1>1. CASE RegistryStep \/ EvidenceStep
  <2>1. ASSUME NEW s, NEW ref, NEW e, NEW a, IngestFailure(s, ref, e, a)
        PROVE  FALSE
    BY <2>1 DEF IngestFailure
  <2>2. ASSUME NEW t, NEW g, NEW c, IngestCapability(t, g, c)
        PROVE  FALSE
    BY <2>2 DEF IngestCapability
  <2>3. ~EvidenceStep
    BY <2>1, <2>2 DEF EvidenceStep
  <2>4. ~RegistryStep
    BY DEF RegistryStep, RegisterService, WithdrawService, RegisterTarget,
           RetireTarget, SetTopologyGeneration, SetPolicy
  <2> QED  BY <1>1, <2>3, <2>4
<1>2. CASE RecoveryStep
  <2>1. ASSUME NEW image, NEW s, NEW to, NEW from, NEW mode, NEW settled,
               CommitRecovery(image, s, to, from, mode, settled)
        PROVE  FALSE
    BY <2>1 DEF CommitRecovery
  <2> QED  BY <1>2, <2>1 DEF RecoveryStep, EstablishPlacement, RequestFailoverOnEvidence,
              RefuseAmbiguous, RequestFailoverByOperator, ResumeRecovery, ResolveAlive,
              ResolveConfirmed, RequestFailback, CommitFailover, Commit
<1>3. CASE ExecutorStep
  BY <1>3 DEF ExecutorStep, AcknowledgeIntent, ReportNegative, ReportActivationAccepted,
              ReportDeactivationAcknowledged, ReportStateTransferComplete,
              ReportServiceHealthy, RecordEffect
<1>4. CASE Close \/ UNCHANGED vars
  BY <1>4 DEF Close, vars
<1> QED  BY <1>1, <1>2, <1>3, <1>4 DEF Next

(* RestartConservative: what the coordinator recovers, compacted or         *)
(* replayed, makes no target eligible and justifies no recovery.            *)
THEOREM RestartTrustsNothing == Spec => RestartConservative
<1>1. Inv /\ Named /\ [Next]_vars => [NothingCarriedOver]_vars
  <2> SUFFICES ASSUME Inv, Named, [Next]_vars, epoch' # epoch, NEW s \in Service
               PROVE  /\ \A t \in Target : ~Eligible(s, t)'
                      /\ \A e \in EvidenceId : ~EvidenceCurrent(s, e)'
    BY DEF NothingCarriedOver
  <2>1. Open
    BY EpochFrame
  <2>2. ASSUME NEW e \in EvidenceId
        PROVE  ~EvidenceCurrent(s, e)'
    <3>1. failures'[e].epoch < epoch'
      BY <2>1, OpenNamed
    <3>2. epoch' \in Nat
      BY <2>1 DEF Open, Inv, TypeOK, Image
    <3>3. failures'[e].epoch # epoch'
      BY <3>1, <3>2
    <3> QED  BY <3>3 DEF EvidenceCurrent
  <2>3. ASSUME NEW t \in Target
        PROVE  ~Eligible(s, t)'
    <3> DEFINE slot == capabilities[t]
               aged == [slot EXCEPT !.requires_reconfirmation = TRUE]
    <3>1. capabilities'[t] = IF slot = NoSlot THEN NoSlot ELSE aged
      BY <2>1 DEF Open
    <3>2. slot \in CapabilitySlot \cup {NoSlot}
      BY DEF Inv, TypeOK, MemoryTypeOK
    <3> HIDE DEF slot
    <3>3. slot # NoSlot => aged.requires_reconfirmation
      BY <3>2 DEF CapabilitySlot
    <3> HIDE DEF aged
    <3>4. capabilities'[t] = NoSlot \/ capabilities'[t].requires_reconfirmation
      BY <3>1, <3>3
    <3> QED  BY <3>4 DEF Eligible, EvaluateCandidate, CurrentSlot
  <2> QED  BY <2>2, <2>3
<1> QED  BY <1>1, NamedInvariance, PTL DEF Spec, RestartConservative

-----------------------------------------------------------------------------
(* Where a service came from.                                               *)

OriginsDurable == \A s \in Service : OriginDurable(services[s], disk.services[s])

SameOrigin(a, b) ==
  /\ a.pre_failover_target = b.pre_failover_target
  /\ a.pre_failover_capability = b.pre_failover_capability
  /\ a.failover_recorded = b.failover_recorded

(* A runtime that is recovered as it is.                                    *)
LEMMA OwnOrigin ==
  ASSUME NEW rt
  PROVE  OriginDurable(rt, rt)
  BY DEF OriginDurable

(* Whether or not the journal is compacted.                                 *)
LEMMA PersistOrigins ==
  ASSUME NEW journaled, Persist(journaled),
         \A r \in Service : OriginDurable(services'[r], journaled.services[r])
  PROVE  OriginsDurable'
<1>1. CASE disk' = journaled
  BY <1>1 DEF OriginsDurable
<1>2. CASE disk' = Snapshot(services)'
  <2>1. disk'.services = services'
    BY <1>2 DEF Snapshot
  <2> QED  BY <2>1, OwnOrigin DEF OriginsDurable
<1> QED  BY <1>1, <1>2 DEF Persist

(* An operation that rewrites runtimes without touching their origins.      *)
LEMMA KeptOrigins ==
  ASSUME OriginsDurable, NEW image, image.services = disk.services,
         \A r \in Service : SameOrigin(services'[r], services[r])
  PROVE  \A r \in Service : OriginDurable(services'[r], image.services[r])
  BY DEF OriginsDurable, OriginDurable, SameOrigin

(* An operation that journals the runtime it leaves in memory.              *)
LEMMA JournaledOrigins ==
  ASSUME Inv, OriginsDurable, NEW s \in Service, NEW rt,
         services' = [services EXCEPT ![s] = rt], Persist(JournalRuntime(disk, s, rt))
  PROVE  OriginsDurable'
<1> DEFINE journaled == JournalRuntime(disk, s, rt)
<1>1. /\ services \in [Service -> ServiceRuntime]
      /\ disk.services \in [Service -> ServiceRuntime]
      /\ journaled.services = [disk.services EXCEPT ![s] = rt]
  BY DEF JournalRuntime, Inv, TypeOK, MemoryTypeOK, Image
<1> HIDE DEF journaled
<1>2. \A r \in Service :
        /\ services'[r] = IF r = s THEN rt ELSE services[r]
        /\ journaled.services[r] = IF r = s THEN rt ELSE disk.services[r]
  BY <1>1
<1>3. \A r \in Service : OriginDurable(services'[r], journaled.services[r])
  BY <1>2, OwnOrigin DEF OriginsDurable
<1> QED  BY <1>3, PersistOrigins DEF journaled

(* A commit whose caller leaves `settled' in memory.                        *)
LEMMA CommitOrigins ==
  ASSUME Inv, OriginsDurable, NEW image \in Image, image.services = disk.services,
         NEW s \in Service, NEW to, NEW from, NEW mode, NEW settled,
         OriginDurable(settled, CommittedRuntime(s, to, from, mode)),
         CommitRecovery(image, s, to, from, mode, settled)
  PROVE  OriginsDurable'
<1> DEFINE next == CommittedRuntime(s, to, from, mode)
           committed == [services EXCEPT ![s] = next]
<1>1. /\ services' = [services EXCEPT ![s] = settled]
      /\ \/ disk' = [Snapshot(services)' EXCEPT !.services = committed]
         \/ disk' = JournalAttempt(image, s, next)
  BY DEF CommitRecovery
<1>2. /\ services \in [Service -> ServiceRuntime]
      /\ image.services \in [Service -> ServiceRuntime]
  BY DEF Inv, TypeOK, MemoryTypeOK, Image
<1>3. OriginDurable(settled, next)
  OBVIOUS
<1> HIDE DEF next
<1>4. CASE disk' = [Snapshot(services)' EXCEPT !.services = committed]
  <2>1. disk'.services = committed
    BY <1>4 DEF Snapshot
  <2>2. \A r \in Service :
          /\ disk'.services[r] = IF r = s THEN next ELSE services[r]
          /\ services'[r] = IF r = s THEN settled ELSE services[r]
    BY <1>1, <1>2, <2>1
  <2> QED  BY <1>3, <2>2, OwnOrigin DEF OriginsDurable
<1>5. CASE disk' = JournalAttempt(image, s, next)
  <2>1. disk'.services = [image.services EXCEPT ![s] = next]
    BY <1>5 DEF JournalAttempt, JournalRuntime, Image
  <2>2. \A r \in Service :
          /\ disk'.services[r] = IF r = s THEN next ELSE disk.services[r]
          /\ services'[r] = IF r = s THEN settled ELSE services[r]
    BY <1>1, <1>2, <2>1
  <2> QED  BY <1>3, <2>2 DEF OriginsDurable
<1> QED  BY <1>1, <1>4, <1>5

(* What a failback forgets in memory and leaves in the record is an older   *)
(* incarnation of the target it returns to.                                 *)
LEMMA FailbackOrigin ==
  ASSUME Inv, NEW s \in Service, RequestFailback(s)
  PROVE  LET next == CommittedRuntime(s, Ref(services[s].pre_failover_target.target),
                                      services[s].active, "Failover")
         IN  OriginDurable([next EXCEPT !.pre_failover_target = NoRef,
                                        !.failover_recorded = FALSE], next)
<1> DEFINE origin == services[s].pre_failover_target
           to == Ref(origin.target)
           old == InvalidateVerification(services[s])
           next == CommittedRuntime(s, to, services[s].active, "Failover")
           left == [next EXCEPT !.pre_failover_target = NoRef, !.failover_recorded = FALSE]
<1>1. /\ origin # NoRef /\ targets[origin.target] > origin.inc
      /\ services[s] \in ServiceRuntime
  BY DEF RequestFailback, Inv, TypeOK, MemoryTypeOK
<1>2. old \in ServiceRuntime /\ old.pre_failover_target = origin
  BY <1>1, InvalidateVerificationFacts DEF InvalidateVerification, ServiceRuntime
<1>3. to.target = origin.target /\ to.inc = targets[origin.target]
  BY DEF Ref
<1>4. origin \in TargetRef /\ targets[origin.target] \in Nat /\ origin.inc \in Nat
  <2>1. origin \in TargetRef
    BY <1>1 DEF ServiceRuntime, OptionalRef
  <2> QED  BY <2>1 DEF TargetRef, Inv, TypeOK, MemoryTypeOK
<1> HIDE DEF origin, to
<1>5. /\ next.pre_failover_target = origin
      /\ next.failover_recorded
      /\ next.active = to
  <2> HIDE DEF old
  <2> QED  BY <1>1, <1>2 DEF CommittedRuntime, ServiceRuntime, old
<1>6. next \in ServiceRuntime
  <2>1. /\ to \in AdoptedRef /\ services[s].active \in OptionalRef
    <3>1. origin.target \in Target /\ targets[origin.target] # 0
      BY <1>1, <1>4 DEF TargetRef
    <3> QED  BY <1>1, <3>1, RegisteredIsAdopted DEF to, Ref, ServiceRuntime
  <2>2. to \in TargetRef /\ "Failover" \in CommitMode /\ "Failover" # "Resume"
    BY <2>1, AdoptedIsRef DEF CommitMode
  <2> QED  BY <2>1, <2>2, CommittedRuntimeFacts DEF Inv
<1> HIDE DEF next
<1>7. /\ left.pre_failover_target = NoRef /\ ~left.failover_recorded
      /\ left.pre_failover_capability = next.pre_failover_capability
  BY <1>6 DEF ServiceRuntime
<1> HIDE DEF left
<1>8. next.pre_failover_target.inc < next.active.inc
  BY <1>1, <1>3, <1>4, <1>5
<1>9. OriginDurable(left, next)
  BY <1>3, <1>5, <1>7, <1>8 DEF OriginDurable
<1> QED  BY <1>9 DEF left, next, to, origin

(* Registries and evidence.                                                 *)
LEMMA ReportOrigins ==
  ASSUME Inv, OriginsDurable, RegistryStep \/ EvidenceStep
  PROVE  OriginsDurable'
<1>1. ASSUME NEW s \in Service, RegisterService(s)
      PROVE  OriginsDurable'
  BY <1>1, JournaledOrigins DEF RegisterService
<1>2. ASSUME NEW s \in Service, WithdrawService(s)
      PROVE  OriginsDurable'
  <2> DEFINE old == services[s]
             was == disk.services[s]
             rt == [old EXCEPT !.lifecycle = "Withdrawn", !.recovery = "None",
                               !.continuity = "None"]
             is == [was EXCEPT !.lifecycle = "Withdrawn"]
             journaled == [disk EXCEPT !.services[s].lifecycle = "Withdrawn"]
  <2>1. /\ old \in ServiceRuntime /\ was \in ServiceRuntime
        /\ services \in [Service -> ServiceRuntime]
        /\ disk.services \in [Service -> ServiceRuntime] /\ disk \in Image
    BY DEF Inv, TypeOK, MemoryTypeOK, Image
  <2>2. services' = [services EXCEPT ![s] = rt] /\ Persist(journaled)
    BY <1>2, <2>1 DEF WithdrawService
  <2>3. journaled.services = [disk.services EXCEPT ![s] = is]
    BY <2>1 DEF Image
  <2> HIDE DEF journaled
  <2>4. \A r \in Service :
          /\ services'[r] = IF r = s THEN rt ELSE services[r]
          /\ journaled.services[r] = IF r = s THEN is ELSE disk.services[r]
    BY <2>1, <2>2, <2>3
  <2>5. OriginDurable(old, was)
    BY DEF OriginsDurable
  <2> HIDE DEF old, was
  <2>6. SameOrigin(rt, old) /\ SameOrigin(is, was) /\ is.active = was.active
    BY <2>1 DEF ServiceRuntime, SameOrigin
  <2> HIDE DEF rt, is
  <2>7. OriginDurable(rt, is)
    BY <2>5, <2>6 DEF OriginDurable, SameOrigin
  <2>8. \A r \in Service : OriginDurable(services'[r], journaled.services[r])
    BY <2>4, <2>7 DEF OriginsDurable
  <2> QED  BY <2>2, <2>8, PersistOrigins
<1>3. ASSUME \/ \E t \in Target : \E inc \in Incarnations[t] : RegisterTarget(t, inc)
             \/ \E t \in Retirable : RetireTarget(t)
             \/ \E g \in 1 .. MaxTopology : SetTopologyGeneration(g)
             \/ \E p \in Policies : SetPolicy(p)
             \/ \E t \in Target, g \in 1 .. MaxCapability, c \in Coverages :
                  IngestCapability(t, g, c)
      PROVE  OriginsDurable'
  <2>1. services' = services /\ Persist(disk)
    BY <1>3 DEF RegisterTarget, RetireTarget, SetTopologyGeneration, SetPolicy,
                IngestCapability, authority
  <2> QED  BY <2>1, PersistOrigins DEF OriginsDurable
<1>4. ASSUME NEW s \in Service, NEW t \in Target, NEW inc \in Incarnations[t],
             NEW e \in EvidenceId, NEW a \in Ambiguities,
             IngestFailure(s, [target |-> t, inc |-> inc], e, a)
      PROVE  OriginsDurable'
  <2> DEFINE observed == [service |-> s, target |-> [target |-> t, inc |-> inc],
                          epoch |-> epoch, topology |-> topology, ambiguous |-> a]
             old == services[s]
             rt == AwaitOperator(old, e)
             journaled == JournalFailure(disk, e, observed)
  <2>1. /\ old \in ServiceRuntime /\ services \in [Service -> ServiceRuntime]
        /\ disk \in Image
    BY DEF Inv, TypeOK, MemoryTypeOK
  <2>2. /\ services' = IF a THEN [services EXCEPT ![s] = rt] ELSE services
        /\ Persist(journaled)
    BY <1>4 DEF IngestFailure
  <2>3. journaled.services = disk.services
    BY <2>1 DEF JournalFailure, Image
  <2> HIDE DEF journaled, old
  <2>4. SameOrigin(rt, old)
    BY <2>1 DEF AwaitOperator, InvalidateVerification, ServiceRuntime, SameOrigin
  <2> HIDE DEF rt
  <2>5. \A r \in Service : SameOrigin(services'[r], services[r])
    BY <2>1, <2>2, <2>4 DEF SameOrigin, old
  <2> QED  BY <2>2, <2>3, <2>5, KeptOrigins, PersistOrigins
<1> QED  BY <1>1, <1>2, <1>3, <1>4 DEF RegistryStep, EvidenceStep

(* Recovery decisions.                                                      *)
LEMMA DecisionOrigins ==
  ASSUME Inv, OriginsDurable, RecoveryStep
  PROVE  OriginsDurable'
<1>1. PICK s \in Service :
        \/ \E t \in Target : EstablishPlacement(s, t)
        \/ \E e \in EvidenceId, a \in BOOLEAN : RequestFailoverOnEvidence(s, e, a)
        \/ \E e \in EvidenceId : RefuseAmbiguous(s, e)
        \/ RequestFailoverByOperator(s)
        \/ ResumeRecovery(s)
        \/ ResolveAlive(s)
        \/ ResolveConfirmed(s)
        \/ RequestFailback(s)
  BY DEF RecoveryStep
<1>2. /\ services[s] \in ServiceRuntime /\ services \in [Service -> ServiceRuntime]
      /\ disk \in Image /\ failures \in FailureMap
  BY DEF Inv, TypeOK, MemoryTypeOK, FailureMap
<1>3. ASSUME NEW image \in Image, image.services = disk.services,
             NEW to, NEW from, NEW mode, Commit(image, s, to, from, mode)
      PROVE  OriginsDurable'
  BY <1>3, OwnOrigin, CommitOrigins DEF Commit
<1>4. CASE \/ \E t \in Target : EstablishPlacement(s, t)
           \/ \E e \in EvidenceId, a \in BOOLEAN : RequestFailoverOnEvidence(s, e, a)
           \/ RequestFailoverByOperator(s)
           \/ ResumeRecovery(s)
  <2>1. PICK to, from, mode : Commit(disk, s, to, from, mode)
    BY <1>4 DEF EstablishPlacement, RequestFailoverOnEvidence,
                RequestFailoverByOperator, CommitFailover, ResumeRecovery
  <2> QED  BY <1>2, <1>3, <2>1
<1>5. ASSUME NEW e \in EvidenceId, RefuseAmbiguous(s, e)
      PROVE  OriginsDurable'
  <2> DEFINE old == services[s]
             rt == AwaitOperator(old, e)
  <2>1. services' = [services EXCEPT ![s] = rt] /\ disk' = disk
    BY <1>5 DEF RefuseAmbiguous
  <2>2. SameOrigin(rt, old)
    BY <1>2 DEF AwaitOperator, InvalidateVerification, ServiceRuntime, SameOrigin
  <2> HIDE DEF rt
  <2>3. \A r \in Service : SameOrigin(services'[r], services[r])
    BY <1>2, <2>1, <2>2 DEF SameOrigin
  <2> QED  BY <2>1, <2>3, KeptOrigins DEF OriginsDurable
<1>6. CASE ResolveAlive(s)
  BY <1>6, JournaledOrigins DEF ResolveAlive
<1>7. CASE RequestFailback(s)
  <2> DEFINE to == Ref(services[s].pre_failover_target.target)
             next == CommittedRuntime(s, to, services[s].active, "Failover")
             left == [next EXCEPT !.pre_failover_target = NoRef, !.failover_recorded = FALSE]
  <2>1. CommitRecovery(disk, s, to, services[s].active, "Failover", left)
    BY <1>7 DEF RequestFailback
  <2>2. OriginDurable(left, next)
    BY <1>7, FailbackOrigin
  <2> HIDE DEF left, to
  <2> QED  BY <1>2, <2>1, <2>2, CommitOrigins
<1>8. CASE ResolveConfirmed(s)
  <2> DEFINE e == services[s].pending_ambiguity
             confirmed == [failures[e] EXCEPT !.ambiguous = FALSE]
             promoted == JournalFailure(disk, e, confirmed)
             old == services[s]
             rt == [old EXCEPT !.ambiguity_pending = FALSE, !.pending_ambiguity = 0]
  <2>1. \/ CommitFailover(promoted, s)
        \/ /\ services' = [services EXCEPT ![s].ambiguity_pending = FALSE,
                                           ![s].pending_ambiguity = 0]
           /\ disk' = promoted
    BY <1>8 DEF ResolveConfirmed
  <2>2. promoted \in Image /\ promoted.services = disk.services
    <3>1. e \in EvidenceId /\ failures[e] # NoEvidence
      BY <1>8 DEF ResolveConfirmed, Retained, RetainedIn
    <3>2. confirmed \in FailureEvidence
      <4>1. failures[e] \in FailureEvidence
        BY <1>2, <3>1 DEF FailureMap
      <4> QED  BY <4>1 DEF FailureEvidence
    <3> HIDE DEF confirmed, e
    <3> QED  BY <1>2, <3>1, <3>2, JournalFailureType
  <2> HIDE DEF promoted
  <2>3. CASE CommitFailover(promoted, s)
    BY <1>3, <2>2, <2>3 DEF CommitFailover
  <2>4. CASE /\ services' = [services EXCEPT ![s].ambiguity_pending = FALSE,
                                             ![s].pending_ambiguity = 0]
             /\ disk' = promoted
    <3>1. services' = [services EXCEPT ![s] = rt]
      BY <1>2, <2>4
    <3> HIDE DEF old
    <3>2. SameOrigin(rt, old)
      BY <1>2 DEF ServiceRuntime, SameOrigin, old
    <3> HIDE DEF rt
    <3>3. \A r \in Service : SameOrigin(services'[r], services[r])
      BY <1>2, <3>1, <3>2 DEF SameOrigin, old
    <3> QED  BY <2>2, <2>4, <3>3, KeptOrigins DEF OriginsDurable
  <2> QED  BY <2>1, <2>3, <2>4
<1> QED  BY <1>1, <1>4, <1>5, <1>6, <1>7, <1>8

(* Executor feedback journals the runtime it leaves.                        *)
LEMMA FeedbackOrigins ==
  ASSUME Inv, OriginsDurable, ExecutorStep
  PROVE  OriginsDurable'
<1>1. ASSUME NEW s \in Service, NEW rt, RecordEffect(s, rt)
      PROVE  OriginsDurable'
  BY <1>1, JournaledOrigins DEF RecordEffect
<1>2. ASSUME NEW i \in intents, NEW accepted \in BOOLEAN, AcknowledgeIntent(i, accepted)
      PROVE  OriginsDurable'
  <2>1. PICK s \in Service : \E rt : RecordEffect(s, rt)
    BY <1>2 DEF AcknowledgeIntent, AckedService, RecordEffect
  <2> QED  BY <1>1, <2>1
<1> QED  BY <1>1, <1>2 DEF ExecutorStep, ReportNegative, ReportActivationAccepted,
            ReportDeactivationAcknowledged, ReportStateTransferComplete,
            ReportServiceHealthy

(* A restart reads the origins that were recovered.                         *)
LEMMA OpenOrigins ==
  ASSUME Inv, Open
  PROVE  OriginsDurable'
<1> DEFINE journaled == [disk EXCEPT !.epoch = epoch']
<1>1. disk \in Image /\ disk.services \in [Service -> ServiceRuntime]
  BY DEF Inv, TypeOK, Image
<1>2. /\ services' = [s \in Service |-> Downgraded(disk.services[s])]
      /\ Persist(journaled)
  BY DEF Open
<1>3. journaled.services = disk.services
  BY <1>1 DEF Image
<1> HIDE DEF journaled
<1>4. ASSUME NEW s \in Service
      PROVE  OriginDurable(services'[s], journaled.services[s])
  <2> DEFINE rt == disk.services[s]
  <2>1. rt \in ServiceRuntime
    BY <1>1
  <2> HIDE DEF rt
  <2>2. SameOrigin(Downgraded(rt), rt)
    BY <2>1 DEF Downgraded, InvalidateVerification, PushedBack, ServiceRuntime, SameOrigin
  <2>3. OriginDurable(Downgraded(rt), rt)
    BY <2>2 DEF OriginDurable, SameOrigin
  <2> QED  BY <1>2, <1>3, <2>3 DEF rt
<1> QED  BY <1>2, <1>4, PersistOrigins

(* AuthorityDurable: whenever the process stops, what it would recover is   *)
(* the authority it had, and the origin of a service is the one it had or,  *)
(* after a failback, one that is behind it.                                 *)
THEOREM AuthorityIsDurable == Spec => []AuthorityDurable
<1>1. Init => Inv /\ OriginsDurable
  BY InitInv, OwnOrigin DEF Init, Snapshot, OriginsDurable
<1>2. Inv /\ OriginsDurable /\ [Next]_vars => (Inv /\ OriginsDurable)'
  <2> SUFFICES ASSUME Inv, OriginsDurable, [Next]_vars
               PROVE  OriginsDurable'
    BY NextInv
  <2>1. CASE UNCHANGED vars \/ Close
    <3>1. UNCHANGED <<services, disk>>
      BY <2>1 DEF Close, vars, authority
    <3> QED  BY <3>1 DEF OriginsDurable
  <2> QED  BY <2>1, ReportOrigins, DecisionOrigins, FeedbackOrigins, OpenOrigins DEF Next
<1>3. Inv /\ OriginsDurable => AuthorityDurable
  BY DEF Inv, OriginsDurable, AuthorityDurable
<1> QED  BY <1>1, <1>2, <1>3, PTL DEF Spec
=============================================================================
