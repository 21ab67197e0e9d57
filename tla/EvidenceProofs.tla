--------------------------- MODULE EvidenceProofs ---------------------------
(***************************************************************************)
(* Reports take effect at most once and in the order they were sent, and   *)
(* no dependency counts as met without one that says so, for every graph   *)
(* of services, every set of reporters and every pattern of delays,        *)
(* duplicates and restarts.                                                *)
(***************************************************************************)
EXTENDS Evidence, FiniteSetTheorems, TLAPS

(* What reporters have sent is finite, stamped, and not from the future.    *)
ReportsSound ==
  /\ epoch \in Nat
  /\ IsFiniteSet(sent)
  /\ \A m \in sent : /\ m.source \in Source /\ m.sequence \in Nat
                     /\ m.epoch \in Nat /\ m.epoch <= epoch
  /\ applied \subseteq sent

(* The watermarks in memory and on disk are sequence numbers, and the       *)
(* report that waits for an operator, if there is one, was applied.         *)
WatermarksSound ==
  /\ watermarks \in [Source -> Nat]
  /\ pending \in applied \cup {NoReport}
  /\ disk = [watermarks |-> disk.watermarks, pending |-> disk.pending,
             decodable |-> disk.decodable]
  /\ disk.watermarks \in [Source -> Nat]
  /\ disk.pending \in applied \cup {NoReport}

(* Within an epoch a watermark is never below what was applied in it.  An   *)
(* earlier epoch may have applied more: that is what a restart may forget.  *)
WatermarksCover ==
  \A m \in applied : m.epoch = epoch => m.sequence <= watermarks[m.source]

EvidenceInv == ReportsSound /\ WatermarksSound /\ WatermarksCover

-----------------------------------------------------------------------------
(* A report added to a finite set of sound ones leaves it finite.           *)
LEMMA LastSentNat ==
  ASSUME IsFiniteSet(sent), NEW q
  PROVE  LastSent(q) \in Nat
<1>1. IsFiniteSet({m \in sent : m.source = q})
  BY FS_Subset
<1> QED BY <1>1, FS_CardinalityType DEF LastSent

(* Whatever Persist writes keeps the disk well formed, if the journaled     *)
(* alternative and the memory of that moment are.                           *)
LEMMA PersistSound ==
  ASSUME NEW STATE journaled, Persist(journaled),
         watermarks' \in [Source -> Nat], pending' \in applied' \cup {NoReport},
         journaled = [watermarks |-> journaled.watermarks,
                      pending |-> journaled.pending,
                      decodable |-> journaled.decodable],
         journaled.watermarks \in [Source -> Nat],
         journaled.pending \in applied' \cup {NoReport}
  PROVE  WatermarksSound'
<1> DEFINE fits == \A s \in Service : Cardinality(Bucket(s)') <= MaxPerService
           compacted == [watermarks |-> watermarks', pending |-> pending',
                         decodable |-> fits]
<1>1. disk' = compacted \/ disk' = journaled
  BY DEF Persist
<1> HIDE DEF fits
<1>2. CASE disk' = compacted
  BY <1>2 DEF WatermarksSound
<1>3. CASE disk' = journaled
  BY <1>3 DEF WatermarksSound
<1> QED BY <1>1, <1>2, <1>3

(* The disk of an unrotated step, with one watermark replaced.              *)
LEMMA JournaledWatermark ==
  ASSUME WatermarksSound, NEW q \in Source, NEW n \in Nat
  PROVE  LET journaled == [disk EXCEPT !.watermarks[q] = n] IN
         /\ journaled = [watermarks |-> journaled.watermarks,
                         pending |-> journaled.pending,
                         decodable |-> journaled.decodable]
         /\ journaled.watermarks \in [Source -> Nat]
         /\ journaled.pending = disk.pending
BY DEF WatermarksSound

(* An accepted report raises its watermark above everything this epoch has  *)
(* applied from the same source.                                            *)
LEMMA AcceptedCovered ==
  ASSUME ReportsSound, WatermarksSound, WatermarksCover,
         NEW m \in sent, Acceptable(m),
         watermarks' = [watermarks EXCEPT ![m.source] = m.sequence],
         applied' = applied \cup {m}, UNCHANGED <<epoch, sent>>
  PROVE  ReportsSound' /\ WatermarksCover' /\ watermarks' \in [Source -> Nat]
<1>1. m.source \in Source /\ m.sequence \in Nat
  BY DEF ReportsSound
<1>2. ReportsSound'
  BY DEF ReportsSound
<1>3. watermarks' \in [Source -> Nat]
  BY <1>1 DEF WatermarksSound
<1>4. ASSUME NEW k \in applied', k.epoch = epoch'
      PROVE  k.sequence <= watermarks'[k.source]
  <2>1. k \in sent /\ k.source \in Source /\ k.sequence \in Nat
    BY DEF ReportsSound
  <2>2. CASE k = m
    BY <1>1, <2>2 DEF WatermarksSound
  <2>3. CASE k \in applied
    <3>1. k.sequence <= watermarks[k.source]
      BY <1>4, <2>3 DEF WatermarksCover
    <3>2. watermarks[k.source] \in Nat /\ watermarks[m.source] \in Nat
      BY <1>1, <2>1 DEF WatermarksSound
    <3>3. m.sequence > watermarks[m.source]
      BY DEF Acceptable
    <3>4. watermarks'[k.source] = IF k.source = m.source THEN m.sequence
                                  ELSE watermarks[k.source]
      BY <1>1, <2>1 DEF WatermarksSound
    <3> QED BY <1>1, <2>1, <3>1, <3>2, <3>3, <3>4
  <2> QED BY <2>2, <2>3
<1> QED BY <1>2, <1>3, <1>4 DEF WatermarksCover

-----------------------------------------------------------------------------
(* The invariant holds initially.                                           *)
LEMMA EvidenceInit == Init => EvidenceInv
<1> SUFFICES ASSUME Init PROVE EvidenceInv
  OBVIOUS
<1>1. ReportsSound
  BY FS_EmptySet DEF Init, ReportsSound
<1>2. WatermarksSound
  BY DEF Init, WatermarksSound
<1>3. WatermarksCover
  BY DEF Init, WatermarksCover
<1> QED BY <1>1, <1>2, <1>3 DEF EvidenceInv

(* Every step preserves it.                                                 *)
LEMMA EvidenceStep == EvidenceInv /\ [Next]_vars => EvidenceInv'
<1> SUFFICES ASSUME EvidenceInv, [Next]_vars PROVE EvidenceInv'
  OBVIOUS
<1> USE DEF EvidenceInv
<1>1. ASSUME NEW q \in Source, NEW p, NEW h, Report(q, p, h)
      PROVE  EvidenceInv'
  <2> DEFINE report == [source |-> q, sequence |-> LastSent(q) + 1, about |-> p,
                        health |-> h, epoch |-> epoch, topology |-> topology]
  <2>1. LastSent(q) \in Nat
    BY LastSentNat DEF ReportsSound
  <2>2. sent' = sent \cup {report} /\ UNCHANGED <<epoch, applied>>
    BY <1>1 DEF Report
  <2>3. IsFiniteSet(sent')
    BY <2>2, FS_AddElement DEF ReportsSound
  <2>4. report.source \in Source /\ report.sequence \in Nat /\ report.epoch = epoch
    BY <2>1
  <2>5. ReportsSound'
    BY <2>2, <2>3, <2>4 DEF ReportsSound
  <2>6. WatermarksSound' /\ WatermarksCover'
    BY <1>1 DEF Report, WatermarksSound, WatermarksCover
  <2> QED BY <2>5, <2>6
<1>2. ASSUME NEW s \in Service, RegisterService(s)
      PROVE  EvidenceInv'
  <2>1. ReportsSound' /\ WatermarksCover'
    BY <1>2 DEF RegisterService, ReportsSound, WatermarksCover
  <2>2. WatermarksSound'
    BY <1>2, PersistSound DEF RegisterService, WatermarksSound
  <2> QED BY <2>1, <2>2
<1>3. CASE SetTopologyGeneration
  <2>1. ReportsSound' /\ WatermarksCover'
    BY <1>3 DEF SetTopologyGeneration, ReportsSound, WatermarksCover
  <2>2. WatermarksSound'
    BY <1>3, PersistSound DEF SetTopologyGeneration, WatermarksSound
  <2> QED BY <2>1, <2>2
<1>4. ASSUME NEW m \in sent, IngestDependency(m)
      PROVE  EvidenceInv'
  <2>1. m.source \in Source /\ m.sequence \in Nat
    BY DEF ReportsSound
  <2>2. ReportsSound' /\ WatermarksCover' /\ watermarks' \in [Source -> Nat]
    BY <1>4, AcceptedCovered DEF IngestDependency
  <2>3. WatermarksSound'
    BY <1>4, <2>1, <2>2, JournaledWatermark, PersistSound
       DEF IngestDependency, WatermarksSound
  <2> QED BY <2>2, <2>3
<1>5. ASSUME NEW m \in sent, IngestFailure(m)
      PROVE  EvidenceInv'
  <2>1. m.source \in Source /\ m.sequence \in Nat
    BY DEF ReportsSound
  <2>2. ReportsSound' /\ WatermarksCover' /\ watermarks' \in [Source -> Nat]
    BY <1>5, AcceptedCovered DEF IngestFailure
  <2>3. WatermarksSound'
    BY <1>5, <2>1, <2>2, JournaledWatermark, PersistSound
       DEF IngestFailure, WatermarksSound
  <2> QED BY <2>2, <2>3
<1>6. CASE ResolveConfirmed
  <2>1. ReportsSound' /\ WatermarksCover'
    BY <1>6 DEF ResolveConfirmed, ReportsSound, WatermarksCover
  <2>2. pending.source \in Source /\ pending.sequence \in Nat
    BY <1>6 DEF ResolveConfirmed, ReportsSound, WatermarksSound
  <2>3. WatermarksSound'
    BY <1>6, <2>2, JournaledWatermark, PersistSound
       DEF ResolveConfirmed, WatermarksSound
  <2> QED BY <2>1, <2>3
<1>7. CASE Close
  BY <1>7 DEF Close, ReportsSound, WatermarksSound, WatermarksCover
<1>8. CASE Open
  <2>1. ReportsSound'
    BY <1>8 DEF Open, ReportsSound
  <2>2. WatermarksCover'
    BY <1>8 DEF Open, ReportsSound, WatermarksCover
  <2>3. WatermarksSound'
    BY <1>8, PersistSound DEF Open, WatermarksSound
  <2> QED BY <2>1, <2>2, <2>3
<1>9. CASE UNCHANGED vars
  BY <1>9 DEF vars, ReportsSound, WatermarksSound, WatermarksCover
<1> QED BY <1>1, <1>2, <1>3, <1>4, <1>5, <1>6, <1>7, <1>8, <1>9 DEF Next

(* do_ingest_failure and do_ingest_dependency never apply a report a second *)
(* time, although a confirmed ambiguity sets the replayed watermark back.   *)
THEOREM ReportsAppliedOnce == Spec => []AppliedOnce
<1>1. EvidenceInv => AppliedOnce
  <2> SUFFICES ASSUME EvidenceInv, NEW m \in applied, Acceptable(m)
               PROVE  FALSE
    BY DEF AppliedOnce
  <2>1. m.source \in Source /\ m.sequence \in Nat
    BY DEF EvidenceInv, ReportsSound
  <2>2. watermarks[m.source] \in Nat
    BY <2>1 DEF EvidenceInv, WatermarksSound
  <2>3. m.sequence <= watermarks[m.source] /\ m.sequence > watermarks[m.source]
    BY DEF Acceptable, EvidenceInv, WatermarksCover
  <2> QED BY <2>1, <2>2, <2>3
<1> QED BY EvidenceInit, EvidenceStep, <1>1, PTL DEF Spec
-----------------------------------------------------------------------------
(* What a reporter has sent is numbered up to LastSent, and what it sent in *)
(* a later epoch has the higher number: the order the epoch hides from a    *)
(* watermark that a restart has set back.                                   *)
Numbered ==
  /\ \A m \in sent : /\ m.sequence <= LastSent(m.source)
                     /\ m.about \in Observed \cup {Failure}
                     /\ m.health \in Health
  /\ \A m, k \in sent :
       m.source = k.source /\ m.epoch < k.epoch => m.sequence < k.sequence

(* A slot is a record of an applied observation of the pair it is filed     *)
(* under, and none of its source about that pair is newer.                  *)
SlotsSound ==
  \A p \in DOMAIN dependencies :
    /\ p # Failure
    /\ dependencies[p] =
         [report |-> dependencies[p].report,
          requires_reconfirmation |-> dependencies[p].requires_reconfirmation]
    /\ dependencies[p].report \in applied /\ dependencies[p].report.about = p
    /\ \A m \in applied :
         m.about = p /\ m.source = dependencies[p].report.source =>
           m.sequence <= dependencies[p].report.sequence

(* The report a source sends is its next one: it is new, and later than     *)
(* everything the source sent before.                                       *)
LEMMA ReportNumbered ==
  ASSUME EvidenceInv, Numbered, NEW q \in Source,
         NEW p \in Observed \cup {Failure}, NEW h \in Health, Report(q, p, h)
  PROVE  Numbered'
<1> DEFINE report == [source |-> q, sequence |-> LastSent(q) + 1, about |-> p,
                      health |-> h, epoch |-> epoch, topology |-> topology]
           by(r) == {m \in sent : m.source = r}
<1>1. sent' = sent \cup {report} /\ epoch' = epoch
  BY DEF Report
<1>2. /\ report.source = q /\ report.sequence = LastSent(q) + 1 /\ report.about = p
      /\ report.health = h /\ report.epoch = epoch
  OBVIOUS
<1> HIDE DEF report
<1>3. ASSUME NEW r
      PROVE  IsFiniteSet(by(r)) /\ LastSent(r) = Cardinality(by(r)) /\ LastSent(r) \in Nat
  BY FS_Subset, FS_CardinalityType DEF EvidenceInv, ReportsSound, LastSent
<1>n. LastSent(q) \in Nat
  BY <1>3
<1>4. report \notin sent
  <2> SUFFICES ASSUME report \in sent PROVE FALSE
    OBVIOUS
  <2>1. report.sequence <= LastSent(report.source)
    BY DEF Numbered
  <2>2. LastSent(q) + 1 <= LastSent(q)
    BY <1>2, <2>1
  <2> QED BY <1>n, <2>2
<1>5. ASSUME NEW r
      PROVE  LastSent(r)' = IF r = q THEN LastSent(r) + 1 ELSE LastSent(r)
  <2>1. LastSent(r)' = Cardinality({m \in sent' : m.source = r})
    BY DEF LastSent
  <2>2. CASE r = q
    <3>1. {m \in sent' : m.source = r} = by(r) \cup {report}
      BY <1>1, <1>2, <2>2
    <3>2. report \notin by(r) /\ IsFiniteSet(by(r)) /\ LastSent(r) = Cardinality(by(r))
      BY <1>3, <1>4
    <3> HIDE DEF by
    <3>3. Cardinality(by(r) \cup {report}) = Cardinality(by(r)) + 1
      BY <3>2, FS_AddElement
    <3>4. LastSent(r)' = Cardinality(by(r) \cup {report})
      BY <2>1, <3>1, Zenon
    <3> QED BY <2>2, <3>2, <3>3, <3>4
  <2>3. CASE r # q
    <3>1. {m \in sent' : m.source = r} = by(r)
      BY <1>1, <1>2, <2>3
    <3>2. LastSent(r)' = Cardinality(by(r)) /\ LastSent(r) = Cardinality(by(r))
      BY <1>3, <2>1, <3>1, Zenon
    <3> QED BY <2>3, <3>2
  <2> QED BY <2>2, <2>3
<1>6. ASSUME NEW m \in sent'
      PROVE  /\ m.sequence <= LastSent(m.source)'
             /\ m.about \in Observed \cup {Failure} /\ m.health \in Health
  <2>1. CASE m = report
    <3>1. LastSent(q)' = LastSent(q) + 1
      BY <1>5
    <3> QED BY <1>n, <1>2, <2>1, <3>1
  <2>2. CASE m \in sent
    <3>1. /\ m.sequence <= LastSent(m.source) /\ m.sequence \in Nat
          /\ m.about \in Observed \cup {Failure} /\ m.health \in Health
      BY <2>2 DEF Numbered, EvidenceInv, ReportsSound
    <3>2. LastSent(m.source) \in Nat
      BY <1>3
    <3>3. \/ LastSent(m.source)' = LastSent(m.source) + 1
          \/ LastSent(m.source)' = LastSent(m.source)
      BY <1>5
    <3>4. m.sequence <= LastSent(m.source)'
      BY <3>1, <3>2, <3>3
    <3> QED BY <3>1, <3>4
  <2> QED BY <1>1, <2>1, <2>2
<1>7. ASSUME NEW m \in sent', NEW k \in sent', m.source = k.source, m.epoch < k.epoch
      PROVE  m.sequence < k.sequence
  <2>1. CASE m \in sent /\ k \in sent
    BY <1>7, <2>1 DEF Numbered
  <2>2. CASE m \in sent /\ k = report
    <3>1. m.sequence <= LastSent(q) /\ m.sequence \in Nat
      BY <1>2, <1>7, <2>2 DEF Numbered, EvidenceInv, ReportsSound
    <3> QED BY <1>n, <1>2, <2>2, <3>1
  <2>3. CASE m = report
    <3>1. k.epoch <= epoch /\ k.epoch \in Nat /\ epoch \in Nat
      BY <1>1, <1>2 DEF EvidenceInv, ReportsSound
    <3> QED BY <1>2, <1>7, <2>3, <3>1
  <2> QED BY <1>1, <2>1, <2>2, <2>3
<1> QED BY <1>6, <1>7 DEF Numbered

(* An acceptable report is newer than all that was applied from its source: *)
(* the watermark covers this epoch, the numbering the earlier ones.         *)
LEMMA AcceptedNewest ==
  ASSUME EvidenceInv, Numbered, NEW m \in sent, Acceptable(m),
         NEW k \in applied, k.source = m.source
  PROVE  k.sequence < m.sequence
<1>1. /\ k \in sent /\ m.source \in Source
      /\ m.sequence \in Nat /\ k.sequence \in Nat
      /\ k.epoch \in Nat /\ epoch \in Nat /\ k.epoch <= epoch
  BY DEF EvidenceInv, ReportsSound
<1>2. m.epoch = epoch /\ m.sequence > watermarks[m.source]
  BY DEF Acceptable
<1>3. CASE k.epoch = epoch
  <2>1. k.sequence <= watermarks[m.source] /\ watermarks[m.source] \in Nat
    BY <1>1, <1>3 DEF EvidenceInv, WatermarksCover, WatermarksSound
  <2> QED BY <1>1, <1>2, <2>1
<1>4. CASE k.epoch < epoch
  BY <1>1, <1>2, <1>4 DEF Numbered
<1> QED BY <1>1, <1>3, <1>4

(* An observation takes the slot of its pair, and no other.                 *)
LEMMA ObservationFiled ==
  ASSUME EvidenceInv, Numbered, SlotsSound, NEW m \in sent, IngestDependency(m)
  PROVE  SlotsSound'
<1> DEFINE slot == [report |-> m, requires_reconfirmation |-> FALSE]
<1>1. m.about \in Observed
  BY DEF IngestDependency, Numbered
<1>2. FiledUnder(m) = m.about
  <2>1. m.about \in Service \X Service
    BY <1>1, EvidenceAssumption
  <2> QED BY <2>1 DEF FiledUnder
<1>3. applied' = applied \cup {m} /\ m.about # Failure /\ Acceptable(m)
  BY DEF IngestDependency
<1>4. /\ DOMAIN dependencies' = DOMAIN dependencies \cup {m.about}
      /\ dependencies'[m.about] = slot
      /\ \A p \in DOMAIN dependencies \ {m.about} : dependencies'[p] = dependencies[p]
  <2>1. dependencies' = [p \in DOMAIN dependencies \cup {m.about} |->
                          IF p = m.about THEN slot ELSE dependencies[p]]
    BY <1>2 DEF IngestDependency
  <2> HIDE DEF slot
  <2> QED BY <2>1
<1>5. slot.report = m /\ slot.requires_reconfirmation = FALSE
  OBVIOUS
<1>6. ASSUME NEW k \in applied', k.source = m.source
      PROVE  k.sequence <= m.sequence
  <2>1. m.sequence \in Nat /\ \A j \in applied : j.sequence \in Nat
    BY DEF EvidenceInv, ReportsSound
  <2>2. CASE k = m
    BY <2>1, <2>2
  <2>3. CASE k \in applied
    BY <1>3, <1>6, <2>1, <2>3, AcceptedNewest
  <2> QED BY <1>3, <2>2, <2>3
<1>7. ASSUME NEW p \in DOMAIN dependencies'
      PROVE  /\ p # Failure
             /\ dependencies'[p] =
                  [report |-> dependencies'[p].report,
                   requires_reconfirmation |-> dependencies'[p].requires_reconfirmation]
             /\ dependencies'[p].report \in applied' /\ dependencies'[p].report.about = p
             /\ \A k \in applied' :
                  k.about = p /\ k.source = dependencies'[p].report.source =>
                    k.sequence <= dependencies'[p].report.sequence
  <2>1. CASE p = m.about
    BY <1>3, <1>4, <1>5, <1>6, <2>1
  <2>2. CASE p # m.about
    BY <1>3, <1>4, <2>2 DEF SlotsSound
  <2> QED BY <2>1, <2>2
<1> QED BY <1>7 DEF SlotsSound

(* Both hold initially and are preserved.                                   *)
LEMMA SlotsStep ==
  EvidenceInv /\ Numbered /\ SlotsSound /\ [Next]_vars => Numbered' /\ SlotsSound'
<1> SUFFICES ASSUME EvidenceInv, Numbered, SlotsSound, [Next]_vars
             PROVE  Numbered' /\ SlotsSound'
  OBVIOUS
<1>1. UNCHANGED sent => Numbered'
  BY DEF Numbered, LastSent
<1>2. UNCHANGED <<dependencies, applied>> => SlotsSound'
  BY DEF SlotsSound
<1>3. ASSUME NEW q \in Source, NEW p \in Observed \cup {Failure}, NEW h \in Health,
             Report(q, p, h)
      PROVE  Numbered' /\ SlotsSound'
  BY <1>2, <1>3, ReportNumbered DEF Report
<1>4. CASE \E s \in Service : RegisterService(s)
  BY <1>1, <1>2, <1>4 DEF RegisterService
<1>5. CASE SetTopologyGeneration \/ ResolveConfirmed \/ Close
  BY <1>1, <1>2, <1>5 DEF SetTopologyGeneration, ResolveConfirmed, Close
<1>6. ASSUME NEW m \in sent, IngestDependency(m)
      PROVE  Numbered' /\ SlotsSound'
  BY <1>1, <1>6, ObservationFiled DEF IngestDependency
<1>7. ASSUME NEW m \in sent, IngestFailure(m)
      PROVE  Numbered' /\ SlotsSound'
  <2>1. /\ applied' = applied \cup {m} /\ m.about = Failure
        /\ UNCHANGED <<dependencies, sent>>
    BY <1>7 DEF IngestFailure
  <2> QED BY <1>1, <2>1 DEF SlotsSound
<1>8. CASE Open
  <2>1. /\ applied' = applied /\ sent' = sent
        /\ dependencies' = [p \in DOMAIN dependencies |->
              [dependencies[p] EXCEPT !.requires_reconfirmation = TRUE]]
    BY <1>8 DEF Open
  <2>2. DOMAIN dependencies' = DOMAIN dependencies
    BY <2>1
  <2>3. ASSUME NEW p \in DOMAIN dependencies
        PROVE  /\ dependencies'[p].report = dependencies[p].report
               /\ dependencies'[p] =
                    [report |-> dependencies'[p].report,
                     requires_reconfirmation |-> dependencies'[p].requires_reconfirmation]
    <3>1. dependencies[p] =
            [report |-> dependencies[p].report,
             requires_reconfirmation |-> dependencies[p].requires_reconfirmation]
      BY DEF SlotsSound
    <3>2. dependencies'[p] = [dependencies[p] EXCEPT !.requires_reconfirmation = TRUE]
      BY <2>1
    <3> QED BY <3>1, <3>2
  <2> QED BY <1>1, <2>1, <2>2, <2>3 DEF SlotsSound
<1>9. CASE UNCHANGED vars
  BY <1>1, <1>2, <1>9 DEF vars
<1>10. Healths \subseteq Health /\ "Failed" \in Health
  BY EvidenceAssumption DEF Health
<1> QED
  BY <1>3, <1>4, <1>5, <1>6, <1>7, <1>8, <1>9, <1>10 DEF Next

(* The invariants of this module hold together.                             *)
THEOREM EvidenceInvariance == Spec => [](EvidenceInv /\ Numbered /\ SlotsSound)
<1>1. Init => Numbered /\ SlotsSound
  BY DEF Init, Numbered, SlotsSound
<1> QED BY EvidenceInit, EvidenceStep, SlotsStep, <1>1, PTL DEF Spec

(* ingest_dependency: a slot holds the newest applied observation of its    *)
(* source about its pair, whatever restarts did to the watermarks.          *)
THEOREM NewestStays == Spec => []NewestObservationKept
<1>1. SlotsSound => NewestObservationKept
  BY DEF SlotsSound, NewestObservationKept
<1> QED BY EvidenceInvariance, <1>1, PTL

(* An edge the traversal passes over as satisfied although it is hard was   *)
(* reported healthy, in this epoch and about this topology.                 *)
HardEdgesNeedEvidence ==
  \A u \in Service : \A spec \in Range(Specs[u]) :
    spec.hard /\ EdgeReason(u, spec) = "Ok" =>
      \E m \in applied :
        /\ m.about = <<u, spec.service>> /\ m.health = "Healthy"
        /\ m.epoch = epoch /\ m.topology = topology

(* qualify_dependencies: missing, stale or bad evidence never satisfies a   *)
(* hard dependency, at the edge where the traversal looks at it.            *)
THEOREM HardEdgesEarned == Spec => []HardEdgesNeedEvidence
<1>1. EvidenceInv /\ Numbered /\ SlotsSound => HardEdgesNeedEvidence
  <2> SUFFICES ASSUME EvidenceInv, Numbered, SlotsSound,
                      NEW u \in Service, NEW spec \in Range(Specs[u]),
                      spec.hard, EdgeReason(u, spec) = "Ok"
               PROVE  \E m \in applied :
                        /\ m.about = <<u, spec.service>> /\ m.health = "Healthy"
                        /\ m.epoch = epoch /\ m.topology = topology
    BY DEF HardEdgesNeedEvidence
  <2> DEFINE edge == <<u, spec.service>>
             report == dependencies[edge].report
  <2>1. edge \in DOMAIN dependencies /\ SlotCurrent(dependencies[edge])
    BY DEF EdgeReason
  <2>2. report.health \notin {"Unknown", "Failed", "Degraded"}
    BY <2>1 DEF EdgeReason
  <2>3. report \in applied /\ report.about = edge
    BY <2>1 DEF SlotsSound
  <2>4. report.health = "Healthy"
    BY <2>2, <2>3 DEF Numbered, EvidenceInv, ReportsSound, Health
  <2>5. report.epoch = epoch /\ report.topology = topology
    BY <2>1 DEF SlotCurrent
  <2> QED BY <2>3, <2>4, <2>5
<1> QED BY EvidenceInvariance, <1>1, PTL
=============================================================================
