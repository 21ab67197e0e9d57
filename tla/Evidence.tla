------------------------------ MODULE Evidence ------------------------------
(***************************************************************************)
(* Evidence from reporters, and what dependency evidence qualifies.        *)
(*                                                                         *)
(* Reporters stamp what they send with a sequence number, the coordinator  *)
(* epoch and the topology they saw; it may arrive late, twice or in any    *)
(* order.  The coordinator keeps a watermark per source, shared by failure *)
(* reports and dependency observations.  Services, topology and slots are  *)
(* replayed as memory applied them; the watermarks are not, because an     *)
(* operator's confirmation journals an old failure report once more.       *)
(***************************************************************************)
EXTENDS Naturals, FiniteSets, SequencesExt

CONSTANTS
  NumServices,
  Specs,          \* Specs[s]: descriptor.dependencies, [service, hard] in order
  Source,         \* the enrolled reporters
  Observed,       \* the pairs <<service, dependency>> they observe
  Healths,        \* the healths they report
  FailureReports, \* whether they report failures: a subset of {TRUE}
  RotationDue,    \* the answers of Store::rotation_due: a subset of BOOLEAN
  MaxDepth,       \* policy.dependency_max_depth
  MaxPerService,  \* config.max_dependencies_per_service
  MaxSequence,    \* bound: reports per source
  MaxTopology,    \* bound: topology generations
  MaxEpoch        \* bound: coordinator epochs

Service == 1 .. NumServices
Health == {"Unknown", "Healthy", "Degraded", "Failed"}
NoReport == [source |-> "none", sequence |-> 0]
Failure == <<0, 0>>  \* what a failure report is about, among pairs

ASSUME EvidenceAssumption ==
  /\ Specs \in [Service -> Seq([service : Service, hard : BOOLEAN])]
  /\ \A s \in Service : \A i, j \in DOMAIN Specs[s] :
       Specs[s][i].service # s /\ (Specs[s][i].service = Specs[s][j].service => i = j)
  /\ \A p \in Observed : p \in Service \X Service /\ p[1] # p[2]
  /\ Healths \subseteq Health
  /\ MaxDepth \in Nat /\ MaxPerService \in Nat \ {0}

VARIABLES
  opened,        \* Impl::opened
  epoch,         \* State::epoch
  topology,      \* State::topology_generation
  registered,    \* the keys of State::services
  dependencies,  \* State::dependencies: pair -> slot, for the recorded pairs
  watermarks,    \* State::watermarks: the last sequence applied per source
  pending,       \* the ambiguous failure report that waits for an operator
  disk,          \* what snapshot and journal would restore of the last two
  sent,          \* history: the reports reporters sent
  applied        \* history: the reports the coordinator applied

vars == <<opened, epoch, topology, registered, dependencies, watermarks, pending,
          disk, sent, applied>>

Init ==
  /\ opened = TRUE /\ epoch = 1 /\ topology = 0 /\ registered = {}
  /\ dependencies = <<>>
  /\ watermarks = [q \in Source |-> 0]
  /\ pending = NoReport
  /\ disk = [watermarks |-> watermarks, pending |-> pending, decodable |-> TRUE]
  /\ sent = {} /\ applied = {}

(* The observations recorded for one service.                               *)
Bucket(s) == {p \in DOMAIN dependencies : p[1] = s}

(* A snapshot is only read back if no bucket is over its ceiling; the       *)
(* journal has no such check.                                               *)
Persist(journaled) ==
  \E due \in RotationDue :
    disk' = IF due
            THEN [watermarks |-> watermarks', pending |-> pending',
                  decodable |-> \A s \in Service : Cardinality(Bucket(s)') <= MaxPerService]
            ELSE journaled

-----------------------------------------------------------------------------
(* Reporters, and the network between them and the coordinator.             *)
LastSent(q) == Cardinality({m \in sent : m.source = q})

Report(q, about, health) ==
  /\ LastSent(q) < MaxSequence
  /\ sent' = sent \cup {[source |-> q, sequence |-> LastSent(q) + 1, about |-> about,
                         health |-> health, epoch |-> epoch, topology |-> topology]}
  /\ UNCHANGED <<opened, epoch, topology, registered, dependencies, watermarks,
                 pending, disk, applied>>

RegisterService(s) ==
  /\ opened /\ s \notin registered
  /\ registered' = registered \cup {s}
  /\ UNCHANGED <<opened, epoch, topology, dependencies, watermarks, pending, sent, applied>>
  /\ Persist(disk)

SetTopologyGeneration ==
  /\ opened /\ topology < MaxTopology
  /\ topology' = topology + 1
  /\ UNCHANGED <<opened, epoch, registered, dependencies, watermarks, pending, sent, applied>>
  /\ Persist(disk)

(* Mutant of Acceptable: a report of an earlier epoch is accepted.          *)
AcceptableAnyEpoch(m) ==
  /\ m.sequence > watermarks[m.source]
  /\ m.topology = topology

(* Mutant of Acceptable: the watermark only catches the last report.        *)
AcceptableUnlessLast(m) ==
  /\ m.epoch = epoch
  /\ m.sequence # watermarks[m.source]
  /\ m.topology = topology

(* The stamp names this incarnation of the coordinator and its topology,    *)
(* and the sequence is above everything applied from the same source.       *)
Acceptable(m) ==
  /\ m.epoch = epoch
  /\ m.sequence > watermarks[m.source]
  /\ m.topology = topology

(* The slot of an observation: the dependency in the service's bucket.      *)
FiledUnder(m) == <<m.about[1], m.about[2]>>

IngestDependency(m) ==
  /\ opened
  /\ m.about # Failure
  /\ {m.about[1], m.about[2]} \subseteq registered
  /\ Acceptable(m)
  /\ dependencies' = [p \in DOMAIN dependencies \cup {FiledUnder(m)} |->
       IF p = FiledUnder(m) THEN [report |-> m, requires_reconfirmation |-> FALSE]
       ELSE dependencies[p]]
  /\ watermarks' = [watermarks EXCEPT ![m.source] = m.sequence]
  /\ applied' = applied \cup {m}
  /\ UNCHANGED <<opened, epoch, topology, registered, pending, sent>>
  /\ Persist([disk EXCEPT !.watermarks[m.source] = m.sequence])

(* Ambiguous failure evidence; the ambiguity it leaves is in memory only.   *)
IngestFailure(m) ==
  /\ opened
  /\ m.about = Failure
  /\ Acceptable(m)
  /\ watermarks' = [watermarks EXCEPT ![m.source] = m.sequence]
  /\ pending' = m
  /\ applied' = applied \cup {m}
  /\ UNCHANGED <<opened, epoch, topology, registered, dependencies, sent>>
  /\ Persist([disk EXCEPT !.watermarks[m.source] = m.sequence])

(* The operator confirms it: the report is journaled a second time, and     *)
(* replaying it sets the watermark of its source back to it.                *)
ResolveConfirmed ==
  /\ opened
  /\ pending # NoReport
  /\ pending' = NoReport
  /\ UNCHANGED <<opened, epoch, topology, registered, dependencies, watermarks, sent, applied>>
  /\ Persist([disk EXCEPT !.watermarks[pending.source] = pending.sequence])

Close ==
  /\ opened /\ epoch < MaxEpoch
  /\ opened' = FALSE
  /\ UNCHANGED <<epoch, topology, registered, dependencies, watermarks, pending,
                 disk, sent, applied>>

Open ==
  /\ ~opened /\ disk.decodable
  /\ opened' = TRUE
  /\ epoch' = epoch + 1
  /\ dependencies' = [p \in DOMAIN dependencies |->
       [dependencies[p] EXCEPT !.requires_reconfirmation = TRUE]]
  /\ watermarks' = disk.watermarks
  /\ pending' = disk.pending
  /\ UNCHANGED <<topology, registered, sent, applied>>
  /\ Persist(disk)

Next ==
  \/ \E q \in Source :
       \/ \E p \in Observed, h \in Healths : Report(q, p, h)
       \/ TRUE \in FailureReports /\ Report(q, Failure, "Failed")
  \/ \E s \in Service : RegisterService(s)
  \/ SetTopologyGeneration
  \/ \E m \in sent : IngestDependency(m) \/ IngestFailure(m)
  \/ ResolveConfirmed \/ Close \/ Open

Spec == Init /\ [][Next]_vars

-----------------------------------------------------------------------------
(* Qualification of the dependencies of a service.                          *)

(* Mutant of SlotCurrent: the topology of the observation is ignored.       *)
SlotCurrentAnyTopology(slot) ==
  /\ ~slot.requires_reconfirmation
  /\ slot.report.epoch = epoch

SlotCurrent(slot) ==
  /\ ~slot.requires_reconfirmation
  /\ slot.report.epoch = epoch
  /\ slot.report.topology = topology

(* The reason an edge is not satisfied; `Ok' when it is.                    *)
EdgeReason(owner, spec) ==
  LET edge == <<owner, spec.service>> IN
  IF spec.service \notin registered THEN "UnknownService"
  ELSE IF edge \notin DOMAIN dependencies THEN "DependencyUnknown"
  ELSE IF ~SlotCurrent(dependencies[edge]) THEN "DependencyUnresolved"
  ELSE CASE dependencies[edge].report.health = "Unknown" -> "DependencyUnknown"
         [] dependencies[edge].report.health = "Failed" -> "DependencyHardUnmet"
         [] dependencies[edge].report.health = "Degraded" ->
              IF spec.hard THEN "DependencyHardUnmet" ELSE "Ok"
         [] OTHER -> "Ok"

(* One declared dependency of the node the traversal is at: a service that  *)
(* was visited before counts as a cycle, and only hard dependencies block.  *)
VisitSpec(node, spec, t) ==
  LET seen == spec.service \in t.visited
      reason == IF seen THEN "DependencyCycle" ELSE EdgeReason(node.owner, spec)
  IN [visited |-> t.visited \cup {spec.service},
      queue |-> IF seen \/ spec.service \notin registered THEN t.queue
                ELSE Append(t.queue, [owner |-> spec.service, depth |-> node.depth + 1]),
      blocking |-> IF spec.hard /\ t.blocking = "Ok" THEN reason ELSE t.blocking]

(* The traversal after n nodes of its queue; a node at the depth ceiling is *)
(* not expanded.  A queue never holds a service twice.                      *)
qualify_dependencies(s) ==
  LET start == [visited |-> {s}, queue |-> <<[owner |-> s, depth |-> 0]>>,
                blocking |-> "Ok"]
      expand(t, n) ==
        IF n > Len(t.queue) \/ t.queue[n].depth >= MaxDepth THEN t
        ELSE FoldLeft(LAMBDA u, spec : VisitSpec(t.queue[n], spec, u),
                      t, Specs[t.queue[n].owner])
      traversal[n \in 0 .. NumServices] ==
        IF n = 0 THEN start ELSE expand(traversal[n - 1], n)
  IN traversal[NumServices].blocking

-----------------------------------------------------------------------------
(* A report is applied at most once, however often it is delivered: nothing *)
(* applied would be accepted again, not even after the restart that replays *)
(* an older watermark.                                                      *)
AppliedOnce == \A m \in applied : ~Acceptable(m)

(* Reports of one source take effect in the order they were sent: a slot    *)
(* holds an applied observation of its own dependency, and none older than  *)
(* another one applied from the same source.                                *)
NewestObservationKept ==
  \A p \in DOMAIN dependencies :
    /\ dependencies[p].report \in applied /\ dependencies[p].report.about = p
    /\ \A m \in applied :
         m.about = p /\ m.source = dependencies[p].report.source =>
           m.sequence <= dependencies[p].report.sequence

(* The registered services within n dependencies of s.                      *)
Within(s, n) ==
  LET level[k \in 0 .. n] ==
        IF k = 0 THEN {s}
        ELSE level[k - 1] \cup
             {v \in registered : \E u \in level[k - 1] : \E spec \in Range(Specs[u]) :
                spec.service = v}
  IN level[n]

(* Missing evidence never becomes healthy: a service qualifies only if, for *)
(* every hard dependency below the depth ceiling, a report was applied that *)
(* says healthy, under this epoch and the current topology.                 *)
QualificationSound ==
  \A s \in registered :
    MaxDepth > 0 /\ qualify_dependencies(s) = "Ok" =>
      \A u \in Within(s, MaxDepth - 1) : \A spec \in Range(Specs[u]) :
        spec.hard => \E m \in applied :
          /\ m.about = <<u, spec.service>> /\ m.health = "Healthy"
          /\ m.epoch = epoch /\ m.topology = topology

(* A dependency cycle is reported only where the declared dependencies have *)
(* one.                                                                     *)
CyclesAreReal ==
  \A s \in registered :
    qualify_dependencies(s) = "DependencyCycle" =>
      \E u \in Within(s, NumServices) : \E spec \in Range(Specs[u]) :
        u \in Within(spec.service, NumServices)

(* Whatever the coordinator accepts it can read back after a compaction.    *)
SnapshotsDecodable == disk.decodable
=============================================================================
