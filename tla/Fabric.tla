------------------------------- MODULE Fabric -------------------------------
(***************************************************************************)
(* The coordinator: registries, evidence, recovery decisions, executor     *)
(* feedback, durability and restart.                                       *)
(*                                                                         *)
(* Every public operation runs under one mutex, so an operation is one     *)
(* action.  It journals what it decides, applies it to memory, and then    *)
(* compacts when the journal has grown past its bound.  Memory and what a  *)
(* reopened store would hand back are separate variables, because several  *)
(* operations change one and not the other.                                *)
(*                                                                         *)
(* A refused request leaves the modelled state alone (it records a reason, *)
(* a statistic and an explanation), so an action is the accepted outcome   *)
(* of its handler; the one refusal that changes state has its own action.  *)
(* Requests are unkeyed, sources are enrolled and services declare no      *)
(* dependencies: keys, cancellation and dependency qualification are other *)
(* components.  Evidence age only refuses, so ticks are left out.          *)
(***************************************************************************)
EXTENDS Selection, Sequences

CONSTANTS
  Policies,        \* the policies an operator may install, InitialPolicy included
  InitialPolicy,   \* config.initial_policy
  RotationDue,     \* the answers of Store::rotation_due: a subset of BOOLEAN
  Ambiguities,     \* whether failure reports may be ambiguous: subset of BOOLEAN
  MaxHistory,      \* config.max_attempt_history
  MaxCandidates,   \* config.max_fallback_candidates
  MaxRetained,     \* config.max_evidence_records
  Incarnations,    \* Incarnations[t]: the incarnations reported for target t
  Retirable,       \* the targets reporters may retire
  Coverages,       \* what capability reports cover: a set of sets of services
  CallerIds,       \* the evidence identifiers reporters may choose themselves
  EffectKinds,     \* the kinds of effects executors report
  MaxTopology,     \* bound: topology generations
  MaxCapability,   \* bound: capability generations
  MaxEvidence,     \* bound: failure evidence identifiers
  MaxFence,        \* bound: fence tokens minted per service
  MaxEpoch         \* bound: coordinator epochs

VARIABLES
  opened,          \* Impl::opened
  epoch,           \* State::epoch; State::boot always advances with it
  topology,        \* State::topology_generation
  policy,          \* State::policy, its generation included
  targets,         \* State::targets: the registered incarnation, 0 for none
  capabilities,    \* State::capabilities
  failures,        \* State::failures
  failure_order,   \* State::failure_order: the retained ids, oldest first
  latest_failure,  \* State::latest_failure: an evidence id, 0 for none
  next_evidence_id,\* State::next_evidence_id
  services,        \* State::services
  fences,          \* State::fences
  witnesses,       \* State::witnesses: the excluded incarnation, 0 for none
  next_attempt_id, \* State::next_attempt_id
  disk,            \* what snapshot and journal replay would restore
  intents          \* history: every intent a recovery decision ever returned

registry  == <<topology, policy, targets, capabilities>>
evidence  == <<failures, failure_order, latest_failure, next_evidence_id>>
authority == <<services, fences, witnesses, next_attempt_id, intents>>
vars == <<opened, epoch, registry, evidence, authority, disk>>

Policy ==
  [generation : Nat, max_attempts : Nat, max_plan_steps : Nat,
   max_candidates : Nat, allow_failback : BOOLEAN, allow_degraded : BOOLEAN]

ValidPolicy(p) ==
  p.max_attempts # 0 /\ p.max_plan_steps # 0 /\ p.max_candidates # 0

ASSUME FabricAssumption ==
  /\ Policies \subseteq Policy
  /\ InitialPolicy \in Policies /\ ValidPolicy(InitialPolicy)
  /\ RotationDue \in (SUBSET BOOLEAN) \ {{}}
  /\ Ambiguities \subseteq BOOLEAN
  /\ MaxHistory \in Nat \ {0}
  /\ MaxCandidates \in Nat \ {0}
  /\ MaxRetained \in Nat \ {0}
  /\ Incarnations \in [Target -> SUBSET (Nat \ {0})]
  /\ Retirable \subseteq Target
  /\ Coverages \subseteq SUBSET Service
  /\ {MaxTopology, MaxCapability, MaxEvidence, MaxFence, MaxEpoch} \subseteq Nat
  /\ CallerIds \subseteq 1 .. MaxEvidence

EvidenceId == 1 .. MaxEvidence

(* The placements a commit can name: targets as reporters adopt them.       *)
AdoptedRef == UNION {[target : {t}, inc : Incarnations[t]] : t \in Target}

FailureEvidence ==
  [service : Service, target : TargetRef, epoch : Nat, topology : Nat,
   ambiguous : BOOLEAN]
NoEvidence ==
  [service |-> 0, target |-> NoRef, epoch |-> 0, topology |-> 0,
   ambiguous |-> FALSE]

AttemptRecord ==
  [id : Nat \ {0}, fence : Nat, from : OptionalRef, to : TargetRef,
   acknowledged : BOOLEAN, outcome : AttemptOutcome]

(* The ceiling on the history is part of the type.                          *)
AttemptHistory == {h \in Seq(AttemptRecord) : Len(h) <= MaxHistory}

FailoverIntent ==
  [service : Service, attempt : Nat \ {0}, generation : Nat, fence : Nat,
   lease_term : Nat, from : OptionalRef, to : TargetRef, epoch : Nat]

(* ServiceRuntime.  `fallback' is only ever written together with `active'  *)
(* and with the same value, so `active' stands for both.                    *)
ServiceRuntime ==
  [lifecycle : LifecyclePhase, recovery : RecoveryPhase,
   continuity : ContinuityClass, active : OptionalRef, generation : Nat,
   fence : Nat, lease_term : Nat, current_attempt : Nat,
   history : AttemptHistory, attempts_since_verified : Nat,
   activation_accepted : BOOLEAN, effect_verified : BOOLEAN,
   state_transfer_verified : BOOLEAN, failover_recorded : BOOLEAN,
   ambiguity_pending : BOOLEAN, pending_ambiguity : Nat,
   pre_failover_target : OptionalRef, pre_failover_capability : Nat]

NewRuntime(phase) ==
  [lifecycle |-> phase, recovery |-> "None", continuity |-> "Unknown",
   active |-> NoRef, generation |-> 0, fence |-> 0, lease_term |-> 0,
   current_attempt |-> 0, history |-> <<>>, attempts_since_verified |-> 0,
   activation_accepted |-> FALSE, effect_verified |-> FALSE,
   state_transfer_verified |-> FALSE, failover_recorded |-> FALSE,
   ambiguity_pending |-> FALSE, pending_ambiguity |-> 0,
   pre_failover_target |-> NoRef, pre_failover_capability |-> 0]

FenceRecord == [token : Nat, holder : OptionalRef]

Image ==
  [epoch : Nat, failures : [EvidenceId -> FailureEvidence \cup {NoEvidence}],
   failure_order : Seq(EvidenceId), next_evidence_id : Nat \ {0},
   latest_failure : [Service -> {0} \cup EvidenceId],
   services : [Service -> ServiceRuntime], fences : [Service -> FenceRecord],
   witnesses : [Service -> [Target -> Nat]], next_attempt_id : Nat \ {0},
   decodable : BOOLEAN]

RetainedIn(fs) == {e \in EvidenceId : fs[e] # NoEvidence}

InIdOrder(ids) ==
  [k \in 1 .. Cardinality(ids) |->
     CHOOSE e \in ids : Cardinality({d \in ids : d < e}) = k - 1]

(* The snapshot encode_state writes and decode_state reads back: evidence   *)
(* is listed by identifier, latest_failure is not encoded at all, and more  *)
(* evidence than the configured ceiling is refused when it is read.         *)
Snapshot(svcs) ==
  [epoch |-> epoch, failures |-> failures,
   failure_order |-> InIdOrder(RetainedIn(failures)),
   next_evidence_id |-> next_evidence_id,
   latest_failure |-> [s \in Service |-> 0],
   services |-> svcs, fences |-> fences, witnesses |-> witnesses,
   next_attempt_id |-> next_attempt_id,
   decodable |-> Cardinality(RetainedIn(failures)) <= MaxRetained]

(* A coordinator opened for the first time, which has enrolled its sources: *)
(* the journal already holds records, so a reopen always finds something.   *)
Init ==
  /\ opened = TRUE
  /\ epoch = 1
  /\ topology = 0
  /\ policy = InitialPolicy
  /\ targets = [t \in Target |-> 0]
  /\ capabilities = [t \in Target |-> NoSlot]
  /\ failures = [e \in EvidenceId |-> NoEvidence]
  /\ failure_order = <<>>
  /\ latest_failure = [s \in Service |-> 0]
  /\ next_evidence_id = 1
  /\ services = [s \in Service |-> NewRuntime("Unregistered")]
  /\ fences = [s \in Service |-> [token |-> 0, holder |-> NoRef]]
  /\ witnesses = [s \in Service |-> [t \in Target |-> 0]]
  /\ next_attempt_id = 1
  /\ intents = {}
  /\ disk = Snapshot(services)

-----------------------------------------------------------------------------
(* Durability.  The journal record of an operation is on disk before memory *)
(* changes; rotate_if_due afterwards replaces snapshot and journal by the   *)
(* memory of that moment.  `journaled' is the effect apply_record has when  *)
(* the record is replayed: identifier counters stay where they were, and    *)
(* evidence is never evicted.  Registries are replayed exactly as memory    *)
(* applied them, so `targets', `capabilities', `topology' and `policy'      *)
(* stand for their durable copies too.                                      *)
(*                                                                          *)
(* The store is one that writes.  A commit that it refuses leaves memory    *)
(* alone and is left out; that it may leave frames of the refused record in *)
(* the journal, which a later commit runs into, is in Store.                *)

Persist(journaled) ==
  \E due \in RotationDue :
    disk' = IF due THEN Snapshot(services)' ELSE journaled

JournalRuntime(image, s, runtime) == [image EXCEPT !.services[s] = runtime]

(* Mutant of JournalFailure: replay does not insert the evidence.           *)
JournalFailureUnretained(image, e, observed) ==
  [image EXCEPT !.failure_order = Append(@, e),
                !.latest_failure[observed.service] = e]

JournalFailure(image, e, observed) ==
  [image EXCEPT !.failures[e] = observed,
                !.failure_order = Append(@, e),
                !.latest_failure[observed.service] = e]

Registered(s) == services[s].lifecycle # "Unregistered"

-----------------------------------------------------------------------------
(* Registries.                                                              *)

RegisterService(s) ==
  /\ opened
  /\ ~Registered(s)
  /\ services' = [services EXCEPT ![s] = NewRuntime("Registered")]
  /\ UNCHANGED <<opened, epoch, registry, evidence, fences, witnesses,
                 next_attempt_id, intents>>
  /\ Persist(JournalRuntime(disk, s, NewRuntime("Registered")))

(* A target is adopted, or re-adopted at a newer incarnation.               *)
RegisterTarget(t, inc) ==
  /\ opened
  /\ inc > targets[t]
  /\ targets' = [targets EXCEPT ![t] = inc]
  /\ UNCHANGED <<opened, epoch, topology, policy, capabilities, evidence, authority>>
  /\ Persist(disk)

SetTopologyGeneration(g) ==
  /\ opened
  /\ g > topology
  /\ topology' = g
  /\ UNCHANGED <<opened, epoch, policy, targets, capabilities, evidence, authority>>
  /\ Persist(disk)

SetPolicy(p) ==
  /\ opened
  /\ ValidPolicy(p)
  /\ p.generation > policy.generation
  /\ policy' = p
  /\ UNCHANGED <<opened, epoch, topology, targets, capabilities, evidence, authority>>
  /\ Persist(disk)

(* Replay of a withdrawal restores the lifecycle and nothing else.          *)
WithdrawService(s) ==
  /\ opened
  /\ Registered(s)
  /\ services[s].lifecycle # "Withdrawn"
  /\ services' = [services EXCEPT ![s].lifecycle = "Withdrawn",
                                  ![s].recovery = "None",
                                  ![s].continuity = "None"]
  /\ UNCHANGED <<opened, epoch, registry, evidence, fences, witnesses,
                 next_attempt_id, intents>>
  /\ Persist([disk EXCEPT !.services[s].lifecycle = "Withdrawn"])

RetireTarget(t) ==
  /\ opened
  /\ targets[t] # 0
  /\ targets' = [targets EXCEPT ![t] = 0]
  /\ capabilities' = [capabilities EXCEPT ![t] = NoSlot]
  /\ UNCHANGED <<opened, epoch, topology, policy, evidence, authority>>
  /\ Persist(disk)

-----------------------------------------------------------------------------
(* Evidence.                                                                *)

(* Capability evidence for the registered incarnation under the current     *)
(* topology.  Within one incarnation the generation must grow: a repeated   *)
(* generation is a duplicate or a conflict and is not recorded.             *)
IngestCapability(t, generation, covers) ==
  /\ opened
  /\ targets[t] # 0
  /\ capabilities[t].inc = targets[t] => generation > capabilities[t].generation
  /\ capabilities' =
       [capabilities EXCEPT ![t] =
          [generation |-> generation, inc |-> targets[t], topology |-> topology,
           covers |-> covers, requires_reconfirmation |-> FALSE]]
  /\ UNCHANGED <<opened, epoch, topology, policy, targets, evidence, authority>>
  /\ Persist(disk)

(* Clears every claim that depended on a verified effect.                   *)
InvalidateVerification(runtime) ==
  [runtime EXCEPT !.activation_accepted = FALSE, !.effect_verified = FALSE,
                  !.state_transfer_verified = FALSE, !.continuity = "Unknown"]

(* An ambiguous observation `e' of the active placement blocks on operators.*)
AwaitOperator(runtime, e) ==
  InvalidateVerification(
    [runtime EXCEPT !.ambiguity_pending = TRUE, !.pending_ambiguity = e,
                    !.recovery = "AmbiguityPending",
                    !.lifecycle = "RecoveryPending"])

(* How many of the oldest observations evict_failures_if_needed drops.      *)
Evicted ==
  LET dropped(n) == {failure_order[k] : k \in 1 .. n}
      fits(n) == \/ n = Len(failure_order)
                 \/ Cardinality(RetainedIn(failures) \ dropped(n)) < MaxRetained
  IN  CHOOSE n \in 0 .. Len(failure_order) :
        fits(n) /\ \A m \in 0 .. n - 1 : ~fits(m)

EvictedIds == {failure_order[k] : k \in 1 .. Evicted}

(* A fresh failure observation, under the identifier the reporter chose or  *)
(* the next one of a counter that a restart may set back, so that it can    *)
(* replace a retained observation.  The oldest observations make room for   *)
(* it.  The ambiguity it leaves pending is in memory only.                  *)
IngestFailure(s, ref, e, ambiguous) ==
  LET observed == [service |-> s, target |-> ref, epoch |-> epoch,
                   topology |-> topology, ambiguous |-> ambiguous]
  IN
  /\ opened
  /\ Registered(s)
  /\ targets[ref.target] # 0
  /\ services[s].active # NoRef => ref = services[s].active
  /\ e = next_evidence_id \/ e \in CallerIds \ RetainedIn(failures)
  /\ next_evidence_id' = IF e = next_evidence_id THEN e + 1 ELSE next_evidence_id
  /\ failures' = [d \in EvidenceId |->
       IF d = e THEN observed
       ELSE IF d \in EvictedIds THEN NoEvidence ELSE failures[d]]
  /\ failure_order' =
       Append(SubSeq(failure_order, Evicted + 1, Len(failure_order)), e)
  /\ latest_failure' = [r \in Service |->
       IF r = s THEN e
       ELSE IF latest_failure[r] \in EvictedIds THEN 0 ELSE latest_failure[r]]
  /\ services' = IF ambiguous
                 THEN [services EXCEPT ![s] = AwaitOperator(@, e)]
                 ELSE services
  /\ UNCHANGED <<opened, epoch, registry, fences, witnesses, next_attempt_id, intents>>
  /\ Persist(JournalFailure(disk, e, observed))

-----------------------------------------------------------------------------
(* Committing a recovery attempt.                                           *)

Unhealthy(s) ==
  IF latest_failure[s] = 0 THEN 0 ELSE failures[latest_failure[s]].target.target

Eligible(s, t) ==
  EvaluateCandidate(s, t, targets[t], witnesses[s][t], capabilities[t],
                    topology, Unhealthy(s))

PlanSteps(s, from) ==
  6 + (IF from # NoRef THEN 1 ELSE 0)
    + (IF s \in Stateful \cap NeedsTransfer THEN 1 ELSE 0)

(* Mutant of AppendAttempt: the ceiling is off by one.                      *)
AppendAttemptLate(history, attempt) ==
  LET longer == Append(history, attempt) IN
  IF Len(longer) > MaxHistory + 1 THEN Tail(longer) ELSE longer

(* The attempt history, bounded: the oldest attempts are evicted.           *)
AppendAttempt(history, attempt) ==
  LET longer == Append(history, attempt) IN
  IF Len(longer) > MaxHistory THEN Tail(longer) ELSE longer

(* A resume refreshes the first retained attempt with the reused identity.  *)
Reissued(history, id) ==
  LET first == CHOOSE k \in DOMAIN history :
                 /\ history[k].id = id
                 /\ \A j \in 1 .. k - 1 : history[j].id # id
  IN  [history EXCEPT ![first] =
         [@ EXCEPT !.acknowledged = FALSE, !.outcome = "Committed"]]

(* Mutant of NextAttempt: a re-issue takes a new attempt id.                *)
NextAttemptAlwaysNew(s, mode) == next_attempt_id

(* Mutant of NextFence: the fence does not move.                            *)
NextFenceReused(s, mode) == IF fences[s].token = 0 THEN 1 ELSE fences[s].token

(* Mutant of NextTerm: a re-issue bumps the term as well.                   *)
NextTermAlwaysNew(s, mode) == services[s].lease_term + 1

(* The identity of the attempt a mode commits.                              *)
NextAttempt(s, mode) ==
  IF mode = "Resume" THEN services[s].current_attempt ELSE next_attempt_id
NextGeneration(s, mode) ==
  IF mode = "Resume" THEN services[s].generation ELSE services[s].generation + 1
NextFence(s, mode) ==
  IF mode = "Resume" THEN services[s].fence ELSE fences[s].token + 1
NextTerm(s, mode) ==
  IF mode = "Resume" THEN services[s].lease_term ELSE services[s].lease_term + 1

NextHistory(s, to, from, mode) ==
  IF mode = "Resume"
  THEN Reissued(services[s].history, services[s].current_attempt)
  ELSE AppendAttempt(services[s].history,
         [id |-> NextAttempt(s, mode), fence |-> NextFence(s, mode),
          from |-> from, to |-> to, acknowledged |-> FALSE,
          outcome |-> "Committed"])

(* The runtime an attempt leaves behind: new authority, no verified claims, *)
(* and a note of where the service came from the first time it moved.       *)
CommittedRuntime(s, to, from, mode) ==
  LET old == InvalidateVerification(services[s])
      moved == old.pre_failover_target = NoRef /\ from # NoRef
      first == mode = "InitialPlacement"
  IN  [old EXCEPT
         !.history = NextHistory(s, to, from, mode),
         !.generation = NextGeneration(s, mode),
         !.fence = NextFence(s, mode),
         !.lease_term = NextTerm(s, mode),
         !.current_attempt = NextAttempt(s, mode),
         !.attempts_since_verified = IF first THEN @ ELSE @ + 1,
         !.active = to,
         !.recovery = IF first THEN "IntentRecorded" ELSE "Authorized",
         !.lifecycle = IF first THEN "Active" ELSE "RecoveryAuthorized",
         !.failover_recorded = ~first,
         !.ambiguity_pending = FALSE,
         !.pending_ambiguity = 0,
         !.pre_failover_target =
            IF first THEN NoRef ELSE IF moved THEN from ELSE @,
         !.pre_failover_capability =
            IF moved THEN capabilities[from.target].generation ELSE @]

Intent(s, to, from, mode) ==
  [service |-> s, attempt |-> NextAttempt(s, mode),
   generation |-> NextGeneration(s, mode), fence |-> NextFence(s, mode),
   lease_term |-> NextTerm(s, mode), from |-> from, to |-> to, epoch |-> epoch]

(* Mutant of JournalAttempt: the record has no witness.                     *)
JournalAttemptWithoutWitness(image, s, next) ==
  [JournalRuntime(image, s, next) EXCEPT !.fences = fences']

(* Mutant of JournalAttempt: the record has no origin.                      *)
JournalAttemptWithoutOrigin(image, s, next) ==
  [JournalRuntime(image, s,
     [next EXCEPT !.pre_failover_target = image.services[s].pre_failover_target])
   EXCEPT !.fences = fences', !.witnesses = witnesses']

(* Mutant of JournalAttempt: the record has no fence.                       *)
JournalAttemptWithoutFence(image, s, next) ==
  [JournalRuntime(image, s, next) EXCEPT !.witnesses = witnesses']

(* What replay makes of the record of a committed attempt.                  *)
JournalAttempt(image, s, next) ==
  [JournalRuntime(image, s, next) EXCEPT !.fences = fences', !.witnesses = witnesses']

(* commit_recovery: one journal record carries the runtime, the fence and   *)
(* the witness that excludes the placement left behind; the intent exists   *)
(* only after that record is durable.  `settled' is the runtime the caller  *)
(* leaves in memory after the commit returned; compaction, inside the       *)
(* commit, still sees the committed one.  `image' is the durable image the  *)
(* record is appended to.                                                   *)
CommitRecovery(image, s, to, from, mode, settled) ==
  LET next == CommittedRuntime(s, to, from, mode)
      committed == [services EXCEPT ![s] = next]
  IN
  /\ PlanSteps(s, from) <= policy.max_plan_steps
  /\ NextFence(s, mode) <= MaxFence
  /\ fences' = [fences EXCEPT ![s] = [token |-> NextFence(s, mode), holder |-> to]]
  /\ witnesses' = IF from = NoRef THEN witnesses
                  ELSE [witnesses EXCEPT ![s][from.target] = from.inc]
  /\ next_attempt_id' = IF mode = "Resume" THEN next_attempt_id ELSE next_attempt_id + 1
  /\ services' = [services EXCEPT ![s] = settled]
  /\ intents' = intents \cup {Intent(s, to, from, mode)}
  /\ UNCHANGED <<opened, epoch, registry>>
  /\ \E due \in RotationDue :
       disk' = IF due THEN [Snapshot(services)' EXCEPT !.services = committed]
                      ELSE JournalAttempt(image, s, next)

Commit(image, s, to, from, mode) ==
  CommitRecovery(image, s, to, from, mode, CommittedRuntime(s, to, from, mode))

-----------------------------------------------------------------------------
(* Recovery decisions.                                                      *)

Ref(t) == [target |-> t, inc |-> targets[t]]

EstablishPlacement(s, t) ==
  /\ opened
  /\ services[s].lifecycle \notin {"Unregistered", "Withdrawn"}
  /\ services[s].active = NoRef
  /\ Eligible(s, t)
  /\ UNCHANGED evidence
  /\ Commit(disk, s, Ref(t), NoRef, "InitialPlacement")

(* The checks every recovery request other than a resume passes first.      *)
FailoverAdmissible(s) ==
  /\ services[s].lifecycle \notin {"Unregistered", "Withdrawn", "RecoveryAuthorized"}
  /\ services[s].attempts_since_verified < policy.max_attempts

(* Mutant of EvidenceCurrent: the epoch it was accepted under is ignored.   *)
EvidenceCurrentAnyEpoch(s, e) ==
  /\ failures[e].service = s
  /\ services[s].active # NoRef
  /\ failures[e].target = services[s].active
  /\ failures[e].topology = topology

(* Retained evidence that names the active placement, was accepted by this  *)
(* incarnation of the coordinator, and matches the current topology.        *)
EvidenceCurrent(s, e) ==
  /\ failures[e].service = s
  /\ services[s].active # NoRef
  /\ failures[e].target = services[s].active
  /\ failures[e].epoch = epoch
  /\ failures[e].topology = topology

Fallback(s) ==
  SelectFallback(services[s].active.target, {t \in Target : targets[t] # 0},
                 IF policy.max_candidates < MaxCandidates
                 THEN policy.max_candidates ELSE MaxCandidates,
                 {t \in Target : Eligible(s, t)})

CommitFailover(image, s) ==
  \E t \in Fallback(s) : Commit(image, s, Ref(t), services[s].active, "Failover")

(* A recovery justified by unambiguous failure evidence.                    *)
RequestFailoverOnEvidence(s, e, authorized) ==
  /\ opened
  /\ FailoverAdmissible(s)
  /\ EvidenceCurrent(s, e)
  /\ ~failures[e].ambiguous
  /\ s \in NeedsOperator => authorized
  /\ UNCHANGED evidence
  /\ CommitFailover(disk, s)

(* The same request with ambiguous evidence is refused, and the refusal     *)
(* leaves the service waiting for an operator, in memory only.              *)
RefuseAmbiguous(s, e) ==
  /\ opened
  /\ FailoverAdmissible(s)
  /\ EvidenceCurrent(s, e)
  /\ failures[e].ambiguous
  /\ services' = [services EXCEPT ![s] = AwaitOperator(@, e)]
  /\ UNCHANGED <<opened, epoch, registry, evidence, fences, witnesses,
                 next_attempt_id, intents, disk>>

(* A planned or operator-commanded recovery by an enrolled operator.        *)
RequestFailoverByOperator(s) ==
  /\ opened
  /\ FailoverAdmissible(s)
  /\ UNCHANGED evidence
  /\ CommitFailover(disk, s)

(* The record of the current attempt is the last one with its identity.     *)
CurrentRecords(runtime) ==
  {k \in DOMAIN runtime.history :
     /\ runtime.history[k].id = runtime.current_attempt
     /\ \A j \in DOMAIN runtime.history :
          runtime.history[j].id = runtime.current_attempt => j <= k}

ResumeRecovery(s) ==
  /\ opened
  /\ services[s].lifecycle \notin {"Unregistered", "Withdrawn"}
  /\ services[s].recovery = "IntentRecorded"
  /\ UNCHANGED evidence
  /\ \E k \in CurrentRecords(services[s]) :
       LET previous == services[s].history[k] IN
       /\ targets[previous.to.target] = previous.to.inc
       /\ Eligible(s, previous.to.target)
       /\ Commit(disk, s, previous.to, previous.from, "Resume")

Retained(e) == e \in RetainedIn(failures)

(* The operator resolves the pending ambiguity: the target lives ...        *)
ResolveAlive(s) ==
  LET next == [services[s] EXCEPT !.ambiguity_pending = FALSE,
                                  !.pending_ambiguity = 0,
                                  !.recovery = "Refused",
                                  !.lifecycle = "Failed",
                                  !.continuity = "None"]
  IN
  /\ opened
  /\ Registered(s)
  /\ services[s].ambiguity_pending
  /\ Retained(services[s].pending_ambiguity)
  /\ services' = [services EXCEPT ![s] = next]
  /\ UNCHANGED <<opened, epoch, registry, evidence, fences, witnesses,
                 next_attempt_id, intents>>
  /\ Persist(JournalRuntime(disk, s, next))

(* ... or it is confirmed dead: the evidence is promoted durably and the    *)
(* request then takes the ordinary path, which may still refuse it: for     *)
(* what it checks here, or because the evidence has aged since.             *)
ResolveConfirmed(s) ==
  LET e == services[s].pending_ambiguity
      confirmed == [failures[e] EXCEPT !.ambiguous = FALSE]
      promoted == JournalFailure(disk, e, confirmed)
  IN
  /\ opened
  /\ Registered(s)
  /\ services[s].ambiguity_pending
  /\ Retained(e)
  /\ failures' = [failures EXCEPT ![e] = confirmed]
  /\ UNCHANGED <<failure_order, latest_failure, next_evidence_id>>
  /\ \/ /\ FailoverAdmissible(s) /\ EvidenceCurrent(s, e)
        /\ CommitFailover(promoted, s)
     \/ /\ services' = [services EXCEPT ![s].ambiguity_pending = FALSE,
                                        ![s].pending_ambiguity = 0]
        /\ disk' = promoted
        /\ UNCHANGED <<opened, epoch, registry, fences, witnesses,
                       next_attempt_id, intents>>

(* The reverse move, back to where the service was before it failed over.   *)
(* The recorded origin is dropped from memory after the commit returned.    *)
RequestFailback(s) ==
  LET runtime == services[s]
      origin == runtime.pre_failover_target
      slot == capabilities[origin.target]
  IN
  /\ opened
  /\ Registered(s)
  /\ policy.allow_failback
  /\ runtime.failover_recorded
  /\ origin # NoRef
  /\ targets[origin.target] > origin.inc
  /\ CurrentSlot(slot, targets[origin.target], topology)
  /\ runtime.pre_failover_capability # 0
  /\ slot.generation > runtime.pre_failover_capability
  /\ s \in slot.covers
  /\ runtime.lifecycle # "RecoveryAuthorized"
  /\ UNCHANGED evidence
  /\ CommitRecovery(disk, s, Ref(origin.target), runtime.active, "Failover",
       [CommittedRuntime(s, Ref(origin.target), runtime.active, "Failover")
          EXCEPT !.pre_failover_target = NoRef, !.failover_recorded = FALSE])

-----------------------------------------------------------------------------
(* Executor feedback.  An executor may answer any intent it was ever given, *)
(* late, more than once, and in any order.                                  *)

(* An acknowledgement is matched with the first service, in name order,     *)
(* whose current attempt has the identity it carries.                       *)
AckedService(i) ==
  {s \in Service :
     /\ services[s].current_attempt = i.attempt
     /\ \A r \in 1 .. s - 1 : services[r].current_attempt # i.attempt}

(* An answer after a restart leaves the unknown outcome of the attempt.     *)
Answered(attempt, accepted) ==
  [attempt EXCEPT !.acknowledged = TRUE,
                  !.outcome = IF ~accepted THEN "Refused"
                              ELSE IF @ = "Committed" THEN "Acknowledged" ELSE @]

AckedRuntime(runtime, k, accepted) ==
  LET history == [runtime.history EXCEPT ![k] = Answered(@, accepted)] IN
  IF accepted
  THEN [runtime EXCEPT
          !.history = history,
          !.recovery = IF @ \in {"Verified", "EffectReported"}
                       THEN @ ELSE "ActivationRequested"]
  ELSE InvalidateVerification(
         [runtime EXCEPT !.history = history, !.recovery = "Refused",
                         !.lifecycle = "Failed"])

AcknowledgeIntent(i, accepted) ==
  /\ opened
  /\ \E s \in AckedService(i) :
       /\ i.generation = services[s].generation
       /\ i.fence = services[s].fence
       /\ \E k \in CurrentRecords(services[s]) :
            LET next == AckedRuntime(services[s], k, accepted) IN
            /\ ~services[s].history[k].acknowledged
            /\ services' = [services EXCEPT ![s] = next]
            /\ UNCHANGED <<opened, epoch, registry, evidence, fences, witnesses,
                           next_attempt_id, intents>>
            /\ Persist(JournalRuntime(disk, s, next))

(* The report names this attempt, this fence and the placement it planned.  *)
EffectMatches(s, i) ==
  /\ i.service = s
  /\ i.attempt = services[s].current_attempt
  /\ i.generation = services[s].generation
  /\ i.fence = services[s].fence
  /\ i.to = services[s].active
  /\ targets[i.to.target] = i.to.inc

RecordEffect(s, next) ==
  /\ services' = [services EXCEPT ![s] = next]
  /\ UNCHANGED <<opened, epoch, registry, evidence, fences, witnesses,
                 next_attempt_id, intents>>
  /\ Persist(JournalRuntime(disk, s, next))

(* A negative effect of any kind ends the attempt unsuccessfully; a negative *)
(* health report does so even after the attempt was verified.                *)
ReportNegative(s, i) ==
  /\ opened
  /\ EffectMatches(s, i)
  /\ RecordEffect(s, InvalidateVerification(
       [services[s] EXCEPT !.recovery = "EffectReported", !.lifecycle = "Failed"]))

ReportActivationAccepted(s, i) ==
  /\ opened
  /\ EffectMatches(s, i)
  /\ services[s].recovery # "Verified"
  /\ RecordEffect(s, [services[s] EXCEPT !.activation_accepted = TRUE,
                                         !.recovery = "EffectReported"])

ReportDeactivationAcknowledged(s, i) ==
  /\ opened
  /\ EffectMatches(s, i)
  /\ services[s].recovery # "Verified"
  /\ RecordEffect(s, [services[s] EXCEPT !.recovery = "EffectReported"])

(* A transfer at or beyond the last known durable state generation.         *)
ReportStateTransferComplete(s, i) ==
  /\ opened
  /\ EffectMatches(s, i)
  /\ services[s].recovery # "Verified"
  /\ RecordEffect(s, [services[s] EXCEPT !.state_transfer_verified = TRUE])

HealthyContinuity(s) ==
  IF s \notin Stateful \/ services[s].state_transfer_verified THEN "Full"
  ELSE IF policy.allow_degraded THEN "Degraded" ELSE "None"

VerifiedRuntime(s) ==
  [services[s] EXCEPT !.effect_verified = TRUE, !.recovery = "Verified",
                      !.lifecycle = "FallbackActive",
                      !.attempts_since_verified = 0,
                      !.continuity = HealthyContinuity(s)]

(* Mutant of ReportServiceHealthy: no accepted activation is required.      *)
ReportServiceHealthyUnactivated(s, i) ==
  /\ opened
  /\ EffectMatches(s, i)
  /\ RecordEffect(s, VerifiedRuntime(s))

(* A healthy report counts only after an accepted activation.               *)
ReportServiceHealthy(s, i) ==
  /\ opened
  /\ EffectMatches(s, i)
  /\ services[s].activation_accepted
  /\ RecordEffect(s, VerifiedRuntime(s))

-----------------------------------------------------------------------------
(* Restart.                                                                 *)

(* The process ends, by close() or by a crash.  No operation is accepted    *)
(* until the store has been reopened.                                       *)
Close ==
  /\ opened
  /\ disk.epoch < MaxEpoch
  /\ opened' = FALSE
  /\ UNCHANGED <<epoch, registry, evidence, authority, disk>>

(* What a restart does to a recovered service: unanswered attempts have an  *)
(* unknown outcome, work in flight waits for authorization again, and no    *)
(* verified claim survives.                                                 *)
InFlight(runtime) ==
  runtime.recovery \in
    {"IntentRecorded", "Authorized", "ActivationRequested", "EffectReported"}

PushedBack(runtime) ==
  [runtime EXCEPT
     !.history = [k \in DOMAIN @ |->
        IF @[k].acknowledged THEN @[k]
        ELSE [@[k] EXCEPT !.outcome = "OutcomeUnknown"]],
     !.recovery = IF InFlight(runtime) THEN "IntentRecorded" ELSE @,
     !.lifecycle = IF InFlight(runtime) \/ runtime.recovery = "AmbiguityPending"
                   THEN "RecoveryPending" ELSE @]

(* Mutant of Downgraded: verified claims are carried across.                *)
DowngradedWithClaims(runtime) == PushedBack(runtime)

Downgraded(runtime) == InvalidateVerification(PushedBack(runtime))

(* The store is read back, the epoch advances durably, and everything that  *)
(* depended on the previous incarnation is downgraded before any request.   *)
Open ==
  /\ ~opened
  /\ disk.decodable
  /\ opened' = TRUE
  /\ epoch' = disk.epoch + 1
  /\ services' = [s \in Service |-> Downgraded(disk.services[s])]
  /\ fences' = disk.fences
  /\ witnesses' = disk.witnesses
  /\ failures' = disk.failures
  /\ failure_order' = disk.failure_order
  /\ latest_failure' = disk.latest_failure
  /\ next_evidence_id' = disk.next_evidence_id
  /\ next_attempt_id' = disk.next_attempt_id
  /\ capabilities' = [t \in Target |->
       IF capabilities[t] = NoSlot THEN NoSlot
       ELSE [capabilities[t] EXCEPT !.requires_reconfirmation = TRUE]]
  /\ UNCHANGED <<topology, policy, targets, intents>>
  /\ Persist([disk EXCEPT !.epoch = epoch'])

-----------------------------------------------------------------------------
RegistryStep ==
  \/ \E s \in Service : RegisterService(s) \/ WithdrawService(s)
  \/ \E t \in Target : \E inc \in Incarnations[t] : RegisterTarget(t, inc)
  \/ \E t \in Retirable : RetireTarget(t)
  \/ \E g \in 1 .. MaxTopology : SetTopologyGeneration(g)
  \/ \E p \in Policies : SetPolicy(p)

EvidenceStep ==
  \/ \E t \in Target, g \in 1 .. MaxCapability, c \in Coverages :
       IngestCapability(t, g, c)
  \/ \E s \in Service, t \in Target, e \in EvidenceId, a \in Ambiguities :
       \E inc \in Incarnations[t] :
         IngestFailure(s, [target |-> t, inc |-> inc], e, a)

RecoveryStep ==
  \E s \in Service :
    \/ \E t \in Target : EstablishPlacement(s, t)
    \/ \E e \in EvidenceId, a \in BOOLEAN : RequestFailoverOnEvidence(s, e, a)
    \/ \E e \in EvidenceId : RefuseAmbiguous(s, e)
    \/ RequestFailoverByOperator(s)
    \/ ResumeRecovery(s)
    \/ ResolveAlive(s)
    \/ ResolveConfirmed(s)
    \/ RequestFailback(s)

ExecutorStep ==
  \E i \in intents :
    \/ \E accepted \in BOOLEAN : AcknowledgeIntent(i, accepted)
    \/ \E s \in Service :
         \/ "Negative" \in EffectKinds /\ ReportNegative(s, i)
         \/ "ActivationAccepted" \in EffectKinds /\ ReportActivationAccepted(s, i)
         \/ "DeactivationAcknowledged" \in EffectKinds
              /\ ReportDeactivationAcknowledged(s, i)
         \/ "StateTransferComplete" \in EffectKinds
              /\ ReportStateTransferComplete(s, i)
         \/ "ServiceHealthy" \in EffectKinds /\ ReportServiceHealthy(s, i)

Next == RegistryStep \/ EvidenceStep \/ RecoveryStep \/ ExecutorStep \/ Close \/ Open

Spec == Init /\ [][Next]_vars

-----------------------------------------------------------------------------
(* Properties.                                                              *)

(* Every variable has its type, the bound on the attempt history included,  *)
(* in memory and in the image a restart would recover.                      *)
MemoryTypeOK ==
  /\ opened \in BOOLEAN
  /\ epoch \in Nat
  /\ topology \in Nat
  /\ policy \in Policy
  /\ targets \in [Target -> Nat]
  /\ \A t \in Target : targets[t] \in {0} \cup Incarnations[t]
  /\ capabilities \in [Target -> CapabilitySlot \cup {NoSlot}]
  /\ failures \in [EvidenceId -> FailureEvidence \cup {NoEvidence}]
  /\ failure_order \in Seq(EvidenceId)
  /\ latest_failure \in [Service -> {0} \cup EvidenceId]
  /\ next_evidence_id \in Nat \ {0}
  /\ services \in [Service -> ServiceRuntime]
  /\ fences \in [Service -> FenceRecord]
  /\ witnesses \in [Service -> [Target -> Nat]]
  /\ next_attempt_id \in Nat \ {0}
  /\ intents \subseteq FailoverIntent

TypeOK == MemoryTypeOK /\ disk \in Image

(* verify_fence: the verdict on a holder that presents a token.             *)
FenceVerdict(s, presented, holder) ==
  IF fences[s].token = 0 THEN "NoAuthority"
  ELSE IF presented < fences[s].token THEN "FenceStale"
  ELSE IF presented > fences[s].token THEN "FenceRegression"
  ELSE IF holder # fences[s].holder THEN "FenceHeldByOther"
  ELSE IF witnesses[s][holder.target] # 0
            /\ holder.inc <= witnesses[s][holder.target] THEN "FallbackFenced"
  ELSE "AcceptFenceAdvanced"

(* The counters of one service advance together and name one placement: the *)
(* fence record, the runtime's copy of it, the failover generation and the  *)
(* lease term.  commit_recovery derives them from three separate maps.      *)
Lockstep ==
  \A s \in Service :
    /\ fences[s].token = services[s].fence
    /\ fences[s].token = services[s].generation
    /\ fences[s].token = services[s].lease_term
    /\ fences[s].holder = services[s].active

(* What a restart would recover of the authority handed out: fences,        *)
(* witnesses, placements and the attempt being worked on.                   *)
GrantsDurable ==
  /\ disk.fences = fences
  /\ disk.witnesses = witnesses
  /\ \A s \in Service :
       /\ disk.services[s].active = services[s].active
       /\ disk.services[s].fence = services[s].fence
       /\ disk.services[s].generation = services[s].generation
       /\ disk.services[s].lease_term = services[s].lease_term
       /\ disk.services[s].current_attempt = services[s].current_attempt

(* Where a service came from: what is recovered is what memory says, except *)
(* after a failback, which forgets the origin in memory alone; the one that *)
(* is recovered then is a past incarnation of the placement in force.       *)
OriginDurable(now, recovered) ==
  /\ recovered.pre_failover_capability = now.pre_failover_capability
  /\ \/ /\ recovered.pre_failover_target = now.pre_failover_target
        /\ recovered.failover_recorded = now.failover_recorded
     \/ /\ now.pre_failover_target = NoRef /\ ~now.failover_recorded
        /\ recovered.failover_recorded
        /\ recovered.pre_failover_target.target = recovered.active.target
        /\ recovered.pre_failover_target.inc < recovered.active.inc

(* Whenever the process ends, a restart recovers exactly the authority that *)
(* was handed out, and the origin memory had or one that is behind it,      *)
(* whether the last thing written was a journal record or a snapshot        *)
(* (persist before apply, rotate after apply).                              *)
AuthorityDurable ==
  GrantsDurable /\ \A s \in Service : OriginDurable(services[s], disk.services[s])

(* Every intent an executor may hold is covered by the fence in memory, and *)
(* the newest one names the holder: no crash makes the coordinator forget   *)
(* an authority it gave away.                                               *)
IntentsFenced ==
  \A i \in intents :
    /\ i.fence <= fences[i.service].token
    /\ i.fence = fences[i.service].token => i.to = fences[i.service].holder

(* Once a newer intent exists for the service, verify_fence rejects every   *)
(* older one as stale, across any number of restarts.                       *)
SupersededIntentsRejected ==
  \A i, j \in intents :
    i.service = j.service /\ i.fence < j.fence =>
      FenceVerdict(i.service, i.fence, i.to) = "FenceStale"

(* An intent is fresh authority, with a token above every earlier one, or   *)
(* the re-delivery of the newest: same attempt, fence, generation and       *)
(* placement, so that an executor that saw it recognises a duplicate.       *)
FreshOrReissued ==
  \A i \in intents' \ intents : \A j \in intents :
    i.service = j.service =>
      \/ j.fence < i.fence
      \/ /\ j.fence = i.fence
         /\ j.attempt = i.attempt
         /\ j.generation = i.generation
         /\ j.lease_term = i.lease_term
         /\ j.to = i.to

IntentsFreshOrReissued == [][FreshOrReissued]_vars

(* What the services can see of the authority: the token in force, and the  *)
(* grants their executors were given.                                       *)
TokenInForce == [s \in Service |-> fences[s].token]
Granted == {[service |-> i.service, token |-> i.fence, holder |-> i.to] : i \in intents}

Authority == INSTANCE FenceAuthority WITH
  Holder <- AdoptedRef, top <- TokenInForce, granted <- Granted

(* The coordinator implements FenceAuthority: through every commit, resume, *)
(* failback, compaction and restart, tokens are granted one at a time, each *)
(* to one adopted placement, and no grant is forgotten or made twice.       *)
ImplementsAuthority == Authority!Spec

(* Continuity is claimed only for a placement whose activation was accepted *)
(* and whose health was reported for the attempt in force; a stateful       *)
(* service needs a verified transfer for the full class.                    *)
ContinuityEarned ==
  \A s \in Service :
    services[s].continuity \in {"Degraded", "Full"} =>
      /\ services[s].effect_verified
      /\ services[s].activation_accepted
      /\ services[s].recovery = "Verified"
      /\ services[s].lifecycle = "FallbackActive"
      /\ services[s].continuity = "Full" /\ s \in Stateful =>
           services[s].state_transfer_verified

(* A claim never outlives what it rested on: whenever the fence of a        *)
(* service or the epoch of the coordinator changes, or a failure report     *)
(* turns out ambiguous, the same step drops continuity and the effects      *)
(* behind it, in commit_recovery, apply_restart_recovery and                *)
(* do_ingest_failure alike.                                                 *)
ClaimDropped ==
  \A s \in Service :
    \/ fences'[s].token # fences[s].token
    \/ epoch' # epoch
    \/ services'[s].ambiguity_pending /\ ~services[s].ambiguity_pending
    => /\ services'[s].continuity = "Unknown"
       /\ ~services'[s].effect_verified
       /\ ~services'[s].activation_accepted
       /\ ~services'[s].state_transfer_verified

ClaimsDropWithAuthority == [][ClaimDropped]_vars

(* An old holder stays out: a placement that some intent named and that is  *)
(* no longer active has a fence witness at its incarnation or a newer one,  *)
(* which is what keeps evaluate_candidate from choosing it again.           *)
SupersededHoldersExcluded ==
  \A i \in intents :
    \/ i.to = services[i.service].active
    \/ i.to.inc <= witnesses[i.service][i.to.target]

(* What model.hpp says of incarnations: a target that registers again does  *)
(* not do so below an incarnation at which it was given authority.          *)
(* register_target compares with the registered incarnation alone, and a    *)
(* retired target has none.                                                 *)
ReturnsForward ==
  \A t \in Target :
    targets[t] = 0 /\ targets'[t] # 0 =>
      \A i \in intents : i.to.target = t => i.to.inc <= targets'[t]

IncarnationsForward == [][ReturnsForward]_vars

(* The placement in authority passes verify_fence with its own token: the   *)
(* coordinator never fences out the holder it has just appointed.           *)
HolderAuthorized ==
  \A s \in Service :
    fences[s].token # 0 =>
      FenceVerdict(s, fences[s].token, fences[s].holder) = "AcceptFenceAdvanced"

(* No policy in force so far has permitted a failback.                      *)
NoFailbackYet ==
  \A p \in Policies : p.generation <= policy.generation => ~p.allow_failback

(* The same as long as no policy has permitted a failback.                  *)
HolderAuthorizedWithoutFailback == NoFailbackYet => HolderAuthorized

(* A reopened coordinator decides nothing on what it knew before: no        *)
(* capability evidence makes a target eligible and no failure evidence      *)
(* justifies a recovery until it is reported again.                         *)
NothingCarriedOver ==
  epoch' # epoch =>
    \A s \in Service :
      /\ \A t \in Target : ~Eligible(s, t)'
      /\ \A e \in EvidenceId : ~EvidenceCurrent(s, e)'

RestartConservative == [][NothingCarriedOver]_vars

(* An acknowledgement that passes every check of do_acknowledge_intent is   *)
(* applied to the service its intent was issued for, although the message   *)
(* carries an attempt identity and no service name.                         *)
AcksReachTheirService ==
  \A i \in intents : \A s \in AckedService(i) :
    i.generation = services[s].generation /\ i.fence = services[s].fence =>
      s = i.service

(* The ambiguous report an operator has to name is retained, unless the     *)
(* ceiling was reached and evict_failures_if_needed took it.                *)
PendingKept(runtime, fs) ==
  runtime.ambiguity_pending =>
    \/ runtime.pending_ambiguity \in RetainedIn(fs)
    \/ Cardinality(RetainedIn(fs)) + 1 >= MaxRetained

(* What names evidence still finds it, the newest failure of a service as   *)
(* well as the one that is pending.                                         *)
EvidenceKept(svcs, fs, latest) ==
  \A s \in Service :
    /\ latest[s] # 0 => latest[s] \in RetainedIn(fs)
    /\ PendingKept(svcs[s], fs)

(* Through eviction, confirmation, re-used identifiers and restarts, that   *)
(* is so in memory and in what a restart would recover, and the restart     *)
(* would recover all the evidence memory holds.                             *)
NamedEvidenceKept ==
  /\ EvidenceKept(services, failures, latest_failure)
  /\ EvidenceKept(disk.services, disk.failures, disk.latest_failure)
  /\ RetainedIn(failures) \subseteq RetainedIn(disk.failures)

(* Stronger: an ambiguity can always be resolved, its evidence is there and *)
(* is about the service that waits.                                         *)
AmbiguityAlwaysResolvable ==
  \A s \in Service :
    services[s].ambiguity_pending =>
      /\ Retained(services[s].pending_ambiguity)
      /\ failures[services[s].pending_ambiguity].service = s

(* A restart keeps an unresolved ambiguity pending.                         *)
AmbiguityKept ==
  epoch' # epoch =>
    \A s \in Service :
      services[s].ambiguity_pending => services'[s].ambiguity_pending

AmbiguitySurvivesRestart == [][AmbiguityKept]_vars

(* A restart leaves a withdrawn service withdrawn.                          *)
WithdrawnKept ==
  epoch' # epoch =>
    \A s \in Service :
      services[s].lifecycle = "Withdrawn" => services'[s].lifecycle = "Withdrawn"

WithdrawalSurvivesRestart == [][WithdrawnKept]_vars

(* An attempt that a negative effect ended is over: until there is a new    *)
(* attempt or a resume, do_report_effect accepts no activation for it.      *)
EndedNegatively(s) ==
  /\ services[s].lifecycle = "Failed"
  /\ services[s].recovery = "EffectReported"
  /\ ~services[s].activation_accepted

StaysEnded ==
  \A s \in Service :
    EndedNegatively(s) /\ services'[s].fence = services[s].fence =>
      ~services'[s].activation_accepted

NegativeEffectIsFinal == [][StaysEnded]_vars

(* Whatever the coordinator writes it can read back.                        *)
Reopenable == disk.decodable
=============================================================================
