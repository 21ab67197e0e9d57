------------------------------ MODULE OffTypes ------------------------------
(***************************************************************************)
(* The vocabulary shared by the modules of this project: names, phases,    *)
(* placements and the descriptor data of services and targets.             *)
(*                                                                         *)
(* The code keeps its registries in std::maps ordered by name, and two of  *)
(* its decisions depend on that order (which candidate wins a tie, which   *)
(* service an acknowledgement is matched with).  Names are therefore       *)
(* numbers, in the order of the names they stand for.                      *)
(***************************************************************************)
EXTENDS Naturals, FiniteSets

CONSTANTS
  NumServices,     \* services are 1 .. NumServices
  NumTargets,      \* targets are 1 .. NumTargets
  Scope,           \* Scope[s]: the targets in the governed scope of service s
  Host,            \* Host[t]: the host of target t
  DeviceRank,      \* DeviceRank[t]: the rank of the device kind of target t
  Stateful,        \* the services whose descriptor says Stateful
  NeedsTransfer,   \* the services with the StateTransfer precondition
  NeedsOperator    \* the services with the OperatorAuthorization precondition

Service == 1 .. NumServices
Target  == 1 .. NumTargets

(* Only Synthetic (0), HostCpu (1), SmartNic (2) and Dpu (3) exist.         *)
ASSUME DescriptorAssumption ==
  /\ NumServices \in Nat
  /\ NumTargets \in Nat
  /\ Scope \in [Service -> SUBSET Target]
  /\ DOMAIN Host = Target
  /\ DeviceRank \in [Target -> 0 .. 3]
  /\ Stateful \subseteq Service
  /\ NeedsTransfer \subseteq Service
  /\ NeedsOperator \subseteq Service

LifecyclePhase ==
  {"Unregistered", "Registered", "Active", "RecoveryPending",
   "RecoveryAuthorized", "FallbackActive", "Failed", "Withdrawn"}

RecoveryPhase ==
  {"None", "IntentRecorded", "Authorized", "ActivationRequested",
   "EffectReported", "Verified", "Refused", "AmbiguityPending"}

ContinuityClass == {"Unknown", "None", "Degraded", "Full"}

AttemptOutcome == {"Committed", "Acknowledged", "Refused", "OutcomeUnknown"}

(* A placement: which target, at which incarnation.  An incarnation is a    *)
(* (host, device) pair under the lexicographic order; the model numbers the *)
(* pairs.  Zero is the initial incarnation, which names no adopted target.  *)
TargetRef == [target : Target, inc : Nat \ {0}]
NoRef     == [target |-> 0, inc |-> 0]
OptionalRef == TargetRef \cup {NoRef}
=============================================================================
