------------------------------ MODULE MCFabric ------------------------------
(* Small instances of Fabric for TLC.                                       *)
EXTENDS Fabric

(* Every target is in the scope of every service; targets 1 and 2 share a   *)
(* host, target 2 has the better device.                                    *)
MCScope == [s \in Service |-> Target]
MCHost == [t \in Target |-> IF t <= 2 THEN 1 ELSE 2]
MCDeviceRank == [t \in Target |-> IF t = 2 THEN 3 ELSE 1]

MCPolicy(generation, attempts, failback, degraded) ==
  [generation |-> generation, max_attempts |-> attempts, max_plan_steps |-> 8,
   max_candidates |-> 3, allow_failback |-> failback, allow_degraded |-> degraded]

MCInitialPolicy == MCPolicy(1, 2, FALSE, TRUE)
MCPolicies == {MCInitialPolicy}

(* A policy too tight for the plan of any move is followed by one that      *)
(* permits moves, one that permits failback too, and an invalid one.        *)
MCTightPolicy == [MCPolicy(1, 2, FALSE, TRUE) EXCEPT !.max_plan_steps = 6]
MCSuccessivePolicies ==
  {MCTightPolicy, MCPolicy(2, 2, FALSE, TRUE), MCPolicy(3, 3, TRUE, TRUE),
   MCPolicy(4, 0, TRUE, TRUE)}

(* A policy that permits failback from the start.                           *)
MCFailbackPolicy == MCPolicy(1, 3, TRUE, TRUE)
MCFailbackPolicies == {MCFailbackPolicy}

(* Failback and enough attempts for a chain of moves.                       *)
MCLongPolicy == MCPolicy(1, 5, TRUE, TRUE)
MCLongPolicies == {MCLongPolicy}

(* Reports cover every service.                                             *)
MCCoverages == {Service}

(* Bound: evidence is pressed against the ceiling before executors answer   *)
(* and services are withdrawn; it is in the order of the list, which counts *)
(* an identifier given out twice, that a restart and an intent have a place. *)
MCPressedEarly ==
  Cardinality(RetainedIn(disk.failures)) > 1 =>
    \A s \in Service :
      /\ services[s].recovery \notin {"ActivationRequested", "EffectReported", "Verified"}
      /\ ~services[s].state_transfer_verified
      /\ services[s].lifecycle # "Withdrawn"
      /\ Len(disk.failure_order) + Cardinality(intents) + epoch <= 5

MCThreeIncarnations ==
  [t \in Target |-> IF t = 1 THEN {1, 2, 3} ELSE {1, 2}]
MCOneIncarnation == [t \in Target |-> {1}]
MCTwoIncarnations == [t \in Target |-> IF t = 1 THEN {1, 2} ELSE {1}]
=============================================================================
