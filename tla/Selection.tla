----------------------------- MODULE Selection ------------------------------
(***************************************************************************)
(* The pure part of a recovery decision: which registered targets may take *)
(* a service over, in which order they are considered, and which one wins. *)
(***************************************************************************)
EXTENDS OffTypes

(* One retained capability observation of a target.  `covers' holds the     *)
(* services whose required capability set the observed set contains.        *)
CapabilitySlot ==
  [generation : Nat \ {0}, inc : Nat \ {0}, topology : Nat,
   covers : SUBSET Service, requires_reconfirmation : BOOLEAN]

NoSlot ==
  [generation |-> 0, inc |-> 0, topology |-> 0, covers |-> {},
   requires_reconfirmation |-> FALSE]

(* A slot that describes target incarnation `inc' as it is now.             *)
CurrentSlot(slot, inc, topology) ==
  /\ slot # NoSlot
  /\ ~slot.requires_reconfirmation
  /\ slot.topology = topology
  /\ slot.inc = inc

(* Mutant of EvaluateCandidate: the fenced incarnation itself passes.       *)
EvaluateCandidateAtFence(s, t, inc, fenced, slot, topology, unhealthy) ==
  /\ t \in Scope[s]
  /\ inc # 0
  /\ inc >= fenced
  /\ CurrentSlot(slot, inc, topology)
  /\ s \in slot.covers
  /\ t # unhealthy

(* May target t, registered at incarnation `inc', take over service s?      *)
(* `fenced' is the incarnation the fence witness of (s, t) excludes (0 when *)
(* there is none) and `unhealthy' the target named by the latest failure    *)
(* evidence of s (0 when there is none).                                    *)
EvaluateCandidate(s, t, inc, fenced, slot, topology, unhealthy) ==
  /\ t \in Scope[s]
  /\ inc # 0
  /\ inc > fenced
  /\ CurrentSlot(slot, inc, topology)
  /\ s \in slot.covers
  /\ t # unhealthy

(* The candidate order of select_fallback: another host first (when the     *)
(* failed target is still registered), then the higher device rank, then    *)
(* the name.                                                                *)
SameHost(failed, registered, t) ==
  failed \in registered /\ Host[t] = Host[failed]

(* Mutant of Precedes: the failed host is not avoided.                      *)
PrecedesByRank(failed, registered, a, b) ==
  \/ DeviceRank[a] > DeviceRank[b]
  \/ DeviceRank[a] = DeviceRank[b] /\ a < b

Precedes(failed, registered, a, b) ==
  LET near(t) == SameHost(failed, registered, t) IN
  \/ ~near(a) /\ near(b)
  \/ /\ near(a) = near(b)
     /\ \/ DeviceRank[a] > DeviceRank[b]
        \/ DeviceRank[a] = DeviceRank[b] /\ a < b

(* Mutant of Considered: the list is cut before it is ordered.              *)
ConsideredByName(failed, registered, ceiling) ==
  LET candidates == registered \ {failed} IN
  {c \in candidates : Cardinality({d \in candidates : d < c}) < ceiling}

(* The candidates left after the ordered list is cut at the ceiling.        *)
Considered(failed, registered, ceiling) ==
  LET candidates == registered \ {failed} IN
  {c \in candidates :
     Cardinality({d \in candidates : Precedes(failed, registered, d, c)}) < ceiling}

(* The set holding the winner: the first eligible one of those considered,  *)
(* or nothing when none is eligible.                                        *)
SelectFallback(failed, registered, ceiling, eligible) ==
  LET admitted == Considered(failed, registered, ceiling) \cap eligible IN
  {c \in admitted : \A d \in admitted \ {c} : Precedes(failed, registered, c, d)}
=============================================================================
