---------------------------- MODULE MCSelection -----------------------------
(***************************************************************************)
(* The choice of a fallback, checked over every input of a small instance: *)
(* any failed target, any registered and eligible targets, any ceiling.    *)
(***************************************************************************)
EXTENDS Selection, SequencesExt

VARIABLES
  failed,      \* the target the service leaves, 0 when it has no placement
  registered,  \* the targets in State::targets
  eligible,    \* the targets evaluate_candidate admits
  ceiling      \* min(policy.max_candidates, config.max_fallback_candidates)

MCScope == [s \in Service |-> Target]
MCHost == [t \in Target |-> t % 2]
MCDeviceRank == [t \in Target |-> IF t <= 2 THEN 1 ELSE 3]

vars == <<failed, registered, eligible, ceiling>>

Init ==
  /\ failed \in {0} \cup Target
  /\ registered \in SUBSET Target
  /\ eligible \in SUBSET registered
  /\ ceiling \in 1 .. NumTargets

(* Registrations, reports and a wider ceiling may change one input.         *)
Next ==
  \/ /\ ceiling < NumTargets
     /\ ceiling' = ceiling + 1
     /\ UNCHANGED <<failed, registered, eligible>>
  \/ /\ \E t \in registered \ eligible : eligible' = eligible \cup {t}
     /\ UNCHANGED <<failed, registered, ceiling>>

Spec == Init /\ [][Next]_vars

Winner == SelectFallback(failed, registered, ceiling, eligible)

(* The loop of select_fallback, step by step: order by one numeric key, cut *)
(* the list, take the first entry that evaluates Ok.                        *)
Key(t) ==
  (IF failed \in registered /\ Host[t] = Host[failed] THEN 1000 ELSE 0)
    + 100 * (3 - DeviceRank[t]) + t

ScannedWinner ==
  LET ordered == SetToSortSeq(registered \ {failed}, LAMBDA a, b : Key(a) < Key(b))
      size == IF Len(ordered) < ceiling THEN Len(ordered) ELSE ceiling
      admitted == SelectSeq(SubSeq(ordered, 1, size), LAMBDA t : t \in eligible)
  IN  IF admitted = <<>> THEN {} ELSE {admitted[1]}

(* The winner is the one the sort, cut and scan of select_fallback finds.   *)
WinnerIsFirstScanned == Winner = ScannedWinner

(* A wider ceiling never takes the choice away from a target that already   *)
(* wins: ordering comes before the cut.                                     *)
WideningKeepsWinner ==
  [][ceiling' # ceiling /\ Winner # {} => Winner' = Winner]_vars

(* The ceiling does not change which candidate wins.                        *)
TruncationNeutral ==
  Winner = SelectFallback(failed, registered, NumTargets, eligible)
=============================================================================
