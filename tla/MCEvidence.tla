----------------------------- MODULE MCEvidence -----------------------------
(* Instances of Evidence.                                                   *)
EXTENDS Evidence

Hard(s) == [service |-> s, hard |-> TRUE]
Soft(s) == [service |-> s, hard |-> FALSE]

(* A chain of hard dependencies with a soft edge back to its start.         *)
MCChain == <<<<Hard(2)>>, <<Hard(3)>>, <<Soft(1)>>>>
MCChainObserved == {<<1, 2>>, <<2, 3>>}

(* The reporters are interchangeable.                                       *)
MCSymmetry == Permutations(Source)

(* Two services that share a dependency, and one that needs both.           *)
MCDiamond == <<<<Hard(2), Hard(3)>>, <<Hard(4)>>, <<Hard(4)>>, <<>>>>
MCDiamondObserved == {<<1, 2>>, <<1, 3>>, <<2, 4>>, <<3, 4>>}

(* Reports on pairs of services that declare no dependencies.               *)
MCUndeclared == <<<<>>, <<>>, <<>>>>
MCUndeclaredObserved == {<<1, 2>>, <<1, 3>>}
=============================================================================
