------------------------------- MODULE MCWire -------------------------------
(* Small instances of Wire for TLC.                                         *)
EXTENDS Wire

Pull == [op |-> "pull", key |-> 0, size |-> 1]
Oversize == [op |-> "pull", key |-> 0, size |-> 3]
FailoverOf(k) == [op |-> "failover", key |-> k, size |-> 1]

(* The first client takes smaller frames than the daemon sends; the second  *)
(* has the daemon's ceiling.                                                *)
MCMaxFrame == [c \in 0 .. NumClients |-> CASE c = 0 -> 2 [] c = 1 -> 1 [] c = 2 -> 2]

(* The second client retries the first command of the first, with up to two *)
(* decisions for other keys in between.                                     *)
MCScript == <<
  <<{FailoverOf(1)}, {FailoverOf(2), Pull, Oversize}>>,
  <<{FailoverOf(3), Pull}, {FailoverOf(1)}>> >>

(* A decision fits both ceilings, an intent the second client's or none.    *)
MCResponseSizes == [op \in {"failover", "pull"} |-> IF op = "pull" THEN {2, 3} ELSE {1}]

(* For MCWire_stuck: one client whose ceiling no intent fits.               *)
StuckScript == << <<{Pull}, {Pull}>> >>
=============================================================================
