----------------------------- MODULE DurableLog -----------------------------
(***************************************************************************)
(* What the store promises the coordinator: a log of whole transactions.   *)
(* A commit that returned Ok is never lost.  A transaction a crash caught  *)
(* in flight is read back whole or not at all.  A refusal to open hands    *)
(* nothing back, so it is a stuttering step.  After a commit that failed,  *)
(* only wholeness is promised, until the store has been repaired by a      *)
(* compaction or read back.                                                *)
(***************************************************************************)
EXTENDS Naturals, Sequences

CONSTANT Transaction

VARIABLES
  log,      \* the transactions the coordinator has applied
  pending,  \* <<t>> while a commit of t is unanswered, else <<>>
  stable,   \* how many of them are on stable storage
  up,       \* the store is open
  faulty    \* a commit failed and what it wrote is still there

vars == <<log, pending, stable, up, faulty>>

Offered == log \o pending

Init == log = <<>> /\ pending = <<>> /\ stable = 0 /\ up = FALSE /\ faulty = FALSE

Begin(t) ==
  /\ up /\ pending = <<>>
  /\ pending' = <<t>>
  /\ UNCHANGED <<log, stable, up, faulty>>

Acknowledge ==
  /\ up /\ pending # <<>>
  /\ log' = Offered /\ stable' = Len(Offered) /\ pending' = <<>>
  /\ UNCHANGED <<up, faulty>>

Stop == up /\ up' = FALSE /\ UNCHANGED <<log, pending, stable, faulty>>

Fail ==
  /\ up /\ pending # <<>>
  /\ pending' = <<>> /\ faulty' = TRUE
  /\ UNCHANGED <<log, stable, up>>

Repair ==
  /\ up /\ pending = <<>>
  /\ faulty /\ faulty' = FALSE
  /\ UNCHANGED <<log, pending, stable, up>>

Recover ==
  /\ ~up /\ up' = TRUE
  /\ \/ /\ ~faulty
        /\ \E n \in stable .. Len(Offered) : log' = SubSeq(Offered, 1, n)
        /\ UNCHANGED stable
     \/ /\ faulty
        /\ log' \in Seq(Transaction) /\ stable' \in 0 .. stable
  /\ pending' = <<>> /\ faulty' = FALSE

Next ==
  \/ (\E t \in Transaction : Begin(t)) \/ Acknowledge \/ Fail \/ Repair
  \/ Stop \/ Recover

Spec == Init /\ [][Next]_vars
=============================================================================
