-------------------------- MODULE IntentQueueProofs -------------------------
(***************************************************************************)
(* No wakeup is lost, for any set of waiting threads and any capacity.     *)
(***************************************************************************)
EXTENDS IntentQueue, TLAPS

(* The invariant is inductive once the values of `waiting' are known.       *)
QueueInv ==
  /\ waiting \in [Waiter -> {"idle", "blocked", "woken"}]
  /\ SleepersHaveNothingToDo

(* Evaluating the predicate in wait_pop sends a thread to sleep only when   *)
(* there is nothing to return with, and takes nothing away from sleepers.   *)
LEMMA EvaluateKeepsQueueInv ==
  ASSUME QueueInv, NEW w \in Waiter, waiting[w] # "blocked", Evaluate(w)
  PROVE  QueueInv'
<1>1. CASE queue # <<>>
  <2>1. \A v \in Waiter : waiting[v] # "blocked"
    BY <1>1 DEF QueueInv, SleepersHaveNothingToDo
  <2>2. waiting' = [waiting EXCEPT ![w] = "idle"]
    BY <1>1 DEF Evaluate
  <2> QED BY <2>1, <2>2 DEF QueueInv, SleepersHaveNothingToDo
<1>2. CASE queue = <<>> /\ closed_
  <2>1. \A v \in Waiter : waiting[v] # "blocked"
    BY <1>2 DEF QueueInv, SleepersHaveNothingToDo
  <2>2. waiting' = [waiting EXCEPT ![w] = "idle"]
    BY <1>2 DEF Evaluate
  <2> QED BY <2>1, <2>2 DEF QueueInv, SleepersHaveNothingToDo
<1>3. CASE queue = <<>> /\ ~closed_
  <2>1. waiting' = [waiting EXCEPT ![w] = "blocked"] /\ queue' = <<>> /\ ~closed_'
    BY <1>3 DEF Evaluate
  <2> QED BY <2>1 DEF QueueInv, SleepersHaveNothingToDo
<1> QED BY <1>1, <1>2, <1>3

(* After notify_all nobody sleeps.                                          *)
LEMMA NotifyAllWakes ==
  ASSUME QueueInv, waiting' = NotifyAll
  PROVE  QueueInv'
<1>1. waiting' \in [Waiter -> {"idle", "blocked", "woken"}]
  BY DEF QueueInv, NotifyAll
<1>2. \A w \in Waiter : waiting'[w] # "blocked"
  BY DEF QueueInv, NotifyAll
<1> QED BY <1>1, <1>2 DEF QueueInv, SleepersHaveNothingToDo

(* Every step of the queue and of its threads keeps the invariant.          *)
LEMMA QueueInvStep == QueueInv /\ [Next]_vars => QueueInv'
<1> SUFFICES ASSUME QueueInv, [Next]_vars PROVE QueueInv'
  OBVIOUS
<1>1. CASE Push
  <2>1. CASE waiting' = NotifyAll
    BY <2>1, NotifyAllWakes
  <2>2. CASE UNCHANGED <<queue, waiting>>
    BY <1>1, <2>2 DEF Push, QueueInv, SleepersHaveNothingToDo
  <2> QED BY <1>1, <2>1, <2>2 DEF Push
<1>2. CASE TakeIntent
  BY <1>2 DEF TakeIntent, QueueInv, SleepersHaveNothingToDo
<1>3. CASE Open
  BY <1>3 DEF Open, QueueInv, SleepersHaveNothingToDo
<1>4. CASE Close
  BY <1>4, NotifyAllWakes DEF Close
<1>5. ASSUME NEW w \in Waiter, WaitForIntent(w) PROVE QueueInv'
  BY <1>5, EvaluateKeepsQueueInv DEF WaitForIntent
<1>6. ASSUME NEW w \in Waiter, Wake(w) PROVE QueueInv'
  BY <1>6, EvaluateKeepsQueueInv DEF Wake
<1>7. CASE UNCHANGED vars
  BY <1>7 DEF vars, QueueInv, SleepersHaveNothingToDo
<1> QED BY <1>1, <1>2, <1>3, <1>4, <1>5, <1>6, <1>7 DEF Next

(* A thread that sleeps in wait_for_intent never overlooks a queued intent  *)
(* or a closed queue, whatever number of threads wait and take.             *)
THEOREM NoLostWakeup == Spec => []SleepersHaveNothingToDo
<1>1. Init => QueueInv
  BY DEF Init, QueueInv, SleepersHaveNothingToDo
<1>2. QueueInv => SleepersHaveNothingToDo
  BY DEF QueueInv
<1> QED BY <1>1, <1>2, QueueInvStep, PTL DEF Spec
=============================================================================
