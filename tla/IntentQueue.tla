----------------------------- MODULE IntentQueue ----------------------------
(***************************************************************************)
(* The bounded queue that hands emitted intents to executor threads, with  *)
(* its own mutex and condition variable.  Committing threads push while    *)
(* they hold the state mutex; consumers and waiters take only the queue's, *)
(* so they interleave freely with open and close.                          *)
(*                                                                         *)
(* A waiter that was notified is runnable, not done: it evaluates its      *)
(* predicate again when it gets the queue's mutex, which may be after the  *)
(* queue has changed again.                                                *)
(***************************************************************************)
EXTENDS Naturals, Sequences

CONSTANTS
  Waiter,      \* the threads that call wait_for_intent
  Capacity,    \* config.max_intent_queue
  MaxIntents,  \* bound: intents emitted
  MaxOpens     \* bound: calls of open

ASSUME IntentQueueAssumption ==
  Capacity \in Nat \ {0} /\ MaxIntents \in Nat /\ MaxOpens \in Nat

VARIABLES
  opened,   \* Impl::opened
  queue,    \* IntentQueue::queue_
  closed_,  \* IntentQueue::closed_
  waiting,  \* waiting[w]: "idle", "blocked" in wait_pop, or "woken" from it
  emitted,  \* history: intents emitted so far
  opens     \* history: calls of open so far

vars == <<opened, queue, closed_, waiting, emitted, opens>>

Init ==
  /\ opened = FALSE /\ closed_ = FALSE /\ queue = <<>>
  /\ waiting = [w \in Waiter |-> "idle"]
  /\ emitted = 0 /\ opens = 0

(* Mutant of NotifyAll: the notification is forgotten.                      *)
NotifyNobody == waiting

(* ready_.notify_all                                                        *)
NotifyAll ==
  [w \in Waiter |-> IF waiting[w] = "blocked" THEN "woken" ELSE waiting[w]]

HasRoom == Len(queue) < Capacity

(* A commit emits an intent; a full queue drops it and wakes nobody.        *)
Push ==
  /\ opened /\ ~closed_
  /\ emitted < MaxIntents /\ emitted' = emitted + 1
  /\ \/ /\ HasRoom
        /\ queue' = Append(queue, emitted') /\ waiting' = NotifyAll
     \/ ~HasRoom /\ UNCHANGED <<queue, waiting>>
  /\ UNCHANGED <<opened, closed_, opens>>

(* take_intent never waits, and does not ask whether the runtime is open.   *)
TakeIntent ==
  /\ queue # <<>> /\ queue' = Tail(queue)
  /\ UNCHANGED <<opened, closed_, waiting, emitted, opens>>

(* wait_pop evaluates its predicate: return with an intent, return without  *)
(* one because the queue is closed, or sleep.                               *)
Evaluate(w) ==
  /\ \/ /\ queue # <<>>
        /\ queue' = Tail(queue) /\ waiting' = [waiting EXCEPT ![w] = "idle"]
     \/ /\ queue = <<>> /\ closed_
        /\ waiting' = [waiting EXCEPT ![w] = "idle"] /\ UNCHANGED queue
     \/ /\ queue = <<>> /\ ~closed_
        /\ waiting' = [waiting EXCEPT ![w] = "blocked"] /\ UNCHANGED queue
  /\ UNCHANGED <<opened, closed_, emitted, opens>>

WaitForIntent(w) == waiting[w] = "idle" /\ Evaluate(w)
Wake(w)          == waiting[w] = "woken" /\ Evaluate(w)

(* Impl::open reopens the queue first; reading the store may then fail.     *)
Open ==
  /\ ~opened /\ opens < MaxOpens /\ opens' = opens + 1
  /\ closed_' = FALSE
  /\ opened' \in BOOLEAN
  /\ UNCHANGED <<queue, waiting, emitted>>

(* Mutant of Close: sleeping threads are not notified.                      *)
CloseSilently ==
  /\ opened /\ opened' = FALSE
  /\ closed_' = TRUE
  /\ UNCHANGED <<queue, waiting, emitted, opens>>

Close ==
  /\ opened /\ opened' = FALSE
  /\ closed_' = TRUE /\ waiting' = NotifyAll
  /\ UNCHANGED <<queue, emitted, opens>>

Next ==
  \/ Push \/ TakeIntent \/ Open \/ Close
  \/ \E w \in Waiter : WaitForIntent(w) \/ Wake(w)

(* A runnable thread eventually runs and gets the queue's mutex.            *)
Fairness == \A w \in Waiter : WF_vars(Wake(w))

Spec == Init /\ [][Next]_vars /\ Fairness

-----------------------------------------------------------------------------
(* No wakeup is lost: a thread that sleeps in wait_pop has nothing to       *)
(* return with, however pushes, takes, closes and other waiters interleave. *)
SleepersHaveNothingToDo ==
  \A w \in Waiter : waiting[w] = "blocked" => queue = <<>> /\ ~closed_

(* Work is handed over: while an intent is queued, a thread in              *)
(* wait_for_intent returns, unless others have emptied the queue.           *)
WorkIsTaken ==
  \A w \in Waiter :
    (waiting[w] # "idle" /\ queue # <<>>) ~> (waiting[w] = "idle" \/ queue = <<>>)

(* close() releases the threads that wait: each of them returns, or the     *)
(* runtime has been opened again before it ran.                             *)
CloseReleasesUnlessReopened ==
  \A w \in Waiter :
    (waiting[w] # "idle" /\ closed_) ~> (waiting[w] = "idle" \/ ~closed_)

(* wait_for_intent blocks until an intent is available or the runtime is    *)
(* closed: once close() has run, every thread blocked at that moment        *)
(* returns.                                                                 *)
CloseReleasesWaiters ==
  \A w \in Waiter : (waiting[w] # "idle" /\ closed_) ~> (waiting[w] = "idle")

(* Closing and opening again leaves no intent of the earlier session in the *)
(* queue.                                                                   *)
ReopenedEmpty == [][~opened /\ opened' => queue' = <<>>]_vars
=============================================================================
