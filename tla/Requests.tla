------------------------------ MODULE Requests ------------------------------
(***************************************************************************)
(* Request keys: the cache of decisions that makes retries idempotent, and *)
(* the registry that cancellation and duplicate detection use.             *)
(*                                                                         *)
(* A keyed operation holds the state mutex from its wrapper's first line   *)
(* to its last; cancel() takes the same mutex.  What an operation decides  *)
(* is the business of Fabric: here it commits, refuses or, for an operator *)
(* who reports the target alive, answers without recording a decision.     *)
(* An operation without a key touches this only by compacting the journal, *)
(* which saves the cache in a snapshot.                                    *)
(***************************************************************************)
EXTENDS Naturals, FiniteSets, Sequences, Functions

CONSTANTS
  NumKeys,          \* keys are 1 .. NumKeys, in the order the snapshot lists them
  MaxRequestCache,  \* config.max_request_cache
  AckKeys,          \* the keys that executors put into acknowledgements
  Restarts,         \* subset of {"Reopen", "Crash"}: how the runtime comes back
  MaxDecisions,     \* bound: decisions made
  MaxRestarts       \* bound: restarts

Key == 1 .. NumKeys

ASSUME RequestsAssumption ==
  /\ NumKeys \in Nat /\ MaxRequestCache \in Nat \ {0}
  /\ AckKeys \subseteq Key /\ Restarts \subseteq {"Reopen", "Crash"}
  /\ MaxDecisions \in Nat /\ MaxRestarts \in Nat

VARIABLES
  opened,         \* Impl::opened
  inside,         \* the key whose operation holds the state mutex, 0 for none
  request_cache,  \* State::request_cache: key -> committed attempt, NoAttempt if refused
  request_order,  \* State::request_order: its keys, oldest first
  requests_,      \* CancelRegistry::requests_: key -> phase
  order_,         \* CancelRegistry::order_: its keys, oldest first
  saved,          \* the request cache in the newest snapshot
  decided,        \* history: the decisions made, recorded or not, in order
  restarts,       \* history: restarts so far
  process         \* history: the number of the process

cache == <<request_cache, request_order>>
registry == <<requests_, order_>>
vars == <<opened, inside, cache, registry, saved, decided, restarts, process>>

(* The attempt of a decision that committed none.                           *)
NoAttempt == 0
Without(f, ks) == [k \in DOMAIN f \ ks |-> f[k]]
With(f, k, v) == [j \in DOMAIN f \cup {k} |-> IF j = k THEN v ELSE f[j]]

(* std::erase on a queue that lists every key once.                         *)
Erase(seq, k) ==
  IF k \notin Range(seq) THEN seq
  ELSE LET i == CHOOSE i \in DOMAIN seq : seq[i] = k
       IN SubSeq(seq, 1, i - 1) \o SubSeq(seq, i + 1, Len(seq))

Init ==
  /\ opened = TRUE /\ inside = 0
  /\ request_cache = <<>> /\ request_order = <<>>
  /\ requests_ = <<>> /\ order_ = <<>>
  /\ saved = <<>> /\ decided = <<>> /\ restarts = 0 /\ process = 1

-----------------------------------------------------------------------------
(* The cache.                                                               *)

(* Mutant of Evicted: room is made one decision too late.                   *)
EvictedLate ==
  IF Cardinality(DOMAIN request_cache) > MaxRequestCache
  THEN {Head(request_order)} ELSE {}

(* The oldest decision makes room for a new key.                            *)
Evicted ==
  IF Cardinality(DOMAIN request_cache) >= MaxRequestCache
  THEN {Head(request_order)} ELSE {}

(* A key that is already known keeps its place in the order.                *)
Remember(k, decision) ==
  IF k \in DOMAIN request_cache
  THEN /\ request_cache' = [request_cache EXCEPT ![k] = decision]
       /\ UNCHANGED request_order
  ELSE /\ request_cache' = With(Without(request_cache, Evicted), k, decision)
       /\ request_order' =
            Append(IF Evicted = {} THEN request_order ELSE Tail(request_order), k)

Decision(k, decision) ==
  /\ Len(decided) < MaxDecisions
  /\ decided' = Append(decided, [key |-> k, attempt |-> decision, process |-> process])

-----------------------------------------------------------------------------
(* The registry.                                                            *)

(* What trim() pops, oldest first, until there is room; active keys it pops *)
(* stay registered.                                                         *)
Popped ==
  LET settled(n) == {k \in Range(SubSeq(order_, 1, n)) : requests_[k] # "Active"}
      room(n) == Cardinality(DOMAIN requests_ \ settled(n)) < MaxRequestCache
  IN CHOOSE n \in 0 .. Len(order_) :
       /\ room(n) \/ n = Len(order_)
       /\ \A m \in 0 .. n - 1 : ~room(m)

Trimmed ==
  {k \in Range(SubSeq(order_, 1, Popped)) : requests_[k] # "Active"}

(* The wrapper of a keyed operation: no recorded decision to replay, the    *)
(* key is not registered, and the registry has room.                        *)
Enter(k) ==
  /\ inside = 0 /\ Len(decided) < MaxDecisions
  /\ k \notin DOMAIN request_cache /\ k \notin DOMAIN requests_
  /\ Cardinality(DOMAIN requests_ \ Trimmed) < MaxRequestCache
  /\ requests_' = With(Without(requests_, Trimmed), k, "Active")
  /\ order_' = Append(SubSeq(order_, Popped + 1, Len(order_)), k)
  /\ inside' = k
  /\ UNCHANGED <<opened, cache, saved, decided, restarts, process>>

(* A key with a recorded decision is answered from the record, whatever the *)
(* operation; nothing is decided again.                                     *)
ReplayCached(k) ==
  /\ inside = 0
  /\ k \in DOMAIN request_cache
  /\ UNCHANGED vars

(* Mutant of RefuseInFlight: the refusal is recorded like any other.        *)
RefuseInFlightRemembered(k) ==
  /\ inside = 0
  /\ k \notin DOMAIN request_cache /\ k \in DOMAIN requests_
  /\ Remember(k, NoAttempt)
  /\ UNCHANGED <<opened, inside, registry, saved, decided, restarts, process>>

(* A registered key without a recorded decision is refused as in flight; a  *)
(* refusal that is about the delivery is not recorded.                      *)
RefuseInFlight(k) ==
  /\ inside = 0
  /\ k \notin DOMAIN request_cache /\ k \in DOMAIN requests_
  /\ UNCHANGED vars

(* Mutant of CommitPhase: commit_recovery does not mark the key.            *)
CommitPhaseForgotten == "Active"

(* What commit_recovery marks a key with, so that it stays registered.      *)
CommitPhase == "Committed"

(* Mutant of ReleaseIfActive: the wrapper forgets to release the key.       *)
ReleaseNothing(reg, k) == reg

(* The end of the wrapper: a key that did not commit is released.           *)
ReleaseIfActive(reg, k) ==
  IF k \in DOMAIN reg /\ reg[k] = "Active" THEN Without(reg, {k}) ELSE reg

Leave(phases, k) ==
  /\ requests_' = ReleaseIfActive(phases, k)
  /\ order_' = IF k \in DOMAIN requests_' THEN order_ ELSE Erase(order_, k)
  /\ inside' = 0

(* commit_recovery records the decision; the compaction after it may save   *)
(* the cache.                                                               *)
Commit(k) ==
  /\ inside = k /\ opened /\ requests_[k] # "Cancelled"
  /\ Remember(k, Len(decided) + 1) /\ Decision(k, Len(decided) + 1)
  /\ Leave([requests_ EXCEPT ![k] = CommitPhase], k)
  /\ saved' \in {saved, request_cache'}
  /\ UNCHANGED <<opened, restarts, process>>

(* Every other refusal is recorded, and the key is released.                *)
Refuse(k) ==
  /\ inside = k
  /\ Remember(k, NoAttempt) /\ Decision(k, NoAttempt)
  /\ Leave(requests_, k)
  /\ UNCHANGED <<opened, saved, restarts, process>>

(* resolve_ambiguity for a living target: accepted, and not recorded.       *)
KeepAlive(k) ==
  /\ inside = k /\ opened
  /\ Leave(requests_, k)
  /\ Decision(k, NoAttempt)
  /\ saved' \in {saved, request_cache}
  /\ UNCHANGED <<opened, cache, restarts, process>>

(* An operation that carries no key, or whose decision is not recorded, may *)
(* compact the journal too.                                                 *)
Rotate ==
  /\ inside = 0 /\ opened
  /\ saved' = request_cache
  /\ UNCHANGED <<opened, inside, cache, registry, decided, restarts, process>>

(* A refused acknowledgement is recorded under the key it carries.          *)
RefuseAcknowledgement(k) ==
  /\ inside = 0
  /\ Remember(k, NoAttempt)
  /\ UNCHANGED <<opened, inside, registry, saved, decided, restarts, process>>

(* cancel(): an active key is marked, a committed one is too late.          *)
Cancel(k) ==
  /\ inside = 0
  /\ requests_' = [j \in DOMAIN requests_ |->
       IF j = k /\ requests_[j] = "Active" THEN "Cancelled" ELSE requests_[j]]
  /\ UNCHANGED <<opened, inside, cache, order_, saved, decided, restarts, process>>

-----------------------------------------------------------------------------
(* close() keeps the object, and with it the registry.                      *)
Close ==
  /\ inside = 0 /\ opened /\ "Reopen" \in Restarts /\ restarts < MaxRestarts
  /\ opened' = FALSE /\ restarts' = restarts + 1
  /\ UNCHANGED <<inside, cache, registry, saved, decided, process>>

(* The keys of a table in key order.                                        *)
InKeyOrder(seq, keys) ==
  /\ Range(seq) = keys
  /\ \A i, j \in DOMAIN seq : i < j => seq[i] < seq[j]

(* The cache read back from the snapshot lists its keys in key order; the   *)
(* journal holds no decisions.                                              *)
ReadBack ==
  /\ request_cache' = saved
  /\ \E seq \in [1 .. Cardinality(DOMAIN saved) -> DOMAIN saved] :
       InKeyOrder(seq, DOMAIN saved) /\ request_order' = seq
  /\ opened' = TRUE

Reopen ==
  /\ inside = 0 /\ ~opened
  /\ ReadBack
  /\ UNCHANGED <<inside, registry, saved, decided, restarts, process>>

(* The process ends, inside an operation or not, and a new one opens.       *)
Crash ==
  /\ "Crash" \in Restarts /\ restarts < MaxRestarts /\ restarts' = restarts + 1
  /\ process' = process + 1
  /\ ReadBack
  /\ requests_' = <<>> /\ order_' = <<>> /\ inside' = 0
  /\ UNCHANGED <<saved, decided>>

Next ==
  \/ \E k \in Key :
       \/ ReplayCached(k) \/ Enter(k) \/ RefuseInFlight(k) \/ Cancel(k)
       \/ Commit(k) \/ Refuse(k) \/ KeepAlive(k)
  \/ \E k \in AckKeys : RefuseAcknowledgement(k)
  \/ Rotate \/ Close \/ Reopen \/ Crash

Spec == Init /\ [][Next]_vars

-----------------------------------------------------------------------------
(* Types, and the ceiling on both tables; each table and the queue of its   *)
(* keys list the same keys, which the evictions rely on.                    *)
RequestsTypeOK ==
  /\ opened \in BOOLEAN /\ inside \in {0} \cup Key
  /\ DOMAIN request_cache \subseteq Key
  /\ Cardinality(DOMAIN request_cache) <= MaxRequestCache
  /\ Range(request_order) = DOMAIN request_cache
  /\ Len(request_order) = Cardinality(DOMAIN request_cache)
  /\ DOMAIN requests_ \subseteq Key
  /\ Range(requests_) \subseteq {"Active", "Cancelled", "Committed"}
  /\ Cardinality(DOMAIN requests_) <= MaxRequestCache
  /\ Range(order_) = DOMAIN requests_
  /\ Len(order_) = Cardinality(DOMAIN requests_)

(* Whenever the state mutex is free, every registered key has committed: no *)
(* refused key stays reserved, the registry always has room, and a caller   *)
(* of cancel() finds nothing that could still be cancelled.                 *)
RegistrySettled ==
  inside = 0 => \A k \in DOMAIN requests_ : requests_[k] = "Committed"

(* Within one process, close() and open() included, a key commits a second  *)
(* time only after as many other keys were decided as the tables hold.      *)
RecommitNeedsEviction ==
  \A i, j \in DOMAIN decided :
    /\ i < j /\ decided[i].key = decided[j].key
    /\ decided[i].process = decided[j].process
    /\ decided[i].attempt # NoAttempt /\ decided[j].attempt # NoAttempt
    => Cardinality({decided[m].key : m \in i + 1 .. j - 1} \ {decided[i].key})
         >= MaxRequestCache

DecisionsRepeatFor(keys) ==
  \A k \in DOMAIN request_cache \cap keys :
    \E i \in DOMAIN decided :
      /\ decided[i].key = k /\ decided[i].attempt = request_cache[k]
      /\ restarts = 0 => \A j \in i + 1 .. Len(decided) : decided[j].key # k

(* A retry is answered with a decision that was made for its key, and with  *)
(* the last one as long as the runtime was not restarted; a restart brings  *)
(* back the snapshot, which may hold one that was evicted and made again.   *)
(* Keys that executors put into acknowledgements are left out, see below.   *)
DecisionsRepeat == DecisionsRepeatFor(Key \ AckKeys)

(* The same for every key: a refused acknowledgement leaves the decision    *)
(* recorded under the key it carries alone.                                 *)
AcknowledgementsKeepDecisions == DecisionsRepeatFor(Key)

(* A request key commits at most once.                                      *)
KeyCommitsOnce ==
  \A i, j \in DOMAIN decided :
    /\ i # j /\ decided[i].key = decided[j].key
    /\ decided[i].attempt # NoAttempt
    => decided[j].attempt = NoAttempt
=============================================================================
