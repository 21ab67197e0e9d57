# A TLA+ model of the Offload Failover Fabric

This directory specifies the recovery coordinator of the repository in TLA+,
model-checks it with TLC on small instances, and proves most of the safety
properties with TLAPS for every instance. `PROJECT.json` lists components,
runs, mutants, theorems, findings and hazards, and maps every definition to the
source lines it stands for.

## 1. The system

A **fabric** decides where offload services run. It activates nothing itself: it
turns evidence into a decision, makes the decision durable, and hands an
*intent* to an executor, which acknowledges it and reports effects. Everything
happens behind one object, `off::Fabric`, in a library, behind a daemon
(`offd`), or behind a command line tool (`off`).

| Part | State | Operations | Hard behaviour |
|---|---|---|---|
| Coordinator (`src/src/fabric.cpp`) | registries of services, targets, policy and topology; capability and failure evidence; a runtime, a fence and witnesses per service; identifier counters | register, withdraw, retire, set policy and topology; ingest evidence; establish, fail over, resume, resolve ambiguity, fail back; acknowledge, report effect; open, close | crash between journal, memory and intent; replay that restores less than memory had; late and repeated feedback; a long legal sequence that fences its own holder |
| Fallback selection | none (pure) | `evaluate_candidate`, `select_fallback` | ceiling and order |
| Durable store (`src/src/store.cpp`) | snapshot and journal generations, sequence and byte counters | open, commit, compact, close | torn writes, failed writes, crash at every step of compaction |
| Intent queue | queue, closed flag, waiting threads | push, take, wait, close, reopen | lost wakeups, close racing reopen, full queue |
| Request cache and cancellation registry | decisions by key, phases by key, both with eviction queues | begin, remember, replay, commit, release, cancel | retries across refusal, eviction and restart |
| Evidence delivery and dependencies | a watermark per source, observations per dependency | ingest, confirm, qualify | reordering, duplication, stale observations, graphs with shared nodes |
| Plans and explanations | bounded logs | appended by every decision | none that affects a decision, except the plan ceiling |
| Codecs, digests, identifiers | none | encode, decode | byte level only |
| Wire protocol (`src/src/protocol.cpp`) | a socket and a receive buffer per end | send and receive frames, execute a request | frames cut anywhere, connections lost between execution and answer, ceilings that differ |
| Daemon (`src/apps/offd_main.cpp`) | accept queue, workers, connection registry, flag and counters | accept, queue, serve, shut down | lost wakeups; a shutdown racing a connection being registered; descriptors closed under another thread |
| Command line client (`src/apps/off_main.cpp`) | a channel, the next correlation | greet, transmit, run a script | executed but not answered, retries, a script that goes on after a failure |
| Benchmark, example | none | single calls | none |

**Interaction.** One mutex guards the coordinator; a public operation holds it
from beginning to end and is therefore one atomic step to every other
operation. Inside it the operation calls the store (journal first, apply to
memory, then compact when due), the registry, and the intent queue. Executor
threads take intents under the queue's own mutex only, so they interleave with
`open` and `close`. Reporters and executors are separate processes: what they
send can be late, repeated or reordered. The process can stop between any two
steps of an operation; what is then left is what the store hands back. In the
daemon a main thread accepts connections and hands them to workers through a
queue; a worker holds one conversation at a time, and the one that is asked to
shut down closes the sockets of the others. A client sends one request at a time
and knows only what is answered before its connection ends.

**What makes each part correct.** *Coordinator:* authority over a service is
granted one token at a time, survives crashes, and old holders stay out;
continuity is claimed only when earned; a restart decides nothing on old
evidence. *Store:* a commit that returned Ok is read back, whole and in order.
*Queue:* no wakeup is lost, closing releases everyone. *Requests:* a key
that was decided is answered with its decision, and not decided again while the
tables hold it. *Evidence:* a report counts once and in
order, missing evidence is never healthy. *Protocol:* what arrives is what was
sent, in order; an answer is the answer to the command. *Daemon:* every accepted
connection is served or closed, threads use their own sockets, a shutdown ends.

## 2. Modules

| Module | Models | Checked by |
|---|---|---|
| `OffTypes` | names, phases, placements, descriptor data | (vocabulary) |
| `Selection` | `evaluate_candidate`, `select_fallback` | `MCSelection`, `SelectionProofs` |
| `Fabric` | the coordinator; EXTENDS `Selection` | `MCFabric`, `FabricProofs` |
| `FenceAuthority` | what the coordinator promises about authority | refined by `Fabric` (`FabricProofs`) |
| `Store` | the journal with snapshots and compaction | `MCStore`, `StoreProofs` |
| `DurableLog` | what the store promises | refined by `Store` (`StoreProofs`) |
| `IntentQueue` | the bounded queue and its threads | itself, `IntentQueueProofs` |
| `Requests` | request cache and cancellation registry | itself, `RequestsProofs` |
| `Evidence` | delivery, watermarks, dependency qualification | `MCEvidence`, `EvidenceProofs` |
| `Daemon` | accept loop, accept queue, workers, registry, shutdown, descriptors | itself, `DaemonProofs` |
| `Wire` | frames on a byte stream, the client's commands, the worker that executes them on the fabric's decisions and intents | `MCWire`, `WireProofs` |
| `FrameFifo` | what a pair of channels promises | refined by `Wire` (`WireProofs`) |

### Fabric

An action is the accepted outcome of one public operation, and its guard
collects every check of the handler that refuses; a refusal changes no modelled
state, except that of ambiguous evidence, which is an action (`RefuseAmbiguous`).
Variables carry the names of the members of `State`. Two are the model's own:
`disk`, what snapshot and journal replay would restore, and `intents`, every
intent ever returned. `Persist(journaled)` is the durable side of an operation:
either the image after replaying its record, or, when rotation is due, a
snapshot of memory after the change. The two differ in what the code makes them
differ in:

* replay restores no identifier counters and evicts no evidence;
* replay of a withdrawal restores the lifecycle alone;
* a pending ambiguity is in memory, and in snapshots, and in no record;
* a snapshot lists evidence by identifier and omits `latest_failure`;
* a failback edits the runtime after its commit persisted it.

`Close` is the end of the process, orderly or not: as an operation is atomic and
durable before it answers, both leave the same files. A crash *inside* an
operation leaves its record on disk or not; the first is the operation followed
by `Close` (its intent then was never delivered), the second is `Close` alone.
The store is one that writes: a refused commit changes no memory and is left
out, and what it may leave in the journal (`MCStore_torn_write`) is in `Store`,
not composed with the coordinator.

Abstractions. A name is a number in name order. An incarnation pair is a number
in lexicographic order. Capability evidence says which services it covers.
`fallback` is written only together with `active` and with the same value, so
`active` stands for both. The lifecycle phase `RecoveryInFlight` is never
assigned by the code and is left out. Ticks and evidence age can only refuse, so
they are left out, and `ResolveConfirmed` may always take its refusing branch,
because evidence may have aged. `effects_seen` is left out: the model lets each
effect be delivered any number of times, which is what a delayed duplicate can
do once the list has forgotten it.

### Store

A file is a sequence of frames; a crash keeps what was synced and any prefix of
the rest, cut between frames or inside one. `commit_transaction` is three actions
(entered, finished, failed) and `compact` four, with a crash possible between any
two. Sizes are in units, which is what decides whether later bytes complete a torn
frame. `CommitFails` leaves any part of the transaction in the file, keeps the
journal open and sets the history flag `faulty`, which an open or a new snapshot
clears: while it is set the store promises whole transactions only, and
`DurableLog` says the same (`Fail`, `Repair`, and the weaker branch of `Recover`).
Assumed: rename, create, truncate and remove are durable when they return; after a
failed write the bytes that were not written are gone (the C library's buffer
holds nothing back). Left out: read-only opens, tears inside a frame header, the
refusals for size, number of records and version (an open may refuse for those
reasons, too, and `UnreadableOnlyIfAbandoned` reads modulo them).

### IntentQueue, Requests, Evidence

`IntentQueue`: a waiter is idle, blocked or woken. `Wake` re-evaluates the
predicate whenever the thread gets the mutex, possibly after the queue changed
again. `Requests`: what an operation decides is a choice (commit, refuse, or
"target alive", accepted but recorded under no key); the two tables, their
eviction queues and the snapshot of the cache are exact; operations without a key
are there as `Rotate`, because a compaction of theirs saves the cache. `cancel()`
takes the state mutex, so the model has it only between operations. `Evidence`:
reporters number what they send, every report can be delivered any number of
times, and the traversal of `qualify_dependencies` is a recursive function over
its queue. Slots are replayed as memory applied them; watermarks are not, because
confirming an ambiguity journals an old report a second time.

### Daemon

A thread is a position in its code. The steps are the places where threads can
meet: under the mutex of the queue (`Push`, `Pop`, `CloseQueue`), under the
mutex of the registry (`Register`, `Unregister`, `Interrupt`), at an atomic
(`AcceptCall`, `Stop`), and around every system call, because `Socket::handle_`
is a plain integer: `ReadHandle` tests and reads it, `RecvCall` and `SendCall`
use the number, and in between another thread may have closed it. `table` is the
kernel's: the socket behind each number; `accept` takes any free number (POSIX
takes the lowest, which is one of them). `on` is the socket a blocked receive is
blocked on, which no longer depends on the number. The test of the handle and the
reads of it are one step, and so are `Socket::close`'s system call and the
assignment behind it. Where closing wakes this hides nothing: a thread in between
gets a number that is closed or 0, and 0 is no socket there. On POSIX 0 is
descriptor 0, which a second read could use; that is left out.

`CloseWakes` is the platform: closing a descriptor ends the calls blocked on it
(Windows), or leaves them blocked on a socket that lives on underneath (Linux).
The `daemon` run is the first, for which the code is written
(`src/include/off/protocol.hpp` says of `interrupt` that it unblocks); the second
is in two further counterexamples below.

Abstractions. What a frame is, is decided when it is received; `Serve` sends it
through the branches of `serve_connection`, and a malformed frame stands for
every way `recv_frame` fails while the peer is there. Remote shutdown is allowed
(without it a Shutdown frame is a Request). Sending never blocks. The daemon
handles no signal: on POSIX a send to a client that has left raises SIGPIPE,
which ends the process; the model lets the send fail instead.

### Wire

A cell stands for a piece of a frame; header cells carry what the header says.
`send_all` and `recv_exact` move a cell a step, so every split of the stream
into pieces is reached. `fill` keeps the code's buffer, its consumed part and
what the call of `recv_exact` had received; `recv_frame` is its two calls of
`fill` with the tests between them. A frame that is refused stays in the buffer,
as in the code, so a channel that has failed fails again. `SocketBuffer` bounds
what the kernel holds for a receiver: a sender blocks behind it.

The fabric is reduced to what a lost or repeated request can disturb, in one
process of the daemon: `Failover` is the wrapper of `request_failover`, which
answers from the cache, refuses a key that is registered, or decides; `decisions`
lists what was decided, accepted or refused, and the cache is the last
`MaxRequestCache` of them, because only a key that is not in it is decided;
`registered` is the registry with its own eviction (`Trimmed`); `take_intent`
takes from `pending`, which never is full here (see `IntentQueue`). Restarts are
in `Requests`. `Script` says which commands each client may send. A client ends at
any point; the worker goes on with what has arrived. Clients come one after the
other, so a retry meets the worker of the attempt before it and not two others.
`Damage` changes a payload cell, which the frame's checksum covers; it does not
cover the header, and TCP delivers headers intact.

## 3. Runs

Passing runs:

| Run | Shows |
|---|---|
| `authority` | `Lockstep`, `AuthorityDurable`, `IntentsFenced`, `SupersededIntentsRejected`, `SupersededHoldersExcluded`, `IntentsFreshOrReissued` and the refinement of `FenceAuthority`, through a policy too tight to move, one that permits moves and one that permits failback, and a topology change; until failback is permitted also that the holder passes `verify_fence` (`HolderAuthorizedWithoutFailback`). Two targets, one of which returns at a newer incarnation while the other may be retired, three tokens, an attempt history of one, a restart |
| `lifecycle` | a stateful service, every effect kind, ambiguous evidence up to and over its ceiling, and a restart from the journal: continuity is earned and dropped with its authority; what names evidence finds it, in memory and on disk, unless the ceiling took what an operator had to resolve (`NamedEvidenceKept`); no claim and no evidence crosses the restart |
| `selection` | the declarative choice is the loop of the code; widening the ceiling keeps a winner |
| `store_crash` | acknowledged transactions are read back after a crash at any step; what is read back is whole and in order even after failed writes; only an abandoned transaction or a failed write makes files unreadable; the store refines `DurableLog` |
| `queue` | no lost wakeup, work is taken, close releases every waiter unless the queue is reopened first |
| `requests` | tables at their limits stay consistent, no key stays reserved, a key recommits in one process only after eviction, a retry gets a decision of its key |
| `evidence` | reports apply once and in order; qualification needs current healthy evidence |
| `daemon` | while a worker sleeps every queued connection has a woken one on its way to it (`QueuedHaveTakers`); the registry holds sockets of running conversations only (`RegistryNeverDangles`); nobody uses a number that has become another connection's (`OwnDescriptorsOnly`); at the exit nothing is queued, counted or open (`CleanExit`); a shutdown ends the process once clients leave (`ShutdownCompletes`) |
| `wire` | the refinement of `FrameFifo`; a response taken for an answer is that of the command (`AnswersAnswer`); over retries, evictions and workers that still execute for clients that are gone, a client hears a decision of its key, and a later one than before only behind a cache's worth of others (`RetriesAgree`); an intent goes to one client and is lost only with the connection or the oversized response that carried it (`IntentsAccountedFor`); client and daemon never wait for each other (`NeverStuck`) |

Violation runs, each a disagreement of the code with its documentation
(`findings` quotes the lines):

| Run | What the code does |
|---|---|
| `withdrawn_revived` | a restart from the journal revives a service withdrawn during a recovery |
| `ack_misrouted` | after a restart two services share an attempt identity and an acknowledgement goes to the wrong one |
| `daemon_shutdown` | a worker takes a connection from the queue after `begin_shutdown` went through the registry; nobody interrupts it, and the join waits for its client |

`ShutdownCompletes` appears on both sides: the passing run assumes that clients
leave, the violation run does not, and the documentation does not either.

**Further counterexamples.** These configurations are kept beside the runs; each
checks one property and TLC finds it violated.

| Configuration, property | What the code does | What is written |
|---|---|---|
| `MCFabric_failback_self`, `HolderAuthorized` | a failback compares the incarnation with the recorded origin only (`fabric.cpp:4124`) and can appoint a holder that its own witness fences | "records a witness `(token, incarnation)` for the target it left" (`PROOF.md:14-17`) |
| `MCFabric_incarnation_back`, `SupersededHoldersExcluded` | `register_target` compares with the registered incarnation, and a retired target has none: it may return at a lower one, be failed back to and left again, and its witness (`fabric.cpp:3530`) then goes down to that; nothing keeps the placement above it out any more | "Incarnations advance when a target is re-adopted; they never move backwards" (`model.hpp:40-41`) |
| `MCFabric_ambiguity_evicted`, `AmbiguityAlwaysResolvable` | room for new evidence is made at the cost of the oldest (`fabric.cpp:2160`), also when an operator still has to name it | "recovery is blocked until resolved" (`fabric.cpp:2943`) |
| `MCFabric_ambiguity_reused`, `AmbiguityAlwaysResolvable` | a restart from the journal sets the evidence counter back, and the identifier an operator has to name is given to evidence about another service | the same |
| `MCStore_abandoned`, `CrashNeverRefused` | the frames of a dropped transaction stay in the journal (`store.cpp:684`); after the next commit the store is refused | "Either every record in the transaction is readable after a crash or none of them is" (`store.hpp:115-116`) |
| `MCDaemon_posix`, `ShutdownCompletes` | where closing a descriptor does not end `accept`, main stays blocked in it although clients leave (`offd_main.cpp:192`) | "Closes from another thread to unblock a blocking accept or receive" (`protocol.hpp:131`) |
| `MCDaemon_descriptor`, `OwnDescriptorsOnly` | there, too, main can accept a connection under a number that a worker has read and not used yet (`offd_main.cpp:194`) | nothing |
| `MCWire_stuck`, `NeverStuckAfterFailure` | after a response above its ceiling a script goes on (`off_main.cpp:948`) and never reads again; daemon and client end up both sending into full buffers | nothing |
| `MCFabric_ambiguity_lost`, `AmbiguitySurvivesRestart` | `do_ingest_failure` (`fabric.cpp:2928`) journals the evidence; the ambiguity is in no record, so a restart from the journal forgets it | "recovery is blocked until resolved" (`fabric.cpp:2943`) |
| `MCFabric_negative_revived`, `NegativeEffectIsFinal` | a late positive report (`fabric.cpp:4413`) verifies an attempt that a negative one ended | "the attempt is over" (`fabric.cpp:4403`) |
| `MCFabric_snapshot_refused`, `Reopenable` | replay (`fabric.cpp:2224`) never evicts evidence; the next snapshot holds more than `decode_state` (`fabric.cpp:971`) accepts | "Persistence round-trips correctness-critical state without semantic loss" (`PROOF.md:142`) |
| `MCEvidence_bucket`, `SnapshotsDecodable` | observations above `max_dependencies_per_service` are stored (`fabric.cpp:3042`) and refused when decoded (`fabric.cpp:948`) | the same |
| `MCSelection_truncation`, `TruncationNeutral` | the ceiling cuts the list before candidates are evaluated (`fabric.cpp:3254`) | "truncation cannot change which candidate wins" (`PROOF.md:103-104`) |
| `MCStore_torn_write`, `OkIsDurable` | a commit behind a half-written one returns Ok and is read as part of the torn frame (`store.cpp:834`) | "Returns Ok only after the commit frame reached stable storage" (`store.hpp:116-117`) |
| `MCIntentQueue_stranded`, `CloseReleasesWaiters` | `reopen` clears the flag before the woken waiter tests it (`fabric.cpp:371`) | "Blocks until an intent is available or the runtime is closed" (`fabric.hpp:259`) |
| `MCIntentQueue_leftover`, `ReopenedEmpty` | neither `close` nor `reopen` empties the queue (`fabric.cpp:365`) | "repeated open/close returns the intent queue to empty" (`PROOF.md:201`) |
| `MCRequests_ack`, `AcknowledgementsKeepDecisions` | a refused acknowledgement is remembered over the decision under its key (`fabric.cpp:4204`) | "a request key that has already been decided returns the recorded decision" (`PROOF.md:51-52`) |
| `MCRequests_crash`, `KeyCommitsOnce` | decisions are saved by snapshots alone (`fabric.cpp:1953`); after a crash the key commits again | the same |
| `MCEvidence_diamond`, `CyclesAreReal` | a service reached along two paths counts as a cycle (`fabric.cpp:3105`) | "with cycle detection" (`ARCHITECTURE.md:118-119`) |

**Bounds.** One service suffices for the authority properties, which relate the
state of one service to its own intents; acknowledgements need two. Two targets
and two incarnations of one of them give a move, a move back and a stale return;
three tokens and two epochs put a restart before, between and after them.
`MaxEvidence = 0` in the runs about authority removes evidence-driven failovers,
which take the same commit path as the operator's; `lifecycle` has them, with
two tokens, three identifiers and a ceiling of two. `MCPressedEarly` bounds how
far evidence is pressed: with two observations or more no executor has answered
and no service is withdrawn, and the list, the intents and the epochs number five
at most; states with one eviction, with an intent, behind a restart and with an
identifier listed twice are within it, and beyond it states have one observation.
The run replays the journal only. The number of acknowledgements and effects
delivered is not bounded. In `store_crash`, four
transactions and three generations contain two compactions with commits before,
between and after them, and `MaxJournalBytes` is passed by one or two
transactions. In `requests`, five decisions on three keys evict from tables of
two and leave room for a retry after that, with two restarts. In `evidence`, two
interchangeable reporters send two reports each over a chain of three services.
In `daemon`, two workers, a queue of one and three connections make one served,
one queued and one refused, or a registration during the shutdown; three frames
are a greeting and a shutdown on one connection and a greeting on another; three
descriptors (the listener has one) make numbers scarce enough to be reused and to
run out. With a queue of two, in which two connections wait at once, the same
properties hold on 0.6 million states; the safety ones are proved for every
capacity. In `wire`, the first client sends a failover and a second command under a
ceiling below the daemon's, so that the second may follow a failure; the second
client has the daemon's ceiling and retries the failover behind another command.
There are three keys and a cache of two, so that two decisions for other keys, one
from each client, can push the first out before the retry;
responses with a decision fit every ceiling, those with an intent the daemon's or
none. A header of one cell still leaves frames cut before every payload cell.
The proofs remove the bounds for what they cover.

**Fairness and deadlock.** `IntentQueue`: `WF(Wake)`, a notified thread
eventually runs and gets a mutex that is never held for long. `Daemon`:
`ThreadsRun`, weak fairness of the main thread and of each worker, which are
threads of a preemptive scheduler that no step of the model holds up for ever;
blocking calls are not steps that must happen. `ClientsLeave` is an assumption
about clients, not about the code, and only the passing run makes it.
`NeverStuck` is the absence of a state where both programs wait, in a system
whose commands take finitely many steps; `Wire` states no fairness.
No caller is forced to call anything. Runs set `CHECK_DEADLOCK FALSE` because
the coordinator is passive and the bounds stop every instance.

**Mutants.** Every property of a passing run has a mutant, an operator marked
`Mutant of` next to the definition it changes (a record without its witness, a
reused token, a missing reset, an off-by-one ceiling, a forgotten notification).
TLC finds the property violated when it replaces the original.

## 4. Proofs

For every value of the constants, from the named assumptions on them. The
invariants, action properties and refinements of the runs `authority`,
`lifecycle`, `store_crash`, `requests` and `daemon` are all among the theorems,
and all but one of `wire`; two of them under hypotheses that the code does not
guarantee and that are named below.

| Module | Theorem | Statement |
|---|---|---|
| `FabricProofs` | `Invariance`, `ExclusionInvariance`, `NamedInvariance` | the inductive invariants below |
| | `TypeCorrect`, `CountersInLockstep`, `AuthorityIsDurable`, `EveryIntentFenced`, `OldIntentsStale` | `TypeOK`, `Lockstep`, `AuthorityDurable`, `IntentsFenced`, `SupersededIntentsRejected` always hold |
| | `FreshOrReissuedAlways` | `Spec => IntentsFreshOrReissued` |
| | `Refinement` | `Spec => ImplementsAuthority` |
| | `OldHoldersExcluded` | `Spec /\ IncarnationsForward => []SupersededHoldersExcluded` |
| | `OldHoldersExcludedWithoutFailback` | `Spec => [](NoFailbackYet => SupersededHoldersExcluded)` |
| | `HolderNeverFencedOut` | `Spec => []HolderAuthorizedWithoutFailback` |
| | `ContinuityAlwaysEarned` | `Spec => []ContinuityEarned` |
| | `ClaimsNeverOutliveAuthority` | `Spec => ClaimsDropWithAuthority` |
| | `NamedEvidenceAlwaysKept` | `Spec => []NamedEvidenceKept` |
| | `RestartTrustsNothing` | `Spec => RestartConservative` |
| | `OneHolder` | `Spec => []Authority!OneHolderPerToken`: a token names one holder for ever |
| `SelectionProofs` | `ChoiceDecided` | a winner exists exactly if a considered candidate is eligible, and is the only one |
| | `WideningKeeps` | `Spec => WideningKeepsWinner` |
| `IntentQueueProofs` | `NoLostWakeup` | `Spec => []SleepersHaveNothingToDo` |
| `RequestsProofs` | `RequestsInvariance` | the inductive invariant below |
| | `RequestsTypeCorrect`, `RefusalsReleaseKeys`, `RecommitsAreEarned`, `RetriesHearDecisions` | `RequestsTypeOK`, `RegistrySettled`, `RecommitNeedsEviction`, `DecisionsRepeat` always hold |
| `EvidenceProofs` | `ReportsAppliedOnce`, `NewestStays` | `AppliedOnce`, `NewestObservationKept` always hold |
| | `HardEdgesEarned` | a hard edge passes as met only on an applied healthy report of this epoch and topology |
| `StoreProofs` | `StoreInvariant` | the inductive invariant below |
| | `StoreTypeCorrect`, `StoreReadsBack`, `StoreReadsWhole`, `StoreRefusesOnlyAbandoned` | `StoreTypeOK`, `AcknowledgedReadBack`, `RecoveredWhole`, `UnreadableOnlyIfAbandoned` always hold |
| | `StoreImplementsLog` | `Spec => ImplementsLog` |
| `DaemonProofs` | `DaemonInvariance` | the inductive invariant below |
| | `NoWakeupLost`, `RegistryIsLive`, `ExitIsClean` | `QueuedHaveTakers`, `RegistryNeverDangles`, `CleanExit` always hold, on every platform |
| | `DescriptorsNotShared` | if `CloseWakes`, then `Spec => []OwnDescriptorsOnly` |
| `WireProofs` | `WireInvariant` | the inductive invariant below |
| | `WireImplementsFifo` | `Spec => ImplementsFifo` |
| | `AnswersAlwaysAnswer`, `RetriesAlwaysAgree`, `IntentsAlwaysAccountedFor` | `AnswersAnswer`, `RetriesAgree`, `IntentsAccountedFor` always hold |

*Coordinator: authority.* `IntentsFenced` is not inductive: that a restart
restores the fence needs `GrantsDurable`, the part of `AuthorityDurable` about
authority, that a commit gives the token to the
placement it names needs `Lockstep`, and that a resume re-issues what was issued
before needs to know that the history still holds the current attempt with its
placement. The inductive invariant is

    Inv == TypeOK /\ Lockstep /\ GrantsDurable /\ RuntimesSound /\ IntentsIdentified

where `RuntimesSound` says, of memory and of the durable image, that the last
record of a runtime's history, if it has one, is the current attempt at the active
placement, that an intent with the runtime's fence and placement was returned, and
that an unregistered service has no authority at all; and `IntentsIdentified` says
that no intent has a token above that of its service, and one with the same token
names the placement, attempt, generation and term of the runtime. The first part
of `FabricProofs` proves what the helpers preserve (histories, downgrades,
committed runtimes, snapshots), one lemma each; the second has one lemma per
action. The action property and the refinement follow from the invariant: a step
that commits maps to `Grant`, a resume adds an intent whose grant exists already,
and everything else leaves tokens and grants alone. `OneHolder` is then a fact
about `FenceAuthority` alone, where no grant carries a token above the newest, and
carries over to the coordinator.

*Coordinator: exclusion.* There is one witness per service and target, and a move
overwrites it. That it still stands for every older placement on that target
needs the holder never to be below the witness of its own target
(`HoldersAbove`), and a resume, which writes the witness of its attempt once
more, must find it there (`OriginsFenced`). Until a failback is permitted,
`evaluate_candidate` sees to the first: only a target above its witness is
chosen. A failback goes back to an origin without asking the witness; then it
takes incarnations that never go back (`NothingAhead`: neither placement nor
witness is ahead of the registered incarnation), which is the hypothesis
`IncarnationsForward`: a target that registers again does so at no lower
incarnation than it was ever given authority at. `model.hpp` says so and the code
does not see to it; `MCFabric_incarnation_back` is what happens otherwise, and
why the theorem has two forms. `HolderAuthorized` is restricted in the same way
because a failback does break it (`MCFabric_failback_self`).

*Coordinator: claims.* `ContinuityEarned` and `ClaimsDropWithAuthority` come from
one lemma: `ClaimsMove` says of any step that for every service it either leaves
no claim, or leaves fence and epoch alone and keeps what is claimed earned.

*Coordinator: origins.* The other part of `AuthorityDurable` is `OriginDurable`:
where a service came from is recovered as memory has it, except behind a failback,
whose edit is in no record. It commits a move to the origin first, and only to
one that has a newer incarnation since, so what is on disk then is the holder's
own target at an older incarnation: a restart can bring back an origin that was
forgotten, and it is never another target. Every other operation
journals the origin it leaves in memory, one lemma per group of actions.

*Coordinator: evidence.* `Named` says of memory and of the image a restart may
read that no evidence is from a later epoch and that what names evidence finds it
(`EvidenceKept`): the newest failure of a service always, the one a service waits
for unless the table is full but for one place at most. The image may hold more
evidence than memory, because replay evicts nothing, and never less. The lemma
that carries it is `EvictionStops`: eviction takes no more than it has to, so
whatever it took, the table is at its ceiling or one below. There is no assumption
on identifiers, which reporters choose and restarts give out again. That a pending
ambiguity loses its evidence at the ceiling, or to an identifier given out twice,
is what two of the further counterexamples show. `RestartConservative` needs the
dates alone: an image dated no later than the epoch that is closing cannot be
current in the next.

*Selection.* The candidate order is proved to be a strict total order for any
hosts and ranks. The candidate with the fewest before it is the winner, and what
a wider ceiling lets in has more before it than everything considered so far.

*Queue.* `QueueInv` adds the type of `waiting` to the property: a push and a
close wake every sleeper, an open clears the flag only, and a thread falls
asleep only on an empty, open queue.

*Requests.* `RInv` is `Tables` (each table is within its ceiling and its queue
lists each of its keys once: without the "once", evicting by the queue could
leave the table too full or the queue behind) and `Settled` (while an operation
runs, its key is the only one that has not committed, and the last one
registered, which is why `trim()` always finds room). `RecommitNeedsEviction`
speaks of pairs of past decisions and follows from `EvictionEarned`, which speaks
of one: behind a committed key in the queue stand only keys decided since, so
that it can leave only when as many others were decided as the table holds.
`DecisionsRepeat` needs `SavedDecided`, the same of the snapshot.

*Evidence.* `AppliedOnce` must survive a restart that sets watermarks back.
`EvidenceInv` consists of `ReportsSound` (reports are numbered, and stamped with
an epoch that is not in the future), `WatermarksSound` (watermarks in memory and
on disk are numbers of the enrolled sources) and `WatermarksCover`: an applied
report of the *current* epoch is at or below the watermark of its source. A
restart begins a new epoch, so nothing applied before is covered by it, nor has
to be: the epoch in the stamp, not the watermark, rejects an old report then.
`NewestObservationKept` needs one thing more, that a source numbers what it sends
in a later epoch higher (`Numbered`); then an acceptable report is newer than
everything applied from its source, whatever the watermark was set back to.

*Store.* What the files say is the newest snapshot and, behind it, the committed
transactions of the journal that goes with it. `Inv` relates that to the
coordinator's log, in states with a handle and without one:

    Inv == Types /\ HandleOK /\ OrderOK /\ CountsOK /\ SoundOK

`HandleOK` says which files exist where the process can be: an open handle names
the newest journal, and a compaction that has renamed its snapshot has everything
in it (`Between`). `OrderOK` says that transactions are numbered upwards, through
the snapshot and then the journal, and that the records before a Commit frame are
those of one transaction (`Structure`); it holds even after failed writes, which
is why `RecoveredWhole` does. `CountsOK` says that the part on stable storage
holds as many transactions as were acknowledged. `SoundOK` is void once a write
has failed; until then only the end of the journal is torn, behind what was
synced (`TornBehind`), and what an open accepts is a beginning of what was offered
(`Reads`). While the journal is open that is the whole log, provided the journal
is accepted at all (`Current`): a commit behind an abandoned transaction succeeds
in memory, and a later open refuses it. That is also why `Current` has a second
part: only a journal that is synced to its end can be unacceptable, so that no
crash turns it into one that is accepted with transactions missing.

A crash leaves a beginning of the journal with at most its last frame torn, and
what a beginning commits is a beginning of what the whole commits. A commit
appends frames that are well formed behind a well formed journal. A compaction
moves what the journal says into the image and leaves the sum alone, at each of
its four steps, and the files it removes are older than both. The parsing itself
is one lemma per operator (`OpenedAtIs`, `IntactIs`, `CommittedWhole` and the like):
`Commits`, `KthCommit` and `RecordsBefore` say which transactions the loop of
`Store::open` hands over without repeating its recursion, which is what makes
them provable. `UnreadableOnlyIfAbandoned` compares positions instead: a journal
that is in order is accepted as soon as no Begin frame stands inside a transaction.
In the refinement a commit is `DurableLog`'s two steps, a compaction a stutter or
the repair, a crash only `Stop`; what the crash left is decided by the open behind
it, which is `Recover`.

*Daemon.* `DInv` says where threads can be (`DaemonTypeOK`), that a connection has
one owner at a time, the main thread, the queue or a worker (`OneOwner`), that the
registry lists connections of running conversations (`RegistryTalks`), that the
queue is closed once, behind the listener, and found empty by every worker that
left (`QueueEnds`), and that a number in use belongs to the socket that holds it
(`NumbersHeld`). `LiveCounts` gives the connection counter its meaning, which
`CleanExit` needs. A wakeup is not lost because every push wakes a sleeper while
there is one, and a woken worker takes a connection with it when it leaves the
count, or finds the queue empty. `OwnDescriptorsOnly` rests on `NumbersOwn`: a
number that was read and is not the reader's any more was closed behind the
listener, after which no number is given out; where a blocked `accept` outlives
its descriptor (`~CloseWakes`) that is false (`MCDaemon_descriptor`).

*Wire: bytes.* `ImplementsFifo` speaks of frames and the steps move cells. What
an end has received and not consumed, what is on the wire to it and what its peer
has yet to send form one stream (`Stream`), and `StreamOK` says that it is a
beginning of the encoding of the frames sent and not received (`Aligned`), and
all of it while both ends are open (`Complete`). A frame can then only be received
as it was sent, and only as the next. `UnsentOK` is what makes a stream that is
cut off harmless: the unsent cells are the end of the sender's last frame, so
what arrived is less than that frame, and `recv_frame` needs all of it. Every
step is a move inside the stream, which changes nothing (`send_all`,
`recv_exact`, `fill`); a frame consumed at its front or added at its end, which
are the two actions of `FrameFifo`; or a cut at its end. `Damage` changes no place
or frame of a cell, only whether `recv_frame` accepts it.

*Wire: conversation.* `transmit` does not compare correlations. That it need not
is an agreement of three logs: the worker has answered exactly what it received,
one response each and in order (`WorkerOK`); the client has received one response
for each request but the one it waits for (`ClientOK`); and the stream carries
logs unchanged. A script goes on after a failure, and the equation between sent
and received is lost then; but a channel that failed never receives again
(`Blocked`: the frame it refused is still at the front of its buffer, or less than
a frame is there and nothing will come), so a client with an answer has not
failed before.

*Wire: effects.* `DecisionsOK` says that every response to a failover tells a
decision of its key, or that the key was accepted and pushed out; that two
decisions for a key are further apart than the cache is long (`SpacingOK`, because
a key that is still in the cache is not decided); that a registered key was
accepted; and that a worker never tells an older decision of a key than it told
before (`OrderOK`). Clients come one after the other (`TurnsOK`), but the worker
of one that is gone may still execute: `SinceOK` says that what a client has heard
is no newer than what the worker of a later one says. `IntentsOK`: a number is
in one place only: pending, dropped, or carried by the responses to one client.
`IntentsAccountedFor` needs in addition that a response which was sent and not
received is in the stream (`Complete`), unless the connection or a channel failed.

**Only model-checked.** Liveness, which is out of the prover's reach: `WorkIsTaken`,
`CloseReleasesUnlessReopened`, `ShutdownCompletes`. What recursive definitions and
folds compute: `QualificationSound` (the traversal; `HardEdgesEarned` proves the
test it makes at each edge), `WinnerIsFirstScanned` (sorting and filtering
sequences). `NeverStuck` of `Wire`, which is about `ENABLED`.

## 5. Not modelled

Codecs and digests (byte-level round trips), views and exports (read-only),
explanations and statistics (they describe decisions), source enrolment (a
source is enrolled once and roles only refuse), the client's argument parsing
and its local mode, the cases of `execute_request` that decode a body and make
one call modelled elsewhere, benchmark and example. System calls interrupted by
a signal: neither program installs a handler. Counters at their 64-bit maximum
refuse and change nothing.

## 6. Plan

1. Done: `Selection`, `Fabric` with `FenceAuthority`, `Store` with `DurableLog`,
   `IntentQueue`, `Requests`, `Evidence`, `Daemon`, `Wire` with `FrameFifo`, and
   the theorems above.
2. Model next: effect identifiers with their bounded list; the composition of
   `Requests` with `Fabric` (a retried failover across a restart) and of
   `Evidence` with recovery decisions.
3. Prove next: `QualificationSound` and `WinnerIsFirstScanned`, which need a
   reading of the traversal and of the sorted list that is not recursive.
