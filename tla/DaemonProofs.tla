---------------------------- MODULE DaemonProofs ----------------------------
(***************************************************************************)
(* The threads of offd hand connections over without losing one, counting  *)
(* one twice or destroying one in use, for every number of workers,        *)
(* connections and descriptors, every capacity of the queue and every      *)
(* interleaving.  Where closing a descriptor ends the calls blocked on it, *)
(* no thread ever uses the descriptor of another.                          *)
(***************************************************************************)
EXTENDS Daemon, TLAPS, FiniteSetTheorems, SequenceTheorems

Socket == Conn \cup {Listener}
Number == {NoHandle} \cup Descriptor

MainAt ==
  {"check", "accept", "push", "close_listener", "close_call", "close_queue",
   "join", "exited"}

(* A worker between two connections, at the head of the queue, ...          *)
RestingAt == {"pop", "wait", "woken", "exited"}

(* ... in a conversation, ...                                               *)
TalkingAt ==
  {"recv", "recv_call", "blocked", "reply", "send_call", "stop",
   "close_listener", "close_call", "interrupt", "leave"}

WorkerAt == RestingAt \cup TalkingAt \cup {"register", "destroy"}

MainThread == [at : MainAt, conn : Conn \cup {NoConn}, number : Number]

WorkerThread ==
  [at : WorkerAt, conn : Conn \cup {NoConn}, number : Number,
   on : Conn \cup {NoConn}, greeted : BOOLEAN, frame : FrameKind \cup {"none"}]

DaemonTypeOK ==
  /\ stopping \in BOOLEAN
  /\ live \in Int
  /\ registry \subseteq Conn
  /\ queue \in Seq(Conn)
  /\ closed_ \in BOOLEAN
  /\ handle \in [Socket -> Number]
  /\ table \in [Descriptor -> Socket \cup {Free}]
  /\ main \in MainThread
  /\ worker \in [Worker -> WorkerThread]
  /\ peer \in [Conn -> {"away", "backlog", "open", "closed"}]
  /\ received \in Nat

(* Who holds a connection: the main thread between accept and push, the     *)
(* queue, one worker.                                                       *)
Queued(c) == \E k \in DOMAIN queue : queue[k] = c
HeldByWorker(c) == \E w \in Worker : worker[w].conn = c
Held(c) == main.conn = c \/ Queued(c) \/ HeldByWorker(c)

(* A connection has one owner at a time, and none before it is accepted.    *)
OneOwner ==
  /\ \A w \in Worker : worker[w].conn = NoConn <=> worker[w].at \in RestingAt
  /\ main.conn = NoConn <=> main.at # "push"
  /\ \A v, w \in Worker :
       v # w /\ worker[v].conn # NoConn => worker[v].conn # worker[w].conn
  /\ \A j, k \in DOMAIN queue : j # k => queue[j] # queue[k]
  /\ \A c \in Conn : Queued(c) => ~HeldByWorker(c) /\ main.conn # c
  /\ \A c \in Conn : HeldByWorker(c) => main.conn # c
  /\ \A c \in Conn : peer[c] \in {"away", "backlog"} => ~Held(c) /\ handle[c] = NoHandle

RegistryTalks ==
  \A c \in registry : \E w \in Worker : worker[w].conn = c /\ worker[w].at \in TalkingAt

(* The life of the queue: it is closed once, behind the listener, and then  *)
(* only emptied; a worker that has left found it so.                        *)
QueueEnds ==
  /\ closed_ <=> main.at \in {"join", "exited"}
  /\ \A w \in Worker : worker[w].at = "exited" => closed_ /\ queue = <<>>
  /\ main.at = "exited" => Joined

(* A number that is in use belongs to the socket that holds it.             *)
NumbersHeld ==
  /\ \A n \in Descriptor : table[n] # Free => handle[table[n]] = n
  /\ \A c \in Conn : handle[c] # NoHandle => Held(c)
  /\ handle[Listener] \in {NoHandle, 1}
  /\ main.at \in {"close_queue", "join", "exited"} => handle[Listener] = NoHandle
  /\ main.at = "close_call" => main.number = 1
  /\ \A w \in Worker :
       /\ worker[w].at \in {"recv_call", "send_call"} => worker[w].number \in Descriptor
       /\ worker[w].at = "close_call" => worker[w].number = 1
       /\ worker[w].at = "interrupt" => handle[Listener] = NoHandle
       /\ worker[w].at = "blocked" => worker[w].on \in Conn

DInv == DaemonTypeOK /\ OneOwner /\ RegistryTalks /\ QueueEnds /\ NumbersHeld

(* live_connections counts the connections that are queued, in the hands of *)
(* the main thread, or in a conversation that has not been unregistered.    *)
Counted == {w \in Worker : worker[w].at \in TalkingAt \cup {"register"}}

LiveCounts ==
  live = Len(queue) + Cardinality(Counted) + (IF main.at = "push" THEN 1 ELSE 0)

(* What a thread has read is still its own, or it was closed after the      *)
(* listener: then nothing is accepted any more, and no number given again.  *)
StaleOnlyAtEnd(n, s) ==
  \/ table[n] = s
  \/ table[n] = Free /\ handle[Listener] = NoHandle

NumbersOwn ==
  /\ \A w \in Worker :
       /\ worker[w].at \in {"recv_call", "send_call"} =>
            StaleOnlyAtEnd(worker[w].number, worker[w].conn)
       /\ worker[w].at = "close_call" => StaleOnlyAtEnd(1, Listener)
  /\ main.at = "close_call" => StaleOnlyAtEnd(1, Listener)
  /\ handle[Listener] # NoHandle => table[1] = Listener
  /\ \A c \in Conn : handle[c] # NoHandle => table[handle[c]] = c

-----------------------------------------------------------------------------
(* Names that stand for nothing are not connections or descriptors.         *)
LEMMA Names ==
  /\ NoConn \notin Conn /\ Listener \notin Conn /\ Listener # NoConn
  /\ Free \notin Conn /\ Free # Listener
  /\ NoHandle \notin Descriptor /\ 1 \in Descriptor
  BY DaemonAssumption DEF NoConn, Listener, Free, NoHandle, Conn, Descriptor

(* A step of worker w inside its conversation, which leaves w at r.         *)
Talks(w, r) ==
  /\ r \in WorkerThread /\ worker' = [worker EXCEPT ![w] = r]
  /\ worker[w].at \in TalkingAt /\ r.at \in TalkingAt /\ r.conn = worker[w].conn
  /\ r.at \in {"recv_call", "send_call"} =>
       r.number \in Descriptor /\ r.number = handle[r.conn]
  /\ r.at = "close_call" => r.number = 1 /\ handle[Listener] # NoHandle
  /\ r.at = "interrupt" => handle[Listener] = NoHandle
  /\ r.at = "blocked" => r.on \in Conn
  /\ stopping' \in BOOLEAN /\ received' \in Nat
  /\ UNCHANGED <<live, registry, queueVars, socketVars, main, peer>>

(* Such a step changes nothing that others rely on.                         *)
LEMMA TalkInv ==
  ASSUME DInv, NEW w \in Worker, NEW r, Talks(w, r)
  PROVE  DInv'
<1>1. \A v \in Worker : worker'[v] = IF v = w THEN r ELSE worker[v]
  BY DEF DInv, DaemonTypeOK, Talks
<1>2. \A v \in Worker : worker'[v].conn = worker[v].conn
  BY <1>1 DEF Talks
<1>3. \A v \in Worker :
        /\ worker'[v].at \in RestingAt <=> worker[v].at \in RestingAt
        /\ worker'[v].at \in TalkingAt <=> worker[v].at \in TalkingAt
        /\ worker'[v].at = "exited" <=> worker[v].at = "exited"
  BY <1>1 DEF Talks, TalkingAt, RestingAt
<1>4. UNCHANGED <<live, registry, queue, closed_, handle, table, main, peer>>
  BY DEF Talks, queueVars, socketVars
<1>5. DaemonTypeOK'
  BY <1>4 DEF DInv, DaemonTypeOK, Talks
<1>6. \A c \in Conn : /\ HeldByWorker(c)' <=> HeldByWorker(c)
                      /\ Queued(c)' <=> Queued(c)
                      /\ Held(c)' <=> Held(c)
  BY <1>2, <1>4 DEF HeldByWorker, Queued, Held
<1>7. OneOwner'
  BY <1>2, <1>3, <1>4, <1>6 DEF DInv, OneOwner
<1>8. RegistryTalks'
  BY <1>2, <1>3, <1>4 DEF DInv, RegistryTalks
<1>9. QueueEnds'
  BY <1>3, <1>4 DEF DInv, QueueEnds, Joined
<1>10. NumbersHeld'
  <2>1. \A v \in Worker :
       /\ worker'[v].at \in {"recv_call", "send_call"} => worker'[v].number \in Descriptor
       /\ worker'[v].at = "close_call" => worker'[v].number = 1
       /\ worker'[v].at = "interrupt" => handle[Listener] = NoHandle
       /\ worker'[v].at = "blocked" => worker'[v].on \in Conn
    BY <1>1 DEF DInv, NumbersHeld, Talks
  <2> QED  BY <1>4, <1>6, <2>1 DEF DInv, NumbersHeld
<1> QED  BY <1>5, <1>7, <1>8, <1>9, <1>10 DEF DInv

(* A step of a conversation leaves the counters, the wakeups and the owners *)
(* of numbers as they should be.                                            *)
LEMMA TalkCounts ==
  ASSUME DInv, NEW w \in Worker, NEW r, Talks(w, r)
  PROVE  /\ LiveCounts => LiveCounts'
         /\ QueuedHaveTakers => QueuedHaveTakers'
         /\ NumbersOwn => NumbersOwn'
<1>1. \A v \in Worker : worker'[v] = IF v = w THEN r ELSE worker[v]
  BY DEF DInv, DaemonTypeOK, Talks
<1>2. UNCHANGED <<live, queue, handle, table, main>>
  BY DEF Talks, queueVars, socketVars
<1>3. Counted' = Counted
  BY <1>1 DEF Counted, Talks
<1>4. /\ Blocked' = Blocked
      /\ {v \in Worker : worker'[v].at = "woken"} = {v \in Worker : worker[v].at = "woken"}
  BY <1>1 DEF Blocked, Talks, TalkingAt
<1>5. LiveCounts => LiveCounts'
  BY <1>2, <1>3 DEF LiveCounts
<1>6. QueuedHaveTakers => QueuedHaveTakers'
  BY <1>2, <1>4 DEF QueuedHaveTakers
<1>7. ASSUME NumbersOwn
      PROVE  NumbersOwn'
  <2>1. /\ r.at \in {"recv_call", "send_call"} => StaleOnlyAtEnd(r.number, r.conn)
        /\ r.at = "close_call" => StaleOnlyAtEnd(1, Listener)
    <3>1. r.conn \in Conn
      BY Names DEF Talks, DInv, OneOwner, DaemonTypeOK, WorkerThread, TalkingAt, RestingAt
    <3>2. handle[Listener] \in {NoHandle, 1}
      BY DEF DInv, NumbersHeld
    <3>3. r.at \in {"recv_call", "send_call"} => table[r.number] = r.conn
      BY <1>7, <3>1, Names DEF Talks, NumbersOwn
    <3>4. r.at = "close_call" => table[1] = Listener
      BY <1>7 DEF Talks, NumbersOwn
    <3> QED  BY <3>3, <3>4 DEF StaleOnlyAtEnd
  <2>2. \A n, s : StaleOnlyAtEnd(n, s)' <=> StaleOnlyAtEnd(n, s)
    BY <1>2 DEF StaleOnlyAtEnd
  <2>3. \A v \in Worker :
       /\ worker'[v].at \in {"recv_call", "send_call"} =>
            StaleOnlyAtEnd(worker'[v].number, worker'[v].conn)
       /\ worker'[v].at = "close_call" => StaleOnlyAtEnd(1, Listener)
    BY <1>1, <1>7, <2>1 DEF NumbersOwn
  <2> QED  BY <1>2, <1>7, <2>3 DEF NumbersOwn, StaleOnlyAtEnd
<1> QED  BY <1>5, <1>6, <1>7

(* A worker that leaves a conversation.                                     *)
LEMMA LeaveTalks ==
  ASSUME DInv, NEW w \in Worker, worker[w].at \in TalkingAt, Leave(w),
         stopping' \in BOOLEAN, received' \in Nat,
         UNCHANGED <<live, registry, queueVars, socketVars, main, peer>>
  PROVE  \E r : Talks(w, r)
<1> DEFINE c == worker[w].conn
           r == [Idle EXCEPT !.at = "leave", !.conn = c]
<1>1. worker' = [worker EXCEPT ![w] = r]
  BY DEF Leave
<1>2. c \in Conn \cup {NoConn}
  BY DEF DInv, DaemonTypeOK, WorkerThread
<1> HIDE DEF c
<1>3. /\ r.at = "leave" /\ r.conn = c
      /\ r \in WorkerThread
  BY <1>2 DEF Idle, WorkerThread, WorkerAt, TalkingAt, Number
<1> HIDE DEF r
<1> QED  BY <1>1, <1>3 DEF Talks, TalkingAt, c

(* Reading, receiving, answering and stopping the daemon are steps of a     *)
(* conversation: registry, queue and sockets stay.                          *)
LEMMA ConversationTalks ==
  ASSUME DInv, NEW w \in Worker,
         \/ ReadHandle(w) \/ RecvCall(w) \/ RecvEnds(w) \/ SendCall(w)
         \/ Stop(w) \/ WorkerReadsListener(w) \/ \E f \in Frames : Receive(w, f)
  PROVE  \E r : Talks(w, r)
<1> DEFINE old == worker[w]
<1>1. /\ old \in WorkerThread /\ worker \in [Worker -> WorkerThread]
      /\ stopping \in BOOLEAN /\ received \in Nat
      /\ handle \in [Socket -> Number] /\ table \in [Descriptor -> Socket \cup {Free}]
  BY DEF DInv, DaemonTypeOK
<1>2. old.at \in TalkingAt => old.conn \in Conn
  BY <1>1 DEF DInv, OneOwner, TalkingAt, RestingAt, WorkerThread
<1>3. CASE ReadHandle(w)
  <2> DEFINE n == handle[old.conn]
             r == [old EXCEPT !.number = n, !.at = IF old.at = "recv" THEN "recv_call" ELSE "send_call"]
  <2>1. /\ old.at \in {"recv", "reply"}
        /\ IF n = NoHandle THEN Leave(w) ELSE worker' = [worker EXCEPT ![w] = r]
        /\ UNCHANGED <<serverVars, queueVars, socketVars, main, clientVars>>
    BY <1>1, <1>3 DEF ReadHandle
  <2>2. old.at \in TalkingAt /\ n \in Number
    BY <1>1, <1>2, <2>1 DEF TalkingAt, Socket
  <2>3. CASE n = NoHandle
    BY <1>1, <2>1, <2>2, <2>3, LeaveTalks DEF serverVars, clientVars
  <2>4. CASE n # NoHandle
    <3>1. n \in Descriptor
      BY <2>2, <2>4 DEF Number
    <3> HIDE DEF n, old
    <3>2. /\ r \in WorkerThread /\ r.at \in {"recv_call", "send_call"}
          /\ r.number = n /\ r.conn = old.conn
      BY <1>1, <2>2 DEF WorkerThread, WorkerAt, TalkingAt
    <3> HIDE DEF r
    <3>3. Talks(w, r)
      BY <1>1, <2>1, <2>2, <2>4, <3>1, <3>2
         DEF Talks, TalkingAt, serverVars, clientVars, old, n
    <3> QED  BY <3>3
  <2> QED  BY <2>3, <2>4
<1>4. CASE RecvCall(w)
  <2> DEFINE s == table[old.number]
             r == [old EXCEPT !.at = "blocked", !.number = NoHandle, !.on = s]
  <2>1. /\ old.at = "recv_call"
        /\ IF s \in Conn THEN worker' = [worker EXCEPT ![w] = r] ELSE Leave(w)
        /\ UNCHANGED <<serverVars, queueVars, socketVars, main, clientVars>>
    BY <1>1, <1>4 DEF RecvCall
  <2>2. CASE s \in Conn
    <3> HIDE DEF s, old
    <3>1. /\ r \in WorkerThread /\ r.at = "blocked" /\ r.on = s /\ r.conn = old.conn
      BY <1>1, <2>2 DEF WorkerThread, WorkerAt, TalkingAt, Number
    <3> HIDE DEF r
    <3>2. Talks(w, r)
      BY <1>1, <2>1, <2>2, <3>1 DEF Talks, TalkingAt, serverVars, clientVars, old
    <3> QED  BY <3>2
  <2>3. CASE s \notin Conn
    BY <1>1, <2>1, <2>3, LeaveTalks DEF serverVars, clientVars, TalkingAt
  <2> QED  BY <2>2, <2>3
<1>5. CASE RecvEnds(w)
  BY <1>1, <1>5, LeaveTalks DEF RecvEnds, serverVars, clientVars, TalkingAt
<1>6. CASE SendCall(w)
  <2> DEFINE next == AfterReply(old)
             r == [old EXCEPT !.number = NoHandle, !.at = next, !.greeted = TRUE,
                              !.frame = "none"]
  <2>1. /\ old.at = "send_call"
        /\ worker' = [worker EXCEPT ![w] = r] \/ Leave(w)
        /\ UNCHANGED <<serverVars, queueVars, socketVars, main, clientVars>>
    BY <1>1, <1>6 DEF SendCall
  <2>2. next \in {"recv", "leave", "stop"}
    BY DEF AfterReply
  <2>3. CASE worker' = [worker EXCEPT ![w] = r]
    <3> HIDE DEF next, old
    <3>1. /\ r \in WorkerThread /\ r.at = next /\ r.conn = old.conn
      BY <1>1, <2>2 DEF WorkerThread, WorkerAt, TalkingAt, Number
    <3> HIDE DEF r
    <3>2. Talks(w, r)
      BY <1>1, <2>1, <2>2, <2>3, <3>1 DEF Talks, TalkingAt, serverVars, clientVars, old
    <3> QED  BY <3>2
  <2>4. CASE Leave(w)
    BY <1>1, <2>1, <2>4, LeaveTalks DEF serverVars, clientVars, TalkingAt
  <2> QED  BY <2>1, <2>3, <2>4
<1>7. CASE Stop(w)
  <2> DEFINE r == [old EXCEPT !.at = "close_listener"]
  <2>1. /\ old.at = "stop" /\ worker' = [worker EXCEPT ![w] = r] /\ stopping' = TRUE
        /\ UNCHANGED <<live, registry, queueVars, socketVars, main, clientVars>>
    BY <1>1, <1>7 DEF Stop, Goto
  <2> HIDE DEF old
  <2>2. /\ r \in WorkerThread /\ r.at = "close_listener" /\ r.conn = old.conn
    BY <1>1 DEF WorkerThread, WorkerAt, TalkingAt
  <2> HIDE DEF r
  <2>3. Talks(w, r)
    BY <1>1, <2>1, <2>2 DEF Talks, TalkingAt, clientVars, old
  <2> QED  BY <2>3
<1>8. CASE WorkerReadsListener(w)
  <2> DEFINE n == handle[Listener]
             r == IF n = NoHandle THEN [old EXCEPT !.at = "interrupt"]
                  ELSE [old EXCEPT !.at = "close_call", !.number = n]
  <2>1. /\ old.at = "close_listener" /\ worker' = [worker EXCEPT ![w] = r]
        /\ UNCHANGED <<serverVars, queueVars, socketVars, main, clientVars>>
    BY <1>1, <1>8 DEF WorkerReadsListener
  <2>2. n \in {NoHandle, 1}
    BY DEF DInv, NumbersHeld
  <2> HIDE DEF n, old
  <2>3. /\ r \in WorkerThread /\ r.conn = old.conn
        /\ n = NoHandle => r.at = "interrupt"
        /\ n # NoHandle => r.at = "close_call" /\ r.number = n
    BY <1>1, <2>2, Names DEF WorkerThread, WorkerAt, TalkingAt, Number
  <2> HIDE DEF r
  <2>4. Talks(w, r)
    BY <1>1, <2>1, <2>2, <2>3 DEF Talks, TalkingAt, serverVars, clientVars, old, n
  <2> QED  BY <2>4
<1>9. ASSUME NEW f \in Frames, Receive(w, f)
      PROVE  \E r : Talks(w, r)
  <2> DEFINE reply == [old EXCEPT !.at = "reply", !.on = NoConn, !.frame = f]
             again == [old EXCEPT !.at = "recv", !.on = NoConn]
  <2>1. /\ old.at = "blocked" /\ received' = received + 1
        /\ Serve(w, f)
        /\ UNCHANGED <<serverVars, queueVars, socketVars, main, peer>>
    BY <1>9 DEF Receive
  <2>2. \/ Leave(w)
        \/ worker' = [worker EXCEPT ![w] = reply]
        \/ worker' = [worker EXCEPT ![w] = again]
    BY <1>1, <2>1 DEF Serve
  <2>3. f \in FrameKind
    BY DaemonAssumption
  <2>4. received' \in Nat
    BY <1>1, <2>1
  <2>5. CASE Leave(w)
    BY <1>1, <2>1, <2>4, <2>5, LeaveTalks DEF serverVars, TalkingAt
  <2>6. ASSUME NEW r \in {reply, again}, worker' = [worker EXCEPT ![w] = r]
        PROVE  \E q : Talks(w, q)
    <3> HIDE DEF old
    <3>1. /\ r \in WorkerThread /\ r.at \in {"reply", "recv"} /\ r.conn = old.conn
      BY <1>1, <2>3 DEF WorkerThread, WorkerAt, TalkingAt
    <3>2. Talks(w, r)
      BY <1>1, <2>1, <2>4, <2>6, <3>1 DEF Talks, TalkingAt, serverVars, old
    <3> QED  BY <3>2
  <2> QED  BY <2>2, <2>5, <2>6
<1> QED  BY <1>3, <1>4, <1>5, <1>6, <1>7, <1>8, <1>9

-----------------------------------------------------------------------------
(* Between two connections.                                                 *)

Woken == {w \in Worker : worker[w].at = "woken"}

(* Sets of workers are finite, and change by one worker at a time.          *)
LEMMA WorkerSets ==
  /\ \A S \in SUBSET Worker : IsFiniteSet(S) /\ Cardinality(S) \in Nat
  /\ \A S \in SUBSET Worker, w \in Worker :
       /\ w \notin S => Cardinality(S \cup {w}) = Cardinality(S) + 1
       /\ w \in S => Cardinality(S \ {w}) = Cardinality(S) - 1
<1>1. \A S \in SUBSET Worker : IsFiniteSet(S)
  BY DaemonAssumption, FS_Subset
<1>2. \A S \in SUBSET Worker : Cardinality(S) \in Nat
  BY <1>1, FS_CardinalityType
<1>3. \A S \in SUBSET Worker, w \in Worker :
        w \notin S => Cardinality(S \cup {w}) = Cardinality(S) + 1
  BY <1>1, FS_AddElement
<1>4. \A S \in SUBSET Worker, w \in Worker :
        w \in S => Cardinality(S \ {w}) = Cardinality(S) - 1
  BY <1>1, FS_RemoveElement
<1> QED  BY <1>1, <1>2, <1>3, <1>4

(* Workers wait, wake and exit; nothing else changes.                       *)
Rests ==
  /\ worker' \in [Worker -> WorkerThread]
  /\ \A v \in Worker :
       /\ worker'[v].conn = worker[v].conn
       /\ \/ worker'[v] = worker[v]
          \/ worker[v].at \in {"pop", "wait", "woken"} /\ worker'[v].at \in RestingAt
       /\ worker'[v].at = "exited" =>
            worker[v].at = "exited" \/ (closed_ /\ queue = <<>>)

(* A step of a thread that holds no connection keeps the invariant.         *)
LEMMA RestInv ==
  ASSUME DInv, Rests, UNCHANGED <<serverVars, queueVars, socketVars, main, clientVars>>
  PROVE  /\ DInv'
         /\ LiveCounts => LiveCounts'
         /\ NumbersOwn => NumbersOwn'
<1>1. UNCHANGED <<stopping, live, registry, queue, closed_, handle, table, main, peer, received>>
  BY DEF serverVars, queueVars, socketVars, clientVars
<1>2. \A v \in Worker :
        /\ worker'[v].conn = worker[v].conn
        /\ worker'[v].at \in RestingAt <=> worker[v].at \in RestingAt
        /\ worker'[v].at \notin RestingAt => worker'[v] = worker[v]
        /\ worker[v].at \notin RestingAt => worker'[v] = worker[v]
        /\ worker[v].at = "exited" => worker'[v].at = "exited"
  BY DEF Rests, RestingAt
<1>3. DaemonTypeOK'
  BY <1>1 DEF DInv, DaemonTypeOK, Rests
<1>4. \A c \in Conn : /\ HeldByWorker(c)' <=> HeldByWorker(c)
                      /\ Queued(c)' <=> Queued(c)
                      /\ Held(c)' <=> Held(c)
  BY <1>1, <1>2 DEF HeldByWorker, Queued, Held
<1>5. OneOwner'
  BY <1>1, <1>2, <1>4 DEF DInv, OneOwner
<1>6. RegistryTalks'
  BY <1>1, <1>2 DEF DInv, RegistryTalks, TalkingAt, RestingAt
<1>7. QueueEnds'
  BY <1>1, <1>2 DEF DInv, QueueEnds, Joined, Rests
<1>8. NumbersHeld'
  BY <1>1, <1>2, <1>4 DEF DInv, NumbersHeld, RestingAt
<1>9. LiveCounts => LiveCounts'
  <2>1. Counted' = Counted
    BY <1>2 DEF Counted, TalkingAt, RestingAt
  <2> QED  BY <1>1, <2>1 DEF LiveCounts
<1>10. NumbersOwn => NumbersOwn'
  BY <1>1, <1>2 DEF NumbersOwn, StaleOnlyAtEnd, RestingAt
<1> QED  BY <1>3, <1>5, <1>6, <1>7, <1>8, <1>9, <1>10 DEF DInv

(* A worker that finds the queue empty, and one that wakes for no reason.   *)
LEMMA RestKeeps ==
  ASSUME DInv, NEW w \in Worker, (Pop(w) /\ queue = <<>>) \/ SpuriousWake(w)
  PROVE  /\ DInv'
         /\ LiveCounts => LiveCounts'
         /\ NumbersOwn => NumbersOwn'
         /\ QueuedHaveTakers => QueuedHaveTakers'
<1> DEFINE old == worker[w]
<1>1. PICK a \in {"exited", "wait", "woken"} :
        /\ worker' = [worker EXCEPT ![w] = [old EXCEPT !.at = a]]
        /\ old.at \in {"pop", "wait", "woken"}
        /\ a = "exited" => closed_ /\ queue = <<>>
        /\ a \in {"exited", "wait"} => queue = <<>>
        /\ a = "woken" => old.at = "wait"
        /\ UNCHANGED <<serverVars, queueVars, socketVars, main, clientVars>>
  BY DEF Pop, SpuriousWake, Goto, Blocked, DInv, DaemonTypeOK, queueVars
<1> DEFINE r == [old EXCEPT !.at = a]
<1>2. old \in WorkerThread /\ worker \in [Worker -> WorkerThread] /\ queue \in Seq(Conn)
  BY DEF DInv, DaemonTypeOK
<1> HIDE DEF old
<1>3. r \in WorkerThread /\ r.at = a /\ r.conn = old.conn
  BY <1>2 DEF WorkerThread, WorkerAt, RestingAt
<1> HIDE DEF r
<1>4. \A v \in Worker : worker'[v] = IF v = w THEN r ELSE worker[v]
  BY <1>1, <1>2 DEF r
<1>5. Rests
  BY <1>1, <1>2, <1>3, <1>4 DEF Rests, RestingAt, old, r
<1>6. ASSUME QueuedHaveTakers
      PROVE  QueuedHaveTakers'
  <2>1. queue' = queue /\ Len(queue) \in Nat
    BY <1>1, <1>2 DEF queueVars
  <2>2. CASE queue = <<>>
    <3>1. Len(queue') = 0
      BY <2>1, <2>2
    <3>2. Cardinality(Woken') \in Nat
      BY WorkerSets DEF Woken
    <3> QED  BY <3>1, <3>2 DEF QueuedHaveTakers, Woken
  <2>3. CASE queue # <<>>
    <3>1. a = "woken" /\ old.at = "wait"
      BY <1>1, <2>3
    <3>2. Woken' = Woken \cup {w} /\ w \notin Woken /\ w \in Blocked
      BY <1>3, <1>4, <3>1 DEF Woken, Blocked, old
    <3>3. Cardinality(Woken') = Cardinality(Woken) + 1 /\ Cardinality(Woken) \in Nat
      BY <3>2, WorkerSets DEF Woken
    <3>4. Len(queue) <= Cardinality(Woken)
      BY <1>6, <3>2 DEF QueuedHaveTakers, Woken
    <3> QED  BY <2>1, <3>3, <3>4 DEF QueuedHaveTakers, Woken
  <2> QED  BY <2>2, <2>3
<1> QED  BY <1>1, <1>5, <1>6, RestInv

(* A worker takes the oldest connection.                                    *)
LEMMA PopKeeps ==
  ASSUME DInv, NEW w \in Worker, Pop(w), queue # <<>>
  PROVE  /\ DInv'
         /\ LiveCounts => LiveCounts'
         /\ NumbersOwn => NumbersOwn'
         /\ QueuedHaveTakers => QueuedHaveTakers'
<1> DEFINE old == worker[w]
           h == Head(queue)
           r == [old EXCEPT !.at = "register", !.conn = h]
<1>1. old \in WorkerThread /\ worker \in [Worker -> WorkerThread] /\ queue \in Seq(Conn)
  BY DEF DInv, DaemonTypeOK
<1>2. /\ old.at \in {"pop", "woken"}
      /\ worker' = [worker EXCEPT ![w] = r] /\ queue' = Tail(queue)
      /\ UNCHANGED <<stopping, live, registry, closed_, handle, table, main, peer, received>>
  BY <1>1 DEF Pop, serverVars, socketVars, clientVars
<1>3. /\ h = queue[1] /\ h \in Conn /\ Len(queue) \in Nat \ {0}
      /\ queue' \in Seq(Conn) /\ Len(queue') = Len(queue) - 1
      /\ DOMAIN queue = 1 .. Len(queue) /\ DOMAIN queue' = 1 .. Len(queue) - 1
      /\ \A k \in 1 .. Len(queue) - 1 : queue'[k] = queue[k + 1]
  BY <1>1, <1>2
<1> HIDE DEF old, h
<1>4. r \in WorkerThread /\ r.at = "register" /\ r.conn = h
  BY <1>1, <1>3 DEF WorkerThread, WorkerAt
<1> HIDE DEF r
<1>5. \A v \in Worker : worker'[v] = IF v = w THEN r ELSE worker[v]
  BY <1>1, <1>2
<1>6. DaemonTypeOK'
  BY <1>1, <1>2, <1>3, <1>4 DEF DInv, DaemonTypeOK
<1>7. /\ old.conn = NoConn
      /\ Queued(h) /\ ~HeldByWorker(h) /\ main.conn # h
  BY <1>2, <1>3 DEF DInv, OneOwner, Queued, RestingAt, old
<1>8. \A c \in Conn : Queued(c)' <=> Queued(c) /\ c # h
  <2>1. \A j, k \in 1 .. Len(queue) : j # k => queue[j] # queue[k]
    BY <1>3 DEF DInv, OneOwner
  <2>2. ASSUME NEW c \in Conn, Queued(c)'
        PROVE  Queued(c) /\ c # h
    <3>1. PICK k \in 1 .. Len(queue) - 1 : queue[k + 1] = c
      BY <1>3, <2>2 DEF Queued
    <3>2. k + 1 \in 1 .. Len(queue) /\ 1 \in 1 .. Len(queue) /\ k + 1 # 1
      BY <1>3
    <3> QED  BY <1>3, <2>1, <3>1, <3>2 DEF Queued
  <2>3. ASSUME NEW c \in Conn, Queued(c), c # h
        PROVE  Queued(c)'
    <3>1. PICK k \in 1 .. Len(queue) : queue[k] = c
      BY <1>3, <2>3 DEF Queued
    <3>2. k - 1 \in 1 .. Len(queue) - 1 /\ (k - 1) + 1 = k
      BY <1>3, <2>3, <3>1
    <3> QED  BY <1>3, <3>1, <3>2 DEF Queued
  <2> QED  BY <2>2, <2>3
<1>9. \A c \in Conn : HeldByWorker(c)' <=> HeldByWorker(c) \/ c = h
  <2>1. \A c \in Conn : c # NoConn
    BY Names
  <2> QED  BY <1>4, <1>5, <1>7, <2>1 DEF HeldByWorker, old
<1>10. \A c \in Conn : Held(c)' <=> Held(c)
  BY <1>2, <1>7, <1>8, <1>9 DEF Held
<1>11. OneOwner'
  <2>1. \A v \in Worker : worker'[v].conn = NoConn <=> worker'[v].at \in RestingAt
    BY <1>3, <1>4, <1>5, Names DEF DInv, OneOwner, RestingAt
  <2>2. \A u, v \in Worker :
          u # v /\ worker'[u].conn # NoConn => worker'[u].conn # worker'[v].conn
    BY <1>4, <1>5, <1>7 DEF DInv, OneOwner, HeldByWorker
  <2>3. \A j, k \in DOMAIN queue' : j # k => queue'[j] # queue'[k]
    <3>1. ASSUME NEW j \in 1 .. Len(queue) - 1, NEW k \in 1 .. Len(queue) - 1, j # k
          PROVE  queue'[j] # queue'[k]
      <4>1. j + 1 \in 1 .. Len(queue) /\ k + 1 \in 1 .. Len(queue) /\ j + 1 # k + 1
        BY <1>3, <3>1
      <4> QED  BY <1>3, <4>1 DEF DInv, OneOwner
    <3> QED  BY <1>3, <3>1
  <2>4. \A c \in Conn : Queued(c)' => ~HeldByWorker(c)' /\ main'.conn # c
    BY <1>2, <1>8, <1>9 DEF DInv, OneOwner
  <2>5. \A c \in Conn : HeldByWorker(c)' => main'.conn # c
    BY <1>2, <1>7, <1>9 DEF DInv, OneOwner
  <2>6. \A c \in Conn : peer'[c] \in {"away", "backlog"} => ~Held(c)' /\ handle'[c] = NoHandle
    BY <1>2, <1>10 DEF DInv, OneOwner
  <2> QED  BY <1>2, <2>1, <2>2, <2>3, <2>4, <2>5, <2>6 DEF DInv, OneOwner
<1>12. RegistryTalks'
  <2>1. \A v \in Worker : worker[v].at \in TalkingAt => worker'[v] = worker[v]
    BY <1>2, <1>5 DEF TalkingAt, old
  <2> QED  BY <1>2, <2>1 DEF DInv, RegistryTalks
<1>13. QueueEnds'
  BY <1>2, <1>4, <1>5 DEF DInv, QueueEnds, Joined, old
<1>14. NumbersHeld'
  BY <1>2, <1>4, <1>5, <1>10 DEF DInv, NumbersHeld
<1>15. ASSUME LiveCounts
       PROVE  LiveCounts'
  <2>1. Counted' = Counted \cup {w} /\ w \notin Counted
    BY <1>2, <1>4, <1>5 DEF Counted, TalkingAt, old
  <2>2. Cardinality(Counted') = Cardinality(Counted) + 1 /\ Cardinality(Counted) \in Nat
    BY <2>1, WorkerSets DEF Counted
  <2> QED  BY <1>2, <1>3, <1>15, <2>2 DEF LiveCounts
<1>16. ASSUME QueuedHaveTakers
       PROVE  QueuedHaveTakers'
  <2>1. Blocked' = Blocked
    BY <1>2, <1>4, <1>5 DEF Blocked, old
  <2>2. \/ w \in Woken /\ Woken' = Woken \ {w}
        \/ Woken' = Woken
    BY <1>2, <1>4, <1>5 DEF Woken, old
  <2>3. /\ Cardinality(Woken) \in Nat /\ Cardinality(Woken') \in Nat
        /\ Cardinality(Woken') >= Cardinality(Woken) - 1
    <3>1. Woken \in SUBSET Worker /\ Woken' \in SUBSET Worker
      BY DEF Woken
    <3>2. Cardinality(Woken) \in Nat /\ Cardinality(Woken') \in Nat
      BY <3>1, WorkerSets
    <3>3. w \in Woken => Cardinality(Woken \ {w}) = Cardinality(Woken) - 1
      BY <3>1, WorkerSets
    <3>4. \/ Cardinality(Woken') = Cardinality(Woken) - 1
          \/ Cardinality(Woken') = Cardinality(Woken)
      BY <2>2, <3>3
    <3> QED  BY <3>2, <3>4
  <2> QED  BY <1>3, <1>16, <2>1, <2>3 DEF QueuedHaveTakers, Woken
<1>17. NumbersOwn => NumbersOwn'
  BY <1>2, <1>4, <1>5 DEF NumbersOwn, StaleOnlyAtEnd
<1> QED  BY <1>6, <1>11, <1>12, <1>13, <1>14, <1>15, <1>16, <1>17 DEF DInv

-----------------------------------------------------------------------------
(* What most steps leave alone.                                             *)

(* Nobody gains or gives up a connection.                                   *)
LEMMA SameHolders ==
  ASSUME DInv, UNCHANGED <<queue, peer>>,
         main'.conn = main.conn, main'.at = "push" <=> main.at = "push",
         \A v \in Worker :
           /\ worker'[v].conn = worker[v].conn
           /\ worker'[v].at \in RestingAt <=> worker[v].at \in RestingAt,
         \A c \in Conn : handle'[c] \in {handle[c], NoHandle}
  PROVE  /\ OneOwner'
         /\ \A c \in Conn : Held(c)' <=> Held(c)
<1>1. \A c \in Conn : /\ HeldByWorker(c)' <=> HeldByWorker(c)
                      /\ Queued(c)' <=> Queued(c)
                      /\ Held(c)' <=> Held(c)
  BY DEF HeldByWorker, Queued, Held
<1>2. OneOwner'
  BY <1>1 DEF DInv, OneOwner
<1> QED  BY <1>1, <1>2

(* Nobody starts or stops waiting for the queue, and it stays as it is.     *)
LEMMA SameTakers ==
  ASSUME UNCHANGED queue,
         \A v \in Worker :
           /\ worker'[v].at = "wait" <=> worker[v].at = "wait"
           /\ worker'[v].at = "woken" <=> worker[v].at = "woken"
  PROVE  QueuedHaveTakers => QueuedHaveTakers'
<1>1. Blocked' = Blocked /\ Woken' = Woken
  BY DEF Blocked, Woken
<1> QED  BY <1>1 DEF QueuedHaveTakers, Woken

(* The descriptors after a connection's socket is closed: no other socket   *)
(* loses its own.                                                           *)
SocketClosed(c) ==
  /\ \A n \in Descriptor : table'[n] = IF n = handle[c] THEN Free ELSE table[n]
  /\ \A s \in Socket : handle'[s] = IF s = c THEN NoHandle ELSE handle[s]

(* A socket that is closed loses its number, and no other socket does.      *)
LEMMA ClosedKeepsOthers ==
  ASSUME DInv, NEW c \in Conn, SocketClosed(c)
  PROVE  /\ \A n \in Descriptor : table'[n] # Free => handle'[table'[n]] = n
         /\ handle'[Listener] = handle[Listener] /\ handle'[c] = NoHandle
         /\ \A b \in Conn : b # c => handle'[b] = handle[b]
         /\ NumbersOwn =>
              /\ \A n \in Descriptor, s \in Socket :
                   s # c /\ StaleOnlyAtEnd(n, s) => StaleOnlyAtEnd(n, s)'
              /\ handle'[Listener] # NoHandle => table'[1] = Listener
              /\ \A b \in Conn : handle'[b] # NoHandle => table'[handle'[b]] = b
<1>1. /\ handle \in [Socket -> Number] /\ table \in [Descriptor -> Socket \cup {Free}]
      /\ c \in Socket /\ Listener \in Socket /\ Listener # c
  BY Names DEF DInv, DaemonTypeOK, Socket
<1>2. handle'[Listener] = handle[Listener] /\ handle'[c] = NoHandle
  BY <1>1 DEF SocketClosed
<1>3. \A b \in Conn : b # c => handle'[b] = handle[b]
  BY DEF SocketClosed, Socket
<1>4. \A n \in Descriptor : table'[n] # Free => handle'[table'[n]] = n
  BY <1>1 DEF SocketClosed, DInv, NumbersHeld
<1>5. ASSUME NumbersOwn, NEW n \in Descriptor, NEW s \in Socket, s # c, StaleOnlyAtEnd(n, s)
      PROVE  StaleOnlyAtEnd(n, s)'
  <2>1. CASE table[n] = Free /\ handle[Listener] = NoHandle
    BY <1>2, <2>1 DEF SocketClosed, StaleOnlyAtEnd
  <2>2. CASE table[n] = s
    <3>1. n # handle[c]
      BY <1>5, <2>2, Names DEF NumbersOwn
    <3> QED  BY <2>2, <3>1 DEF SocketClosed, StaleOnlyAtEnd
  <2> QED  BY <1>5, <2>1, <2>2 DEF StaleOnlyAtEnd
<1>6. ASSUME NumbersOwn, handle[Listener] # NoHandle
      PROVE  table'[1] = Listener
  <2>1. table[1] = Listener /\ handle[c] # 1
    BY <1>1, <1>6, Names DEF NumbersOwn
  <2> QED  BY <2>1, Names DEF SocketClosed
<1>7. ASSUME NumbersOwn, NEW b \in Conn, handle'[b] # NoHandle
      PROVE  table'[handle'[b]] = b
  <2>1. b # c /\ handle'[b] = handle[b]
    BY <1>2, <1>3, <1>7
  <2>2. handle[b] \in Descriptor /\ table[handle[b]] = b
    BY <1>1, <1>7, <2>1 DEF NumbersOwn, Number, Socket
  <2>3. handle[b] # handle[c]
    BY <1>7, <2>1, <2>2, Names DEF NumbersOwn
  <2> QED  BY <2>1, <2>2, <2>3 DEF SocketClosed
<1> QED  BY <1>2, <1>3, <1>4, <1>5, <1>6, <1>7

(* The descriptors after the listener is closed.                            *)
LEMMA ListenerClosed ==
  ASSUME DInv, CloseNumber(1), handle' = [handle EXCEPT ![Listener] = NoHandle]
  PROVE  /\ handle' \in [Socket -> Number] /\ table' \in [Descriptor -> Socket \cup {Free}]
         /\ \A n \in Descriptor : table'[n] # Free => handle'[table'[n]] = n
         /\ handle'[Listener] = NoHandle
         /\ \A b \in Conn : handle'[b] = handle[b]
         /\ \A n \in Descriptor : \A s : StaleOnlyAtEnd(n, s) => StaleOnlyAtEnd(n, s)'
         /\ NumbersOwn /\ StaleOnlyAtEnd(1, Listener) =>
              \A b \in Conn : handle'[b] # NoHandle => table'[handle'[b]] = b
<1>1. handle \in [Socket -> Number] /\ table \in [Descriptor -> Socket \cup {Free}]
  BY DEF DInv, DaemonTypeOK
<1>2. /\ handle' \in [Socket -> Number] /\ table' \in [Descriptor -> Socket \cup {Free}]
      /\ handle'[Listener] = NoHandle
      /\ \A b \in Conn : handle'[b] = handle[b]
      /\ \A n \in Descriptor : table'[n] = IF n = 1 THEN Free ELSE table[n]
  BY <1>1, Names DEF CloseNumber, Socket, Number
<1>3. \A n \in Descriptor : table'[n] # Free => handle'[table'[n]] = n
  <2>1. ASSUME NEW n \in Descriptor, table'[n] # Free
        PROVE  handle'[table'[n]] = n
    <3>1. n # 1 /\ n # NoHandle /\ table'[n] = table[n] /\ handle[table[n]] = n
      BY <1>2, <2>1, Names DEF DInv, NumbersHeld
    <3>2. table[n] # Listener
      BY <3>1 DEF DInv, NumbersHeld
    <3> QED  BY <1>1, <1>2, <2>1, <3>1, <3>2 DEF Socket
  <2> QED  BY <2>1
<1>4. \A n \in Descriptor : \A s : StaleOnlyAtEnd(n, s) => StaleOnlyAtEnd(n, s)'
  BY <1>2 DEF StaleOnlyAtEnd
<1>5. ASSUME NumbersOwn, StaleOnlyAtEnd(1, Listener), NEW b \in Conn, handle'[b] # NoHandle
      PROVE  table'[handle'[b]] = b
  <2>1. handle[b] \in Descriptor /\ table[handle[b]] = b
    BY <1>1, <1>2, <1>5 DEF NumbersOwn, Number, Socket
  <2>2. table[1] # b
    BY <1>5, Names DEF StaleOnlyAtEnd
  <2> QED  BY <1>2, <2>1, <2>2
<1> QED  BY <1>2, <1>3, <1>4, <1>5

-----------------------------------------------------------------------------
(* The ends of a conversation.                                              *)

(* register_connection keeps the invariant.                                 *)
LEMMA RegisterKeeps ==
  ASSUME DInv, NEW w \in Worker, Register(w)
  PROVE  /\ DInv'
         /\ LiveCounts => LiveCounts'
         /\ NumbersOwn => NumbersOwn'
         /\ QueuedHaveTakers => QueuedHaveTakers'
<1> DEFINE old == worker[w]
           r == [old EXCEPT !.at = "recv"]
<1>1. old \in WorkerThread /\ worker \in [Worker -> WorkerThread]
  BY DEF DInv, DaemonTypeOK
<1>2. /\ old.at = "register" /\ registry' = registry \cup {old.conn}
      /\ worker' = [worker EXCEPT ![w] = r]
      /\ UNCHANGED <<stopping, live, queue, closed_, handle, table, main, peer, received>>
  BY <1>1 DEF Register, Goto, queueVars, socketVars, clientVars
<1>3. old.conn \in Conn
  BY <1>1, <1>2 DEF DInv, OneOwner, RestingAt, WorkerThread
<1> HIDE DEF old
<1>4. r \in WorkerThread /\ r.at = "recv" /\ r.conn = old.conn
  BY <1>1 DEF WorkerThread, WorkerAt, TalkingAt
<1> HIDE DEF r
<1>5. \A v \in Worker : worker'[v] = IF v = w THEN r ELSE worker[v]
  BY <1>1, <1>2
<1>6. DaemonTypeOK'
  BY <1>1, <1>2, <1>3, <1>4 DEF DInv, DaemonTypeOK
<1>7. \A v \in Worker : /\ worker'[v].conn = worker[v].conn
                        /\ worker'[v].at \in RestingAt <=> worker[v].at \in RestingAt
  BY <1>2, <1>4, <1>5 DEF RestingAt, old
<1>8. OneOwner' /\ \A c \in Conn : Held(c)' <=> Held(c)
  BY <1>2, <1>7, SameHolders
<1>9. RegistryTalks'
  BY <1>2, <1>4, <1>5 DEF DInv, RegistryTalks, TalkingAt, old
<1>10. QueueEnds'
  BY <1>2, <1>4, <1>5 DEF DInv, QueueEnds, Joined, old
<1>11. NumbersHeld'
  BY <1>2, <1>4, <1>5, <1>8 DEF DInv, NumbersHeld
<1>12. LiveCounts => LiveCounts'
  <2>1. Counted' = Counted
    BY <1>2, <1>4, <1>5 DEF Counted, TalkingAt, old
  <2> QED  BY <1>2, <2>1 DEF LiveCounts
<1>13. NumbersOwn => NumbersOwn'
  BY <1>2, <1>4, <1>5 DEF NumbersOwn, StaleOnlyAtEnd
<1>14. QueuedHaveTakers => QueuedHaveTakers'
  <2>1. \A v \in Worker : /\ worker'[v].at = "wait" <=> worker[v].at = "wait"
                          /\ worker'[v].at = "woken" <=> worker[v].at = "woken"
    BY <1>2, <1>4, <1>5 DEF old
  <2> QED  BY <1>2, <2>1, SameTakers
<1> QED  BY <1>6, <1>8, <1>9, <1>10, <1>11, <1>12, <1>13, <1>14 DEF DInv

(* The Unregister guard, which also counts down, keeps the invariant.       *)
LEMMA UnregisterKeeps ==
  ASSUME DInv, NEW w \in Worker, Unregister(w)
  PROVE  /\ DInv'
         /\ LiveCounts => LiveCounts'
         /\ NumbersOwn => NumbersOwn'
         /\ QueuedHaveTakers => QueuedHaveTakers'
<1> DEFINE old == worker[w]
           r == [old EXCEPT !.at = "destroy"]
<1>1. old \in WorkerThread /\ worker \in [Worker -> WorkerThread] /\ live \in Int
  BY DEF DInv, DaemonTypeOK
<1>2. /\ old.at = "leave" /\ registry' = registry \ {old.conn} /\ live' = live - 1
      /\ worker' = [worker EXCEPT ![w] = r]
      /\ UNCHANGED <<stopping, queue, closed_, handle, table, main, peer, received>>
  BY <1>1 DEF Unregister, Without, Goto, queueVars, socketVars, clientVars
<1> HIDE DEF old
<1>3. r \in WorkerThread /\ r.at = "destroy" /\ r.conn = old.conn
  BY <1>1 DEF WorkerThread, WorkerAt
<1> HIDE DEF r
<1>4. \A v \in Worker : worker'[v] = IF v = w THEN r ELSE worker[v]
  BY <1>1, <1>2
<1>5. DaemonTypeOK'
  BY <1>1, <1>2, <1>3 DEF DInv, DaemonTypeOK
<1>6. \A v \in Worker : /\ worker'[v].conn = worker[v].conn
                        /\ worker'[v].at \in RestingAt <=> worker[v].at \in RestingAt
  BY <1>2, <1>3, <1>4 DEF RestingAt, old
<1>7. OneOwner' /\ \A c \in Conn : Held(c)' <=> Held(c)
  BY <1>2, <1>6, SameHolders
<1>8. RegistryTalks'
  <2>1. ASSUME NEW c \in registry'
        PROVE  \E v \in Worker : worker'[v].conn = c /\ worker'[v].at \in TalkingAt
    <3>1. c \in registry /\ c # old.conn
      BY <1>2
    <3>2. PICK v \in Worker : worker[v].conn = c /\ worker[v].at \in TalkingAt
      BY <3>1 DEF DInv, RegistryTalks
    <3>3. worker'[v] = worker[v]
      BY <1>4, <3>1, <3>2 DEF old
    <3> QED  BY <3>2, <3>3
  <2> QED  BY <2>1 DEF RegistryTalks
<1>9. QueueEnds'
  BY <1>2, <1>3, <1>4 DEF DInv, QueueEnds, Joined, old
<1>10. NumbersHeld'
  BY <1>2, <1>3, <1>4, <1>7 DEF DInv, NumbersHeld
<1>11. ASSUME LiveCounts
       PROVE  LiveCounts'
  <2>1. Counted' = Counted \ {w} /\ w \in Counted
    BY <1>2, <1>3, <1>4 DEF Counted, TalkingAt, old
  <2>2. Counted \in SUBSET Worker /\ Counted' \in SUBSET Worker
    BY DEF Counted
  <2>3. Cardinality(Counted') = Cardinality(Counted) - 1 /\ Cardinality(Counted) \in Nat
    BY <2>1, <2>2, WorkerSets
  <2>4. queue \in Seq(Conn) /\ Len(queue) \in Nat
    BY DEF DInv, DaemonTypeOK
  <2> QED  BY <1>2, <1>11, <2>3, <2>4 DEF LiveCounts
<1>12. NumbersOwn => NumbersOwn'
  BY <1>2, <1>3, <1>4 DEF NumbersOwn, StaleOnlyAtEnd
<1>13. QueuedHaveTakers => QueuedHaveTakers'
  <2>1. \A v \in Worker : /\ worker'[v].at = "wait" <=> worker[v].at = "wait"
                          /\ worker'[v].at = "woken" <=> worker[v].at = "woken"
    BY <1>2, <1>3, <1>4 DEF old
  <2> QED  BY <1>2, <2>1, SameTakers
<1> QED  BY <1>5, <1>7, <1>8, <1>9, <1>10, <1>11, <1>12, <1>13 DEF DInv

(* Nobody else refers to a socket that is destroyed.                        *)
LEMMA DestroyKeeps ==
  ASSUME DInv, NEW w \in Worker, Destroy(w)
  PROVE  /\ DInv'
         /\ LiveCounts => LiveCounts'
         /\ NumbersOwn => NumbersOwn'
         /\ QueuedHaveTakers => QueuedHaveTakers'
<1> DEFINE old == worker[w]
           c == old.conn
<1>1. /\ old \in WorkerThread /\ worker \in [Worker -> WorkerThread]
      /\ handle \in [Socket -> Number] /\ table \in [Descriptor -> Socket \cup {Free}]
  BY DEF DInv, DaemonTypeOK
<1>2. /\ old.at = "destroy" /\ worker' = [worker EXCEPT ![w] = Idle]
      /\ IF handle[c] = NoHandle THEN handle' = handle /\ table' = table
         ELSE CloseNumber(handle[c]) /\ handle' = [handle EXCEPT ![c] = NoHandle]
      /\ UNCHANGED <<stopping, live, registry, queue, closed_, main, peer, received>>
  BY DEF Destroy, serverVars, queueVars, socketVars, clientVars
<1>3. c \in Conn
  BY <1>1, <1>2 DEF DInv, OneOwner, RestingAt, WorkerThread
<1> HIDE DEF old, c
<1>4. Idle \in WorkerThread /\ Idle.at = "pop" /\ Idle.conn = NoConn
  BY DEF Idle, WorkerThread, WorkerAt, RestingAt, Number
<1> HIDE DEF Idle
<1>5. \A v \in Worker : worker'[v] = IF v = w THEN Idle ELSE worker[v]
  BY <1>1, <1>2
<1>6. handle' \in [Socket -> Number] /\ table' \in [Descriptor -> Socket \cup {Free}]
  BY <1>1, <1>2 DEF CloseNumber, Number
<1>7. SocketClosed(c)
  BY <1>1, <1>2, <1>3, Names DEF SocketClosed, CloseNumber, Socket
<1>8. /\ \A n \in Descriptor : table'[n] # Free => handle'[table'[n]] = n
      /\ handle'[Listener] = handle[Listener] /\ handle'[c] = NoHandle
      /\ \A b \in Conn : b # c => handle'[b] = handle[b]
  BY <1>3, <1>7, ClosedKeepsOthers
<1>9. DaemonTypeOK'
  BY <1>1, <1>2, <1>4, <1>6 DEF DInv, DaemonTypeOK
<1>10. \A v \in Worker : v # w => worker[v].conn # c
  BY <1>3, Names DEF DInv, OneOwner, old, c
<1>11. \A b \in Conn : /\ HeldByWorker(b)' <=> HeldByWorker(b) /\ b # c
                       /\ Queued(b)' <=> Queued(b)
  <2>1. \A b \in Conn : b # NoConn
    BY Names
  <2>2. \A b \in Conn : HeldByWorker(b)' <=> HeldByWorker(b) /\ b # c
    BY <1>4, <1>5, <1>10, <2>1 DEF HeldByWorker, old, c
  <2> QED  BY <1>2, <2>2 DEF Queued
<1>12. \A b \in Conn : /\ Held(b)' => Held(b)
                       /\ Held(b) /\ b # c => Held(b)'
  BY <1>2, <1>11 DEF Held
<1>13. OneOwner'
  <2>1. \A v \in Worker : worker'[v].conn = NoConn <=> worker'[v].at \in RestingAt
    BY <1>4, <1>5 DEF DInv, OneOwner, RestingAt
  <2>2. \A u, v \in Worker :
          u # v /\ worker'[u].conn # NoConn => worker'[u].conn # worker'[v].conn
    BY <1>4, <1>5 DEF DInv, OneOwner
  <2>3. \A b \in Conn :
          /\ Queued(b)' => ~HeldByWorker(b)' /\ main'.conn # b
          /\ HeldByWorker(b)' => main'.conn # b
    BY <1>2, <1>11 DEF DInv, OneOwner
  <2>4. \A b \in Conn : peer'[b] \in {"away", "backlog"} => ~Held(b)' /\ handle'[b] = NoHandle
    BY <1>2, <1>8, <1>12 DEF DInv, OneOwner
  <2> QED  BY <1>2, <2>1, <2>2, <2>3, <2>4 DEF DInv, OneOwner
<1>14. RegistryTalks'
  <2>1. \A v \in Worker : worker[v].at \in TalkingAt => worker'[v] = worker[v]
    BY <1>2, <1>5 DEF TalkingAt, old
  <2> QED  BY <1>2, <2>1 DEF DInv, RegistryTalks
<1>15. QueueEnds'
  BY <1>2, <1>4, <1>5 DEF DInv, QueueEnds, Joined, old
<1>16. NumbersHeld'
  <2>1. \A b \in Conn : handle'[b] # NoHandle => Held(b)'
    BY <1>8, <1>12 DEF DInv, NumbersHeld
  <2> QED  BY <1>2, <1>4, <1>5, <1>8, <2>1 DEF DInv, NumbersHeld
<1>17. LiveCounts => LiveCounts'
  <2>1. Counted' = Counted
    BY <1>2, <1>4, <1>5 DEF Counted, TalkingAt, old
  <2> QED  BY <1>2, <2>1 DEF LiveCounts
<1>18. ASSUME NumbersOwn
       PROVE  NumbersOwn'
  <2>1. /\ \A n \in Descriptor, s \in Socket :
             s # c /\ StaleOnlyAtEnd(n, s) => StaleOnlyAtEnd(n, s)'
        /\ handle'[Listener] # NoHandle => table'[1] = Listener
        /\ \A b \in Conn : handle'[b] # NoHandle => table'[handle'[b]] = b
    BY <1>3, <1>7, <1>18, ClosedKeepsOthers
  <2>2. Listener \in Socket /\ Listener # c /\ 1 \in Descriptor
    BY <1>3, Names DEF Socket
  <2>3. ASSUME NEW v \in Worker, worker'[v].at \in {"recv_call", "send_call"}
        PROVE  StaleOnlyAtEnd(worker[v].number, worker[v].conn)'
    <3>1. v # w /\ worker'[v] = worker[v] /\ worker[v].conn # c
      BY <1>4, <1>5, <1>10, <2>3
    <3>2. worker[v].number \in Descriptor /\ worker[v].conn \in Socket
      BY <1>1, <2>3, <3>1 DEF DInv, NumbersHeld, OneOwner, RestingAt, WorkerThread, Socket
    <3>3. StaleOnlyAtEnd(worker[v].number, worker[v].conn)
      BY <1>18, <2>3, <3>1 DEF NumbersOwn
    <3> QED  BY <2>1, <3>1, <3>2, <3>3 DEF StaleOnlyAtEnd
  <2>4. \A v \in Worker : worker'[v].at = "close_call" => StaleOnlyAtEnd(1, Listener)'
    BY <1>4, <1>5, <1>18, <2>1, <2>2 DEF NumbersOwn
  <2>5. main'.at = "close_call" => StaleOnlyAtEnd(1, Listener)'
    BY <1>2, <1>18, <2>1, <2>2 DEF NumbersOwn
  <2> QED  BY <2>1, <2>3, <2>4, <2>5 DEF NumbersOwn, StaleOnlyAtEnd
<1>19. QueuedHaveTakers => QueuedHaveTakers'
  <2>1. \A v \in Worker : /\ worker'[v].at = "wait" <=> worker[v].at = "wait"
                          /\ worker'[v].at = "woken" <=> worker[v].at = "woken"
    BY <1>2, <1>4, <1>5 DEF old
  <2> QED  BY <1>2, <2>1, SameTakers
<1> QED  BY <1>9, <1>13, <1>14, <1>15, <1>16, <1>17, <1>18, <1>19 DEF DInv

-----------------------------------------------------------------------------
(* begin_shutdown                                                           *)

(* begin_shutdown of a worker closes the listener and keeps the invariant.  *)
LEMMA WorkerClosesListenerKeeps ==
  ASSUME DInv, NEW w \in Worker, WorkerClosesListener(w)
  PROVE  /\ DInv'
         /\ LiveCounts => LiveCounts'
         /\ NumbersOwn => NumbersOwn'
         /\ QueuedHaveTakers => QueuedHaveTakers'
<1> DEFINE old == worker[w]
           r == [old EXCEPT !.at = "interrupt", !.number = NoHandle]
<1>1. old \in WorkerThread /\ worker \in [Worker -> WorkerThread]
  BY DEF DInv, DaemonTypeOK
<1>2. /\ old.at = "close_call" /\ worker' = [worker EXCEPT ![w] = r]
      /\ CloseNumber(1) /\ handle' = [handle EXCEPT ![Listener] = NoHandle]
      /\ UNCHANGED <<stopping, live, registry, queue, closed_, main, peer, received>>
  BY <1>1 DEF WorkerClosesListener, serverVars, queueVars, clientVars, DInv, NumbersHeld
<1> HIDE DEF old
<1>3. r \in WorkerThread /\ r.at = "interrupt" /\ r.conn = old.conn
  BY <1>1 DEF WorkerThread, WorkerAt, TalkingAt, Number
<1> HIDE DEF r
<1>4. \A v \in Worker : worker'[v] = IF v = w THEN r ELSE worker[v]
  BY <1>1, <1>2
<1>5. /\ handle' \in [Socket -> Number] /\ table' \in [Descriptor -> Socket \cup {Free}]
      /\ \A n \in Descriptor : table'[n] # Free => handle'[table'[n]] = n
      /\ handle'[Listener] = NoHandle
      /\ \A b \in Conn : handle'[b] = handle[b]
      /\ \A n \in Descriptor : \A s : StaleOnlyAtEnd(n, s) => StaleOnlyAtEnd(n, s)'
      /\ NumbersOwn /\ StaleOnlyAtEnd(1, Listener) =>
           \A b \in Conn : handle'[b] # NoHandle => table'[handle'[b]] = b
  BY <1>2, ListenerClosed
<1>6. DaemonTypeOK'
  BY <1>1, <1>2, <1>3, <1>5 DEF DInv, DaemonTypeOK
<1>7. \A v \in Worker : /\ worker'[v].conn = worker[v].conn
                        /\ worker'[v].at \in RestingAt <=> worker[v].at \in RestingAt
  BY <1>2, <1>3, <1>4 DEF RestingAt, old
<1>8. OneOwner' /\ \A c \in Conn : Held(c)' <=> Held(c)
  BY <1>2, <1>5, <1>7, SameHolders
<1>9. RegistryTalks'
  <2>1. \A v \in Worker : worker[v].at \in TalkingAt => worker'[v].at \in TalkingAt
    BY <1>3, <1>4 DEF TalkingAt
  <2> QED  BY <1>2, <1>7, <2>1 DEF DInv, RegistryTalks
<1>10. QueueEnds'
  BY <1>2, <1>3, <1>4 DEF DInv, QueueEnds, Joined, old
<1>11. NumbersHeld'
  BY <1>2, <1>3, <1>4, <1>5, <1>8 DEF DInv, NumbersHeld
<1>12. LiveCounts => LiveCounts'
  <2>1. Counted' = Counted
    BY <1>2, <1>3, <1>4 DEF Counted, TalkingAt, old
  <2> QED  BY <1>2, <2>1 DEF LiveCounts
<1>13. ASSUME NumbersOwn
       PROVE  NumbersOwn'
  <2>1. \A b \in Conn : handle'[b] # NoHandle => table'[handle'[b]] = b
    BY <1>2, <1>5, <1>13 DEF NumbersOwn, old
  <2>2. ASSUME NEW v \in Worker, worker'[v].at \in {"recv_call", "send_call"}
        PROVE  StaleOnlyAtEnd(worker[v].number, worker[v].conn)'
    <3>1. worker'[v] = worker[v]
      BY <1>3, <1>4, <2>2
    <3>2. worker[v].number \in Descriptor
      BY <2>2, <3>1 DEF DInv, NumbersHeld
    <3>3. StaleOnlyAtEnd(worker[v].number, worker[v].conn)
      BY <1>13, <2>2, <3>1 DEF NumbersOwn
    <3> QED  BY <1>5, <3>1, <3>2, <3>3 DEF StaleOnlyAtEnd
  <2>3. \A v \in Worker : worker'[v].at = "close_call" => StaleOnlyAtEnd(1, Listener)'
    BY <1>3, <1>4, <1>5, <1>13, Names DEF NumbersOwn
  <2>4. main'.at = "close_call" => StaleOnlyAtEnd(1, Listener)'
    BY <1>2, <1>5, <1>13, Names DEF NumbersOwn
  <2> QED  BY <1>5, <2>1, <2>2, <2>3, <2>4 DEF NumbersOwn, StaleOnlyAtEnd
<1>14. QueuedHaveTakers => QueuedHaveTakers'
  <2>1. \A v \in Worker : /\ worker'[v].at = "wait" <=> worker[v].at = "wait"
                          /\ worker'[v].at = "woken" <=> worker[v].at = "woken"
    BY <1>2, <1>3, <1>4 DEF old
  <2> QED  BY <1>2, <2>1, SameTakers
<1> QED  BY <1>6, <1>8, <1>9, <1>10, <1>11, <1>12, <1>13, <1>14 DEF DInv

(* The connections are interrupted when nothing is accepted any more.       *)
LEMMA InterruptKeeps ==
  ASSUME DInv, NEW w \in Worker, Interrupt(w)
  PROVE  /\ DInv'
         /\ LiveCounts => LiveCounts'
         /\ NumbersOwn => NumbersOwn'
         /\ QueuedHaveTakers => QueuedHaveTakers'
<1> DEFINE old == worker[w]
           c == old.conn
           r == [Idle EXCEPT !.at = "leave", !.conn = c]
<1>1. /\ old \in WorkerThread /\ worker \in [Worker -> WorkerThread]
      /\ handle \in [Socket -> Number] /\ table \in [Descriptor -> Socket \cup {Free}]
      /\ registry \subseteq Conn /\ DOMAIN handle = Socket
  BY DEF DInv, DaemonTypeOK
<1>2. /\ old.at = "interrupt" /\ worker' = [worker EXCEPT ![w] = r]
      /\ CloseRegistered
      /\ UNCHANGED <<stopping, live, registry, queue, closed_, main, peer, received>>
  BY DEF Interrupt, Leave, serverVars, queueVars, clientVars
<1>3. handle[Listener] = NoHandle /\ c \in Conn \cup {NoConn}
  BY <1>1, <1>2 DEF DInv, NumbersHeld, WorkerThread
<1> HIDE DEF old, c
<1>4. r \in WorkerThread /\ r.at = "leave" /\ r.conn = c
  BY <1>3 DEF Idle, WorkerThread, WorkerAt, TalkingAt, Number
<1> HIDE DEF r
<1>5. \A v \in Worker : worker'[v] = IF v = w THEN r ELSE worker[v]
  BY <1>1, <1>2
<1>6. /\ \A n \in Descriptor :
           table'[n] = IF \E b \in registry : handle[b] = n THEN Free ELSE table[n]
      /\ \A s \in Socket : handle'[s] = IF s \in registry THEN NoHandle ELSE handle[s]
      /\ handle' \in [Socket -> Number] /\ table' \in [Descriptor -> Socket \cup {Free}]
  BY <1>1, <1>2 DEF CloseRegistered, Number
<1>7. /\ handle'[Listener] = NoHandle
      /\ \A b \in Conn : handle'[b] \in {handle[b], NoHandle}
  BY <1>3, <1>6 DEF Socket
<1>8. DaemonTypeOK'
  BY <1>1, <1>2, <1>4, <1>6 DEF DInv, DaemonTypeOK
<1>9. \A v \in Worker : /\ worker'[v].conn = worker[v].conn
                        /\ worker'[v].at \in RestingAt <=> worker[v].at \in RestingAt
  BY <1>2, <1>4, <1>5 DEF RestingAt, old, c
<1>10. OneOwner' /\ \A b \in Conn : Held(b)' <=> Held(b)
  BY <1>2, <1>7, <1>9, SameHolders
<1>11. RegistryTalks'
  <2>1. \A v \in Worker : worker[v].at \in TalkingAt => worker'[v].at \in TalkingAt
    BY <1>4, <1>5 DEF TalkingAt
  <2> QED  BY <1>2, <1>9, <2>1 DEF DInv, RegistryTalks
<1>12. QueueEnds'
  BY <1>2, <1>4, <1>5 DEF DInv, QueueEnds, Joined, old
<1>13. NumbersHeld'
  <2>1. ASSUME NEW n \in Descriptor, table'[n] # Free
        PROVE  handle'[table'[n]] = n
    <3>1. table'[n] = table[n] /\ handle[table[n]] = n /\ table[n] \in Socket
      BY <1>1, <1>6, <2>1 DEF DInv, NumbersHeld
    <3>2. table[n] \notin registry
      BY <1>6, <2>1, <3>1
    <3> QED  BY <1>6, <3>1, <3>2
  <2>2. \A b \in Conn : handle'[b] # NoHandle => Held(b)'
    BY <1>7, <1>10 DEF DInv, NumbersHeld
  <2> QED  BY <1>2, <1>4, <1>5, <1>7, <2>1, <2>2 DEF DInv, NumbersHeld
<1>14. LiveCounts => LiveCounts'
  <2>1. Counted' = Counted
    BY <1>2, <1>4, <1>5 DEF Counted, TalkingAt, old
  <2> QED  BY <1>2, <2>1 DEF LiveCounts
<1>15. ASSUME NumbersOwn
       PROVE  NumbersOwn'
  <2>1. \A n \in Descriptor : \A s : StaleOnlyAtEnd(n, s) => StaleOnlyAtEnd(n, s)'
    BY <1>6, <1>7 DEF StaleOnlyAtEnd
  <2>2. ASSUME NEW b \in Conn, handle'[b] # NoHandle
        PROVE  table'[handle'[b]] = b
    <3>1. b \notin registry /\ handle'[b] = handle[b] /\ handle[b] \in Descriptor
      BY <1>1, <1>6, <2>2 DEF Socket, Number
    <3>2. table[handle[b]] = b
      BY <1>15, <2>2, <3>1 DEF NumbersOwn
    <3>3. \A d \in registry : handle[d] # handle[b]
      BY <1>1, <1>15, <3>1, <3>2, Names DEF NumbersOwn
    <3> QED  BY <1>6, <3>1, <3>2, <3>3
  <2>3. ASSUME NEW v \in Worker, worker'[v].at \in {"recv_call", "send_call"}
        PROVE  StaleOnlyAtEnd(worker[v].number, worker[v].conn)'
    <3>1. worker'[v] = worker[v]
      BY <1>4, <1>5, <2>3
    <3>2. worker[v].number \in Descriptor
      BY <2>3, <3>1 DEF DInv, NumbersHeld
    <3>3. StaleOnlyAtEnd(worker[v].number, worker[v].conn)
      BY <1>15, <2>3, <3>1 DEF NumbersOwn
    <3> QED  BY <2>1, <3>1, <3>2, <3>3 DEF StaleOnlyAtEnd
  <2>4. \A v \in Worker : worker'[v].at = "close_call" => StaleOnlyAtEnd(1, Listener)'
    BY <1>4, <1>5, <1>15, <2>1, Names DEF NumbersOwn
  <2>5. main'.at = "close_call" => StaleOnlyAtEnd(1, Listener)'
    BY <1>2, <1>15, <2>1, Names DEF NumbersOwn
  <2> QED  BY <1>7, <2>2, <2>3, <2>4, <2>5 DEF NumbersOwn, StaleOnlyAtEnd
<1>16. QueuedHaveTakers => QueuedHaveTakers'
  <2>1. \A v \in Worker : /\ worker'[v].at = "wait" <=> worker[v].at = "wait"
                          /\ worker'[v].at = "woken" <=> worker[v].at = "woken"
    BY <1>2, <1>4, <1>5 DEF old
  <2> QED  BY <1>2, <2>1, SameTakers
<1> QED  BY <1>8, <1>10, <1>11, <1>12, <1>13, <1>14, <1>15, <1>16 DEF DInv

-----------------------------------------------------------------------------
(* The main thread.                                                         *)

(* The steps that only decide where it goes next.                           *)
LEMMA MainMovesKeeps ==
  ASSUME DInv, AcceptCall \/ AcceptFails \/ MainReadsListener
  PROVE  /\ DInv'
         /\ LiveCounts => LiveCounts'
         /\ NumbersOwn => NumbersOwn'
         /\ QueuedHaveTakers => QueuedHaveTakers'
<1>1. main \in MainThread /\ handle[Listener] \in {NoHandle, 1} /\ 1 \in Number
  BY Names DEF DInv, DaemonTypeOK, NumbersHeld, Number
<1>2. PICK a \in {"accept", "close_listener", "close_queue", "close_call"}, n \in Number :
        /\ main' = [main EXCEPT !.at = a, !.number = n]
        /\ main.at \in {"check", "accept", "close_listener"}
        /\ a = "close_queue" => handle[Listener] = NoHandle
        /\ a = "close_call" => handle[Listener] # NoHandle /\ n = 1
        /\ UNCHANGED <<serverVars, queueVars, socketVars, worker, clientVars>>
  <2>1. main.number \in Number /\ \A a : [main EXCEPT !.at = a] = [main EXCEPT !.at = a, !.number = main.number]
    BY <1>1 DEF MainThread
  <2>2. CASE AcceptCall
    BY <2>1, <2>2 DEF AcceptCall, Main
  <2>3. CASE AcceptFails
    BY <2>1, <2>3 DEF AcceptFails, Main
  <2>4. CASE MainReadsListener
    BY <1>1, <2>1, <2>4 DEF MainReadsListener
  <2> QED  BY <2>2, <2>3, <2>4
<1>3. UNCHANGED <<stopping, live, registry, queue, closed_, handle, table, worker, peer, received>>
  BY <1>2 DEF serverVars, queueVars, socketVars, clientVars
<1>4. /\ main' \in MainThread /\ main'.at = a /\ main'.conn = main.conn /\ main'.number = n
  BY <1>1, <1>2 DEF MainThread, MainAt
<1>5. DaemonTypeOK'
  BY <1>3, <1>4 DEF DInv, DaemonTypeOK
<1>6. main'.at = "push" <=> main.at = "push"
  BY <1>2, <1>4
<1>7. OneOwner' /\ \A c \in Conn : Held(c)' <=> Held(c)
  BY <1>3, <1>4, <1>6, SameHolders
<1>8. RegistryTalks'
  BY <1>3 DEF DInv, RegistryTalks
<1>9. QueueEnds'
  BY <1>2, <1>3, <1>4 DEF DInv, QueueEnds, Joined
<1>10. NumbersHeld'
  BY <1>2, <1>3, <1>4, <1>7 DEF DInv, NumbersHeld
<1>11. LiveCounts => LiveCounts'
  BY <1>3, <1>6 DEF LiveCounts, Counted
<1>12. NumbersOwn => NumbersOwn'
  BY <1>2, <1>3, <1>4 DEF NumbersOwn, StaleOnlyAtEnd
<1>13. QueuedHaveTakers => QueuedHaveTakers'
  BY <1>3 DEF QueuedHaveTakers, Blocked
<1> QED  BY <1>5, <1>7, <1>8, <1>9, <1>10, <1>11, <1>12, <1>13 DEF DInv

(* A connection that is accepted had no owner and no number.  A listener    *)
(* that closing would have ended still has its own, and so has everybody.   *)
LEMMA AcceptKeeps ==
  ASSUME DInv, NEW c \in Conn, Accept(c)
  PROVE  /\ DInv'
         /\ LiveCounts => LiveCounts'
         /\ CloseWakes /\ NumbersOwn => NumbersOwn'
         /\ QueuedHaveTakers => QueuedHaveTakers'
<1>1. /\ main \in MainThread /\ live \in Int
      /\ handle \in [Socket -> Number] /\ table \in [Descriptor -> Socket \cup {Free}]
      /\ peer \in [Conn -> {"away", "backlog", "open", "closed"}]
      /\ c \in Socket /\ Listener \in Socket /\ Listener # c
  BY Names DEF DInv, DaemonTypeOK, Socket
<1>2. PICK n \in Descriptor :
        /\ main.at = "accept" /\ Reachable(Listener) /\ peer[c] = "backlog"
        /\ table[n] = Free
        /\ table' = [table EXCEPT ![n] = c] /\ handle' = [handle EXCEPT ![c] = n]
        /\ peer' = [peer EXCEPT ![c] = "open"]
        /\ main' = [main EXCEPT !.at = "push", !.conn = c]
        /\ live' = live + 1
        /\ UNCHANGED <<stopping, registry, queue, closed_, worker, received>>
  BY DEF Accept, queueVars
<1>3. main' \in MainThread /\ main'.at = "push" /\ main'.conn = c
  BY <1>1, <1>2 DEF MainThread, MainAt
<1>4. /\ handle' \in [Socket -> Number] /\ table' \in [Descriptor -> Socket \cup {Free}]
      /\ peer' \in [Conn -> {"away", "backlog", "open", "closed"}]
      /\ \A m \in Descriptor : table'[m] = IF m = n THEN c ELSE table[m]
      /\ \A s \in Socket : handle'[s] = IF s = c THEN n ELSE handle[s]
      /\ \A b \in Conn : peer'[b] = IF b = c THEN "open" ELSE peer[b]
  BY <1>1, <1>2 DEF Number
<1>5. DaemonTypeOK'
  BY <1>1, <1>2, <1>3, <1>4 DEF DInv, DaemonTypeOK
<1>6. main.conn = NoConn /\ ~Held(c) /\ handle[c] = NoHandle
  BY <1>2 DEF DInv, OneOwner
<1>7. \A b \in Conn : /\ HeldByWorker(b)' <=> HeldByWorker(b)
                      /\ Queued(b)' <=> Queued(b)
                      /\ Held(b)' <=> Held(b) \/ b = c
  <2>1. \A b \in Conn : b # NoConn
    BY Names
  <2> QED  BY <1>2, <1>3, <1>6, <2>1 DEF HeldByWorker, Queued, Held
<1>8. OneOwner'
  <2>1. main'.conn = NoConn <=> main'.at # "push"
    BY <1>3, Names
  <2>2. \A b \in Conn :
          /\ Queued(b)' => ~HeldByWorker(b)' /\ main'.conn # b
          /\ HeldByWorker(b)' => main'.conn # b
    BY <1>3, <1>6, <1>7 DEF DInv, OneOwner, Held
  <2>3. \A b \in Conn : peer'[b] \in {"away", "backlog"} => ~Held(b)' /\ handle'[b] = NoHandle
    BY <1>4, <1>7 DEF DInv, OneOwner, Socket
  <2> QED  BY <1>2, <2>1, <2>2, <2>3 DEF DInv, OneOwner
<1>9. RegistryTalks'
  BY <1>2 DEF DInv, RegistryTalks
<1>10. QueueEnds'
  BY <1>2, <1>3 DEF DInv, QueueEnds, Joined
<1>11. handle'[Listener] = handle[Listener]
  BY <1>1, <1>4
<1>12. NumbersHeld'
  <2>1. ASSUME NEW m \in Descriptor, table'[m] # Free
        PROVE  handle'[table'[m]] = m
    <3>1. CASE m = n
      BY <1>1, <1>4, <3>1
    <3>2. CASE m # n
      <4>1. table'[m] = table[m] /\ handle[table[m]] = m /\ table[m] \in Socket /\ m # NoHandle
        BY <1>1, <1>4, <2>1, <3>2, Names DEF DInv, NumbersHeld
      <4>2. table[m] # c
        BY <1>6, <4>1
      <4> QED  BY <1>4, <4>1, <4>2
    <3> QED  BY <3>1, <3>2
  <2>2. \A b \in Conn : handle'[b] # NoHandle => Held(b)'
    BY <1>4, <1>7 DEF DInv, NumbersHeld, Socket
  <2> QED  BY <1>2, <1>3, <1>11, <2>1, <2>2 DEF DInv, NumbersHeld
<1>13. ASSUME LiveCounts
       PROVE  LiveCounts'
  <2>1. Counted' = Counted /\ Cardinality(Counted) \in Nat
    BY <1>2, WorkerSets DEF Counted
  <2>2. queue \in Seq(Conn) /\ Len(queue) \in Nat
    BY DEF DInv, DaemonTypeOK
  <2> QED  BY <1>2, <1>3, <1>13, <2>1, <2>2 DEF LiveCounts
<1>14. ASSUME CloseWakes, NumbersOwn
       PROVE  NumbersOwn'
  <2>1. handle[Listener] # NoHandle
    <3>1. PICK m \in Descriptor : table[m] = Listener
      BY <1>2, <1>14 DEF Reachable
    <3> QED  BY <3>1, Names DEF DInv, NumbersHeld
  <2>2. \A m \in Descriptor, s \in Socket : StaleOnlyAtEnd(m, s) => StaleOnlyAtEnd(m, s)'
    <3>1. \A m \in Descriptor, s \in Socket : StaleOnlyAtEnd(m, s) => table[m] = s /\ s # Free
      BY <2>1, Names DEF StaleOnlyAtEnd, Socket
    <3> QED  BY <1>2, <1>4, <3>1 DEF StaleOnlyAtEnd
  <2>3. ASSUME NEW v \in Worker, worker'[v].at \in {"recv_call", "send_call"}
        PROVE  StaleOnlyAtEnd(worker[v].number, worker[v].conn)'
    <3>1. worker'[v] = worker[v]
      BY <1>2
    <3>2. worker[v].number \in Descriptor /\ worker[v].conn \in Socket
      BY <2>3, <3>1 DEF DInv, NumbersHeld, DaemonTypeOK, OneOwner, RestingAt, WorkerThread, Socket
    <3>3. StaleOnlyAtEnd(worker[v].number, worker[v].conn)
      BY <1>14, <2>3, <3>1 DEF NumbersOwn
    <3> QED  BY <2>2, <3>1, <3>2, <3>3 DEF StaleOnlyAtEnd
  <2>4. \A v \in Worker : worker'[v].at = "close_call" => StaleOnlyAtEnd(1, Listener)'
    BY <1>1, <1>2, <1>14, <2>2, Names DEF NumbersOwn
  <2>5. table'[1] = Listener
    BY <1>2, <1>4, <1>14, <2>1, Names DEF NumbersOwn
  <2>6. ASSUME NEW b \in Conn, handle'[b] # NoHandle
        PROVE  table'[handle'[b]] = b
    <3>1. CASE b = c
      BY <1>1, <1>4, <3>1
    <3>2. CASE b # c
      <4>1. handle'[b] = handle[b] /\ handle[b] \in Descriptor
        BY <1>1, <1>4, <2>6, <3>2 DEF Socket, Number
      <4>2. table[handle[b]] = b /\ b # Free
        BY <1>14, <2>6, <4>1, Names DEF NumbersOwn
      <4> QED  BY <1>2, <1>4, <4>1, <4>2
    <3> QED  BY <3>1, <3>2
  <2> QED  BY <1>3, <2>3, <2>4, <2>5, <2>6 DEF NumbersOwn, StaleOnlyAtEnd
<1>15. QueuedHaveTakers => QueuedHaveTakers'
  BY <1>2 DEF QueuedHaveTakers, Blocked
<1> QED  BY <1>5, <1>8, <1>9, <1>10, <1>12, <1>13, <1>14, <1>15 DEF DInv

(* The accepted connection is queued, and a blocked worker woken for it.    *)
LEMMA PushKeeps ==
  ASSUME DInv, Push, HasRoom
  PROVE  /\ DInv'
         /\ LiveCounts => LiveCounts'
         /\ NumbersOwn => NumbersOwn'
         /\ QueuedHaveTakers => QueuedHaveTakers'
<1> DEFINE c == main.conn
<1>1. /\ main \in MainThread /\ queue \in Seq(Conn) /\ worker \in [Worker -> WorkerThread]
      /\ Len(queue) \in Nat
  BY DEF DInv, DaemonTypeOK
<1>2. /\ main.at = "push" /\ main' = [main EXCEPT !.at = "check", !.conn = NoConn]
      /\ queue' = Append(queue, c) /\ Notify
      /\ UNCHANGED <<stopping, live, registry, closed_, handle, table, peer, received>>
  BY DEF Push, socketVars, clientVars
<1>3. c \in Conn
  BY <1>1, <1>2 DEF DInv, OneOwner, MainThread
<1> HIDE DEF c
<1>4. main' \in MainThread /\ main'.at = "check" /\ main'.conn = NoConn
  BY <1>1, <1>2 DEF MainThread, MainAt
<1>5. /\ queue' \in Seq(Conn) /\ Len(queue') = Len(queue) + 1
      /\ DOMAIN queue = 1 .. Len(queue) /\ DOMAIN queue' = 1 .. Len(queue) + 1
      /\ \A k \in 1 .. Len(queue) : queue'[k] = queue[k]
      /\ queue'[Len(queue) + 1] = c
  BY <1>1, <1>2, <1>3
<1>6. /\ worker' \in [Worker -> WorkerThread]
      /\ \A v \in Worker :
           /\ worker'[v].conn = worker[v].conn
           /\ \/ worker'[v] = worker[v]
              \/ worker[v].at = "wait" /\ worker'[v].at = "woken"
      /\ \/ Blocked = {} /\ worker' = worker
         \/ \E w \in Blocked : Woken' = Woken \cup {w}
  <2>1. CASE Blocked = {}
    BY <1>1, <1>2, <2>1 DEF Notify
  <2>2. CASE Blocked # {}
    <3>1. PICK w \in Blocked : worker' = [worker EXCEPT ![w].at = "woken"]
      BY <1>2, <2>2 DEF Notify, Goto
    <3> DEFINE old == worker[w]
               r == [old EXCEPT !.at = "woken"]
    <3>2. w \in Worker /\ old.at = "wait" /\ old \in WorkerThread
      BY <1>1 DEF Blocked
    <3>3. worker' = [worker EXCEPT ![w] = r]
      BY <1>1, <3>1
    <3> HIDE DEF old
    <3>4. r \in WorkerThread /\ r.at = "woken" /\ r.conn = old.conn
      BY <3>2 DEF WorkerThread, WorkerAt, RestingAt
    <3> HIDE DEF r
    <3>5. worker' \in [Worker -> WorkerThread]
      BY <1>1, <3>2, <3>3, <3>4
    <3>6. \A v \in Worker : worker'[v] = IF v = w THEN r ELSE worker[v]
      BY <1>1, <3>2, <3>3
    <3>7. Woken' = Woken \cup {w}
      BY <3>2, <3>4, <3>6 DEF Woken
    <3>8. \A v \in Worker :
           /\ worker'[v].conn = worker[v].conn
           /\ \/ worker'[v] = worker[v]
              \/ worker[v].at = "wait" /\ worker'[v].at = "woken"
      BY <3>2, <3>4, <3>6 DEF old
    <3> QED  BY <3>5, <3>7, <3>8
  <2> QED  BY <2>1, <2>2
<1>7. DaemonTypeOK'
  BY <1>2, <1>4, <1>5, <1>6 DEF DInv, DaemonTypeOK
<1>8. ~Queued(c) /\ ~HeldByWorker(c)
  BY <1>3 DEF DInv, OneOwner, c
<1>9. \A b \in Conn : /\ HeldByWorker(b)' <=> HeldByWorker(b)
                      /\ Queued(b)' <=> Queued(b) \/ b = c
  <2>1. \A b \in Conn : HeldByWorker(b)' <=> HeldByWorker(b)
    BY <1>6 DEF HeldByWorker
  <2>2. ASSUME NEW b \in Conn, Queued(b)'
        PROVE  Queued(b) \/ b = c
    <3>1. PICK k \in 1 .. Len(queue) + 1 : queue'[k] = b
      BY <1>5, <2>2 DEF Queued
    <3>2. k \in 1 .. Len(queue) \/ k = Len(queue) + 1
      BY <1>1
    <3> QED  BY <1>5, <3>1, <3>2 DEF Queued
  <2>3. ASSUME NEW b \in Conn, Queued(b)
        PROVE  Queued(b)'
    <3>1. PICK k \in 1 .. Len(queue) : queue[k] = b
      BY <1>5, <2>3 DEF Queued
    <3>2. k \in 1 .. Len(queue) + 1 /\ queue'[k] = b
      BY <1>1, <1>5, <3>1
    <3> QED  BY <1>5, <3>2 DEF Queued
  <2>4. \A b \in Conn : b = c => Queued(b)'
    <3>1. Len(queue) + 1 \in 1 .. Len(queue) + 1
      BY <1>1
    <3> QED  BY <1>5, <3>1 DEF Queued
  <2> QED  BY <2>1, <2>2, <2>3, <2>4
<1>10. \A b \in Conn : Held(b)' <=> Held(b)
  <2>1. \A b \in Conn : b # NoConn
    BY Names
  <2> QED  BY <1>4, <1>9, <2>1 DEF Held, c
<1>11. OneOwner'
  <2>1. \A v \in Worker : worker'[v].conn = NoConn <=> worker'[v].at \in RestingAt
    BY <1>6 DEF DInv, OneOwner, RestingAt
  <2>2. \A u, v \in Worker :
          u # v /\ worker'[u].conn # NoConn => worker'[u].conn # worker'[v].conn
    BY <1>6 DEF DInv, OneOwner
  <2>3. \A j, k \in DOMAIN queue' : j # k => queue'[j] # queue'[k]
    <3>1. ASSUME NEW j \in 1 .. Len(queue) + 1, NEW k \in 1 .. Len(queue) + 1, j # k
          PROVE  queue'[j] # queue'[k]
      <4>1. /\ j \in 1 .. Len(queue) \/ j = Len(queue) + 1
            /\ k \in 1 .. Len(queue) \/ k = Len(queue) + 1
        BY <1>1
      <4>2. \A i \in 1 .. Len(queue) : queue[i] # c
        BY <1>5, <1>8 DEF Queued
      <4>3. j \in 1 .. Len(queue) /\ k \in 1 .. Len(queue) => queue[j] # queue[k]
        BY <1>5, <3>1 DEF DInv, OneOwner
      <4> QED  BY <1>5, <3>1, <4>1, <4>2, <4>3
    <3> QED  BY <1>5, <3>1
  <2>4. \A b \in Conn : /\ Queued(b)' => ~HeldByWorker(b)' /\ main'.conn # b
                        /\ HeldByWorker(b)' => main'.conn # b
    BY <1>4, <1>8, <1>9, Names DEF DInv, OneOwner
  <2>5. \A b \in Conn : peer'[b] \in {"away", "backlog"} => ~Held(b)' /\ handle'[b] = NoHandle
    BY <1>2, <1>10 DEF DInv, OneOwner
  <2>6. main'.conn = NoConn <=> main'.at # "push"
    BY <1>4
  <2> QED  BY <2>1, <2>2, <2>3, <2>4, <2>5, <2>6 DEF OneOwner
<1>12. RegistryTalks'
  <2>1. \A v \in Worker : worker[v].at \in TalkingAt => worker'[v] = worker[v]
    BY <1>6 DEF TalkingAt
  <2> QED  BY <1>2, <2>1 DEF DInv, RegistryTalks
<1>13. QueueEnds'
  BY <1>2, <1>4, <1>6 DEF DInv, QueueEnds, Joined
<1>14. \A v \in Worker :
         worker'[v].at \in TalkingAt \/ worker[v].at \in TalkingAt => worker'[v] = worker[v]
  BY <1>6 DEF TalkingAt
<1>15. NumbersHeld'
  BY <1>2, <1>4, <1>10, <1>14 DEF DInv, NumbersHeld, TalkingAt
<1>16. ASSUME LiveCounts
       PROVE  LiveCounts'
  <2>1. Counted' = Counted /\ Cardinality(Counted) \in Nat
    <3>1. Counted' = Counted
      BY <1>6 DEF Counted, TalkingAt
    <3> QED  BY <3>1, WorkerSets DEF Counted
  <2> QED  BY <1>1, <1>2, <1>4, <1>5, <1>16, <2>1 DEF LiveCounts
<1>17. NumbersOwn => NumbersOwn'
  BY <1>2, <1>4, <1>14 DEF NumbersOwn, StaleOnlyAtEnd, TalkingAt
<1>18. ASSUME QueuedHaveTakers
       PROVE  QueuedHaveTakers'
  <2>1. CASE Blocked = {} /\ worker' = worker
    BY <2>1 DEF QueuedHaveTakers, Blocked
  <2>2. ASSUME NEW w \in Blocked, Woken' = Woken \cup {w}
        PROVE  QueuedHaveTakers'
    <3>1. w \in Worker /\ w \notin Woken /\ Woken \in SUBSET Worker
      BY DEF Blocked, Woken
    <3>2. Cardinality(Woken') = Cardinality(Woken) + 1 /\ Cardinality(Woken) \in Nat
      BY <2>2, <3>1, WorkerSets
    <3>3. Len(queue) <= Cardinality(Woken)
      BY <1>18, <2>2 DEF QueuedHaveTakers, Woken
    <3> QED  BY <1>1, <1>5, <3>2, <3>3 DEF QueuedHaveTakers, Woken
  <2> QED  BY <1>6, <2>1, <2>2
<1> QED  BY <1>7, <1>11, <1>12, <1>13, <1>15, <1>16, <1>17, <1>18 DEF DInv

(* The queue is full: the connection is closed as push returns.             *)
LEMMA RefuseKeeps ==
  ASSUME DInv, Push, ~HasRoom
  PROVE  /\ DInv'
         /\ LiveCounts => LiveCounts'
         /\ NumbersOwn => NumbersOwn'
         /\ QueuedHaveTakers => QueuedHaveTakers'
<1> DEFINE c == main.conn
<1>1. /\ main \in MainThread /\ live \in Int
      /\ handle \in [Socket -> Number] /\ table \in [Descriptor -> Socket \cup {Free}]
  BY DEF DInv, DaemonTypeOK
<1>2. /\ main.at = "push" /\ main' = [main EXCEPT !.at = "check", !.conn = NoConn]
      /\ CloseNumber(handle[c]) /\ handle' = [handle EXCEPT ![c] = NoHandle]
      /\ live' = live - 1
      /\ UNCHANGED <<stopping, registry, queue, closed_, worker, peer, received>>
  BY DEF Push, clientVars
<1>3. c \in Conn
  BY <1>1, <1>2 DEF DInv, OneOwner, MainThread
<1> HIDE DEF c
<1>4. main' \in MainThread /\ main'.at = "check" /\ main'.conn = NoConn
  BY <1>1, <1>2 DEF MainThread, MainAt
<1>5. handle' \in [Socket -> Number] /\ table' \in [Descriptor -> Socket \cup {Free}]
  BY <1>1, <1>2 DEF CloseNumber, Number
<1>6. SocketClosed(c)
  BY <1>1, <1>2, <1>3 DEF SocketClosed, CloseNumber, Socket
<1>7. /\ \A n \in Descriptor : table'[n] # Free => handle'[table'[n]] = n
      /\ handle'[Listener] = handle[Listener] /\ handle'[c] = NoHandle
      /\ \A b \in Conn : b # c => handle'[b] = handle[b]
  BY <1>3, <1>6, ClosedKeepsOthers
<1>8. DaemonTypeOK'
  BY <1>1, <1>2, <1>4, <1>5 DEF DInv, DaemonTypeOK
<1>9. ~HeldByWorker(c)
  BY <1>3 DEF DInv, OneOwner, c
<1>10. \A b \in Conn : /\ HeldByWorker(b)' <=> HeldByWorker(b)
                       /\ Queued(b)' <=> Queued(b)
                       /\ Held(b)' => Held(b)
                       /\ Held(b) /\ b # c => Held(b)'
  <2>1. \A b \in Conn : b # NoConn
    BY Names
  <2> QED  BY <1>2, <1>4, <2>1 DEF HeldByWorker, Queued, Held, c
<1>11. OneOwner'
  <2>1. main'.conn = NoConn <=> main'.at # "push"
    BY <1>4
  <2>2. \A b \in Conn : /\ Queued(b)' => ~HeldByWorker(b)' /\ main'.conn # b
                        /\ HeldByWorker(b)' => main'.conn # b
    BY <1>4, <1>10, Names DEF DInv, OneOwner
  <2>3. \A b \in Conn : peer'[b] \in {"away", "backlog"} => ~Held(b)' /\ handle'[b] = NoHandle
    BY <1>2, <1>7, <1>10 DEF DInv, OneOwner
  <2> QED  BY <1>2, <2>1, <2>2, <2>3 DEF DInv, OneOwner
<1>12. RegistryTalks'
  BY <1>2 DEF DInv, RegistryTalks
<1>13. QueueEnds'
  BY <1>2, <1>4 DEF DInv, QueueEnds, Joined
<1>14. NumbersHeld'
  <2>1. \A b \in Conn : handle'[b] # NoHandle => Held(b)'
    BY <1>7, <1>10 DEF DInv, NumbersHeld
  <2> QED  BY <1>2, <1>4, <1>7, <2>1 DEF DInv, NumbersHeld
<1>15. ASSUME LiveCounts
       PROVE  LiveCounts'
  <2>1. Counted' = Counted /\ Cardinality(Counted) \in Nat
    BY <1>2, WorkerSets DEF Counted
  <2>2. queue \in Seq(Conn) /\ Len(queue) \in Nat
    BY DEF DInv, DaemonTypeOK
  <2> QED  BY <1>2, <1>4, <1>15, <2>1, <2>2 DEF LiveCounts
<1>16. ASSUME NumbersOwn
       PROVE  NumbersOwn'
  <2>1. /\ \A n \in Descriptor, s \in Socket :
             s # c /\ StaleOnlyAtEnd(n, s) => StaleOnlyAtEnd(n, s)'
        /\ handle'[Listener] # NoHandle => table'[1] = Listener
        /\ \A b \in Conn : handle'[b] # NoHandle => table'[handle'[b]] = b
    BY <1>3, <1>6, <1>16, ClosedKeepsOthers
  <2>2. Listener \in Socket /\ Listener # c /\ 1 \in Descriptor
    BY <1>3, Names DEF Socket
  <2>3. ASSUME NEW v \in Worker, worker'[v].at \in {"recv_call", "send_call"}
        PROVE  StaleOnlyAtEnd(worker[v].number, worker[v].conn)'
    <3>1. worker'[v] = worker[v] /\ worker[v].conn # c
      BY <1>2, <1>9 DEF HeldByWorker
    <3>2. worker[v].number \in Descriptor /\ worker[v].conn \in Socket
      BY <2>3, <3>1 DEF DInv, DaemonTypeOK, NumbersHeld, OneOwner, RestingAt, WorkerThread, Socket
    <3>3. StaleOnlyAtEnd(worker[v].number, worker[v].conn)
      BY <1>16, <2>3, <3>1 DEF NumbersOwn
    <3> QED  BY <2>1, <3>1, <3>2, <3>3 DEF StaleOnlyAtEnd
  <2>4. \A v \in Worker : worker'[v].at = "close_call" => StaleOnlyAtEnd(1, Listener)'
    BY <1>2, <1>16, <2>1, <2>2 DEF NumbersOwn
  <2> QED  BY <1>4, <2>1, <2>3, <2>4 DEF NumbersOwn, StaleOnlyAtEnd
<1>17. QueuedHaveTakers => QueuedHaveTakers'
  BY <1>2 DEF QueuedHaveTakers, Blocked
<1> QED  BY <1>8, <1>11, <1>12, <1>13, <1>14, <1>15, <1>16, <1>17 DEF DInv

(* main closes the listener behind the accept loop and keeps the invariant. *)
LEMMA MainClosesListenerKeeps ==
  ASSUME DInv, MainClosesListener
  PROVE  /\ DInv'
         /\ LiveCounts => LiveCounts'
         /\ NumbersOwn => NumbersOwn'
         /\ QueuedHaveTakers => QueuedHaveTakers'
<1>1. main \in MainThread
  BY DEF DInv, DaemonTypeOK
<1>2. /\ main.at = "close_call"
      /\ main' = [main EXCEPT !.at = "close_queue", !.number = NoHandle]
      /\ CloseNumber(1) /\ handle' = [handle EXCEPT ![Listener] = NoHandle]
      /\ UNCHANGED <<stopping, live, registry, queue, closed_, worker, peer, received>>
  BY DEF MainClosesListener, serverVars, queueVars, clientVars, DInv, NumbersHeld
<1>3. main' \in MainThread /\ main'.at = "close_queue" /\ main'.conn = main.conn
  BY <1>1, <1>2 DEF MainThread, MainAt, Number
<1>4. /\ handle' \in [Socket -> Number] /\ table' \in [Descriptor -> Socket \cup {Free}]
      /\ \A n \in Descriptor : table'[n] # Free => handle'[table'[n]] = n
      /\ handle'[Listener] = NoHandle
      /\ \A b \in Conn : handle'[b] = handle[b]
      /\ \A n \in Descriptor : \A s : StaleOnlyAtEnd(n, s) => StaleOnlyAtEnd(n, s)'
      /\ NumbersOwn /\ StaleOnlyAtEnd(1, Listener) =>
           \A b \in Conn : handle'[b] # NoHandle => table'[handle'[b]] = b
  BY <1>2, ListenerClosed
<1>5. DaemonTypeOK'
  BY <1>2, <1>3, <1>4 DEF DInv, DaemonTypeOK
<1>6. main'.at = "push" <=> main.at = "push"
  BY <1>2, <1>3
<1>7. OneOwner' /\ \A c \in Conn : Held(c)' <=> Held(c)
  BY <1>2, <1>3, <1>4, <1>6, SameHolders
<1>8. RegistryTalks'
  BY <1>2 DEF DInv, RegistryTalks
<1>9. QueueEnds'
  BY <1>2, <1>3 DEF DInv, QueueEnds, Joined
<1>10. NumbersHeld'
  BY <1>2, <1>3, <1>4, <1>7 DEF DInv, NumbersHeld
<1>11. LiveCounts => LiveCounts'
  BY <1>2, <1>6 DEF LiveCounts, Counted
<1>12. ASSUME NumbersOwn
       PROVE  NumbersOwn'
  <2>1. \A b \in Conn : handle'[b] # NoHandle => table'[handle'[b]] = b
    BY <1>2, <1>4, <1>12 DEF NumbersOwn
  <2>2. ASSUME NEW v \in Worker, worker'[v].at \in {"recv_call", "send_call"}
        PROVE  StaleOnlyAtEnd(worker[v].number, worker[v].conn)'
    <3>1. worker'[v] = worker[v]
      BY <1>2
    <3>2. worker[v].number \in Descriptor
      BY <2>2, <3>1 DEF DInv, NumbersHeld
    <3>3. StaleOnlyAtEnd(worker[v].number, worker[v].conn)
      BY <1>12, <2>2, <3>1 DEF NumbersOwn
    <3> QED  BY <1>4, <3>1, <3>2, <3>3 DEF StaleOnlyAtEnd
  <2>3. \A v \in Worker : worker'[v].at = "close_call" => StaleOnlyAtEnd(1, Listener)'
    BY <1>2, <1>4, <1>12, Names DEF NumbersOwn
  <2> QED  BY <1>3, <1>4, <2>1, <2>2, <2>3 DEF NumbersOwn, StaleOnlyAtEnd
<1>13. QueuedHaveTakers => QueuedHaveTakers'
  BY <1>2 DEF QueuedHaveTakers, Blocked
<1> QED  BY <1>5, <1>7, <1>8, <1>9, <1>10, <1>11, <1>12, <1>13 DEF DInv

(* No worker has left before the queue is closed, and none waits after.     *)
LEMMA CloseQueueKeeps ==
  ASSUME DInv, CloseQueue
  PROVE  /\ DInv'
         /\ LiveCounts => LiveCounts'
         /\ NumbersOwn => NumbersOwn'
         /\ QueuedHaveTakers => QueuedHaveTakers'
<1>1. main \in MainThread /\ worker \in [Worker -> WorkerThread]
  BY DEF DInv, DaemonTypeOK
<1>2. /\ main.at = "close_queue" /\ main' = [main EXCEPT !.at = "join"]
      /\ closed_' = TRUE
      /\ UNCHANGED <<stopping, live, registry, queue, handle, table, peer, received>>
  BY DEF CloseQueue, Main, serverVars, socketVars, clientVars
<1>3. main' \in MainThread /\ main'.at = "join" /\ main'.conn = main.conn
  BY <1>1, <1>2 DEF MainThread, MainAt
<1>4. /\ worker' \in [Worker -> WorkerThread]
      /\ \A v \in Worker :
           /\ worker'[v].conn = worker[v].conn /\ worker'[v].at # "wait"
           /\ \/ worker'[v] = worker[v]
              \/ worker[v].at = "wait" /\ worker'[v].at = "woken"
  <2> DEFINE r(v) == IF v \in Blocked THEN [worker[v] EXCEPT !.at = "woken"] ELSE worker[v]
  <2>1. worker' = [v \in Worker |-> r(v)]
    BY DEF CloseQueue, NotifyAll
  <2>2. ASSUME NEW v \in Worker
        PROVE  /\ r(v) \in WorkerThread /\ r(v).conn = worker[v].conn /\ r(v).at # "wait"
               /\ \/ r(v) = worker[v]
                  \/ worker[v].at = "wait" /\ r(v).at = "woken"
    <3> DEFINE old == worker[v]
    <3>1. old \in WorkerThread
      BY <1>1
    <3>2. CASE v \in Blocked
      <4>1. old.at = "wait" /\ r(v) = [old EXCEPT !.at = "woken"]
        BY <3>2 DEF Blocked
      <4> HIDE DEF old
      <4>2. [old EXCEPT !.at = "woken"] \in WorkerThread
        BY <3>1 DEF WorkerThread, WorkerAt, RestingAt
      <4>3. [old EXCEPT !.at = "woken"].at = "woken" /\ [old EXCEPT !.at = "woken"].conn = old.conn
        BY <3>1 DEF WorkerThread
      <4> QED  BY <4>1, <4>2, <4>3 DEF old
    <3>3. CASE v \notin Blocked
      BY <3>1, <3>3 DEF Blocked
    <3> QED  BY <3>2, <3>3
  <2> HIDE DEF r
  <2> QED  BY <2>1, <2>2
<1>5. DaemonTypeOK'
  BY <1>2, <1>3, <1>4 DEF DInv, DaemonTypeOK
<1>6. main'.at = "push" <=> main.at = "push"
  BY <1>2, <1>3
<1>7. \A v \in Worker : worker'[v].at \in RestingAt <=> worker[v].at \in RestingAt
  BY <1>4 DEF RestingAt
<1>8. OneOwner' /\ \A c \in Conn : Held(c)' <=> Held(c)
  BY <1>2, <1>3, <1>4, <1>6, <1>7, SameHolders
<1>9. \A v \in Worker :
        worker'[v].at \in TalkingAt \/ worker[v].at \in TalkingAt => worker'[v] = worker[v]
  BY <1>4 DEF TalkingAt
<1>10. RegistryTalks'
  BY <1>2, <1>9 DEF DInv, RegistryTalks
<1>11. QueueEnds'
  <2>1. \A v \in Worker : worker'[v].at # "exited"
    BY <1>2, <1>4 DEF DInv, QueueEnds
  <2> QED  BY <1>2, <1>3, <2>1 DEF QueueEnds
<1>12. NumbersHeld'
  BY <1>2, <1>3, <1>8, <1>9 DEF DInv, NumbersHeld, TalkingAt
<1>13. LiveCounts => LiveCounts'
  <2>1. Counted' = Counted
    BY <1>4 DEF Counted, TalkingAt
  <2> QED  BY <1>2, <1>6, <2>1 DEF LiveCounts
<1>14. NumbersOwn => NumbersOwn'
  BY <1>2, <1>3, <1>9 DEF NumbersOwn, StaleOnlyAtEnd, TalkingAt
<1>15. QueuedHaveTakers'
  BY <1>4 DEF QueuedHaveTakers, Blocked
<1> QED  BY <1>5, <1>8, <1>10, <1>11, <1>12, <1>13, <1>14, <1>15 DEF DInv

(* The exit of main, with every worker joined, keeps the invariant.         *)
LEMMA ExitKeeps ==
  ASSUME DInv, Exit
  PROVE  /\ DInv'
         /\ LiveCounts => LiveCounts'
         /\ NumbersOwn => NumbersOwn'
         /\ QueuedHaveTakers => QueuedHaveTakers'
<1>1. main \in MainThread
  BY DEF DInv, DaemonTypeOK
<1>2. /\ main.at = "join" /\ Joined /\ main' = [main EXCEPT !.at = "exited"]
      /\ UNCHANGED <<stopping, live, registry, queue, closed_, handle, table, worker, peer, received>>
  BY DEF Exit, Main, serverVars, queueVars, socketVars, clientVars
<1>3. main' \in MainThread /\ main'.at = "exited" /\ main'.conn = main.conn
  BY <1>1, <1>2 DEF MainThread, MainAt
<1>4. DaemonTypeOK'
  BY <1>2, <1>3 DEF DInv, DaemonTypeOK
<1>5. main'.at = "push" <=> main.at = "push"
  BY <1>2, <1>3
<1>6. OneOwner' /\ \A c \in Conn : Held(c)' <=> Held(c)
  BY <1>2, <1>3, <1>5, SameHolders
<1>7. RegistryTalks' /\ QueueEnds'
  BY <1>2, <1>3 DEF DInv, RegistryTalks, QueueEnds, Joined
<1>8. NumbersHeld'
  BY <1>2, <1>3, <1>6 DEF DInv, NumbersHeld
<1>9. LiveCounts => LiveCounts'
  BY <1>2, <1>5 DEF LiveCounts, Counted
<1>10. NumbersOwn => NumbersOwn'
  BY <1>2, <1>3 DEF NumbersOwn, StaleOnlyAtEnd
<1>11. QueuedHaveTakers => QueuedHaveTakers'
  BY <1>2 DEF QueuedHaveTakers, Blocked
<1> QED  BY <1>4, <1>6, <1>7, <1>8, <1>9, <1>10, <1>11 DEF DInv

(* Clients come and go; stuttering.                                         *)
LEMMA ClientKeeps ==
  ASSUME DInv, (\E c \in Conn : Connect(c) \/ Disconnect(c)) \/ UNCHANGED vars
  PROVE  /\ DInv'
         /\ LiveCounts => LiveCounts'
         /\ NumbersOwn => NumbersOwn'
         /\ QueuedHaveTakers => QueuedHaveTakers'
<1>1. /\ UNCHANGED <<stopping, live, registry, queue, closed_, handle, table, main, worker, received>>
      /\ peer' \in [Conn -> {"away", "backlog", "open", "closed"}]
      /\ \A c \in Conn : peer'[c] \in {"away", "backlog"} => peer[c] \in {"away", "backlog"}
  BY DEF Connect, Disconnect, vars, serverVars, queueVars, socketVars, clientVars,
         DInv, DaemonTypeOK
<1>2. \A c \in Conn : /\ HeldByWorker(c)' <=> HeldByWorker(c)
                      /\ Queued(c)' <=> Queued(c)
                      /\ Held(c)' <=> Held(c)
  BY <1>1 DEF HeldByWorker, Queued, Held
<1>3. DaemonTypeOK'
  BY <1>1 DEF DInv, DaemonTypeOK
<1>4. OneOwner'
  BY <1>1, <1>2 DEF DInv, OneOwner
<1>5. RegistryTalks' /\ QueueEnds'
  BY <1>1 DEF DInv, RegistryTalks, QueueEnds, Joined
<1>6. NumbersHeld'
  BY <1>1, <1>2 DEF DInv, NumbersHeld
<1>7. /\ LiveCounts => LiveCounts'
      /\ NumbersOwn => NumbersOwn'
      /\ QueuedHaveTakers => QueuedHaveTakers'
  BY <1>1 DEF LiveCounts, Counted, NumbersOwn, StaleOnlyAtEnd, QueuedHaveTakers, Blocked
<1> QED  BY <1>3, <1>4, <1>5, <1>6, <1>7 DEF DInv

-----------------------------------------------------------------------------
(* Every step keeps the invariants.                                         *)
LEMMA StepKeeps ==
  ASSUME DInv, [Next]_vars
  PROVE  /\ DInv'
         /\ LiveCounts => LiveCounts'
         /\ CloseWakes /\ NumbersOwn => NumbersOwn'
         /\ QueuedHaveTakers => QueuedHaveTakers'
<1> DEFINE Kept == /\ DInv'
                   /\ LiveCounts => LiveCounts'
                   /\ CloseWakes /\ NumbersOwn => NumbersOwn'
                   /\ QueuedHaveTakers => QueuedHaveTakers'
<1>1. CASE MainStep
  <2>1. CASE AcceptCall \/ AcceptFails \/ MainReadsListener
    BY <2>1, MainMovesKeeps
  <2>2. CASE \E c \in Conn : Accept(c)
    BY <2>2, AcceptKeeps
  <2>3. CASE Push
    BY <2>3, PushKeeps, RefuseKeeps
  <2>4. CASE MainClosesListener
    BY <2>4, MainClosesListenerKeeps
  <2>5. CASE CloseQueue
    BY <2>5, CloseQueueKeeps
  <2>6. CASE Exit
    BY <2>6, ExitKeeps
  <2> QED  BY <1>1, <2>1, <2>2, <2>3, <2>4, <2>5, <2>6 DEF MainStep
<1>2. ASSUME NEW w \in Worker,
             WorkerStep(w) \/ SpuriousWake(w) \/ \E f \in Frames : Receive(w, f)
      PROVE  Kept
  <2>1. CASE Pop(w) \/ SpuriousWake(w)
    BY <2>1, RestKeeps, PopKeeps
  <2>2. CASE \/ ReadHandle(w) \/ RecvCall(w) \/ RecvEnds(w) \/ SendCall(w)
             \/ Stop(w) \/ WorkerReadsListener(w) \/ \E f \in Frames : Receive(w, f)
    <3>1. PICK r : Talks(w, r)
      BY <2>2, ConversationTalks
    <3> QED  BY <3>1, TalkInv, TalkCounts
  <2>3. CASE Register(w)
    BY <2>3, RegisterKeeps
  <2>4. CASE Unregister(w)
    BY <2>4, UnregisterKeeps
  <2>5. CASE Destroy(w)
    BY <2>5, DestroyKeeps
  <2>6. CASE WorkerClosesListener(w)
    BY <2>6, WorkerClosesListenerKeeps
  <2>7. CASE Interrupt(w)
    BY <2>7, InterruptKeeps
  <2> QED  BY <1>2, <2>1, <2>2, <2>3, <2>4, <2>5, <2>6, <2>7 DEF WorkerStep
<1>3. CASE (\E c \in Conn : Connect(c) \/ Disconnect(c)) \/ UNCHANGED vars
  BY <1>3, ClientKeeps
<1> QED  BY <1>1, <1>2, <1>3 DEF Next

(* A daemon that starts satisfies the invariant.                            *)
LEMMA InitKept ==
  ASSUME Init
  PROVE  DInv /\ LiveCounts /\ NumbersOwn /\ QueuedHaveTakers
<1>1. /\ Idle \in WorkerThread /\ Idle.at = "pop" /\ Idle.conn = NoConn
  BY DEF Idle, WorkerThread, WorkerAt, RestingAt, Number
<1>2. /\ main \in MainThread /\ main.at = "check" /\ main.conn = NoConn
  BY DEF Init, MainThread, MainAt, Number
<1>3. \A w \in Worker : worker[w] = Idle
  BY DEF Init
<1> HIDE DEF Idle
<1>4. /\ handle \in [Socket -> Number] /\ table \in [Descriptor -> Socket \cup {Free}]
      /\ handle[Listener] = 1 /\ table[1] = Listener
      /\ \A c \in Conn : handle[c] = NoHandle
      /\ \A n \in Descriptor : n # 1 => table[n] = Free
  BY Names DEF Init, Socket, Number
<1>5. DaemonTypeOK
  <2>1. worker \in [Worker -> WorkerThread]
    BY <1>1 DEF Init
  <2>2. queue \in Seq(Conn)
    BY DEF Init
  <2>3. peer \in [Conn -> {"away", "backlog", "open", "closed"}]
    BY DEF Init
  <2>4. live \in Int /\ received \in Nat
    BY DEF Init
  <2>5. registry \subseteq Conn
    BY DEF Init
  <2>6. stopping \in BOOLEAN /\ closed_ \in BOOLEAN
    BY DEF Init
  <2> QED  BY <1>2, <1>4, <2>1, <2>2, <2>3, <2>4, <2>5, <2>6 DEF DaemonTypeOK
<1>6. \A c \in Conn : ~Held(c)
  BY <1>1, <1>2, <1>3, Names DEF Init, Held, HeldByWorker, Queued
<1>7. OneOwner
  BY <1>1, <1>2, <1>3, <1>4, <1>6 DEF Init, OneOwner, Held, RestingAt
<1>8. RegistryTalks /\ QueueEnds
  BY <1>1, <1>2, <1>3 DEF Init, RegistryTalks, QueueEnds
<1>9. NumbersHeld
  BY <1>1, <1>2, <1>3, <1>4 DEF NumbersHeld
<1>10. LiveCounts
  <2>1. Counted = {}
    BY <1>1, <1>3 DEF Counted, TalkingAt
  <2>2. Cardinality(Counted) = 0
    BY <2>1, FS_EmptySet
  <2>3. live = 0 /\ queue = <<>> /\ Len(queue) = 0
    BY DEF Init
  <2> QED  BY <1>2, <2>2, <2>3 DEF LiveCounts
<1>11. NumbersOwn
  BY <1>1, <1>2, <1>3, <1>4 DEF NumbersOwn
<1>12. QueuedHaveTakers
  <2>1. Blocked = {}
    BY <1>1, <1>3 DEF Blocked
  <2> QED  BY <2>1 DEF QueuedHaveTakers
<1> QED  BY <1>5, <1>7, <1>8, <1>9, <1>10, <1>11, <1>12 DEF DInv

-----------------------------------------------------------------------------
(* Every connection has one owner, from accept to the end of its           *)
(* conversation, and no worker leaves while there is work.                  *)
THEOREM DaemonInvariance == Spec => [](DInv /\ LiveCounts)
<1>1. Init => DInv /\ LiveCounts
  BY InitKept
<1>2. DInv /\ LiveCounts /\ [Next]_vars => (DInv /\ LiveCounts)'
  BY StepKeeps
<1> QED  BY <1>1, <1>2, PTL DEF Spec

(* Although push wakes one worker only, no queued connection is left behind *)
(* while a worker sleeps.                                                   *)
THEOREM NoWakeupLost == Spec => []QueuedHaveTakers
<1>1. Init => QueuedHaveTakers
  BY InitKept
<1>2. DInv /\ QueuedHaveTakers /\ [Next]_vars => QueuedHaveTakers'
  BY StepKeeps
<1> QED  BY <1>1, <1>2, DaemonInvariance, PTL DEF Spec

(* begin_shutdown interrupts through the registry's pointers no socket that *)
(* is being destroyed, whatever else the workers do.                        *)
THEOREM RegistryIsLive == Spec => []RegistryNeverDangles
<1>1. DInv => RegistryNeverDangles
  BY DEF DInv, RegistryTalks, OneOwner, RegistryNeverDangles, TalkingAt
<1> QED  BY <1>1, DaemonInvariance, PTL

(* Where closing a descriptor ends the calls blocked on it, a number that a *)
(* thread has read is never that of another connection when it is used:     *)
(* begin_shutdown closes the listener before it frees any other number.     *)
THEOREM DescriptorsNotShared ==
  ASSUME CloseWakes
  PROVE  Spec => []OwnDescriptorsOnly
<1>1. Init => NumbersOwn
  BY InitKept
<1>2. DInv /\ NumbersOwn /\ [Next]_vars => NumbersOwn'
  BY StepKeeps
<1>3. DInv /\ NumbersOwn => OwnDescriptorsOnly
  <2>1. DInv /\ NumbersOwn /\ main.at = "close_call" => table[main.number] \in {Listener, Free}
    BY DEF DInv, NumbersHeld, NumbersOwn, StaleOnlyAtEnd
  <2>2. DInv /\ NumbersOwn => \A w \in Worker :
          /\ worker[w].at \in {"recv_call", "send_call"} =>
               table[worker[w].number] \in {worker[w].conn, Free}
          /\ worker[w].at = "close_call" => table[worker[w].number] \in {Listener, Free}
    BY DEF DInv, NumbersHeld, NumbersOwn, StaleOnlyAtEnd
  <2> QED  BY <2>1, <2>2 DEF NumbersOwn, OwnDescriptorsOnly
<1> QED  BY <1>1, <1>2, <1>3, DaemonInvariance, PTL DEF Spec

(* The process ends behind the last conversation: every connection has been *)
(* taken, counted out and closed, on every platform.                        *)
THEOREM ExitIsClean == Spec => []CleanExit
<1>1. ASSUME DInv, LiveCounts, main.at = "exited"
      PROVE  /\ queue = <<>> /\ registry = {} /\ live = 0
             /\ \A w \in Worker : worker[w].at = "exited"
             /\ \A n \in Descriptor : table[n] = Free
  <2>1. \A w \in Worker : worker[w].at = "exited"
    BY <1>1 DEF DInv, QueueEnds, Joined
  <2>2. queue = <<>>
    BY <1>1, <2>1, DaemonAssumption DEF DInv, QueueEnds
  <2>3. registry = {}
    BY <1>1, <2>1 DEF DInv, RegistryTalks, TalkingAt
  <2>4. live = 0
    <3>1. Counted = {}
      BY <2>1 DEF Counted, TalkingAt
    <3>2. Cardinality(Counted) = 0
      BY <3>1, FS_EmptySet
    <3>3. Len(queue) = 0
      BY <2>2
    <3> QED  BY <1>1, <3>2, <3>3 DEF LiveCounts
  <2>5. \A c \in Conn : handle[c] = NoHandle
    <3>1. \A c \in Conn : c # NoConn
      BY Names
    <3>2. \A c \in Conn : ~Held(c)
      BY <1>1, <2>1, <2>2, <3>1 DEF DInv, OneOwner, Held, HeldByWorker, Queued, RestingAt
    <3> QED  BY <1>1, <3>2 DEF DInv, NumbersHeld
  <2>6. handle[Listener] = NoHandle
    BY <1>1 DEF DInv, NumbersHeld
  <2>7. \A n \in Descriptor : table[n] = Free
    BY <1>1, <2>5, <2>6, Names DEF DInv, DaemonTypeOK, NumbersHeld, Socket
  <2> QED  BY <2>1, <2>2, <2>3, <2>4, <2>7
<1>2. DInv /\ LiveCounts => CleanExit
  BY <1>1 DEF CleanExit
<1> QED  BY <1>2, DaemonInvariance, PTL
=============================================================================
