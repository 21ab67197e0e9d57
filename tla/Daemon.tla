------------------------------- MODULE Daemon -------------------------------
(***************************************************************************)
(* The threads of offd: the main thread accepts connections and queues     *)
(* them, the workers take them from the queue and hold one conversation    *)
(* each, and the worker that is asked to shut down interrupts the others.  *)
(*                                                                         *)
(* A Socket is identified with the connection it was accepted for.  Its    *)
(* handle_ is a plain integer that one thread may read while another       *)
(* closes the descriptor, so a thread that has read a handle and has not   *)
(* made its system call yet holds a number, not a connection.  The kernel  *)
(* gives the numbers of closed descriptors out again.                      *)
(***************************************************************************)
EXTENDS Integers, FiniteSets, Sequences

CONSTANTS
  Worker,           \* the threads of the pool
  NumConns,         \* bound: connections, numbered in the order clients make them
  NumDescriptors,   \* the descriptor numbers the process may use for sockets
  max_connections,  \* options.max_connections, the capacity of AcceptQueue
  CloseWakes,       \* platform: closing a descriptor ends the calls blocked on it
  Frames,           \* the kinds of frame clients send
  MaxFrames         \* bound: frames received

NoConn == 0
Listener == -1
Free == -2
NoHandle == 0
Descriptor == 1 .. NumDescriptors
Conn == 1 .. NumConns
FrameKind == {"Hello", "Cancel", "Request", "Shutdown", "Malformed"}

ASSUME DaemonAssumption ==
  /\ IsFiniteSet(Worker) /\ Worker # {}
  /\ NumDescriptors \in Nat \ {0}
  /\ NumConns \in Nat
  /\ max_connections \in Nat \ {0}
  /\ CloseWakes \in BOOLEAN
  /\ Frames \subseteq FrameKind
  /\ MaxFrames \in Nat

VARIABLES
  stopping,  \* Server::stopping
  live,      \* Server::live_connections
  registry,  \* Server::connections
  queue,     \* AcceptQueue::queue_
  closed_,   \* AcceptQueue::closed_
  handle,    \* Socket::handle_ of the listener and of every accepted connection
  table,     \* the kernel's descriptors: the socket behind each number
  main,      \* the main thread: where it is, its connection, the number it read
  worker,    \* the workers: the same, with the state of their conversation
  peer,      \* the client's end of each connection
  received   \* the frames received so far

serverVars == <<stopping, live, registry>>
queueVars == <<queue, closed_>>
socketVars == <<handle, table>>
clientVars == <<peer, received>>
vars == <<serverVars, queueVars, socketVars, main, worker, clientVars>>

Idle == [at |-> "pop", conn |-> NoConn, number |-> NoHandle, on |-> NoConn,
         greeted |-> FALSE, frame |-> "none"]

Init ==
  /\ stopping = FALSE /\ live = 0 /\ registry = {}
  /\ queue = <<>> /\ closed_ = FALSE
  /\ handle = [s \in Conn \cup {Listener} |-> IF s = Listener THEN 1 ELSE NoHandle]
  /\ table = [n \in Descriptor |-> IF n = 1 THEN Listener ELSE Free]
  /\ main = [at |-> "check", conn |-> NoConn, number |-> NoHandle]
  /\ worker = [w \in Worker |-> Idle]
  /\ peer = [c \in Conn |-> "away"] /\ received = 0

Goto(w, at) == worker' = [worker EXCEPT ![w].at = at]
Main(at) == main' = [main EXCEPT !.at = at]

(* Out of the conversation, by return or break.                             *)
Leave(w) ==
  worker' = [worker EXCEPT ![w] = [Idle EXCEPT !.at = "leave", !.conn = worker[w].conn]]

(* Socket::close: the number is released whatever it stands for by now.     *)
CloseNumber(n) == table' = [table EXCEPT ![n] = Free]

(* The sockets the kernel still has: behind a number, or under a call that  *)
(* was blocked when its number was closed, on platforms where it stays so.  *)
Reachable(s) ==
  \/ \E n \in Descriptor : table[n] = s
  \/ ~CloseWakes /\ (IF s = Listener THEN main.at = "accept"
                     ELSE \E w \in Worker : worker[w].at = "blocked" /\ worker[w].on = s)

-----------------------------------------------------------------------------
(* AcceptQueue.                                                             *)
Blocked == {w \in Worker : worker[w].at = "wait"}

(* Mutant of Notify: the notification is forgotten.                         *)
NotifyNobody == UNCHANGED worker

(* ready_.notify_one: one blocked worker, any of them, if there is one.     *)
Notify ==
  IF Blocked = {} THEN UNCHANGED worker
  ELSE \E w \in Blocked : Goto(w, "woken")

(* ready_.notify_all                                                        *)
NotifyAll ==
  worker' = [w \in Worker |->
    IF w \in Blocked THEN [worker[w] EXCEPT !.at = "woken"] ELSE worker[w]]

(* AcceptQueue::pop, at the call and whenever a waiting worker has been     *)
(* woken: a queue that is closed is still emptied first.                    *)
Pop(w) ==
  /\ worker[w].at \in {"pop", "woken"}
  /\ \/ /\ queue # <<>>
        /\ worker' = [worker EXCEPT ![w].at = "register", ![w].conn = Head(queue)]
        /\ queue' = Tail(queue)
     \/ queue = <<>> /\ closed_ /\ Goto(w, "exited") /\ UNCHANGED queue
     \/ queue = <<>> /\ ~closed_ /\ Goto(w, "wait") /\ UNCHANGED queue
  /\ UNCHANGED <<serverVars, closed_, socketVars, main, clientVars>>

(* A condition variable may wake a thread for no reason.                    *)
SpuriousWake(w) ==
  /\ w \in Blocked
  /\ Goto(w, "woken")
  /\ UNCHANGED <<serverVars, queueVars, socketVars, main, clientVars>>

-----------------------------------------------------------------------------
(* The main thread.                                                         *)

(* The loop condition, the first test of Socket::accept and the entry into  *)
(* its call.  A close between them is found by the call, as it is by the    *)
(* test.                                                                    *)
AcceptCall ==
  /\ main.at = "check"
  /\ Main(IF stopping \/ handle[Listener] = NoHandle THEN "close_listener"
          ELSE IF table[handle[Listener]] = Listener THEN "accept"
          ELSE "close_listener")
  /\ UNCHANGED <<serverVars, queueVars, socketVars, worker, clientVars>>

(* accept returns the oldest connection, under any number that is free.     *)
Accept(c) ==
  /\ main.at = "accept" /\ Reachable(Listener)
  /\ peer[c] = "backlog" /\ \A b \in Conn : peer[b] = "backlog" => c <= b
  /\ \E n \in Descriptor :
       /\ table[n] = Free
       /\ table' = [table EXCEPT ![n] = c]
       /\ handle' = [handle EXCEPT ![c] = n]
  /\ peer' = [peer EXCEPT ![c] = "open"]
  /\ main' = [main EXCEPT !.at = "push", !.conn = c]
  /\ live' = live + 1
  /\ UNCHANGED <<stopping, registry, queueVars, worker, received>>

(* accept fails: the listener was closed under it, or the process has no    *)
(* descriptor left.  Either ends the loop.                                  *)
AcceptFails ==
  /\ main.at = "accept"
  /\ \/ ~Reachable(Listener)
     \/ /\ \E c \in Conn : peer[c] = "backlog"
        /\ \A n \in Descriptor : table[n] # Free
  /\ Main("close_listener")
  /\ UNCHANGED <<serverVars, queueVars, socketVars, worker, clientVars>>

HasRoom == ~closed_ /\ Len(queue) < max_connections

(* AcceptQueue::push; a refused socket is closed as push returns.           *)
Push ==
  /\ main.at = "push"
  /\ main' = [main EXCEPT !.at = "check", !.conn = NoConn]
  /\ \/ /\ HasRoom
        /\ queue' = Append(queue, main.conn) /\ Notify
        /\ UNCHANGED <<live, socketVars>>
     \/ /\ ~HasRoom
        /\ CloseNumber(handle[main.conn])
        /\ handle' = [handle EXCEPT ![main.conn] = NoHandle]
        /\ live' = live - 1
        /\ UNCHANGED <<queue, worker>>
  /\ UNCHANGED <<stopping, registry, closed_, clientVars>>

(* listener.interrupt(), in two steps: the handle is tested and read, then  *)
(* the descriptor is closed and the handle cleared.                         *)
MainReadsListener ==
  /\ main.at = "close_listener"
  /\ main' = IF handle[Listener] = NoHandle THEN [main EXCEPT !.at = "close_queue"]
             ELSE [main EXCEPT !.at = "close_call", !.number = handle[Listener]]
  /\ UNCHANGED <<serverVars, queueVars, socketVars, worker, clientVars>>

MainClosesListener ==
  /\ main.at = "close_call"
  /\ CloseNumber(main.number)
  /\ handle' = [handle EXCEPT ![Listener] = NoHandle]
  /\ main' = [main EXCEPT !.at = "close_queue", !.number = NoHandle]
  /\ UNCHANGED <<serverVars, queueVars, worker, clientVars>>

(* AcceptQueue::close                                                       *)
CloseQueue ==
  /\ main.at = "close_queue"
  /\ closed_' = TRUE /\ NotifyAll
  /\ Main("join")
  /\ UNCHANGED <<serverVars, queue, socketVars, clientVars>>

(* Mutant of Joined: the main thread waits for one worker.                  *)
JoinedOne == \E w \in Worker : worker[w].at = "exited"

Joined == \A w \in Worker : worker[w].at = "exited"

(* join, then fabric.close().                                               *)
Exit ==
  /\ main.at = "join" /\ Joined
  /\ Main("exited")
  /\ UNCHANGED <<serverVars, queueVars, socketVars, worker, clientVars>>

MainStep ==
  \/ AcceptCall \/ (\E c \in Conn : Accept(c)) \/ AcceptFails \/ Push
  \/ MainReadsListener \/ MainClosesListener \/ CloseQueue \/ Exit

-----------------------------------------------------------------------------
(* A conversation: register, receive, serve, reply, and leave.              *)

Register(w) ==
  /\ worker[w].at = "register"
  /\ registry' = registry \cup {worker[w].conn}
  /\ Goto(w, "recv")
  /\ UNCHANGED <<stopping, live, queueVars, socketVars, main, clientVars>>

(* send_all and recv_exact test and read the handle, then make their call.  *)
(* The test and the reads are one step, and so is Socket::close, which      *)
(* clears the handle behind its system call.  A thread that tests in        *)
(* between reads the closed number, as one does that tested before, or 0,   *)
(* which is no socket where CloseWakes holds; that it is a descriptor on    *)
(* POSIX is left out.                                                       *)
ReadHandle(w) ==
  /\ worker[w].at \in {"recv", "reply"}
  /\ LET n == handle[worker[w].conn] IN
     IF n = NoHandle THEN Leave(w)
     ELSE worker' = [worker EXCEPT ![w].number = n,
                       ![w].at = IF @ = "recv" THEN "recv_call" ELSE "send_call"]
  /\ UNCHANGED <<serverVars, queueVars, socketVars, main, clientVars>>

(* recv enters the kernel with a number: a closed one, or one that is not a *)
(* connection, is refused.                                                  *)
RecvCall(w) ==
  /\ worker[w].at = "recv_call"
  /\ LET s == table[worker[w].number] IN
     IF s \in Conn
     THEN worker' = [worker EXCEPT ![w].at = "blocked", ![w].number = NoHandle,
                                   ![w].on = s]
     ELSE Leave(w)
  /\ UNCHANGED <<serverVars, queueVars, socketVars, main, clientVars>>

(* What serve_connection does with a frame before it replies: nothing is    *)
(* executed before the greeting, a cancellation is not answered, a response *)
(* above the frame ceiling ends the conversation after the execution.       *)
Serve(w, f) ==
  LET reply == worker' = [worker EXCEPT ![w].at = "reply", ![w].on = NoConn,
                                        ![w].frame = f]
  IN \/ f = "Malformed" /\ Leave(w)
     \/ f # "Malformed" /\ ~worker[w].greeted /\ reply
     \/ f = "Cancel" /\ worker[w].greeted
        /\ worker' = [worker EXCEPT ![w].at = "recv", ![w].on = NoConn]
     \/ f = "Hello" /\ worker[w].greeted /\ Leave(w)
     \/ f \in {"Request", "Shutdown"} /\ worker[w].greeted /\ (reply \/ Leave(w))

(* recv returns a frame.  What the client sent, and when, is decided here:  *)
(* nobody can tell before a frame has arrived.                              *)
Receive(w, f) ==
  /\ worker[w].at = "blocked" /\ Reachable(worker[w].on)
  /\ received < MaxFrames /\ received' = received + 1
  /\ Serve(w, f)
  /\ UNCHANGED <<serverVars, queueVars, socketVars, main, peer>>

(* recv returns at the end of the stream, or because the descriptor was     *)
(* closed.                                                                  *)
RecvEnds(w) ==
  /\ worker[w].at = "blocked"
  /\ Reachable(worker[w].on) => peer[worker[w].on] = "closed"
  /\ Leave(w)
  /\ UNCHANGED <<serverVars, queueVars, socketVars, main, clientVars>>

(* Where a conversation goes once its reply is sent.                        *)
AfterReply(r) ==
  CASE ~r.greeted /\ r.frame = "Hello" -> "recv"
    [] ~r.greeted /\ r.frame # "Hello" -> "leave"
    [] r.greeted /\ r.frame = "Shutdown" -> "stop"
    [] OTHER -> "recv"

(* send: refused as for recv, and by the network once the client has left.  *)
SendCall(w) ==
  LET s == table[worker[w].number] IN
  /\ worker[w].at = "send_call"
  /\ \/ /\ s \in Conn
        /\ worker' = [worker EXCEPT ![w].number = NoHandle,
             ![w].at = AfterReply(worker[w]), ![w].greeted = TRUE, ![w].frame = "none"]
     \/ (s \in Conn => peer[s] = "closed") /\ Leave(w)
  /\ UNCHANGED <<serverVars, queueVars, socketVars, main, clientVars>>

(* Mutant of Without: the socket stays in the registry.                     *)
WithoutNothing(c) == registry

(* unregister_connection                                                    *)
Without(c) == registry \ {c}

(* The Unregister guard, then ~FrameChannel.                                *)
Unregister(w) ==
  /\ worker[w].at = "leave"
  /\ registry' = Without(worker[w].conn)
  /\ live' = live - 1
  /\ Goto(w, "destroy")
  /\ UNCHANGED <<stopping, queueVars, socketVars, main, clientVars>>

Destroy(w) ==
  LET c == worker[w].conn IN
  /\ worker[w].at = "destroy"
  /\ IF handle[c] = NoHandle THEN UNCHANGED socketVars
     ELSE CloseNumber(handle[c]) /\ handle' = [handle EXCEPT ![c] = NoHandle]
  /\ worker' = [worker EXCEPT ![w] = Idle]
  /\ UNCHANGED <<serverVars, queueVars, main, clientVars>>

-----------------------------------------------------------------------------
(* begin_shutdown, by the worker that answered the request.                 *)

(* interrupt() on every registered socket.                                  *)
CloseRegistered ==
  /\ table' = [n \in Descriptor |->
       IF \E c \in registry : handle[c] = n THEN Free ELSE table[n]]
  /\ handle' = [s \in DOMAIN handle |-> IF s \in registry THEN NoHandle ELSE handle[s]]

(* Mutant of Stop: the connections are interrupted before the listener.     *)
StopConnectionsFirst(w) ==
  /\ worker[w].at = "stop"
  /\ stopping' = TRUE /\ CloseRegistered
  /\ Goto(w, "close_listener")
  /\ UNCHANGED <<live, registry, queueVars, main, clientVars>>

Stop(w) ==
  /\ worker[w].at = "stop"
  /\ stopping' = TRUE
  /\ Goto(w, "close_listener")
  /\ UNCHANGED <<live, registry, queueVars, socketVars, main, clientVars>>

WorkerReadsListener(w) ==
  /\ worker[w].at = "close_listener"
  /\ worker' = IF handle[Listener] = NoHandle THEN [worker EXCEPT ![w].at = "interrupt"]
               ELSE [worker EXCEPT ![w].at = "close_call", ![w].number = handle[Listener]]
  /\ UNCHANGED <<serverVars, queueVars, socketVars, main, clientVars>>

WorkerClosesListener(w) ==
  /\ worker[w].at = "close_call"
  /\ CloseNumber(worker[w].number)
  /\ handle' = [handle EXCEPT ![Listener] = NoHandle]
  /\ worker' = [worker EXCEPT ![w].at = "interrupt", ![w].number = NoHandle]
  /\ UNCHANGED <<serverVars, queueVars, main, clientVars>>

(* Under the registry's mutex, so that no socket is destroyed meanwhile.    *)
Interrupt(w) ==
  /\ worker[w].at = "interrupt"
  /\ CloseRegistered
  /\ Leave(w)
  /\ UNCHANGED <<serverVars, queueVars, main, clientVars>>

WorkerStep(w) ==
  \/ Pop(w) \/ Register(w) \/ ReadHandle(w) \/ RecvCall(w) \/ RecvEnds(w)
  \/ SendCall(w) \/ Unregister(w) \/ Destroy(w)
  \/ Stop(w) \/ WorkerReadsListener(w) \/ WorkerClosesListener(w) \/ Interrupt(w)

-----------------------------------------------------------------------------
(* Clients.                                                                 *)

Connect(c) ==
  /\ peer[c] = "away" /\ \A b \in Conn : b < c => peer[b] # "away"
  /\ Reachable(Listener)
  /\ peer' = [peer EXCEPT ![c] = "backlog"]
  /\ UNCHANGED <<serverVars, queueVars, socketVars, main, worker, received>>

Disconnect(c) ==
  /\ peer[c] = "open"
  /\ peer' = [peer EXCEPT ![c] = "closed"]
  /\ UNCHANGED <<serverVars, queueVars, socketVars, main, worker, received>>

Next ==
  \/ MainStep
  \/ \E w \in Worker :
       WorkerStep(w) \/ SpuriousWake(w) \/ \E f \in Frames : Receive(w, f)
  \/ \E c \in Conn : Connect(c) \/ Disconnect(c)

(* A thread that can run does.                                              *)
ThreadsRun == WF_vars(MainStep) /\ \A w \in Worker : WF_vars(WorkerStep(w))

(* Clients leave in the end.                                                *)
ClientsLeave == \A c \in Conn : WF_vars(Disconnect(c))

Spec == Init /\ [][Next]_vars /\ ThreadsRun

SpecClientsLeave == Spec /\ ClientsLeave

-----------------------------------------------------------------------------
(* No wakeup is lost although push wakes one worker only: while a worker is *)
(* blocked, every queued connection has a woken worker on its way to it.    *)
QueuedHaveTakers ==
  Blocked # {} => Len(queue) <= Cardinality({w \in Worker : worker[w].at = "woken"})

(* The registry holds sockets of conversations under way, never one that is *)
(* being destroyed; each socket has one owner.                              *)
RegistryNeverDangles ==
  /\ \A c \in registry : \E w \in Worker :
       worker[w].conn = c /\ worker[w].at \notin {"register", "destroy"}
  /\ \A v, w \in Worker :
       v # w /\ worker[v].conn # NoConn => worker[v].conn # worker[w].conn

(* A number a thread has read still is its own socket or closed when the    *)
(* call is made: no thread receives from, answers to or closes the          *)
(* connection of another.                                                   *)
OwnDescriptorsOnly ==
  /\ \A w \in Worker :
       /\ worker[w].at \in {"recv_call", "send_call"} =>
            table[worker[w].number] \in {worker[w].conn, Free}
       /\ worker[w].at = "close_call" => table[worker[w].number] \in {Listener, Free}
  /\ main.at = "close_call" => table[main.number] \in {Listener, Free}
  /\ \A c \in Conn : handle[c] # NoHandle => table[handle[c]] = c

(* The fabric is closed behind the last conversation: nothing is queued,    *)
(* registered or counted when the process ends.                             *)
CleanExit ==
  main.at = "exited" =>
    /\ queue = <<>> /\ registry = {} /\ live = 0
    /\ \A w \in Worker : worker[w].at = "exited"
    /\ \A n \in Descriptor : table[n] = Free

(* A shutdown that was begun ends the process.                              *)
ShutdownCompletes == stopping ~> main.at = "exited"
=============================================================================
