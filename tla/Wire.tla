-------------------------------- MODULE Wire --------------------------------
(***************************************************************************)
(* The conversation between off and offd: frames on a byte stream, the     *)
(* client's commands one after another, and the worker that executes them. *)
(*                                                                         *)
(* A byte stream is a sequence of cells.  A frame is Header cells, which   *)
(* stand for the wire header, and as many payload cells as its length      *)
(* says.  recv_exact and send_all loop over calls that move any number of  *)
(* bytes; they move one cell a step here, which passes through the states  *)
(* of every split.                                                         *)
(*                                                                         *)
(* One process of the daemon.  Of the fabric there is what retries meet:   *)
(* the decisions in the order they are made, of which the request cache    *)
(* holds the last ones, the registry of keys, and the intent queue.        *)
(***************************************************************************)
EXTENDS Integers, FiniteSets, SequencesExt

CONSTANTS
  NumClients,     \* bound: runs of the client program, each with a connection
  Header,         \* kWireHeaderBytes, in cells
  max_frame,      \* --max-frame-bytes: of the daemon (0) and of each client
  ResponseSizes,  \* the payload sizes of the responses to each operation
  SocketBuffer,   \* the cells the kernel holds for a receiver
  MaxRequestCache, \* config.max_request_cache
  Script,         \* of each client: for every command the choices there are
  MaxFaults       \* bound: damaged cells and interrupted conversations

Client == 1 .. NumClients
End == Client \X {"client", "server"}
Peer(e) == <<e[1], IF e[2] = "client" THEN "server" ELSE "client">>
ClientEnd(c) == <<c, "client">>
ServerEnd(c) == <<c, "server">>
MaxPayload(e) == IF e[2] = "client" THEN max_frame[e[1]] ELSE max_frame[0]

(* The size is that of the request's payload.                               *)
Command ==
  [op : {"pull"}, key : {0}, size : Nat \ {0}]
    \cup [op : {"failover"}, key : Nat \ {0}, size : Nat \ {0}]

ASSUME WireAssumption ==
  /\ {NumClients, MaxFaults} \subseteq Nat
  /\ {Header, SocketBuffer, MaxRequestCache} \subseteq Nat \ {0}
  /\ Script \in [Client -> Seq(SUBSET Command)]
  /\ ResponseSizes \in [{"pull", "failover"} -> SUBSET (Nat \ {0})]
  /\ max_frame \in [0 .. NumClients -> Nat \ {0}]

VARIABLES
  chan,     \* the FrameChannel of each end
  wire,     \* the cells on their way to each end
  open,     \* the ends whose Socket is not closed
  client,   \* the client programs: where they are, next_correlation, the command
  worker,   \* the workers that serve them
  decisions, \* the fabric's decisions, the last of which request_cache holds
  registered, \* CancelRegistry: the keys that committed, oldest first
  pending,  \* IntentQueue: the decisions whose intents await an executor
  dropped,  \* history: intents taken for a response that was not sent
  faults,   \* history: the faults so far
  sent,     \* history: the frames each end has sent
  got       \* history: the frames each end has received

netVars == <<wire, open, faults>>
fabricVars == <<decisions, registered, pending, dropped>>
logVars == <<sent, got>>
vars == <<chan, netVars, client, worker, fabricVars, logVars>>

Frame(kind, correlation, length, op, key, value) ==
  [kind |-> kind, correlation |-> correlation, length |-> length,
   op |-> op, key |-> key, value |-> value]

NoFrame == Frame("none", 0, 0, "none", 0, 0)

(* encode_frame: every cell knows what it is a part of; the length and the  *)
(* checksum are those of the frame.                                         *)
Cells(f) == [i \in 1 .. Header + f.length |-> [of |-> f, at |-> i, intact |-> TRUE]]

-----------------------------------------------------------------------------
(* FrameChannel.  doing: "idle", "sending", receiving a "header" or a       *)
(* "payload", or the result of the last call, "got" or "failed".            *)

NewChannel ==
  [doing |-> "idle", buffer |-> <<>>, begin |-> 0, current |-> 0, needed |-> 0,
   out |-> <<>>, frame |-> NoFrame, broken |-> FALSE]

Failed(ch) == [ch EXCEPT !.doing = "failed", !.out = <<>>, !.broken = TRUE]

Have(ch) == Len(ch.buffer) - ch.begin

(* Mutant of fill: the consumed bytes are not erased.                       *)
FillKeeps(ch, needed) ==
  IF Have(ch) >= needed THEN [ch EXCEPT !.needed = needed]
  ELSE [ch EXCEPT !.begin = 0, !.current = Len(ch.buffer), !.needed = needed]

(* fill, up to the call of recv_exact.                                      *)
fill(ch, needed) ==
  IF Have(ch) >= needed THEN [ch EXCEPT !.needed = needed]
  ELSE [ch EXCEPT !.buffer = SubSeq(@, ch.begin + 1, Len(@)), !.begin = 0,
                  !.current = Have(ch), !.needed = needed]

recv_frame(ch) == [fill(ch, Header) EXCEPT !.doing = "header"]

(* The callers have encoded the payload under the same ceiling.             *)
send_frame(ch, f) == [ch EXCEPT !.doing = "sending", !.out = Cells(f)]

(* The header is there: its tests, then fill for the whole frame.           *)
ReadHeader(ch, max_payload) ==
  LET cell == ch.buffer[ch.begin + 1]
  IN IF cell.at # 1 \/ cell.of.length > max_payload THEN Failed(ch)
     ELSE [fill(ch, Header + cell.of.length) EXCEPT !.doing = "payload"]

(* The frame as its cells tell it: a damaged payload tells another.         *)
Contents(ch, f) ==
  IF \A i \in 1 .. f.length : ch.buffer[ch.begin + Header + i].intact THEN f
  ELSE [f EXCEPT !.value = @ + 1]

(* Mutant of ChecksumMatches: the checksum is not compared.                 *)
ChecksumIgnored(ch, f) == TRUE

ChecksumMatches(ch, f) == Contents(ch, f) = f

(* decode_frame on a whole frame; a refused one stays in the buffer.        *)
Decode(ch) ==
  LET f == ch.buffer[ch.begin + 1].of
  IN IF ~ChecksumMatches(ch, f) THEN Failed(ch)
     ELSE [ch EXCEPT !.doing = "got", !.begin = @ + Header + f.length,
                     !.frame = Contents(ch, f)]

Parse(e) ==
  /\ chan[e].doing \in {"header", "payload"} /\ Have(chan[e]) >= chan[e].needed
  /\ chan' = [chan EXCEPT ![e] = IF @.doing = "header" THEN ReadHeader(@, MaxPayload(e))
                                 ELSE Decode(@)]
  /\ got' = IF chan'[e].doing = "got" THEN [got EXCEPT ![e] = Append(@, chan'[e].frame)]
            ELSE got
  /\ UNCHANGED <<netVars, client, worker, fabricVars, sent>>

(* One cell of send_all, which blocks while the peer's buffer is full.      *)
(* Both programs receive next once a frame is sent.                         *)
SendCell(e) ==
  LET ch == chan[e] IN
  /\ ch.doing = "sending" /\ e \in open
  /\ Len(wire[Peer(e)]) < SocketBuffer
  /\ wire' = [wire EXCEPT ![Peer(e)] = Append(@, Head(ch.out))]
  /\ chan' = [chan EXCEPT ![e] =
       LET rest == [ch EXCEPT !.out = Tail(@)]
       IN IF rest.out = <<>> THEN recv_frame(rest) ELSE rest]
  /\ UNCHANGED <<open, faults, client, worker, fabricVars, logVars>>

(* send fails once either end is closed.                                    *)
SendFails(e) ==
  /\ chan[e].doing = "sending" /\ ~({e, Peer(e)} \subseteq open)
  /\ chan' = [chan EXCEPT ![e] = Failed(@)]
  /\ UNCHANGED <<netVars, client, worker, fabricVars, logVars>>

(* One cell of recv_exact.                                                  *)
RecvCell(e) ==
  /\ chan[e].doing \in {"header", "payload"} /\ Have(chan[e]) < chan[e].needed
  /\ e \in open /\ wire[e] # <<>>
  /\ chan' = [chan EXCEPT ![e].buffer = Append(@, Head(wire[e]))]
  /\ wire' = [wire EXCEPT ![e] = Tail(@)]
  /\ UNCHANGED <<open, faults, client, worker, fabricVars, logVars>>

(* recv fails at the end of the stream, and on a closed socket; fill gives  *)
(* up what this call of recv_exact had received.                            *)
RecvFails(e) ==
  /\ chan[e].doing \in {"header", "payload"} /\ Have(chan[e]) < chan[e].needed
  /\ e \in open => wire[e] = <<>> /\ Peer(e) \notin open
  /\ chan' = [chan EXCEPT ![e] =
       [Failed(chan[e]) EXCEPT !.buffer = SubSeq(@, 1, chan[e].current)]]
  /\ UNCHANGED <<netVars, client, worker, fabricVars, logVars>>

ChannelStep(e) == Parse(e) \/ SendCell(e) \/ SendFails(e) \/ RecvCell(e) \/ RecvFails(e)

Init ==
  /\ chan = [e \in End |-> NewChannel]
  /\ wire = [e \in End |-> <<>>] /\ open = {} /\ faults = 0
  /\ client = [c \in Client |->
       [at |-> "away", next_correlation |-> 1, request |-> NoFrame]]
  /\ worker = [c \in Client |-> "away"]
  /\ decisions = <<>> /\ registered = <<>> /\ pending = <<>> /\ dropped = {}
  /\ sent = [e \in End |-> <<>>] /\ got = [e \in End |-> <<>>]

-----------------------------------------------------------------------------
(* The client program.                                                      *)

(* open_surface: connect, send Hello, receive.  The connection is in the    *)
(* hands of a worker from here on (see Daemon).  Clients come one after the *)
(* other; the worker of an earlier one may still be busy.                   *)
Connect(c) ==
  LET hello == Frame("Hello", 1, 1, "hello", 0, 0) IN
  /\ client[c].at = "away" /\ \A b \in 1 .. c - 1 : client[b].at = "exited"
  /\ client' = [client EXCEPT ![c].at = "greeting", ![c].next_correlation = @ + 1]
  /\ worker' = [worker EXCEPT ![c] = "greeting"]
  /\ open' = open \cup {ClientEnd(c), ServerEnd(c)}
  /\ chan' = [chan EXCEPT ![ClientEnd(c)] = send_frame(@, hello),
                          ![ServerEnd(c)] = recv_frame(@)]
  /\ sent' = [sent EXCEPT ![ClientEnd(c)] = Append(@, hello)]
  /\ UNCHANGED <<wire, faults, fabricVars, got>>

Welcomed(c) ==
  /\ client[c].at = "greeting"
  /\ chan[ClientEnd(c)].doing = "got" /\ chan[ClientEnd(c)].frame.kind = "Welcome"
  /\ client' = [client EXCEPT ![c].at = "ready"]
  /\ chan' = [chan EXCEPT ![ClientEnd(c)].doing = "idle"]
  /\ UNCHANGED <<netVars, worker, fabricVars, logVars>>

(* The choices for the next command of the script.                          *)
Commands(c) ==
  LET n == client[c].next_correlation - 1
  IN IF n \in DOMAIN Script[c] THEN Script[c][n] ELSE {}

(* transmit, up to the reply.  A request above the client's ceiling fails   *)
(* before anything is sent.                                                 *)
Transmit(c, op, key, size) ==
  LET e == ClientEnd(c)
      request == Frame("Request", client[c].next_correlation, size, op, key, 0)
      fits == size <= MaxPayload(e)
  IN
  /\ client[c].at = "ready"
  /\ client' = [client EXCEPT ![c] =
       [at |-> IF fits THEN "transmit" ELSE "ready",
        next_correlation |-> @.next_correlation + 1,
        request |-> IF fits THEN request ELSE NoFrame]]
  /\ IF fits THEN /\ chan' = [chan EXCEPT ![e] = send_frame(@, request)]
                  /\ sent' = [sent EXCEPT ![e] = Append(@, request)]
     ELSE UNCHANGED <<chan, sent>>
  /\ UNCHANGED <<netVars, worker, fabricVars, got>>

(* transmit returns: a Response, whose correlation nobody compares, or a    *)
(* failure.  run_script goes on with the next command in either case.       *)
TransmitReturns(c) ==
  /\ client[c].at = "transmit"
  /\ chan[ClientEnd(c)].doing \in {"got", "failed"}
  /\ client' = [client EXCEPT ![c].at = "ready", ![c].request = NoFrame]
  /\ chan' = [chan EXCEPT ![ClientEnd(c)].doing = "idle"]
  /\ UNCHANGED <<netVars, worker, fabricVars, logVars>>

(* The program ends: at the end of its script, because nobody greeted it,   *)
(* or killed at any point.                                                  *)
Exit(c) ==
  /\ client[c].at \notin {"away", "exited"}
  /\ client' = [client EXCEPT ![c].at = "exited", ![c].request = NoFrame]
  /\ open' = open \ {ClientEnd(c)}
  /\ chan' = [chan EXCEPT ![ClientEnd(c)] = NewChannel]
  /\ wire' = [wire EXCEPT ![ClientEnd(c)] = <<>>]
  /\ UNCHANGED <<faults, worker, fabricVars, logVars>>

-----------------------------------------------------------------------------
(* serve_connection.                                                        *)

Reply(c, f) ==
  /\ chan' = [chan EXCEPT ![ServerEnd(c)] = send_frame(@, f)]
  /\ sent' = [sent EXCEPT ![ServerEnd(c)] = Append(@, f)]

Close(c) ==
  /\ worker' = [worker EXCEPT ![c] = "left"]
  /\ open' = open \ {ServerEnd(c)}
  /\ chan' = [chan EXCEPT ![ServerEnd(c)] = NewChannel]
  /\ wire' = [wire EXCEPT ![ServerEnd(c)] = <<>>]

Greet(c) ==
  LET hello == chan[ServerEnd(c)].frame IN
  /\ worker[c] = "greeting" /\ chan[ServerEnd(c)].doing = "got"
  /\ worker' = [worker EXCEPT ![c] = "serving"]
  /\ Reply(c, Frame("Welcome", hello.correlation, 1, "welcome", 0, 0))
  /\ UNCHANGED <<netVars, client, fabricVars, got>>

(* Mutant of DecisionsFor: the retained decisions are not consulted.        *)
NoDecisionsFor(key) == {}

(* The decision the request cache retains for a key.  Only a key without    *)
(* one is decided, so the cache evicts in the order of the decisions.       *)
DecisionsFor(key) ==
  {d \in DOMAIN decisions :
     d > Len(decisions) - MaxRequestCache /\ decisions[d].key = key}

(* What begin() leaves in the registry: room for one key.                   *)
Trimmed ==
  IF Len(registered) >= MaxRequestCache THEN Tail(registered) ELSE registered

(* A key without a retained decision and not registered is decided, the     *)
(* refused ones are remembered too.  Only an accepted one stays registered  *)
(* and has an intent.                                                       *)
Decide(key, accepted) ==
  /\ decisions' = Append(decisions, [key |-> key, accepted |-> accepted])
  /\ registered' = IF accepted THEN Append(Trimmed, key) ELSE Trimmed
  /\ pending' = IF accepted THEN Append(pending, Len(decisions) + 1) ELSE pending

(* request_failover: the retained decision; the refusal of a key that is    *)
(* still registered, which is not recorded (0); or a new decision.          *)
Failover(key, value) ==
  \/ /\ value \in DecisionsFor(key)
     /\ UNCHANGED <<decisions, registered, pending>>
  \/ /\ DecisionsFor(key) = {} /\ key \in ToSet(registered)
     /\ value = 0
     /\ UNCHANGED <<decisions, registered, pending>>
  \/ /\ DecisionsFor(key) = {} /\ key \notin ToSet(registered)
     /\ value = Len(decisions) + 1
     /\ \E accepted \in BOOLEAN : Decide(key, accepted)

(* Mutant of TakeIntent: the intent stays in the queue.                     *)
ReadIntent(value) ==
  /\ value = IF pending = <<>> THEN 0 ELSE Head(pending)
  /\ UNCHANGED <<decisions, registered, pending>>

(* take_intent: the intent leaves the queue before its response is sent.    *)
TakeIntent(value) ==
  /\ value = IF pending = <<>> THEN 0 ELSE Head(pending)
  /\ pending' = IF pending = <<>> THEN pending ELSE Tail(pending)
  /\ UNCHANGED <<decisions, registered>>

(* Mutant of Unanswered: the conversation goes on without an answer.        *)
UnansweredGoesOn(c) ==
  /\ chan' = [chan EXCEPT ![ServerEnd(c)] = recv_frame(@)]
  /\ UNCHANGED <<worker, open, wire>>

(* encode_response refused.                                                 *)
Unanswered(c) == Close(c)

(* A request is executed and its response encoded; a response above the     *)
(* daemon's ceiling ends the conversation, executed or not.                 *)
Execute(c, op, value, size) ==
  LET f == chan[ServerEnd(c)].frame IN
  /\ worker[c] = "serving" /\ chan[ServerEnd(c)].doing = "got"
  /\ f.op = op
  /\ IF op = "pull" THEN TakeIntent(value) ELSE Failover(f.key, value)
  /\ \/ /\ size <= max_frame[0]
        /\ Reply(c, Frame("Response", f.correlation, size, op, f.key, value))
        /\ UNCHANGED <<wire, open, worker, dropped>>
     \/ /\ size > max_frame[0]
        /\ Unanswered(c)
        /\ dropped' = IF op = "pull" THEN dropped \cup ({value} \ {0}) ELSE dropped
        /\ UNCHANGED sent
  /\ UNCHANGED <<faults, client, got>>

(* recv_frame or send_frame failed.                                         *)
WorkerLeaves(c) ==
  /\ worker[c] \in {"greeting", "serving"} /\ chan[ServerEnd(c)].doing = "failed"
  /\ Close(c)
  /\ UNCHANGED <<faults, client, fabricVars, logVars>>

(* begin_shutdown closes the socket under the worker.                       *)
Interrupt(c) ==
  /\ faults < MaxFaults /\ faults' = faults + 1
  /\ ServerEnd(c) \in open
  /\ open' = open \ {ServerEnd(c)}
  /\ UNCHANGED <<chan, wire, client, worker, fabricVars, logVars>>

-----------------------------------------------------------------------------
(* The network.                                                             *)

(* An end that closed with data unread resets the connection: what was on   *)
(* its way to the other end is lost.                                        *)
Reset(e) ==
  /\ wire[e] # <<>> /\ Peer(e) \notin open
  /\ wire' = [wire EXCEPT ![e] = <<>>]
  /\ UNCHANGED <<chan, open, faults, client, worker, fabricVars, logVars>>

(* A payload cell is damaged on its way.                                    *)
Damage(e) ==
  /\ faults < MaxFaults /\ faults' = faults + 1
  /\ \E i \in DOMAIN wire[e] :
       /\ wire[e][i].at > Header
       /\ wire' = [wire EXCEPT ![e][i].intact = FALSE]
  /\ UNCHANGED <<chan, open, client, worker, fabricVars, logVars>>

ClientStep(c) == Welcomed(c) \/ TransmitReturns(c)

WorkerStep(c) ==
  \/ Greet(c) \/ WorkerLeaves(c)
  \/ \E value \in 0 .. Len(decisions) + 1, op \in DOMAIN ResponseSizes :
       \E size \in ResponseSizes[op] : Execute(c, op, value, size)

Next ==
  \/ \E e \in End : ChannelStep(e) \/ Reset(e) \/ Damage(e)
  \/ \E c \in Client :
       \/ Connect(c) \/ ClientStep(c) \/ Exit(c) \/ WorkerStep(c) \/ Interrupt(c)
       \/ \E command \in Commands(c) : Transmit(c, command.op, command.key, command.size)

(* The steps of a connection that need nothing from outside.                *)
Progress(c) ==
  ChannelStep(ClientEnd(c)) \/ ChannelStep(ServerEnd(c)) \/ ClientStep(c) \/ WorkerStep(c)

Spec == Init /\ [][Next]_vars

-----------------------------------------------------------------------------
(* What the two ends of every connection hear of each other is what the     *)
(* other said: recv_frame cuts the byte stream at the frames send_frame     *)
(* wrote, however the bytes arrive, and consumes each of them once.         *)
Fifo == INSTANCE FrameFifo
ImplementsFifo == Fifo!Spec

(* transmit never compares correlations.  The response it takes for the     *)
(* answer to its command is that command's all the same.                    *)
AnswersAnswer ==
  \A c \in Client :
    client[c].at = "transmit" /\ chan[ClientEnd(c)].doing = "got" =>
      LET f == chan[ClientEnd(c)].frame IN
      /\ f.kind = "Response" /\ f.correlation = client[c].request.correlation
      /\ f.op = client[c].request.op /\ f.key = client[c].request.key

(* The answers to failover commands a client has heard.                     *)
Heard(c) ==
  {i \in DOMAIN got[ClientEnd(c)] : got[ClientEnd(c)][i].op = "failover"}

(* What a client hears of a command is a decision made for its key, or that *)
(* the key is in flight: it was accepted, and the cache has pushed that out. *)
(* And however often a command is sent again, on whatever connection, while *)
(* workers still execute what dead clients sent: a retry hears the same     *)
(* decision as before or a later one, and a later one only once the cache   *)
(* was filled with other decisions in between; never an older one.          *)
RetriesAgree ==
  \A c, d \in Client : \A i \in Heard(c), j \in Heard(d) :
    LET f == got[ClientEnd(c)][i]
        g == got[ClientEnd(d)][j]
    IN
    /\ IF f.value = 0
       THEN \E n \in DOMAIN decisions :
              /\ decisions[n] = [key |-> f.key, accepted |-> TRUE]
              /\ n + MaxRequestCache <= Len(decisions)
       ELSE f.value \in DOMAIN decisions /\ decisions[f.value].key = f.key
    /\ (c < d \/ (c = d /\ i < j)) /\ f.key = g.key /\ 0 \notin {f.value, g.value}
         => g.value = f.value \/ g.value > f.value + MaxRequestCache

(* The intents among the responses of a log of frames.                      *)
IntentsOf(log) == {log[i].value : i \in {j \in DOMAIN log : log[j].op = "pull"}} \ {0}

InFlight(c, n) ==
  \E s \in {chan[ServerEnd(c)].out, wire[ClientEnd(c)], chan[ClientEnd(c)].buffer} :
    \E i \in DOMAIN s : s[i].of.op = "pull" /\ s[i].of.value = n

Disturbed(c) ==
  ~({ClientEnd(c), ServerEnd(c)} \subseteq open)
    \/ chan[ClientEnd(c)].broken \/ chan[ServerEnd(c)].broken

(* An intent that left the queue goes to one client, and is lost only with  *)
(* the connection or the response that carried it.                          *)
IntentsAccountedFor ==
  \A n \in {d \in DOMAIN decisions : decisions[d].accepted} :
    LET carriers == {c \in Client : n \in IntentsOf(sent[ServerEnd(c)])} IN
    /\ Cardinality(carriers) <= 1
    /\ n \in ToSet(pending) \cup dropped <=> carriers = {}
    /\ \A c \in carriers :
         n \in IntentsOf(got[ClientEnd(c)]) \/ InFlight(c, n) \/ Disturbed(c)

(* While a client waits for the answer to a command, one of the two         *)
(* programs can go on, unless the channel failed before: neither waits for  *)
(* the other.                                                               *)
NeverStuck ==
  \A c \in Client :
    client[c].at = "transmit" /\ ~chan[ClientEnd(c)].broken => ENABLED Progress(c)

(* The same of a channel that failed: a script that goes on after a         *)
(* response above the client's ceiling never reads what the daemon sends.   *)
NeverStuckAfterFailure ==
  \A c \in Client : client[c].at = "transmit" => ENABLED Progress(c)
=============================================================================
