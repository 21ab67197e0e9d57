----------------------------- MODULE WireProofs -----------------------------
(***************************************************************************)
(* What the two ends of a connection hear of each other, and what follows  *)
(* for commands, decisions and intents: for every number of clients, every *)
(* frame size, ceiling and socket buffer, every script and every pattern   *)
(* of damage, interruption and reset.                                      *)
(*                                                                         *)
(* The argument looks at the cells between two ends as one sequence: those *)
(* an end has not consumed, those on their way to it, and those its peer   *)
(* has not sent yet.                                                       *)
(***************************************************************************)
EXTENDS Wire, SequenceTheorems, FiniteSetTheorems, WellFoundedInduction, TLAPS

Kinds == {"none", "Hello", "Welcome", "Request", "Response"}
Ops == {"none", "hello", "welcome", "pull", "failover"}
FrameType ==
  [kind : Kinds, correlation : Nat, length : Nat, op : Ops, key : Nat, value : Nat]
CellType == [of : FrameType, at : Nat, intact : BOOLEAN]
ChannelType ==
  [doing : {"idle", "sending", "header", "payload", "got", "failed"},
   buffer : Seq(CellType), begin : Nat, current : Nat, needed : Nat,
   out : Seq(CellType), frame : FrameType, broken : BOOLEAN]
ClientType ==
  [at : {"away", "greeting", "ready", "transmit", "exited"},
   next_correlation : Nat, request : FrameType]

DecisionType == [key : Nat, accepted : BOOLEAN]

(* Every variable stays in its range.                                       *)
TypeOK ==
  /\ chan \in [End -> ChannelType]
  /\ wire \in [End -> Seq(CellType)]
  /\ open \subseteq End
  /\ client \in [Client -> ClientType]
  /\ worker \in [Client -> {"away", "greeting", "serving", "left"}]
  /\ decisions \in Seq(DecisionType) /\ registered \in Seq(Nat)
  /\ pending \in Seq(Nat) /\ dropped \subseteq Nat
  /\ faults \in Nat
  /\ sent \in [End -> Seq(FrameType)] /\ got \in [End -> Seq(FrameType)]

-----------------------------------------------------------------------------
(* The byte stream.                                                         *)

Size(f) == Header + f.length

(* The cells a channel has received and not consumed.                       *)
Rest(ch) == SubSeq(ch.buffer, ch.begin + 1, Len(ch.buffer))

(* y comes after x in the encoding of a log of frames.                      *)
Follows(x, y, log) ==
  IF x.at < Size(x.of) THEN y.of = x.of /\ y.at = x.at + 1
  ELSE y.at = 1 /\ \E m \in 1 .. Len(log) - 1 : x.of = log[m] /\ y.of = log[m + 1]

(* A sequence of cells is a beginning of what encodes the log after n       *)
(* frames.                                                                  *)
Aligned(s, log, n) ==
  /\ \A i \in 1 .. Len(s) :
       /\ s[i].at \in 1 .. Size(s[i].of)
       /\ \E m \in 1 .. Len(log) : s[i].of = log[m]
  /\ s # <<>> => n < Len(log) /\ s[1].of = log[n + 1] /\ s[1].at = 1
  /\ \A i \in 1 .. Len(s) - 1 : Follows(s[i], s[i + 1], log)

(* It goes to the end of the log.                                           *)
Complete(s, log, n) ==
  IF s = <<>> THEN n = Len(log)
  ELSE s[Len(s)].at = Size(s[Len(s)].of) /\ s[Len(s)].of = log[Len(log)]

(* The cells that can still reach an end.                                   *)
Stream(e) ==
  IF e \notin open THEN Rest(chan[e])
  ELSE IF Peer(e) \notin open THEN Rest(chan[e]) \o wire[e]
  ELSE (Rest(chan[e]) \o wire[e]) \o chan[Peer(e)].out

Received(e) ==
  /\ Len(got[e]) <= Len(sent[Peer(e)])
  /\ \A i \in 1 .. Len(got[e]) : got[e][i] = sent[Peer(e)][i]

StreamOK(e) ==
  /\ Received(e)
  /\ Aligned(Stream(e), sent[Peer(e)], Len(got[e]))
  /\ {e, Peer(e)} \subseteq open => Complete(Stream(e), sent[Peer(e)], Len(got[e]))

(* A cell of a frame whose sender has k cells of it left.                   *)
Before(x, f, k) == x.of = f => x.at <= Size(f) - k

(* What an end has yet to send is the end of its last frame, which nobody   *)
(* can have received.                                                       *)
UnsentOK(e) ==
  LET out == chan[e].out
      last == sent[e][Len(sent[e])]
      p == Peer(e)
  IN out # <<>> =>
       /\ Len(got[p]) < Len(sent[e])
       /\ \A i \in 1 .. Len(out) :
            out[i].of = last /\ out[i].at = Size(last) - Len(out) + i
       /\ \A i \in 1 .. Len(Rest(chan[p])) : Before(Rest(chan[p])[i], last, Len(out))
       /\ p \in open => \A i \in 1 .. Len(wire[p]) : Before(wire[p][i], last, Len(out))

ChannelOK(e) ==
  LET ch == chan[e] IN
  /\ ch.begin <= Len(ch.buffer)
  /\ ch.doing = "sending" <=> ch.out # <<>>
  /\ ch.doing = "header" => ch.needed = Header
  /\ ch.doing = "payload" =>
       /\ Have(ch) >= Header
       /\ ch.buffer[ch.begin + 1].of.length <= MaxPayload(e)
       /\ ch.needed = Size(ch.buffer[ch.begin + 1].of)
  /\ ch.doing \in {"header", "payload"} /\ Have(ch) < ch.needed =>
       ch.begin = 0 /\ ch.current <= Len(ch.buffer)

-----------------------------------------------------------------------------
(* The conversation.                                                        *)

(* The correlations a client sends increase.                                *)
CorrelationsOK(c) ==
  LET log == sent[ClientEnd(c)] IN
  \A i \in 1 .. Len(log) :
    /\ log[i].correlation < client[c].next_correlation
    /\ \A j \in 1 .. i - 1 : log[j].correlation < log[i].correlation

(* A response tells the request it answers.                                 *)
Answers(response, request) ==
  /\ response.kind = "Response" /\ response.correlation = request.correlation
  /\ response.op = request.op /\ response.key = request.key

(* The worker answers every frame before it receives the next.              *)
WorkerOK(c) ==
  LET e == ServerEnd(c) IN
  /\ Len(sent[e]) <= Len(got[e])
  /\ \A i \in 1 .. Len(sent[e]) :
       /\ sent[e][i].correlation = got[e][i].correlation
       /\ i > 1 => Answers(sent[e][i], got[e][i])
  /\ worker[c] = "greeting" => sent[e] = <<>>
  /\ worker[c] = "serving" => sent[e] # <<>>
  /\ IF worker[c] \in {"greeting", "serving"}
     THEN /\ chan[e].doing # "idle"
          /\ chan[e].doing = "got" => /\ Len(got[e]) = Len(sent[e]) + 1
                                      /\ chan[e].frame = got[e][Len(got[e])]
          /\ chan[e].doing # "got" => Len(got[e]) = Len(sent[e])
     ELSE e \notin open /\ chan[e] = NewChannel

(* A channel that failed never receives again: it has a frame it refuses,   *)
(* or less than a frame and nothing will come.                              *)
Blocked(e) ==
  LET r == Rest(chan[e]) IN
  \/ Len(r) >= Header /\ r[1].of.length > MaxPayload(e)
  \/ /\ Len(r) >= Header
     /\ \E i \in 1 .. r[1].of.length : Header + i <= Len(r) /\ ~r[Header + i].intact
  \/ /\ Len(r) < Header \/ Len(r) < Size(r[1].of)
     /\ e \notin open \/ (Peer(e) \notin open /\ wire[e] = <<>>)

(* A client receives an answer before it sends the next command, as long as *)
(* its channel did not fail.                                                *)
ClientOK(c) ==
  LET e == ClientEnd(c)
      ch == chan[e]
      at == client[c].at
  IN
  /\ at = "away" =>
       /\ \A d \in {e, ServerEnd(c)} :
            /\ chan[d] = NewChannel /\ d \notin open
            /\ wire[d] = <<>> /\ sent[d] = <<>> /\ got[d] = <<>>
       /\ worker[c] = "away" /\ client[c].next_correlation = 1
  /\ at = "exited" => e \notin open /\ ch = NewChannel
  /\ at \notin {"away", "exited"} =>
       /\ e \in open
       /\ at = "ready" <=> ch.doing = "idle"
       /\ Len(sent[e]) >= 1
       /\ at = "transmit" =>
            Len(sent[e]) >= 2 /\ client[c].request = sent[e][Len(sent[e])]
       /\ ch.doing = "failed" => ch.broken
       /\ ch.broken => ch.doing # "got" /\ Blocked(e)
       /\ ch.doing = "got" => ch.frame = got[e][Len(got[e])]
       /\ ~ch.broken =>
            Len(sent[e]) = Len(got[e])
                             + IF ch.doing \in {"sending", "header", "payload"} THEN 1 ELSE 0

(* All of one connection.                                                   *)
ConnectionOK(c) ==
  /\ \A e \in {ClientEnd(c), ServerEnd(c)} : ChannelOK(e) /\ StreamOK(e) /\ UnsentOK(e)
  /\ CorrelationsOK(c) /\ WorkerOK(c) /\ ClientOK(c)

Inv == TypeOK /\ \A c \in Client : ConnectionOK(c)

-----------------------------------------------------------------------------
Carried(c, n) == \E i \in 1 .. Len(sent[ServerEnd(c)]) :
                   sent[ServerEnd(c)][i].op = "pull" /\ sent[ServerEnd(c)][i].value = n

(* Two decisions for a key are further apart than the cache is long.        *)
SpacingOK ==
  \A d1, d2 \in 1 .. Len(decisions) :
    d1 < d2 /\ decisions[d1].key = decisions[d2].key => d1 + MaxRequestCache < d2

Accepted(key, d) ==
  d \in 1 .. Len(decisions) /\ decisions[d].key = key /\ decisions[d].accepted

(* A registered key was accepted.                                           *)
RegisteredOK == \A i \in 1 .. Len(registered) : \E d : Accepted(registered[i], d)

(* A response to failover tells a decision made for its key, or that the    *)
(* cache has pushed out the one that was accepted.                          *)
Told(f) ==
  f.op = "failover" =>
    IF f.value = 0
    THEN \E d : Accepted(f.key, d) /\ d + MaxRequestCache <= Len(decisions)
    ELSE f.value \in 1 .. Len(decisions) /\ decisions[f.value].key = f.key

ToldOK == \A c \in Client : \A i \in 1 .. Len(sent[ServerEnd(c)]) : Told(sent[ServerEnd(c)][i])

(* Of two responses about a key the second tells no older decision.         *)
Ordered(f, g) ==
  f.op = "failover" /\ g.op = "failover" /\ f.key = g.key /\ f.value # 0 /\ g.value # 0
    => f.value <= g.value

OrderOK ==
  \A c \in Client : \A i, j \in 1 .. Len(sent[ServerEnd(c)]) :
    i < j => Ordered(sent[ServerEnd(c)][i], sent[ServerEnd(c)][j])

(* Clients come one after the other, and what a client has heard is no      *)
(* newer than what the worker of a later one says.                          *)
TurnsOK ==
  \A b, c \in Client : b < c /\ client[c].at # "away" => client[b].at = "exited"

SinceOK ==
  \A b, c \in Client : b < c =>
    \A i \in 1 .. Len(got[ClientEnd(b)]), j \in 1 .. Len(sent[ServerEnd(c)]) :
      Ordered(got[ClientEnd(b)][i], sent[ServerEnd(c)][j])

DecisionsOK == SpacingOK /\ RegisteredOK /\ ToldOK /\ OrderOK

IntentsOK ==
  /\ \A i \in 1 .. Len(pending) : pending[i] \in 1 .. Len(decisions) /\ pending[i] \notin dropped
  /\ \A i, j \in 1 .. Len(pending) : pending[i] = pending[j] => i = j
  /\ dropped \subseteq 1 .. Len(decisions)
  /\ \A c \in Client : \A n \in Nat \ {0} :
       Carried(c, n) =>
         /\ n \in 1 .. Len(decisions) /\ n \notin dropped
         /\ \A i \in 1 .. Len(pending) : pending[i] # n
         /\ \A d \in Client : Carried(d, n) => c = d
  /\ \A n \in 1 .. Len(decisions) : decisions[n].accepted =>
       \/ n \in dropped
       \/ \E i \in 1 .. Len(pending) : pending[i] = n
       \/ \E c \in Client : Carried(c, n)

-----------------------------------------------------------------------------
(* The ends of connections.                                                 *)

(* The two ends of a connection are each other's peers.                     *)
LEMMA EndFacts ==
  /\ \A e \in End : Peer(e) \in End /\ Peer(Peer(e)) = e /\ Peer(e) # e
  /\ \A e \in End : \E c \in Client : e = ClientEnd(c) \/ e = ServerEnd(c)
  /\ \A e \in End : MaxPayload(e) \in Nat
<1>1. \A e \in End : \E c \in Client : e = ClientEnd(c) \/ e = ServerEnd(c)
  BY DEF End, ClientEnd, ServerEnd
<1>2. \A c \in Client : /\ ClientEnd(c) \in End /\ ServerEnd(c) \in End
                        /\ Peer(ClientEnd(c)) = ServerEnd(c)
                        /\ Peer(ServerEnd(c)) = ClientEnd(c)
                        /\ ClientEnd(c) # ServerEnd(c)
  BY DEF End, ClientEnd, ServerEnd, Peer
<1>3. \A e \in End : Peer(e) \in End /\ Peer(Peer(e)) = e /\ Peer(e) # e
  BY <1>1, <1>2
<1>4. \A e \in End : MaxPayload(e) \in Nat
  <2>1. \A e \in End : e[1] \in 0 .. NumClients
    BY WireAssumption DEF End, Client
  <2> QED  BY <2>1, WireAssumption DEF MaxPayload
<1> QED  BY <1>1, <1>3, <1>4

(* The ends of a connection are two, and are no other connection's.         *)
LEMMA ConnectionFacts ==
  \A c \in Client :
    /\ ClientEnd(c) \in End /\ ServerEnd(c) \in End
    /\ Peer(ClientEnd(c)) = ServerEnd(c) /\ Peer(ServerEnd(c)) = ClientEnd(c)
    /\ ClientEnd(c) # ServerEnd(c)
    /\ \A d \in Client : /\ ClientEnd(c) # ServerEnd(d)
                         /\ ClientEnd(c) = ClientEnd(d) => c = d
                         /\ ServerEnd(c) = ServerEnd(d) => c = d
BY DEF End, ClientEnd, ServerEnd, Peer

-----------------------------------------------------------------------------
(* Sequences of cells.                                                      *)

(* A header has at least one cell.                                          *)
LEMMA HeaderPositive == Header \in Nat /\ Header >= 1
BY WireAssumption

(* The encoding of a frame, cell by cell.                                   *)
LEMMA CellsFacts ==
  ASSUME NEW f \in FrameType
  PROVE  /\ Cells(f) \in Seq(CellType) /\ Cells(f) # <<>>
         /\ Size(f) \in Nat /\ Size(f) >= 1 /\ Size(f) >= Header /\ Len(Cells(f)) = Size(f)
         /\ \A i \in 1 .. Size(f) : Cells(f)[i].of = f /\ Cells(f)[i].at = i
<1>1. f.length \in Nat
  BY DEF FrameType
<1>2. Size(f) \in Nat /\ Size(f) >= 1 /\ Size(f) >= Header
  BY <1>1, HeaderPositive DEF Size
<1>3. Cells(f) = [i \in 1 .. Size(f) |-> [of |-> f, at |-> i, intact |-> TRUE]]
  BY DEF Cells, Size
<1>4. \A i \in 1 .. Size(f) : [of |-> f, at |-> i, intact |-> TRUE] \in CellType
  BY <1>2 DEF CellType
<1>5. Cells(f) \in [1 .. Size(f) -> CellType]
  BY <1>3, <1>4
<1>6. Cells(f) \in Seq(CellType) /\ Len(Cells(f)) = Size(f)
  BY <1>2, <1>5, SeqDef
<1> QED  BY <1>2, <1>3, <1>6, EmptySeq

(* What begins like an aligned sequence is aligned, damaged or not.         *)
LEMMA AlignedLess ==
  ASSUME NEW s \in Seq(CellType), NEW t \in Seq(CellType), NEW log \in Seq(FrameType),
         NEW n \in Nat, Aligned(s, log, n), Len(t) <= Len(s),
         \A i \in 1 .. Len(t) : t[i].of = s[i].of /\ t[i].at = s[i].at
  PROVE  /\ Aligned(t, log, n)
         /\ Len(t) = Len(s) /\ Complete(s, log, n) => Complete(t, log, n)
<1>1. Len(s) \in Nat /\ Len(t) \in Nat /\ (t # <<>> <=> Len(t) >= 1)
       /\ (s # <<>> <=> Len(s) >= 1)
  BY EmptySeq, LenProperties
<1>2. \A i \in 1 .. Len(t) :
       /\ t[i].at \in 1 .. Size(t[i].of)
       /\ \E m \in 1 .. Len(log) : t[i].of = log[m]
  <2>1. SUFFICES ASSUME NEW i \in 1 .. Len(t)
                 PROVE  /\ t[i].at \in 1 .. Size(t[i].of)
                        /\ \E m \in 1 .. Len(log) : t[i].of = log[m]
    OBVIOUS
  <2>2. i \in 1 .. Len(s)
    BY <1>1
  <2>3. /\ s[i].at \in 1 .. Size(s[i].of)
        /\ \E m \in 1 .. Len(log) : s[i].of = log[m]
    BY <2>2 DEF Aligned
  <2> QED  BY <2>3
<1>3. t # <<>> => n < Len(log) /\ t[1].of = log[n + 1] /\ t[1].at = 1
  <2>1. t # <<>> => s # <<>> /\ 1 \in 1 .. Len(t)
    BY <1>1
  <2>2. t # <<>> => t[1].of = s[1].of /\ t[1].at = s[1].at
    BY <2>1
  <2> QED  BY <2>1, <2>2 DEF Aligned
<1>4. \A i \in 1 .. Len(t) - 1 : Follows(t[i], t[i + 1], log)
  <2>1. SUFFICES ASSUME NEW i \in 1 .. Len(t) - 1
                 PROVE  Follows(t[i], t[i + 1], log)
    OBVIOUS
  <2>2. i \in 1 .. Len(s) - 1 /\ i \in 1 .. Len(t) /\ i + 1 \in 1 .. Len(t)
    BY <1>1
  <2>3. Follows(s[i], s[i + 1], log)
    BY <2>2 DEF Aligned
  <2>4. t[i].of = s[i].of /\ t[i].at = s[i].at
         /\ t[i + 1].of = s[i + 1].of /\ t[i + 1].at = s[i + 1].at
    BY <2>2
  <2> QED  BY <2>3, <2>4 DEF Follows
<1>5. Len(t) = Len(s) /\ Complete(s, log, n) => Complete(t, log, n)
  <2>1. SUFFICES ASSUME Len(t) = Len(s), Complete(s, log, n)
                 PROVE  Complete(t, log, n)
    OBVIOUS
  <2>2. CASE s = <<>>
    BY <1>1, <2>1, <2>2 DEF Complete
  <2>3. CASE s # <<>>
    <3>1. Len(t) \in 1 .. Len(t)
      BY <1>1, <2>1, <2>3
    <3>2. t[Len(t)].of = s[Len(s)].of /\ t[Len(t)].at = s[Len(s)].at
      BY <3>1, <2>1
    <3>3. t # <<>>
      BY <1>1, <2>1, <2>3
    <3> QED  BY <2>1, <2>3, <3>2, <3>3 DEF Complete
  <2> QED  BY <2>2, <2>3
<1> QED  BY <1>2, <1>3, <1>4, <1>5 DEF Aligned

(* A longer log has the same beginning.                                     *)
LEMMA AlignedLog ==
  ASSUME NEW s \in Seq(CellType), NEW log \in Seq(FrameType), NEW f \in FrameType,
         NEW n \in Nat, Aligned(s, log, n)
  PROVE  Aligned(s, Append(log, f), n)
<1> DEFINE new == Append(log, f)
<1>1. Len(log) \in Nat /\ Len(new) = Len(log) + 1 /\ \A i \in 1 .. Len(log) : new[i] = log[i]
  BY AppendProperties, LenProperties
<1>2. \A i \in 1 .. Len(s) :
       /\ s[i].at \in 1 .. Size(s[i].of)
       /\ \E m \in 1 .. Len(new) : s[i].of = new[m]
  <2>1. SUFFICES ASSUME NEW i \in 1 .. Len(s)
                 PROVE  \E m \in 1 .. Len(new) : s[i].of = new[m]
    BY DEF Aligned
  <2>2. PICK m \in 1 .. Len(log) : s[i].of = log[m]
    BY DEF Aligned
  <2>3. m \in 1 .. Len(new) /\ new[m] = log[m]
    BY <1>1
  <2> QED  BY <2>2, <2>3
<1>3. s # <<>> => n < Len(new) /\ s[1].of = new[n + 1] /\ s[1].at = 1
  <2>1. SUFFICES ASSUME s # <<>>
                 PROVE  n < Len(new) /\ s[1].of = new[n + 1] /\ s[1].at = 1
    OBVIOUS
  <2>2. n < Len(log) /\ s[1].of = log[n + 1] /\ s[1].at = 1
    BY <2>1 DEF Aligned
  <2>3. n + 1 \in 1 .. Len(log)
    BY <1>1, <2>2
  <2> HIDE DEF new
  <2> QED  BY <1>1, <2>2, <2>3
<1>4. \A i \in 1 .. Len(s) - 1 : Follows(s[i], s[i + 1], new)
  <2>1. SUFFICES ASSUME NEW i \in 1 .. Len(s) - 1, ~(s[i].at < Size(s[i].of)),
                        Follows(s[i], s[i + 1], log)
                 PROVE  \E m \in 1 .. Len(new) - 1 : s[i].of = new[m] /\ s[i + 1].of = new[m + 1]
    BY DEF Follows, Aligned
  <2>2. PICK m \in 1 .. Len(log) - 1 : s[i].of = log[m] /\ s[i + 1].of = log[m + 1]
    BY <2>1 DEF Follows
  <2>3. m \in 1 .. Len(log) /\ m + 1 \in 1 .. Len(log) /\ m \in 1 .. Len(new) - 1
    BY <1>1
  <2> HIDE DEF new
  <2> QED  BY <1>1, <2>2, <2>3
<1> QED  BY <1>2, <1>3, <1>4 DEF Aligned

(* A complete stream stays complete when the next frame is put after it.    *)
LEMMA AlignedSend ==
  ASSUME NEW s \in Seq(CellType), NEW log \in Seq(FrameType), NEW f \in FrameType,
         NEW n \in Nat, n <= Len(log), Aligned(s, log, n), Complete(s, log, n)
  PROVE  /\ Aligned(s \o Cells(f), Append(log, f), n)
         /\ Complete(s \o Cells(f), Append(log, f), n)
<1> DEFINE new == Append(log, f)
           t == s \o Cells(f)
           k == Size(f)
<1>1. /\ Len(log) \in Nat /\ Len(new) = Len(log) + 1 /\ new[Len(log) + 1] = f
      /\ \A i \in 1 .. Len(log) : new[i] = log[i]
  BY AppendProperties, LenProperties
<1>2. k \in Nat /\ k >= 1 /\ Cells(f) \in Seq(CellType) /\ Len(Cells(f)) = k
       /\ \A i \in 1 .. k : Cells(f)[i].of = f /\ Cells(f)[i].at = i
  BY CellsFacts
<1>3. Len(s) \in Nat /\ (s # <<>> <=> Len(s) >= 1)
  BY EmptySeq, LenProperties
<1>4. /\ t \in Seq(CellType) /\ Len(t) = Len(s) + k
      /\ \A i \in 1 .. Len(s) + k : t[i] = IF i <= Len(s) THEN s[i] ELSE Cells(f)[i - Len(s)]
  <2>1. /\ t \in Seq(CellType) /\ Len(t) = Len(s) + Len(Cells(f))
        /\ \A i \in 1 .. Len(s) + Len(Cells(f)) :
              t[i] = IF i <= Len(s) THEN s[i] ELSE Cells(f)[i - Len(s)]
    BY <1>2, ConcatProperties, Zenon
  <2>2. Len(Cells(f)) = k
    BY <1>2
  <2> HIDE DEF t, k
  <2> QED  BY <2>1, <2>2
<1>5. t # <<>>
  BY <1>2, <1>3, <1>4, EmptySeq
<1>6. Aligned(s, new, n)
  BY AlignedLog
<1> HIDE DEF new, t, k
<1>7. \A i \in 1 .. Len(s) : t[i] = s[i]
  BY <1>2, <1>3, <1>4
<1>8. \A i \in 1 .. k : Len(s) + i \in 1 .. Len(t) /\ t[Len(s) + i].of = f /\ t[Len(s) + i].at = i
  <2>1. SUFFICES ASSUME NEW i \in 1 .. k
                 PROVE  Len(s) + i \in 1 .. Len(t) /\ t[Len(s) + i] = Cells(f)[i]
    BY <1>2
  <2>2. Len(s) + i \in 1 .. Len(s) + k /\ ~(Len(s) + i <= Len(s)) /\ (Len(s) + i) - Len(s) = i
    BY <1>2, <1>3
  <2> QED  BY <1>4, <2>2
<1>9. \A i \in 1 .. Len(t) : \/ i \in 1 .. Len(s)
                            \/ \E j \in 1 .. k : i = Len(s) + j
  <2>1. SUFFICES ASSUME NEW i \in 1 .. Len(t), i \notin 1 .. Len(s)
                 PROVE  i - Len(s) \in 1 .. k /\ i = Len(s) + (i - Len(s))
    OBVIOUS
  <2> QED  BY <1>2, <1>3, <1>4, <2>1
<1>10. \A i \in 1 .. Len(t) :
       /\ t[i].at \in 1 .. Size(t[i].of)
       /\ \E m \in 1 .. Len(new) : t[i].of = new[m]
  <2>1. SUFFICES ASSUME NEW i \in 1 .. Len(t)
                 PROVE  /\ t[i].at \in 1 .. Size(t[i].of)
                        /\ \E m \in 1 .. Len(new) : t[i].of = new[m]
    OBVIOUS
  <2>2. CASE i \in 1 .. Len(s)
    <3>1. t[i] = s[i]
      BY <1>7, <2>2
    <3> QED  BY <1>6, <2>2, <3>1 DEF Aligned
  <2>3. CASE \E j \in 1 .. k : i = Len(s) + j
    <3>1. PICK j \in 1 .. k : i = Len(s) + j
      BY <2>3
    <3>2. t[i].of = f /\ t[i].at \in 1 .. k
      BY <1>8, <3>1
    <3>3. Len(log) + 1 \in 1 .. Len(new)
      BY <1>1
    <3> QED  BY <1>1, <3>2, <3>3 DEF k
  <2> QED  BY <1>9, <2>2, <2>3
<1>11. n < Len(new) /\ t[1].of = new[n + 1] /\ t[1].at = 1
  <2>1. CASE s = <<>>
    <3>1. Len(s) = 0 /\ n = Len(log)
      BY <1>3, <2>1 DEF Complete
    <3>2. 1 \in 1 .. k /\ Len(s) + 1 = 1
      BY <1>2, <3>1
    <3> QED  BY <1>1, <1>8, <3>1, <3>2
  <2>2. CASE s # <<>>
    <3>1. t[1] = s[1]
      BY <1>3, <1>7, <2>2
    <3> QED  BY <1>6, <2>2, <3>1 DEF Aligned
  <2> QED  BY <2>1, <2>2
<1>12. \A i \in 1 .. Len(t) - 1 : Follows(t[i], t[i + 1], new)
  <2>1. SUFFICES ASSUME NEW i \in 1 .. Len(t) - 1
                 PROVE  Follows(t[i], t[i + 1], new)
    OBVIOUS
  <2>2. CASE i < Len(s)
    <3>1. i \in 1 .. Len(s) - 1 /\ i \in 1 .. Len(s) /\ i + 1 \in 1 .. Len(s)
      BY <1>3, <2>2
    <3>2. t[i] = s[i] /\ t[i + 1] = s[i + 1]
      BY <1>7, <3>1
    <3> QED  BY <1>6, <3>1, <3>2 DEF Aligned
  <2>3. CASE i = Len(s)
    <3>1. i \in 1 .. Len(s) /\ s # <<>> /\ 1 \in 1 .. k
      BY <1>2, <1>3, <2>3
    <3>2. t[i] = s[i] /\ t[i + 1].of = f /\ t[i + 1].at = 1
      BY <1>7, <1>8, <2>3, <3>1
    <3>3. s[i].at = Size(s[i].of) /\ s[i].of = log[Len(log)]
      BY <2>3, <3>1 DEF Complete
    <3>4. Len(log) \in 1 .. Len(log)
      <4>1. \E m \in 1 .. Len(log) : s[i].of = log[m]
        BY <3>1 DEF Aligned
      <4> QED  BY <1>1, <4>1
    <3>5. Len(log) \in 1 .. Len(new) - 1 /\ s[i].of = new[Len(log)] /\ f = new[Len(log) + 1]
      BY <1>1, <3>3, <3>4
    <3>6. ~(s[i].at < Size(s[i].of))
      <4>1. s[i].at \in 1 .. Size(s[i].of)
        BY <3>1 DEF Aligned
      <4> QED  BY <3>3, <4>1
    <3> QED  BY <3>2, <3>5, <3>6 DEF Follows
  <2>4. CASE i > Len(s)
    <3>0. i \in 1 .. Len(t) /\ i \notin 1 .. Len(s)
      BY <1>2, <1>3, <1>4, <2>4
    <3>1. PICK j \in 1 .. k : i = Len(s) + j
      BY <1>9, <3>0
    <3>2. j + 1 \in 1 .. k /\ i + 1 = Len(s) + (j + 1) /\ j < k
      BY <1>2, <1>3, <1>4, <3>1
    <3>3. t[i].of = f /\ t[i].at = j /\ t[i + 1].of = f /\ t[i + 1].at = j + 1
      BY <1>8, <3>1, <3>2
    <3> QED  BY <3>2, <3>3 DEF Follows, k
  <2> QED  BY <1>3, <2>2, <2>3, <2>4
<1>13. Complete(t, new, n)
  <2>1. k \in 1 .. k /\ Len(s) + k = Len(t)
    BY <1>2, <1>4
  <2>2. t[Len(t)].of = f /\ t[Len(t)].at = k
    BY <1>8, <2>1
  <2> QED  BY <1>1, <1>5, <2>2 DEF Complete, k
<1> QED  BY <1>10, <1>11, <1>12, <1>13 DEF Aligned, t, new

(* An aligned sequence begins with the cells of one frame.                  *)
LEMMA FirstFrame ==
  ASSUME NEW s \in Seq(CellType), NEW log \in Seq(FrameType), NEW n \in Nat,
         Aligned(s, log, n), s # <<>>
  PROVE  \A i \in 1 .. Len(s) : i <= Size(s[1].of) => s[i].of = s[1].of /\ s[i].at = i
<1> DEFINE k == Size(s[1].of)
           T == {i \in 1 .. Len(s) : i <= k /\ ~(s[i].of = s[1].of /\ s[i].at = i)}
<1>1. SUFFICES ASSUME T # {}
               PROVE  FALSE
  OBVIOUS
<1>2. Len(s) \in Nat /\ 1 \in 1 .. Len(s) /\ s[1] \in CellType
  BY EmptySeq, LenProperties, ElementOfSeq
<1>3. k \in Nat
  BY <1>2, CellsFacts DEF CellType
<1>4. T \in SUBSET Nat
  BY <1>2
<1>5. PICK i \in T : \A j \in T : ~(<<j, i>> \in OpToRel(<, Nat))
  BY <1>1, <1>4, NatLessThanWellFounded, WFMin
<1>6. \A j \in T : ~(j < i)
  BY <1>4, <1>5 DEF OpToRel
<1>7. i \in 1 .. Len(s) /\ i <= k /\ ~(s[i].of = s[1].of /\ s[i].at = i)
  OBVIOUS
<1>8. i # 1
  BY <1>7 DEF Aligned
<1>9. i - 1 \in 1 .. Len(s) - 1 /\ i - 1 \in 1 .. Len(s) /\ i - 1 <= k /\ i - 1 < k /\ i - 1 < i
       /\ (i - 1) + 1 = i
  BY <1>2, <1>3, <1>7, <1>8
<1>10. i - 1 \notin T
  BY <1>6, <1>9
<1> HIDE DEF T
<1>11. s[i - 1].of = s[1].of /\ s[i - 1].at = i - 1
  BY <1>9, <1>10 DEF T
<1>12. Follows(s[i - 1], s[i], log)
  BY <1>9 DEF Aligned
<1>13. s[i].of = s[1].of /\ s[i].at = (i - 1) + 1
  BY <1>9, <1>11, <1>12 DEF Follows
<1> QED  BY <1>7, <1>9, <1>13

(* Without its first frame an aligned sequence is aligned with the rest of  *)
(* a log that has no frame twice.                                           *)
LEMMA AlignedDrop ==
  ASSUME NEW s \in Seq(CellType), NEW t \in Seq(CellType), NEW log \in Seq(FrameType),
         NEW n \in Nat, Aligned(s, log, n), s # <<>>, Len(s) = Len(t) + Size(s[1].of),
         \A i \in 1 .. Len(t) : t[i] = s[Size(s[1].of) + i],
         \A i, j \in 1 .. Len(log) : log[i] = log[j] => i = j
  PROVE  /\ Aligned(t, log, n + 1)
         /\ Complete(s, log, n) => Complete(t, log, n + 1)
<1> DEFINE k == Size(s[1].of)
<1>0. k = Size(s[1].of) /\ Len(s) = Len(t) + k /\ \A i \in 1 .. Len(t) : t[i] = s[k + i]
  OBVIOUS
<1> HIDE DEF k
<1>1. Len(s) \in Nat /\ Len(t) \in Nat /\ (t # <<>> <=> Len(t) >= 1) /\ 1 \in 1 .. Len(s)
       /\ s[1] \in CellType /\ Len(log) \in Nat
  BY EmptySeq, LenProperties, ElementOfSeq
<1>2. k \in Nat /\ k >= 1
  BY <1>0, <1>1, CellsFacts DEF CellType
<1>3. k \in 1 .. Len(s) /\ s[k].of = s[1].of /\ s[k].at = k
  <2>1. \A i \in 1 .. Len(s) : i <= Size(s[1].of) => s[i].of = s[1].of /\ s[i].at = i
    BY FirstFrame
  <2>2. k \in 1 .. Len(s) /\ k <= Size(s[1].of)
    BY <1>0, <1>1, <1>2
  <2> QED  BY <2>1, <2>2
<1>4. \A i \in 1 .. Len(t) : k + i \in 1 .. Len(s)
  BY <1>0, <1>1, <1>2
<1>5. \A i \in 1 .. Len(t) :
       /\ t[i].at \in 1 .. Size(t[i].of)
       /\ \E m \in 1 .. Len(log) : t[i].of = log[m]
  BY <1>0, <1>4 DEF Aligned
<1>6. n < Len(log) /\ s[1].of = log[n + 1] /\ n + 1 \in 1 .. Len(log)
  BY <1>0, <1>1 DEF Aligned
<1>7. t # <<>> => n + 1 < Len(log) /\ t[1].of = log[(n + 1) + 1] /\ t[1].at = 1
  <2>1. SUFFICES ASSUME t # <<>>
                 PROVE  n + 1 < Len(log) /\ t[1].of = log[(n + 1) + 1] /\ t[1].at = 1
    OBVIOUS
  <2>2. k \in 1 .. Len(s) - 1 /\ t[1] = s[k + 1]
    BY <1>0, <1>1, <1>2, <2>1
  <2>3. Follows(s[k], t[1], log)
    BY <2>2 DEF Aligned
  <2>4. ~(s[k].at < Size(s[k].of))
    BY <1>0, <1>2, <1>3
  <2>5. PICK m \in 1 .. Len(log) - 1 : s[k].of = log[m] /\ t[1].of = log[m + 1]
    BY <2>3, <2>4 DEF Follows
  <2>6. m = n + 1
    BY <1>0, <1>1, <1>3, <1>6, <2>5
  <2>7. t[1].at = 1
    BY <2>3, <2>4 DEF Follows
  <2> QED  BY <1>0, <1>1, <2>5, <2>6, <2>7
<1>8. \A i \in 1 .. Len(t) - 1 : Follows(t[i], t[i + 1], log)
  <2>1. SUFFICES ASSUME NEW i \in 1 .. Len(t) - 1
                 PROVE  Follows(t[i], t[i + 1], log)
    OBVIOUS
  <2>2. k + i \in 1 .. Len(s) - 1 /\ t[i] = s[k + i] /\ t[i + 1] = s[(k + i) + 1]
    <3>1. i \in Nat /\ i \in 1 .. Len(t) /\ i + 1 \in 1 .. Len(t)
      BY <1>0, <1>1
    <3>2. k + (i + 1) = (k + i) + 1
      BY <1>2, <3>1
    <3>3. k + i \in 1 .. Len(s) - 1
      <4>1. i <= Len(t) - 1 /\ 1 <= i /\ Len(s) = Len(t) + k
        BY <1>0, <1>1
      <4>2. \A a, b, d, l \in Nat : b <= a - 1 /\ 1 <= b /\ l = a + d => d + b \in 1 .. l - 1
        OBVIOUS
      <4>3. Len(t) \in Nat /\ i \in Nat /\ k \in Nat /\ Len(s) \in Nat
        BY <1>0, <1>1, <1>2, <3>1
      <4> QED  BY <4>1, <4>2, <4>3, Zenon
    <3> QED  BY <1>0, <3>1, <3>2, <3>3
  <2> QED  BY <2>2 DEF Aligned
<1>9. ASSUME Complete(s, log, n)
      PROVE  Complete(t, log, n + 1)
  <2>1. s[Len(s)].at = Size(s[Len(s)].of) /\ s[Len(s)].of = log[Len(log)]
    BY <1>9 DEF Complete
  <2>2. CASE t = <<>>
    <3>1. Len(s) = k
      BY <1>0, <1>1, <1>2, <2>2
    <3>2. log[n + 1] = log[Len(log)] /\ Len(log) \in 1 .. Len(log)
      BY <1>0, <1>1, <1>3, <1>6, <2>1, <3>1
    <3>3. n + 1 = Len(log)
      BY <1>6, <3>2
    <3> QED  BY <2>2, <3>3 DEF Complete
  <2>3. CASE t # <<>>
    <3>1. Len(t) \in 1 .. Len(t) /\ k + Len(t) = Len(s)
      BY <1>0, <1>1, <1>2, <2>3
    <3>2. t[Len(t)] = s[Len(s)]
      BY <1>0, <3>1
    <3> QED  BY <2>1, <2>3, <3>2 DEF Complete
  <2> QED  BY <2>2, <2>3
<1> QED  BY <1>5, <1>7, <1>8, <1>9 DEF Aligned

(* A cell that moves from one part of the stream to the next leaves it as   *)
(* it is.                                                                   *)
LEMMA MoveCell ==
  ASSUME NEW r \in Seq(CellType), NEW w \in Seq(CellType), w # <<>>
  PROVE  Append(r, Head(w)) \o Tail(w) = r \o w
<1>1. Head(w) \in CellType /\ Tail(w) \in Seq(CellType) /\ Len(Tail(w)) = Len(w) - 1
       /\ Len(w) \in Nat /\ Len(w) >= 1 /\ Len(r) \in Nat
       /\ \A i \in 1 .. Len(Tail(w)) : Tail(w)[i] = w[i + 1]
  BY HeadTailProperties, LenProperties, EmptySeq
<1>2. Head(w) = w[1]
  BY <1>1
<1> DEFINE a == Append(r, Head(w))
           u == a \o Tail(w)
           v == r \o w
<1>3. a \in Seq(CellType) /\ Len(a) = Len(r) + 1 /\ a[Len(r) + 1] = w[1]
       /\ \A i \in 1 .. Len(r) : a[i] = r[i]
  BY <1>1, <1>2, AppendProperties
<1> HIDE DEF a
<1>4. u \in Seq(CellType) /\ Len(u) = Len(a) + Len(Tail(w))
       /\ \A i \in 1 .. Len(a) + Len(Tail(w)) :
            u[i] = IF i <= Len(a) THEN a[i] ELSE Tail(w)[i - Len(a)]
  BY <1>1, <1>3, ConcatProperties, Zenon
<1>5. v \in Seq(CellType) /\ Len(v) = Len(r) + Len(w)
       /\ \A i \in 1 .. Len(r) + Len(w) : v[i] = IF i <= Len(r) THEN r[i] ELSE w[i - Len(r)]
  BY ConcatProperties, Zenon
<1> HIDE DEF u, v
<1>6. Len(u) = Len(v)
  BY <1>1, <1>3, <1>4, <1>5
<1>7. ASSUME NEW i \in 1 .. Len(u)
      PROVE  u[i] = v[i]
  <2>1. i \in 1 .. Len(r) + Len(w) /\ i \in 1 .. Len(a) + Len(Tail(w)) /\ i \in Nat
    BY <1>1, <1>3, <1>4, <1>5
  <2>2. u[i] = IF i <= Len(a) THEN a[i] ELSE Tail(w)[i - Len(a)]
    BY <1>4, <2>1
  <2>3. v[i] = IF i <= Len(r) THEN r[i] ELSE w[i - Len(r)]
    BY <1>5, <2>1
  <2>4. CASE i <= Len(r)
    BY <1>1, <1>3, <2>1, <2>2, <2>3, <2>4
  <2>5. CASE i = Len(r) + 1
    BY <1>1, <1>3, <2>1, <2>2, <2>3, <2>5
  <2>6. CASE i > Len(r) + 1
    <3>1. ~(i <= Len(a)) /\ ~(i <= Len(r)) /\ i - Len(a) \in 1 .. Len(Tail(w))
           /\ (i - Len(a)) + 1 = i - Len(r)
      BY <1>1, <1>3, <2>1, <2>6
    <3>2. Tail(w)[i - Len(a)] = w[(i - Len(a)) + 1]
      BY <1>1, <3>1
    <3> QED  BY <2>2, <2>3, <3>1, <3>2
  <2> QED  BY <1>1, <2>1, <2>4, <2>5, <2>6
<1>8. u = v
  BY <1>4, <1>5, <1>6, <1>7, SeqEqual
<1> QED  BY <1>8 DEF u, v, a

-----------------------------------------------------------------------------
(* The operations of a channel.                                             *)

(* What a channel has received and not consumed.                            *)
LEMMA RestFacts ==
  ASSUME NEW ch \in ChannelType, ch.begin <= Len(ch.buffer)
  PROVE  /\ Len(ch.buffer) \in Nat /\ ch.begin \in Nat
         /\ Rest(ch) \in Seq(CellType)
         /\ Len(Rest(ch)) = Len(ch.buffer) - ch.begin /\ Have(ch) = Len(Rest(ch))
         /\ \A i \in 1 .. Len(Rest(ch)) :
              Rest(ch)[i] = ch.buffer[ch.begin + i] /\ ch.begin + i \in 1 .. Len(ch.buffer)
<1>1. ch.buffer \in Seq(CellType) /\ ch.begin \in Nat /\ Len(ch.buffer) \in Nat
  BY LenProperties DEF ChannelType
<1> DEFINE b == ch.buffer
           k == ch.begin
<1> HIDE DEF b, k
<1>2. b \in Seq(CellType) /\ k \in Nat /\ Len(b) \in Nat /\ k <= Len(b)
  BY <1>1 DEF b, k
<1>3. \A i \in k + 1 .. Len(b) : b[i] \in CellType
  BY <1>2, ElementOfSeq
<1>4. /\ SubSeq(b, k + 1, Len(b)) \in Seq(CellType)
      /\ Len(SubSeq(b, k + 1, Len(b))) = IF k + 1 <= Len(b) THEN Len(b) - (k + 1) + 1 ELSE 0
      /\ \A i \in 1 .. Len(b) - (k + 1) + 1 : SubSeq(b, k + 1, Len(b))[i] = b[(k + 1) + i - 1]
  <2>1. k + 1 \in Int /\ Len(b) \in Int
    BY <1>2
  <2> QED  BY <1>3, <2>1, SubSeqProperties
<1> DEFINE r == SubSeq(b, k + 1, Len(b))
<1> HIDE DEF r
<1>5. r \in Seq(CellType) /\ Len(r) = Len(b) - k
  BY <1>2, <1>4 DEF r
<1>8. ASSUME NEW i \in 1 .. Len(r)
      PROVE  r[i] = b[k + i] /\ k + i \in 1 .. Len(b)
  <2>1. i \in 1 .. Len(b) - (k + 1) + 1 /\ (k + 1) + i - 1 = k + i /\ k + i \in 1 .. Len(b)
    BY <1>2, <1>5
  <2>2. r[i] = b[(k + 1) + i - 1]
    BY <1>4, <2>1 DEF r
  <2> QED  BY <2>1, <2>2
<1>6. Rest(ch) = r
  BY DEF Rest, r, b, k
<1>7. Have(ch) = Len(b) - k
  BY DEF Have, b, k
<1> QED  BY <1>1, <1>5, <1>6, <1>7, <1>8 DEF b, k

(* A beginning of the buffer leaves a beginning of the rest.                *)
LEMMA SubSeqFacts ==
  ASSUME NEW b \in Seq(CellType), NEW k \in Nat, k <= Len(b)
  PROVE  /\ SubSeq(b, 1, k) \in Seq(CellType) /\ Len(SubSeq(b, 1, k)) = k
         /\ \A i \in 1 .. k : SubSeq(b, 1, k)[i] = b[i]
<1>1. Len(b) \in Nat
  BY LenProperties
<1>2. \A i \in 1 .. k : b[i] \in CellType
  BY <1>1, ElementOfSeq
<1>3. /\ SubSeq(b, 1, k) \in Seq(CellType)
      /\ Len(SubSeq(b, 1, k)) = IF 1 <= k THEN k - 1 + 1 ELSE 0
      /\ \A i \in 1 .. k - 1 + 1 : SubSeq(b, 1, k)[i] = b[1 + i - 1]
  BY <1>2, SubSeqProperties
<1>4. \A i \in 1 .. k : i \in 1 .. k - 1 + 1 /\ 1 + i - 1 = i
  OBVIOUS
<1>5. Len(SubSeq(b, 1, k)) = k
  BY <1>3
<1>6. \A i \in 1 .. k : SubSeq(b, 1, k)[i] = b[i]
  BY <1>3, <1>4
<1> QED  BY <1>3, <1>5, <1>6

(* fill keeps what is not consumed.                                         *)
LEMMA FillFacts ==
  ASSUME NEW ch \in ChannelType, ch.begin <= Len(ch.buffer), NEW n \in Nat
  PROVE  LET d == fill(ch, n) IN
         /\ d \in ChannelType /\ d.begin <= Len(d.buffer) /\ Rest(d) = Rest(ch)
         /\ Have(d) = Have(ch) /\ d.needed = n
         /\ Have(d) < n => d.begin = 0 /\ d.current <= Len(d.buffer)
         /\ d.doing = ch.doing /\ d.out = ch.out /\ d.frame = ch.frame /\ d.broken = ch.broken
<1>1. /\ Len(ch.buffer) \in Nat /\ ch.begin \in Nat /\ Rest(ch) \in Seq(CellType)
      /\ Len(Rest(ch)) = Len(ch.buffer) - ch.begin /\ Have(ch) = Len(Rest(ch))
      /\ Have(ch) \in Nat
  BY RestFacts, LenProperties
<1>2. CASE Have(ch) >= n
  <2>1. fill(ch, n) = [ch EXCEPT !.needed = n]
    BY <1>2 DEF fill
  <2>2. [ch EXCEPT !.needed = n] \in ChannelType
    BY DEF ChannelType
  <2>3. \A d : d = [ch EXCEPT !.needed = n] =>
          /\ d.buffer = ch.buffer /\ d.begin = ch.begin /\ d.needed = n /\ d.doing = ch.doing
          /\ d.out = ch.out /\ d.frame = ch.frame /\ d.broken = ch.broken
    BY DEF ChannelType
  <2> DEFINE d == fill(ch, n)
  <2> HIDE DEF d
  <2>4. /\ d \in ChannelType /\ d.buffer = ch.buffer /\ d.begin = ch.begin /\ d.needed = n
        /\ d.doing = ch.doing /\ d.out = ch.out /\ d.frame = ch.frame /\ d.broken = ch.broken
    BY <2>1, <2>2, <2>3 DEF d
  <2>5. Rest(d) = Rest(ch) /\ Have(d) = Have(ch)
    BY <2>4 DEF Rest, Have
  <2>6. ~(Have(d) < n)
    BY <1>1, <1>2, <2>5
  <2> QED  BY <2>4, <2>5, <2>6 DEF d
<1>3. CASE ~(Have(ch) >= n)
  <2> DEFINE new == [ch EXCEPT !.buffer = Rest(ch), !.begin = 0,
                               !.current = Have(ch), !.needed = n]
  <2>1. fill(ch, n) = new
    BY <1>3 DEF fill, Rest
  <2>2. new \in ChannelType
    BY <1>1 DEF ChannelType
  <2>3. /\ new.buffer = Rest(ch) /\ new.begin = 0 /\ new.needed = n /\ new.doing = ch.doing
        /\ new.current = Have(ch)
        /\ new.out = ch.out /\ new.frame = ch.frame /\ new.broken = ch.broken
    BY DEF ChannelType
  <2> DEFINE d == fill(ch, n)
  <2> HIDE DEF new, d
  <2>4. /\ d \in ChannelType /\ d.buffer = Rest(ch) /\ d.begin = 0 /\ d.needed = n
        /\ d.current = Have(ch)
        /\ d.doing = ch.doing /\ d.out = ch.out /\ d.frame = ch.frame /\ d.broken = ch.broken
    BY <2>1, <2>2, <2>3 DEF d
  <2>5. Rest(d) = Rest(ch)
    <3>1. SubSeq(Rest(ch), 1, Len(Rest(ch))) = Rest(ch)
      BY <1>1, SubSeqFull
    <3>2. Rest(d) = SubSeq(d.buffer, d.begin + 1, Len(d.buffer))
      BY DEF Rest
    <3> QED  BY <2>4, <3>1, <3>2
  <2>6. Have(d) = Have(ch) /\ d.begin <= Len(d.buffer) /\ d.current <= Len(d.buffer)
    BY <1>1, <2>4 DEF Have
  <2> QED  BY <2>4, <2>5, <2>6 DEF d
<1> QED  BY <1>2, <1>3

(* recv_frame begins with the header, and drops the consumed part of the    *)
(* buffer when it has to receive.                                           *)
LEMMA RecvFrameFacts ==
  ASSUME NEW ch \in ChannelType, ch.begin <= Len(ch.buffer)
  PROVE  LET d == recv_frame(ch) IN
         /\ d \in ChannelType /\ d.begin <= Len(d.buffer) /\ Rest(d) = Rest(ch)
         /\ Have(d) = Have(ch) /\ d.needed = Header /\ d.doing = "header"
         /\ Have(d) < d.needed => d.begin = 0 /\ d.current <= Len(d.buffer)
         /\ d.out = ch.out /\ d.frame = ch.frame /\ d.broken = ch.broken
<1> DEFINE g == fill(ch, Header)
           d == recv_frame(ch)
<1>1. /\ g \in ChannelType /\ g.begin <= Len(g.buffer) /\ Rest(g) = Rest(ch)
      /\ Have(g) = Have(ch) /\ g.needed = Header
      /\ Have(g) < Header => g.begin = 0 /\ g.current <= Len(g.buffer)
      /\ g.out = ch.out /\ g.frame = ch.frame /\ g.broken = ch.broken
  BY HeaderPositive, FillFacts
<1>2. d = [g EXCEPT !.doing = "header"]
  BY DEF recv_frame
<1> HIDE DEF g, d
<1>3. d \in ChannelType
  BY <1>1, <1>2 DEF ChannelType
<1>4. /\ d.doing = "header" /\ d.buffer = g.buffer /\ d.begin = g.begin
      /\ d.current = g.current /\ d.needed = g.needed
      /\ d.out = g.out /\ d.frame = g.frame /\ d.broken = g.broken
  BY <1>1, <1>2 DEF ChannelType
<1>5. Rest(d) = Rest(g) /\ Have(d) = Have(g)
  BY <1>4 DEF Rest, Have
<1> QED  BY <1>1, <1>3, <1>4, <1>5 DEF d

(* send_frame leaves all cells of the frame to be sent, and the buffer as   *)
(* it was.                                                                  *)
LEMMA SendFrameFacts ==
  ASSUME NEW ch \in ChannelType, NEW f \in FrameType
  PROVE  LET d == send_frame(ch, f) IN
         /\ d \in ChannelType /\ d.doing = "sending" /\ d.out = Cells(f)
         /\ d.buffer = ch.buffer /\ d.begin = ch.begin /\ Rest(d) = Rest(ch)
         /\ d.frame = ch.frame /\ d.broken = ch.broken
<1> DEFINE cs == Cells(f)
           d == send_frame(ch, f)
<1>1. cs \in Seq(CellType)
  BY CellsFacts
<1>2. d = [ch EXCEPT !.doing = "sending", !.out = cs]
  BY DEF send_frame
<1> HIDE DEF cs, d
<1>3. d \in ChannelType
  BY <1>1, <1>2 DEF ChannelType
<1>4. /\ d.doing = "sending" /\ d.out = cs /\ d.buffer = ch.buffer /\ d.begin = ch.begin
      /\ d.frame = ch.frame /\ d.broken = ch.broken
  BY <1>2 DEF ChannelType
<1>5. Rest(d) = Rest(ch)
  BY <1>4 DEF Rest
<1> QED  BY <1>3, <1>4, <1>5 DEF cs, d

(* A channel that fails sends no more and keeps its buffer.                 *)
LEMMA FailedFacts ==
  ASSUME NEW ch \in ChannelType
  PROVE  LET d == Failed(ch) IN
         /\ d \in ChannelType /\ d.doing = "failed" /\ d.out = <<>> /\ d.broken
         /\ d.buffer = ch.buffer /\ d.begin = ch.begin /\ d.current = ch.current
         /\ Rest(d) = Rest(ch) /\ d.frame = ch.frame
<1> DEFINE d == Failed(ch)
<1>1. <<>> \in Seq(CellType)
  BY EmptySeq
<1>2. d = [ch EXCEPT !.doing = "failed", !.out = <<>>, !.broken = TRUE]
  BY DEF Failed
<1> HIDE DEF d
<1>3. d \in ChannelType
  BY <1>1, <1>2 DEF ChannelType
<1>4. /\ d.doing = "failed" /\ d.out = <<>> /\ d.broken
      /\ d.buffer = ch.buffer /\ d.begin = ch.begin /\ d.current = ch.current
      /\ d.frame = ch.frame
  BY <1>2 DEF ChannelType
<1>5. Rest(d) = Rest(ch)
  BY <1>4 DEF Rest
<1> QED  BY <1>3, <1>4, <1>5 DEF d

(* Reading a header consumes nothing: it is refused, or the frame is within *)
(* the ceiling.                                                             *)
LEMMA ReadHeaderFacts ==
  ASSUME NEW ch \in ChannelType, ch.begin <= Len(ch.buffer), NEW m \in Nat, Have(ch) >= 1
  PROVE  LET d == ReadHeader(ch, m)
             x == Rest(ch)[1]
         IN
         /\ d \in ChannelType /\ d.begin <= Len(d.buffer) /\ Rest(d) = Rest(ch)
         /\ d.frame = ch.frame
         /\ \/ /\ x.at # 1 \/ x.of.length > m
               /\ d.doing = "failed" /\ d.out = <<>> /\ d.broken
            \/ /\ x.of.length <= m
               /\ d.doing = "payload" /\ d.needed = Size(x.of) /\ Have(d) = Have(ch)
               /\ Have(d) < d.needed => d.begin = 0 /\ d.current <= Len(d.buffer)
               /\ d.out = ch.out /\ d.broken = ch.broken
<1> DEFINE x == Rest(ch)[1]
           d == ReadHeader(ch, m)
<1>1. /\ x = ch.buffer[ch.begin + 1] /\ Rest(ch) \in Seq(CellType)
      /\ 1 \in 1 .. Len(Rest(ch))
  BY RestFacts, LenProperties
<1>2. x \in CellType
  BY <1>1, ElementOfSeq
<1>3. x.of \in FrameType
  BY <1>2 DEF CellType
<1>4. x.of.length \in Nat /\ Size(x.of) \in Nat
  BY <1>3, CellsFacts DEF FrameType
<1>5. d = IF x.at # 1 \/ x.of.length > m THEN Failed(ch)
          ELSE [fill(ch, Header + x.of.length) EXCEPT !.doing = "payload"]
  BY <1>1 DEF ReadHeader
<1>6. CASE x.at # 1 \/ x.of.length > m
  <2>1. d = Failed(ch)
    BY <1>5, <1>6
  <2> HIDE DEF d, x
  <2> QED  BY <1>6, <2>1, FailedFacts DEF d, x
<1>7. CASE ~(x.at # 1 \/ x.of.length > m)
  <2> DEFINE g == fill(ch, Size(x.of))
  <2>1. d = [g EXCEPT !.doing = "payload"]
    BY <1>5, <1>7 DEF Size
  <2>2. /\ g \in ChannelType /\ g.begin <= Len(g.buffer) /\ Rest(g) = Rest(ch)
        /\ Have(g) = Have(ch) /\ g.needed = Size(x.of)
        /\ Have(g) < Size(x.of) => g.begin = 0 /\ g.current <= Len(g.buffer)
        /\ g.out = ch.out /\ g.frame = ch.frame /\ g.broken = ch.broken
    <3> HIDE DEF x
    <3> QED  BY <1>4, FillFacts
  <2> HIDE DEF g, d, x
  <2>3. d \in ChannelType
    BY <2>1, <2>2 DEF ChannelType
  <2>4. /\ d.doing = "payload" /\ d.buffer = g.buffer /\ d.begin = g.begin
        /\ d.current = g.current /\ d.needed = g.needed
        /\ d.out = g.out /\ d.frame = g.frame /\ d.broken = g.broken
    BY <2>1, <2>2 DEF ChannelType
  <2>5. Rest(d) = Rest(g) /\ Have(d) = Have(g)
    BY <2>4 DEF Rest, Have
  <2>6. x.of.length <= m
    BY <1>4, <1>7
  <2> QED  BY <2>2, <2>3, <2>4, <2>5, <2>6 DEF d, x
<1> QED  BY <1>6, <1>7

(* A frame is received as it was sent, or refused because a cell of its     *)
(* payload is damaged.                                                      *)
LEMMA DecodeFacts ==
  ASSUME NEW ch \in ChannelType, ch.begin <= Len(ch.buffer), Have(ch) >= 1,
         Have(ch) >= Size(Rest(ch)[1].of)
  PROVE  LET d == Decode(ch)
             r == Rest(ch)
             f == r[1].of
         IN
         /\ d \in ChannelType /\ d.begin <= Len(d.buffer)
         /\ \/ /\ \E i \in 1 .. f.length : Header + i <= Len(r) /\ ~r[Header + i].intact
               /\ Rest(d) = Rest(ch)
               /\ d.doing = "failed" /\ d.out = <<>> /\ d.broken
            \/ /\ \A i \in 1 .. f.length : r[Header + i].intact
               /\ d.doing = "got" /\ d.frame = f
               /\ d.out = ch.out /\ d.broken = ch.broken
               /\ Len(r) = Len(Rest(d)) + Size(f)
               /\ \A i \in 1 .. Len(Rest(d)) : Rest(d)[i] = r[Size(f) + i]
<1> DEFINE r == Rest(ch)
           f == r[1].of
           d == Decode(ch)
<1>1. /\ Len(ch.buffer) \in Nat /\ ch.begin \in Nat /\ Rest(ch) \in Seq(CellType)
      /\ Len(r) = Len(ch.buffer) - ch.begin /\ Have(ch) = Len(r) /\ Len(r) \in Nat
      /\ \A i \in 1 .. Len(r) : r[i] = ch.buffer[ch.begin + i]
  BY RestFacts, LenProperties
<1>2. 1 \in 1 .. Len(r) /\ r[1] \in CellType
  <2>1. 1 \in 1 .. Len(r)
    BY <1>1
  <2> QED  BY <1>1, <2>1, ElementOfSeq
<1>3. f \in FrameType /\ f.length \in Nat /\ Size(f) \in Nat /\ Size(f) = Header + f.length
  <2>1. f \in FrameType
    BY <1>2 DEF CellType
  <2> HIDE DEF f
  <2> QED  BY <2>1, CellsFacts DEF FrameType, Size
<1>4. ch.buffer[ch.begin + 1].of = f
  BY <1>1, <1>2
<1> HIDE DEF r, f
<1>5. \A i \in 1 .. f.length : /\ Header + i \in 1 .. Len(r)
                              /\ ch.buffer[ch.begin + Header + i] = r[Header + i]
  <2>1. SUFFICES ASSUME NEW i \in 1 .. f.length
                 PROVE  /\ Header + i \in 1 .. Len(r)
                        /\ ch.buffer[ch.begin + Header + i] = r[Header + i]
    OBVIOUS
  <2>2. Len(r) >= Header + f.length
    BY <1>1, <1>3 DEF r, f
  <2>3. Header + i \in 1 .. Len(r)
    BY <1>1, <1>3, <2>2, HeaderPositive
  <2>4. ch.begin + Header + i = ch.begin + (Header + i)
    BY <1>1, <1>3, HeaderPositive
  <2> QED  BY <1>1, <2>3, <2>4
<1>6. ChecksumMatches(ch, f) <=> \A i \in 1 .. f.length : r[Header + i].intact
  <2>1. (\A i \in 1 .. f.length : ch.buffer[ch.begin + Header + i].intact)
          <=> (\A i \in 1 .. f.length : r[Header + i].intact)
    BY <1>5
  <2>2. [f EXCEPT !.value = @ + 1] # f
    <3>1. f.value \in Nat
      BY <1>3 DEF FrameType
    <3>2. [f EXCEPT !.value = @ + 1].value = f.value + 1
      BY <1>3 DEF FrameType
    <3>3. f.value + 1 # f.value
      BY <3>1
    <3> QED  BY <3>2, <3>3, Zenon
  <2>3. Contents(ch, f) = IF \A i \in 1 .. f.length : r[Header + i].intact THEN f
                          ELSE [f EXCEPT !.value = @ + 1]
    BY <2>1 DEF Contents
  <2> QED  BY <2>2, <2>3 DEF ChecksumMatches
<1>7. d = IF ~ChecksumMatches(ch, f) THEN Failed(ch)
          ELSE [ch EXCEPT !.doing = "got", !.begin = @ + Header + f.length,
                          !.frame = Contents(ch, f)]
  BY <1>4 DEF Decode
<1>8. CASE ~ChecksumMatches(ch, f)
  <2>1. d = Failed(ch)
    BY <1>7, <1>8
  <2>2. PICK i \in 1 .. f.length : ~r[Header + i].intact
    BY <1>6, <1>8
  <2>3. Header + i <= Len(r)
    BY <1>1, <1>5
  <2> HIDE DEF d
  <2>4. /\ d \in ChannelType /\ d.begin <= Len(d.buffer)
        /\ Rest(d) = Rest(ch)
        /\ d.doing = "failed" /\ d.out = <<>> /\ d.broken
    BY <2>1, FailedFacts
  <2> QED  BY <2>2, <2>3, <2>4 DEF d, r, f
<1>9. CASE ChecksumMatches(ch, f)
  <2>1. d = [ch EXCEPT !.doing = "got", !.begin = @ + Header + f.length, !.frame = f]
    BY <1>7, <1>9 DEF ChecksumMatches
  <2>2. ch.begin + Header + f.length = ch.begin + Size(f) /\ ch.begin + Size(f) \in Nat
    BY <1>1, <1>3, HeaderPositive
  <2> HIDE DEF d
  <2>3. d \in ChannelType
    BY <1>3, <2>1, <2>2 DEF ChannelType
  <2>4. /\ d.doing = "got" /\ d.buffer = ch.buffer /\ d.begin = ch.begin + Size(f)
        /\ d.out = ch.out /\ d.frame = f /\ d.broken = ch.broken
    BY <2>1, <2>2 DEF ChannelType
  <2>5. Size(f) <= Len(r)
    BY <1>1 DEF r, f
  <2>6. d.begin <= Len(d.buffer)
    BY <1>1, <1>3, <2>4, <2>5
  <2>7. /\ Len(Rest(d)) = Len(ch.buffer) - (ch.begin + Size(f)) /\ Rest(d) \in Seq(CellType)
        /\ \A i \in 1 .. Len(Rest(d)) : Rest(d)[i] = ch.buffer[(ch.begin + Size(f)) + i]
    BY <2>3, <2>4, <2>6, RestFacts
  <2>8. Len(r) = Len(Rest(d)) + Size(f)
    BY <1>1, <1>3, <2>7
  <2>9. ASSUME NEW i \in 1 .. Len(Rest(d))
        PROVE  Rest(d)[i] = r[Size(f) + i]
    <3>1. Len(Rest(d)) \in Nat /\ i \in Nat /\ 1 <= i /\ i <= Len(Rest(d))
      BY <1>1, <1>3, <2>8
    <3>2. Size(f) + i \in 1 .. Len(r)
      BY <1>3, <2>8, <3>1
    <3>3. (ch.begin + Size(f)) + i = ch.begin + (Size(f) + i)
      BY <1>1, <1>3, <3>1
    <3> QED  BY <1>1, <2>7, <3>2, <3>3
  <2>10. \A i \in 1 .. f.length : r[Header + i].intact
    BY <1>6, <1>9
  <2> QED  BY <2>3, <2>4, <2>6, <2>8, <2>9, <2>10 DEF d, r, f
<1> QED  BY <1>8, <1>9

(* Giving up leaves a beginning of what was not consumed.                   *)
LEMMA GiveUpFacts ==
  ASSUME NEW ch \in ChannelType, ch.begin = 0, ch.current <= Len(ch.buffer)
  PROVE  LET d == [Failed(ch) EXCEPT !.buffer = SubSeq(@, 1, ch.current)] IN
         /\ d \in ChannelType /\ d.begin <= Len(d.buffer)
         /\ d.doing = "failed" /\ d.out = <<>> /\ d.broken
         /\ Len(Rest(d)) <= Len(Rest(ch))
         /\ \A i \in 1 .. Len(Rest(d)) : Rest(d)[i] = Rest(ch)[i]
<1> DEFINE b == SubSeq(ch.buffer, 1, ch.current)
           g == Failed(ch)
           d == [g EXCEPT !.buffer = SubSeq(@, 1, ch.current)]
<1>1. ch.buffer \in Seq(CellType) /\ ch.current \in Nat /\ Len(ch.buffer) \in Nat
  BY LenProperties DEF ChannelType
<1>2. b \in Seq(CellType) /\ Len(b) = ch.current
       /\ \A i \in 1 .. ch.current : b[i] = ch.buffer[i]
  BY <1>1, SubSeqFacts
<1>3. /\ g \in ChannelType /\ g.doing = "failed" /\ g.out = <<>> /\ g.broken
      /\ g.buffer = ch.buffer /\ g.begin = 0
  BY FailedFacts
<1> HIDE DEF g
<1>4. d = [g EXCEPT !.buffer = b]
  BY <1>3 DEF ChannelType
<1> HIDE DEF b, d
<1>5. d \in ChannelType
  BY <1>2, <1>3, <1>4 DEF ChannelType
<1>6. d.doing = "failed" /\ d.out = <<>> /\ d.broken /\ d.buffer = b /\ d.begin = 0
  BY <1>3, <1>4 DEF ChannelType
<1>7. d.begin <= Len(d.buffer)
  BY <1>1, <1>2, <1>6
<1>8. Len(Rest(ch)) = Len(ch.buffer) - 0 /\ \A i \in 1 .. Len(Rest(ch)) : Rest(ch)[i] = ch.buffer[0 + i]
  BY <1>1, RestFacts
<1>9. Len(Rest(d)) = Len(b) - 0 /\ \A i \in 1 .. Len(Rest(d)) : Rest(d)[i] = b[0 + i]
  BY <1>5, <1>6, <1>7, RestFacts
<1>10. Len(Rest(d)) = ch.current /\ Len(Rest(ch)) = Len(ch.buffer)
  BY <1>1, <1>2, <1>8, <1>9
<1>11. ASSUME NEW i \in 1 .. Len(Rest(d))
       PROVE  Rest(d)[i] = Rest(ch)[i]
  <2>1. i \in 1 .. ch.current /\ i \in 1 .. Len(Rest(ch)) /\ 0 + i = i
    BY <1>1, <1>10
  <2> QED  BY <1>2, <1>8, <1>9, <2>1
<1> QED  BY <1>1, <1>5, <1>6, <1>7, <1>10, <1>11 DEF d, g

(* A cell received is put after what was not consumed.                      *)
LEMMA ReceiveFacts ==
  ASSUME NEW ch \in ChannelType, ch.begin <= Len(ch.buffer), NEW x \in CellType
  PROVE  LET d == [ch EXCEPT !.buffer = Append(@, x)] IN
         /\ d \in ChannelType /\ d.begin <= Len(d.buffer)
         /\ Rest(d) = Append(Rest(ch), x)
         /\ Len(d.buffer) = Len(ch.buffer) + 1 /\ Have(d) = Have(ch) + 1
         /\ d.begin = ch.begin /\ d.current = ch.current /\ d.needed = ch.needed
         /\ d.doing = ch.doing /\ d.out = ch.out /\ d.frame = ch.frame /\ d.broken = ch.broken
<1> DEFINE b == Append(ch.buffer, x)
           r == Rest(ch)
           d == [ch EXCEPT !.buffer = Append(@, x)]
<1>1. /\ Len(ch.buffer) \in Nat /\ ch.begin \in Nat /\ r \in Seq(CellType) /\ Len(r) \in Nat
      /\ Len(r) = Len(ch.buffer) - ch.begin /\ Have(ch) = Len(r)
      /\ \A i \in 1 .. Len(r) : r[i] = ch.buffer[ch.begin + i] /\ ch.begin + i \in 1 .. Len(ch.buffer)
      /\ ch.buffer \in Seq(CellType)
  BY RestFacts, LenProperties DEF ChannelType
<1>2. /\ b \in Seq(CellType) /\ Len(b) = Len(ch.buffer) + 1 /\ b[Len(ch.buffer) + 1] = x
      /\ \A i \in 1 .. Len(ch.buffer) : b[i] = ch.buffer[i]
  BY <1>1, AppendProperties
<1>3. d = [ch EXCEPT !.buffer = b]
  BY DEF ChannelType
<1> HIDE DEF b, d
<1>4. d \in ChannelType
  BY <1>2, <1>3 DEF ChannelType
<1>5. /\ d.buffer = b /\ d.begin = ch.begin /\ d.current = ch.current /\ d.needed = ch.needed
      /\ d.doing = ch.doing /\ d.out = ch.out /\ d.frame = ch.frame /\ d.broken = ch.broken
  BY <1>3 DEF ChannelType
<1>6. d.begin <= Len(d.buffer)
  BY <1>1, <1>2, <1>5
<1>7. /\ Rest(d) \in Seq(CellType) /\ Len(Rest(d)) = Len(b) - ch.begin
      /\ Have(d) = Len(Rest(d))
      /\ \A i \in 1 .. Len(Rest(d)) : Rest(d)[i] = b[ch.begin + i]
  BY <1>4, <1>5, <1>6, RestFacts
<1>8. /\ Append(r, x) \in Seq(CellType) /\ Len(Append(r, x)) = Len(r) + 1
      /\ \A i \in 1 .. Len(r) : Append(r, x)[i] = r[i]
      /\ Append(r, x)[Len(r) + 1] = x
  BY <1>1, AppendProperties
<1> HIDE DEF r
<1>9. Len(Rest(d)) = Len(Append(r, x)) /\ Len(Rest(d)) = Len(r) + 1
  BY <1>1, <1>2, <1>7, <1>8
<1>10. ASSUME NEW i \in 1 .. Len(Rest(d))
       PROVE  Rest(d)[i] = Append(r, x)[i]
  <2>1. CASE i <= Len(r)
    <3>1. i \in 1 .. Len(r)
      BY <1>1, <1>9, <2>1
    <3> QED  BY <1>1, <1>2, <1>7, <1>8, <3>1
  <2>2. CASE ~(i <= Len(r))
    <3>1. i = Len(r) + 1 /\ ch.begin + i = Len(ch.buffer) + 1
      BY <1>1, <1>9, <2>2
    <3> QED  BY <1>2, <1>7, <1>8, <3>1
  <2> QED  BY <2>1, <2>2
<1>11. Rest(d) = Append(r, x)
  BY <1>7, <1>8, <1>9, <1>10, SeqEqual
<1>12. Have(d) = Have(ch) + 1 /\ Len(d.buffer) = Len(ch.buffer) + 1
  BY <1>1, <1>2, <1>5, <1>7, <1>9
<1> QED  BY <1>4, <1>5, <1>6, <1>11, <1>12 DEF d, r

-----------------------------------------------------------------------------
(* How steps change the stream.                                             *)

(* t is a beginning of s, damaged or not.                                   *)
Alike(t, s) ==
  /\ Len(t) <= Len(s)
  /\ \A i \in 1 .. Len(t) : t[i].of = s[i].of /\ t[i].at = s[i].at

(* A stream is alike itself, and an empty stream any other.                 *)
LEMMA AlikeSelf ==
  ASSUME NEW s \in Seq(CellType)
  PROVE  Alike(s, s) /\ Alike(<<>>, s)
<1>1. Len(s) \in Nat /\ Len(<<>>) = 0
  BY LenProperties, EmptySeq
<1> QED  BY <1>1 DEF Alike

(* Concatenations of streams that are alike are alike.                      *)
LEMMA ConcatAlike ==
  ASSUME NEW r \in Seq(CellType), NEW w \in Seq(CellType),
         NEW r2 \in Seq(CellType), NEW w2 \in Seq(CellType),
         Alike(r2, r), Alike(w2, w), w2 = <<>> \/ Len(r2) = Len(r)
  PROVE  /\ Alike(r2 \o w2, r \o w)
         /\ Len(r2) = Len(r) /\ Len(w2) = Len(w) => Len(r2 \o w2) = Len(r \o w)
<1> DEFINE u == r \o w
           v == r2 \o w2
<1>1. /\ Len(u) = Len(r) + Len(w)
      /\ \A i \in 1 .. Len(r) + Len(w) : u[i] = IF i <= Len(r) THEN r[i] ELSE w[i - Len(r)]
  BY ConcatProperties, Zenon
<1>2. /\ Len(v) = Len(r2) + Len(w2)
      /\ \A i \in 1 .. Len(r2) + Len(w2) : v[i] = IF i <= Len(r2) THEN r2[i] ELSE w2[i - Len(r2)]
  BY ConcatProperties, Zenon
<1> HIDE DEF u, v
<1>3. Len(r) \in Nat /\ Len(w) \in Nat /\ Len(r2) \in Nat /\ Len(w2) \in Nat
       /\ (w2 = <<>> => Len(w2) = 0)
  BY LenProperties, EmptySeq
<1>4. Len(r2) <= Len(r) /\ Len(w2) <= Len(w)
  BY DEF Alike
<1>5. Len(v) <= Len(u)
  BY <1>1, <1>2, <1>3, <1>4
<1>6. ASSUME NEW i \in 1 .. Len(v)
      PROVE  v[i].of = u[i].of /\ v[i].at = u[i].at
  <2>1. i \in 1 .. Len(r2) + Len(w2) /\ i \in 1 .. Len(r) + Len(w) /\ i \in Nat
    BY <1>1, <1>2, <1>3, <1>5
  <2>2. CASE i <= Len(r2)
    <3>1. i \in 1 .. Len(r2) /\ i <= Len(r)
      BY <1>3, <1>4, <2>1, <2>2
    <3>2. v[i] = r2[i] /\ u[i] = r[i]
      BY <1>1, <1>2, <2>1, <2>2, <3>1
    <3> QED  BY <3>1, <3>2 DEF Alike
  <2>3. CASE ~(i <= Len(r2))
    <3>1. Len(r2) = Len(r)
      BY <1>3, <2>1, <2>3
    <3>2. v[i] = w2[i - Len(r)] /\ u[i] = w[i - Len(r)]
      BY <1>1, <1>2, <2>1, <2>3, <3>1
    <3>3. i - Len(r) \in 1 .. Len(w2)
      BY <1>3, <2>1, <2>3, <3>1
    <3> QED  BY <3>2, <3>3 DEF Alike
  <2> QED  BY <2>2, <2>3
<1>7. Len(r2) = Len(r) /\ Len(w2) = Len(w) => Len(v) = Len(u)
  BY <1>1, <1>2, <1>3
<1> QED  BY <1>5, <1>6, <1>7 DEF Alike, u, v

(* The concatenation of two streams is a stream.                            *)
LEMMA ConcatCells ==
  ASSUME NEW r \in Seq(CellType), NEW w \in Seq(CellType)
  PROVE  r \o w \in Seq(CellType) /\ Len(r \o w) = Len(r) + Len(w)
BY ConcatProperties, Zenon

(* Concatenation of streams is associative.                                 *)
LEMMA AssocCells ==
  ASSUME NEW r \in Seq(CellType), NEW w \in Seq(CellType), NEW o \in Seq(CellType)
  PROVE  (r \o w) \o o = r \o (w \o o)
<1> DEFINE a == r \o w
           b == w \o o
           u == a \o o
           v == r \o b
<1>1. /\ a \in Seq(CellType) /\ Len(a) = Len(r) + Len(w)
      /\ \A i \in 1 .. Len(r) + Len(w) : a[i] = IF i <= Len(r) THEN r[i] ELSE w[i - Len(r)]
  BY ConcatProperties, Zenon
<1>2. /\ b \in Seq(CellType) /\ Len(b) = Len(w) + Len(o)
      /\ \A i \in 1 .. Len(w) + Len(o) : b[i] = IF i <= Len(w) THEN w[i] ELSE o[i - Len(w)]
  BY ConcatProperties, Zenon
<1> HIDE DEF a, b
<1>3. /\ u \in Seq(CellType) /\ Len(u) = Len(a) + Len(o)
      /\ \A i \in 1 .. Len(a) + Len(o) : u[i] = IF i <= Len(a) THEN a[i] ELSE o[i - Len(a)]
  <2>1. a \in Seq(CellType)
    BY <1>1
  <2> QED  BY <2>1, ConcatProperties, Zenon
<1>4. /\ v \in Seq(CellType) /\ Len(v) = Len(r) + Len(b)
      /\ \A i \in 1 .. Len(r) + Len(b) : v[i] = IF i <= Len(r) THEN r[i] ELSE b[i - Len(r)]
  <2>1. b \in Seq(CellType)
    BY <1>2
  <2> QED  BY <2>1, ConcatProperties, Zenon
<1> HIDE DEF u, v
<1>5. Len(r) \in Nat /\ Len(w) \in Nat /\ Len(o) \in Nat
  BY LenProperties
<1>6. Len(u) = Len(v)
  BY <1>1, <1>2, <1>3, <1>4, <1>5
<1>7. ASSUME NEW i \in 1 .. Len(u)
      PROVE  u[i] = v[i]
  <2>1. i \in Nat /\ 1 <= i /\ i <= Len(r) + Len(w) + Len(o)
    BY <1>1, <1>3, <1>5
  <2>2. i \in 1 .. Len(a) + Len(o) /\ i \in 1 .. Len(r) + Len(b)
    BY <1>1, <1>2, <1>5, <2>1
  <2>3. CASE i <= Len(r)
    <3>1. i <= Len(a) /\ i \in 1 .. Len(r) + Len(w)
      BY <1>1, <1>5, <2>1, <2>3
    <3> QED  BY <1>1, <1>3, <1>4, <2>2, <2>3, <3>1
  <2>4. CASE ~(i <= Len(r)) /\ i <= Len(r) + Len(w)
    <3>1. i <= Len(a) /\ i \in 1 .. Len(r) + Len(w) /\ i - Len(r) \in 1 .. Len(w) + Len(o)
           /\ i - Len(r) <= Len(w)
      BY <1>1, <1>5, <2>1, <2>4
    <3>2. u[i] = w[i - Len(r)]
      BY <1>1, <1>3, <2>2, <2>4, <3>1
    <3>3. v[i] = w[i - Len(r)]
      BY <1>2, <1>4, <2>2, <2>4, <3>1
    <3> QED  BY <3>2, <3>3
  <2>5. CASE ~(i <= Len(r) + Len(w))
    <3>1. ~(i <= Len(a)) /\ ~(i <= Len(r)) /\ i - Len(r) \in 1 .. Len(w) + Len(o)
           /\ ~(i - Len(r) <= Len(w)) /\ (i - Len(r)) - Len(w) = i - Len(a)
      BY <1>1, <1>5, <2>1, <2>5
    <3>2. u[i] = o[i - Len(a)]
      BY <1>3, <2>2, <3>1
    <3>3. v[i] = o[(i - Len(r)) - Len(w)]
      BY <1>2, <1>4, <2>2, <3>1
    <3> QED  BY <3>1, <3>2, <3>3
  <2> QED  BY <2>3, <2>4, <2>5
<1>8. u = v
  BY <1>3, <1>4, <1>6, <1>7, SeqEqual
<1> QED  BY <1>8 DEF u, v, a, b

(* Moving a cell from the sender to the wire leaves the whole stream as it  *)
(* was.                                                                     *)
LEMMA MoveCellOver ==
  ASSUME NEW r \in Seq(CellType), NEW w \in Seq(CellType),
         NEW o \in Seq(CellType), o # <<>>
  PROVE  (r \o Append(w, Head(o))) \o Tail(o) = (r \o w) \o o
<1> DEFINE a == Append(w, Head(o))
           t == Tail(o)
<1>1. Head(o) \in CellType /\ t \in Seq(CellType)
  BY HeadTailProperties
<1>2. a \in Seq(CellType)
  BY <1>1, AppendProperties
<1>3. a \o t = w \o o
  BY MoveCell
<1> HIDE DEF a, t
<1>4. (r \o a) \o t = r \o (a \o t)
  BY <1>1, <1>2, AssocCells
<1>5. (r \o w) \o o = r \o (w \o o)
  BY AssocCells
<1> QED  BY <1>3, <1>4, <1>5 DEF a, t

(* A beginning of a stream is alike it.                                     *)
LEMMA AlikePrefix ==
  ASSUME NEW r \in Seq(CellType), NEW w \in Seq(CellType)
  PROVE  Alike(r, r \o w)
<1>1. Alike(r, r) /\ Alike(<<>>, w) /\ <<>> \in Seq(CellType)
  BY AlikeSelf, EmptySeq
<1>2. Alike(r \o <<>>, r \o w)
  BY <1>1, ConcatAlike
<1> QED  BY <1>2, ConcatEmptySeq

(* To be alike is transitive.                                               *)
LEMMA AlikeTrans ==
  ASSUME NEW s \in Seq(CellType), NEW t \in Seq(CellType), NEW u \in Seq(CellType),
         Alike(s, t), Alike(t, u)
  PROVE  Alike(s, u)
<1>1. Len(s) \in Nat /\ Len(t) \in Nat /\ Len(u) \in Nat
  BY LenProperties
<1>2. \A i \in 1 .. Len(s) : i \in 1 .. Len(t)
  BY <1>1 DEF Alike
<1>3. Len(s) <= Len(u)
  BY <1>1 DEF Alike
<1> QED  BY <1>2, <1>3 DEF Alike

(* The parts of the stream have their types.                                *)
LEMMA StreamType ==
  ASSUME NEW e \in End, NEW r \in Seq(CellType), Rest(chan[e]) = r,
         wire[e] \in Seq(CellType), chan[Peer(e)].out \in Seq(CellType)
  PROVE  Stream(e) \in Seq(CellType) /\ Alike(r, Stream(e))
<1> DEFINE w == wire[e]
           o == chan[Peer(e)].out
<1> HIDE DEF w, o
<1>1. w \in Seq(CellType) /\ o \in Seq(CellType)
  BY DEF w, o
<1>2. r \o w \in Seq(CellType) /\ (r \o w) \o o \in Seq(CellType)
  BY <1>1, ConcatProperties
<1>3. Stream(e) = IF e \notin open THEN r
                  ELSE IF Peer(e) \notin open THEN r \o w ELSE (r \o w) \o o
  BY DEF Stream, w, o
<1>4. Alike(r, r) /\ Alike(r, r \o w) /\ Alike(r \o w, (r \o w) \o o)
  BY <1>1, <1>2, AlikeSelf, AlikePrefix
<1>5. Alike(r, (r \o w) \o o)
  BY <1>1, <1>2, <1>4, AlikeTrans
<1> QED  BY <1>2, <1>3, <1>4, <1>5

(* A step that loses, damages or keeps cells keeps the stream right.        *)
LEMMA StreamShrinks ==
  ASSUME NEW e \in End, NEW p, p = Peer(e), StreamOK(e),
         NEW r \in Seq(CellType), r = Rest(chan[e]),
         NEW w \in Seq(CellType), w = wire[e],
         NEW o \in Seq(CellType), o = chan[p].out,
         NEW r2 \in Seq(CellType), r2 = Rest(chan'[e]),
         NEW w2 \in Seq(CellType), w2 = wire'[e],
         NEW log \in Seq(FrameType), log = sent[p], NEW g \in Seq(FrameType), g = got[e],
         sent'[p] = sent[p], got'[e] = got[e],
         Alike(r2, r),
         e \in open' => /\ e \in open /\ Alike(w2, w)
                        /\ w2 = <<>> \/ Len(r2) = Len(r),
         e \in open' /\ p \in open' => /\ p \in open /\ chan'[p].out = o
                                       /\ Len(r2) = Len(r) /\ Len(w2) = Len(w)
  PROVE  StreamOK(e)'
<1> DEFINE s == Stream(e)
           t == Stream(e)'
<1>1. s = IF e \notin open THEN r ELSE IF p \notin open THEN r \o w ELSE (r \o w) \o o
  BY DEF Stream
<1>2. t = IF e \notin open' THEN r2 ELSE IF p \notin open' THEN r2 \o w2
          ELSE (r2 \o w2) \o chan'[p].out
  BY DEF Stream
<1>3. r \o w \in Seq(CellType) /\ (r \o w) \o o \in Seq(CellType) /\ r2 \o w2 \in Seq(CellType)
       /\ (r2 \o w2) \o o \in Seq(CellType)
  BY ConcatProperties
<1> HIDE DEF s, t
<1>4. s \in Seq(CellType)
  BY <1>1, <1>3
<1>5. Alike(r, s) /\ (e \in open => Alike(r \o w, s))
  <2>1. Alike(r, r) /\ Alike(r, r \o w) /\ Alike(r \o w, r \o w) /\ Alike(r \o w, (r \o w) \o o)
    BY <1>3, AlikeSelf, AlikePrefix
  <2>2. Alike(r, (r \o w) \o o)
    BY <1>3, <2>1, AlikeTrans
  <2> QED  BY <1>1, <2>1, <2>2
<1>6. t \in Seq(CellType) /\ Alike(t, s)
       /\ (e \in open' /\ p \in open' => Len(t) = Len(s) /\ e \in open /\ p \in open)
  <2>1. CASE e \notin open'
    <3>1. t = r2
      BY <1>2, <2>1
    <3>2. Alike(r2, s)
      BY <1>4, <1>5, AlikeTrans
    <3> QED  BY <2>1, <3>1, <3>2
  <2>2. CASE e \in open' /\ p \notin open'
    <3>1. t = r2 \o w2
      BY <1>2, <2>2
    <3>2. Alike(r2 \o w2, r \o w)
      BY <2>2, ConcatAlike
    <3>3. Alike(r2 \o w2, s)
      BY <1>3, <1>4, <1>5, <2>2, <3>2, AlikeTrans
    <3> QED  BY <1>3, <2>2, <3>1, <3>3
  <2>3. CASE e \in open' /\ p \in open'
    <3>1. t = (r2 \o w2) \o o /\ s = (r \o w) \o o
      BY <1>1, <1>2, <2>3
    <3>2. Alike(r2 \o w2, r \o w) /\ Len(r2 \o w2) = Len(r \o w) /\ Alike(o, o)
      <4>1. Alike(w2, w) /\ Len(r2) = Len(r) /\ Len(w2) = Len(w)
        BY <2>3
      <4>2. Alike(r2 \o w2, r \o w)
        BY <4>1, ConcatAlike
      <4>3. Len(r2 \o w2) = Len(r \o w)
        <5>1. Len(r2 \o w2) = Len(r2) + Len(w2) /\ Len(r \o w) = Len(r) + Len(w)
          BY ConcatCells, Zenon
        <5> QED  BY <4>1, <5>1
      <4> QED  BY <4>2, <4>3, AlikeSelf
    <3> DEFINE u == r \o w
               u2 == r2 \o w2
    <3> HIDE DEF u, u2
    <3>4. u \in Seq(CellType) /\ u2 \in Seq(CellType) /\ Alike(u2, u) /\ Len(u2) = Len(u)
      BY <1>3, <3>2 DEF u, u2
    <3>5. Alike(u2 \o o, u \o o)
      BY <3>2, <3>4, ConcatAlike
    <3>6. Len(u2 \o o) = Len(u \o o)
      <4>1. Len(u2 \o o) = Len(u2) + Len(o) /\ Len(u \o o) = Len(u) + Len(o)
        BY <3>4, ConcatCells, Zenon
      <4> QED  BY <3>4, <4>1
    <3>3. Alike((r2 \o w2) \o o, (r \o w) \o o)
           /\ Len((r2 \o w2) \o o) = Len((r \o w) \o o)
      BY <3>5, <3>6 DEF u, u2
    <3> QED  BY <1>3, <2>3, <3>1, <3>3
  <2> QED  BY <2>1, <2>2, <2>3
<1>7. Aligned(s, log, Len(g)) /\ ({e, p} \subseteq open => Complete(s, log, Len(g)))
       /\ Received(e)
  BY DEF StreamOK, s
<1>8. Len(g) \in Nat
  BY LenProperties
<1>9. Aligned(t, log, Len(g)) /\ (Len(t) = Len(s) /\ Complete(s, log, Len(g)) => Complete(t, log, Len(g)))
  BY <1>4, <1>6, <1>7, <1>8, AlignedLess DEF Alike
<1>10. {e, p} \subseteq open' => Complete(t, log, Len(g))
  BY <1>6, <1>7, <1>9
<1>11. Received(e)'
  BY <1>7 DEF Received
<1> QED  BY <1>9, <1>10, <1>11 DEF StreamOK, t

(* A step that moves cells along the stream keeps the stream right.         *)
LEMMA StreamKeeps ==
  ASSUME NEW e \in End, NEW p, p = Peer(e), StreamOK(e), Stream(e)' = Stream(e), open' = open,
         sent'[p] = sent[p], got'[e] = got[e]
  PROVE  StreamOK(e)'
<1>1. Received(e)'
  BY DEF StreamOK, Received
<1> DEFINE s == Stream(e)
           t == Stream(e)'
<1>2. t = s
  OBVIOUS
<1>3. Aligned(s, sent[p], Len(got[e])) /\ ({e, p} \subseteq open => Complete(s, sent[p], Len(got[e])))
  BY DEF StreamOK
<1> HIDE DEF s, t
<1>4. Aligned(t, sent'[p], Len(got'[e]))
       /\ ({e, p} \subseteq open' => Complete(t, sent'[p], Len(got'[e])))
  BY <1>2, <1>3
<1> QED  BY <1>1, <1>4 DEF StreamOK, t

(* A cell received.                                                         *)
LEMMA StreamReceives ==
  ASSUME NEW e \in End, NEW p, p = Peer(e), StreamOK(e), open' = open, e \in open,
         NEW r \in Seq(CellType), r = Rest(chan[e]),
         NEW w \in Seq(CellType), w = wire[e], w # <<>>,
         Rest(chan'[e]) = Append(r, Head(w)), wire'[e] = Tail(w),
         chan'[p].out = chan[p].out, sent'[p] = sent[p], got'[e] = got[e]
  PROVE  StreamOK(e)'
<1>1. Append(r, Head(w)) \o Tail(w) = r \o w
  BY MoveCell
<1>2. Stream(e) = IF p \notin open THEN r \o w ELSE (r \o w) \o chan[p].out
  BY DEF Stream
<1>3. Stream(e)' = IF p \notin open THEN Append(r, Head(w)) \o Tail(w)
                   ELSE (Append(r, Head(w)) \o Tail(w)) \o chan[p].out
  BY DEF Stream
<1> DEFINE s == Stream(e)
           t == Stream(e)'
           x == r \o w
           y == Append(r, Head(w)) \o Tail(w)
           o == chan[p].out
<1> HIDE DEF s, t, x, y, o
<1>4. y = x /\ s = (IF p \notin open THEN x ELSE x \o o)
       /\ t = (IF p \notin open THEN y ELSE y \o o)
  BY <1>1, <1>2, <1>3 DEF s, t, x, y, o
<1>5. t = s
  BY <1>4, Zenon
<1>6. Stream(e)' = Stream(e)
  BY <1>5 DEF s, t
<1> QED  BY <1>6, StreamKeeps

(* A cell sent.                                                             *)
LEMMA StreamMoves ==
  ASSUME NEW e \in End, NEW p, p = Peer(e), StreamOK(e), open' = open,
         NEW r \in Seq(CellType), r = Rest(chan[e]),
         NEW w \in Seq(CellType), w = wire[e],
         NEW o \in Seq(CellType), o = chan[p].out, o # <<>>, p \in open,
         Rest(chan'[e]) = r, wire'[e] = Append(w, Head(o)), chan'[p].out = Tail(o),
         sent'[p] = sent[p], got'[e] = got[e]
  PROVE  StreamOK(e)'
<1>4. (r \o Append(w, Head(o))) \o Tail(o) = (r \o w) \o o
  BY MoveCellOver
<1>5. Stream(e) = IF e \notin open THEN r ELSE (r \o w) \o o
  BY DEF Stream
<1>6. Stream(e)' = IF e \notin open THEN r ELSE (r \o Append(w, Head(o))) \o Tail(o)
  BY DEF Stream
<1> DEFINE s == Stream(e)
           t == Stream(e)'
           x == (r \o w) \o o
           y == (r \o Append(w, Head(o))) \o Tail(o)
<1> HIDE DEF s, t, x, y
<1>7. y = x /\ s = (IF e \notin open THEN r ELSE x) /\ t = (IF e \notin open THEN r ELSE y)
  BY <1>4, <1>5, <1>6 DEF s, t, x, y
<1>8. t = s
  BY <1>7, Zenon
<1>9. Stream(e)' = Stream(e)
  BY <1>8 DEF s, t
<1> QED  BY <1>9, StreamKeeps

(* A frame is put into the stream when its sender sends it.                 *)
LEMMA StreamSends ==
  ASSUME NEW e \in End, NEW p, p = Peer(e), StreamOK(e), open' = open,
         NEW r \in Seq(CellType), r = Rest(chan[e]), Rest(chan'[e]) = r,
         NEW w \in Seq(CellType), w = wire[e], wire'[e] = w,
         NEW f \in FrameType, chan[p].out = <<>>, chan'[p].out = Cells(f),
         NEW log \in Seq(FrameType), log = sent[p], sent'[p] = Append(log, f),
         NEW g \in Seq(FrameType), g = got[e], got'[e] = g
  PROVE  StreamOK(e)'
<1>1. /\ Len(log) \in Nat /\ Len(g) \in Nat /\ Len(g) <= Len(log)
      /\ Len(Append(log, f)) = Len(log) + 1
      /\ \A i \in 1 .. Len(log) : Append(log, f)[i] = log[i]
      /\ \A i \in 1 .. Len(g) : g[i] = log[i]
  BY LenProperties, AppendProperties DEF StreamOK, Received
<1>2. Received(e)'
  <2>1. Len(g) <= Len(Append(log, f)) /\ \A i \in 1 .. Len(g) : g[i] = Append(log, f)[i]
    BY <1>1
  <2> QED  BY <2>1 DEF Received
<1> DEFINE s == Stream(e)
           t == Stream(e)'
           rw == r \o w
<1>3. rw \in Seq(CellType) /\ rw \o <<>> = rw
  BY ConcatCells, ConcatEmptySeq
<1>4. s = IF e \notin open THEN r ELSE rw
  BY <1>3 DEF Stream
<1>5. t = IF e \notin open THEN r ELSE IF p \notin open THEN rw ELSE rw \o Cells(f)
  BY DEF Stream
<1>6. Aligned(s, log, Len(g)) /\ ({e, p} \subseteq open => Complete(s, log, Len(g)))
  BY DEF StreamOK
<1> HIDE DEF s, t, rw
<1>7. s \in Seq(CellType)
  BY <1>3, <1>4
<1>8. Aligned(t, Append(log, f), Len(g))
       /\ ({e, p} \subseteq open => Complete(t, Append(log, f), Len(g)))
  <2>1. CASE {e, p} \subseteq open
    <3>1. t = s \o Cells(f)
      BY <1>4, <1>5, <2>1
    <3>2. Aligned(s \o Cells(f), Append(log, f), Len(g))
           /\ Complete(s \o Cells(f), Append(log, f), Len(g))
      BY <1>1, <1>6, <1>7, <2>1, AlignedSend
    <3> QED  BY <3>1, <3>2
  <2>2. CASE ~({e, p} \subseteq open)
    <3>1. t = s
      BY <1>4, <1>5, <2>2
    <3>2. Aligned(s, Append(log, f), Len(g))
      BY <1>1, <1>6, <1>7, AlignedLog
    <3> QED  BY <2>2, <3>1, <3>2
  <2> QED  BY <2>1, <2>2
<1> QED  BY <1>2, <1>8 DEF StreamOK, t

(* v is u without its first k cells, which are those of r.                  *)
(* No frame twice.                                                          *)
Once(log) == \A i, j \in 1 .. Len(log) : log[i] = log[j] => i = j

(* The frame f leaves the front of r.                                       *)
Consumed(r, r2, f) ==
  Len(r) = Len(r2) + Size(f) /\ \A i \in 1 .. Len(r2) : r2[i] = r[Size(f) + i]

Dropped(u, v, r, k) ==
  /\ Len(u) = Len(v) + k
  /\ \A i \in 1 .. k : u[i] = r[i]
  /\ \A i \in 1 .. Len(v) : v[i] = u[k + i]

(* Dropping a frame at the front does not depend on what stands behind it.  *)
LEMMA DroppedConcat ==
  ASSUME NEW u \in Seq(CellType), NEW v \in Seq(CellType), NEW x \in Seq(CellType),
         NEW r, NEW k \in Nat, Dropped(u, v, r, k)
  PROVE  Dropped(u \o x, v \o x, r, k)
<1> DEFINE a == u \o x
           b == v \o x
<1>2. /\ Len(a) = Len(u) + Len(x)
      /\ \A i \in 1 .. Len(u) + Len(x) : a[i] = IF i <= Len(u) THEN u[i] ELSE x[i - Len(u)]
  BY ConcatProperties, Zenon
<1>3. /\ Len(b) = Len(v) + Len(x)
      /\ \A i \in 1 .. Len(v) + Len(x) : b[i] = IF i <= Len(v) THEN v[i] ELSE x[i - Len(v)]
  BY ConcatProperties, Zenon
<1> HIDE DEF a, b
<1>4. Len(u) \in Nat /\ Len(v) \in Nat /\ Len(x) \in Nat /\ Len(u) = Len(v) + k
  BY LenProperties DEF Dropped
<1>5. Len(a) = Len(b) + k
  BY <1>2, <1>3, <1>4
<1>6. ASSUME NEW i \in 1 .. k
      PROVE  a[i] = r[i]
  <2>1. i \in 1 .. Len(u) + Len(x) /\ i <= Len(u)
    BY <1>4
  <2>2. u[i] = r[i]
    BY DEF Dropped
  <2> QED  BY <1>2, <2>1, <2>2
<1>7. ASSUME NEW i \in 1 .. Len(b)
      PROVE  b[i] = a[k + i]
  <2>1. i \in Nat /\ 1 <= i /\ i <= Len(v) + Len(x)
    BY <1>3, <1>4
  <2>2. k + i \in 1 .. Len(u) + Len(x) /\ i \in 1 .. Len(v) + Len(x)
    BY <1>4, <2>1
  <2>3. CASE i <= Len(v)
    <3>1. k + i <= Len(u) /\ i \in 1 .. Len(v)
      BY <1>4, <2>1, <2>3
    <3>2. v[i] = u[k + i]
      BY <3>1 DEF Dropped
    <3>3. b[i] = v[i] /\ a[k + i] = u[k + i]
      BY <1>2, <1>3, <2>2, <2>3, <3>1
    <3> QED  BY <3>2, <3>3
  <2>4. CASE ~(i <= Len(v))
    <3>1. ~(k + i <= Len(u)) /\ (k + i) - Len(u) = i - Len(v)
      BY <1>4, <2>1, <2>4
    <3>2. b[i] = x[i - Len(v)] /\ a[k + i] = x[(k + i) - Len(u)]
      BY <1>2, <1>3, <2>2, <2>4, <3>1
    <3> QED  BY <3>1, <3>2
  <2> QED  BY <2>3, <2>4
<1> QED  BY <1>5, <1>6, <1>7 DEF Dropped, a, b

(* A frame received is the next one the peer sent, and the stream goes on   *)
(* after it.                                                                *)
LEMMA StreamDelivers ==
  ASSUME NEW e \in End, NEW f \in FrameType, StreamOK(e), open' = open,
         Rest(chan[e]) \in Seq(CellType), Rest(chan[e]) # <<>>,
         Rest(chan'[e]) \in Seq(CellType),
         wire[e] \in Seq(CellType), wire'[e] = wire[e],
         chan[Peer(e)].out \in Seq(CellType), chan'[Peer(e)].out = chan[Peer(e)].out,
         sent[Peer(e)] \in Seq(FrameType), sent'[Peer(e)] = sent[Peer(e)],
         got[e] \in Seq(FrameType), got'[e] = Append(got[e], f),
         f = Rest(chan[e])[1].of, Once(sent[Peer(e)]),
         Consumed(Rest(chan[e]), Rest(chan'[e]), f)
  PROVE  /\ StreamOK(e)' /\ Len(got[e]) + 1 \in 1 .. Len(sent[Peer(e)])
         /\ f = sent[Peer(e)][Len(got[e]) + 1]
         /\ Rest(chan[e])[Size(f)].of = f /\ Rest(chan[e])[Size(f)].at = Size(f)
         /\ Size(f) \in 1 .. Len(Rest(chan[e]))
<1> DEFINE p == Peer(e)
           r == Rest(chan[e])
           r2 == Rest(chan'[e])
           w == wire[e]
           o == chan[p].out
           log == sent[p]
           g == got[e]
           s == Stream(e)
           t == Stream(e)'
           k == Size(f)
<1>0. /\ p = Peer(e) /\ r \in Seq(CellType) /\ r = Rest(chan[e]) /\ r # <<>>
      /\ r2 \in Seq(CellType) /\ r2 = Rest(chan'[e])
      /\ w \in Seq(CellType) /\ w = wire[e] /\ wire'[e] = w
      /\ o \in Seq(CellType) /\ o = chan[p].out /\ chan'[p].out = o
      /\ log \in Seq(FrameType) /\ log = sent[p] /\ sent'[p] = log
      /\ g \in Seq(FrameType) /\ g = got[e] /\ got'[e] = Append(g, f)
      /\ f = r[1].of /\ Once(log) /\ Consumed(r, r2, f)
  OBVIOUS
<1> HIDE DEF p, r, r2, w, o, log, g
<1>1. s = IF e \notin open THEN r ELSE IF p \notin open THEN r \o w ELSE (r \o w) \o o
  BY <1>0 DEF Stream
<1>2. t = IF e \notin open THEN r2 ELSE IF p \notin open THEN r2 \o w ELSE (r2 \o w) \o o
  BY <1>0 DEF Stream
<1>3. Aligned(s, log, Len(g)) /\ ({e, p} \subseteq open => Complete(s, log, Len(g)))
       /\ Received(e)
  BY <1>0 DEF StreamOK
<1> HIDE DEF s, t
<1>4. Len(r) \in Nat /\ Len(r) >= 1 /\ Len(r2) \in Nat /\ r[1] \in CellType /\ 1 \in 1 .. Len(r)
  BY <1>0, EmptySeq, LenProperties, ElementOfSeq
<1>5. f \in FrameType /\ k \in Nat /\ k >= 1
  <2>1. f \in FrameType
    BY <1>0, <1>4 DEF CellType
  <2> QED  BY <1>0, <2>1, CellsFacts
<1> HIDE DEF k
<1>6. Len(r) = Len(r2) + k /\ \A i \in 1 .. Len(r2) : r2[i] = r[k + i]
  BY <1>0 DEF k, Consumed
<1>7. \A i, j \in 1 .. Len(log) : log[i] = log[j] => i = j
  BY <1>0 DEF Once
<1>8. Dropped(r, r2, r, k)
  BY <1>0, <1>6 DEF Dropped
<1>9. Dropped(r \o w, r2 \o w, r, k) /\ Dropped((r \o w) \o o, (r2 \o w) \o o, r, k)
       /\ r \o w \in Seq(CellType) /\ r2 \o w \in Seq(CellType)
       /\ (r \o w) \o o \in Seq(CellType) /\ (r2 \o w) \o o \in Seq(CellType)
  <2> DEFINE u == r \o w
             v == r2 \o w
  <2>1. Dropped(u, v, r, k)
    BY <1>0, <1>5, <1>8, DroppedConcat
  <2>2. u \in Seq(CellType) /\ v \in Seq(CellType)
    BY <1>0, ConcatCells
  <2> HIDE DEF u, v
  <2>3. Dropped(u \o o, v \o o, r, k)
    BY <1>0, <1>5, <2>1, <2>2, DroppedConcat
  <2>4. u \o o \in Seq(CellType) /\ v \o o \in Seq(CellType)
    BY <1>0, <2>2, ConcatCells
  <2> QED  BY <1>0, <2>1, <2>2, <2>3, <2>4 DEF u, v
<1>10. Dropped(s, t, r, k) /\ s \in Seq(CellType) /\ t \in Seq(CellType)
  BY <1>0, <1>1, <1>2, <1>8, <1>9
<1>11. s # <<>> /\ s[1] = r[1] /\ Len(s) = Len(t) + k /\ Len(g) \in Nat
  <2>1. 1 \in 1 .. k
    BY <1>0, <1>5
  <2>2. Len(s) \in Nat /\ Len(t) \in Nat
    BY <1>0, <1>10, LenProperties
  <2>3. Len(s) = Len(t) + k /\ Len(s) >= 1
    BY <1>0, <1>5, <1>10, <2>2 DEF Dropped
  <2>4. s # <<>>
    BY <1>0, <2>3, EmptySeq
  <2> QED  BY <1>0, <1>10, <2>1, <2>3, <2>4, LenProperties DEF Dropped
<1>12. k = Size(s[1].of)
  BY <1>0, <1>11 DEF k
<1>13. Aligned(t, log, Len(g) + 1) /\ (Complete(s, log, Len(g)) => Complete(t, log, Len(g) + 1))
  <2>1. \A i \in 1 .. Len(t) : t[i] = s[k + i]
    BY <1>0, <1>10 DEF Dropped
  <2>2. /\ Aligned(s, log, Len(g)) /\ s # <<>> /\ k = Size(s[1].of) /\ Len(s) = Len(t) + k
        /\ s \in Seq(CellType) /\ t \in Seq(CellType) /\ Len(g) \in Nat
    BY <1>0, <1>3, <1>10, <1>11, <1>12
  <2> QED  BY <1>0, <1>7, <2>1, <2>2, AlignedDrop
<1>14. f = log[Len(g) + 1] /\ Len(g) < Len(log) /\ Len(log) \in Nat
  BY <1>0, <1>3, <1>11, LenProperties DEF Aligned
<1>15. Len(g) + 1 \in 1 .. Len(log)
  BY <1>0, <1>11, <1>14
<1>16. /\ Append(g, f) \in Seq(FrameType) /\ Len(Append(g, f)) = Len(g) + 1
       /\ \A i \in 1 .. Len(g) : Append(g, f)[i] = g[i]
       /\ Append(g, f)[Len(g) + 1] = f
  BY <1>0, <1>5, AppendProperties
<1>17. Received(e)'
  <2>1. \A i \in 1 .. Len(g) : g[i] = log[i]
    BY <1>0, <1>3 DEF Received
  <2>2. \A i \in 1 .. Len(Append(g, f)) : i \in 1 .. Len(g) \/ i = Len(g) + 1
    BY <1>0, <1>11, <1>16
  <2>3. \A i \in 1 .. Len(Append(g, f)) : Append(g, f)[i] = log[i]
    BY <1>0, <1>14, <1>16, <2>1, <2>2
  <2>4. Len(Append(g, f)) <= Len(log)
    BY <1>0, <1>15, <1>16
  <2> QED  BY <1>0, <2>3, <2>4 DEF Received
<1>18. Aligned(t, sent'[p], Len(got'[e]))
       /\ ({e, p} \subseteq open' => Complete(t, sent'[p], Len(got'[e])))
  BY <1>0, <1>3, <1>13, <1>16
<1>19. StreamOK(e)'
  BY <1>0, <1>17, <1>18 DEF StreamOK, t
<1>20. k \in 1 .. Len(r) /\ r[k].of = f /\ r[k].at = k
  <2>1. k \in 1 .. k /\ k \in 1 .. Len(r) /\ k \in 1 .. Len(s)
    BY <1>0, <1>4, <1>5, <1>6, <1>10, LenProperties DEF Dropped
  <2>2. s[k].of = s[1].of /\ s[k].at = k
    <3>1. \A i \in 1 .. Len(s) : i <= Size(s[1].of) => s[i].of = s[1].of /\ s[i].at = i
      BY <1>0, <1>3, <1>10, <1>11, FirstFrame
    <3>2. k <= Size(s[1].of)
      BY <1>0, <1>5, <1>12
    <3> QED  BY <1>0, <2>1, <3>1, <3>2
  <2>3. s[k] = r[k]
    BY <1>0, <1>10, <2>1 DEF Dropped
  <2> QED  BY <1>0, <1>11, <2>1, <2>2, <2>3
<1> QED  BY <1>0, <1>14, <1>15, <1>19, <1>20 DEF k, p, r, log, g

-----------------------------------------------------------------------------
(* How steps change what an end has yet to send.                            *)

(* A frame has at least one cell.                                           *)
LEMMA SizeType ==
  ASSUME NEW f \in FrameType
  PROVE  Size(f) \in Nat /\ Size(f) >= 1
BY CellsFacts

(* A peer that receives no frame and loses cells leaves the unsent cells    *)
(* the end of the last frame.                                               *)
LEMMA UnsentShrinks ==
  ASSUME NEW e \in End, NEW p, p = Peer(e), UnsentOK(e),
         NEW r \in Seq(CellType), r = Rest(chan[p]),
         NEW r2 \in Seq(CellType), r2 = Rest(chan'[p]), Alike(r2, r),
         NEW w \in Seq(CellType), w = wire[p],
         NEW w2 \in Seq(CellType), w2 = wire'[p],
         p \in open' => p \in open /\ Alike(w2, w),
         chan'[e].out \in {<<>>, chan[e].out}, sent'[e] = sent[e], got'[p] = got[p]
  PROVE  UnsentOK(e)'
<1> DEFINE o == chan[e].out
           last == sent[e][Len(sent[e])]
<1>1. SUFFICES ASSUME chan'[e].out = o, o # <<>>
               PROVE  UnsentOK(e)'
  BY DEF UnsentOK
<1>2. /\ Len(got[p]) < Len(sent[e])
      /\ \A i \in 1 .. Len(o) : o[i].of = last /\ o[i].at = Size(last) - Len(o) + i
      /\ \A i \in 1 .. Len(r) : Before(r[i], last, Len(o))
      /\ p \in open => \A i \in 1 .. Len(w) : Before(w[i], last, Len(o))
  BY <1>1 DEF UnsentOK
<1> HIDE DEF o, last
<1>3. Len(r) \in Nat /\ Len(r2) \in Nat /\ Len(w) \in Nat /\ Len(w2) \in Nat
  BY LenProperties
<1>4. ASSUME NEW i \in 1 .. Len(r2)
      PROVE  Before(r2[i], last, Len(o))
  <2>1. i \in 1 .. Len(r) /\ r2[i].of = r[i].of /\ r2[i].at = r[i].at
    BY <1>3 DEF Alike
  <2> QED  BY <1>2, <2>1 DEF Before
<1>5. ASSUME p \in open', NEW i \in 1 .. Len(w2)
      PROVE  Before(w2[i], last, Len(o))
  <2>1. i \in 1 .. Len(w) /\ w2[i].of = w[i].of /\ w2[i].at = w[i].at
    BY <1>3, <1>5 DEF Alike
  <2> QED  BY <1>2, <1>5, <2>1 DEF Before
<1>6. /\ Len(got'[p]) < Len(sent'[e])
      /\ \A i \in 1 .. Len(o) : o[i].of = last /\ o[i].at = Size(last) - Len(o) + i
      /\ \A i \in 1 .. Len(r2) : Before(r2[i], last, Len(o))
      /\ p \in open' => \A i \in 1 .. Len(w2) : Before(w2[i], last, Len(o))
  BY <1>2, <1>4, <1>5
<1>7. chan'[e].out = o /\ last = sent'[e][Len(sent'[e])]
  BY <1>1 DEF last
<1> QED  BY <1>6, <1>7 DEF UnsentOK

(* The receiver takes a cell.                                               *)
LEMMA UnsentReceives ==
  ASSUME NEW e \in End, NEW p, p = Peer(e), UnsentOK(e), open' = open, p \in open,
         NEW r \in Seq(CellType), r = Rest(chan[p]),
         NEW w \in Seq(CellType), w = wire[p], w # <<>>,
         Rest(chan'[p]) = Append(r, Head(w)), wire'[p] = Tail(w),
         chan'[e].out = chan[e].out, sent'[e] = sent[e], got'[p] = got[p]
  PROVE  UnsentOK(e)'
<1> DEFINE o == chan[e].out
           last == sent[e][Len(sent[e])]
           r2 == Append(r, Head(w))
           w2 == Tail(w)
<1>1. SUFFICES ASSUME o # <<>>
               PROVE  UnsentOK(e)'
  BY DEF UnsentOK
<1>2. /\ Len(got[p]) < Len(sent[e])
      /\ \A i \in 1 .. Len(o) : o[i].of = last /\ o[i].at = Size(last) - Len(o) + i
      /\ \A i \in 1 .. Len(r) : Before(r[i], last, Len(o))
      /\ \A i \in 1 .. Len(w) : Before(w[i], last, Len(o))
  BY <1>1 DEF UnsentOK
<1>3. /\ Head(w) = w[1] /\ w[1] \in CellType /\ w2 \in Seq(CellType) /\ Len(w2) = Len(w) - 1
      /\ \A i \in 1 .. Len(w2) : w2[i] = w[i + 1]
      /\ Len(w) \in Nat /\ Len(w) >= 1 /\ Len(r) \in Nat
  BY HeadTailProperties, LenProperties, EmptySeq
<1>4. /\ Len(r2) = Len(r) + 1 /\ r2[Len(r) + 1] = w[1]
      /\ \A i \in 1 .. Len(r) : r2[i] = r[i]
  BY <1>3, AppendProperties
<1> HIDE DEF o, last, r2, w2
<1>5. ASSUME NEW i \in 1 .. Len(r2)
      PROVE  Before(r2[i], last, Len(o))
  <2>1. i \in 1 .. Len(r) \/ i = Len(r) + 1
    BY <1>3, <1>4
  <2>2. 1 \in 1 .. Len(w)
    BY <1>3
  <2> QED  BY <1>2, <1>4, <2>1, <2>2
<1>6. ASSUME NEW i \in 1 .. Len(w2)
      PROVE  Before(w2[i], last, Len(o))
  <2>1. i + 1 \in 1 .. Len(w)
    BY <1>3
  <2> QED  BY <1>2, <1>3, <2>1
<1>7. /\ chan'[e].out = o /\ last = sent'[e][Len(sent'[e])]
      /\ Rest(chan'[p]) = r2 /\ wire'[p] = w2
  BY DEF o, last, r2, w2
<1> QED  BY <1>2, <1>5, <1>6, <1>7 DEF UnsentOK

(* The sender sends a cell.                                                 *)
LEMMA UnsentMoves ==
  ASSUME NEW e \in End, NEW p, p = Peer(e), UnsentOK(e), open' = open,
         NEW r \in Seq(CellType), r = Rest(chan[p]), Rest(chan'[p]) = r,
         NEW w \in Seq(CellType), w = wire[p],
         NEW o \in Seq(CellType), o = chan[e].out, o # <<>>,
         chan'[e].out = Tail(o), wire'[p] = Append(w, Head(o)),
         sent'[e] = sent[e], sent[e] \in Seq(FrameType), got'[p] = got[p],
         got[p] \in Seq(FrameType)
  PROVE  UnsentOK(e)'
<1> DEFINE last == sent[e][Len(sent[e])]
           o2 == Tail(o)
           w2 == Append(w, Head(o))
           n == Len(o)
<1>1. /\ Len(got[p]) < Len(sent[e])
      /\ \A i \in 1 .. n : o[i].of = last /\ o[i].at = Size(last) - n + i
      /\ \A i \in 1 .. Len(r) : Before(r[i], last, n)
      /\ p \in open => \A i \in 1 .. Len(w) : Before(w[i], last, n)
  BY DEF UnsentOK
<1>2. /\ Head(o) = o[1] /\ o[1] \in CellType /\ o2 \in Seq(CellType) /\ Len(o2) = n - 1
      /\ \A i \in 1 .. Len(o2) : o2[i] = o[i + 1]
      /\ n \in Nat /\ n >= 1 /\ Len(r) \in Nat /\ Len(w) \in Nat
  BY HeadTailProperties, LenProperties, EmptySeq
<1>3. /\ Len(w2) = Len(w) + 1 /\ w2[Len(w) + 1] = o[1]
      /\ \A i \in 1 .. Len(w) : w2[i] = w[i]
  BY <1>2, AppendProperties
<1>4. last \in FrameType /\ Size(last) \in Nat
  <2>1. Len(sent[e]) \in 1 .. Len(sent[e])
    BY <1>1, LenProperties
  <2>2. last \in FrameType
    BY <2>1, ElementOfSeq
  <2> QED  BY <2>2, SizeType
<1>5. \A i \in 1 .. Len(r) : r[i] \in CellType
  BY ElementOfSeq
<1>6. \A i \in 1 .. Len(w) : w[i] \in CellType
  BY ElementOfSeq
<1>7. \A x \in CellType : Before(x, last, n) => Before(x, last, n - 1)
  BY <1>2, <1>4 DEF Before, CellType
<1>8. Before(o[1], last, n - 1)
  <2>1. 1 \in 1 .. n
    BY <1>2
  <2>2. o[1].of = last /\ o[1].at = Size(last) - n + 1
    BY <1>1, <2>1
  <2> QED  BY <1>2, <1>4, <2>2 DEF Before
<1> HIDE DEF last, o2, w2, n
<1>9. ASSUME NEW i \in 1 .. Len(o2)
      PROVE  o2[i].of = last /\ o2[i].at = Size(last) - (n - 1) + i
  <2>1. i \in Nat /\ i + 1 \in 1 .. n
    BY <1>2
  <2>2. o2[i].of = last /\ o2[i].at = Size(last) - n + (i + 1)
    BY <1>1, <1>2, <2>1
  <2> QED  BY <1>2, <1>4, <2>1, <2>2
<1>10. \A i \in 1 .. Len(r) : Before(r[i], last, n - 1)
  BY <1>1, <1>5, <1>7
<1>11. ASSUME p \in open, NEW i \in 1 .. Len(w2)
       PROVE  Before(w2[i], last, n - 1)
  <2>1. i \in 1 .. Len(w) \/ i = Len(w) + 1
    BY <1>2, <1>3
  <2> QED  BY <1>1, <1>3, <1>6, <1>7, <1>8, <1>11, <2>1
<1>12. /\ chan'[e].out = o2 /\ last = sent'[e][Len(sent'[e])] /\ Len(o2) = n - 1
       /\ wire'[p] = w2
  BY <1>2 DEF last, o2, w2
<1> QED  BY <1>1, <1>9, <1>10, <1>11, <1>12 DEF UnsentOK

(* The length of a stream.                                                  *)
LEMMA CellsLength ==
  ASSUME NEW s \in Seq(CellType)
  PROVE  Len(s) \in Nat /\ (s # <<>> => Len(s) >= 1) /\ (s = <<>> => Len(s) = 0)
BY LenProperties, EmptySeq

(* The cells that can still reach an end are of frames its peer sent.       *)
LEMMA CellsLogged ==
  ASSUME NEW e \in End, StreamOK(e), Rest(chan[e]) \in Seq(CellType),
         wire[e] \in Seq(CellType), chan[Peer(e)].out \in Seq(CellType)
  PROVE  /\ \A i \in 1 .. Len(Rest(chan[e])) :
              \E m \in 1 .. Len(sent[Peer(e)]) : Rest(chan[e])[i].of = sent[Peer(e)][m]
         /\ e \in open =>
              \A i \in 1 .. Len(wire[e]) :
                \E m \in 1 .. Len(sent[Peer(e)]) : wire[e][i].of = sent[Peer(e)][m]
<1> DEFINE p == Peer(e)
           r == Rest(chan[e])
           w == wire[e]
           o == chan[p].out
           s == Stream(e)
<1>0. /\ p = Peer(e) /\ r = Rest(chan[e]) /\ w = wire[e] /\ o = chan[p].out
      /\ r \in Seq(CellType) /\ w \in Seq(CellType) /\ o \in Seq(CellType)
  OBVIOUS
<1> HIDE DEF p, r, w, o
<1>1. s = IF e \notin open THEN r ELSE IF p \notin open THEN r \o w ELSE (r \o w) \o o
  BY <1>0 DEF Stream
<1>2. \A i \in 1 .. Len(s) : \E m \in 1 .. Len(sent[p]) : s[i].of = sent[p][m]
  BY <1>0 DEF StreamOK, Aligned
<1> DEFINE rw == r \o w
<1>3. /\ rw \in Seq(CellType) /\ Len(rw) = Len(r) + Len(w)
      /\ \A i \in 1 .. Len(r) + Len(w) : rw[i] = IF i <= Len(r) THEN r[i] ELSE w[i - Len(r)]
  BY <1>0, ConcatProperties, Zenon
<1>4. Alike(rw, rw) /\ Alike(r, rw) /\ Alike(rw, rw \o o) /\ Alike(r, r) /\ rw \o o \in Seq(CellType)
  <2>1. rw \in Seq(CellType)
    BY <1>3
  <2>2. Alike(r, rw)
    BY <1>0, AlikePrefix
  <2> HIDE DEF rw
  <2> QED  BY <1>0, <2>1, <2>2, AlikeSelf, AlikePrefix, ConcatCells
<1> HIDE DEF s, rw
<1>5. Alike(r, rw \o o)
  BY <1>0, <1>3, <1>4, AlikeTrans
<1>6. Alike(r, s) /\ (e \in open => Alike(rw, s))
  <2>1. s = IF e \notin open THEN r ELSE IF p \notin open THEN rw ELSE rw \o o
    BY <1>1 DEF rw
  <2> QED  BY <1>4, <1>5, <2>1
<1>7. s \in Seq(CellType)
  <2>1. s = IF e \notin open THEN r ELSE IF p \notin open THEN rw ELSE rw \o o
    BY <1>1 DEF rw
  <2> QED  BY <1>0, <1>3, <1>4, <2>1
<1>8. Len(r) \in Nat /\ Len(w) \in Nat /\ Len(s) \in Nat
  BY <1>0, <1>7, LenProperties
<1>9. ASSUME NEW i \in 1 .. Len(r)
      PROVE  \E m \in 1 .. Len(sent[p]) : r[i].of = sent[p][m]
  <2>1. i \in 1 .. Len(s) /\ r[i].of = s[i].of
    BY <1>6, <1>8 DEF Alike
  <2> QED  BY <1>2, <2>1
<1>10. ASSUME e \in open, NEW i \in 1 .. Len(w)
       PROVE  \E m \in 1 .. Len(sent[p]) : w[i].of = sent[p][m]
  <2>1. Len(r) + i \in 1 .. Len(rw) /\ ~(Len(r) + i <= Len(r)) /\ (Len(r) + i) - Len(r) = i
    BY <1>3, <1>8
  <2>2. rw[Len(r) + i] = w[i]
    BY <1>3, <2>1
  <2>3. Alike(rw, s)
    BY <1>6, <1>10
  <2>4. Len(rw) \in Nat /\ Len(rw) <= Len(s)
    <3>1. Len(rw) = Len(r) + Len(w)
      BY <1>3
    <3>2. Len(rw) <= Len(s)
      BY <2>3 DEF Alike
    <3> QED  BY <1>8, <3>1, <3>2
  <2>5. Len(r) + i \in 1 .. Len(s)
    BY <1>8, <2>1, <2>4
  <2>6. rw[Len(r) + i].of = s[Len(r) + i].of
    BY <2>1, <2>3 DEF Alike
  <2> QED  BY <1>2, <2>2, <2>5, <2>6
<1> QED  BY <1>0, <1>9, <1>10

(* The sender sends another frame: no cell of it can have come before.      *)
LEMMA UnsentSends ==
  ASSUME NEW e \in End, NEW p \in End, p = Peer(e), e = Peer(p), StreamOK(p), open' = open,
         NEW r \in Seq(CellType), r = Rest(chan[p]), Rest(chan'[p]) = r,
         NEW w \in Seq(CellType), w = wire[p], wire'[p] = w,
         NEW f \in FrameType, chan[e].out = <<>>, chan'[e].out = Cells(f),
         NEW log \in Seq(FrameType), log = sent[e], sent'[e] = Append(log, f),
         got[p] \in Seq(FrameType), got'[p] = got[p],
         \A m \in 1 .. Len(log) : log[m] # f
  PROVE  UnsentOK(e)'
<1> DEFINE o == Cells(f)
<1>1. o \in Seq(CellType) /\ Len(o) = Size(f) /\ Size(f) \in Nat
       /\ \A i \in 1 .. Size(f) : o[i].of = f /\ o[i].at = i
  BY CellsFacts
<1>2. Len(log) \in Nat /\ Len(Append(log, f)) = Len(log) + 1 /\ Append(log, f)[Len(log) + 1] = f
  BY LenProperties, AppendProperties
<1>3. Len(got[p]) <= Len(log) /\ Len(got[p]) \in Nat
  BY LenProperties DEF StreamOK, Received
<1>4. Len(got'[p]) < Len(sent'[e]) /\ sent'[e][Len(sent'[e])] = f
  BY <1>2, <1>3
<1>5. <<>> \in Seq(CellType) /\ <<>> = chan[e].out
  BY EmptySeq
<1>6. /\ \A i \in 1 .. Len(r) : \E m \in 1 .. Len(log) : r[i].of = log[m]
      /\ p \in open => \A i \in 1 .. Len(w) : \E m \in 1 .. Len(log) : w[i].of = log[m]
  <2>1. /\ Rest(chan[p]) \in Seq(CellType) /\ wire[p] \in Seq(CellType)
        /\ chan[Peer(p)].out \in Seq(CellType)
    BY <1>5
  <2>2. /\ \A i \in 1 .. Len(Rest(chan[p])) :
             \E m \in 1 .. Len(sent[Peer(p)]) : Rest(chan[p])[i].of = sent[Peer(p)][m]
        /\ p \in open =>
             \A i \in 1 .. Len(wire[p]) :
               \E m \in 1 .. Len(sent[Peer(p)]) : wire[p][i].of = sent[Peer(p)][m]
    BY <2>1, CellsLogged
  <2>3. sent[Peer(p)] = log /\ Rest(chan[p]) = r /\ wire[p] = w
    OBVIOUS
  <2>4. \A i \in 1 .. Len(r) : \E m \in 1 .. Len(log) : r[i].of = log[m]
    BY <2>2, <2>3
  <2>5. p \in open => \A i \in 1 .. Len(w) : \E m \in 1 .. Len(log) : w[i].of = log[m]
    BY <2>2, <2>3
  <2> QED  BY <2>4, <2>5
<1> HIDE DEF o
<1>7. \A i \in 1 .. Len(r) : Before(r[i], f, Len(o))
  BY <1>6 DEF Before
<1>8. p \in open => \A i \in 1 .. Len(w) : Before(w[i], f, Len(o))
  BY <1>6 DEF Before
<1>9. \A i \in 1 .. Len(o) : o[i].of = f /\ o[i].at = Size(f) - Len(o) + i
  BY <1>1
<1>10. chan'[e].out = o
  BY DEF o
<1> QED  BY <1>4, <1>7, <1>8, <1>9, <1>10 DEF UnsentOK

(* The receiver takes a whole frame: not the one that is still being sent.  *)
LEMMA UnsentDelivers ==
  ASSUME NEW e \in End, NEW p, p = Peer(e), UnsentOK(e), open' = open,
         NEW r \in Seq(CellType), r = Rest(chan[p]),
         NEW r2 \in Seq(CellType), r2 = Rest(chan'[p]),
         NEW w \in Seq(CellType), w = wire[p], wire'[p] = w,
         NEW o \in Seq(CellType), o = chan[e].out, chan'[e].out = o,
         NEW log \in Seq(FrameType), log = sent[e], sent'[e] = log,
         NEW g \in Seq(FrameType), g = got[p],
         NEW f \in FrameType, got'[p] = Append(g, f),
         Len(g) + 1 \in 1 .. Len(log), f = log[Len(g) + 1],
         Size(f) \in 1 .. Len(r), r[Size(f)].of = f, r[Size(f)].at = Size(f),
         Consumed(r, r2, f)
  PROVE  UnsentOK(e)'
<1> DEFINE last == log[Len(log)]
<1>1. SUFFICES ASSUME o # <<>>
               PROVE  UnsentOK(e)'
  BY DEF UnsentOK
<1>2. /\ \A i \in 1 .. Len(o) : o[i].of = last /\ o[i].at = Size(last) - Len(o) + i
      /\ \A i \in 1 .. Len(r) : Before(r[i], last, Len(o))
      /\ p \in open => \A i \in 1 .. Len(w) : Before(w[i], last, Len(o))
  BY <1>1 DEF UnsentOK
<1>0. Len(r) = Len(r2) + Size(f) /\ \A i \in 1 .. Len(r2) : r2[i] = r[Size(f) + i]
  BY DEF Consumed
<1>3. /\ Len(o) \in Nat /\ Len(o) >= 1 /\ Len(g) \in Nat /\ Len(log) \in Nat
      /\ Len(r) \in Nat /\ Len(r2) \in Nat /\ Size(f) \in Nat
  <2>1. Len(o) \in Nat /\ Len(o) >= 1
    BY <1>1, CellsLength
  <2>2. Len(g) \in Nat /\ Len(log) \in Nat /\ Len(r) \in Nat /\ Len(r2) \in Nat
    BY LenProperties
  <2>3. Size(f) \in Nat
    BY SizeType
  <2> QED  BY <2>1, <2>2, <2>3
<1>4. f # last
  <2>1. Before(r[Size(f)], last, Len(o))
    BY <1>2
  <2> QED  BY <1>3, <2>1 DEF Before
<1>5. Len(g) + 1 < Len(log)
  <2>1. Len(g) + 1 # Len(log)
    BY <1>4
  <2> QED  BY <1>3, <2>1
<1>6. Len(Append(g, f)) = Len(g) + 1
  BY AppendProperties
<1> HIDE DEF last
<1>7. ASSUME NEW i \in 1 .. Len(r2)
      PROVE  Before(r2[i], last, Len(o))
  <2>1. i \in Nat /\ 1 <= i /\ i <= Len(r2)
    BY <1>3
  <2>2. \A a, b, d \in Nat : 1 <= d /\ d <= b => a + d \in 1 .. b + a
    OBVIOUS
  <2>3. Size(f) + i \in 1 .. Len(r2) + Size(f)
    BY <1>3, <2>1, <2>2, Zenon
  <2> QED  BY <1>0, <1>2, <2>3
<1>8. Len(got'[p]) < Len(sent'[e]) /\ last = sent'[e][Len(sent'[e])]
  BY <1>5, <1>6 DEF last
<1> QED  BY <1>2, <1>7, <1>8 DEF UnsentOK

-----------------------------------------------------------------------------
(* What a step leaves alone.                                                *)

(* The types of what an end holds.                                          *)
LEMMA EndTypes ==
  ASSUME TypeOK, NEW e \in End
  PROVE  /\ chan[e] \in ChannelType /\ chan[e].out \in Seq(CellType)
         /\ wire[e] \in Seq(CellType)
         /\ sent[e] \in Seq(FrameType) /\ got[e] \in Seq(FrameType)
         /\ Len(sent[e]) \in Nat /\ Len(got[e]) \in Nat
<1>1. /\ chan[e] \in ChannelType /\ wire[e] \in Seq(CellType)
      /\ sent[e] \in Seq(FrameType) /\ got[e] \in Seq(FrameType)
  BY DEF TypeOK
<1>2. chan[e].out \in Seq(CellType)
  BY <1>1 DEF ChannelType
<1>3. Len(sent[e]) \in Nat /\ Len(got[e]) \in Nat
  BY <1>1, LenProperties
<1> QED  BY <1>1, <1>2, <1>3

SameEnd(e) ==
  /\ chan'[e] = chan[e] /\ wire'[e] = wire[e] /\ (e \in open' <=> e \in open)
  /\ sent'[e] = sent[e] /\ got'[e] = got[e]

SameConnection(c) ==
  /\ SameEnd(ClientEnd(c)) /\ SameEnd(ServerEnd(c))
  /\ client'[c] = client[c] /\ worker'[c] = worker[c]

(* What can still reach the end e does not grow in the step.                *)
Loses(e) ==
  /\ sent'[e] = sent[e] /\ got'[e] = got[e]
  /\ Rest(chan'[e]) \in Seq(CellType) /\ Alike(Rest(chan'[e]), Rest(chan[e]))
  /\ chan'[e].out \in {<<>>, chan[e].out}
  /\ wire'[e] \in Seq(CellType)
  /\ e \in open' => /\ e \in open /\ Alike(wire'[e], wire[e])
                    /\ wire'[e] = <<>> \/ Len(Rest(chan'[e])) = Len(Rest(chan[e]))

(* Nothing of it is lost.                                                   *)
LosesNothing(e) ==
  /\ chan'[e].out = chan[e].out
  /\ Len(Rest(chan'[e])) = Len(Rest(chan[e])) /\ Len(wire'[e]) = Len(wire[e])

(* A stream that only loses cells at its end still is a beginning of what   *)
(* was sent.                                                                *)
LEMMA LosesStream ==
  ASSUME TypeOK, NEW e \in End, StreamOK(e), Rest(chan[e]) \in Seq(CellType),
         Loses(e), Loses(Peer(e)),
         e \in open' /\ Peer(e) \in open' => LosesNothing(e) /\ LosesNothing(Peer(e))
  PROVE  StreamOK(e)'
<1> DEFINE p == Peer(e)
           r == Rest(chan[e])
           w == wire[e]
           o == chan[p].out
           r2 == Rest(chan'[e])
           w2 == wire'[e]
           log == sent[p]
           g == got[e]
<1>1. p \in End
  BY EndFacts
<1>2. /\ r \in Seq(CellType) /\ w \in Seq(CellType) /\ o \in Seq(CellType)
      /\ r2 \in Seq(CellType) /\ w2 \in Seq(CellType)
      /\ log \in Seq(FrameType) /\ g \in Seq(FrameType)
  BY <1>1, EndTypes DEF Loses
<1>3. /\ sent'[p] = sent[p] /\ got'[e] = got[e] /\ Alike(r2, r)
      /\ e \in open' => /\ e \in open /\ Alike(w2, w)
                        /\ w2 = <<>> \/ Len(r2) = Len(r)
  BY DEF Loses
<1>4. e \in open' /\ p \in open' => /\ p \in open /\ chan'[p].out = o
                                    /\ Len(r2) = Len(r) /\ Len(w2) = Len(w)
  BY DEF Loses, LosesNothing
<1>5. /\ p = Peer(e) /\ r = Rest(chan[e]) /\ w = wire[e] /\ o = chan[p].out
      /\ r2 = Rest(chan'[e]) /\ w2 = wire'[e] /\ log = sent[p] /\ g = got[e]
  OBVIOUS
<1> HIDE DEF p, r, w, o, r2, w2, log, g
<1> QED  BY <1>2, <1>3, <1>4, <1>5, StreamShrinks

(* The unsent cells remain the end of the last frame when the stream only   *)
(* loses cells.                                                             *)
LEMMA LosesUnsent ==
  ASSUME TypeOK, NEW e \in End, UnsentOK(e), Rest(chan[Peer(e)]) \in Seq(CellType),
         Loses(e), Loses(Peer(e))
  PROVE  UnsentOK(e)'
<1> DEFINE p == Peer(e)
           r == Rest(chan[p])
           w == wire[p]
           r2 == Rest(chan'[p])
           w2 == wire'[p]
<1>1. p \in End
  BY EndFacts
<1>2. /\ r \in Seq(CellType) /\ w \in Seq(CellType)
      /\ r2 \in Seq(CellType) /\ w2 \in Seq(CellType)
  BY <1>1, EndTypes DEF Loses
<1>3. /\ sent'[e] = sent[e] /\ got'[p] = got[p] /\ Alike(r2, r)
      /\ chan'[e].out \in {<<>>, chan[e].out}
      /\ p \in open' => p \in open /\ Alike(w2, w)
  BY DEF Loses
<1>4. /\ p = Peer(e) /\ r = Rest(chan[p]) /\ w = wire[p]
      /\ r2 = Rest(chan'[p]) /\ w2 = wire'[p]
  OBVIOUS
<1> HIDE DEF p, r, w, r2, w2
<1> QED  BY <1>2, <1>3, <1>4, UnsentShrinks

(* What a channel holds, in every state of the invariant.                   *)
LEMMA ChannelRest ==
  ASSUME TypeOK, NEW e \in End, ChannelOK(e)
  PROVE  /\ Rest(chan[e]) \in Seq(CellType) /\ Len(Rest(chan[e])) \in Nat
         /\ Have(chan[e]) = Len(Rest(chan[e]))
         /\ \A i \in 1 .. Len(Rest(chan[e])) :
              Rest(chan[e])[i] = chan[e].buffer[chan[e].begin + i]
<1>1. chan[e] \in ChannelType /\ chan[e].begin <= Len(chan[e].buffer)
  BY EndTypes DEF ChannelOK
<1>2. Rest(chan[e]) \in Seq(CellType)
  BY <1>1, RestFacts
<1> QED  BY <1>1, <1>2, RestFacts, CellsLength

(* An end that does not change loses nothing.                               *)
LEMMA SameLoses ==
  ASSUME TypeOK, NEW e \in End, ChannelOK(e), SameEnd(e)
  PROVE  Loses(e) /\ LosesNothing(e) /\ ChannelOK(e)'
<1>1. wire[e] \in Seq(CellType) /\ Rest(chan[e]) \in Seq(CellType)
  BY EndTypes, ChannelRest
<1>2. Alike(Rest(chan[e]), Rest(chan[e])) /\ Alike(wire[e], wire[e])
  BY <1>1, AlikeSelf
<1>3. chan'[e] = chan[e]
  BY DEF SameEnd
<1>4. ChannelOK(e)'
  BY <1>3 DEF ChannelOK
<1> QED  BY <1>1, <1>2, <1>4 DEF SameEnd, Loses, LosesNothing

(* Nothing comes to an end that is blocked.                                 *)
LEMMA BlockedStays ==
  ASSUME NEW e \in End, Blocked(e), Rest(chan'[e]) = Rest(chan[e]),
         e \notin open => e \notin open',
         Peer(e) \notin open /\ wire[e] = <<>> => Peer(e) \notin open' /\ wire'[e] = <<>>
  PROVE  Blocked(e)'
<1> DEFINE r == Rest(chan[e])
<1>1. r = Rest(chan[e]) /\ r = Rest(chan'[e])
  OBVIOUS
<1> HIDE DEF r
<1>2. \/ Len(r) >= Header /\ r[1].of.length > MaxPayload(e)
      \/ /\ Len(r) >= Header
         /\ \E i \in 1 .. r[1].of.length : Header + i <= Len(r) /\ ~r[Header + i].intact
      \/ /\ Len(r) < Header \/ Len(r) < Size(r[1].of)
         /\ e \notin open \/ (Peer(e) \notin open /\ wire[e] = <<>>)
  BY <1>1 DEF Blocked
<1>3. \/ Len(r) >= Header /\ r[1].of.length > MaxPayload(e)
      \/ /\ Len(r) >= Header
         /\ \E i \in 1 .. r[1].of.length : Header + i <= Len(r) /\ ~r[Header + i].intact
      \/ /\ Len(r) < Header \/ Len(r) < Size(r[1].of)
         /\ e \notin open' \/ (Peer(e) \notin open' /\ wire'[e] = <<>>)
  BY <1>2
<1> QED  BY <1>1, <1>3 DEF Blocked

(* A step that leaves a worker and the logs of its end alone keeps what is  *)
(* known of the worker.                                                     *)
LEMMA WorkerStays ==
  ASSUME NEW c \in Client, WorkerOK(c), worker'[c] = worker[c],
         chan'[ServerEnd(c)] = chan[ServerEnd(c)],
         sent'[ServerEnd(c)] = sent[ServerEnd(c)], got'[ServerEnd(c)] = got[ServerEnd(c)],
         ServerEnd(c) \in open' => ServerEnd(c) \in open
  PROVE  WorkerOK(c)'
BY DEF WorkerOK

(* A step that leaves a client and the logs of its end alone keeps what is  *)
(* known of the client.                                                     *)
LEMMA ClientStays ==
  ASSUME NEW c \in Client, ClientOK(c), client[c].at # "away", client'[c] = client[c],
         chan'[ClientEnd(c)] = chan[ClientEnd(c)],
         sent'[ClientEnd(c)] = sent[ClientEnd(c)], got'[ClientEnd(c)] = got[ClientEnd(c)],
         ClientEnd(c) \in open' <=> ClientEnd(c) \in open,
         Blocked(ClientEnd(c)) => Blocked(ClientEnd(c))'
  PROVE  ClientOK(c)'
BY DEF ClientOK

(* Correlations stay increasing as long as the client sends nothing.        *)
LEMMA CorrelationsStay ==
  ASSUME NEW c \in Client, CorrelationsOK(c), sent'[ClientEnd(c)] = sent[ClientEnd(c)],
         client'[c].next_correlation = client[c].next_correlation
  PROVE  CorrelationsOK(c)'
BY DEF CorrelationsOK

(* A connection no end of which is touched.                                 *)
LEMMA Untouched ==
  ASSUME TypeOK, NEW c \in Client, ConnectionOK(c), SameConnection(c)
  PROVE  ConnectionOK(c)'
<1> DEFINE C == ClientEnd(c)
           S == ServerEnd(c)
<1>1. C \in End /\ S \in End /\ Peer(C) = S /\ Peer(S) = C
  BY ConnectionFacts
<1>2. /\ ChannelOK(C) /\ StreamOK(C) /\ UnsentOK(C)
      /\ ChannelOK(S) /\ StreamOK(S) /\ UnsentOK(S)
      /\ CorrelationsOK(c) /\ WorkerOK(c) /\ ClientOK(c)
  BY DEF ConnectionOK
<1>3. SameEnd(C) /\ SameEnd(S) /\ client'[c] = client[c] /\ worker'[c] = worker[c]
  BY DEF SameConnection
<1> HIDE DEF C, S
<1>4. /\ Loses(C) /\ LosesNothing(C) /\ ChannelOK(C)'
      /\ Loses(S) /\ LosesNothing(S) /\ ChannelOK(S)'
  BY <1>1, <1>2, <1>3, SameLoses
<1>5. Rest(chan[C]) \in Seq(CellType) /\ Rest(chan[S]) \in Seq(CellType)
  BY <1>1, <1>2, ChannelRest
<1>6. StreamOK(C)' /\ StreamOK(S)'
  BY <1>1, <1>2, <1>4, <1>5, LosesStream
<1>7. UnsentOK(C)' /\ UnsentOK(S)'
  BY <1>1, <1>2, <1>4, <1>5, LosesUnsent
<1>8. CorrelationsOK(c)' /\ WorkerOK(c)'
  BY <1>2, <1>3, CorrelationsStay, WorkerStays DEF SameEnd, C, S
<1>9. ClientOK(c)'
  <2>1. CASE client[c].at = "away"
    <3>1. \A d \in {C, S} : SameEnd(d)
      BY <1>3
    <3> QED  BY <1>2, <1>3, <2>1, <3>1 DEF ClientOK, SameEnd, C, S
  <2>2. CASE client[c].at # "away"
    <3>1. Blocked(C) => Blocked(C)'
      BY <1>1, <1>3, BlockedStays DEF SameEnd
    <3> QED  BY <1>2, <1>3, <2>2, <3>1, ClientStays DEF SameEnd, C
  <2> QED  BY <2>1, <2>2
<1> QED  BY <1>4, <1>6, <1>7, <1>8, <1>9 DEF ConnectionOK, C, S

(* A step on one connection leaves every other as it was.                   *)
LEMMA OthersSame ==
  ASSUME NEW c \in Client,
         \A e \in End : e # ClientEnd(c) /\ e # ServerEnd(c) => SameEnd(e),
         \A d \in Client : d # c => client'[d] = client[d] /\ worker'[d] = worker[d]
  PROVE  \A d \in Client : d # c => SameConnection(d)
<1>1. SUFFICES ASSUME NEW d \in Client, d # c
               PROVE  SameEnd(ClientEnd(d)) /\ SameEnd(ServerEnd(d))
  BY DEF SameConnection
<1>2. /\ ClientEnd(d) \in End /\ ServerEnd(d) \in End
      /\ ClientEnd(d) # ClientEnd(c) /\ ClientEnd(d) # ServerEnd(c)
      /\ ServerEnd(d) # ClientEnd(c) /\ ServerEnd(d) # ServerEnd(c)
  <2>1. ClientEnd(d) \in End /\ ServerEnd(d) \in End
    BY ConnectionFacts
  <2>2. ClientEnd(d) # ServerEnd(c) /\ ClientEnd(c) # ServerEnd(d)
    BY DEF ClientEnd, ServerEnd
  <2>3. ClientEnd(d) # ClientEnd(c)
    BY <1>1 DEF ClientEnd
  <2>4. ServerEnd(d) # ServerEnd(c)
    BY <1>1 DEF ServerEnd
  <2> QED  BY <2>1, <2>2, <2>3, <2>4
<1> QED  BY <1>2

(* A step in which no cell is added between the ends of c.                  *)
LEMMA LossyStep ==
  ASSUME TypeOK, NEW c \in Client, ConnectionOK(c),
         Loses(ClientEnd(c)), Loses(ServerEnd(c)),
         ClientEnd(c) \in open' /\ ServerEnd(c) \in open' =>
           LosesNothing(ClientEnd(c)) /\ LosesNothing(ServerEnd(c)),
         ChannelOK(ClientEnd(c))', ChannelOK(ServerEnd(c))',
         CorrelationsOK(c)', WorkerOK(c)', ClientOK(c)'
  PROVE  ConnectionOK(c)'
<1> DEFINE C == ClientEnd(c)
           S == ServerEnd(c)
<1>1. C \in End /\ S \in End /\ Peer(C) = S /\ Peer(S) = C
  BY ConnectionFacts
<1>2. ChannelOK(C) /\ StreamOK(C) /\ UnsentOK(C) /\ ChannelOK(S) /\ StreamOK(S) /\ UnsentOK(S)
  BY DEF ConnectionOK
<1>3. /\ Loses(C) /\ Loses(S)
      /\ C \in open' /\ S \in open' => LosesNothing(C) /\ LosesNothing(S)
  OBVIOUS
<1> HIDE DEF C, S
<1>4. Rest(chan[C]) \in Seq(CellType) /\ Rest(chan[S]) \in Seq(CellType)
  BY <1>1, <1>2, ChannelRest
<1>5. StreamOK(C)' /\ StreamOK(S)'
  BY <1>1, <1>2, <1>3, <1>4, LosesStream
<1>6. UnsentOK(C)' /\ UnsentOK(S)'
  BY <1>1, <1>2, <1>3, <1>4, LosesUnsent
<1> QED  BY <1>5, <1>6 DEF ConnectionOK, C, S

(* The fields of a frame are numbers.                                       *)
LEMMA FrameFacts ==
  \A f \in FrameType :
    f.correlation \in Nat /\ f.length \in Nat /\ f.key \in Nat /\ f.value \in Nat
BY DEF FrameType

(* The frame that Frame makes has the fields it was given.                  *)
LEMMA FrameIs ==
  ASSUME NEW kind \in Kinds, NEW correlation \in Nat, NEW length \in Nat, NEW op \in Ops,
         NEW key \in Nat, NEW value \in Nat
  PROVE  LET f == Frame(kind, correlation, length, op, key, value) IN
         /\ f \in FrameType
         /\ f.kind = kind /\ f.correlation = correlation /\ f.length = length
         /\ f.op = op /\ f.key = key /\ f.value = value
BY DEF FrameType, Frame

(* A new channel has nothing.                                               *)
LEMMA NewChannelFacts ==
  /\ NewChannel \in ChannelType /\ NoFrame \in FrameType
  /\ Rest(NewChannel) = <<>> /\ NewChannel.out = <<>> /\ NewChannel.doing = "idle"
  /\ NewChannel.begin <= Len(NewChannel.buffer) /\ ~NewChannel.broken
<1>1. NoFrame \in FrameType
  <2>1. "none" \in Kinds /\ "none" \in Ops
    BY DEF Kinds, Ops
  <2>2. 0 \in Nat
    OBVIOUS
  <2>3. Frame("none", 0, 0, "none", 0, 0) \in FrameType
    BY <2>1, <2>2, FrameIs
  <2> QED  BY <2>3 DEF NoFrame
<1>2. <<>> \in Seq(CellType) /\ Len(<<>>) = 0
  BY EmptySeq
<1>3. NewChannel \in ChannelType
  BY <1>1, <1>2 DEF NewChannel, ChannelType
<1>4. /\ NewChannel.out = <<>> /\ NewChannel.doing = "idle" /\ ~NewChannel.broken
      /\ NewChannel.buffer = <<>> /\ NewChannel.begin = 0
  BY DEF NewChannel
<1>5. NewChannel.begin <= Len(NewChannel.buffer)
  BY <1>2, <1>4
<1>6. Rest(NewChannel) \in Seq(CellType) /\ Len(Rest(NewChannel)) = 0
  BY <1>2, <1>3, <1>4, <1>5, RestFacts
<1>7. Rest(NewChannel) = <<>>
  BY <1>6, CellsLength
<1> QED  BY <1>1, <1>3, <1>4, <1>5, <1>7

(* An end is let go: its channel is new, and its socket closed.             *)
LEMMA LetGo ==
  ASSUME TypeOK, NEW e \in End, ChannelOK(e), chan'[e] = NewChannel, e \notin open',
         wire'[e] = <<>>, sent'[e] = sent[e], got'[e] = got[e]
  PROVE  Loses(e) /\ ChannelOK(e)'
<1>1. Rest(chan'[e]) = <<>> /\ chan'[e].out = <<>> /\ <<>> \in Seq(CellType)
  BY NewChannelFacts, EmptySeq
<1>2. Alike(<<>>, Rest(chan[e]))
  BY ChannelRest, AlikeSelf
<1>3. ChannelOK(e)'
  BY NewChannelFacts DEF ChannelOK
<1> QED  BY <1>1, <1>2, <1>3 DEF Loses

(* No log has a frame twice.                                                *)
LEMMA LogsInjective ==
  ASSUME TypeOK, NEW c \in Client, ConnectionOK(c)
  PROVE  /\ \A i, j \in 1 .. Len(sent[ClientEnd(c)]) :
              sent[ClientEnd(c)][i] = sent[ClientEnd(c)][j] => i = j
         /\ \A i, j \in 1 .. Len(sent[ServerEnd(c)]) :
              sent[ServerEnd(c)][i] = sent[ServerEnd(c)][j] => i = j
         /\ Len(got[ServerEnd(c)]) <= Len(sent[ClientEnd(c)])
         /\ \A i \in 1 .. Len(got[ServerEnd(c)]), j \in 1 .. Len(sent[ServerEnd(c)]) :
              i > j => got[ServerEnd(c)][i].correlation # sent[ServerEnd(c)][j].correlation
<1> DEFINE C == ClientEnd(c)
           S == ServerEnd(c)
<1>1. C \in End /\ S \in End /\ Peer(C) = S /\ Peer(S) = C
  BY ConnectionFacts
<1>2. CorrelationsOK(c) /\ WorkerOK(c) /\ StreamOK(S)
  BY DEF ConnectionOK
<1>3. /\ sent[C] \in Seq(FrameType) /\ sent[S] \in Seq(FrameType) /\ got[S] \in Seq(FrameType)
      /\ Len(sent[C]) \in Nat /\ Len(sent[S]) \in Nat /\ Len(got[S]) \in Nat
  BY <1>1, EndTypes
<1>4. \A i \in 1 .. Len(sent[C]) : sent[C][i].correlation \in Nat
  <2>1. \A i \in 1 .. Len(sent[C]) : sent[C][i] \in FrameType
    BY <1>3, ElementOfSeq
  <2> QED  BY <2>1, FrameFacts
<1>5. \A i \in 1 .. Len(sent[C]) : \A j \in 1 .. i - 1 :
        sent[C][j].correlation < sent[C][i].correlation
  BY <1>2 DEF CorrelationsOK, C
<1>6. /\ Len(got[S]) <= Len(sent[C])
      /\ \A i \in 1 .. Len(got[S]) : got[S][i] = sent[C][i]
  BY <1>1, <1>2 DEF StreamOK, Received
<1>7. /\ Len(sent[S]) <= Len(got[S])
      /\ \A i \in 1 .. Len(sent[S]) : sent[S][i].correlation = got[S][i].correlation
  BY <1>2 DEF WorkerOK, S
<1> HIDE DEF C, S
<1>8. \A i, j \in 1 .. Len(sent[C]) :
        i > j => sent[C][i].correlation # sent[C][j].correlation
  <2>1. SUFFICES ASSUME NEW i \in 1 .. Len(sent[C]), NEW j \in 1 .. Len(sent[C]), i > j
                 PROVE  sent[C][i].correlation # sent[C][j].correlation
    OBVIOUS
  <2>2. j \in 1 .. i - 1
    BY <1>3, <2>1
  <2>3. sent[C][j].correlation < sent[C][i].correlation
    BY <1>5, <2>2
  <2> QED  BY <1>4, <2>3
<1>9. \A i, j \in 1 .. Len(sent[C]) : sent[C][i].correlation = sent[C][j].correlation => i = j
  BY <1>3, <1>8
<1>10. \A i \in 1 .. Len(sent[S]) : /\ i \in 1 .. Len(got[S]) /\ i \in 1 .. Len(sent[C])
                                    /\ sent[S][i].correlation = sent[C][i].correlation
  <2>1. SUFFICES ASSUME NEW i \in 1 .. Len(sent[S])
                 PROVE  /\ i \in 1 .. Len(got[S]) /\ i \in 1 .. Len(sent[C])
                        /\ sent[S][i].correlation = sent[C][i].correlation
    OBVIOUS
  <2>2. i \in 1 .. Len(got[S]) /\ i \in 1 .. Len(sent[C])
    BY <1>3, <1>6, <1>7
  <2> QED  BY <1>6, <1>7, <2>2
<1>11. \A i, j \in 1 .. Len(sent[S]) : sent[S][i].correlation = sent[S][j].correlation => i = j
  BY <1>9, <1>10
<1>12. \A i \in 1 .. Len(got[S]), j \in 1 .. Len(sent[S]) :
         i > j => got[S][i].correlation # sent[S][j].correlation
  <2>1. SUFFICES ASSUME NEW i \in 1 .. Len(got[S]), NEW j \in 1 .. Len(sent[S]), i > j
                 PROVE  got[S][i].correlation # sent[S][j].correlation
    OBVIOUS
  <2>2. i \in 1 .. Len(sent[C]) /\ got[S][i] = sent[C][i]
    BY <1>3, <1>6
  <2> QED  BY <1>8, <1>10, <2>1, <2>2
<1> QED  BY <1>6, <1>9, <1>11, <1>12 DEF C, S

-----------------------------------------------------------------------------
(* Parse.                                                                   *)

Refusable(e) ==
  LET r == Rest(chan[e]) IN
  /\ Len(r) >= Header
  /\ \/ r[1].at # 1
     \/ r[1].of.length > MaxPayload(e)
     \/ \E i \in 1 .. r[1].of.length : Header + i <= Len(r) /\ ~r[Header + i].intact

(* The header was read, or refused, or the frame refused, or received.      *)
LEMMA ParseCases ==
  ASSUME TypeOK, NEW e \in End, ChannelOK(e), Parse(e)
  PROVE  LET ch == chan[e]
             d == chan'[e]
             r == Rest(chan[e])
             f == r[1].of
         IN
         /\ d \in ChannelType /\ chan' = [chan EXCEPT ![e] = d] /\ ChannelOK(e)'
         /\ ch.doing \in {"header", "payload"} /\ ch.out = <<>> /\ d.out = <<>>
         /\ UNCHANGED <<wire, open, faults, client, worker, fabricVars, sent>>
         /\ \/ /\ d.doing = "payload" /\ d.broken = ch.broken
               /\ Rest(d) = r /\ got' = got
            \/ /\ d.doing = "failed" /\ d.broken /\ Refusable(e)
               /\ Rest(d) = r /\ got' = got
            \/ /\ d.doing = "got" /\ d.broken = ch.broken
               /\ d.frame = f /\ f \in FrameType /\ r # <<>>
               /\ Len(r) >= Header /\ Len(r) >= Size(f) /\ f.length <= MaxPayload(e)
               /\ \A i \in 1 .. f.length : r[Header + i].intact
               /\ Len(r) = Len(Rest(d)) + Size(f)
               /\ \A i \in 1 .. Len(Rest(d)) : Rest(d)[i] = r[Size(f) + i]
               /\ got' = [got EXCEPT ![e] = Append(got[e], f)]
<1> DEFINE ch == chan[e]
           d == chan'[e]
           r == Rest(chan[e])
           m == MaxPayload(e)
<1>1. /\ ch \in ChannelType /\ ch.begin <= Len(ch.buffer) /\ m \in Nat
      /\ ch.doing \in {"idle", "sending", "header", "payload", "got", "failed"}
  <2>1. ch \in ChannelType /\ ch.begin <= Len(ch.buffer) /\ m \in Nat
    BY EndTypes, EndFacts DEF ChannelOK
  <2> QED  BY <2>1 DEF ChannelType
<1>2. /\ ch.doing \in {"header", "payload"} /\ Have(ch) >= ch.needed
      /\ chan' = [chan EXCEPT ![e] = IF ch.doing = "header" THEN ReadHeader(ch, m)
                                     ELSE Decode(ch)]
      /\ got' = IF d.doing = "got" THEN [got EXCEPT ![e] = Append(got[e], d.frame)] ELSE got
      /\ UNCHANGED <<wire, open, faults, client, worker, fabricVars, sent>>
  BY DEF Parse, netVars
<1>3. d = IF ch.doing = "header" THEN ReadHeader(ch, m) ELSE Decode(ch)
  BY <1>2 DEF TypeOK
<1>4. chan' = [chan EXCEPT ![e] = d]
  BY <1>2, <1>3
<1>5. r \in Seq(CellType) /\ Len(r) \in Nat /\ Have(ch) = Len(r) /\ Have(ch) \in Nat
       /\ \A i \in 1 .. Len(r) : r[i] = ch.buffer[ch.begin + i]
  BY ChannelRest
<1>6. ch.out = <<>>
  BY <1>2 DEF ChannelOK
<1>7. /\ ch.doing = "header" => ch.needed = Header
      /\ ch.doing = "payload" => /\ Have(ch) >= Header
                                 /\ ch.buffer[ch.begin + 1].of.length <= m
                                 /\ ch.needed = Size(ch.buffer[ch.begin + 1].of)
  BY DEF ChannelOK
<1>8. Len(r) >= Header /\ Len(r) >= 1 /\ Have(ch) >= 1 /\ r # <<>> /\ 1 \in 1 .. Len(r)
  BY <1>2, <1>5, <1>7, HeaderPositive, EmptySeq
<1>9. r[1] = ch.buffer[ch.begin + 1] /\ r[1] \in CellType /\ r[1].of \in FrameType
  <2>1. r[1] = ch.buffer[ch.begin + 1]
    BY <1>5, <1>8
  <2>2. r[1] \in CellType
    BY <1>5, <1>8, ElementOfSeq
  <2> QED  BY <2>1, <2>2 DEF CellType
<1>10. r = Rest(ch) /\ d = chan'[e] /\ m = MaxPayload(e) /\ ch = chan[e]
  OBVIOUS
<1> HIDE DEF ch, d, r, m
<1>11. CASE ch.doing = "header"
  <2>1. d = ReadHeader(ch, m)
    BY <1>3, <1>11
  <2>2. /\ d \in ChannelType /\ d.begin <= Len(d.buffer) /\ Rest(d) = r
        /\ \/ /\ r[1].at # 1 \/ r[1].of.length > m
              /\ d.doing = "failed" /\ d.out = <<>> /\ d.broken
           \/ /\ r[1].of.length <= m
              /\ d.doing = "payload" /\ d.needed = Size(r[1].of) /\ Have(d) = Have(ch)
              /\ Have(d) < d.needed => d.begin = 0 /\ d.current <= Len(d.buffer)
              /\ d.out = ch.out /\ d.broken = ch.broken
    BY <1>1, <1>8, <1>10, <2>1, ReadHeaderFacts
  <2>3. got' = got
    BY <1>2, <2>2
  <2>4. CASE d.doing = "failed"
    <3>1. (r[1].at # 1 \/ r[1].of.length > m) /\ d.out = <<>> /\ d.broken
      BY <2>2, <2>4
    <3>2. Refusable(e)
      BY <1>8, <1>10, <3>1 DEF Refusable
    <3>3. ChannelOK(e)'
      BY <1>10, <2>2, <2>4, <3>1 DEF ChannelOK
    <3> QED  BY <1>2, <1>4, <1>6, <1>10, <2>2, <2>3, <2>4, <3>1, <3>2, <3>3
  <2>5. CASE d.doing = "payload"
    <3>1. /\ r[1].of.length <= m /\ d.needed = Size(r[1].of) /\ Have(d) = Have(ch)
          /\ Have(d) < d.needed => d.begin = 0 /\ d.current <= Len(d.buffer)
          /\ d.out = ch.out /\ d.broken = ch.broken
      BY <2>2, <2>5
    <3>2. Rest(d)[1] = d.buffer[d.begin + 1]
      BY <1>8, <2>2, RestFacts
    <3>3. /\ Have(d) >= Header /\ d.buffer[d.begin + 1].of.length <= m
          /\ d.needed = Size(d.buffer[d.begin + 1].of)
      BY <1>5, <1>8, <2>2, <3>1, <3>2
    <3>4. ChannelOK(e)'
      BY <1>6, <1>10, <2>2, <2>5, <3>1, <3>3 DEF ChannelOK, MaxPayload
    <3> QED  BY <1>2, <1>4, <1>6, <1>10, <2>2, <2>3, <2>5, <3>1, <3>4
  <2> QED  BY <2>2, <2>4, <2>5
<1>12. CASE ch.doing = "payload"
  <2>1. d = Decode(ch) /\ Have(ch) >= Size(r[1].of) /\ r[1].of.length <= m
    BY <1>2, <1>3, <1>7, <1>9, <1>12
  <2>2. /\ d \in ChannelType /\ d.begin <= Len(d.buffer)
        /\ \/ /\ \E i \in 1 .. r[1].of.length : Header + i <= Len(r) /\ ~r[Header + i].intact
              /\ Rest(d) = r
              /\ d.doing = "failed" /\ d.out = <<>> /\ d.broken
           \/ /\ \A i \in 1 .. r[1].of.length : r[Header + i].intact
              /\ d.doing = "got" /\ d.frame = r[1].of
              /\ d.out = ch.out /\ d.broken = ch.broken
              /\ Len(r) = Len(Rest(d)) + Size(r[1].of)
              /\ \A i \in 1 .. Len(Rest(d)) : Rest(d)[i] = r[Size(r[1].of) + i]
    BY <1>1, <1>8, <1>10, <2>1, DecodeFacts
  <2>3. CASE d.doing = "failed"
    <3>1. /\ \E i \in 1 .. r[1].of.length : Header + i <= Len(r) /\ ~r[Header + i].intact
          /\ Rest(d) = r /\ d.out = <<>> /\ d.broken
      BY <2>2, <2>3
    <3>2. Refusable(e)
      BY <1>8, <1>10, <3>1 DEF Refusable
    <3>3. ChannelOK(e)'
      BY <1>10, <2>2, <2>3, <3>1 DEF ChannelOK
    <3>4. got' = got
      BY <1>2, <2>3
    <3> QED  BY <1>2, <1>4, <1>6, <1>10, <2>2, <2>3, <3>1, <3>2, <3>3, <3>4
  <2>4. CASE d.doing = "got"
    <3>1. /\ \A i \in 1 .. r[1].of.length : r[Header + i].intact
          /\ d.frame = r[1].of /\ d.out = ch.out /\ d.broken = ch.broken
          /\ Len(r) = Len(Rest(d)) + Size(r[1].of)
          /\ \A i \in 1 .. Len(Rest(d)) : Rest(d)[i] = r[Size(r[1].of) + i]
      BY <2>2, <2>4
    <3>2. got' = [got EXCEPT ![e] = Append(got[e], r[1].of)]
      BY <1>2, <2>4, <3>1
    <3>3. ChannelOK(e)'
      BY <1>6, <1>10, <2>2, <2>4, <3>1 DEF ChannelOK
    <3>4. Len(r) >= Size(r[1].of)
      BY <1>5, <2>1
    <3>5. /\ d.doing = "got" /\ d.broken = ch.broken
          /\ d.frame = r[1].of /\ r[1].of \in FrameType /\ r # <<>>
          /\ Len(r) >= Header /\ Len(r) >= Size(r[1].of) /\ r[1].of.length <= m
          /\ \A i \in 1 .. r[1].of.length : r[Header + i].intact
          /\ Len(r) = Len(Rest(d)) + Size(r[1].of)
          /\ \A i \in 1 .. Len(Rest(d)) : Rest(d)[i] = r[Size(r[1].of) + i]
          /\ got' = [got EXCEPT ![e] = Append(got[e], r[1].of)]
      BY <1>8, <1>9, <2>1, <2>4, <3>1, <3>2, <3>4
    <3>6. /\ d \in ChannelType /\ chan' = [chan EXCEPT ![e] = d] /\ ChannelOK(e)'
          /\ ch.doing \in {"header", "payload"} /\ ch.out = <<>> /\ d.out = <<>>
          /\ UNCHANGED <<wire, open, faults, client, worker, fabricVars, sent>>
      BY <1>2, <1>4, <1>6, <2>2, <3>1, <3>3
    <3> QED  BY <3>5, <3>6 DEF ch, d, r, m
  <2> QED  BY <2>2, <2>3, <2>4
<1> QED  BY <1>2, <1>11, <1>12

StepOK(c) ==
  /\ TypeOK' /\ ConnectionOK(c)'
  /\ \A d \in Client : d # c => SameConnection(d)

(* Who moves while a channel works.                                         *)
LEMMA Working ==
  ASSUME NEW c \in Client, WorkerOK(c), ClientOK(c)
  PROVE  /\ chan[ClientEnd(c)].doing # "idle" =>
              client[c].at \notin {"away", "exited", "ready"}
         /\ chan[ServerEnd(c)].doing # "idle" =>
              worker[c] \in {"greeting", "serving"} /\ client[c].at # "away"
BY NewChannelFacts DEF WorkerOK, ClientOK

(* A step of recv_frame that returns no frame keeps the invariant.          *)
LEMMA ParseQuiet ==
  ASSUME TypeOK, NEW c \in Client, ConnectionOK(c),
         NEW e \in {ClientEnd(c), ServerEnd(c)}, Parse(e), chan'[e].doing # "got"
  PROVE  StepOK(c)
<1> DEFINE C == ClientEnd(c)
           S == ServerEnd(c)
           d == chan'[e]
           r == Rest(chan[e])
<1>1. C \in End /\ S \in End /\ Peer(C) = S /\ Peer(S) = C /\ C # S /\ e \in End
  BY ConnectionFacts
<1>2. /\ ChannelOK(C) /\ StreamOK(C) /\ UnsentOK(C)
      /\ ChannelOK(S) /\ StreamOK(S) /\ UnsentOK(S)
      /\ CorrelationsOK(c) /\ WorkerOK(c) /\ ClientOK(c) /\ ChannelOK(e)
  BY DEF ConnectionOK
<1>3. /\ d \in ChannelType /\ chan' = [chan EXCEPT ![e] = d] /\ ChannelOK(e)'
      /\ chan[e].doing \in {"header", "payload"} /\ chan[e].out = <<>> /\ d.out = <<>>
      /\ UNCHANGED <<wire, open, faults, client, worker, fabricVars, sent>>
      /\ Rest(d) = r /\ got' = got
      /\ \/ d.doing = "payload" /\ d.broken = chan[e].broken
         \/ d.doing = "failed" /\ d.broken /\ Refusable(e)
  BY <1>1, <1>2, ParseCases
<1>4. \A x \in End : x # e => chan'[x] = chan[x]
  BY <1>3 DEF TypeOK
<1>5. TypeOK'
  BY <1>1, <1>3 DEF TypeOK, fabricVars
<1>6. \A x \in End : x # e => SameEnd(x)
  BY <1>3, <1>4 DEF SameEnd
<1>7. \A b \in Client : b # c => SameConnection(b)
  BY <1>3, <1>6, OthersSame
<1>8. r \in Seq(CellType) /\ wire[e] \in Seq(CellType)
  BY <1>1, <1>2, ChannelRest, EndTypes
<1>9. Loses(e) /\ LosesNothing(e) /\ ChannelOK(e)'
  BY <1>3, <1>8, AlikeSelf DEF Loses, LosesNothing
<1>10. /\ Loses(C) /\ LosesNothing(C) /\ ChannelOK(C)'
       /\ Loses(S) /\ LosesNothing(S) /\ ChannelOK(S)'
  BY <1>1, <1>2, <1>6, <1>9, SameLoses
<1>11. CorrelationsOK(c)'
  BY <1>2, <1>3, CorrelationsStay
<1>12. WorkerOK(c)'
  <2>1. CASE e = C
    <3>1. SameEnd(S)
      BY <1>1, <1>6, <2>1
    <3> QED  BY <1>2, <1>3, <3>1, WorkerStays DEF SameEnd
  <2>2. CASE e = S
    <3>1. worker[c] \in {"greeting", "serving"} /\ chan[S].doing # "got"
      BY <1>2, <1>3, <2>2, Working
    <3> QED  BY <1>2, <1>3, <2>2, <3>1 DEF WorkerOK
  <2> QED  BY <2>1, <2>2
<1>13. ClientOK(c)'
  <2>1. CASE e = S
    <3>1. SameEnd(C)
      BY <1>1, <1>6, <2>1
    <3>2. client[c].at # "away"
      BY <1>2, <1>3, <2>1, Working
    <3>3. Blocked(C) => Blocked(C)'
      BY <1>1, <1>3, <3>1, BlockedStays DEF SameEnd
    <3> QED  BY <1>2, <1>3, <3>1, <3>2, <3>3, ClientStays DEF SameEnd
  <2>2. CASE e = C
    <3>1. client[c].at \notin {"away", "exited", "ready"}
      BY <1>2, <1>3, <2>2, Working
    <3>2. Blocked(C) => Blocked(C)'
      BY <1>1, <1>3, <2>2, BlockedStays
    <3>3. Refusable(C) => Blocked(C)
      <4>1. C \in open
        BY <1>2, <3>1 DEF ClientOK
      <4>2. r # <<>> => r[1].at = 1
        <5>1. SUFFICES ASSUME r # <<>>
                       PROVE  r[1].at = 1
          OBVIOUS
        <5>2. Stream(C) \in Seq(CellType) /\ Alike(r, Stream(C))
          BY <1>1, <1>8, <2>2, EndTypes, StreamType
        <5>3. Len(r) >= 1 /\ Len(Stream(C)) \in Nat /\ Len(r) \in Nat
          BY <1>8, <5>1, <5>2, CellsLength
        <5>4. 1 \in 1 .. Len(r) /\ Len(Stream(C)) >= 1
          BY <5>2, <5>3 DEF Alike
        <5>5. r[1].at = Stream(C)[1].at
          BY <5>2, <5>4 DEF Alike
        <5>6. Stream(C) # <<>>
          BY <5>2, <5>4, CellsLength
        <5> QED  BY <1>2, <5>5, <5>6 DEF StreamOK, Aligned
      <4>3. Len(r) >= Header => r # <<>>
        BY <1>8, CellsLength, HeaderPositive
      <4> HIDE DEF r
      <4>4. r = Rest(chan[C])
        BY <2>2 DEF r
      <4> QED  BY <4>2, <4>3, <4>4 DEF Refusable, Blocked
    <3>4. chan'[C].broken => Blocked(C)'
      BY <1>2, <1>3, <2>2, <3>1, <3>2, <3>3 DEF ClientOK
    <3> HIDE DEF C, d, r
    <3>5. /\ client'[c] = client[c] /\ C \in open' /\ sent'[C] = sent[C] /\ got'[C] = got[C]
      BY <1>2, <1>3, <3>1 DEF ClientOK, C
    <3>6. /\ chan'[C].doing \in {"payload", "failed"}
          /\ chan'[C].doing = "failed" => chan'[C].broken
          /\ ~chan'[C].broken => ~chan[C].broken /\ chan'[C].doing = "payload"
      BY <1>3, <2>2 DEF d
    <3>7. chan[C].doing \in {"header", "payload"}
      BY <1>3, <2>2
    <3> QED  BY <1>2, <3>1, <3>4, <3>5, <3>6, <3>7 DEF ClientOK, C
  <2> QED  BY <2>1, <2>2
<1>14. ConnectionOK(c)'
  BY <1>10, <1>11, <1>12, <1>13, LossyStep
<1> QED  BY <1>5, <1>7, <1>14 DEF StepOK

(* A stream none of whose parts changes.                                    *)
LEMMA StreamSame ==
  ASSUME NEW e \in End, StreamOK(e), Rest(chan'[e]) = Rest(chan[e]), wire'[e] = wire[e],
         chan'[Peer(e)].out = chan[Peer(e)].out, open' = open,
         sent'[Peer(e)] = sent[Peer(e)], got'[e] = got[e]
  PROVE  StreamOK(e)'
<1>1. Stream(e)' = Stream(e)
  BY DEF Stream
<1> QED  BY <1>1, StreamKeeps

(* A step of recv_frame that returns a frame returns the next one sent.     *)
LEMMA ParseDelivers ==
  ASSUME TypeOK, NEW c \in Client, ConnectionOK(c),
         NEW e \in {ClientEnd(c), ServerEnd(c)}, Parse(e), chan'[e].doing = "got"
  PROVE  /\ StepOK(c) /\ Len(got[e]) < Len(sent[Peer(e)]) /\ sent' = sent
         /\ got' = [got EXCEPT ![e] = Append(got[e], sent[Peer(e)][Len(got[e]) + 1])]
<1> DEFINE C == ClientEnd(c)
           S == ServerEnd(c)
           p == Peer(e)
           d == chan'[e]
           r == Rest(chan[e])
           r2 == Rest(d)
           f == r[1].of
           w == wire[e]
           o == chan[p].out
           log == sent[p]
           g == got[e]
<1>1. /\ C \in End /\ S \in End /\ Peer(C) = S /\ Peer(S) = C /\ C # S
      /\ e \in End /\ p \in End /\ Peer(p) = e /\ p # e /\ {e, p} = {C, S}
  BY ConnectionFacts
<1>2. /\ ChannelOK(C) /\ StreamOK(C) /\ UnsentOK(C)
      /\ ChannelOK(S) /\ StreamOK(S) /\ UnsentOK(S)
      /\ CorrelationsOK(c) /\ WorkerOK(c) /\ ClientOK(c) /\ ChannelOK(e) /\ StreamOK(e)
      /\ ChannelOK(p) /\ StreamOK(p) /\ UnsentOK(p)
  BY <1>1 DEF ConnectionOK
<1>3. /\ d \in ChannelType /\ chan' = [chan EXCEPT ![e] = d] /\ ChannelOK(e)'
      /\ chan[e].doing \in {"header", "payload"} /\ chan[e].out = <<>> /\ d.out = <<>>
      /\ UNCHANGED <<wire, open, faults, client, worker, fabricVars, sent>>
      /\ d.doing = "got" /\ d.broken = chan[e].broken
      /\ d.frame = f /\ f \in FrameType /\ r # <<>>
      /\ Len(r) >= Header /\ Len(r) >= Size(f) /\ f.length <= MaxPayload(e)
      /\ \A i \in 1 .. f.length : r[Header + i].intact
      /\ Len(r) = Len(r2) + Size(f)
      /\ \A i \in 1 .. Len(r2) : r2[i] = r[Size(f) + i]
      /\ got' = [got EXCEPT ![e] = Append(got[e], f)]
  BY <1>1, <1>2, ParseCases
<1>4. \A x \in End : x # e => chan'[x] = chan[x] /\ got'[x] = got[x]
  BY <1>1, <1>3 DEF TypeOK
<1>5. /\ r \in Seq(CellType) /\ w \in Seq(CellType) /\ o \in Seq(CellType)
      /\ log \in Seq(FrameType) /\ g \in Seq(FrameType)
      /\ Len(r) \in Nat /\ Len(g) \in Nat /\ Len(log) \in Nat
  BY <1>1, <1>2, ChannelRest, EndTypes
<1>6. r2 \in Seq(CellType)
  BY <1>3, RestFacts DEF ChannelOK
<1>7. /\ got'[e] = Append(g, f) /\ Append(g, f) \in Seq(FrameType)
      /\ Len(Append(g, f)) = Len(g) + 1 /\ Append(g, f)[Len(g) + 1] = f
      /\ \A i \in 1 .. Len(g) : Append(g, f)[i] = g[i]
  <2>1. got'[e] = Append(g, f)
    BY <1>1, <1>3 DEF TypeOK
  <2> HIDE DEF g, f
  <2>2. f \in FrameType
    BY <1>3
  <2> QED  BY <1>5, <2>1, <2>2, AppendProperties
<1>8. \A i, j \in 1 .. Len(log) : log[i] = log[j] => i = j
  BY <1>1, LogsInjective
<1>9. /\ p = Peer(e) /\ d = chan'[e] /\ r = Rest(chan[e]) /\ r2 = Rest(chan'[e]) /\ f = r[1].of
      /\ w = wire[e] /\ wire'[e] = w /\ o = chan[p].out /\ chan'[p].out = o
      /\ log = sent[p] /\ sent'[p] = log /\ g = got[e] /\ open' = open
      /\ got'[p] = got[p] /\ chan'[p] = chan[p]
  BY <1>1, <1>3, <1>4
<1>10. TypeOK'
  <2>1. got' \in [End -> Seq(FrameType)]
    BY <1>1, <1>3, <1>7 DEF TypeOK
  <2>2. chan' \in [End -> ChannelType]
    BY <1>1, <1>3 DEF TypeOK
  <2> QED  BY <1>3, <2>1, <2>2 DEF TypeOK, fabricVars
<1>11. \A x \in End : x # e => SameEnd(x)
  BY <1>3, <1>4 DEF SameEnd
<1>12. \A b \in Client : b # c => SameConnection(b)
  BY <1>3, <1>11, OthersSame
<1> HIDE DEF p, d, r, r2, f, w, o, log, g
<1>13. /\ StreamOK(e)' /\ Len(g) + 1 \in 1 .. Len(log) /\ f = log[Len(g) + 1]
       /\ r[Size(f)].of = f /\ r[Size(f)].at = Size(f) /\ Size(f) \in 1 .. Len(r)
  <2>1. e \in End /\ StreamOK(e) /\ r # <<>> /\ got'[e] = Append(g, f) /\ f \in FrameType
    BY <1>1, <1>2, <1>3, <1>7
  <2>2. Consumed(r, r2, f)
    BY <1>3 DEF Consumed
  <2>3. Once(log)
    BY <1>8 DEF Once
  <2> USE DEF p, r, r2, w, o, log, g
  <2>4. /\ e \in End /\ StreamOK(e) /\ open' = open /\ f \in FrameType
        /\ Rest(chan[e]) \in Seq(CellType) /\ Rest(chan[e]) # <<>>
        /\ Rest(chan'[e]) \in Seq(CellType)
        /\ wire[e] \in Seq(CellType) /\ wire'[e] = wire[e]
        /\ chan[Peer(e)].out \in Seq(CellType) /\ chan'[Peer(e)].out = chan[Peer(e)].out
        /\ sent[Peer(e)] \in Seq(FrameType) /\ sent'[Peer(e)] = sent[Peer(e)]
        /\ got[e] \in Seq(FrameType) /\ got'[e] = Append(got[e], f)
        /\ f = Rest(chan[e])[1].of /\ Once(sent[Peer(e)])
        /\ Consumed(Rest(chan[e]), Rest(chan'[e]), f)
    BY <1>5, <1>6, <1>9, <2>1, <2>2, <2>3
  <2> QED  BY <2>4, StreamDelivers
<1>14. UnsentOK(p)'
  <2>1. /\ e = Peer(p) /\ p \in End /\ UnsentOK(p) /\ f \in FrameType
        /\ got'[e] = Append(g, f)
    BY <1>1, <1>2, <1>3, <1>7
  <2>2. Consumed(r, r2, f)
    BY <1>3 DEF Consumed
  <2> QED  BY <1>5, <1>6, <1>9, <1>13, <2>2, <2>1, UnsentDelivers
<1>15. UnsentOK(e)'
  BY <1>3, <1>9 DEF UnsentOK
<1>16. StreamOK(p)' /\ ChannelOK(p)'
  <2>1. /\ Rest(chan'[p]) = Rest(chan[p]) /\ wire'[p] = wire[p] /\ got'[p] = got[p]
        /\ chan'[Peer(p)].out = chan[Peer(p)].out /\ sent'[Peer(p)] = sent[Peer(p)]
    BY <1>1, <1>3, <1>9
  <2>2. StreamOK(p)'
    BY <1>1, <1>2, <1>9, <2>1, StreamSame
  <2> QED  BY <1>2, <1>9, <2>2 DEF ChannelOK
<1>17. CorrelationsOK(c)'
  BY <1>2, <1>3, CorrelationsStay
<1>18. WorkerOK(c)'
  <2>1. CASE e = C
    <3>1. SameEnd(S)
      BY <1>1, <1>11, <2>1
    <3> QED  BY <1>2, <1>3, <3>1, WorkerStays DEF SameEnd
  <2>2. CASE e = S
    <3>1. worker[c] \in {"greeting", "serving"} /\ chan[S].doing # "got"
      BY <1>2, <1>3, <2>2, Working
    <3>2. /\ Len(sent[S]) = Len(g)
          /\ \A i \in 1 .. Len(sent[S]) :
               /\ sent[S][i].correlation = g[i].correlation
               /\ i > 1 => Answers(sent[S][i], g[i])
      BY <1>2, <1>9, <2>2, <3>1 DEF WorkerOK
    <3>3. \A i \in 1 .. Len(sent[S]) : got'[S][i] = g[i]
      BY <1>7, <2>2, <3>2
    <3>4. Len(got'[S]) = Len(sent[S]) + 1 /\ got'[S][Len(got'[S])] = f
      BY <1>5, <1>7, <2>2, <3>2
    <3>5. /\ chan'[S].doing = "got" /\ chan'[S].frame = f
          /\ sent'[S] = sent[S] /\ worker'[c] = worker[c]
      BY <1>3, <1>9, <2>2
    <3>6. Len(sent[S]) \in Nat
      BY <1>1, EndTypes
    <3> HIDE DEF S
    <3>7. /\ worker[c] = "greeting" => sent[S] = <<>>
          /\ worker[c] = "serving" => sent[S] # <<>>
      BY <1>2 DEF WorkerOK, S
    <3>8. \A i \in 1 .. Len(sent'[S]) :
            /\ sent'[S][i].correlation = got'[S][i].correlation
            /\ i > 1 => Answers(sent'[S][i], got'[S][i])
      BY <3>2, <3>3, <3>5
    <3> QED  BY <3>1, <3>4, <3>5, <3>6, <3>7, <3>8 DEF WorkerOK, S
  <2> QED  BY <2>1, <2>2
<1>19. ClientOK(c)'
  <2>1. CASE e = S
    <3>1. SameEnd(C)
      BY <1>1, <1>11, <2>1
    <3>2. client[c].at # "away"
      BY <1>2, <1>3, <2>1, Working
    <3>3. Blocked(C) => Blocked(C)'
      BY <1>1, <1>3, <3>1, BlockedStays DEF SameEnd
    <3> QED  BY <1>2, <1>3, <3>1, <3>2, <3>3, ClientStays DEF SameEnd
  <2>2. CASE e = C
    <3>1. client[c].at \notin {"away", "exited", "ready"}
      BY <1>2, <1>3, <2>2, Working
    <3>2. ~Blocked(C)
      <4>1. r = Rest(chan[C]) /\ f = r[1].of /\ MaxPayload(C) \in Nat /\ f.length \in Nat
        BY <1>1, <1>3, <1>9, <2>2, EndFacts, FrameFacts
      <4>2. ~(r[1].of.length > MaxPayload(C))
        BY <1>3, <2>2, <4>1
      <4>3. ~(Len(r) < Header) /\ ~(Len(r) < Size(r[1].of))
        <5>1. Len(r) >= Header /\ Len(r) >= Size(f) /\ Size(f) \in Nat
          BY <1>3, <1>13
        <5>2. ~(Len(r) < Header) /\ ~(Len(r) < Size(f))
          BY <1>5, <5>1, HeaderPositive
        <5> QED  BY <4>1, <5>2
      <4> QED  BY <1>3, <4>1, <4>2, <4>3 DEF Blocked
    <3>3. ~chan[C].broken /\ C \in open
      BY <1>2, <3>1, <3>2 DEF ClientOK
    <3>4. Len(sent[C]) = Len(g) + 1
      BY <1>2, <1>3, <1>9, <2>2, <3>1, <3>3 DEF ClientOK
    <3>5. /\ chan'[C].doing = "got" /\ ~chan'[C].broken /\ chan'[C].frame = f
          /\ client'[c] = client[c] /\ C \in open' /\ sent'[C] = sent[C]
      BY <1>3, <1>9, <2>2, <3>3
    <3>6. Len(sent'[C]) = Len(got'[C]) /\ got'[C][Len(got'[C])] = f /\ Len(got'[C]) \in Nat
      BY <1>5, <1>7, <2>2, <3>4, <3>5
    <3> HIDE DEF C
    <3>7. /\ Len(sent[C]) >= 1
          /\ client[c].at = "transmit" =>
               Len(sent[C]) >= 2 /\ client[c].request = sent[C][Len(sent[C])]
      BY <1>2, <3>1 DEF ClientOK, C
    <3>8. Len(sent'[C]) = Len(got'[C]) + 0
      BY <3>6
    <3> QED  BY <3>1, <3>5, <3>6, <3>7, <3>8 DEF ClientOK, C
  <2> QED  BY <2>1, <2>2
<1>20. ConnectionOK(c)'
  <2>1. /\ ChannelOK(C)' /\ StreamOK(C)' /\ UnsentOK(C)'
        /\ ChannelOK(S)' /\ StreamOK(S)' /\ UnsentOK(S)'
    BY <1>1, <1>3, <1>13, <1>14, <1>15, <1>16
  <2> QED  BY <1>17, <1>18, <1>19, <2>1 DEF ConnectionOK
<1>21. Len(g) < Len(log)
  BY <1>5, <1>13
<1> QED  BY <1>3, <1>10, <1>12, <1>13, <1>20, <1>21 DEF StepOK, g, log, p

-----------------------------------------------------------------------------
(* SendCell and SendFails.                                                  *)

CellSent(ch) ==
  LET rest == [ch EXCEPT !.out = Tail(@)]
  IN IF rest.out = <<>> THEN recv_frame(rest) ELSE rest

(* A channel one of whose cells was sent, the last one included.            *)
LEMMA CellSentFacts ==
  ASSUME NEW ch \in ChannelType, ch.begin <= Len(ch.buffer), ch.doing = "sending",
         ch.out # <<>>
  PROVE  LET d == CellSent(ch) IN
         /\ d \in ChannelType /\ d.begin <= Len(d.buffer) /\ Rest(d) = Rest(ch)
         /\ d.out = Tail(ch.out) /\ d.broken = ch.broken
         /\ \/ d.out # <<>> /\ d.doing = "sending"
            \/ /\ d.out = <<>> /\ d.doing = "header" /\ d.needed = Header
               /\ Have(d) < d.needed => d.begin = 0 /\ d.current <= Len(d.buffer)
<1> DEFINE rest == [ch EXCEPT !.out = Tail(@)]
<1>1. ch.out \in Seq(CellType) /\ Tail(ch.out) \in Seq(CellType)
  <2>1. ch.out \in Seq(CellType)
    BY DEF ChannelType
  <2> QED  BY <2>1, HeadTailProperties
<1>2. rest \in ChannelType
  BY <1>1 DEF ChannelType
<1>3. /\ rest.out = Tail(ch.out) /\ rest.buffer = ch.buffer /\ rest.begin = ch.begin
      /\ rest.broken = ch.broken /\ rest.doing = "sending"
  BY DEF ChannelType
<1>4. Rest(rest) = Rest(ch)
  BY <1>3 DEF Rest
<1>5. CellSent(ch) = IF rest.out = <<>> THEN recv_frame(rest) ELSE rest
  BY DEF CellSent
<1>6. rest.begin <= Len(rest.buffer)
  BY <1>3
<1> HIDE DEF rest
<1> DEFINE d == CellSent(ch)
<1>7. CASE rest.out = <<>>
  <2>1. d = recv_frame(rest)
    BY <1>5, <1>7
  <2>2. /\ d \in ChannelType /\ d.begin <= Len(d.buffer) /\ Rest(d) = Rest(rest)
        /\ d.needed = Header /\ d.doing = "header"
        /\ Have(d) < d.needed => d.begin = 0 /\ d.current <= Len(d.buffer)
        /\ d.out = rest.out /\ d.broken = rest.broken
    BY <1>2, <1>6, <2>1, RecvFrameFacts
  <2> HIDE DEF d
  <2> QED  BY <1>3, <1>4, <1>7, <2>2 DEF d
<1>8. CASE rest.out # <<>>
  <2>1. d = rest
    BY <1>5, <1>8
  <2> HIDE DEF d
  <2> QED  BY <1>2, <1>3, <1>4, <1>6, <1>8, <2>1 DEF d
<1> QED  BY <1>7, <1>8

(* A cell given to the kernel keeps the invariant.                          *)
LEMMA SendCellStep ==
  ASSUME TypeOK, NEW c \in Client, ConnectionOK(c),
         NEW e \in {ClientEnd(c), ServerEnd(c)}, SendCell(e)
  PROVE  StepOK(c) /\ UNCHANGED <<sent, got>>
<1> DEFINE C == ClientEnd(c)
           S == ServerEnd(c)
           p == Peer(e)
           d == chan'[e]
           o == chan[e].out
           w == wire[p]
<1>1. /\ C \in End /\ S \in End /\ Peer(C) = S /\ Peer(S) = C /\ C # S
      /\ e \in End /\ p \in End /\ Peer(p) = e /\ p # e /\ {e, p} = {C, S}
  BY ConnectionFacts
<1>2. /\ CorrelationsOK(c) /\ WorkerOK(c) /\ ClientOK(c)
      /\ ChannelOK(e) /\ StreamOK(e) /\ UnsentOK(e)
      /\ ChannelOK(p) /\ StreamOK(p) /\ UnsentOK(p)
  BY <1>1 DEF ConnectionOK
<1>3. /\ chan[e].doing = "sending" /\ e \in open
      /\ wire' = [wire EXCEPT ![p] = Append(w, Head(o))]
      /\ chan' = [chan EXCEPT ![e] = CellSent(chan[e])]
      /\ UNCHANGED <<open, faults, client, worker, fabricVars, sent, got>>
  BY DEF SendCell, CellSent, logVars
<1>4. chan[e] \in ChannelType /\ chan[e].begin <= Len(chan[e].buffer) /\ o # <<>>
  BY <1>1, <1>2, <1>3, EndTypes DEF ChannelOK
<1>5. /\ d = CellSent(chan[e])
      /\ \A x \in End : x # e => chan'[x] = chan[x]
      /\ wire'[p] = Append(w, Head(o))
      /\ \A x \in End : x # p => wire'[x] = wire[x]
  BY <1>1, <1>3 DEF TypeOK
<1>6. /\ d \in ChannelType /\ d.begin <= Len(d.buffer) /\ Rest(d) = Rest(chan[e])
      /\ d.out = Tail(o) /\ d.broken = chan[e].broken
      /\ \/ d.out # <<>> /\ d.doing = "sending"
         \/ /\ d.out = <<>> /\ d.doing = "header" /\ d.needed = Header
            /\ Have(d) < d.needed => d.begin = 0 /\ d.current <= Len(d.buffer)
  BY <1>3, <1>4, <1>5, CellSentFacts
<1>7. /\ o \in Seq(CellType) /\ w \in Seq(CellType)
      /\ Rest(chan[e]) \in Seq(CellType) /\ Rest(chan[p]) \in Seq(CellType)
      /\ sent[e] \in Seq(FrameType) /\ got[p] \in Seq(FrameType)
  BY <1>1, <1>2, ChannelRest, EndTypes
<1>8. Append(w, Head(o)) \in Seq(CellType)
  BY <1>4, <1>7, HeadTailProperties, AppendProperties
<1>9. TypeOK'
  <2>1. chan' \in [End -> ChannelType] /\ wire' \in [End -> Seq(CellType)]
    BY <1>1, <1>3, <1>5, <1>6, <1>8 DEF TypeOK
  <2> QED  BY <1>3, <2>1 DEF TypeOK, fabricVars
<1>10. \A x \in End : x # e /\ x # p => SameEnd(x)
  BY <1>3, <1>5 DEF SameEnd
<1>11. \A b \in Client : b # c => SameConnection(b)
  BY <1>1, <1>3, <1>10, OthersSame
<1>12. /\ chan'[p] = chan[p] /\ wire'[e] = wire[e] /\ open' = open
       /\ sent'[e] = sent[e] /\ sent'[p] = sent[p] /\ got'[e] = got[e] /\ got'[p] = got[p]
       /\ client' = client /\ worker' = worker
  BY <1>1, <1>3, <1>5
<1>13. e = Peer(p) /\ p = Peer(e) /\ d = chan'[e] /\ o = chan[e].out /\ w = wire[p]
  BY <1>1
<1> HIDE DEF p, d, o, w
<1>14. StreamOK(p)'
  <2>1. Rest(chan'[p]) = Rest(chan[p]) /\ chan'[e].out = Tail(o)
    BY <1>6, <1>12, <1>13
  <2> DEFINE r == Rest(chan[p])
  <2>2. /\ p \in End /\ e = Peer(p) /\ StreamOK(p) /\ open' = open /\ e \in open
        /\ r \in Seq(CellType) /\ r = Rest(chan[p])
        /\ w \in Seq(CellType) /\ w = wire[p]
        /\ o \in Seq(CellType) /\ o = chan[e].out /\ o # <<>>
        /\ Rest(chan'[p]) = r /\ wire'[p] = Append(w, Head(o)) /\ chan'[e].out = Tail(o)
        /\ sent'[e] = sent[e] /\ got'[p] = got[p]
    BY <1>1, <1>2, <1>3, <1>4, <1>5, <1>7, <1>12, <1>13, <2>1
  <2> HIDE DEF r
  <2> QED  BY <2>2, StreamMoves
<1>15. StreamOK(e)'
  <2>1. Rest(chan'[e]) = Rest(chan[e]) /\ chan'[Peer(e)].out = chan[Peer(e)].out
    BY <1>6, <1>12, <1>13
  <2> QED  BY <1>1, <1>2, <1>12, <1>13, <2>1, StreamSame
<1>16. UnsentOK(e)'
  <2>1. Rest(chan'[p]) = Rest(chan[p]) /\ chan'[e].out = Tail(o)
    BY <1>6, <1>12, <1>13
  <2> QED  BY <1>1, <1>2, <1>4, <1>5, <1>7, <1>12, <1>13, <2>1, UnsentMoves
<1>17. UnsentOK(p)'
  <2>1. Rest(chan'[e]) = Rest(chan[e]) /\ chan'[p].out = chan[p].out
    BY <1>6, <1>12, <1>13
  <2> QED  BY <1>2, <1>12, <1>13, <2>1 DEF UnsentOK
<1>18. ChannelOK(e)' /\ ChannelOK(p)'
  <2>1. ChannelOK(e)'
    BY <1>6, <1>13 DEF ChannelOK
  <2> QED  BY <1>2, <1>12, <2>1 DEF ChannelOK
<1>19. CorrelationsOK(c)'
  BY <1>1, <1>2, <1>3, CorrelationsStay
<1>20. d.doing \in {"sending", "header"}
  BY <1>6
<1>21. WorkerOK(c)'
  <2>1. CASE e = C
    <3>1. chan'[S] = chan[S]
      BY <1>1, <1>5, <2>1
    <3> QED  BY <1>2, <1>3, <3>1, WorkerStays
  <2>2. CASE e = S
    <3>1. worker[c] \in {"greeting", "serving"} /\ chan[S].doing = "sending"
      BY <1>2, <1>3, <2>2, Working
    <3>2. chan'[S].doing \in {"sending", "header"}
      BY <1>13, <1>20, <2>2
    <3> QED  BY <1>2, <1>3, <3>1, <3>2 DEF WorkerOK
  <2> QED  BY <2>1, <2>2
<1>22. ClientOK(c)'
  <2>1. Blocked(C) => Blocked(C)'
    <3>1. CASE e = S
      <4>1. Rest(chan'[C]) = Rest(chan[C]) /\ Peer(C) \in open
        BY <1>1, <1>3, <1>5, <3>1
      <4> QED  BY <1>1, <1>12, <4>1, BlockedStays
    <3>2. CASE e = C
      <4>1. Rest(chan'[C]) = Rest(chan[C]) /\ wire'[C] = wire[C]
        BY <1>6, <1>12, <1>13, <3>2
      <4> QED  BY <1>1, <1>12, <4>1, BlockedStays
    <3> QED  BY <3>1, <3>2
  <2>2. CASE e = S
    <3>1. chan'[C] = chan[C]
      BY <1>1, <1>5, <2>2
    <3>2. client[c].at # "away"
      BY <1>2, <1>3, <2>2, Working
    <3> QED  BY <1>2, <1>3, <2>1, <3>1, <3>2, ClientStays
  <2>3. CASE e = C
    <3>1. client[c].at \notin {"away", "exited", "ready"}
      BY <1>2, <1>3, <2>3, Working
    <3>2. /\ chan'[C].doing \in {"sending", "header"} /\ chan'[C].broken = chan[C].broken
          /\ chan[C].doing = "sending"
      BY <1>3, <1>6, <1>13, <1>20, <2>3
    <3>3. client' = client /\ sent' = sent /\ got' = got /\ open' = open
      BY <1>3
    <3> HIDE DEF C
    <3> QED  BY <1>2, <2>1, <3>1, <3>2, <3>3 DEF ClientOK, C
  <2> QED  BY <2>2, <2>3
<1>23. ConnectionOK(c)'
  <2>1. /\ ChannelOK(C)' /\ StreamOK(C)' /\ UnsentOK(C)'
        /\ ChannelOK(S)' /\ StreamOK(S)' /\ UnsentOK(S)'
    BY <1>1, <1>14, <1>15, <1>16, <1>17, <1>18
  <2> QED  BY <1>19, <1>21, <1>22, <2>1 DEF ConnectionOK
<1> QED  BY <1>3, <1>9, <1>11, <1>23 DEF StepOK

(* A send that fails keeps the invariant.                                   *)
LEMMA SendFailsStep ==
  ASSUME TypeOK, NEW c \in Client, ConnectionOK(c),
         NEW e \in {ClientEnd(c), ServerEnd(c)}, SendFails(e)
  PROVE  StepOK(c) /\ UNCHANGED <<sent, got>>
<1> DEFINE C == ClientEnd(c)
           S == ServerEnd(c)
           d == chan'[e]
<1>1. /\ C \in End /\ S \in End /\ Peer(C) = S /\ Peer(S) = C /\ C # S /\ e \in End
      /\ {e, Peer(e)} = {C, S}
  BY ConnectionFacts
<1>2. /\ ChannelOK(C) /\ StreamOK(C) /\ UnsentOK(C)
      /\ ChannelOK(S) /\ StreamOK(S) /\ UnsentOK(S)
      /\ CorrelationsOK(c) /\ WorkerOK(c) /\ ClientOK(c) /\ ChannelOK(e)
  BY DEF ConnectionOK
<1>3. /\ chan[e].doing = "sending" /\ ~({C, S} \subseteq open)
      /\ chan' = [chan EXCEPT ![e] = Failed(chan[e])]
      /\ UNCHANGED <<wire, open, faults, client, worker, fabricVars, sent, got>>
  BY <1>1 DEF SendFails, netVars, logVars
<1>4. d = Failed(chan[e]) /\ \A x \in End : x # e => chan'[x] = chan[x]
  BY <1>1, <1>3 DEF TypeOK
<1>5. /\ d \in ChannelType /\ d.doing = "failed" /\ d.out = <<>> /\ d.broken
      /\ Rest(d) = Rest(chan[e]) /\ d.begin <= Len(d.buffer)
  BY <1>1, <1>2, <1>4, EndTypes, FailedFacts DEF ChannelOK
<1>6. TypeOK'
  BY <1>1, <1>3, <1>4, <1>5 DEF TypeOK, fabricVars
<1>7. \A x \in End : x # e => SameEnd(x)
  BY <1>3, <1>4 DEF SameEnd
<1>8. \A b \in Client : b # c => SameConnection(b)
  BY <1>3, <1>7, OthersSame
<1>9. Rest(chan[e]) \in Seq(CellType) /\ wire[e] \in Seq(CellType)
  BY <1>1, <1>2, ChannelRest, EndTypes
<1>10. Loses(e) /\ ChannelOK(e)'
  <2>1. ChannelOK(e)'
    BY <1>5 DEF ChannelOK
  <2> QED  BY <1>3, <1>5, <1>9, <2>1, AlikeSelf DEF Loses
<1>11. Loses(C) /\ ChannelOK(C)' /\ Loses(S) /\ ChannelOK(S)'
  BY <1>1, <1>2, <1>7, <1>10, SameLoses
<1>12. CorrelationsOK(c)'
  BY <1>2, <1>3, CorrelationsStay
<1>13. WorkerOK(c)'
  <2>1. CASE e = C
    <3>1. SameEnd(S)
      BY <1>1, <1>7, <2>1
    <3> QED  BY <1>2, <1>3, <3>1, WorkerStays DEF SameEnd
  <2>2. CASE e = S
    <3>1. worker[c] \in {"greeting", "serving"} /\ chan[S].doing = "sending"
      BY <1>2, <1>3, <2>2, Working
    <3>2. chan'[S].doing = "failed"
      BY <1>5, <2>2
    <3> QED  BY <1>2, <1>3, <3>1, <3>2 DEF WorkerOK
  <2> QED  BY <2>1, <2>2
<1>14. ClientOK(c)'
  <2>1. CASE e = S
    <3>1. SameEnd(C)
      BY <1>1, <1>7, <2>1
    <3>2. client[c].at # "away"
      BY <1>2, <1>3, <2>1, Working
    <3>3. Blocked(C) => Blocked(C)'
      BY <1>1, <1>3, <3>1, BlockedStays DEF SameEnd
    <3> QED  BY <1>2, <1>3, <3>1, <3>2, <3>3, ClientStays DEF SameEnd
  <2>2. CASE e = C
    <3>1. client[c].at \notin {"away", "exited", "ready"}
      BY <1>2, <1>3, <2>2, Working
    <3>2. C \in open /\ S \notin open
      BY <1>2, <1>3, <3>1 DEF ClientOK
    <3>3. Blocked(C)
      <4>1. CASE chan[C].broken
        BY <1>2, <3>1, <4>1 DEF ClientOK
      <4>2. CASE ~chan[C].broken
        <5>1. Len(sent[C]) = Len(got[C]) + 1
          BY <1>2, <1>3, <2>2, <3>1, <4>2 DEF ClientOK
        <5>2. chan[C].out # <<>>
          BY <1>2, <1>3, <2>2 DEF ChannelOK
        <5>3. Len(got[S]) < Len(sent[C])
          BY <1>1, <1>2, <5>2 DEF UnsentOK
        <5>4. Len(sent[S]) <= Len(got[S])
          BY <1>2 DEF WorkerOK
        <5>5. /\ Len(sent[S]) \in Nat /\ Len(sent[C]) \in Nat
              /\ Len(got[S]) \in Nat /\ Len(got[C]) \in Nat
          BY <1>1, EndTypes
        <5>6. ~(Len(got[C]) < Len(sent[S]))
          BY <5>1, <5>3, <5>4, <5>5
        <5>7. Stream(C) = <<>>
          BY <1>1, <1>2, <5>6 DEF StreamOK, Aligned
        <5>8. Rest(chan[C]) \o wire[C] = <<>>
          BY <1>1, <3>2, <5>7 DEF Stream
        <5>9. Len(Rest(chan[C])) + Len(wire[C]) = 0
          BY <1>9, <2>2, <5>8, ConcatCells, EmptySeq
        <5>10. Len(Rest(chan[C])) = 0 /\ wire[C] = <<>>
          <6>1. Rest(chan[C]) \in Seq(CellType) /\ wire[C] \in Seq(CellType)
            BY <1>9, <2>2
          <6>2. Len(Rest(chan[C])) \in Nat /\ Len(wire[C]) \in Nat
            BY <6>1, CellsLength
          <6>3. Len(Rest(chan[C])) = 0 /\ Len(wire[C]) = 0
            <7>1. \A a, b \in Nat : a + b = 0 => a = 0 /\ b = 0
              OBVIOUS
            <7> QED  BY <5>9, <6>2, <7>1, Zenon
          <6>4. wire[C] # <<>> => Len(wire[C]) >= 1
            BY <6>1, CellsLength
          <6> QED  BY <6>3, <6>4
        <5> QED  BY <1>1, <3>2, <5>10, HeaderPositive DEF Blocked
      <4> QED  BY <4>1, <4>2
    <3>4. Blocked(C)'
      BY <1>1, <1>3, <1>5, <2>2, <3>3, BlockedStays
    <3>5. chan'[C].doing = "failed" /\ chan'[C].broken
      BY <1>5, <2>2
    <3>6. client' = client /\ open' = open /\ sent' = sent /\ got' = got /\ chan[C].doing # "idle"
      BY <1>3, <2>2
    <3> HIDE DEF C, d
    <3> QED  BY <1>2, <3>1, <3>4, <3>5, <3>6 DEF ClientOK, C
  <2> QED  BY <2>1, <2>2
<1>15. ~(C \in open' /\ S \in open')
  BY <1>3
<1>16. ConnectionOK(c)'
  BY <1>11, <1>12, <1>13, <1>14, <1>15, LossyStep
<1> QED  BY <1>3, <1>6, <1>8, <1>16 DEF StepOK

-----------------------------------------------------------------------------
(* RecvCell and RecvFails.                                                  *)

(* A cell received keeps the invariant.                                     *)
LEMMA RecvCellStep ==
  ASSUME TypeOK, NEW c \in Client, ConnectionOK(c),
         NEW e \in {ClientEnd(c), ServerEnd(c)}, RecvCell(e)
  PROVE  StepOK(c) /\ UNCHANGED <<sent, got>>
<1> DEFINE C == ClientEnd(c)
           S == ServerEnd(c)
           p == Peer(e)
           ch == chan[e]
           d == chan'[e]
           r == Rest(chan[e])
           w == wire[e]
           x == Head(w)
<1>1. /\ C \in End /\ S \in End /\ Peer(C) = S /\ Peer(S) = C /\ C # S
      /\ e \in End /\ p \in End /\ Peer(p) = e /\ p # e /\ {e, p} = {C, S}
  BY ConnectionFacts
<1>2. /\ CorrelationsOK(c) /\ WorkerOK(c) /\ ClientOK(c)
      /\ ChannelOK(e) /\ StreamOK(e) /\ UnsentOK(e)
      /\ ChannelOK(p) /\ StreamOK(p) /\ UnsentOK(p)
  BY <1>1 DEF ConnectionOK
<1>3. /\ ch.doing \in {"header", "payload"} /\ Have(ch) < ch.needed
      /\ e \in open /\ w # <<>>
      /\ chan' = [chan EXCEPT ![e] = [ch EXCEPT !.buffer = Append(@, x)]]
      /\ wire' = [wire EXCEPT ![e] = Tail(w)]
      /\ UNCHANGED <<open, faults, client, worker, fabricVars, sent, got>>
  BY DEF RecvCell, logVars
<1>4. /\ ch \in ChannelType /\ ch.begin <= Len(ch.buffer)
      /\ w \in Seq(CellType) /\ x \in CellType /\ Tail(w) \in Seq(CellType)
  <2>1. ch \in ChannelType /\ ch.begin <= Len(ch.buffer) /\ w \in Seq(CellType)
    BY <1>1, <1>2, EndTypes DEF ChannelOK
  <2> QED  BY <1>3, <2>1, HeadTailProperties
<1>5. /\ d = [ch EXCEPT !.buffer = Append(@, x)]
      /\ \A y \in End : y # e => chan'[y] = chan[y] /\ wire'[y] = wire[y]
      /\ wire'[e] = Tail(w)
  BY <1>1, <1>3 DEF TypeOK
<1>6. /\ d \in ChannelType /\ d.begin <= Len(d.buffer)
      /\ Rest(d) = Append(r, x)
      /\ Len(d.buffer) = Len(ch.buffer) + 1 /\ Have(d) = Have(ch) + 1
      /\ d.begin = ch.begin /\ d.current = ch.current /\ d.needed = ch.needed
      /\ d.doing = ch.doing /\ d.out = ch.out /\ d.frame = ch.frame /\ d.broken = ch.broken
  <2> HIDE DEF d, x, ch
  <2>1. /\ d \in ChannelType /\ d.begin <= Len(d.buffer)
        /\ Rest(d) = Append(Rest(ch), x)
        /\ Len(d.buffer) = Len(ch.buffer) + 1 /\ Have(d) = Have(ch) + 1
        /\ d.begin = ch.begin /\ d.current = ch.current /\ d.needed = ch.needed
        /\ d.doing = ch.doing /\ d.out = ch.out /\ d.frame = ch.frame /\ d.broken = ch.broken
    BY <1>4, <1>5, ReceiveFacts
  <2> QED  BY <2>1 DEF ch
<1>7. TypeOK'
  <2>1. chan' \in [End -> ChannelType] /\ wire' \in [End -> Seq(CellType)]
    BY <1>1, <1>3, <1>4, <1>5, <1>6 DEF TypeOK
  <2> QED  BY <1>3, <2>1 DEF TypeOK, fabricVars
<1>8. \A y \in End : y # e => SameEnd(y)
  BY <1>3, <1>5 DEF SameEnd
<1>9. \A b \in Client : b # c => SameConnection(b)
  BY <1>3, <1>8, OthersSame
<1>10. /\ r \in Seq(CellType) /\ Len(r) \in Nat /\ Have(ch) = Len(r)
       /\ \A i \in 1 .. Len(r) : r[i] = ch.buffer[ch.begin + i]
  BY <1>1, <1>2, ChannelRest
<1>11. /\ open' = open /\ client' = client /\ worker' = worker /\ sent' = sent /\ got' = got
       /\ chan'[p] = chan[p] /\ wire'[p] = wire[p]
  BY <1>1, <1>3, <1>5
<1>12. /\ p = Peer(e) /\ e = Peer(p) /\ ch = chan[e] /\ d = chan'[e] /\ r = Rest(chan[e])
       /\ w = wire[e] /\ x = Head(w)
  BY <1>1
<1>13. /\ Append(r, x) \in Seq(CellType) /\ Len(Append(r, x)) = Len(r) + 1
       /\ \A i \in 1 .. Len(r) : Append(r, x)[i] = r[i]
  BY <1>4, <1>10, AppendProperties
<1> HIDE DEF p, ch, d, r, w, x
<1>14. StreamOK(e)'
  <2>1. /\ e \in End /\ p = Peer(e) /\ StreamOK(e) /\ open' = open /\ e \in open
        /\ r \in Seq(CellType) /\ r = Rest(chan[e])
        /\ w \in Seq(CellType) /\ w = wire[e] /\ w # <<>>
        /\ Rest(chan'[e]) = Append(r, Head(w)) /\ wire'[e] = Tail(w)
        /\ chan'[p].out = chan[p].out /\ sent'[p] = sent[p] /\ got'[e] = got[e]
    BY <1>1, <1>2, <1>3, <1>4, <1>5, <1>6, <1>10, <1>11, <1>12
  <2> QED  BY <2>1, StreamReceives
<1>15. StreamOK(p)'
  <2>1. Rest(chan'[p]) = Rest(chan[p]) /\ chan'[Peer(p)].out = chan[Peer(p)].out
    BY <1>6, <1>11, <1>12
  <2> QED  BY <1>1, <1>2, <1>11, <2>1, StreamSame
<1>16. UnsentOK(p)'
  <2>1. /\ p \in End /\ e = Peer(p) /\ UnsentOK(p) /\ open' = open /\ e \in open
        /\ r \in Seq(CellType) /\ r = Rest(chan[e])
        /\ w \in Seq(CellType) /\ w = wire[e] /\ w # <<>>
        /\ Rest(chan'[e]) = Append(r, Head(w)) /\ wire'[e] = Tail(w)
        /\ chan'[p].out = chan[p].out /\ sent'[p] = sent[p] /\ got'[e] = got[e]
    BY <1>1, <1>2, <1>3, <1>4, <1>5, <1>6, <1>10, <1>11, <1>12
  <2> QED  BY <2>1, UnsentReceives
<1>17. UnsentOK(e)'
  <2>1. Rest(chan'[p]) = Rest(chan[p]) /\ chan'[e].out = chan[e].out
    BY <1>6, <1>11, <1>12
  <2> QED  BY <1>2, <1>11, <1>12, <2>1 DEF UnsentOK
<1>18. ChannelOK(e)' /\ ChannelOK(p)'
  <2>1. ch.doing = "payload" =>
          /\ Have(d) >= Header
          /\ d.buffer[d.begin + 1].of.length <= MaxPayload(e)
          /\ d.needed = Size(d.buffer[d.begin + 1].of)
    <3>1. SUFFICES ASSUME ch.doing = "payload"
                   PROVE  /\ Have(d) >= Header
                          /\ d.buffer[d.begin + 1] = ch.buffer[ch.begin + 1]
      BY <1>2, <1>6, <1>12 DEF ChannelOK
    <3>2. Have(ch) >= Header
      BY <1>2, <1>12, <3>1 DEF ChannelOK
    <3>3. Have(d) >= Header /\ 1 \in 1 .. Len(r) /\ Len(r) + 1 \in Nat
      BY <1>6, <1>10, <3>2, HeaderPositive
    <3>4. r[1] = ch.buffer[ch.begin + 1] /\ Append(r, x)[1] = r[1]
      BY <1>10, <1>13, <3>3
    <3>5. Rest(d)[1] = d.buffer[d.begin + 1]
      <4>1. 1 \in 1 .. Len(Rest(d))
        BY <1>6, <1>13, <3>3
      <4> QED  BY <1>6, <4>1, RestFacts
    <3> QED  BY <1>6, <3>3, <3>4, <3>5
  <2>2. ch.begin = 0 /\ ch.current <= Len(ch.buffer)
    BY <1>2, <1>3, <1>12 DEF ChannelOK
  <2>3. d.begin = 0 /\ d.current <= Len(d.buffer)
    <3>1. ch.current \in Nat /\ Len(ch.buffer) \in Nat
      BY <1>4, RestFacts DEF ChannelType
    <3> QED  BY <1>6, <2>2, <3>1
  <2>4. (ch.doing = "sending" <=> ch.out # <<>>) /\ (ch.doing = "header" => ch.needed = Header)
    BY <1>2, <1>12 DEF ChannelOK
  <2>5. ChannelOK(e)'
    BY <1>6, <1>12, <2>1, <2>3, <2>4 DEF ChannelOK, MaxPayload
  <2> QED  BY <1>2, <1>11, <2>5 DEF ChannelOK
<1>19. CorrelationsOK(c)'
  BY <1>2, <1>11, CorrelationsStay
<1>20. WorkerOK(c)'
  <2>1. CASE e = C
    <3>1. SameEnd(S)
      BY <1>1, <1>8, <2>1
    <3> QED  BY <1>2, <1>11, <3>1, WorkerStays DEF SameEnd
  <2>2. CASE e = S
    <3>1. worker[c] \in {"greeting", "serving"} /\ chan[S].doing \in {"header", "payload"}
      BY <1>2, <1>3, <1>12, <2>2, Working
    <3>2. chan'[S].doing = chan[S].doing
      BY <1>6, <1>12, <2>2
    <3> QED  BY <1>2, <1>11, <3>1, <3>2 DEF WorkerOK
  <2> QED  BY <2>1, <2>2
<1>21. ClientOK(c)'
  <2>1. CASE e = S
    <3>1. SameEnd(C)
      BY <1>1, <1>8, <2>1
    <3>2. client[c].at # "away"
      BY <1>2, <1>3, <1>12, <2>1, Working
    <3>3. Blocked(C) => Blocked(C)'
      BY <1>1, <1>11, <3>1, BlockedStays DEF SameEnd
    <3> QED  BY <1>2, <1>11, <3>1, <3>2, <3>3, ClientStays DEF SameEnd
  <2>2. CASE e = C
    <3>1. client[c].at \notin {"away", "exited", "ready"}
      BY <1>2, <1>3, <1>12, <2>2, Working
    <3>2. ASSUME Blocked(C)
          PROVE  Blocked(C)'
      <4>1. C \in open /\ wire[C] # <<>> /\ r = Rest(chan[C])
        BY <1>3, <1>12, <2>2
      <4>2. \/ Len(r) >= Header /\ r[1].of.length > MaxPayload(C)
            \/ /\ Len(r) >= Header
               /\ \E i \in 1 .. r[1].of.length : Header + i <= Len(r) /\ ~r[Header + i].intact
        BY <3>2, <4>1 DEF Blocked
      <4> DEFINE r2 == Append(r, x)
      <4>3. 1 \in 1 .. Len(r) /\ r2[1] = r[1] /\ Len(r2) = Len(r) + 1 /\ Len(r) >= Header
        BY <1>10, <1>13, <4>2, HeaderPositive
      <4> HIDE DEF r2
      <4>4. Len(r2) >= Header
        BY <1>10, <4>3, HeaderPositive
      <4>5. Rest(chan'[C]) = r2
        BY <1>6, <1>12, <2>2 DEF r2
      <4>6. CASE r[1].of.length > MaxPayload(C)
        BY <4>3, <4>4, <4>5, <4>6 DEF Blocked, MaxPayload
      <4>7. CASE \E i \in 1 .. r[1].of.length : Header + i <= Len(r) /\ ~r[Header + i].intact
        <5>1. PICK i \in 1 .. r[1].of.length : Header + i <= Len(r) /\ ~r[Header + i].intact
          BY <4>7
        <5>2. Header + i \in 1 .. Len(r) /\ Header + i <= Len(r) + 1
          BY <1>10, <5>1, HeaderPositive
        <5>3. r2[Header + i] = r[Header + i]
          BY <1>13, <5>2 DEF r2
        <5>4. i \in 1 .. r2[1].of.length /\ Header + i <= Len(r2) /\ ~r2[Header + i].intact
          BY <4>3, <5>1, <5>2, <5>3
        <5> QED  BY <4>4, <4>5, <5>4 DEF Blocked
      <4> QED  BY <4>2, <4>6, <4>7
    <3>3. /\ chan'[C].doing = chan[C].doing /\ chan'[C].broken = chan[C].broken
          /\ chan'[C].frame = chan[C].frame
      BY <1>6, <1>12, <2>2
    <3> HIDE DEF C
    <3> QED  BY <1>2, <1>11, <3>1, <3>2, <3>3 DEF ClientOK, C
  <2> QED  BY <2>1, <2>2
<1>22. ConnectionOK(c)'
  <2>1. /\ ChannelOK(C)' /\ StreamOK(C)' /\ UnsentOK(C)'
        /\ ChannelOK(S)' /\ StreamOK(S)' /\ UnsentOK(S)'
    BY <1>1, <1>14, <1>15, <1>16, <1>17, <1>18
  <2> QED  BY <1>19, <1>20, <1>21, <2>1 DEF ConnectionOK
<1> QED  BY <1>3, <1>7, <1>9, <1>22 DEF StepOK

(* A receive that fails keeps the invariant.                                *)
LEMMA RecvFailsStep ==
  ASSUME TypeOK, NEW c \in Client, ConnectionOK(c),
         NEW e \in {ClientEnd(c), ServerEnd(c)}, RecvFails(e)
  PROVE  StepOK(c) /\ UNCHANGED <<sent, got>>
<1> DEFINE C == ClientEnd(c)
           S == ServerEnd(c)
           ch == chan[e]
           d == chan'[e]
           r == Rest(chan[e])
<1>1. /\ C \in End /\ S \in End /\ Peer(C) = S /\ Peer(S) = C /\ C # S /\ e \in End
      /\ {e, Peer(e)} = {C, S}
  BY ConnectionFacts
<1>2. /\ ChannelOK(C) /\ StreamOK(C) /\ UnsentOK(C)
      /\ ChannelOK(S) /\ StreamOK(S) /\ UnsentOK(S)
      /\ CorrelationsOK(c) /\ WorkerOK(c) /\ ClientOK(c) /\ ChannelOK(e)
  BY DEF ConnectionOK
<1>3. /\ ch.doing \in {"header", "payload"} /\ Have(ch) < ch.needed
      /\ e \in open => wire[e] = <<>> /\ Peer(e) \notin open
      /\ chan' = [chan EXCEPT ![e] = [Failed(ch) EXCEPT !.buffer = SubSeq(@, 1, ch.current)]]
      /\ UNCHANGED <<wire, open, faults, client, worker, fabricVars, sent, got>>
  <2>1. /\ ch.doing \in {"header", "payload"} /\ Have(ch) < ch.needed
        /\ UNCHANGED <<wire, open, faults, client, worker, fabricVars, sent, got>>
    BY DEF RecvFails, netVars, logVars
  <2>2. e \in open => wire[e] = <<>> /\ Peer(e) \notin open
    BY DEF RecvFails
  <2>3. chan' = [chan EXCEPT ![e] = [Failed(ch) EXCEPT !.buffer = SubSeq(@, 1, ch.current)]]
    BY DEF RecvFails
  <2> QED  BY <2>1, <2>2, <2>3
<1>4. /\ d = [Failed(ch) EXCEPT !.buffer = SubSeq(@, 1, ch.current)]
      /\ \A x \in End : x # e => chan'[x] = chan[x]
  BY <1>1, <1>3 DEF TypeOK
<1>5. ch \in ChannelType /\ ch.begin = 0 /\ ch.current <= Len(ch.buffer)
  BY <1>1, <1>2, <1>3, EndTypes DEF ChannelOK
<1>6. /\ d \in ChannelType /\ d.begin <= Len(d.buffer)
      /\ d.doing = "failed" /\ d.out = <<>> /\ d.broken
      /\ Len(Rest(d)) <= Len(r)
      /\ \A i \in 1 .. Len(Rest(d)) : Rest(d)[i] = r[i]
  <2> HIDE DEF d, ch
  <2>1. /\ d \in ChannelType /\ d.begin <= Len(d.buffer)
        /\ d.doing = "failed" /\ d.out = <<>> /\ d.broken
        /\ Len(Rest(d)) <= Len(Rest(ch))
        /\ \A i \in 1 .. Len(Rest(d)) : Rest(d)[i] = Rest(ch)[i]
    BY <1>4, <1>5, GiveUpFacts
  <2> QED  BY <2>1 DEF ch
<1>7. TypeOK'
  BY <1>1, <1>3, <1>4, <1>6 DEF TypeOK, fabricVars
<1>8. \A x \in End : x # e => SameEnd(x)
  BY <1>3, <1>4 DEF SameEnd
<1>9. \A b \in Client : b # c => SameConnection(b)
  BY <1>3, <1>8, OthersSame
<1>10. /\ r \in Seq(CellType) /\ Len(r) \in Nat /\ Have(ch) = Len(r) /\ wire[e] \in Seq(CellType)
       /\ \A i \in 1 .. Len(r) : r[i] = ch.buffer[ch.begin + i]
  BY <1>1, <1>2, ChannelRest, EndTypes
<1>11. Rest(d) \in Seq(CellType) /\ Len(Rest(d)) \in Nat
  BY <1>6, RestFacts, CellsLength
<1>12. Loses(e) /\ ChannelOK(e)'
  <2>1. ChannelOK(e)'
    BY <1>6 DEF ChannelOK
  <2>2. Alike(Rest(d), r)
    BY <1>6 DEF Alike
  <2>3. e \in open' => e \in open /\ wire'[e] = <<>> /\ wire'[e] = wire[e]
    BY <1>3
  <2>4. Alike(wire[e], wire[e])
    BY <1>10, AlikeSelf
  <2> QED  BY <1>3, <1>6, <1>10, <1>11, <2>1, <2>2, <2>3, <2>4 DEF Loses
<1>13. Loses(C) /\ ChannelOK(C)' /\ Loses(S) /\ ChannelOK(S)'
  BY <1>1, <1>2, <1>8, <1>12, SameLoses
<1>14. CorrelationsOK(c)'
  BY <1>2, <1>3, CorrelationsStay
<1>15. WorkerOK(c)'
  <2>1. CASE e = C
    <3>1. SameEnd(S)
      BY <1>1, <1>8, <2>1
    <3> QED  BY <1>2, <1>3, <3>1, WorkerStays DEF SameEnd
  <2>2. CASE e = S
    <3>1. worker[c] \in {"greeting", "serving"} /\ chan[S].doing \in {"header", "payload"}
      BY <1>2, <1>3, <2>2, Working
    <3>2. chan'[S].doing = "failed"
      BY <1>6, <2>2
    <3> QED  BY <1>2, <1>3, <3>1, <3>2 DEF WorkerOK
  <2> QED  BY <2>1, <2>2
<1>16. ClientOK(c)'
  <2>1. CASE e = S
    <3>1. SameEnd(C)
      BY <1>1, <1>8, <2>1
    <3>2. client[c].at # "away"
      BY <1>2, <1>3, <2>1, Working
    <3>3. Blocked(C) => Blocked(C)'
      BY <1>1, <1>3, <3>1, BlockedStays DEF SameEnd
    <3> QED  BY <1>2, <1>3, <3>1, <3>2, <3>3, ClientStays DEF SameEnd
  <2>2. CASE e = C
    <3>1. client[c].at \notin {"away", "exited", "ready"}
      BY <1>2, <1>3, <2>2, Working
    <3>2. C \in open /\ S \notin open /\ wire[C] = <<>>
      BY <1>1, <1>2, <1>3, <2>2, <3>1 DEF ClientOK
    <3>3. Blocked(C)'
      <4> DEFINE r2 == Rest(d)
      <4>1. r2 = Rest(chan'[C]) /\ Len(r2) \in Nat /\ Len(r2) <= Len(r)
        BY <1>6, <1>11, <2>2
      <4>2. S \notin open' /\ wire'[C] = <<>>
        BY <1>3, <3>2
      <4>3. Len(r2) < Header \/ Len(r2) < Size(r2[1].of)
        <5>1. CASE ch.doing = "header"
          <6>1. ch.needed = Header
            BY <1>2, <5>1 DEF ChannelOK
          <6>2. Len(r) < Header
            BY <1>3, <1>10, <6>1
          <6> HIDE DEF r2, r
          <6> QED  BY <1>10, <4>1, <6>2, HeaderPositive
        <5>2. CASE ch.doing = "payload"
          <6>1. Have(ch) >= Header /\ ch.needed = Size(ch.buffer[ch.begin + 1].of)
            BY <1>2, <5>2 DEF ChannelOK
          <6>2. 1 \in 1 .. Len(r)
            BY <1>10, <6>1, HeaderPositive
          <6>3. r[1] = ch.buffer[ch.begin + 1]
            BY <1>10, <6>2
          <6>4. Len(r) < Size(r[1].of) /\ Size(r[1].of) \in Nat
            <7>1. r[1] \in CellType
              BY <1>10, <6>2, ElementOfSeq
            <7>2. Size(r[1].of) \in Nat
              BY <7>1, SizeType DEF CellType
            <7> QED  BY <1>3, <1>10, <6>1, <6>3, <7>2
          <6>5. CASE Len(r2) >= 1
            <7>1. r2[1] = r[1]
              BY <1>6, <1>11, <6>5
            <7> HIDE DEF r2, r
            <7> QED  BY <1>10, <4>1, <6>4, <7>1
          <6>6. CASE Len(r2) < 1
            <7> HIDE DEF r2
            <7> QED  BY <4>1, <6>6, HeaderPositive
          <6> HIDE DEF r2
          <6> QED  BY <4>1, <6>5, <6>6
        <5> QED  BY <1>3, <5>1, <5>2
      <4> HIDE DEF r2
      <4> QED  BY <1>1, <4>1, <4>2, <4>3 DEF Blocked
    <3>4. chan'[C].doing = "failed" /\ chan'[C].broken
      BY <1>6, <2>2
    <3>5. client' = client /\ open' = open /\ sent' = sent /\ got' = got
      BY <1>3
    <3> HIDE DEF C, d
    <3> QED  BY <1>2, <3>1, <3>3, <3>4, <3>5 DEF ClientOK, C
  <2> QED  BY <2>1, <2>2
<1>17. ~(C \in open' /\ S \in open')
  BY <1>1, <1>3
<1>18. ConnectionOK(c)'
  BY <1>13, <1>14, <1>15, <1>16, <1>17, LossyStep
<1> QED  BY <1>3, <1>7, <1>9, <1>18 DEF StepOK

-----------------------------------------------------------------------------
(* Exit, WorkerLeaves, Interrupt, Reset and Damage.                         *)

(* A client that ends keeps the invariant.                                  *)
LEMMA ExitStep ==
  ASSUME TypeOK, NEW c \in Client, ConnectionOK(c), Exit(c)
  PROVE  StepOK(c) /\ UNCHANGED <<sent, got, worker, fabricVars>>
<1> DEFINE C == ClientEnd(c)
           S == ServerEnd(c)
<1>1. C \in End /\ S \in End /\ Peer(C) = S /\ Peer(S) = C /\ C # S
  BY ConnectionFacts
<1>2. /\ ChannelOK(C) /\ ChannelOK(S) /\ CorrelationsOK(c) /\ WorkerOK(c) /\ ClientOK(c)
  BY DEF ConnectionOK
<1>3. /\ client[c].at \notin {"away", "exited"}
      /\ client' = [client EXCEPT ![c].at = "exited", ![c].request = NoFrame]
      /\ open' = open \ {C}
      /\ chan' = [chan EXCEPT ![C] = NewChannel]
      /\ wire' = [wire EXCEPT ![C] = <<>>]
      /\ UNCHANGED <<faults, worker, fabricVars, sent, got>>
  BY DEF Exit, logVars
<1>4. /\ chan'[C] = NewChannel /\ wire'[C] = <<>> /\ C \notin open'
      /\ \A x \in End : x # C => chan'[x] = chan[x] /\ wire'[x] = wire[x]
      /\ \A x \in End : x # C => (x \in open' <=> x \in open)
  BY <1>1, <1>3 DEF TypeOK
<1>5. /\ client'[c].at = "exited"
      /\ client'[c].next_correlation = client[c].next_correlation
      /\ \A b \in Client : b # c => client'[b] = client[b]
      /\ client' \in [Client -> ClientType]
  <2>1. client[c] \in ClientType /\ client \in [Client -> ClientType]
    BY DEF TypeOK
  <2>2. client' = [client EXCEPT ![c] = [[client[c] EXCEPT !.at = "exited"]
                                          EXCEPT !.request = NoFrame]]
    BY <1>3, <2>1
  <2> DEFINE n == [[client[c] EXCEPT !.at = "exited"] EXCEPT !.request = NoFrame]
  <2>3. /\ n \in ClientType /\ n.at = "exited"
        /\ n.next_correlation = client[c].next_correlation
    BY <2>1, NewChannelFacts DEF ClientType
  <2> HIDE DEF n
  <2>4. client' = [client EXCEPT ![c] = n]
    BY <2>2 DEF n
  <2> QED  BY <2>1, <2>3, <2>4
<1>6. TypeOK'
  <2>1. chan' \in [End -> ChannelType] /\ wire' \in [End -> Seq(CellType)] /\ open' \subseteq End
    BY <1>1, <1>3, NewChannelFacts, EmptySeq DEF TypeOK
  <2> QED  BY <1>3, <1>5, <2>1 DEF TypeOK, fabricVars
<1>7. \A x \in End : x # C => SameEnd(x)
  BY <1>3, <1>4 DEF SameEnd
<1>8. \A b \in Client : b # c => SameConnection(b)
  BY <1>3, <1>5, <1>7, OthersSame
<1>9. Loses(C) /\ ChannelOK(C)'
  BY <1>1, <1>2, <1>3, <1>4, LetGo
<1>10. Loses(S) /\ ChannelOK(S)'
  BY <1>1, <1>2, <1>7, SameLoses
<1>11. CorrelationsOK(c)'
  BY <1>2, <1>3, <1>5, CorrelationsStay
<1>12. WorkerOK(c)'
  <2>1. SameEnd(S)
    BY <1>1, <1>7
  <2> QED  BY <1>2, <1>3, <2>1, WorkerStays DEF SameEnd
<1>13. ClientOK(c)'
  BY <1>4, <1>5 DEF ClientOK
<1>14. ConnectionOK(c)'
  BY <1>4, <1>9, <1>10, <1>11, <1>12, <1>13, LossyStep
<1> QED  BY <1>3, <1>6, <1>8, <1>14 DEF StepOK

(* The socket, the channel and the input of the worker of c are gone.       *)
LEMMA CloseStep ==
  ASSUME TypeOK, NEW c \in Client, ConnectionOK(c), Close(c),
         worker[c] \in {"greeting", "serving"},
         UNCHANGED <<faults, client, sent, got>>,
         decisions' \in Seq(DecisionType), registered' \in Seq(Nat),
         pending' \in Seq(Nat), dropped' \subseteq Nat
  PROVE  StepOK(c)
<1> DEFINE C == ClientEnd(c)
           S == ServerEnd(c)
<1>1. C \in End /\ S \in End /\ Peer(C) = S /\ Peer(S) = C /\ C # S
  BY ConnectionFacts
<1>2. /\ ChannelOK(C) /\ ChannelOK(S) /\ CorrelationsOK(c) /\ WorkerOK(c) /\ ClientOK(c)
  BY DEF ConnectionOK
<1>3. /\ worker' = [worker EXCEPT ![c] = "left"]
      /\ open' = open \ {S}
      /\ chan' = [chan EXCEPT ![S] = NewChannel]
      /\ wire' = [wire EXCEPT ![S] = <<>>]
      /\ UNCHANGED <<faults, client, sent, got>>
  BY DEF Close
<1>4. /\ chan'[S] = NewChannel /\ wire'[S] = <<>> /\ S \notin open'
      /\ \A x \in End : x # S => chan'[x] = chan[x] /\ wire'[x] = wire[x]
      /\ \A x \in End : x # S => (x \in open' <=> x \in open)
      /\ worker'[c] = "left" /\ \A b \in Client : b # c => worker'[b] = worker[b]
  BY <1>1, <1>3 DEF TypeOK
<1>5. TypeOK'
  <2>1. chan' \in [End -> ChannelType] /\ wire' \in [End -> Seq(CellType)] /\ open' \subseteq End
    BY <1>1, <1>3, NewChannelFacts, EmptySeq DEF TypeOK
  <2>2. worker' \in [Client -> {"away", "greeting", "serving", "left"}]
    BY <1>3 DEF TypeOK
  <2> QED  BY <1>3, <2>1, <2>2 DEF TypeOK
<1>6. \A x \in End : x # S => SameEnd(x)
  BY <1>3, <1>4 DEF SameEnd
<1>7. \A b \in Client : b # c => SameConnection(b)
  BY <1>3, <1>4, <1>6, OthersSame
<1>8. Loses(S) /\ ChannelOK(S)'
  BY <1>1, <1>2, <1>3, <1>4, LetGo
<1>9. Loses(C) /\ ChannelOK(C)'
  BY <1>1, <1>2, <1>6, SameLoses
<1>10. CorrelationsOK(c)'
  BY <1>2, <1>3, CorrelationsStay
<1>11. WorkerOK(c)'
  BY <1>2, <1>3, <1>4 DEF WorkerOK
<1>12. ClientOK(c)'
  <2>1. SameEnd(C)
    BY <1>1, <1>6
  <2>2. client[c].at # "away"
    BY <1>2 DEF ClientOK
  <2>3. Blocked(C) => Blocked(C)'
    BY <1>1, <1>4, <2>1, BlockedStays DEF SameEnd
  <2> QED  BY <1>2, <1>3, <2>1, <2>2, <2>3, ClientStays DEF SameEnd
<1>13. ConnectionOK(c)'
  BY <1>4, <1>8, <1>9, <1>10, <1>11, <1>12, LossyStep
<1> QED  BY <1>5, <1>7, <1>13 DEF StepOK

(* A shutdown that closes a connection keeps the invariant.                 *)
LEMMA InterruptStep ==
  ASSUME TypeOK, NEW c \in Client, ConnectionOK(c), Interrupt(c)
  PROVE  StepOK(c) /\ UNCHANGED <<sent, got, fabricVars>>
<1> DEFINE C == ClientEnd(c)
           S == ServerEnd(c)
<1>1. C \in End /\ S \in End /\ Peer(C) = S /\ Peer(S) = C /\ C # S
  BY ConnectionFacts
<1>2. /\ ChannelOK(C) /\ ChannelOK(S) /\ CorrelationsOK(c) /\ WorkerOK(c) /\ ClientOK(c)
  BY DEF ConnectionOK
<1>3. /\ faults' = faults + 1 /\ S \in open /\ open' = open \ {S}
      /\ UNCHANGED <<chan, wire, client, worker, fabricVars, sent, got>>
  BY DEF Interrupt, logVars
<1>4. TypeOK'
  BY <1>3 DEF TypeOK, fabricVars
<1>5. \A x \in End : x # S => SameEnd(x)
  BY <1>3 DEF SameEnd
<1>6. \A b \in Client : b # c => SameConnection(b)
  BY <1>3, <1>5, OthersSame
<1>7. Rest(chan[S]) \in Seq(CellType) /\ wire[S] \in Seq(CellType)
  BY <1>1, <1>2, ChannelRest, EndTypes
<1>8. Loses(S) /\ ChannelOK(S)'
  <2>1. ChannelOK(S)'
    BY <1>2, <1>3 DEF ChannelOK
  <2>2. S \notin open'
    BY <1>3
  <2> QED  BY <1>3, <1>7, <2>1, <2>2, AlikeSelf DEF Loses
<1>9. Loses(C) /\ ChannelOK(C)'
  BY <1>1, <1>2, <1>5, SameLoses
<1>10. CorrelationsOK(c)'
  BY <1>2, <1>3, CorrelationsStay
<1>11. WorkerOK(c)'
  BY <1>2, <1>3, WorkerStays
<1>12. ClientOK(c)'
  <2>1. SameEnd(C)
    BY <1>1, <1>5
  <2>2. client[c].at # "away"
    BY <1>2, <1>3 DEF ClientOK
  <2>3. Blocked(C) => Blocked(C)'
    BY <1>1, <1>3, <2>1, BlockedStays DEF SameEnd
  <2> QED  BY <1>2, <1>3, <2>1, <2>2, <2>3, ClientStays DEF SameEnd
<1>13. ConnectionOK(c)'
  BY <1>3, <1>8, <1>9, <1>10, <1>11, <1>12, LossyStep
<1> QED  BY <1>3, <1>4, <1>6, <1>13 DEF StepOK

(* What is on its way to an end is lost, or damaged.                        *)
LEMMA WireStep ==
  ASSUME TypeOK, NEW c \in Client, ConnectionOK(c),
         NEW e \in {ClientEnd(c), ServerEnd(c)}, NEW w \in Seq(CellType),
         wire' = [wire EXCEPT ![e] = w], wire[e] # <<>>, Alike(w, wire[e]),
         \/ w = <<>> /\ Peer(e) \notin open
         \/ Len(w) = Len(wire[e]),
         UNCHANGED <<chan, open, client, worker, fabricVars, sent, got>>, faults' \in Nat
  PROVE  StepOK(c)
<1> DEFINE C == ClientEnd(c)
           S == ServerEnd(c)
<1>1. /\ C \in End /\ S \in End /\ Peer(C) = S /\ Peer(S) = C /\ C # S /\ e \in End
      /\ {e, Peer(e)} = {C, S}
  BY ConnectionFacts
<1>2. /\ ChannelOK(C) /\ ChannelOK(S) /\ CorrelationsOK(c) /\ WorkerOK(c) /\ ClientOK(c)
      /\ ChannelOK(e)
  BY DEF ConnectionOK
<1>3. UNCHANGED <<chan, open, client, worker, fabricVars, sent, got>>
  OBVIOUS
<1>4. wire'[e] = w /\ \A x \in End : x # e => wire'[x] = wire[x]
  BY <1>1 DEF TypeOK
<1>5. TypeOK'
  <2>1. wire' \in [End -> Seq(CellType)]
    BY <1>1 DEF TypeOK
  <2> QED  BY <1>3, <2>1 DEF TypeOK, fabricVars
<1>6. \A x \in End : x # e => SameEnd(x)
  BY <1>3, <1>4 DEF SameEnd
<1>7. \A b \in Client : b # c => SameConnection(b)
  BY <1>3, <1>6, OthersSame
<1>8. Rest(chan[e]) \in Seq(CellType) /\ wire[e] \in Seq(CellType)
  BY <1>1, <1>2, ChannelRest, EndTypes
<1>9. Loses(e) /\ ChannelOK(e)'
  <2>1. ChannelOK(e)'
    BY <1>2, <1>3 DEF ChannelOK
  <2> QED  BY <1>3, <1>4, <1>8, <2>1, AlikeSelf DEF Loses
<1>10. C \in open' /\ S \in open' => LosesNothing(e)
  BY <1>1, <1>3, <1>4 DEF LosesNothing
<1>11. \A x \in {C, S} : x # e => Loses(x) /\ LosesNothing(x) /\ ChannelOK(x)'
  BY <1>1, <1>2, <1>6, SameLoses
<1>12. CorrelationsOK(c)'
  BY <1>2, <1>3, CorrelationsStay
<1>13. WorkerOK(c)'
  BY <1>2, <1>3, WorkerStays
<1>14. ClientOK(c)'
  <2>1. client[c].at # "away"
    BY <1>2 DEF ClientOK
  <2>2. Blocked(C) => Blocked(C)'
    <3>1. Rest(chan'[C]) = Rest(chan[C]) /\ (C \notin open => C \notin open')
      BY <1>3
    <3>2. Peer(C) \notin open /\ wire[C] = <<>> => Peer(C) \notin open' /\ wire'[C] = <<>>
      BY <1>1, <1>3, <1>4
    <3> QED  BY <1>1, <3>1, <3>2, BlockedStays
  <2> QED  BY <1>2, <1>3, <2>1, <2>2, ClientStays
<1>15. ConnectionOK(c)'
  <2>1. /\ Loses(C) /\ Loses(S) /\ ChannelOK(C)' /\ ChannelOK(S)'
        /\ C \in open' /\ S \in open' => LosesNothing(C) /\ LosesNothing(S)
    BY <1>9, <1>10, <1>11
  <2> QED  BY <1>12, <1>13, <1>14, <2>1, LossyStep
<1> QED  BY <1>5, <1>7, <1>15 DEF StepOK

(* A connection that is reset keeps the invariant.                          *)
LEMMA ResetStep ==
  ASSUME TypeOK, NEW c \in Client, ConnectionOK(c),
         NEW e \in {ClientEnd(c), ServerEnd(c)}, Reset(e)
  PROVE  StepOK(c) /\ UNCHANGED <<sent, got, fabricVars>>
<1>1. e \in End
  BY ConnectionFacts
<1>2. wire[e] \in Seq(CellType) /\ <<>> \in Seq(CellType)
  BY <1>1, EndTypes, EmptySeq
<1>3. /\ wire[e] # <<>> /\ Peer(e) \notin open
      /\ wire' = [wire EXCEPT ![e] = <<>>]
      /\ UNCHANGED <<chan, open, faults, client, worker, fabricVars, sent, got>>
  BY DEF Reset, logVars
<1>4. Alike(<<>>, wire[e])
  BY <1>2, AlikeSelf
<1>5. faults' \in Nat
  BY <1>3 DEF TypeOK
<1> QED  BY <1>2, <1>3, <1>4, <1>5, WireStep

(* A damaged payload cell keeps the invariant.                              *)
LEMMA DamageStep ==
  ASSUME TypeOK, NEW c \in Client, ConnectionOK(c),
         NEW e \in {ClientEnd(c), ServerEnd(c)}, Damage(e)
  PROVE  StepOK(c) /\ UNCHANGED <<sent, got, fabricVars>>
<1>1. e \in End
  BY ConnectionFacts
<1> DEFINE w == wire[e]
<1>2. w \in Seq(CellType) /\ wire \in [End -> Seq(CellType)]
  BY <1>1 DEF TypeOK
<1>3. PICK i \in DOMAIN w :
        /\ wire' = [wire EXCEPT ![e][i].intact = FALSE]
        /\ faults' = faults + 1
        /\ UNCHANGED <<chan, open, client, worker, fabricVars, sent, got>>
  BY DEF Damage, logVars
<1> DEFINE x == [w[i] EXCEPT !.intact = FALSE]
           w2 == [w EXCEPT ![i] = x]
<1>4. i \in 1 .. Len(w) /\ Len(w) \in Nat
  BY <1>2, LenProperties
<1>5. w[i] \in CellType
  BY <1>2, <1>4, ElementOfSeq
<1>6. x \in CellType /\ x.of = w[i].of /\ x.at = w[i].at
  BY <1>5 DEF CellType
<1>7. wire' = [wire EXCEPT ![e] = w2]
  BY <1>3
<1> HIDE DEF x
<1>8. w2 \in Seq(CellType) /\ Len(w2) = Len(w) /\ \A j \in 1 .. Len(w) : j # i => w2[j] = w[j]
  BY <1>2, <1>4, <1>6, ExceptSeq
<1>9. w2[i] = x
  BY <1>2, <1>4
<1> HIDE DEF w2
<1>10. Alike(w2, w)
  BY <1>4, <1>6, <1>8, <1>9 DEF Alike
<1>11. w # <<>>
  BY <1>4, EmptySeq
<1>12. faults' \in Nat
  BY <1>3 DEF TypeOK
<1>13. UNCHANGED <<chan, open, client, worker, fabricVars, sent, got>>
  BY <1>3
<1>14. StepOK(c)
  BY <1>7, <1>8, <1>10, <1>11, <1>12, <1>13, WireStep
<1> QED  BY <1>13, <1>14

-----------------------------------------------------------------------------
(* Welcomed and TransmitReturns.                                            *)

(* A client that goes on to its next command keeps the invariant, with an   *)
(* answer or after a failure.                                               *)
LEMMA ReadyStep ==
  ASSUME TypeOK, NEW c \in Client, ConnectionOK(c),
         client[c].at \in {"greeting", "transmit"},
         chan[ClientEnd(c)].doing \in {"got", "failed"},
         NEW n \in ClientType, n.at = "ready",
         n.next_correlation = client[c].next_correlation,
         client' = [client EXCEPT ![c] = n],
         chan' = [chan EXCEPT ![ClientEnd(c)].doing = "idle"],
         UNCHANGED <<wire, open, faults, worker, fabricVars, sent, got>>
  PROVE  StepOK(c)
<1> DEFINE C == ClientEnd(c)
           S == ServerEnd(c)
           d == [chan[C] EXCEPT !.doing = "idle"]
<1>1. C \in End /\ S \in End /\ Peer(C) = S /\ Peer(S) = C /\ C # S
  BY ConnectionFacts
<1>2. /\ ChannelOK(C) /\ ChannelOK(S) /\ CorrelationsOK(c) /\ WorkerOK(c) /\ ClientOK(c)
  BY DEF ConnectionOK
<1>3. UNCHANGED <<wire, open, faults, worker, fabricVars, sent, got>>
  OBVIOUS
<1>4. /\ chan' = [chan EXCEPT ![C] = d] /\ chan'[C] = d
      /\ \A x \in End : x # C => chan'[x] = chan[x]
  BY <1>1 DEF TypeOK
<1>5. client'[c] = n /\ \A b \in Client : b # c => client'[b] = client[b]
  BY DEF TypeOK
<1>6. chan[C] \in ChannelType
  BY <1>1, EndTypes
<1>7. /\ d \in ChannelType /\ d.doing = "idle" /\ d.buffer = chan[C].buffer
      /\ d.begin = chan[C].begin /\ d.out = chan[C].out /\ d.broken = chan[C].broken
  BY <1>6 DEF ChannelType
<1> HIDE DEF d
<1>8. TypeOK'
  BY <1>1, <1>3, <1>4, <1>7 DEF TypeOK, fabricVars
<1>9. \A x \in End : x # C => SameEnd(x)
  BY <1>3, <1>4 DEF SameEnd
<1>10. \A b \in Client : b # c => SameConnection(b)
  BY <1>3, <1>5, <1>9, OthersSame
<1>11. Rest(chan'[C]) = Rest(chan[C])
  BY <1>4, <1>7 DEF Rest
<1>12. Rest(chan[C]) \in Seq(CellType) /\ wire[C] \in Seq(CellType)
  BY <1>1, <1>2, ChannelRest, EndTypes
<1>13. chan[C].out = <<>>
  BY <1>2 DEF ChannelOK
<1>14. Loses(C) /\ LosesNothing(C) /\ ChannelOK(C)'
  <2>1. ChannelOK(C)'
    BY <1>2, <1>4, <1>7, <1>13 DEF ChannelOK
  <2> QED  BY <1>3, <1>4, <1>7, <1>11, <1>12, <2>1, AlikeSelf DEF Loses, LosesNothing
<1>15. Loses(S) /\ LosesNothing(S) /\ ChannelOK(S)'
  BY <1>1, <1>2, <1>9, SameLoses
<1>16. CorrelationsOK(c)'
  BY <1>2, <1>3, <1>5, CorrelationsStay
<1>17. WorkerOK(c)'
  <2>1. SameEnd(S)
    BY <1>1, <1>9
  <2> QED  BY <1>2, <1>3, <2>1, WorkerStays DEF SameEnd
<1>18. ClientOK(c)'
  <2>1. Blocked(C) => Blocked(C)'
    BY <1>1, <1>3, <1>11, BlockedStays
  <2>2. chan'[C].doing = "idle" /\ chan'[C].broken = chan[C].broken
    BY <1>4, <1>7
  <2>3. ~chan[C].broken => chan[C].doing = "got"
    BY <1>2 DEF ClientOK
  <2>4. /\ C \in open /\ Len(sent[C]) >= 1
        /\ chan[C].broken => Blocked(C)
        /\ ~chan[C].broken => Len(sent[C]) = Len(got[C])
                                + IF chan[C].doing \in {"sending", "header", "payload"} THEN 1 ELSE 0
    BY <1>2 DEF ClientOK
  <2>5. ~chan[C].broken => Len(sent[C]) = Len(got[C]) + 0
    BY <2>3, <2>4
  <2> HIDE DEF C
  <2> QED  BY <1>3, <1>5, <2>1, <2>2, <2>4, <2>5 DEF ClientOK, C
<1>19. ConnectionOK(c)'
  BY <1>14, <1>15, <1>16, <1>17, <1>18, LossyStep
<1> QED  BY <1>8, <1>10, <1>19 DEF StepOK

(* A client that takes a response, or gives up, keeps the invariant.        *)
LEMMA ClientStepStep ==
  ASSUME TypeOK, NEW c \in Client, ConnectionOK(c), ClientStep(c)
  PROVE  StepOK(c) /\ UNCHANGED <<sent, got, fabricVars>>
<1>1. client[c] \in ClientType /\ client \in [Client -> ClientType]
  BY DEF TypeOK
<1>2. CASE Welcomed(c)
  <2> DEFINE n == [client[c] EXCEPT !.at = "ready"]
  <2>1. /\ client[c].at = "greeting" /\ chan[ClientEnd(c)].doing = "got"
        /\ client' = [client EXCEPT ![c] = n]
        /\ chan' = [chan EXCEPT ![ClientEnd(c)].doing = "idle"]
        /\ UNCHANGED <<wire, open, faults, worker, fabricVars, sent, got>>
    BY <1>2 DEF Welcomed, netVars, logVars
  <2>2. n \in ClientType /\ n.at = "ready" /\ n.next_correlation = client[c].next_correlation
    BY <1>1 DEF ClientType
  <2> HIDE DEF n
  <2> QED  BY <2>1, <2>2, ReadyStep
<1>3. CASE TransmitReturns(c)
  <2> DEFINE m == [client[c] EXCEPT !.at = "ready"]
             n == [m EXCEPT !.request = NoFrame]
  <2>1. /\ client[c].at = "transmit" /\ chan[ClientEnd(c)].doing \in {"got", "failed"}
        /\ client' = [client EXCEPT ![c].at = "ready", ![c].request = NoFrame]
        /\ chan' = [chan EXCEPT ![ClientEnd(c)].doing = "idle"]
        /\ UNCHANGED <<wire, open, faults, worker, fabricVars, sent, got>>
    BY <1>3 DEF TransmitReturns, netVars, logVars
  <2>2. client' = [client EXCEPT ![c] = n]
    BY <1>1, <2>1
  <2>3. m \in ClientType /\ m.at = "ready" /\ m.next_correlation = client[c].next_correlation
    BY <1>1 DEF ClientType
  <2>4. n \in ClientType /\ n.at = "ready" /\ n.next_correlation = client[c].next_correlation
    <3> HIDE DEF m
    <3> QED  BY <2>3, NewChannelFacts DEF ClientType
  <2> HIDE DEF m, n
  <2> QED  BY <2>1, <2>2, <2>4, ReadyStep
<1> QED  BY <1>2, <1>3 DEF ClientStep

-----------------------------------------------------------------------------
(* Frames are sent: Transmit, Greet and Execute.                            *)

(* The unsent cells are what they were when nothing they depend on changes. *)
LEMMA UnsentSame ==
  ASSUME NEW e \in End, UnsentOK(e), chan'[e].out = chan[e].out, sent'[e] = sent[e],
         Rest(chan'[Peer(e)]) = Rest(chan[Peer(e)]), wire'[Peer(e)] = wire[Peer(e)],
         open' = open, got'[Peer(e)] = got[Peer(e)]
  PROVE  UnsentOK(e)'
BY DEF UnsentOK

(* One end sends the frame f.                                               *)
LEMMA SendsStreams ==
  ASSUME TypeOK, NEW c \in Client, ConnectionOK(c),
         NEW e \in {ClientEnd(c), ServerEnd(c)}, NEW f \in FrameType,
         chan[e].doing # "sending",
         chan' = [chan EXCEPT ![e] = send_frame(chan[e], f)],
         sent' = [sent EXCEPT ![e] = Append(sent[e], f)],
         UNCHANGED <<wire, open, got>>,
         \A m \in 1 .. Len(sent[e]) : sent[e][m] # f
  PROVE  /\ chan' \in [End -> ChannelType] /\ sent' \in [End -> Seq(FrameType)]
         /\ \A x \in {ClientEnd(c), ServerEnd(c)} :
              ChannelOK(x)' /\ StreamOK(x)' /\ UnsentOK(x)'
         /\ \A x \in End : x # e => SameEnd(x)
         /\ chan'[e].doing = "sending" /\ chan'[e].broken = chan[e].broken
         /\ Rest(chan'[e]) = Rest(chan[e])
         /\ sent'[e] = Append(sent[e], f) /\ Len(sent'[e]) = Len(sent[e]) + 1
         /\ sent'[e][Len(sent'[e])] = f
         /\ \A i \in 1 .. Len(sent[e]) : sent'[e][i] = sent[e][i]
<1> DEFINE C == ClientEnd(c)
           S == ServerEnd(c)
           p == Peer(e)
           d == chan'[e]
<1>1. /\ C \in End /\ S \in End /\ Peer(C) = S /\ Peer(S) = C /\ C # S
      /\ e \in End /\ p \in End /\ Peer(p) = e /\ p # e /\ {e, p} = {C, S}
  BY ConnectionFacts
<1>2. /\ ChannelOK(e) /\ StreamOK(e) /\ UnsentOK(e)
      /\ ChannelOK(p) /\ StreamOK(p) /\ UnsentOK(p)
  BY <1>1 DEF ConnectionOK
<1>3. /\ d = send_frame(chan[e], f) /\ \A x \in End : x # e => chan'[x] = chan[x]
      /\ sent'[e] = Append(sent[e], f) /\ \A x \in End : x # e => sent'[x] = sent[x]
      /\ open' = open /\ wire' = wire /\ got' = got
  BY <1>1 DEF TypeOK
<1>4. /\ chan[e] \in ChannelType /\ chan[e].begin <= Len(chan[e].buffer)
      /\ sent[e] \in Seq(FrameType) /\ got[p] \in Seq(FrameType)
      /\ wire[p] \in Seq(CellType) /\ got[e] \in Seq(FrameType)
  BY <1>1, <1>2, EndTypes DEF ChannelOK
<1>5. /\ d \in ChannelType /\ d.doing = "sending" /\ d.out = Cells(f)
      /\ d.buffer = chan[e].buffer /\ d.begin = chan[e].begin /\ Rest(d) = Rest(chan[e])
      /\ d.broken = chan[e].broken
  BY <1>3, <1>4, SendFrameFacts
<1>6. Append(sent[e], f) \in Seq(FrameType)
       /\ Len(Append(sent[e], f)) = Len(sent[e]) + 1
       /\ Append(sent[e], f)[Len(sent[e]) + 1] = f
       /\ \A i \in 1 .. Len(sent[e]) : Append(sent[e], f)[i] = sent[e][i]
  BY <1>4, AppendProperties
<1>7. chan' \in [End -> ChannelType] /\ sent' \in [End -> Seq(FrameType)]
  BY <1>1, <1>3, <1>5, <1>6 DEF TypeOK
<1>8. \A x \in End : x # e => SameEnd(x)
  BY <1>3 DEF SameEnd
<1>9. Rest(chan[p]) \in Seq(CellType) /\ chan[e].out = <<>>
  BY <1>1, <1>2, ChannelRest DEF ChannelOK
<1>10. /\ sent'[e] = Append(sent[e], f) /\ Len(sent'[e]) = Len(sent[e]) + 1
       /\ sent'[e][Len(sent'[e])] = f
       /\ \A i \in 1 .. Len(sent[e]) : sent'[e][i] = sent[e][i]
  BY <1>3, <1>6
<1>11. p = Peer(e) /\ e = Peer(p) /\ d = chan'[e]
  BY <1>1
<1> HIDE DEF p, d
<1>12. StreamOK(p)'
  <2> DEFINE r == Rest(chan[p])
             w == wire[p]
             log == sent[e]
             g == got[p]
  <2>1. /\ p \in End /\ e = Peer(p) /\ StreamOK(p) /\ open' = open
        /\ r \in Seq(CellType) /\ r = Rest(chan[p]) /\ Rest(chan'[p]) = r
        /\ w \in Seq(CellType) /\ w = wire[p] /\ wire'[p] = w
        /\ f \in FrameType /\ chan[e].out = <<>> /\ chan'[e].out = Cells(f)
        /\ log \in Seq(FrameType) /\ log = sent[e] /\ sent'[e] = Append(log, f)
        /\ g \in Seq(FrameType) /\ g = got[p] /\ got'[p] = g
    BY <1>1, <1>2, <1>3, <1>4, <1>5, <1>9, <1>11
  <2> HIDE DEF r, w, log, g
  <2> QED  BY <2>1, StreamSends
<1>13. StreamOK(e)'
  <2>1. Rest(chan'[e]) = Rest(chan[e]) /\ chan'[Peer(e)].out = chan[Peer(e)].out
    BY <1>1, <1>3, <1>5, <1>11
  <2> QED  BY <1>1, <1>2, <1>3, <1>11, <2>1, StreamSame
<1>14. UnsentOK(e)'
  <2> DEFINE r == Rest(chan[p])
             w == wire[p]
             log == sent[e]
  <2>1. /\ e \in End /\ p \in End /\ p = Peer(e) /\ e = Peer(p) /\ StreamOK(p) /\ open' = open
        /\ r \in Seq(CellType) /\ r = Rest(chan[p]) /\ Rest(chan'[p]) = r
        /\ w \in Seq(CellType) /\ w = wire[p] /\ wire'[p] = w
        /\ f \in FrameType /\ chan[e].out = <<>> /\ chan'[e].out = Cells(f)
        /\ log \in Seq(FrameType) /\ log = sent[e] /\ sent'[e] = Append(log, f)
        /\ got[p] \in Seq(FrameType) /\ got'[p] = got[p]
        /\ \A m \in 1 .. Len(log) : log[m] # f
    BY <1>1, <1>2, <1>3, <1>4, <1>5, <1>9, <1>11
  <2> HIDE DEF r, w, log
  <2> QED  BY <2>1, UnsentSends
<1>15. UnsentOK(p)'
  <2>1. /\ Rest(chan'[e]) = Rest(chan[e]) /\ chan'[p].out = chan[p].out
        /\ sent'[p] = sent[p] /\ got'[Peer(p)] = got[Peer(p)]
        /\ wire'[Peer(p)] = wire[Peer(p)] /\ open' = open
        /\ Rest(chan'[Peer(p)]) = Rest(chan[Peer(p)])
    BY <1>1, <1>3, <1>5, <1>11
  <2> QED  BY <1>1, <1>2, <2>1, UnsentSame
<1>16. ChannelOK(e)' /\ ChannelOK(p)'
  <2>1. ChannelOK(e)'
    BY <1>2, <1>5, <1>11, CellsFacts DEF ChannelOK
  <2>2. chan'[p] = chan[p]
    BY <1>1, <1>3
  <2> QED  BY <1>2, <2>1, <2>2 DEF ChannelOK
<1>17. \A x \in {C, S} : ChannelOK(x)' /\ StreamOK(x)' /\ UnsentOK(x)'
  BY <1>1, <1>12, <1>13, <1>14, <1>15, <1>16
<1> QED  BY <1>5, <1>7, <1>8, <1>10, <1>17 DEF d

(* transmit sends one frame, or none when it is above the ceiling, and      *)
(* keeps the invariant.                                                     *)
LEMMA TransmitStep ==
  ASSUME TypeOK, NEW c \in Client, ConnectionOK(c),
         NEW op \in {"pull", "failover"}, NEW key \in Nat, NEW size \in Nat,
         Transmit(c, op, key, size)
  PROVE  /\ StepOK(c) /\ UNCHANGED <<got, fabricVars>>
         /\ sent'[ServerEnd(c)] = sent[ServerEnd(c)]
         /\ \/ sent' = sent
            \/ \E f \in FrameType :
                 sent' = [sent EXCEPT ![ClientEnd(c)] = Append(sent[ClientEnd(c)], f)]
<1> DEFINE C == ClientEnd(c)
           S == ServerEnd(c)
           next == client[c].next_correlation
           request == Frame("Request", next, size, op, key, 0)
<1>1. C \in End /\ S \in End /\ Peer(C) = S /\ Peer(S) = C /\ C # S
  BY ConnectionFacts
<1>2. /\ ChannelOK(C) /\ ChannelOK(S) /\ CorrelationsOK(c) /\ WorkerOK(c) /\ ClientOK(c)
  BY DEF ConnectionOK
<1>3. client[c] \in ClientType /\ client \in [Client -> ClientType] /\ next \in Nat
  <2>1. client[c] \in ClientType /\ client \in [Client -> ClientType]
    BY DEF TypeOK
  <2> QED  BY <2>1 DEF ClientType
<1>4. request \in FrameType /\ request.correlation = next
  <2>1. "Request" \in Kinds /\ op \in Ops
    BY DEF Kinds, Ops
  <2>2. 0 \in Nat
    OBVIOUS
  <2> HIDE DEF next
  <2>3. "Request" \in Kinds /\ op \in Ops /\ next \in Nat /\ size \in Nat /\ key \in Nat
    BY <1>3, <2>1
  <2> QED  BY <2>2, <2>3, FrameIs
<1>5. /\ client[c].at = "ready" /\ chan[C].doing = "idle" /\ C \in open
      /\ Len(sent[C]) >= 1
      /\ chan[C].broken => Blocked(C)
  BY <1>2 DEF Transmit, ClientOK
<1>6. Len(sent[C]) = Len(got[C]) \/ chan[C].broken
  <2>1. ~chan[C].broken => Len(sent[C]) = Len(got[C])
                             + IF chan[C].doing \in {"sending", "header", "payload"} THEN 1 ELSE 0
    BY <1>2, <1>5 DEF ClientOK
  <2>2. Len(got[C]) \in Nat
    BY <1>1, EndTypes
  <2> QED  BY <1>5, <2>1, <2>2
<1> HIDE DEF request
<1>7. CASE size <= MaxPayload(C)
  <2> DEFINE n == [at |-> "transmit", next_correlation |-> next + 1, request |-> request]
  <2>1. /\ client' = [client EXCEPT ![c] = n]
        /\ chan' = [chan EXCEPT ![C] = send_frame(chan[C], request)]
        /\ sent' = [sent EXCEPT ![C] = Append(sent[C], request)]
        /\ UNCHANGED <<wire, open, faults, worker, fabricVars, got>>
    BY <1>7 DEF Transmit, netVars, request
  <2>2. n \in ClientType /\ n.at = "transmit" /\ n.next_correlation = next + 1
         /\ n.request = request
    BY <1>3, <1>4 DEF ClientType
  <2> HIDE DEF n
  <2>3. /\ client'[c] = n /\ \A b \in Client : b # c => client'[b] = client[b]
        /\ client' \in [Client -> ClientType]
    BY <1>3, <2>1, <2>2
  <2>4. /\ sent[C] \in Seq(FrameType) /\ Len(sent[C]) \in Nat
        /\ \A i \in 1 .. Len(sent[C]) : sent[C][i] \in FrameType
    BY <1>1, EndTypes, ElementOfSeq
  <2>5. \A m \in 1 .. Len(sent[C]) : sent[C][m] # request
    <3>1. SUFFICES ASSUME NEW m \in 1 .. Len(sent[C])
                   PROVE  sent[C][m].correlation < next /\ sent[C][m].correlation \in Nat
      BY <1>3, <1>4
    <3> QED  BY <1>2, <2>4, FrameFacts DEF CorrelationsOK
  <2>6. /\ chan' \in [End -> ChannelType] /\ sent' \in [End -> Seq(FrameType)]
        /\ \A x \in {C, S} : ChannelOK(x)' /\ StreamOK(x)' /\ UnsentOK(x)'
        /\ \A x \in End : x # C => SameEnd(x)
        /\ chan'[C].doing = "sending" /\ chan'[C].broken = chan[C].broken
        /\ Rest(chan'[C]) = Rest(chan[C])
        /\ sent'[C] = Append(sent[C], request) /\ Len(sent'[C]) = Len(sent[C]) + 1
        /\ sent'[C][Len(sent'[C])] = request
        /\ \A i \in 1 .. Len(sent[C]) : sent'[C][i] = sent[C][i]
    BY <1>4, <1>5, <2>1, <2>5, SendsStreams
  <2>7. TypeOK'
    BY <2>1, <2>3, <2>6 DEF TypeOK, fabricVars
  <2>8. \A b \in Client : b # c => SameConnection(b)
    BY <1>1, <2>1, <2>3, <2>6, OthersSame
  <2>9. CorrelationsOK(c)'
    <3>1. \A i \in 1 .. Len(sent[C]) :
            /\ sent[C][i].correlation < next /\ sent[C][i].correlation \in Nat
            /\ \A j \in 1 .. i - 1 : sent[C][j].correlation < sent[C][i].correlation
      BY <1>2, <2>4, FrameFacts DEF CorrelationsOK
    <3>2. SUFFICES ASSUME NEW i \in 1 .. Len(sent'[C])
                   PROVE  /\ sent'[C][i].correlation < next + 1
                          /\ \A j \in 1 .. i - 1 : sent'[C][j].correlation < sent'[C][i].correlation
      BY <2>2, <2>3 DEF CorrelationsOK
    <3>3. CASE i \in 1 .. Len(sent[C])
      <4>1. \A j \in 1 .. i - 1 : j \in 1 .. Len(sent[C])
        BY <2>4, <3>3
      <4> QED  BY <1>3, <2>6, <3>1, <3>3, <4>1
    <3>4. CASE i = Len(sent[C]) + 1
      <4>1. sent'[C][i].correlation = next
        BY <1>4, <2>6, <3>4
      <4>2. \A j \in 1 .. i - 1 : j \in 1 .. Len(sent[C])
        BY <2>4, <3>4
      <4> QED  BY <1>3, <2>6, <3>1, <4>1, <4>2
    <3> QED  BY <2>4, <2>6, <3>3, <3>4
  <2>10. WorkerOK(c)'
    <3>1. SameEnd(S)
      BY <1>1, <2>6
    <3> QED  BY <1>2, <2>1, <3>1, WorkerStays DEF SameEnd
  <2>11. ClientOK(c)'
    <3>1. Blocked(C) => Blocked(C)'
      BY <1>1, <2>1, <2>6, BlockedStays
    <3>2. /\ client'[c].at = "transmit" /\ client'[c].request = request
          /\ open' = open /\ got' = got
      BY <2>1, <2>2, <2>3
    <3>3. Len(sent'[C]) >= 2 /\ Len(sent'[C]) >= 1
      BY <1>5, <2>4, <2>6
    <3>4. ~chan'[C].broken => Len(sent'[C]) = Len(got'[C]) + 1
      BY <1>6, <2>6, <3>2
    <3> HIDE DEF C
    <3> QED  BY <1>5, <2>6, <3>1, <3>2, <3>3, <3>4 DEF ClientOK, C
  <2>12. ConnectionOK(c)'
    BY <2>6, <2>9, <2>10, <2>11 DEF ConnectionOK
  <2>13. sent'[S] = sent[S]
    BY <1>1, <2>6 DEF SameEnd
  <2> QED  BY <1>4, <2>1, <2>7, <2>8, <2>12, <2>13 DEF StepOK
<1>8. CASE ~(size <= MaxPayload(C))
  <2> DEFINE n == [at |-> "ready", next_correlation |-> next + 1, request |-> NoFrame]
  <2>1. /\ client' = [client EXCEPT ![c] = n]
        /\ UNCHANGED <<chan, sent, wire, open, faults, worker, fabricVars, got>>
    BY <1>8 DEF Transmit, netVars
  <2>2. n \in ClientType /\ n.at = "ready" /\ n.next_correlation = next + 1
    BY <1>3, NewChannelFacts DEF ClientType
  <2> HIDE DEF n
  <2>3. /\ client'[c] = n /\ \A b \in Client : b # c => client'[b] = client[b]
        /\ client' \in [Client -> ClientType]
    BY <1>3, <2>1, <2>2
  <2>4. TypeOK'
    BY <2>1, <2>3 DEF TypeOK, fabricVars
  <2>5. \A x \in End : SameEnd(x)
    BY <2>1 DEF SameEnd
  <2>6. \A b \in Client : b # c => SameConnection(b)
    BY <2>1, <2>3, <2>5, OthersSame
  <2>7. /\ Loses(C) /\ LosesNothing(C) /\ ChannelOK(C)'
        /\ Loses(S) /\ LosesNothing(S) /\ ChannelOK(S)'
    BY <1>1, <1>2, <2>5, SameLoses
  <2>8. CorrelationsOK(c)'
    <3>1. \A i \in 1 .. Len(sent[C]) :
            sent[C][i].correlation < next /\ sent[C][i].correlation \in Nat
      <4>1. \A i \in 1 .. Len(sent[C]) : sent[C][i] \in FrameType
        BY <1>1, EndTypes, ElementOfSeq
      <4> QED  BY <1>2, <4>1, FrameFacts DEF CorrelationsOK
    <3>2. \A i \in 1 .. Len(sent[C]) : sent[C][i].correlation < next + 1
      BY <1>3, <3>1
    <3> QED  BY <1>2, <2>1, <2>2, <2>3, <3>2 DEF CorrelationsOK
  <2>9. WorkerOK(c)'
    BY <1>2, <2>1, WorkerStays
  <2>10. ClientOK(c)'
    <3>1. Blocked(C) => Blocked(C)'
      BY <1>1, <2>1, BlockedStays
    <3>2. client'[c].at = "ready"
      BY <2>2, <2>3
    <3>3. ~chan[C].broken => Len(sent[C]) = Len(got[C]) + 0
      <4>1. Len(got[C]) \in Nat
        BY <1>1, EndTypes
      <4> QED  BY <1>6, <4>1
    <3> HIDE DEF C
    <3> QED  BY <1>5, <2>1, <3>1, <3>2, <3>3 DEF ClientOK, C
  <2>11. ConnectionOK(c)'
    BY <2>7, <2>8, <2>9, <2>10, LossyStep
  <2> QED  BY <2>1, <2>4, <2>6, <2>11 DEF StepOK
<1> QED  BY <1>7, <1>8

(* The worker of c answers the frame it received.                           *)
LEMMA ReplyStep ==
  ASSUME TypeOK, NEW c \in Client, ConnectionOK(c), NEW f \in FrameType, Reply(c, f),
         chan[ServerEnd(c)].doing = "got", worker[c] \in {"greeting", "serving"},
         f.correlation = chan[ServerEnd(c)].frame.correlation,
         worker[c] = "serving" => Answers(f, chan[ServerEnd(c)].frame),
         worker' = [worker EXCEPT ![c] = "serving"],
         UNCHANGED <<wire, open, faults, client, got>>,
         decisions' \in Seq(DecisionType), registered' \in Seq(Nat),
         pending' \in Seq(Nat), dropped' \subseteq Nat
  PROVE  StepOK(c) /\ sent' = [sent EXCEPT ![ServerEnd(c)] = Append(sent[ServerEnd(c)], f)]
<1> DEFINE C == ClientEnd(c)
           S == ServerEnd(c)
           fr == chan[S].frame
<1>1. C \in End /\ S \in End /\ Peer(C) = S /\ Peer(S) = C /\ C # S
  BY ConnectionFacts
<1>2. /\ CorrelationsOK(c) /\ WorkerOK(c) /\ ClientOK(c)
  BY DEF ConnectionOK
<1>3. /\ chan' = [chan EXCEPT ![S] = send_frame(chan[S], f)]
      /\ sent' = [sent EXCEPT ![S] = Append(sent[S], f)]
      /\ UNCHANGED <<wire, open, faults, client, got>>
  BY DEF Reply
<1>4. /\ Len(sent[S]) \in Nat /\ Len(got[S]) \in Nat
  BY <1>1, EndTypes
<1>5. /\ Len(got[S]) = Len(sent[S]) + 1 /\ fr = got[S][Len(got[S])]
      /\ \A i \in 1 .. Len(sent[S]) :
           /\ sent[S][i].correlation = got[S][i].correlation
           /\ i > 1 => Answers(sent[S][i], got[S][i])
  BY <1>2 DEF WorkerOK
<1>6. worker[c] = "greeting" => Len(sent[S]) = 0
  BY <1>2, EmptySeq DEF WorkerOK
<1>7. \A m \in 1 .. Len(sent[S]) : sent[S][m] # f
  <2>1. SUFFICES ASSUME NEW m \in 1 .. Len(sent[S])
                 PROVE  sent[S][m].correlation # f.correlation
    OBVIOUS
  <2>2. Len(got[S]) \in 1 .. Len(got[S]) /\ Len(got[S]) > m
    BY <1>4, <1>5
  <2>3. got[S][Len(got[S])].correlation # sent[S][m].correlation
    BY <2>2, LogsInjective
  <2> QED  BY <1>5, <2>3
<1>8. /\ chan' \in [End -> ChannelType] /\ sent' \in [End -> Seq(FrameType)]
      /\ \A x \in {C, S} : ChannelOK(x)' /\ StreamOK(x)' /\ UnsentOK(x)'
      /\ \A x \in End : x # S => SameEnd(x)
      /\ chan'[S].doing = "sending"
      /\ Len(sent'[S]) = Len(sent[S]) + 1 /\ sent'[S][Len(sent'[S])] = f
      /\ \A i \in 1 .. Len(sent[S]) : sent'[S][i] = sent[S][i]
  <2>1. UNCHANGED <<wire, open, got>>
    BY <1>3
  <2> QED  BY <1>3, <1>7, <2>1, SendsStreams
<1>9. /\ worker'[c] = "serving" /\ \A b \in Client : b # c => worker'[b] = worker[b]
      /\ worker' \in [Client -> {"away", "greeting", "serving", "left"}]
  BY DEF TypeOK
<1>10. TypeOK'
  BY <1>3, <1>8, <1>9 DEF TypeOK
<1>11. \A b \in Client : b # c => SameConnection(b)
  BY <1>1, <1>3, <1>8, <1>9, OthersSame
<1>12. CorrelationsOK(c)'
  <2>1. SameEnd(C)
    BY <1>1, <1>8
  <2> QED  BY <1>2, <1>3, <2>1, CorrelationsStay DEF SameEnd
<1>13. WorkerOK(c)'
  <2>1. got' = got /\ Len(sent'[S]) = Len(got[S])
    BY <1>3, <1>5, <1>8
  <2>2. ASSUME NEW i \in 1 .. Len(sent'[S])
        PROVE  /\ sent'[S][i].correlation = got[S][i].correlation
               /\ i > 1 => Answers(sent'[S][i], got[S][i])
    <3>1. CASE i \in 1 .. Len(sent[S])
      BY <1>5, <1>8, <3>1
    <3>2. CASE i = Len(sent[S]) + 1
      <4>1. sent'[S][i] = f /\ got[S][i] = fr
        BY <1>5, <1>8, <3>2
      <4>2. f.correlation = fr.correlation
        OBVIOUS
      <4>3. i > 1 => Answers(f, fr)
        BY <1>4, <1>6, <3>2
      <4> HIDE DEF fr
      <4> QED  BY <4>1, <4>2, <4>3
    <3> QED  BY <1>4, <1>8, <3>1, <3>2
  <2>3. sent'[S] # <<>>
    BY <1>4, <1>8, EmptySeq
  <2>4. /\ Len(sent'[S]) <= Len(got'[S]) /\ Len(got'[S]) = Len(sent'[S])
    BY <1>4, <2>1
  <2>5. \A i \in 1 .. Len(sent'[S]) :
          /\ sent'[S][i].correlation = got'[S][i].correlation
          /\ i > 1 => Answers(sent'[S][i], got'[S][i])
    BY <2>1, <2>2
  <2> HIDE DEF S
  <2> QED  BY <1>8, <1>9, <2>3, <2>4, <2>5 DEF WorkerOK, S
<1>14. ClientOK(c)'
  <2>1. SameEnd(C)
    BY <1>1, <1>8
  <2>2. client[c].at # "away"
    BY <1>2 DEF ClientOK
  <2>3. Blocked(C) => Blocked(C)'
    BY <1>1, <1>3, <2>1, BlockedStays DEF SameEnd
  <2> QED  BY <1>2, <1>3, <2>1, <2>2, <2>3, ClientStays DEF SameEnd
<1>15. ConnectionOK(c)'
  BY <1>8, <1>12, <1>13, <1>14 DEF ConnectionOK
<1> QED  BY <1>3, <1>10, <1>11, <1>15 DEF StepOK

(* The worker's greeting sends one frame and keeps the invariant.           *)
LEMMA GreetStep ==
  ASSUME TypeOK, NEW c \in Client, ConnectionOK(c), Greet(c)
  PROVE  /\ StepOK(c) /\ UNCHANGED <<got, fabricVars>>
         /\ \E f \in FrameType :
              /\ f.op = "welcome"
              /\ sent' = [sent EXCEPT ![ServerEnd(c)] = Append(sent[ServerEnd(c)], f)]
<1> DEFINE S == ServerEnd(c)
           f == Frame("Welcome", chan[S].frame.correlation, 1, "welcome", 0, 0)
<1>1. S \in End
  BY ConnectionFacts
<1>2. chan[S].frame \in FrameType
  BY <1>1, EndTypes DEF ChannelType
<1>3. f \in FrameType /\ f.correlation = chan[S].frame.correlation /\ f.op = "welcome"
  <2>1. \A n \in Nat : LET g == Frame("Welcome", n, 1, "welcome", 0, 0) IN
                        g \in FrameType /\ g.correlation = n /\ g.op = "welcome"
    <3>1. /\ "Welcome" \in Kinds /\ "welcome" \in Ops
          /\ 0 \in Nat /\ 1 \in Nat
      BY DEF Kinds, Ops
    <3> QED  BY <3>1, FrameIs
  <2>2. chan[S].frame.correlation \in Nat
    BY <1>2, FrameFacts
  <2> QED  BY <2>1, <2>2
<1>4. /\ worker[c] = "greeting" /\ chan[S].doing = "got"
      /\ worker' = [worker EXCEPT ![c] = "serving"]
      /\ Reply(c, f)
      /\ UNCHANGED <<wire, open, faults, client, fabricVars, got>>
  BY DEF Greet, netVars
<1>5. /\ decisions' \in Seq(DecisionType) /\ registered' \in Seq(Nat)
      /\ pending' \in Seq(Nat) /\ dropped' \subseteq Nat
  BY <1>4 DEF TypeOK, fabricVars
<1> HIDE DEF f
<1>6. /\ worker[c] \in {"greeting", "serving"} /\ UNCHANGED <<wire, open, faults, client, got>>
      /\ worker[c] = "serving" => Answers(f, chan[S].frame)
  BY <1>4
<1>7. StepOK(c) /\ sent' = [sent EXCEPT ![S] = Append(sent[S], f)]
  BY <1>3, <1>4, <1>5, <1>6, ReplyStep
<1> QED  BY <1>3, <1>4, <1>7

(* A client that connects sends its greeting and keeps the invariant.       *)
LEMMA ConnectStep ==
  ASSUME TypeOK, NEW c \in Client, ConnectionOK(c), Connect(c)
  PROVE  /\ StepOK(c) /\ UNCHANGED <<got, fabricVars>>
         /\ sent'[ServerEnd(c)] = sent[ServerEnd(c)]
         /\ \E f \in FrameType :
              sent' = [sent EXCEPT ![ClientEnd(c)] = Append(sent[ClientEnd(c)], f)]
<1> DEFINE C == ClientEnd(c)
           S == ServerEnd(c)
           hello == Frame("Hello", 1, 1, "hello", 0, 0)
<1>1. C \in End /\ S \in End /\ Peer(C) = S /\ Peer(S) = C /\ C # S
  BY ConnectionFacts
<1>2. ChannelOK(C) /\ ChannelOK(S) /\ CorrelationsOK(c) /\ WorkerOK(c) /\ ClientOK(c)
  BY DEF ConnectionOK
<1>3. hello \in FrameType /\ hello.correlation = 1
  <2>1. "Hello" \in Kinds /\ "hello" \in Ops /\ 0 \in Nat /\ 1 \in Nat
    BY DEF Kinds, Ops
  <2> QED  BY <2>1, FrameIs
<1>4. /\ client[c].at = "away"
      /\ client' = [client EXCEPT ![c].at = "greeting",
                                  ![c].next_correlation = client[c].next_correlation + 1]
      /\ worker' = [worker EXCEPT ![c] = "greeting"]
      /\ open' = open \cup {C, S}
      /\ chan' = [chan EXCEPT ![C] = send_frame(chan[C], hello), ![S] = recv_frame(chan[S])]
      /\ sent' = [sent EXCEPT ![C] = Append(sent[C], hello)]
      /\ UNCHANGED <<wire, faults, fabricVars, got>>
  BY <1>1 DEF Connect, TypeOK
<1> HIDE DEF hello
<1>5. /\ chan[C] = NewChannel /\ chan[S] = NewChannel /\ wire[C] = <<>> /\ wire[S] = <<>>
      /\ sent[C] = <<>> /\ sent[S] = <<>> /\ got[C] = <<>> /\ got[S] = <<>>
      /\ client[c].next_correlation = 1
  BY <1>2, <1>4 DEF ClientOK
<1>6. /\ chan'[C] = send_frame(NewChannel, hello) /\ chan'[S] = recv_frame(NewChannel)
      /\ \A x \in End : x # C /\ x # S => chan'[x] = chan[x]
      /\ sent'[C] = Append(<<>>, hello) /\ \A x \in End : x # C => sent'[x] = sent[x]
      /\ worker'[c] = "greeting" /\ \A b \in Client : b # c => worker'[b] = worker[b]
  BY <1>1, <1>4, <1>5 DEF TypeOK
<1>7. /\ client'[c].at = "greeting" /\ client'[c].next_correlation = 2
      /\ \A b \in Client : b # c => client'[b] = client[b]
      /\ client' \in [Client -> ClientType]
  <2> DEFINE z == client[c].next_correlation + 1
  <2>1. client[c] \in ClientType /\ client \in [Client -> ClientType] /\ z = 2
    BY <1>5 DEF TypeOK
  <2>2. client' = [client EXCEPT ![c].at = "greeting", ![c].next_correlation = z]
    BY <1>4
  <2> HIDE DEF z
  <2>3. client' = [client EXCEPT ![c] = [[client[c] EXCEPT !.at = "greeting"]
                                          EXCEPT !.next_correlation = z]]
    BY <2>1, <2>2
  <2> DEFINE n == [[client[c] EXCEPT !.at = "greeting"] EXCEPT !.next_correlation = z]
  <2>4. n \in ClientType /\ n.at = "greeting" /\ n.next_correlation = 2
    BY <2>1 DEF ClientType
  <2> HIDE DEF n
  <2>5. client' = [client EXCEPT ![c] = n]
    BY <2>3 DEF n
  <2> QED  BY <2>1, <2>4, <2>5
<1> DEFINE a == chan'[C]
           b == chan'[S]
           log == Append(<<>>, hello)
<1>8. /\ NewChannel \in ChannelType /\ NewChannel.begin <= Len(NewChannel.buffer)
      /\ Rest(NewChannel) = <<>> /\ NewChannel.out = <<>> /\ ~NewChannel.broken
      /\ <<>> \in Seq(CellType) /\ <<>> \in Seq(FrameType) /\ Len(<<>>) = 0
  BY NewChannelFacts, EmptySeq
<1>9. /\ a \in ChannelType /\ a.doing = "sending" /\ a.out = Cells(hello)
      /\ Rest(a) = <<>> /\ ~a.broken /\ a.begin <= Len(a.buffer)
  <2>1. /\ a \in ChannelType /\ a.doing = "sending" /\ a.out = Cells(hello)
        /\ a.buffer = NewChannel.buffer /\ a.begin = NewChannel.begin
        /\ Rest(a) = Rest(NewChannel) /\ a.broken = NewChannel.broken
    BY <1>3, <1>6, <1>8, SendFrameFacts
  <2> HIDE DEF a
  <2> QED  BY <1>8, <2>1
<1>10. /\ b \in ChannelType /\ b.begin <= Len(b.buffer) /\ Rest(b) = <<>>
       /\ b.needed = Header /\ b.doing = "header" /\ b.out = <<>>
       /\ Have(b) < b.needed => b.begin = 0 /\ b.current <= Len(b.buffer)
  <2>1. /\ b \in ChannelType /\ b.begin <= Len(b.buffer) /\ Rest(b) = Rest(NewChannel)
        /\ b.needed = Header /\ b.doing = "header"
        /\ Have(b) < b.needed => b.begin = 0 /\ b.current <= Len(b.buffer)
        /\ b.out = NewChannel.out
    BY <1>6, <1>8, RecvFrameFacts
  <2> HIDE DEF b
  <2> QED  BY <1>8, <2>1
<1>11. /\ log \in Seq(FrameType) /\ Len(log) = 1 /\ log[1] = hello
  BY <1>3, <1>8, AppendProperties
<1>12. TypeOK'
  <2>1. /\ chan' \in [End -> ChannelType] /\ sent' \in [End -> Seq(FrameType)]
        /\ open' \subseteq End
    BY <1>1, <1>4, <1>5, <1>6, <1>9, <1>10, <1>11 DEF TypeOK
  <2>2. worker' \in [Client -> {"away", "greeting", "serving", "left"}]
    BY <1>4 DEF TypeOK
  <2> QED  BY <1>4, <1>7, <2>1, <2>2 DEF TypeOK, fabricVars
<1>13. \A x \in End : x # C /\ x # S => SameEnd(x)
  BY <1>4, <1>6 DEF SameEnd
<1>14. \A d \in Client : d # c => SameConnection(d)
  BY <1>6, <1>7, <1>13, OthersSame
<1>15. /\ C \in open' /\ S \in open' /\ wire'[C] = <<>> /\ wire'[S] = <<>>
       /\ got'[C] = <<>> /\ got'[S] = <<>> /\ sent'[S] = <<>> /\ sent'[C] = log
       /\ a = chan'[C] /\ b = chan'[S]
  BY <1>1, <1>4, <1>5, <1>6
<1> HIDE DEF C, S, a, b, log
<1>16. ChannelOK(C)' /\ ChannelOK(S)'
  <2>1. ChannelOK(C)'
    BY <1>3, <1>9, <1>15, CellsFacts DEF ChannelOK
  <2>2. ChannelOK(S)'
    BY <1>10, <1>15 DEF ChannelOK
  <2> QED  BY <2>1, <2>2
<1> DEFINE z == <<>> \o <<>>
<1>17. z \in Seq(CellType) /\ z = <<>>
  <2>1. z \in Seq(CellType) /\ Len(z) = 0
    BY <1>8, ConcatCells
  <2> HIDE DEF z
  <2> QED  BY <2>1, CellsLength
<1>18. StreamOK(C)'
  <2>1. Stream(C)' = z \o <<>>
    BY <1>1, <1>9, <1>10, <1>15 DEF Stream
  <2>2. Stream(C)' = <<>>
    BY <1>8, <1>17, <2>1
  <2>3. Aligned(Stream(C)', sent'[S], Len(got'[C]))
    BY <1>8, <1>15, <2>2 DEF Aligned
  <2>4. Complete(Stream(C)', sent'[S], Len(got'[C]))
    BY <1>15, <2>2 DEF Complete
  <2>5. Received(C)'
    BY <1>1, <1>8, <1>15 DEF Received
  <2> QED  BY <1>1, <2>3, <2>4, <2>5 DEF StreamOK
<1>19. StreamOK(S)'
  <2>1. Stream(S)' = z \o Cells(hello)
    BY <1>1, <1>9, <1>10, <1>15 DEF Stream
  <2>2. Aligned(z, <<>>, 0) /\ Complete(z, <<>>, 0)
    BY <1>8, <1>17 DEF Aligned, Complete
  <2>3. z \in Seq(CellType) /\ <<>> \in Seq(FrameType) /\ 0 \in Nat /\ 0 <= Len(<<>>)
    BY <1>8, <1>17
  <2> HIDE DEF z
  <2>4. /\ Aligned(z \o Cells(hello), Append(<<>>, hello), 0)
        /\ Complete(z \o Cells(hello), Append(<<>>, hello), 0)
    BY <1>3, <2>2, <2>3, AlignedSend
  <2>5. Len(got'[S]) = 0
    BY <1>8, <1>15
  <2>6. /\ Aligned(Stream(S)', sent'[C], Len(got'[S]))
        /\ Complete(Stream(S)', sent'[C], Len(got'[S]))
    BY <1>15, <2>1, <2>4, <2>5 DEF log
  <2>7. Received(S)'
    BY <1>1, <1>8, <1>11, <1>15 DEF Received
  <2> QED  BY <1>1, <2>6, <2>7 DEF StreamOK
<1>20. UnsentOK(S)'
  BY <1>10, <1>15 DEF UnsentOK
<1>21. UnsentOK(C)'
  <2> DEFINE o == Cells(hello)
  <2>1. Len(o) = Size(hello) /\ Size(hello) \in Nat
        /\ \A i \in 1 .. Len(o) : o[i].of = hello /\ o[i].at = i
    BY <1>3, CellsFacts
  <2> HIDE DEF o
  <2>2. \A i \in 1 .. Len(o) : o[i].of = hello /\ o[i].at = Size(hello) - Len(o) + i
    BY <2>1
  <2>3. chan'[C].out = o
    BY <1>9, <1>15 DEF o
  <2>4. sent'[C][Len(sent'[C])] = hello
    BY <1>11, <1>15
  <2>5. Len(got'[S]) < Len(sent'[C])
    <3>1. Len(got'[S]) = 0
      BY <1>8, <1>15
    <3>2. Len(sent'[C]) = 1
      BY <1>11, <1>15
    <3> QED  BY <3>1, <3>2
  <2>6. Len(Rest(chan'[S])) = 0 /\ Len(wire'[S]) = 0
    BY <1>8, <1>10, <1>15
  <2>7. Peer(C) = S
    BY <1>1
  <2> QED  BY <2>2, <2>3, <2>4, <2>5, <2>6, <2>7 DEF UnsentOK
<1>22. CorrelationsOK(c)'
  <2>1. \A i \in 1 .. Len(log) : i = 1 /\ log[i].correlation = 1
    BY <1>3, <1>11
  <2> QED  BY <1>7, <1>15, <2>1 DEF CorrelationsOK, C
<1>23. WorkerOK(c)'
  BY <1>6, <1>8, <1>10, <1>15 DEF WorkerOK, S
<1>24. ClientOK(c)'
  <2>1. /\ chan'[C].doing = "sending" /\ ~chan'[C].broken
        /\ client'[c].at = "greeting" /\ C \in open'
    BY <1>7, <1>9, <1>15
  <2>2. Len(sent'[C]) = 1 /\ Len(got'[C]) = 0
    BY <1>8, <1>11, <1>15
  <2> QED  BY <2>1, <2>2 DEF ClientOK, C
<1>25. ConnectionOK(c)'
  BY <1>16, <1>18, <1>19, <1>20, <1>21, <1>22, <1>23, <1>24 DEF ConnectionOK, C, S
<1> QED  BY <1>1, <1>3, <1>4, <1>6, <1>12, <1>14, <1>25 DEF StepOK, C, S

-----------------------------------------------------------------------------
(* Execute and WorkerLeaves.                                                *)

(* What the worker of c does to the fabric, and what it says of it.         *)
Executed(c, value, f) ==
  LET request == chan[ServerEnd(c)].frame IN
  /\ IF request.op = "pull" THEN TakeIntent(value) ELSE Failover(request.key, value)
  /\ \/ /\ f.op = request.op /\ f.key = request.key /\ f.value = value
        /\ sent' = [sent EXCEPT ![ServerEnd(c)] = Append(sent[ServerEnd(c)], f)]
        /\ dropped' = dropped
     \/ /\ sent' = sent
        /\ dropped' = IF request.op = "pull" THEN dropped \cup ({value} \ {0}) ELSE dropped

(* Decisions, registered keys and pending intents.                          *)
LEMMA FabricLengths ==
  ASSUME TypeOK
  PROVE  /\ decisions \in Seq(DecisionType) /\ Len(decisions) \in Nat
         /\ registered \in Seq(Nat) /\ Len(registered) \in Nat
         /\ pending \in Seq(Nat) /\ Len(pending) \in Nat
         /\ DOMAIN decisions = 1 .. Len(decisions)
         /\ \A d \in 1 .. Len(decisions) :
              decisions[d].key \in Nat /\ decisions[d].accepted \in BOOLEAN
<1>1. decisions \in Seq(DecisionType) /\ registered \in Seq(Nat) /\ pending \in Seq(Nat)
  BY DEF TypeOK
<1>2. \A d \in 1 .. Len(decisions) : decisions[d] \in DecisionType
  BY <1>1, ElementOfSeq
<1> QED  BY <1>1, <1>2, LenProperties DEF DecisionType

(* What begin() leaves of the registry was in it.                           *)
LEMMA TrimmedFacts ==
  ASSUME TypeOK
  PROVE  /\ Trimmed \in Seq(Nat) /\ Len(Trimmed) \in Nat
         /\ \A i \in 1 .. Len(Trimmed) :
              \E j \in 1 .. Len(registered) : Trimmed[i] = registered[j]
<1>1. registered \in Seq(Nat) /\ Len(registered) \in Nat
  BY FabricLengths
<1>2. CASE Len(registered) >= MaxRequestCache
  <2>1. registered # <<>>
    BY <1>1, <1>2, EmptySeq, WireAssumption
  <2>2. /\ Tail(registered) \in Seq(Nat) /\ Len(Tail(registered)) = Len(registered) - 1
        /\ \A i \in 1 .. Len(Tail(registered)) : Tail(registered)[i] = registered[i + 1]
    BY <1>1, <2>1, HeadTailProperties
  <2>3. Trimmed = Tail(registered)
    BY <1>2 DEF Trimmed
  <2>4. Len(Tail(registered)) \in Nat
    BY <2>2, LenProperties
  <2>5. \A i \in 1 .. Len(Tail(registered)) : i + 1 \in 1 .. Len(registered)
    BY <1>1, <2>2
  <2> QED  BY <2>2, <2>3, <2>4, <2>5
<1>3. CASE ~(Len(registered) >= MaxRequestCache)
  <2>1. Trimmed = registered
    BY <1>3 DEF Trimmed
  <2> QED  BY <1>1, <2>1
<1> QED  BY <1>2, <1>3

(* A new decision, for a key whose last one the cache does not hold.        *)
Decides(key, accepted) ==
  /\ Decide(key, accepted)
  /\ \A d \in 1 .. Len(decisions) :
       decisions[d].key = key => d + MaxRequestCache <= Len(decisions)

(* A failover command repeats a decision, is refused as in flight, or makes *)
(* a decision.                                                              *)
LEMMA FailoverFacts ==
  ASSUME TypeOK, NEW key \in Nat, NEW value, Failover(key, value)
  PROVE  \/ /\ UNCHANGED <<decisions, registered, pending>>
            /\ value \in 1 .. Len(decisions) /\ decisions[value].key = key
            /\ value + MaxRequestCache > Len(decisions)
         \/ /\ UNCHANGED <<decisions, registered, pending>>
            /\ value = 0
            /\ \E i \in 1 .. Len(registered) : registered[i] = key
            /\ \A d \in 1 .. Len(decisions) :
                 decisions[d].key = key => d + MaxRequestCache <= Len(decisions)
         \/ value = Len(decisions) + 1 /\ \E accepted \in BOOLEAN : Decides(key, accepted)
<1>1. /\ Len(decisions) \in Nat /\ DOMAIN decisions = 1 .. Len(decisions)
      /\ DOMAIN registered = 1 .. Len(registered) /\ MaxRequestCache \in Nat
  BY FabricLengths, LenProperties, WireAssumption
<1>2. DecisionsFor(key) = {} =>
        \A d \in 1 .. Len(decisions) :
          decisions[d].key = key => d + MaxRequestCache <= Len(decisions)
  <2>1. SUFFICES ASSUME NEW d \in 1 .. Len(decisions), decisions[d].key = key,
                        ~(d + MaxRequestCache <= Len(decisions))
                 PROVE  d \in DecisionsFor(key)
    OBVIOUS
  <2>2. d > Len(decisions) - MaxRequestCache
    BY <1>1, <2>1
  <2> QED  BY <1>1, <2>1, <2>2 DEF DecisionsFor
<1>3. CASE value \in DecisionsFor(key) /\ UNCHANGED <<decisions, registered, pending>>
  <2>1. value \in 1 .. Len(decisions) /\ decisions[value].key = key
         /\ value > Len(decisions) - MaxRequestCache
    BY <1>1, <1>3 DEF DecisionsFor
  <2>2. value + MaxRequestCache > Len(decisions)
    BY <1>1, <2>1
  <2> QED  BY <1>3, <2>1, <2>2
<1>4. CASE /\ DecisionsFor(key) = {} /\ key \in ToSet(registered) /\ value = 0
           /\ UNCHANGED <<decisions, registered, pending>>
  BY <1>1, <1>2, <1>4 DEF ToSet
<1>5. CASE /\ DecisionsFor(key) = {} /\ value = Len(decisions) + 1
           /\ \E accepted \in BOOLEAN : Decide(key, accepted)
  BY <1>2, <1>5 DEF Decides
<1> QED  BY <1>3, <1>4, <1>5 DEF Failover

(* The fabric's state keeps its types.                                      *)
LEMMA FabricTypes ==
  ASSUME TypeOK, NEW value \in Nat, NEW key \in Nat,
         TakeIntent(value) \/ Failover(key, value)
  PROVE  decisions' \in Seq(DecisionType) /\ registered' \in Seq(Nat) /\ pending' \in Seq(Nat)
<1>1. decisions \in Seq(DecisionType) /\ registered \in Seq(Nat) /\ pending \in Seq(Nat)
  BY DEF TypeOK
<1>2. CASE TakeIntent(value)
  <2>1. UNCHANGED <<decisions, registered>>
         /\ pending' = IF pending = <<>> THEN pending ELSE Tail(pending)
    BY <1>2 DEF TakeIntent
  <2>2. pending # <<>> => Tail(pending) \in Seq(Nat)
    BY <1>1, HeadTailProperties
  <2> QED  BY <1>1, <2>1, <2>2
<1>3. CASE Failover(key, value)
  <2>1. CASE UNCHANGED <<decisions, registered, pending>>
    BY <1>1, <2>1
  <2>2. ASSUME NEW accepted \in BOOLEAN, Decide(key, accepted)
        PROVE  /\ decisions' \in Seq(DecisionType) /\ registered' \in Seq(Nat)
               /\ pending' \in Seq(Nat)
    <3>1. [key |-> key, accepted |-> accepted] \in DecisionType
      BY DEF DecisionType
    <3>2. decisions' \in Seq(DecisionType)
      BY <1>1, <2>2, <3>1, AppendProperties DEF Decide
    <3>3. Append(Trimmed, key) \in Seq(Nat) /\ Trimmed \in Seq(Nat)
      BY TrimmedFacts, AppendProperties
    <3>4. Len(decisions) + 1 \in Nat
      BY FabricLengths
    <3>5. Append(pending, Len(decisions) + 1) \in Seq(Nat)
      BY <1>1, <3>4, AppendProperties
    <3> QED  BY <1>1, <2>2, <3>2, <3>3, <3>5 DEF Decide
  <2> QED  BY <1>3, <2>1, <2>2 DEF Failover
<1> QED  BY <1>2, <1>3

(* The execution of a request sends at most one response, which tells its   *)
(* effect, and keeps the invariant.                                         *)
LEMMA ExecuteStep ==
  ASSUME TypeOK, NEW c \in Client, ConnectionOK(c), NEW op \in {"pull", "failover"},
         NEW value \in Nat, NEW size \in Nat, Execute(c, op, value, size)
  PROVE  StepOK(c) /\ got' = got /\ \E f \in FrameType : Executed(c, value, f)
<1> DEFINE S == ServerEnd(c)
           request == chan[S].frame
           f == Frame("Response", request.correlation, size, op, request.key, value)
<1>1. S \in End
  BY ConnectionFacts
<1>2. request \in FrameType
  BY <1>1, EndTypes DEF ChannelType
<1>3. /\ worker[c] = "serving" /\ chan[S].doing = "got" /\ request.op = op
      /\ IF request.op = "pull" THEN TakeIntent(value) ELSE Failover(request.key, value)
      /\ \/ /\ Reply(c, f)
            /\ UNCHANGED <<wire, open, worker, dropped>>
         \/ /\ Close(c)
            /\ dropped' = IF request.op = "pull" THEN dropped \cup ({value} \ {0}) ELSE dropped
            /\ UNCHANGED sent
      /\ UNCHANGED <<faults, client, got>>
  BY DEF Execute, Unanswered
<1>4. /\ f \in FrameType /\ f.kind = "Response" /\ f.correlation = request.correlation
      /\ f.op = request.op /\ f.key = request.key /\ f.value = value
  <2>1. \A r \in FrameType :
          LET g == Frame("Response", r.correlation, size, r.op, r.key, value) IN
          /\ g \in FrameType /\ g.kind = "Response" /\ g.correlation = r.correlation
          /\ g.op = r.op /\ g.key = r.key /\ g.value = value
    <3>1. "Response" \in Kinds /\ size \in Nat /\ value \in Nat
      BY DEF Kinds
    <3>2. \A n \in Nat, o \in Ops, k \in Nat :
            LET g == Frame("Response", n, size, o, k, value) IN
            /\ g \in FrameType /\ g.kind = "Response" /\ g.correlation = n
            /\ g.op = o /\ g.key = k /\ g.value = value
      BY <3>1, FrameIs
    <3>3. \A r \in FrameType : r.correlation \in Nat /\ r.op \in Ops /\ r.key \in Nat
      BY DEF FrameType
    <3> QED  BY <3>2, <3>3
  <2> QED  BY <1>2, <1>3, <2>1
<1>5. decisions' \in Seq(DecisionType) /\ registered' \in Seq(Nat) /\ pending' \in Seq(Nat)
  <2>1. request.key \in Nat
    BY <1>2, FrameFacts
  <2>2. TakeIntent(value) \/ Failover(request.key, value)
    BY <1>3
  <2> HIDE DEF request
  <2> QED  BY <2>1, <2>2, FabricTypes
<1>6. dropped \subseteq Nat
  BY DEF TypeOK
<1> HIDE DEF f
<1>7. CASE Reply(c, f) /\ UNCHANGED <<wire, open, worker, dropped>>
  <2>1. Answers(f, chan[S].frame)
    BY <1>4 DEF Answers
  <2>2. worker' = [worker EXCEPT ![c] = "serving"]
    BY <1>3, <1>7 DEF TypeOK
  <2>3. StepOK(c) /\ sent' = [sent EXCEPT ![S] = Append(sent[S], f)]
    BY <1>3, <1>4, <1>5, <1>6, <1>7, <2>1, <2>2, ReplyStep
  <2>4. Executed(c, value, f)
    BY <1>3, <1>4, <1>7, <2>3 DEF Executed
  <2> QED  BY <1>3, <1>4, <2>3, <2>4
<1>8. CASE /\ Close(c)
           /\ dropped' = IF request.op = "pull" THEN dropped \cup ({value} \ {0}) ELSE dropped
           /\ UNCHANGED sent
  <2>1. dropped' \subseteq Nat
    BY <1>6, <1>8
  <2>2. StepOK(c)
    BY <1>3, <1>5, <1>8, <2>1, CloseStep
  <2>3. Executed(c, value, f)
    BY <1>3, <1>8 DEF Executed
  <2> QED  BY <1>3, <1>4, <2>2, <2>3
<1> QED  BY <1>3, <1>7, <1>8

(* A worker that leaves its conversation keeps the invariant.               *)
LEMMA WorkerLeavesStep ==
  ASSUME TypeOK, NEW c \in Client, ConnectionOK(c), WorkerLeaves(c)
  PROVE  StepOK(c) /\ UNCHANGED <<sent, got, fabricVars>>
<1>1. /\ worker[c] \in {"greeting", "serving"} /\ Close(c)
      /\ UNCHANGED <<faults, client, fabricVars, sent, got>>
  BY DEF WorkerLeaves, logVars
<1>2. /\ decisions' \in Seq(DecisionType) /\ registered' \in Seq(Nat)
      /\ pending' \in Seq(Nat) /\ dropped' \subseteq Nat
  BY <1>1 DEF TypeOK, fabricVars
<1> QED  BY <1>1, <1>2, CloseStep

-----------------------------------------------------------------------------
(* Every step belongs to one connection.                                    *)

(* The logs take one more frame, or an end receives its next one.           *)
LogStep ==
  \/ UNCHANGED <<sent, got>>
  \/ got' = got /\ \E e \in End, f \in FrameType :
       sent' = [sent EXCEPT ![e] = Append(sent[e], f)]
  \/ sent' = sent /\ \E e \in End :
       /\ Len(got[e]) < Len(sent[Peer(e)])
       /\ got' = [got EXCEPT ![e] = Append(got[e], sent[Peer(e)][Len(got[e]) + 1])]

(* A step of a channel moves at most one frame from one log to the other.   *)
LEMMA ChannelStepStep ==
  ASSUME Inv, NEW e \in End, ChannelStep(e) \/ Reset(e) \/ Damage(e)
  PROVE  LogStep /\ \E c \in Client : StepOK(c)
<1>1. PICK c \in Client : e \in {ClientEnd(c), ServerEnd(c)}
  BY EndFacts
<1>2. TypeOK /\ ConnectionOK(c)
  BY DEF Inv
<1>3. CASE Parse(e) /\ chan'[e].doing = "got"
  <2>1. /\ StepOK(c) /\ Len(got[e]) < Len(sent[Peer(e)]) /\ sent' = sent
        /\ got' = [got EXCEPT ![e] = Append(got[e], sent[Peer(e)][Len(got[e]) + 1])]
    BY <1>1, <1>2, <1>3, ParseDelivers
  <2> QED  BY <2>1 DEF LogStep
<1>4. CASE Parse(e) /\ chan'[e].doing # "got"
  <2>1. StepOK(c)
    BY <1>1, <1>2, <1>4, ParseQuiet
  <2>2. UNCHANGED <<sent, got>>
    BY <1>4 DEF Parse
  <2> QED  BY <2>1, <2>2 DEF LogStep
<1>5. CASE SendCell(e)
  BY <1>1, <1>2, <1>5, SendCellStep DEF LogStep
<1>6. CASE SendFails(e)
  BY <1>1, <1>2, <1>6, SendFailsStep DEF LogStep
<1>7. CASE RecvCell(e)
  BY <1>1, <1>2, <1>7, RecvCellStep DEF LogStep
<1>8. CASE RecvFails(e)
  BY <1>1, <1>2, <1>8, RecvFailsStep DEF LogStep
<1>9. CASE Reset(e)
  BY <1>1, <1>2, <1>9, ResetStep DEF LogStep
<1>10. CASE Damage(e)
  BY <1>1, <1>2, <1>10, DamageStep DEF LogStep
<1> QED  BY <1>3, <1>4, <1>5, <1>6, <1>7, <1>8, <1>9, <1>10 DEF ChannelStep

(* What a script says next is a command.                                    *)
LEMMA CommandFacts ==
  ASSUME NEW c \in Client, NEW command \in Commands(c)
  PROVE  /\ command.op \in {"pull", "failover"} /\ command.key \in Nat
         /\ command.size \in Nat
<1>1. Script[c] \in Seq(SUBSET Command)
  BY WireAssumption
<1>2. PICK n \in DOMAIN Script[c] : command \in Script[c][n]
  BY DEF Commands
<1>3. Script[c][n] \in SUBSET Command
  BY <1>1, <1>2, LenProperties, ElementOfSeq
<1>4. command \in Command
  BY <1>2, <1>3
<1> QED  BY <1>4 DEF Command

(* A step of a program keeps the invariant and writes at most one frame in  *)
(* a log.                                                                   *)
LEMMA ProgramStep ==
  ASSUME Inv, NEW c \in Client,
         \/ Connect(c) \/ ClientStep(c) \/ Exit(c) \/ WorkerStep(c) \/ Interrupt(c)
         \/ \E command \in Commands(c) :
              Transmit(c, command.op, command.key, command.size)
  PROVE  LogStep /\ StepOK(c)
<1>1. TypeOK /\ ConnectionOK(c) /\ ClientEnd(c) \in End /\ ServerEnd(c) \in End
  BY ConnectionFacts DEF Inv
<1>2. CASE Connect(c)
  BY <1>1, <1>2, ConnectStep DEF LogStep
<1>3. CASE ClientStep(c)
  BY <1>1, <1>3, ClientStepStep DEF LogStep
<1>4. CASE Exit(c)
  BY <1>1, <1>4, ExitStep DEF LogStep
<1>5. CASE Interrupt(c)
  BY <1>1, <1>5, InterruptStep DEF LogStep
<1>6. CASE Greet(c)
  BY <1>1, <1>6, GreetStep DEF LogStep
<1>7. CASE WorkerLeaves(c)
  BY <1>1, <1>7, WorkerLeavesStep DEF LogStep
<1>8. ASSUME NEW value \in 0 .. Len(decisions) + 1, NEW op \in DOMAIN ResponseSizes,
             NEW size \in ResponseSizes[op], Execute(c, op, value, size)
      PROVE  LogStep /\ StepOK(c)
  <2>1. value \in Nat /\ op \in {"pull", "failover"} /\ size \in Nat
    BY <1>1, FabricLengths, WireAssumption
  <2>2. StepOK(c) /\ got' = got /\ \E f \in FrameType : Executed(c, value, f)
    BY <1>1, <1>8, <2>1, ExecuteStep
  <2> QED  BY <1>1, <2>2 DEF LogStep, Executed
<1>9. ASSUME NEW command \in Commands(c), Transmit(c, command.op, command.key, command.size)
      PROVE  LogStep /\ StepOK(c)
  <2>1. /\ command.op \in {"pull", "failover"} /\ command.key \in Nat /\ command.size \in Nat
    BY CommandFacts
  <2> QED  BY <1>1, <1>9, <2>1, TransmitStep DEF LogStep
<1> QED  BY <1>2, <1>3, <1>4, <1>5, <1>6, <1>7, <1>8, <1>9 DEF WorkerStep

(* Every step keeps the invariant and moves or adds at most one frame.      *)
LEMMA InvStep == Inv /\ [Next]_vars => Inv' /\ LogStep
<1>1. ASSUME Inv, Next
      PROVE  LogStep /\ \E c \in Client : StepOK(c)
  <2>1. CASE \E e \in End : ChannelStep(e) \/ Reset(e) \/ Damage(e)
    BY <1>1, <2>1, ChannelStepStep
  <2>2. CASE \E c \in Client :
               \/ Connect(c) \/ ClientStep(c) \/ Exit(c) \/ WorkerStep(c) \/ Interrupt(c)
               \/ \E command \in Commands(c) :
                    Transmit(c, command.op, command.key, command.size)
    BY <1>1, <2>2, ProgramStep
  <2> QED  BY <1>1, <2>1, <2>2 DEF Next
<1>2. ASSUME Inv, NEW c \in Client, StepOK(c)
      PROVE  Inv'
  <2>1. \A d \in Client : d # c => ConnectionOK(d)'
    BY <1>2, Untouched DEF Inv, StepOK
  <2> QED  BY <1>2, <2>1 DEF Inv, StepOK
<1>3. ASSUME Inv, UNCHANGED vars
      PROVE  Inv' /\ LogStep
  <2>1. UNCHANGED <<chan, wire, open, faults, client, worker, decisions, registered,
                    pending, dropped, sent, got>>
    BY <1>3 DEF vars, netVars, fabricVars, logVars
  <2>2. TypeOK'
    BY <1>3, <2>1 DEF Inv, TypeOK
  <2>3. \A c \in Client : SameConnection(c)
    BY <2>1 DEF SameConnection, SameEnd
  <2> QED  BY <1>3, <2>1, <2>2, <2>3, Untouched DEF Inv, LogStep
<1> QED  BY <1>1, <1>2, <1>3

(* Before anybody connects the invariant holds.                             *)
LEMMA InitInv == Init => Inv
<1>1. SUFFICES ASSUME Init
               PROVE  Inv
  OBVIOUS
<1>2. /\ chan = [e \in End |-> NewChannel] /\ wire = [e \in End |-> <<>>]
      /\ open = {} /\ faults = 0
      /\ client = [c \in Client |-> [at |-> "away", next_correlation |-> 1, request |-> NoFrame]]
      /\ worker = [c \in Client |-> "away"]
      /\ decisions = <<>> /\ registered = <<>> /\ pending = <<>> /\ dropped = {}
      /\ sent = [e \in End |-> <<>>] /\ got = [e \in End |-> <<>>]
  BY <1>1 DEF Init
<1>3. TypeOK
  <2>1. [at |-> "away", next_correlation |-> 1, request |-> NoFrame] \in ClientType
    BY NewChannelFacts DEF ClientType
  <2>2. client \in [Client -> ClientType]
    BY <1>2, <2>1
  <2>3. /\ chan \in [End -> ChannelType] /\ wire \in [End -> Seq(CellType)]
        /\ worker \in [Client -> {"away", "greeting", "serving", "left"}]
        /\ sent \in [End -> Seq(FrameType)] /\ got \in [End -> Seq(FrameType)]
        /\ <<>> \in Seq(Nat) /\ <<>> \in Seq(DecisionType)
    BY <1>2, NewChannelFacts, EmptySeq
  <2> QED  BY <1>2, <2>2, <2>3 DEF TypeOK
<1>4. ASSUME NEW c \in Client
      PROVE  ConnectionOK(c)
  <2> DEFINE C == ClientEnd(c)
             S == ServerEnd(c)
  <2>1. C \in End /\ S \in End /\ Peer(C) = S /\ Peer(S) = C
    BY ConnectionFacts
  <2>2. \A e \in {C, S} : /\ chan[e] = NewChannel /\ wire[e] = <<>> /\ e \notin open
                          /\ sent[e] = <<>> /\ got[e] = <<>>
    BY <1>2, <2>1
  <2>3. /\ Rest(NewChannel) = <<>> /\ NewChannel.out = <<>> /\ NewChannel.doing = "idle"
        /\ NewChannel.begin <= Len(NewChannel.buffer) /\ ~NewChannel.broken /\ Len(<<>>) = 0
    BY NewChannelFacts, EmptySeq
  <2>4. client[c].at = "away" /\ client[c].next_correlation = 1 /\ worker[c] = "away"
    BY <1>2
  <2>5. ASSUME NEW e \in {C, S}
        PROVE  ChannelOK(e) /\ StreamOK(e) /\ UnsentOK(e)
    <3>1. Peer(e) \in {C, S}
      BY <2>1
    <3>2. ChannelOK(e) /\ UnsentOK(e)
      BY <2>2, <2>3 DEF ChannelOK, UnsentOK
    <3>3. Stream(e) = <<>>
      BY <2>2, <2>3 DEF Stream
    <3>4. StreamOK(e)
      BY <2>2, <2>3, <3>1, <3>3 DEF StreamOK, Received, Aligned
    <3> QED  BY <3>2, <3>4
  <2>6. CorrelationsOK(c)
    BY <2>2, <2>3 DEF CorrelationsOK
  <2>7. WorkerOK(c)
    BY <2>2, <2>3, <2>4 DEF WorkerOK
  <2>8. ClientOK(c)
    BY <2>2, <2>4 DEF ClientOK
  <2> QED  BY <2>5, <2>6, <2>7, <2>8 DEF ConnectionOK
<1> QED  BY <1>3, <1>4 DEF Inv

(* The inductive invariant: types, byte streams and conversations of all    *)
(* connections.                                                             *)
THEOREM WireInvariant == Spec => []Inv
<1>1. Init => Inv
  BY InitInv
<1>2. Inv /\ [Next]_vars => Inv'
  BY InvStep
<1> QED  BY <1>1, <1>2, PTL DEF Spec

(* Whatever the sizes, ceilings and buffers, and however the bytes arrive,  *)
(* recv_frame and send_frame carry whole frames, in order and each once: a  *)
(* pair of FrameChannels implements a pair of queues that may stop.         *)
THEOREM WireImplementsFifo == Spec => ImplementsFifo
<1>1. Init => Fifo!Init
  BY DEF Init, Fifo!Init
<1>2. Inv /\ [Next]_vars => [Fifo!Next]_Fifo!vars
  <2>1. SUFFICES ASSUME Inv, [Next]_vars
                 PROVE  [Fifo!Next]_Fifo!vars
    OBVIOUS
  <2>2. LogStep /\ TypeOK
    BY <2>1, InvStep DEF Inv
  <2>3. CASE UNCHANGED <<sent, got>>
    BY <2>3 DEF Fifo!vars
  <2>4. ASSUME NEW e \in End, NEW f \in FrameType, got' = got,
               sent' = [sent EXCEPT ![e] = Append(sent[e], f)]
        PROVE  Fifo!Send(e)
    <3>1. sent'[e] = Append(sent[e], f) /\ sent[e] \in Seq(FrameType)
      BY <2>2, <2>4 DEF TypeOK
    <3>2. Len(sent'[e]) = Len(sent[e]) + 1 /\ sent'[e][Len(sent[e]) + 1] = f
      BY <3>1, AppendProperties
    <3> QED  BY <2>4, <3>2 DEF Fifo!Send
  <2>5. ASSUME NEW e \in End, sent' = sent, Len(got[e]) < Len(sent[Peer(e)]),
               got' = [got EXCEPT ![e] = Append(got[e], sent[Peer(e)][Len(got[e]) + 1])]
        PROVE  Fifo!Deliver(e)
    BY <2>5 DEF Fifo!Deliver
  <2> QED  BY <2>2, <2>3, <2>4, <2>5 DEF LogStep, Fifo!Next
<1>3. Fifo!Init /\ [][Fifo!Next]_Fifo!vars => Fifo!Spec
  BY DEF Fifo!Spec
<1> QED  BY <1>1, <1>2, <1>3, WireInvariant, PTL DEF Spec, ImplementsFifo

-----------------------------------------------------------------------------
(* The answer to a command.                                                 *)

(* The frame a waiting client receives answers its request.                 *)
LEMMA AnswerFacts ==
  ASSUME TypeOK, NEW c \in Client, ConnectionOK(c), client[c].at = "transmit",
         chan[ClientEnd(c)].doing = "got"
  PROVE  Answers(chan[ClientEnd(c)].frame, client[c].request)
<1> DEFINE C == ClientEnd(c)
           S == ServerEnd(c)
           n == Len(got[C])
<1>1. C \in End /\ S \in End /\ Peer(C) = S /\ Peer(S) = C
  BY ConnectionFacts
<1>2. n \in Nat /\ Len(sent[C]) \in Nat /\ Len(sent[S]) \in Nat /\ Len(got[S]) \in Nat
  BY <1>1, EndTypes
<1>3. Received(C) /\ Received(S) /\ WorkerOK(c) /\ ClientOK(c)
  BY DEF ConnectionOK, StreamOK
<1>4. ~chan[C].broken
  BY <1>3 DEF ClientOK
<1>5. /\ chan[C].frame = got[C][n] /\ Len(sent[C]) >= 2
      /\ client[c].request = sent[C][Len(sent[C])]
  BY <1>3 DEF ClientOK
<1>6. Len(sent[C]) = n + 0
  BY <1>3, <1>4 DEF ClientOK
<1>7. n \in 1 .. n /\ n <= Len(sent[S]) /\ got[C][n] = sent[S][n] /\ n > 1
  BY <1>1, <1>2, <1>3, <1>5, <1>6 DEF Received
<1>8. Answers(sent[S][n], got[S][n]) /\ Len(sent[S]) <= Len(got[S])
  BY <1>2, <1>3, <1>7 DEF WorkerOK
<1>9. got[S][n] = sent[C][n]
  BY <1>1, <1>2, <1>3, <1>7, <1>8 DEF Received
<1> QED  BY <1>2, <1>5, <1>6, <1>7, <1>8, <1>9

(* The response transmit takes for the answer to its command is that        *)
(* command's, although nobody compares correlations, and although the       *)
(* script goes on after a failure.                                          *)
THEOREM AnswersAlwaysAnswer == Spec => []AnswersAnswer
<1>1. Inv => AnswersAnswer
  BY AnswerFacts DEF Inv, AnswersAnswer, Answers
<1> QED  BY <1>1, WireInvariant, PTL

-----------------------------------------------------------------------------
(* Decisions and intents.                                                   *)

(* A step of the fabric is a request's; every other step leaves decisions,  *)
(* intents and responses alone.                                             *)
FabricStep ==
  \/ UNCHANGED fabricVars /\ \A c \in Client : sent'[ServerEnd(c)] = sent[ServerEnd(c)]
  \/ \E c \in Client, f \in FrameType :
       /\ UNCHANGED fabricVars /\ f.op = "welcome"
       /\ sent' = [sent EXCEPT ![ServerEnd(c)] = Append(sent[ServerEnd(c)], f)]
  \/ \E c \in Client, f \in FrameType, value \in Nat : Executed(c, value, f)

(* What a step does to the fabric is told by the response it sends.         *)
LEMMA FabricSteps == Inv /\ [Next]_vars => FabricStep
<1>1. SUFFICES ASSUME Inv, [Next]_vars
               PROVE  FabricStep
  OBVIOUS
<1>2. CASE UNCHANGED vars
  BY <1>2 DEF FabricStep, vars, logVars
<1>3. CASE \E e \in End : ChannelStep(e) \/ Reset(e) \/ Damage(e)
  <2>1. UNCHANGED fabricVars /\ sent' = sent
    BY <1>3 DEF ChannelStep, Parse, SendCell, SendFails, RecvCell, RecvFails, Reset, Damage,
                logVars
  <2> QED  BY <2>1 DEF FabricStep
<1>4. ASSUME NEW c \in Client,
             \/ Connect(c) \/ ClientStep(c) \/ Exit(c) \/ WorkerStep(c) \/ Interrupt(c)
             \/ \E command \in Commands(c) :
                  Transmit(c, command.op, command.key, command.size)
      PROVE  FabricStep
  <2>1. TypeOK /\ ConnectionOK(c)
    BY <1>1 DEF Inv
  <2>2. \A d \in Client : ServerEnd(d) \in End /\ ServerEnd(d) # ClientEnd(c)
    BY DEF End, ClientEnd, ServerEnd
  <2>3. ASSUME NEW f, sent' = [sent EXCEPT ![ClientEnd(c)] = f]
        PROVE  \A d \in Client : sent'[ServerEnd(d)] = sent[ServerEnd(d)]
    BY <2>1, <2>2, <2>3 DEF TypeOK
  <2>4. CASE Connect(c)
    <3>1. UNCHANGED fabricVars
           /\ \E f \in FrameType :
                sent' = [sent EXCEPT ![ClientEnd(c)] = Append(sent[ClientEnd(c)], f)]
      BY <2>1, <2>4, ConnectStep
    <3> QED  BY <2>3, <3>1 DEF FabricStep
  <2>5. CASE ClientStep(c) \/ Exit(c) \/ Interrupt(c)
    <3>1. UNCHANGED fabricVars /\ sent' = sent
      BY <2>5 DEF ClientStep, Welcomed, TransmitReturns, Exit, Interrupt, logVars
    <3> QED  BY <3>1 DEF FabricStep
  <2>6. CASE Greet(c)
    BY <2>1, <2>6, GreetStep DEF FabricStep
  <2>7. CASE WorkerLeaves(c)
    BY <2>7 DEF WorkerLeaves, logVars, FabricStep
  <2>8. ASSUME NEW value \in 0 .. Len(decisions) + 1, NEW op \in DOMAIN ResponseSizes,
               NEW size \in ResponseSizes[op], Execute(c, op, value, size)
        PROVE  FabricStep
    <3>1. value \in Nat /\ op \in {"pull", "failover"} /\ size \in Nat
      BY <2>1, FabricLengths, WireAssumption
    <3>2. \E f \in FrameType : Executed(c, value, f)
      BY <2>1, <2>8, <3>1, ExecuteStep
    <3> QED  BY <3>1, <3>2 DEF FabricStep
  <2>9. ASSUME NEW op, NEW key, NEW size, Transmit(c, op, key, size)
        PROVE  FabricStep
    <3>1. /\ UNCHANGED fabricVars
          /\ \/ sent' = sent
             \/ \E f : sent' = [sent EXCEPT ![ClientEnd(c)] = f]
      BY <2>9 DEF Transmit
    <3> QED  BY <2>3, <3>1 DEF FabricStep
  <2> QED  BY <1>4, <2>4, <2>5, <2>6, <2>7, <2>8, <2>9 DEF WorkerStep
<1> QED  BY <1>1, <1>2, <1>3, <1>4 DEF Next

(* At most f is added to what the workers said, and by the worker of c.     *)
Says(c, f) ==
  \A d \in Client :
    \/ sent'[ServerEnd(d)] = sent[ServerEnd(d)]
    \/ d = c /\ sent'[ServerEnd(d)] = Append(sent[ServerEnd(d)], f)

(* A response sent carries its intent, and no other is carried that was not *)
(* before.                                                                  *)
LEMMA SaysFacts ==
  ASSUME TypeOK, NEW c \in Client, NEW f \in FrameType,
         sent' = [sent EXCEPT ![ServerEnd(c)] = Append(sent[ServerEnd(c)], f)]
  PROVE  /\ Says(c, f)
         /\ \A d \in Client, n \in Nat :
              Carried(d, n)' <=> Carried(d, n) \/ (d = c /\ f.op = "pull" /\ f.value = n)
<1> DEFINE log == sent[ServerEnd(c)]
<1>1. /\ sent'[ServerEnd(c)] = Append(log, f)
      /\ \A d \in Client : d # c => sent'[ServerEnd(d)] = sent[ServerEnd(d)]
  BY ConnectionFacts DEF TypeOK
<1>2. log \in Seq(FrameType) /\ Len(log) \in Nat
  BY ConnectionFacts, EndTypes
<1>3. /\ Len(Append(log, f)) = Len(log) + 1 /\ Append(log, f)[Len(log) + 1] = f
      /\ \A i \in 1 .. Len(log) : Append(log, f)[i] = log[i]
  BY <1>2, AppendProperties
<1> DEFINE new == Append(log, f)
<1>4. ASSUME NEW n \in Nat
      PROVE  (\E i \in 1 .. Len(new) : new[i].op = "pull" /\ new[i].value = n)
               <=> \/ \E i \in 1 .. Len(log) : log[i].op = "pull" /\ log[i].value = n
                   \/ f.op = "pull" /\ f.value = n
  <2> HIDE DEF new, log
  <2>1. Len(new) = Len(log) + 1 /\ new[Len(log) + 1] = f
         /\ \A i \in 1 .. Len(log) : new[i] = log[i]
    BY <1>3 DEF new
  <2>2. /\ 1 .. Len(new) = (1 .. Len(log)) \cup {Len(log) + 1}
        /\ Len(log) + 1 \in 1 .. Len(new)
    BY <1>2, <2>1
  <2> QED  BY <2>1, <2>2
<1>5. \A d \in Client, n \in Nat :
        Carried(d, n)' <=> Carried(d, n) \/ (d = c /\ f.op = "pull" /\ f.value = n)
  <2>1. ASSUME NEW d \in Client, NEW n \in Nat, d # c
        PROVE  Carried(d, n)' <=> Carried(d, n)
    BY <1>1, <2>1 DEF Carried
  <2>2. ASSUME NEW n \in Nat
        PROVE  Carried(c, n)' <=> Carried(c, n) \/ (f.op = "pull" /\ f.value = n)
    <3>1. sent'[ServerEnd(c)] = new /\ sent[ServerEnd(c)] = log
      BY <1>1
    <3>2. (\E i \in 1 .. Len(new) : new[i].op = "pull" /\ new[i].value = n)
            <=> \/ \E i \in 1 .. Len(log) : log[i].op = "pull" /\ log[i].value = n
                \/ f.op = "pull" /\ f.value = n
      BY <1>4
    <3> HIDE DEF new, log
    <3> QED  BY <3>1, <3>2 DEF Carried
  <2> QED  BY <2>1, <2>2
<1> QED  BY <1>1, <1>5 DEF Says

(* When no worker sends, no intent is carried that was not before.          *)
LEMMA CarriedSame ==
  ASSUME \A d \in Client : sent'[ServerEnd(d)] = sent[ServerEnd(d)]
  PROVE  \A d \in Client, n \in Nat : Carried(d, n)' <=> Carried(d, n)
BY DEF Carried

(* What a step does to decisions and the registry, for those who ask only   *)
(* about them.                                                              *)
DecisionStep ==
  \/ UNCHANGED <<decisions, registered>>
  \/ \E k \in Nat, accepted \in BOOLEAN : Decides(k, accepted)

(* Decisions are only added.                                                *)
LEMMA DecisionsGrow ==
  ASSUME TypeOK, DecisionStep
  PROVE  /\ Len(decisions') \in Nat /\ Len(decisions') >= Len(decisions)
         /\ \A d \in 1 .. Len(decisions) :
              d \in 1 .. Len(decisions') /\ decisions'[d] = decisions[d]
<1>1. decisions \in Seq(DecisionType) /\ Len(decisions) \in Nat
  BY FabricLengths
<1>2. CASE UNCHANGED <<decisions, registered>>
  BY <1>1, <1>2
<1>3. ASSUME NEW k \in Nat, NEW accepted \in BOOLEAN, Decides(k, accepted)
      PROVE  /\ Len(decisions') = Len(decisions) + 1
             /\ \A d \in 1 .. Len(decisions) : decisions'[d] = decisions[d]
  <2>1. [key |-> k, accepted |-> accepted] \in DecisionType
    BY DEF DecisionType
  <2> QED  BY <1>1, <1>3, <2>1, AppendProperties DEF Decides, Decide
<1> QED  BY <1>1, <1>2, <1>3 DEF DecisionStep

(* The new decision is the last one.                                        *)
LEMMA DecidesFacts ==
  ASSUME TypeOK, NEW k \in Nat, NEW accepted \in BOOLEAN, Decides(k, accepted)
  PROVE  /\ Len(decisions) \in Nat /\ Len(decisions') = Len(decisions) + 1
         /\ decisions'[Len(decisions) + 1] = [key |-> k, accepted |-> accepted]
         /\ \A d \in 1 .. Len(decisions) : decisions'[d] = decisions[d]
         /\ \A d \in 1 .. Len(decisions') : d \in 1 .. Len(decisions) \/ d = Len(decisions) + 1
<1>1. decisions \in Seq(DecisionType) /\ Len(decisions) \in Nat
  BY FabricLengths
<1>2. [key |-> k, accepted |-> accepted] \in DecisionType
  BY DEF DecisionType
<1>3. /\ Len(decisions') = Len(decisions) + 1
      /\ decisions'[Len(decisions) + 1] = [key |-> k, accepted |-> accepted]
      /\ \A d \in 1 .. Len(decisions) : decisions'[d] = decisions[d]
  BY <1>1, <1>2, AppendProperties DEF Decides, Decide
<1> QED  BY <1>1, <1>3

(* A key is decided again only after so many others.                        *)
LEMMA SpacingStays == TypeOK /\ SpacingOK /\ DecisionStep => SpacingOK'
<1>1. SUFFICES ASSUME TypeOK, SpacingOK, DecisionStep
               PROVE  SpacingOK'
  OBVIOUS
<1>2. CASE UNCHANGED <<decisions, registered>>
  BY <1>1, <1>2 DEF SpacingOK
<1>3. ASSUME NEW k \in Nat, NEW accepted \in BOOLEAN, Decides(k, accepted)
      PROVE  SpacingOK'
  <2> DEFINE N == Len(decisions)
  <2>1. /\ N \in Nat /\ Len(decisions') = N + 1
        /\ decisions'[N + 1] = [key |-> k, accepted |-> accepted]
        /\ \A d \in 1 .. N : decisions'[d] = decisions[d]
        /\ \A d \in 1 .. Len(decisions') : d \in 1 .. N \/ d = N + 1
    BY <1>1, <1>3, DecidesFacts
  <2>2. \A d \in 1 .. N : decisions[d].key = k => d + MaxRequestCache <= N
    BY <1>3 DEF Decides
  <2>3. SUFFICES ASSUME NEW d1 \in 1 .. Len(decisions'), NEW d2 \in 1 .. Len(decisions'),
                        d1 < d2, decisions'[d1].key = decisions'[d2].key
                 PROVE  d1 + MaxRequestCache < d2
    BY DEF SpacingOK
  <2> HIDE DEF N
  <2>4. d1 \in 1 .. N
    BY <2>1, <2>3
  <2>5. CASE d2 \in 1 .. N
    BY <1>1, <2>1, <2>3, <2>4, <2>5 DEF SpacingOK, N
  <2>6. CASE d2 = N + 1
    <3>1. decisions[d1].key = k
      BY <2>1, <2>3, <2>4, <2>6
    <3>2. d1 + MaxRequestCache <= N
      BY <2>2, <2>4, <3>1
    <3> QED  BY <2>1, <2>4, <2>6, <3>2, WireAssumption
  <2> QED  BY <2>1, <2>5, <2>6
<1> QED  BY <1>1, <1>2, <1>3 DEF DecisionStep

(* What was accepted stays accepted, and what was told stays true.          *)
LEMMA AcceptedStays ==
  ASSUME TypeOK, DecisionStep
  PROVE  /\ \A k, d : Accepted(k, d) => Accepted(k, d)'
         /\ \A f \in FrameType : Told(f) => Told(f)'
<1>1. /\ Len(decisions) \in Nat /\ Len(decisions') \in Nat
      /\ Len(decisions') >= Len(decisions) /\ MaxRequestCache \in Nat
      /\ \A d \in 1 .. Len(decisions) :
           d \in 1 .. Len(decisions') /\ decisions'[d] = decisions[d]
  BY DecisionsGrow, FabricLengths, WireAssumption
<1>2. \A k, d : Accepted(k, d) => Accepted(k, d)'
  BY <1>1 DEF Accepted
<1>3. ASSUME NEW f \in FrameType, Told(f), f.op = "failover"
      PROVE  Told(f)'
  <2>1. CASE f.value = 0
    <3>1. PICK d : Accepted(f.key, d) /\ d + MaxRequestCache <= Len(decisions)
      BY <1>3, <2>1 DEF Told
    <3>2. d \in Nat
      BY <1>1, <3>1 DEF Accepted
    <3>3. Accepted(f.key, d)' /\ d + MaxRequestCache <= Len(decisions')
      BY <1>1, <1>2, <3>1, <3>2
    <3> QED  BY <2>1, <3>3 DEF Told
  <2>2. CASE f.value # 0
    BY <1>1, <1>3, <2>2 DEF Told
  <2> QED  BY <2>1, <2>2
<1>4. \A f \in FrameType : Told(f) => Told(f)'
  BY <1>3 DEF Told
<1> QED  BY <1>2, <1>4

(* An accepted key is registered, and the registry holds no other.          *)
LEMMA RegisteredStays == TypeOK /\ RegisteredOK /\ DecisionStep => RegisteredOK'
<1>1. SUFFICES ASSUME TypeOK, RegisteredOK, DecisionStep
               PROVE  RegisteredOK'
  OBVIOUS
<1>2. \A i \in 1 .. Len(registered) : \A x : x = registered[i] => \E d : Accepted(x, d)'
  <2>1. SUFFICES ASSUME NEW i \in 1 .. Len(registered), NEW x, x = registered[i]
                 PROVE  \E d : Accepted(x, d)'
    OBVIOUS
  <2>2. PICK d : Accepted(x, d)
    BY <1>1, <2>1 DEF RegisteredOK
  <2>3. Accepted(x, d)'
    BY <1>1, <2>2, AcceptedStays
  <2> QED  BY <2>3
<1>3. CASE UNCHANGED <<decisions, registered>>
  BY <1>2, <1>3 DEF RegisteredOK
<1>4. ASSUME NEW k \in Nat, NEW accepted \in BOOLEAN, Decides(k, accepted)
      PROVE  RegisteredOK'
  <2> DEFINE t == Trimmed
  <2>1. /\ t \in Seq(Nat) /\ Len(t) \in Nat
        /\ \A i \in 1 .. Len(t) : \A x : x = t[i] => \E d : Accepted(x, d)'
    BY <1>1, <1>2, TrimmedFacts
  <2>2. registered' = IF accepted THEN Append(t, k) ELSE t
    BY <1>4 DEF Decides, Decide
  <2> HIDE DEF t
  <2>3. CASE ~accepted
    BY <2>1, <2>2, <2>3 DEF RegisteredOK
  <2>4. CASE accepted
    <3>1. /\ Len(registered') = Len(t) + 1 /\ registered'[Len(t) + 1] = k
          /\ \A i \in 1 .. Len(t) : registered'[i] = t[i]
      BY <2>1, <2>2, <2>4, AppendProperties
    <3>2. Accepted(k, Len(decisions))'
      <4>1. /\ Len(decisions') \in 1 .. Len(decisions')
            /\ decisions'[Len(decisions')] = [key |-> k, accepted |-> accepted]
        BY <1>1, <1>4, DecidesFacts
      <4> QED  BY <2>4, <4>1 DEF Accepted
    <3>3. \A i \in 1 .. Len(registered') : i \in 1 .. Len(t) \/ i = Len(t) + 1
      BY <2>1, <3>1
    <3> QED  BY <2>1, <3>1, <3>2, <3>3 DEF RegisteredOK
  <2> QED  BY <2>3, <2>4
<1> QED  BY <1>1, <1>3, <1>4 DEF DecisionStep

(* What the workers say after a step is what they said before, or f.        *)
LEMMA SaidFacts ==
  ASSUME TypeOK, NEW c \in Client, NEW f \in FrameType, Says(c, f), NEW d \in Client,
         NEW i \in 1 .. Len(sent'[ServerEnd(d)])
  PROVE  /\ sent[ServerEnd(d)] \in Seq(FrameType) /\ Len(sent[ServerEnd(d)]) \in Nat
         /\ \/ /\ i \in 1 .. Len(sent[ServerEnd(d)])
               /\ sent'[ServerEnd(d)][i] = sent[ServerEnd(d)][i]
            \/ /\ d = c /\ sent'[ServerEnd(d)][i] = f
               /\ i = Len(sent[ServerEnd(d)]) + 1
<1> DEFINE log == sent[ServerEnd(d)]
<1>1. log \in Seq(FrameType) /\ Len(log) \in Nat
  BY ConnectionFacts, EndTypes
<1>2. CASE sent'[ServerEnd(d)] = log
  BY <1>1, <1>2
<1>3. CASE d = c /\ sent'[ServerEnd(d)] = Append(log, f)
  <2>1. /\ Len(Append(log, f)) = Len(log) + 1 /\ Append(log, f)[Len(log) + 1] = f
        /\ \A j \in 1 .. Len(log) : Append(log, f)[j] = log[j]
    BY <1>1, AppendProperties
  <2>2. i \in 1 .. Len(log) \/ i = Len(log) + 1
    BY <1>1, <1>3, <2>1
  <2> QED  BY <1>1, <1>3, <2>1, <2>2
<1> QED  BY <1>2, <1>3 DEF Says

(* A decision told is the newest of its key.                                *)
Newest(f) ==
  f.op = "failover" /\ f.value # 0 =>
    \A d \in 1 .. Len(decisions) : decisions[d].key = f.key => d <= f.value

(* Nothing told before is newer.                                            *)
LEMMA NewestOrdered ==
  ASSUME NEW f \in FrameType, NEW g \in FrameType, Told(f), Newest(g)
  PROVE  Ordered(f, g)
BY DEF Told, Newest, Ordered

(* A response that tells the newest decision for its key, or that the       *)
(* cache pushed it out, keeps what is known of decisions and responses.     *)
LEMMA DecisionsStay ==
  ASSUME TypeOK, DecisionsOK, NEW c \in Client, NEW f \in FrameType, Says(c, f),
         DecisionStep, Told(f)', Newest(f)'
  PROVE  DecisionsOK'
<1>1. SpacingOK' /\ RegisteredOK'
  BY SpacingStays, RegisteredStays DEF DecisionsOK
<1>2. \A d \in Client : \A i \in 1 .. Len(sent[ServerEnd(d)]) :
        /\ sent[ServerEnd(d)][i] \in FrameType
        /\ \A x : x = sent[ServerEnd(d)][i] => Told(x)'
  <2>1. ASSUME NEW d \in Client, NEW i \in 1 .. Len(sent[ServerEnd(d)])
        PROVE  sent[ServerEnd(d)][i] \in FrameType /\ Told(sent[ServerEnd(d)][i])
    BY ConnectionFacts, EndTypes, ElementOfSeq DEF DecisionsOK, ToldOK
  <2>2. ASSUME NEW d \in Client, NEW i \in 1 .. Len(sent[ServerEnd(d)]),
               NEW x, x = sent[ServerEnd(d)][i]
        PROVE  Told(x)'
    <3>1. x \in FrameType /\ Told(x)
      BY <2>1, <2>2
    <3> QED  BY <3>1, AcceptedStays
  <2> QED  BY <2>1, <2>2
<1>3. ToldOK'
  <2>1. SUFFICES ASSUME NEW d \in Client, NEW i \in 1 .. Len(sent'[ServerEnd(d)]),
                        NEW x, x = sent'[ServerEnd(d)][i]
                 PROVE  Told(x)'
    BY DEF ToldOK
  <2>2. \/ i \in 1 .. Len(sent[ServerEnd(d)]) /\ x = sent[ServerEnd(d)][i]
        \/ x = f
    BY <2>1, SaidFacts
  <2> QED  BY <1>2, <2>2
<1>4. OrderOK'
  <2>1. SUFFICES ASSUME NEW d \in Client, NEW i \in 1 .. Len(sent'[ServerEnd(d)]),
                        NEW j \in 1 .. Len(sent'[ServerEnd(d)]), i < j
                 PROVE  Ordered(sent'[ServerEnd(d)][i], sent'[ServerEnd(d)][j])
    BY DEF OrderOK, Ordered
  <2> DEFINE log == sent[ServerEnd(d)]
             new == sent'[ServerEnd(d)]
  <2>2. /\ Len(log) \in Nat
        /\ \/ i \in 1 .. Len(log) /\ new[i] = log[i]
           \/ i = Len(log) + 1
        /\ \/ j \in 1 .. Len(log) /\ new[j] = log[j]
           \/ new[j] = f /\ j = Len(log) + 1
    BY SaidFacts
  <2>3. j <= Len(log) + 1
    BY <2>2
  <2>4. i \in 1 .. Len(log) /\ new[i] = log[i]
    BY <2>1, <2>2, <2>3
  <2>5. CASE j \in 1 .. Len(log) /\ new[j] = log[j]
    BY <2>1, <2>4, <2>5 DEF DecisionsOK, OrderOK
  <2>6. CASE new[j] = f
    <3>1. PICK x : x = log[i] /\ Told(x)'
      BY <1>2, <2>4
    <3>2. Ordered(x, f)
      BY <3>1 DEF Told, Newest, Ordered
    <3> QED  BY <2>4, <2>6, <3>1, <3>2
  <2> QED  BY <2>2, <2>5, <2>6
<1> QED  BY <1>1, <1>3, <1>4 DEF DecisionsOK

(* What request_failover answers is the newest decision for the key, or     *)
(* that one was accepted and is no longer in the cache.                     *)
LEMMA FailoverTells ==
  ASSUME TypeOK, DecisionsOK, NEW key \in Nat, NEW value \in Nat, Failover(key, value)
  PROVE  /\ DecisionStep
         /\ \A g \in FrameType : g.key = key /\ g.value = value => Told(g)' /\ Newest(g)'
<1>1. Len(decisions) \in Nat /\ MaxRequestCache \in Nat
  BY FabricLengths, WireAssumption
<1>2. CASE /\ UNCHANGED <<decisions, registered, pending>>
           /\ value \in 1 .. Len(decisions) /\ decisions[value].key = key
           /\ value + MaxRequestCache > Len(decisions)
  <2>1. ASSUME NEW d \in 1 .. Len(decisions), decisions[d].key = key
        PROVE  d <= value
    <3>1. value < d => value + MaxRequestCache < d
      BY <1>2, <2>1 DEF DecisionsOK, SpacingOK
    <3> QED  BY <1>1, <1>2, <3>1
  <2> QED  BY <1>1, <1>2, <2>1 DEF DecisionStep, Told, Newest
<1>3. CASE /\ UNCHANGED <<decisions, registered, pending>>
           /\ value = 0
           /\ \E i \in 1 .. Len(registered) : registered[i] = key
           /\ \A d \in 1 .. Len(decisions) :
                decisions[d].key = key => d + MaxRequestCache <= Len(decisions)
  <2>1. PICK d : Accepted(key, d)
    BY <1>3 DEF DecisionsOK, RegisteredOK
  <2>2. d + MaxRequestCache <= Len(decisions)
    BY <1>3, <2>1 DEF Accepted
  <2> QED  BY <1>3, <2>1, <2>2 DEF DecisionStep, Told, Newest, Accepted
<1>4. ASSUME NEW accepted \in BOOLEAN, Decides(key, accepted), value = Len(decisions) + 1
      PROVE  /\ DecisionStep
             /\ \A g \in FrameType :
                  g.key = key /\ g.value = value => Told(g)' /\ Newest(g)'
  <2>1. /\ Len(decisions') = Len(decisions) + 1
        /\ decisions'[Len(decisions) + 1] = [key |-> key, accepted |-> accepted]
    BY <1>4, DecidesFacts
  <2>2. /\ value \in 1 .. Len(decisions') /\ value # 0 /\ decisions'[value].key = key
        /\ \A d \in 1 .. Len(decisions') : d <= value
    BY <1>1, <1>4, <2>1
  <2> QED  BY <1>4, <2>2 DEF DecisionStep, Told, Newest
<1> QED  BY <1>2, <1>3, <1>4, FailoverFacts

(* What a request does to the intents: nothing, ...                         *)
LEMMA IntentsStay ==
  ASSUME IntentsOK, UNCHANGED fabricVars,
         \A d \in Client, n \in Nat \ {0} : Carried(d, n)' <=> Carried(d, n)
  PROVE  IntentsOK'
<1>1. decisions' = decisions /\ pending' = pending /\ dropped' = dropped
  BY DEF fabricVars
<1>2. /\ \A c \in Client : \A n \in Nat \ {0} :
           Carried(c, n)' =>
             /\ n \in 1 .. Len(decisions) /\ n \notin dropped
             /\ \A i \in 1 .. Len(pending) : pending[i] # n
             /\ \A d \in Client : Carried(d, n)' => c = d
  BY DEF IntentsOK
<1>3. \A n \in 1 .. Len(decisions) : decisions[n].accepted =>
        \/ n \in dropped
        \/ \E i \in 1 .. Len(pending) : pending[i] = n
        \/ \E c \in Client : Carried(c, n)'
  BY DEF IntentsOK
<1> QED  BY <1>1, <1>2, <1>3 DEF IntentsOK

(* ... put one more of them behind the others, ...                          *)
LEMMA IntentsPut ==
  ASSUME TypeOK, IntentsOK, NEW k \in Nat, Decides(k, TRUE), dropped' = dropped,
         \A d \in Client, n \in Nat \ {0} : Carried(d, n)' <=> Carried(d, n)
  PROVE  IntentsOK'
<1> DEFINE N == Len(decisions)
           P == Len(pending)
<1>1. decisions \in Seq(DecisionType) /\ pending \in Seq(Nat) /\ N \in Nat /\ P \in Nat /\ N + 1 \in Nat
  BY FabricLengths
<1>2. Len(decisions') = N + 1 /\ \A n \in 1 .. N : decisions'[n] = decisions[n]
  BY <1>1, DecidesFacts
<1>3. /\ Len(pending') = P + 1 /\ pending'[P + 1] = N + 1
      /\ \A i \in 1 .. P : pending'[i] = pending[i]
  BY <1>1, AppendProperties DEF Decides, Decide
<1> HIDE DEF N, P
<1>4. \A i \in 1 .. Len(pending') : i \in 1 .. P \/ i = P + 1
  BY <1>1, <1>3
<1>5. \A n \in 1 .. Len(decisions') : n \in 1 .. N \/ n = N + 1
  BY <1>1, <1>2
<1>6. \A n \in 1 .. N : n \in 1 .. N + 1 /\ n # N + 1
  BY <1>1
<1>7. N + 1 \in 1 .. N + 1 /\ N + 1 \notin 1 .. N /\ P + 1 \in 1 .. P + 1
  BY <1>1
<1>8. /\ \A i \in 1 .. P : pending[i] \in 1 .. N /\ pending[i] \notin dropped
      /\ \A i, j \in 1 .. P : pending[i] = pending[j] => i = j
      /\ dropped \subseteq 1 .. N
  BY DEF IntentsOK, N, P
<1>9. \A i \in 1 .. Len(pending') :
        pending'[i] \in 1 .. Len(decisions') /\ pending'[i] \notin dropped'
  BY <1>2, <1>3, <1>4, <1>6, <1>7, <1>8
<1>10. \A i, j \in 1 .. Len(pending') : pending'[i] = pending'[j] => i = j
  BY <1>3, <1>4, <1>6, <1>8
<1>11. dropped' \subseteq 1 .. Len(decisions')
  BY <1>2, <1>6, <1>8
<1>12. ASSUME NEW c \in Client, NEW n \in Nat \ {0}, Carried(c, n)'
       PROVE  /\ n \in 1 .. Len(decisions') /\ n \notin dropped'
              /\ \A i \in 1 .. Len(pending') : pending'[i] # n
              /\ \A d \in Client : Carried(d, n)' => c = d
  <2>1. Carried(c, n)
    BY <1>12
  <2>2. /\ n \in 1 .. N /\ n \notin dropped
        /\ \A i \in 1 .. P : pending[i] # n
        /\ \A d \in Client : Carried(d, n) => c = d
    BY <2>1 DEF IntentsOK, N, P
  <2>3. n \in 1 .. N + 1 /\ n # N + 1
    BY <1>6, <2>2
  <2> QED  BY <1>2, <1>3, <1>4, <2>2, <2>3
<1>13. ASSUME NEW n \in 1 .. Len(decisions'), decisions'[n].accepted
       PROVE  \/ n \in dropped'
              \/ \E i \in 1 .. Len(pending') : pending'[i] = n
              \/ \E c \in Client : Carried(c, n)'
  <2>1. CASE n = N + 1
    BY <1>3, <1>7, <2>1
  <2>2. CASE n \in 1 .. N
    <3>1. \/ n \in dropped
          \/ \E i \in 1 .. P : pending[i] = n
          \/ \E c \in Client : Carried(c, n)
      BY <1>2, <1>13, <2>2 DEF IntentsOK, N, P
    <3>2. \A i \in 1 .. P : i \in 1 .. Len(pending')
      BY <1>1, <1>3
    <3>3. n \in Nat \ {0}
      BY <1>1, <2>2
    <3> QED  BY <1>3, <3>1, <3>2, <3>3
  <2> QED  BY <1>5, <2>1, <2>2
<1> QED  BY <1>9, <1>10, <1>11, <1>12, <1>13 DEF IntentsOK

(* ... leave them alone when it is refused, ...                             *)
LEMMA IntentsRefused ==
  ASSUME TypeOK, IntentsOK, NEW k \in Nat, Decides(k, FALSE), dropped' = dropped,
         \A d \in Client, n \in Nat \ {0} : Carried(d, n)' <=> Carried(d, n)
  PROVE  IntentsOK'
<1> DEFINE N == Len(decisions)
<1>1. /\ N \in Nat /\ Len(decisions') = N + 1 /\ pending' = pending
      /\ decisions'[N + 1] = [key |-> k, accepted |-> FALSE]
      /\ \A n \in 1 .. N : decisions'[n] = decisions[n]
      /\ \A n \in 1 .. Len(decisions') : n \in 1 .. N \/ n = N + 1
  BY DecidesFacts DEF Decides, Decide
<1> HIDE DEF N
<1>2. \A n \in 1 .. N : n \in 1 .. Len(decisions') /\ n \in Nat \ {0}
  BY <1>1
<1>3. \A n \in 1 .. Len(decisions') :
        decisions'[n].accepted => n \in 1 .. N /\ decisions[n].accepted
  BY <1>1
<1>4. /\ \A i \in 1 .. Len(pending) :
           pending'[i] \in 1 .. Len(decisions') /\ pending'[i] \notin dropped'
      /\ dropped' \subseteq 1 .. Len(decisions')
  BY <1>1, <1>2 DEF IntentsOK, N
<1>5. ASSUME NEW c \in Client, NEW n \in Nat \ {0}, Carried(c, n)'
      PROVE  /\ n \in 1 .. Len(decisions') /\ n \notin dropped'
             /\ \A i \in 1 .. Len(pending') : pending'[i] # n
             /\ \A d \in Client : Carried(d, n)' => c = d
  BY <1>1, <1>2, <1>5 DEF IntentsOK, N
<1>6. ASSUME NEW n \in 1 .. Len(decisions'), decisions'[n].accepted
      PROVE  \/ n \in dropped'
             \/ \E i \in 1 .. Len(pending') : pending'[i] = n
             \/ \E c \in Client : Carried(c, n)'
  BY <1>1, <1>2, <1>3, <1>6 DEF IntentsOK, N
<1>7. \A i, j \in 1 .. Len(pending') : pending'[i] = pending'[j] => i = j
  BY <1>1 DEF IntentsOK
<1> QED  BY <1>1, <1>4, <1>5, <1>6, <1>7 DEF IntentsOK

(* ... or take the first of them, for the client c or for nobody.           *)
LEMMA IntentsTake ==
  ASSUME TypeOK, IntentsOK, NEW c \in Client, pending # <<>>,
         decisions' = decisions, pending' = Tail(pending),
         \/ /\ dropped' = dropped
            /\ \A d \in Client, n \in Nat \ {0} :
                 Carried(d, n)' <=> Carried(d, n) \/ (d = c /\ n = Head(pending))
         \/ /\ dropped' = dropped \cup {Head(pending)}
            /\ \A d \in Client, n \in Nat \ {0} : Carried(d, n)' <=> Carried(d, n)
  PROVE  IntentsOK'
<1> DEFINE N == Len(decisions)
           P == Len(pending)
           h == Head(pending)
<1>1. decisions \in Seq(DecisionType) /\ pending \in Seq(Nat) /\ N \in Nat /\ P \in Nat
  BY FabricLengths
<1>2. P >= 1 /\ h = pending[1]
  BY <1>1, EmptySeq, HeadTailProperties
<1>3. Len(pending') = P - 1 /\ \A i \in 1 .. P - 1 : pending'[i] = pending[i + 1]
  BY <1>1, HeadTailProperties
<1>4. Len(decisions') = N
  OBVIOUS
<1> HIDE DEF N, P, h
<1>5. \A i \in 1 .. P - 1 : i \in Nat /\ i + 1 \in 1 .. P /\ i + 1 # 1
  BY <1>1, <1>2
<1>6. \A i \in 1 .. P : i = 1 \/ \E j \in 1 .. P - 1 : i = j + 1
  <2>1. ASSUME NEW i \in 1 .. P, i # 1
        PROVE  i - 1 \in 1 .. P - 1 /\ i = (i - 1) + 1
    BY <1>1, <2>1
  <2> QED  BY <2>1
<1>7. 1 \in 1 .. P
  BY <1>1, <1>2
<1>8. /\ \A i \in 1 .. P : pending[i] \in 1 .. N /\ pending[i] \notin dropped
      /\ \A i, j \in 1 .. P : pending[i] = pending[j] => i = j
      /\ dropped \subseteq 1 .. N
  BY DEF IntentsOK, N, P
<1>9. h \in 1 .. N /\ h \notin dropped /\ \A i \in 1 .. P - 1 : pending'[i] # h
  BY <1>2, <1>3, <1>5, <1>7, <1>8
<1>10. \A d \in Client : ~Carried(d, h)
  <2>1. h \in Nat \ {0}
    BY <1>1, <1>9
  <2> QED  BY <1>2, <1>7, <2>1 DEF IntentsOK, P
<1>11. dropped' \subseteq 1 .. N /\ \A n : n \in dropped' => n \in dropped \/ n = h
  BY <1>8, <1>9 DEF h
<1>12. \A i \in 1 .. P - 1 : pending'[i] \in 1 .. N /\ pending'[i] \notin dropped'
  BY <1>3, <1>5, <1>8, <1>9, <1>11
<1>13. \A i, j \in 1 .. P - 1 : pending'[i] = pending'[j] => i = j
  <2>1. SUFFICES ASSUME NEW i \in 1 .. P - 1, NEW j \in 1 .. P - 1, pending'[i] = pending'[j]
                 PROVE  i = j
    OBVIOUS
  <2>2. i + 1 = j + 1
    BY <1>3, <1>5, <1>8, <2>1
  <2> QED  BY <1>5, <2>2
<1>14. ASSUME NEW d \in Client, NEW n \in Nat \ {0}, Carried(d, n)'
       PROVE  /\ n \in 1 .. N /\ n \notin dropped'
              /\ \A i \in 1 .. P - 1 : pending'[i] # n
              /\ \A b \in Client : Carried(b, n)' => d = b
  <2>1. CASE Carried(d, n)
    <3>1. /\ n \in 1 .. N /\ n \notin dropped
          /\ \A i \in 1 .. P : pending[i] # n
          /\ \A b \in Client : Carried(b, n) => d = b
      BY <2>1 DEF IntentsOK, N, P
    <3>2. n # h
      BY <1>10, <2>1
    <3>3. \A b \in Client : Carried(b, n)' => Carried(b, n)
      BY <3>2 DEF h
    <3> QED  BY <1>3, <1>5, <1>11, <3>1, <3>2, <3>3
  <2>2. CASE ~Carried(d, n)
    <3>1. n = h /\ d = c /\ dropped' = dropped
      BY <1>14, <2>2 DEF h
    <3>2. \A b \in Client : Carried(b, n)' => b = c
      <4>1. \A b \in Client : Carried(b, n)' => Carried(b, n) \/ b = c
        OBVIOUS
      <4>2. \A b \in Client : ~Carried(b, n)
        BY <1>10, <3>1
      <4> QED  BY <4>1, <4>2
    <3> QED  BY <1>9, <3>1, <3>2
  <2> QED  BY <2>1, <2>2
<1>15. ASSUME NEW n \in 1 .. N, decisions[n].accepted
       PROVE  \/ n \in dropped'
              \/ \E i \in 1 .. P - 1 : pending'[i] = n
              \/ \E d \in Client : Carried(d, n)'
  <2>1. n \in Nat \ {0}
    BY <1>1
  <2>2. CASE n = h
    <3>1. n \in dropped' \/ Carried(c, n)'
      BY <2>1, <2>2 DEF h
    <3> QED  BY <3>1
  <2>3. CASE n # h
    <3>1. \/ n \in dropped
          \/ \E i \in 1 .. P : pending[i] = n
          \/ \E d \in Client : Carried(d, n)
      BY <1>15 DEF IntentsOK, N, P
    <3>2. n \in dropped => n \in dropped'
      OBVIOUS
    <3>3. \A i \in 1 .. P : pending[i] = n => \E j \in 1 .. P - 1 : pending'[j] = n
      BY <1>2, <1>3, <1>6, <2>3
    <3>4. \A d \in Client : Carried(d, n) => Carried(d, n)'
      BY <2>1
    <3> QED  BY <3>1, <3>2, <3>3, <3>4
  <2> QED  BY <2>2, <2>3
<1> QED  BY <1>3, <1>4, <1>11, <1>12, <1>13, <1>14, <1>15 DEF IntentsOK

(* A step that tells no decision.                                           *)
LEMMA SaysNothing ==
  ASSUME NEW c \in Client, NEW f \in FrameType, Says(c, f), f.op # "failover",
         UNCHANGED <<decisions, registered>>
  PROVE  Says(c, f) /\ DecisionStep /\ Told(f)' /\ Newest(f)'
BY DEF DecisionStep, Told, Newest

(* Every step has a worker say at most one thing, which is true and no      *)
(* older decision than was made for the key.                                *)
LEMMA SaidStep ==
  ASSUME Inv, DecisionsOK, [Next]_vars, NEW b \in Client
  PROVE  \E c \in Client, f \in FrameType :
           Says(c, f) /\ DecisionStep /\ Told(f)' /\ Newest(f)'
<1>1. FabricStep
  BY FabricSteps
<1>2. TypeOK /\ NoFrame \in FrameType /\ NoFrame.op # "failover"
  BY NewChannelFacts DEF Inv, NoFrame, Frame
<1>3. CASE UNCHANGED fabricVars /\ \A c \in Client : sent'[ServerEnd(c)] = sent[ServerEnd(c)]
  <2>1. Says(b, NoFrame) /\ UNCHANGED <<decisions, registered>>
    BY <1>3 DEF Says, fabricVars
  <2> QED  BY <1>2, <2>1, SaysNothing
<1>4. ASSUME NEW c \in Client, NEW f \in FrameType, UNCHANGED fabricVars, f.op = "welcome",
             sent' = [sent EXCEPT ![ServerEnd(c)] = Append(sent[ServerEnd(c)], f)]
      PROVE  Says(c, f) /\ DecisionStep /\ Told(f)' /\ Newest(f)'
  <2>1. Says(c, f) /\ UNCHANGED <<decisions, registered>>
    BY <1>2, <1>4, SaysFacts DEF fabricVars
  <2>2. f.op # "failover"
    BY <1>4
  <2> QED  BY <2>1, <2>2, SaysNothing
<1>5. ASSUME NEW c \in Client, NEW f \in FrameType, NEW value \in Nat, Executed(c, value, f)
      PROVE  \E g \in FrameType : Says(c, g) /\ DecisionStep /\ Told(g)' /\ Newest(g)'
  <2> DEFINE request == chan[ServerEnd(c)].frame
  <2>1. ServerEnd(c) \in End
    BY ConnectionFacts
  <2>2. request \in FrameType
    BY <1>2, <2>1, EndTypes DEF ChannelType
  <2>3. request.key \in Nat
    BY <2>2, FrameFacts
  <2>4. /\ IF request.op = "pull" THEN TakeIntent(value) ELSE Failover(request.key, value)
        /\ \/ /\ f.op = request.op /\ f.key = request.key /\ f.value = value
              /\ sent' = [sent EXCEPT ![ServerEnd(c)] = Append(sent[ServerEnd(c)], f)]
           \/ sent' = sent
    BY <1>5 DEF Executed
  <2> HIDE DEF request
  <2>5. \/ f.op = request.op /\ f.key = request.key /\ f.value = value /\ Says(c, f)
        \/ Says(c, NoFrame)
    <3>1. CASE sent' = sent
      BY <3>1 DEF Says
    <3>2. CASE /\ f.op = request.op /\ f.key = request.key /\ f.value = value
               /\ sent' = [sent EXCEPT ![ServerEnd(c)] = Append(sent[ServerEnd(c)], f)]
      BY <1>2, <3>2, SaysFacts
    <3> QED  BY <2>4, <3>1, <3>2
  <2>6. CASE request.op = "pull"
    <3>1. UNCHANGED <<decisions, registered>>
      BY <2>4, <2>6 DEF TakeIntent
    <3>2. f.op = request.op => f.op # "failover"
      BY <2>6
    <3> QED  BY <1>2, <2>5, <3>1, <3>2, SaysNothing
  <2>7. CASE request.op # "pull"
    <3>1. /\ DecisionStep
          /\ \A g \in FrameType :
               g.key = request.key /\ g.value = value => Told(g)' /\ Newest(g)'
      BY <1>2, <2>3, <2>4, <2>7, FailoverTells
    <3>2. Told(NoFrame)' /\ Newest(NoFrame)'
      BY <1>2 DEF Told, Newest
    <3> QED  BY <1>2, <2>5, <3>1, <3>2
  <2> QED  BY <2>6, <2>7
<1> QED  BY <1>1, <1>3, <1>4, <1>5 DEF FabricStep

(* Every step keeps the decisions told and the intents in one place.        *)
LEMMA DataStep == Inv /\ DecisionsOK /\ IntentsOK /\ [Next]_vars => (DecisionsOK /\ IntentsOK)'
<1>1. SUFFICES ASSUME Inv, DecisionsOK, IntentsOK, [Next]_vars
               PROVE  DecisionsOK' /\ IntentsOK'
  OBVIOUS
<1>2. TypeOK
  BY <1>1 DEF Inv
<1>3. CASE UNCHANGED fabricVars /\ \A c \in Client : sent'[ServerEnd(c)] = sent[ServerEnd(c)]
  <2>1. DecisionsOK'
    <3>1. UNCHANGED <<decisions, registered>>
      BY <1>3 DEF fabricVars
    <3>2. SpacingOK' /\ RegisteredOK'
      BY <1>1, <3>1 DEF DecisionsOK, SpacingOK, RegisteredOK, Accepted
    <3>3. ToldOK' /\ OrderOK'
      BY <1>1, <1>3, <3>1 DEF DecisionsOK, ToldOK, OrderOK, Told, Accepted, Ordered
    <3> QED  BY <3>2, <3>3 DEF DecisionsOK
  <2>2. IntentsOK'
    BY <1>1, <1>3, CarriedSame, IntentsStay
  <2> QED  BY <2>1, <2>2
<1>4. ASSUME NEW b \in Client
      PROVE  DecisionsOK'
  BY <1>1, <1>2, SaidStep, DecisionsStay
<1>5. ASSUME NEW c \in Client, NEW f \in FrameType, UNCHANGED fabricVars, f.op = "welcome",
             sent' = [sent EXCEPT ![ServerEnd(c)] = Append(sent[ServerEnd(c)], f)]
      PROVE  IntentsOK'
  <2>1. \A d \in Client, n \in Nat :
          Carried(d, n)' <=> Carried(d, n) \/ (d = c /\ f.op = "pull" /\ f.value = n)
    BY <1>2, <1>5, SaysFacts
  <2> QED  BY <1>1, <1>5, <2>1, IntentsStay
<1>6. ASSUME NEW c \in Client, NEW f \in FrameType, NEW value \in Nat, Executed(c, value, f)
      PROVE  IntentsOK'
  <2> DEFINE request == chan[ServerEnd(c)].frame
             S == ServerEnd(c)
  <2>1. S \in End /\ request \in FrameType
    <3>1. S \in End
      BY ConnectionFacts
    <3> QED  BY <1>2, <3>1, EndTypes DEF ChannelType
  <2>2. request.key \in Nat
    BY <2>1, FrameFacts
  <2>3. /\ IF request.op = "pull" THEN TakeIntent(value) ELSE Failover(request.key, value)
        /\ \/ /\ f.op = request.op /\ f.key = request.key /\ f.value = value
              /\ sent' = [sent EXCEPT ![S] = Append(sent[S], f)]
              /\ dropped' = dropped
           \/ /\ sent' = sent
              /\ dropped' = IF request.op = "pull" THEN dropped \cup ({value} \ {0})
                            ELSE dropped
    BY <1>6 DEF Executed
  <2> DEFINE op == request.op
             key == request.key
  <2> HIDE DEF request
  <2>4. \/ /\ dropped' = dropped
           /\ \A d \in Client, n \in Nat :
                Carried(d, n)' <=> Carried(d, n) \/ (d = c /\ op = "pull" /\ value = n)
        \/ /\ dropped' = IF op = "pull" THEN dropped \cup ({value} \ {0}) ELSE dropped
           /\ \A d \in Client, n \in Nat : Carried(d, n)' <=> Carried(d, n)
    <3>1. CASE /\ sent' = sent
               /\ dropped' = IF op = "pull" THEN dropped \cup ({value} \ {0}) ELSE dropped
      <4>1. \A d \in Client, n \in Nat : Carried(d, n)' <=> Carried(d, n)
        BY <3>1, CarriedSame
      <4> QED  BY <3>1, <4>1
    <3>2. CASE /\ f.op = op /\ f.key = key /\ f.value = value
               /\ sent' = [sent EXCEPT ![S] = Append(sent[S], f)]
               /\ dropped' = dropped
      <4>1. \A d \in Client, n \in Nat :
              Carried(d, n)' <=> Carried(d, n) \/ (d = c /\ f.op = "pull" /\ f.value = n)
        BY <1>2, <3>2, SaysFacts
      <4> QED  BY <3>2, <4>1
    <3> QED  BY <2>3, <3>1, <3>2
  <2>5. Len(decisions) \in Nat /\ pending \in Seq(Nat)
    BY <1>2, FabricLengths
  <2>6. CASE op = "pull"
    <3>1. TakeIntent(value)
      BY <2>3, <2>6
    <3>2. CASE pending = <<>>
      <4>1. UNCHANGED <<decisions, registered, pending>> /\ value = 0
        BY <3>1, <3>2 DEF TakeIntent
      <4>2. dropped' = dropped
        BY <2>4, <4>1
      <4>3. \A d \in Client, n \in Nat \ {0} : Carried(d, n)' <=> Carried(d, n)
        BY <2>4, <4>1
      <4> QED  BY <1>1, <4>1, <4>2, <4>3, IntentsStay DEF fabricVars
    <3>3. CASE pending # <<>>
      <4>1. decisions' = decisions /\ pending' = Tail(pending) /\ value = Head(pending)
        BY <3>1, <3>3 DEF TakeIntent
      <4>2. value # 0
        <5>1. Head(pending) = pending[1] /\ Len(pending) \in Nat /\ Len(pending) # 0
          BY <2>5, <3>3, EmptySeq, LenProperties, HeadTailProperties
        <5>2. 1 \in 1 .. Len(pending)
          BY <5>1
        <5>3. Head(pending) \in 1 .. Len(decisions)
          BY <1>1, <5>1, <5>2 DEF IntentsOK
        <5> QED  BY <2>5, <4>1, <5>3
      <4>3. \/ /\ dropped' = dropped
               /\ \A d \in Client, n \in Nat \ {0} :
                    Carried(d, n)' <=> Carried(d, n) \/ (d = c /\ n = Head(pending))
            \/ /\ dropped' = dropped \cup {Head(pending)}
               /\ \A d \in Client, n \in Nat \ {0} : Carried(d, n)' <=> Carried(d, n)
        BY <2>4, <2>6, <4>1, <4>2
      <4> QED  BY <1>1, <1>2, <3>3, <4>1, <4>3, IntentsTake
    <3> QED  BY <3>2, <3>3
  <2>7. CASE op # "pull"
    <3>1. dropped' = dropped /\ Failover(key, value)
      BY <2>3, <2>4, <2>7
    <3>2. \A d \in Client, n \in Nat \ {0} : Carried(d, n)' <=> Carried(d, n)
      BY <2>4, <2>7
    <3>3. CASE UNCHANGED <<decisions, registered, pending>>
      BY <1>1, <3>1, <3>2, <3>3, IntentsStay DEF fabricVars
    <3>4. ASSUME NEW accepted \in BOOLEAN, Decides(key, accepted)
          PROVE  IntentsOK'
      <4>1. CASE accepted = TRUE
        BY <1>1, <1>2, <2>2, <3>1, <3>2, <3>4, <4>1, IntentsPut
      <4>2. CASE accepted = FALSE
        BY <1>1, <1>2, <2>2, <3>1, <3>2, <3>4, <4>2, IntentsRefused
      <4> QED  BY <4>1, <4>2
    <3>5. \/ UNCHANGED <<decisions, registered, pending>>
          \/ \E accepted \in BOOLEAN : Decides(key, accepted)
      BY <1>2, <2>2, <3>1, FailoverFacts
    <3> QED  BY <3>3, <3>4, <3>5
  <2> QED  BY <2>6, <2>7
<1>7. FabricStep
  BY <1>1, FabricSteps
<1> QED  BY <1>3, <1>4, <1>5, <1>6, <1>7 DEF FabricStep

(* In every reachable state responses tell the decisions made, and an       *)
(* intent is in one place.                                                  *)
LEMMA DataInvariant == Spec => [](DecisionsOK /\ IntentsOK)
<1>1. Init => DecisionsOK /\ IntentsOK
  <2>1. SUFFICES ASSUME Init
                 PROVE  DecisionsOK /\ IntentsOK
    OBVIOUS
  <2>2. /\ decisions = <<>> /\ registered = <<>> /\ pending = <<>> /\ dropped = {}
        /\ Len(<<>>) = 0
        /\ \A c \in Client : sent[ServerEnd(c)] = <<>>
    BY <2>1, ConnectionFacts, EmptySeq DEF Init
  <2>3. \A c \in Client : \A n : ~Carried(c, n)
    BY <2>2 DEF Carried
  <2> QED  BY <2>2, <2>3 DEF DecisionsOK, SpacingOK, RegisteredOK, ToldOK, OrderOK, IntentsOK
<1>2. Inv /\ (DecisionsOK /\ IntentsOK) /\ [Next]_vars => (DecisionsOK /\ IntentsOK)'
  BY DataStep
<1> QED  BY <1>1, <1>2, WireInvariant, PTL DEF Spec

(* What a client has received is what its worker sent first.                *)
LEMMA GotIsSent ==
  ASSUME TypeOK, NEW c \in Client, ConnectionOK(c), NEW i \in 1 .. Len(got[ClientEnd(c)])
  PROVE  /\ i \in 1 .. Len(sent[ServerEnd(c)]) /\ got[ClientEnd(c)][i] = sent[ServerEnd(c)][i]
         /\ got[ClientEnd(c)][i] \in FrameType
<1> DEFINE C == ClientEnd(c)
           S == ServerEnd(c)
<1>1. C \in End /\ S \in End /\ Peer(C) = S
  BY ConnectionFacts
<1>2. got[C] \in Seq(FrameType) /\ Len(got[C]) \in Nat /\ Len(sent[S]) \in Nat
  BY <1>1, EndTypes
<1>3. Received(C)
  BY DEF ConnectionOK, StreamOK
<1>4. i \in 1 .. Len(sent[S]) /\ got[C][i] = sent[S][i]
  BY <1>1, <1>2, <1>3 DEF Received
<1> QED  BY <1>2, <1>4, ElementOfSeq

(* So are the answers to failover commands it has heard.                    *)
LEMMA HeardIsSent ==
  ASSUME TypeOK, NEW c \in Client, ConnectionOK(c), NEW i \in Heard(c)
  PROVE  /\ i \in 1 .. Len(got[ClientEnd(c)]) /\ i \in 1 .. Len(sent[ServerEnd(c)])
         /\ got[ClientEnd(c)][i] = sent[ServerEnd(c)][i]
         /\ got[ClientEnd(c)][i].op = "failover" /\ got[ClientEnd(c)][i] \in FrameType
<1>1. got[ClientEnd(c)] \in Seq(FrameType)
  BY ConnectionFacts, EndTypes
<1>2. i \in 1 .. Len(got[ClientEnd(c)]) /\ got[ClientEnd(c)][i].op = "failover"
  BY <1>1, LenProperties DEF Heard
<1> QED  BY <1>2, GotIsSent

(* How a client program may move: it connects when those before it have     *)
(* ended, and ends for good.                                                *)
LEMMA TurnSteps ==
  ASSUME Inv, [Next]_vars, NEW b \in Client
  PROVE  /\ client[b].at = "exited" => client'[b].at = "exited"
         /\ client'[b].at # client[b].at /\ client[b].at = "away" =>
              \A d \in 1 .. b - 1 : client[d].at = "exited"
<1>1. client \in [Client -> ClientType]
  BY DEF Inv, TypeOK
<1>2. CASE client' = client
  BY <1>2
<1>3. ASSUME NEW c \in Client, Connect(c)
      PROVE  /\ client[b].at = "exited" => client'[b].at = "exited"
             /\ client'[b].at # client[b].at /\ client[b].at = "away" =>
                  \A d \in 1 .. b - 1 : client[d].at = "exited"
  BY <1>1, <1>3 DEF Connect, ClientType
<1>4. ASSUME NEW c \in Client, client[c].at \notin {"away", "exited"}, NEW x,
             client' = [client EXCEPT ![c] = x]
      PROVE  /\ client[b].at = "exited" => client'[b].at = "exited"
             /\ client'[b].at # client[b].at => client[b].at # "away"
  BY <1>1, <1>4
<1>5. ASSUME NEW c \in Client, ClientStep(c) \/ Exit(c)
      PROVE  /\ client[c].at \notin {"away", "exited"}
             /\ \E x : client' = [client EXCEPT ![c] = x]
  BY <1>5 DEF ClientStep, Welcomed, TransmitReturns, Exit
<1>6. ASSUME NEW c \in Client, NEW op, NEW key, NEW size, Transmit(c, op, key, size)
      PROVE  /\ client[c].at \notin {"away", "exited"}
             /\ \E x : client' = [client EXCEPT ![c] = x]
  BY <1>6 DEF Transmit
<1>7. ASSUME NEW c \in Client, WorkerStep(c) \/ Interrupt(c)
      PROVE  client' = client
  BY <1>7 DEF WorkerStep, Greet, WorkerLeaves, Execute, Interrupt
<1>8. ASSUME NEW e \in End, ChannelStep(e) \/ Reset(e) \/ Damage(e)
      PROVE  client' = client
  BY <1>8 DEF ChannelStep, Parse, SendCell, SendFails, RecvCell, RecvFails, Reset, Damage
<1>9. UNCHANGED vars => client' = client
  BY DEF vars
<1> QED  BY <1>2, <1>3, <1>4, <1>5, <1>6, <1>7, <1>8, <1>9 DEF Next

(* An end that receives a frame was in recv_frame, and nothing is sent.     *)
LEMMA GotSteps ==
  ASSUME Inv, [Next]_vars, NEW e \in End
  PROVE  got'[e] = got[e] \/ (chan[e].doing \in {"header", "payload"} /\ sent' = sent)
<1>1. got \in [End -> Seq(FrameType)]
  BY DEF Inv, TypeOK
<1>2. ASSUME NEW d \in End, ChannelStep(d) \/ Reset(d) \/ Damage(d), got' # got
      PROVE  Parse(d)
  BY <1>2 DEF ChannelStep, SendCell, SendFails, RecvCell, RecvFails, Reset, Damage, logVars
<1>3. ASSUME NEW d \in End, Parse(d)
      PROVE  got'[e] = got[e] \/ (chan[e].doing \in {"header", "payload"} /\ sent' = sent)
  <2>1. /\ chan[d].doing \in {"header", "payload"} /\ sent' = sent
        /\ got' = got \/ \E x : got' = [got EXCEPT ![d] = x]
    BY <1>3 DEF Parse
  <2> QED  BY <1>1, <2>1
<1>4. ASSUME NEW c \in Client,
             \/ Connect(c) \/ ClientStep(c) \/ Exit(c) \/ WorkerStep(c) \/ Interrupt(c)
      PROVE  got' = got
  BY <1>4 DEF Connect, ClientStep, Welcomed, TransmitReturns, Exit, WorkerStep, Greet,
              WorkerLeaves, Execute, Interrupt, logVars
<1>5. ASSUME NEW c \in Client, NEW op, NEW key, NEW size, Transmit(c, op, key, size)
      PROVE  got' = got
  BY <1>5 DEF Transmit
<1>6. UNCHANGED vars => got' = got
  BY DEF vars, logVars
<1> QED  BY <1>2, <1>3, <1>4, <1>5, <1>6 DEF Next

(* Clients come in turn: what an earlier one heard is no newer than what    *)
(* the worker of a later one says.                                          *)
LEMMA TurnsStep ==
  Inv /\ DecisionsOK /\ TurnsOK /\ SinceOK /\ [Next]_vars => (TurnsOK /\ SinceOK)'
<1>1. SUFFICES ASSUME Inv, DecisionsOK, TurnsOK, SinceOK, [Next]_vars
               PROVE  TurnsOK' /\ SinceOK'
  OBVIOUS
<1>2. TypeOK /\ \A c \in Client : ConnectionOK(c)
  BY <1>1 DEF Inv
<1>3. TurnsOK'
  <2>1. SUFFICES ASSUME NEW b \in Client, NEW c \in Client, b < c, client'[c].at # "away"
                 PROVE  client'[b].at = "exited"
    BY DEF TurnsOK
  <2>2. b \in 1 .. c - 1
    BY <2>1, WireAssumption DEF Client
  <2>3. client[b].at = "exited"
    BY <1>1, <2>1, <2>2, TurnSteps DEF TurnsOK
  <2> QED  BY <1>1, <2>3, TurnSteps
<1>4. SinceOK'
  <2>1. SUFFICES ASSUME NEW b \in Client, NEW c \in Client, b < c,
                        NEW i \in 1 .. Len(got'[ClientEnd(b)]),
                        NEW j \in 1 .. Len(sent'[ServerEnd(c)])
                 PROVE  Ordered(got'[ClientEnd(b)][i], sent'[ServerEnd(c)][j])
    BY DEF SinceOK, Ordered
  <2> DEFINE C == ClientEnd(b)
             S == ServerEnd(c)
  <2>2. C \in End /\ S \in End /\ Peer(C) = ServerEnd(b)
    BY ConnectionFacts
  <2>3. CASE got'[C] = got[C]
    <3>1. i \in 1 .. Len(sent[ServerEnd(b)]) /\ got[C][i] = sent[ServerEnd(b)][i]
      BY <1>2, <2>1, <2>2, <2>3, GotIsSent
    <3>2. PICK d \in Client, f \in FrameType :
            Says(d, f) /\ DecisionStep /\ Told(f)' /\ Newest(f)'
      BY <1>1, SaidStep
    <3>3. \/ j \in 1 .. Len(sent[S]) /\ sent'[S][j] = sent[S][j]
          \/ sent'[S][j] = f
      BY <1>2, <2>1, <3>2, SaidFacts
    <3>4. CASE j \in 1 .. Len(sent[S]) /\ sent'[S][j] = sent[S][j]
      BY <1>1, <2>1, <2>3, <3>4 DEF SinceOK
    <3>5. CASE sent'[S][j] = f
      <4>1. PICK x \in FrameType : x = sent[ServerEnd(b)][i] /\ Told(x)
        BY <1>1, <1>2, <3>1, ConnectionFacts, EndTypes, ElementOfSeq DEF DecisionsOK, ToldOK
      <4>2. Told(x)'
        BY <1>2, <3>2, <4>1, AcceptedStays
      <4>3. Ordered(x, f)
        BY <3>2, <4>2 DEF Told, Newest, Ordered
      <4> QED  BY <2>3, <3>1, <3>5, <4>1, <4>3
    <3> QED  BY <3>3, <3>4, <3>5
  <2>4. CASE got'[C] # got[C]
    <3>1. chan[C].doing \in {"header", "payload"} /\ sent' = sent
      BY <1>1, <2>2, <2>4, GotSteps
    <3>2. client[b].at # "exited"
      BY <1>2, <3>1, NewChannelFacts DEF ConnectionOK, ClientOK
    <3>3. client[c].at = "away"
      BY <1>1, <2>1, <3>2 DEF TurnsOK
    <3>4. sent[S] = <<>>
      BY <1>2, <3>3 DEF ConnectionOK, ClientOK
    <3> QED  BY <2>1, <3>1, <3>4, EmptySeq
  <2> QED  BY <2>3, <2>4
<1> QED  BY <1>3, <1>4

(* So it is in every reachable state.                                       *)
LEMMA TurnsInvariant == Spec => [](TurnsOK /\ SinceOK)
<1>1. Init => TurnsOK /\ SinceOK
  <2>1. SUFFICES ASSUME Init
                 PROVE  TurnsOK /\ SinceOK
    OBVIOUS
  <2>2. \A c \in Client : /\ client[c].at = "away" /\ Len(got[ClientEnd(c)]) = 0
                          /\ Len(sent[ServerEnd(c)]) = 0
    BY <2>1, ConnectionFacts, EmptySeq DEF Init
  <2> QED  BY <2>2 DEF TurnsOK, SinceOK
<1>2. Inv /\ (DecisionsOK /\ IntentsOK) /\ (TurnsOK /\ SinceOK) /\ [Next]_vars
        => (TurnsOK /\ SinceOK)'
  BY TurnsStep
<1> QED  BY <1>1, <1>2, WireInvariant, DataInvariant, PTL DEF Spec

(* Then what clients hear is true, and a later answer about a key tells the *)
(* same decision or one that is so many decisions younger.                  *)
LEMMA AgreeFacts == Inv /\ DecisionsOK /\ SinceOK => RetriesAgree
<1>1. SUFFICES ASSUME Inv, DecisionsOK, SinceOK,
                      NEW c \in Client, NEW d \in Client, NEW i \in Heard(c), NEW j \in Heard(d)
               PROVE  LET f == got[ClientEnd(c)][i]
                          g == got[ClientEnd(d)][j]
                      IN
                      /\ IF f.value = 0
                         THEN \E n \in DOMAIN decisions :
                                /\ decisions[n] = [key |-> f.key, accepted |-> TRUE]
                                /\ n + MaxRequestCache <= Len(decisions)
                         ELSE f.value \in DOMAIN decisions /\ decisions[f.value].key = f.key
                      /\ (c < d \/ (c = d /\ i < j)) /\ f.key = g.key
                           /\ 0 \notin {f.value, g.value}
                           => g.value = f.value \/ g.value > f.value + MaxRequestCache
  BY DEF RetriesAgree
<1> DEFINE f == got[ClientEnd(c)][i]
           g == got[ClientEnd(d)][j]
<1>2. TypeOK /\ ConnectionOK(c) /\ ConnectionOK(d)
  BY <1>1 DEF Inv
<1>3. /\ DOMAIN decisions = 1 .. Len(decisions) /\ Len(decisions) \in Nat
      /\ decisions \in Seq(DecisionType) /\ MaxRequestCache \in Nat
  BY <1>2, FabricLengths, WireAssumption
<1>4. /\ i \in 1 .. Len(got[ClientEnd(c)]) /\ i \in 1 .. Len(sent[ServerEnd(c)])
      /\ f = sent[ServerEnd(c)][i] /\ f.op = "failover" /\ f \in FrameType
  BY <1>2, HeardIsSent
<1>5. /\ j \in 1 .. Len(got[ClientEnd(d)]) /\ j \in 1 .. Len(sent[ServerEnd(d)])
      /\ g = sent[ServerEnd(d)][j] /\ g.op = "failover" /\ g \in FrameType
  BY <1>2, HeardIsSent
<1>6. Told(f) /\ Told(g)
  BY <1>1, <1>4, <1>5 DEF DecisionsOK, ToldOK
<1>7. (c < d \/ (c = d /\ i < j)) => Ordered(f, g)
  BY <1>1, <1>4, <1>5 DEF DecisionsOK, OrderOK, SinceOK
<1> HIDE DEF f, g
<1>8. IF f.value = 0
      THEN \E n \in DOMAIN decisions :
             /\ decisions[n] = [key |-> f.key, accepted |-> TRUE]
             /\ n + MaxRequestCache <= Len(decisions)
      ELSE f.value \in DOMAIN decisions /\ decisions[f.value].key = f.key
  <2>1. CASE f.value = 0
    <3>1. PICK n : Accepted(f.key, n) /\ n + MaxRequestCache <= Len(decisions)
      BY <1>4, <1>6, <2>1 DEF Told
    <3>2. n \in 1 .. Len(decisions) /\ decisions[n].key = f.key /\ decisions[n].accepted
      BY <3>1 DEF Accepted
    <3>3. decisions[n] \in DecisionType
      BY <1>3, <3>2, ElementOfSeq
    <3>4. decisions[n] = [key |-> f.key, accepted |-> TRUE]
      BY <3>2, <3>3 DEF DecisionType
    <3> QED  BY <1>3, <2>1, <3>1, <3>2, <3>4
  <2>2. CASE f.value # 0
    BY <1>3, <1>4, <1>6, <2>2 DEF Told
  <2> QED  BY <2>1, <2>2
<1>9. ASSUME c < d \/ (c = d /\ i < j), f.key = g.key, f.value # 0, g.value # 0
      PROVE  g.value = f.value \/ g.value > f.value + MaxRequestCache
  <2>1. /\ f.value \in 1 .. Len(decisions) /\ decisions[f.value].key = f.key
        /\ g.value \in 1 .. Len(decisions) /\ decisions[g.value].key = g.key
    BY <1>4, <1>5, <1>6, <1>9 DEF Told
  <2>2. f.value <= g.value
    BY <1>4, <1>5, <1>7, <1>9 DEF Ordered
  <2>3. f.value < g.value => f.value + MaxRequestCache < g.value
    BY <1>1, <1>9, <2>1 DEF DecisionsOK, SpacingOK
  <2> QED  BY <1>3, <2>1, <2>2, <2>3
<1> QED  BY <1>8, <1>9 DEF f, g

(* A retry on any connection, executed at any time, hears the decision that *)
(* was told before, or one made after the cache was filled with others; and *)
(* only of a key whose accepted decision the cache pushed out does a client *)
(* hear that it is in flight.                                               *)
THEOREM RetriesAlwaysAgree == Spec => []RetriesAgree
BY WireInvariant, DataInvariant, TurnsInvariant, AgreeFacts, PTL

(* A response that the worker sent and the client has not received is on    *)
(* its way, unless the connection is disturbed.                             *)
LEMMA OnItsWay ==
  ASSUME TypeOK, NEW c \in Client, ConnectionOK(c), ~Disturbed(c),
         NEW i \in 1 .. Len(sent[ServerEnd(c)]), i > Len(got[ClientEnd(c)])
  PROVE  \E s \in {chan[ServerEnd(c)].out, wire[ClientEnd(c)], chan[ClientEnd(c)].buffer} :
           \E j \in DOMAIN s : s[j].of = sent[ServerEnd(c)][i]
<1> DEFINE C == ClientEnd(c)
           S == ServerEnd(c)
           r == Rest(chan[C])
           w == wire[C]
           o == chan[S].out
           n == Len(got[C])
<1>1. C \in End /\ S \in End /\ Peer(C) = S /\ Peer(S) = C
  BY ConnectionFacts
<1>2. n \in Nat /\ Len(sent[C]) \in Nat /\ Len(sent[S]) \in Nat /\ Len(got[S]) \in Nat
  BY <1>1, EndTypes
<1>3. /\ ChannelOK(C) /\ StreamOK(C) /\ Received(S) /\ WorkerOK(c) /\ ClientOK(c)
  BY DEF ConnectionOK, StreamOK
<1>4. C \in open /\ S \in open /\ ~chan[C].broken
  BY DEF Disturbed
<1>5. client[c].at \notin {"away", "exited"}
  BY <1>3, <1>4 DEF ClientOK
<1>6. Len(sent[C]) <= n + 1
  <2>1. Len(sent[C]) = n + IF chan[C].doing \in {"sending", "header", "payload"} THEN 1 ELSE 0
    BY <1>3, <1>4, <1>5 DEF ClientOK
  <2>2. Len(sent[C]) = n + 1 \/ Len(sent[C]) = n + 0
    BY <2>1
  <2> HIDE DEF n, C
  <2> QED  BY <1>2, <2>2
<1>7. Len(sent[S]) <= Len(got[S]) /\ Len(got[S]) <= Len(sent[C])
  BY <1>1, <1>3 DEF WorkerOK, Received
<1>8. i = n + 1 /\ n < Len(sent[S])
  BY <1>2, <1>6, <1>7
<1>9. /\ r \in Seq(CellType) /\ w \in Seq(CellType) /\ o \in Seq(CellType)
      /\ \A j \in 1 .. Len(r) : r[j] = chan[C].buffer[chan[C].begin + j]
  BY <1>1, <1>3, EndTypes, ChannelRest
<1>10. Stream(C) = (r \o w) \o o /\ Aligned(Stream(C), sent[S], n) /\ Complete(Stream(C), sent[S], n)
  BY <1>1, <1>3, <1>4 DEF StreamOK, Stream
<1>11. Stream(C) # <<>> /\ Stream(C)[1].of = sent[S][n + 1]
  <2>1. n # Len(sent[S])
    BY <1>2, <1>8
  <2>2. Stream(C) # <<>>
    BY <1>10, <2>1 DEF Complete
  <2> QED  BY <1>10, <2>2 DEF Aligned
<1> DEFINE u == r \o w
           v == u \o o
<1>12. /\ u \in Seq(CellType) /\ Len(u) = Len(r) + Len(w)
       /\ \A j \in 1 .. Len(r) + Len(w) : u[j] = IF j <= Len(r) THEN r[j] ELSE w[j - Len(r)]
  BY <1>9, ConcatProperties, Zenon
<1>13. v # <<>> /\ v[1].of = sent[S][i]
  BY <1>8, <1>10, <1>11
<1> HIDE DEF u, r, w, o
<1>14. /\ v \in Seq(CellType) /\ Len(v) = Len(u) + Len(o)
       /\ \A j \in 1 .. Len(u) + Len(o) : v[j] = IF j <= Len(u) THEN u[j] ELSE o[j - Len(u)]
  BY <1>9, <1>12, ConcatProperties, Zenon
<1> HIDE DEF v
<1>15. /\ Len(r) \in Nat /\ Len(w) \in Nat /\ Len(o) \in Nat /\ Len(u) \in Nat
       /\ Len(v) \in Nat /\ Len(v) >= 1
  BY <1>9, <1>12, <1>13, <1>14, CellsLength
<1>16. \/ 1 \in 1 .. Len(r) /\ v[1] = r[1]
       \/ 1 \in 1 .. Len(w) /\ v[1] = w[1]
       \/ 1 \in 1 .. Len(o) /\ v[1] = o[1]
  <2>1. CASE Len(r) >= 1
    <3>1. 1 \in 1 .. Len(r) + Len(w) /\ 1 <= Len(r) /\ 1 \in 1 .. Len(u) + Len(o) /\ 1 <= Len(u)
      BY <1>12, <1>15, <2>1
    <3> QED  BY <1>12, <1>14, <3>1, <2>1, <1>15
  <2>2. CASE Len(r) = 0 /\ Len(w) >= 1
    <3>1. /\ 1 \in 1 .. Len(r) + Len(w) /\ ~(1 <= Len(r)) /\ 1 - Len(r) = 1
          /\ 1 \in 1 .. Len(u) + Len(o) /\ 1 <= Len(u) /\ 1 \in 1 .. Len(w)
      BY <1>12, <1>15, <2>2
    <3> QED  BY <1>12, <1>14, <3>1
  <2>3. CASE Len(r) = 0 /\ Len(w) = 0
    <3>1. /\ Len(u) = 0 /\ Len(o) >= 1 /\ 1 \in 1 .. Len(u) + Len(o) /\ ~(1 <= Len(u))
          /\ 1 - Len(u) = 1 /\ 1 \in 1 .. Len(o)
      BY <1>12, <1>14, <1>15, <2>3
    <3> QED  BY <1>14, <3>1
  <2> QED  BY <1>15, <2>1, <2>2, <2>3
<1>17. CASE 1 \in 1 .. Len(r) /\ v[1] = r[1]
  <2>1. r[1] = chan[C].buffer[chan[C].begin + 1]
    BY <1>9, <1>17
  <2>2. chan[C].begin + 1 \in DOMAIN chan[C].buffer
    <3>1. chan[C] \in ChannelType
      BY <1>1, EndTypes
    <3>2. chan[C].buffer \in Seq(CellType) /\ chan[C].begin \in Nat
      BY <3>1 DEF ChannelType
    <3>3. Len(r) = Have(chan[C])
      BY <1>1, <1>3, ChannelRest DEF r
    <3>4. Len(chan[C].buffer) \in Nat /\ Len(chan[C].buffer) - chan[C].begin >= 1
      BY <1>15, <1>17, <3>2, <3>3, LenProperties DEF Have
    <3>5. DOMAIN chan[C].buffer = 1 .. Len(chan[C].buffer)
      BY <3>2, LenProperties
    <3> QED  BY <3>2, <3>4, <3>5
  <2> QED  BY <1>13, <1>17, <2>1, <2>2
<1>18. CASE 1 \in 1 .. Len(w) /\ v[1] = w[1]
  <2>1. 1 \in DOMAIN w /\ w[1].of = sent[S][i]
    BY <1>9, <1>13, <1>18, LenProperties
  <2> QED  BY <2>1 DEF w
<1>19. CASE 1 \in 1 .. Len(o) /\ v[1] = o[1]
  <2>1. 1 \in DOMAIN o /\ o[1].of = sent[S][i]
    BY <1>9, <1>13, <1>19, LenProperties
  <2> QED  BY <2>1 DEF o
<1> QED  BY <1>16, <1>17, <1>18, <1>19

(* The intents that a log carries are those of its responses to a pull.     *)
LEMMA IntentsOfFacts ==
  ASSUME NEW log \in Seq(FrameType), NEW n \in Nat \ {0}
  PROVE  n \in IntentsOf(log) <=>
           \E i \in 1 .. Len(log) : log[i].op = "pull" /\ log[i].value = n
<1>1. DOMAIN log = 1 .. Len(log)
  BY LenProperties
<1> QED  BY <1>1 DEF IntentsOf

(* Then an intent that is nowhere was lost with its connection or response. *)
LEMMA AccountedFacts == Inv /\ IntentsOK => IntentsAccountedFor
<1>1. SUFFICES ASSUME Inv, IntentsOK, NEW n \in {d \in DOMAIN decisions : decisions[d].accepted}
               PROVE  LET carriers == {c \in Client : n \in IntentsOf(sent[ServerEnd(c)])} IN
                      /\ Cardinality(carriers) <= 1
                      /\ n \in ToSet(pending) \cup dropped <=> carriers = {}
                      /\ \A c \in carriers :
                           n \in IntentsOf(got[ClientEnd(c)]) \/ InFlight(c, n) \/ Disturbed(c)
  BY DEF IntentsAccountedFor
<1> DEFINE carriers == {c \in Client : n \in IntentsOf(sent[ServerEnd(c)])}
<1>2. /\ decisions \in Seq(DecisionType) /\ Len(decisions) \in Nat
      /\ pending \in Seq(Nat) /\ Len(pending) \in Nat
  BY <1>1, FabricLengths DEF Inv
<1>3. n \in 1 .. Len(decisions) /\ n \in Nat \ {0} /\ decisions[n].accepted
  <2>1. n \in 1 .. Len(decisions)
    BY <1>2, LenProperties
  <2> QED  BY <1>2, <2>1
<1>4. \A c \in Client : n \in IntentsOf(sent[ServerEnd(c)]) <=> Carried(c, n)
  <2>1. \A c \in Client : sent[ServerEnd(c)] \in Seq(FrameType)
    BY <1>1, ConnectionFacts, EndTypes DEF Inv
  <2> QED  BY <1>3, <2>1, IntentsOfFacts DEF Carried
<1>5. \A c, d \in carriers : c = d
  BY <1>1, <1>3, <1>4 DEF IntentsOK
<1>6. Cardinality(carriers) <= 1
  <2>1. carriers = {} \/ \E c : carriers = {c}
    BY <1>5
  <2> HIDE DEF carriers
  <2>2. CASE carriers = {}
    <3>1. Cardinality(carriers) = 0
      BY <2>2, FS_EmptySet
    <3> QED  BY <3>1
  <2>3. ASSUME NEW c, carriers = {c}
        PROVE  Cardinality(carriers) <= 1
    <3>1. Cardinality(carriers) = 1
      BY <2>3, FS_Singleton
    <3> QED  BY <3>1
  <2> QED  BY <2>1, <2>2, <2>3
<1>7. n \in ToSet(pending) \cup dropped <=> carriers = {}
  <2>1. n \in ToSet(pending) <=> \E i \in 1 .. Len(pending) : pending[i] = n
    <3>1. DOMAIN pending = 1 .. Len(pending)
      BY <1>2, LenProperties
    <3> QED  BY <3>1 DEF ToSet
  <2>2. \A c \in Client : Carried(c, n) =>
          n \notin dropped /\ \A i \in 1 .. Len(pending) : pending[i] # n
    BY <1>1, <1>3 DEF IntentsOK
  <2>3. \/ n \in dropped
        \/ \E i \in 1 .. Len(pending) : pending[i] = n
        \/ \E c \in Client : Carried(c, n)
    BY <1>1, <1>3 DEF IntentsOK
  <2> QED  BY <1>4, <2>1, <2>2, <2>3
<1>8. ASSUME NEW c \in carriers
      PROVE  n \in IntentsOf(got[ClientEnd(c)]) \/ InFlight(c, n) \/ Disturbed(c)
  <2>1. c \in Client /\ Carried(c, n)
    BY <1>4
  <2>2. PICK i \in 1 .. Len(sent[ServerEnd(c)]) :
          sent[ServerEnd(c)][i].op = "pull" /\ sent[ServerEnd(c)][i].value = n
    BY <2>1 DEF Carried
  <2>3. /\ ClientEnd(c) \in End /\ Peer(ClientEnd(c)) = ServerEnd(c)
        /\ TypeOK /\ ConnectionOK(c)
    BY <1>1, <2>1, ConnectionFacts DEF Inv
  <2>4. got[ClientEnd(c)] \in Seq(FrameType) /\ Len(got[ClientEnd(c)]) \in Nat
         /\ Len(sent[ServerEnd(c)]) \in Nat
    BY <2>1, <2>3, EndTypes, ConnectionFacts
  <2>5. CASE i <= Len(got[ClientEnd(c)])
    <3>1. i \in 1 .. Len(got[ClientEnd(c)])
      BY <2>4, <2>5
    <3>2. got[ClientEnd(c)][i] = sent[ServerEnd(c)][i]
      BY <2>3, <3>1 DEF ConnectionOK, StreamOK, Received
    <3> QED  BY <1>3, <2>2, <2>4, <3>1, <3>2, IntentsOfFacts
  <2>6. CASE i > Len(got[ClientEnd(c)]) /\ ~Disturbed(c)
    <3>1. \E s \in {chan[ServerEnd(c)].out, wire[ClientEnd(c)], chan[ClientEnd(c)].buffer} :
            \E j \in DOMAIN s : s[j].of = sent[ServerEnd(c)][i]
      BY <2>1, <2>3, <2>6, OnItsWay
    <3> QED  BY <2>2, <3>1 DEF InFlight
  <2> QED  BY <2>4, <2>5, <2>6
<1> QED  BY <1>6, <1>7, <1>8

(* take_intent removes an intent before its response is sent: it goes to    *)
(* one client, and is lost only with the connection that carried it or with *)
(* a response above the daemon's ceiling.                                   *)
THEOREM IntentsAlwaysAccountedFor == Spec => []IntentsAccountedFor
BY WireInvariant, DataInvariant, AccountedFacts, PTL
=============================================================================
