----------------------------- MODULE FrameFifo ------------------------------
(* What a pair of FrameChannels promises: each end receives the frames the  *)
(* other end sent, in that order and each of them once.  Frames may never   *)
(* arrive; nothing else may.                                                *)
EXTENDS Sequences, Naturals

CONSTANTS
  End,     \* the ends of the connections
  Peer(_)  \* the other end

VARIABLES
  sent,  \* the frames each end has sent
  got    \* the frames each end has received

vars == <<sent, got>>

Init ==
  /\ sent = [e \in End |-> <<>>]
  /\ got = [e \in End |-> <<>>]

(* An end sends one more frame.                                             *)
Send(e) ==
  /\ Len(sent'[e]) = Len(sent[e]) + 1
  /\ sent' = [sent EXCEPT ![e] = Append(@, sent'[e][Len(sent[e]) + 1])]
  /\ UNCHANGED got

(* An end receives the next of its peer's frames.                           *)
Deliver(e) ==
  /\ Len(got[e]) < Len(sent[Peer(e)])
  /\ got' = [got EXCEPT ![e] = Append(@, sent[Peer(e)][Len(got[e]) + 1])]
  /\ UNCHANGED sent

Next == \E e \in End : Send(e) \/ Deliver(e)

Spec == Init /\ [][Next]_vars
=============================================================================
