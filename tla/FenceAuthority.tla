--------------------------- MODULE FenceAuthority ---------------------------
(***************************************************************************)
(* What the coordinator promises about authority: tokens of a service are  *)
(* granted one after the other, each to one holder, and a grant, once made, *)
(* is never taken back or reassigned, whatever crashes in between.         *)
(***************************************************************************)
EXTENDS Naturals

CONSTANTS Service, Holder

VARIABLES
  top,      \* top[s]: the newest token granted for service s
  granted   \* every grant ever made

Grants == [service : Service, token : Nat \ {0}, holder : Holder]

Init ==
  /\ top = [s \in Service |-> 0]
  /\ granted = {}

Grant(s, h) ==
  /\ top' = [top EXCEPT ![s] = @ + 1]
  /\ granted' = granted \cup {[service |-> s, token |-> top[s] + 1, holder |-> h]}

Next == \E s \in Service, h \in Holder : Grant(s, h)

Spec == Init /\ [][Next]_<<top, granted>>

TypeOK ==
  /\ top \in [Service -> Nat]
  /\ granted \subseteq Grants

(* A token names one holder for ever.                                       *)
OneHolderPerToken ==
  \A g, h \in granted :
    g.service = h.service /\ g.token = h.token => g.holder = h.holder
=============================================================================
