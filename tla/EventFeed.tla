----------------------------- MODULE EventFeed -----------------------------
(***************************************************************************)
(* What the server promises its clients: the requests of one connection are *)
(* numbered as they are sent; they are handled in that order, each at most  *)
(* once and only after it was sent; none is left out but in MaySkip.        *)
(***************************************************************************)
EXTENDS Naturals, Sequences

CONSTANTS Clients, MaySkip

VARIABLES
  sent,    \* number of requests a client has begun to send
  handled  \* the requests handled, in order

vars == <<sent, handled>>

LastOf(s) == IF s = <<>> THEN 0 ELSE s[Len(s)]

Init == sent = [c \in Clients |-> 0] /\ handled = [c \in Clients |-> <<>>]

Send(c) == sent' = [sent EXCEPT ![c] = @ + 1] /\ UNCHANGED handled

Handle(c, n) ==
  /\ n \in 1..sent[c] /\ n > LastOf(handled[c])
  /\ c \in MaySkip \/ n = LastOf(handled[c]) + 1
  /\ handled' = [handled EXCEPT ![c] = Append(@, n)]
  /\ UNCHANGED sent

Next == \E c \in Clients : Send(c) \/ \E n \in 1..sent[c] : Handle(c, n)

Spec == Init /\ [][Next]_vars
=============================================================================
