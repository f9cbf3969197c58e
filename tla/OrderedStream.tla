---------------------------- MODULE OrderedStream ----------------------------
(***************************************************************************)
(* What one PTCP session promises the local client in strict ordering: the *)
(* camera's packets 1, 2, 3... are handed over in that order, none twice,  *)
(* none left out; the camera may forget a packet only once it was handed   *)
(* over; the session may break at any moment.                              *)
(***************************************************************************)
EXTENDS Naturals, Sequences

CONSTANT StreamLength       \* packets of the camera's stream

VARIABLES
  offered,    \* packets the camera has sent at least once
  taken,      \* packets handed to the client, in order
  forgotten,  \* packets the camera no longer keeps
  broken      \* TRUE once the session has ended

vars == <<offered, taken, forgotten, broken>>

TakenFirst(n) == [i \in 1 .. n |-> i]

Init ==
  /\ offered = 0
  /\ taken = <<>>
  /\ forgotten = 0
  /\ broken = FALSE

Offer ==
  /\ ~broken
  /\ offered < StreamLength
  /\ offered' = offered + 1
  /\ UNCHANGED <<taken, forgotten, broken>>

\* Several packets may be handed over at once, when one closes a gap.
Take ==
  /\ ~broken
  /\ \E n \in Len(taken) + 1 .. offered : taken' = TakenFirst(n)
  /\ UNCHANGED <<offered, forgotten, broken>>

Forget ==
  /\ ~broken
  /\ \E n \in forgotten + 1 .. Len(taken) : forgotten' = n
  /\ UNCHANGED <<offered, taken, broken>>

Break ==
  /\ ~broken
  /\ broken' = TRUE
  /\ UNCHANGED <<offered, taken, forgotten>>

Next == Offer \/ Take \/ Forget \/ Break

Spec == Init /\ [][Next]_vars
=============================================================================
