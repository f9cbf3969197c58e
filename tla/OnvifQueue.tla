----------------------------- MODULE OnvifQueue -----------------------------
(***************************************************************************)
(* What the engine promises the clients of its ONVIF listener: requests    *)
(* are served one at a time in the order of their arrival, and a client    *)
(* with a framed response gets in one piece whatever the camera sent of    *)
(* it, not before the camera has sent it all or closed the realm.  The     *)
(* session may break at any moment.                                        *)
(***************************************************************************)
EXTENDS Naturals, Sequences

CONSTANTS
  Requests,  \* one per connection
  Framed,    \* requests whose response has a Content-Length
  Parts      \* payloads of a whole response

VARIABLES
  queue,      \* requests that wait, in the order of their arrival
  inService,  \* the request in service, or none
  served,     \* requests whose response was written
  answered,   \* per request: payloads the camera has sent
  closed,     \* requests whose realm the camera has closed
  given,      \* per request: payloads its client was given
  broken      \* TRUE once the session has ended

vars == <<queue, inService, served, answered, closed, given, broken>>

Init ==
  /\ queue = <<>>
  /\ inService = {}
  /\ served = {}
  /\ answered = [c \in Requests |-> 0]
  /\ closed = {}
  /\ given = [c \in Requests |-> 0]
  /\ broken = FALSE

Arrive(c) ==
  /\ ~broken
  /\ c \notin inService \cup served
  /\ \A i \in DOMAIN queue : queue[i] # c
  /\ queue' = Append(queue, c)
  /\ UNCHANGED <<inService, served, answered, closed, given, broken>>

Serve ==
  /\ ~broken
  /\ inService = {}
  /\ queue # <<>>
  /\ inService' = {Head(queue)}
  /\ queue' = Tail(queue)
  /\ UNCHANGED <<served, answered, closed, given, broken>>

\* The camera may go on behind a response without a Content-Length, which is
\* written when its header has come.
Answer(c) ==
  /\ ~broken
  /\ c \in inService \cup (served \ Framed)
  /\ c \notin closed
  /\ answered[c] < Parts
  /\ answered' = [answered EXCEPT ![c] = @ + 1]
  /\ UNCHANGED <<queue, inService, served, closed, given, broken>>

Close(c) ==
  /\ ~broken
  /\ c \in inService \cup served
  /\ c \notin closed
  /\ closed' = closed \cup {c}
  /\ UNCHANGED <<queue, inService, served, answered, given, broken>>

Finish(c) ==
  /\ ~broken
  /\ inService = {c}
  /\ inService' = {}
  /\ served' = served \cup {c}
  /\ \E n \in 0 .. answered[c] :
       /\ c \in Framed => n = answered[c] /\ (n = Parts \/ c \in closed)
       /\ given' = [given EXCEPT ![c] = n]
  /\ UNCHANGED <<queue, answered, closed, broken>>

Break ==
  /\ ~broken
  /\ broken' = TRUE
  /\ UNCHANGED <<queue, inService, served, answered, closed, given>>

Next ==
  \/ \E c \in Requests : Arrive(c) \/ Answer(c) \/ Close(c) \/ Finish(c)
  \/ Serve
  \/ Break

Spec == Init /\ [][Next]_vars
=============================================================================
