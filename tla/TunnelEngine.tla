---------------------------- MODULE TunnelEngine ----------------------------
(***************************************************************************)
(* The realms of one Rust engine: every local TCP connection becomes a     *)
(* realm of the authenticated PTCP session (handle_client in main.rs, the  *)
(* tasks of process.rs).  RTSP connections run side by side, ONVIF/HTTP    *)
(* connections one at a time behind a semaphore with one permit.           *)
(*                                                                         *)
(* The PTCP session appears as two FIFO streams, up and down, which is     *)
(* what PtcpLink shows of it in strict ordering.  Realm identifiers are    *)
(* random 32-bit numbers in the code; here a new one differs from all      *)
(* earlier ones.                                                           *)
(***************************************************************************)
EXTENDS Naturals, Sequences, FiniteSets

CONSTANTS
  RtspClients,    \* connections to the RTSP listener
  OnvifClients,   \* connections to the ONVIF/HTTP listener
  Framed,         \* ONVIF connections whose response has a Content-Length
  Realms,         \* realm identifiers
  None,           \* no connection, no realm
  QueueCapacity,  \* of the channel to dh_writer, 128 in the code
  Parts,          \* payloads a response, or a video stream, consists of
  MaxChunks,      \* bound: reads of a client's data
  MaxInFlight,    \* bound: packets in each direction of the PTCP session
  Refuses         \* TRUE if the camera may answer a Bind with DISC

Clients == RtspClients \cup OnvifClients

ASSUME ClientAssumption ==
  /\ RtspClients \cap OnvifClients = {}
  /\ Framed \subseteq OnvifClients
  /\ None \notin Clients \cup Realms

ASSUME BoundAssumption ==
  /\ QueueCapacity \in Nat \ {0}
  /\ Parts \in Nat \ {0}
  /\ MaxChunks \in Nat
  /\ MaxInFlight \in Nat \ {0}
  /\ Refuses \in BOOLEAN

VARIABLES
  (* shared by the engine's tasks *)
  channels,      \* per realm: the connection its payloads go to
  connChannels,  \* per realm: the connection that waits for CONN
  slot,          \* the ONVIF connection that holds the permit of onvif_slots
  waiting,       \* ONVIF connections that wait for the permit, in order
  onvifRealm,    \* onvif_realm
  dhQueue,       \* the bounded channel to dh_writer
  exited,        \* process::exit(75) was called
  (* per connection: handle_client, process_reader, process_writer *)
  conn,
  (* the PTCP session and, outside the engine, the camera *)
  up, down,      \* packets on the way to the camera, and from it
  camera         \* per realm

taskVars == <<channels, connChannels, slot, waiting, onvifRealm, dhQueue, exited>>
linkVars == <<up, down, camera>>
vars == <<taskVars, conn, linkVars>>

-----------------------------------------------------------------------------
Event == [kind : {"bind", "data", "disc", "heartbeat"}, realm : Realms \cup {None}]
Packet == [kind : {"conn", "data", "disc"}, realm : Realms]

Connection ==
  [pc : {"new", "queued", "register", "connect", "await", "open"},
   realm : Realms \cup {None},
   told : BOOLEAN,                  \* conn_rx holds TRUE
   reader : {"idle", "read", "send", "disc", "remove", "done"},
   writer : {"idle", "recv", "flush", "done"},
   chunks : 0 .. MaxChunks,         \* reads that returned data
   rx : 0 .. Parts,                 \* payloads in the connection's channel
   got : 0 .. Parts]                \* payloads process_writer took from it

CameraRealm ==
  [state : {"none", "bound", "closed", "released"}, asked : BOOLEAN,
   answered : 0 .. Parts]

TypeOK ==
  /\ channels \in [Realms -> Clients \cup {None}]
  /\ connChannels \in [Realms -> Clients \cup {None}]
  /\ slot \in OnvifClients \cup {None}
  /\ waiting \in Seq(OnvifClients)
  /\ onvifRealm \in Realms \cup {None}
  /\ dhQueue \in Seq(Event) /\ Len(dhQueue) <= QueueCapacity
  /\ exited \in BOOLEAN
  /\ conn \in [Clients -> Connection]
  /\ up \in Seq(Event) /\ Len(up) <= MaxInFlight
  /\ down \in Seq(Packet) /\ Len(down) <= MaxInFlight
  /\ camera \in [Realms -> CameraRealm]

Init ==
  /\ channels = [r \in Realms |-> None]
  /\ connChannels = [r \in Realms |-> None]
  /\ slot = None
  /\ waiting = <<>>
  /\ onvifRealm = None
  /\ dhQueue = <<>>
  /\ exited = FALSE
  /\ conn = [c \in Clients |->
       [pc |-> "new", realm |-> None, told |-> FALSE, reader |-> "idle",
        writer |-> "idle", chunks |-> 0, rx |-> 0, got |-> 0]]
  /\ up = <<>>
  /\ down = <<>>
  /\ camera = [r \in Realms |-> [state |-> "none", asked |-> FALSE, answered |-> 0]]

\* Mutant: an unbounded channel.
EnqueueUnbounded(kind, r) == dhQueue' = Append(dhQueue, [kind |-> kind, realm |-> r])

\* dh_tx.send(..).await: it waits while the channel is full.
Enqueue(kind, r) ==
  /\ Len(dhQueue) < QueueCapacity
  /\ dhQueue' = Append(dhQueue, [kind |-> kind, realm |-> r])

\* Whether the sender of c's channel still exists: it lives in the map only.
HasChannel(c) == channels[conn[c].realm] = c

-----------------------------------------------------------------------------
(* The accept loop and handle_client. *)

Accept(c) ==
  /\ ~exited
  /\ conn[c].pc = "new"
  /\ conn' = [conn EXCEPT ![c].pc = IF c \in OnvifClients THEN "queued" ELSE "register"]
  /\ waiting' = IF c \in OnvifClients THEN Append(waiting, c) ELSE waiting
  /\ UNCHANGED <<channels, connChannels, slot, onvifRealm, dhQueue, exited, linkVars>>

\* Mutant: the permit is not asked for.
AcquireAnyway(c) ==
  /\ ~exited
  /\ waiting # <<>>
  /\ c = Head(waiting)
  /\ slot' = c
  /\ waiting' = Tail(waiting)
  /\ conn' = [conn EXCEPT ![c].pc = "register"]
  /\ UNCHANGED <<channels, connChannels, onvifRealm, dhQueue, exited, linkVars>>

\* tokio's semaphore serves those who wait in order.
AcquireSlot(c) ==
  /\ ~exited
  /\ slot = None
  /\ waiting # <<>>
  /\ c = Head(waiting)
  /\ slot' = c
  /\ waiting' = Tail(waiting)
  /\ conn' = [conn EXCEPT ![c].pc = "register"]
  /\ UNCHANGED <<channels, connChannels, onvifRealm, dhQueue, exited, linkVars>>

\* Mutant: a realm is used again as soon as no channel belongs to it.
NotInUse(r) == channels[r] = None

\* A fresh realm per connection.
IsFresh(r) == \A c \in Clients : conn[c].realm # r

Register(c) ==
  /\ ~exited
  /\ conn[c].pc = "register"
  /\ \E r \in Realms :
       /\ IsFresh(r)
       /\ conn' = [conn EXCEPT ![c].pc = "connect", ![c].realm = r]
       /\ channels' = [channels EXCEPT ![r] = c]
       /\ connChannels' = [connChannels EXCEPT ![r] = c]
  /\ UNCHANGED <<slot, waiting, onvifRealm, dhQueue, exited, linkVars>>

\* Mutant: process_reader starts before the camera has answered.
ConnectAndOpen(c) ==
  /\ ~exited
  /\ conn[c].pc = "connect"
  /\ Enqueue("bind", conn[c].realm)
  /\ conn' = [conn EXCEPT ![c].pc = "open", ![c].reader = "read", ![c].writer = "recv"]
  /\ UNCHANGED <<channels, connChannels, slot, waiting, onvifRealm, exited, linkVars>>

SendConnect(c) ==
  /\ ~exited
  /\ conn[c].pc = "connect"
  /\ Enqueue("bind", conn[c].realm)
  /\ conn' = [conn EXCEPT ![c].pc = "await"]
  /\ UNCHANGED <<channels, connChannels, slot, waiting, onvifRealm, exited, linkVars>>

\* conn_rx returns true: both tasks of the connection start.
Open(c) ==
  /\ ~exited
  /\ conn[c].pc = "await"
  /\ conn[c].told
  /\ conn' = [conn EXCEPT ![c].pc = "open", ![c].reader = "read", ![c].writer = "recv"]
  /\ onvifRealm' = IF c \in OnvifClients THEN conn[c].realm ELSE onvifRealm
  /\ UNCHANGED <<channels, connChannels, slot, waiting, dhQueue, exited, linkVars>>

\* conn_rx fails: P2P_BIND_TIMEOUT_SECONDS have passed, or a DISC has removed
\* its sender.  The process exits with status 75 either way.
BindFails(c) ==
  /\ ~exited
  /\ conn[c].pc = "await"
  /\ ~conn[c].told
  /\ channels' = [channels EXCEPT ![conn[c].realm] = None]
  /\ connChannels' = [connChannels EXCEPT ![conn[c].realm] = None]
  /\ exited' = TRUE
  /\ UNCHANGED <<slot, waiting, onvifRealm, dhQueue, conn, linkVars>>

-----------------------------------------------------------------------------
(* process_reader *)

ReadData(c) ==
  /\ ~exited
  /\ conn[c].reader = "read"
  /\ conn[c].chunks < MaxChunks
  /\ conn' = [conn EXCEPT ![c].reader = "send", ![c].chunks = @ + 1]
  /\ UNCHANGED <<taskVars, linkVars>>

SendData(c) ==
  /\ ~exited
  /\ conn[c].reader = "send"
  /\ Enqueue("data", conn[c].realm)
  /\ conn' = [conn EXCEPT ![c].reader = "read"]
  /\ UNCHANGED <<channels, connChannels, slot, waiting, onvifRealm, exited, linkVars>>

\* The client closes its side, or the socket fails.  An ONVIF request may end
\* this way while its response is still expected.
ReadEnds(c) ==
  /\ ~exited
  /\ conn[c].reader = "read"
  /\ conn' = [conn EXCEPT ![c].reader = IF c \in OnvifClients THEN "done" ELSE "disc"]
  /\ UNCHANGED <<taskVars, linkVars>>

SendDisconnect(c) ==
  /\ ~exited
  /\ conn[c].reader = "disc"
  /\ Enqueue("disc", conn[c].realm)
  /\ conn' = [conn EXCEPT ![c].reader = "remove"]
  /\ UNCHANGED <<channels, connChannels, slot, waiting, onvifRealm, exited, linkVars>>

RemoveChannel(c) ==
  /\ ~exited
  /\ conn[c].reader = "remove"
  /\ channels' = [channels EXCEPT ![conn[c].realm] = None]
  /\ conn' = [conn EXCEPT ![c].reader = "done"]
  /\ UNCHANGED <<connChannels, slot, waiting, onvifRealm, dhQueue, exited, linkVars>>

-----------------------------------------------------------------------------
(* process_writer *)

\* http_response_complete: without a Content-Length the header is enough.
ResponseComplete(c, n) == c \in Framed => n = Parts

\* A payload is taken; an RTSP client gets it at once, an ONVIF client gets the
\* rewritten response when it is complete.
TakePayload(c) ==
  /\ ~exited
  /\ conn[c].writer = "recv"
  /\ conn[c].rx > 0
  /\ conn' = [conn EXCEPT
       ![c].rx = @ - 1,
       ![c].got = @ + 1,
       ![c].writer = IF c \in OnvifClients /\ ResponseComplete(c, conn[c].got + 1)
                     THEN "flush" ELSE "recv"]
  /\ UNCHANGED <<taskVars, linkVars>>

\* rx.recv returns None: the sender is gone and the channel is empty.
ChannelClosed(c) ==
  /\ ~exited
  /\ conn[c].writer = "recv"
  /\ conn[c].rx = 0
  /\ ~HasChannel(c)
  /\ conn' = [conn EXCEPT ![c].writer = IF c \in OnvifClients THEN "flush" ELSE "done"]
  /\ UNCHANGED <<taskVars, linkVars>>

\* Writing to an RTSP client fails.
WriteFails(c) ==
  /\ ~exited
  /\ c \in RtspClients
  /\ conn[c].writer = "recv"
  /\ conn[c].rx > 0
  /\ conn' = [conn EXCEPT ![c].rx = 0, ![c].writer = "done"]
  /\ UNCHANGED <<taskVars, linkVars>>

\* Mutant: the channel is kept.
FlushKeepsChannel(c) ==
  /\ ~exited
  /\ conn[c].writer = "flush"
  /\ slot' = None
  /\ conn' = [conn EXCEPT ![c].rx = 0, ![c].writer = "done"]
  /\ UNCHANGED <<channels, connChannels, waiting, onvifRealm, dhQueue, exited, linkVars>>

\* write_all has given the client the response or failed: the channel is removed
\* and the permit dropped.  Until then the writer stays at "flush", for as long
\* as the client does not read: there is no timeout.
FlushResponse(c) ==
  /\ ~exited
  /\ conn[c].writer = "flush"
  /\ channels' = [channels EXCEPT ![conn[c].realm] = None]
  /\ slot' = None
  /\ conn' = [conn EXCEPT ![c].rx = 0, ![c].writer = "done"]
  /\ UNCHANGED <<connChannels, waiting, onvifRealm, dhQueue, exited, linkVars>>

-----------------------------------------------------------------------------
(* dh_writer, dh_reader and the heartbeat. *)

\* A bound: one heartbeat on its way at a time.
NoHeartbeat == \A i \in DOMAIN (dhQueue \o up) : (dhQueue \o up)[i].kind # "heartbeat"

Heartbeat ==
  /\ ~exited
  /\ NoHeartbeat
  /\ Enqueue("heartbeat", None)
  /\ UNCHANGED <<channels, connChannels, slot, waiting, onvifRealm, exited, conn, linkVars>>

Transmit ==
  /\ ~exited
  /\ dhQueue # <<>>
  /\ Len(up) < MaxInFlight
  /\ up' = Append(up, Head(dhQueue))
  /\ dhQueue' = Tail(dhQueue)
  /\ UNCHANGED <<channels, connChannels, slot, waiting, onvifRealm, exited, conn,
                 down, camera>>

\* dh_reader takes the next packet of the given kind.
Incoming(kind, r) ==
  /\ ~exited
  /\ down # <<>>
  /\ Head(down) = [kind |-> kind, realm |-> r]
  /\ down' = Tail(down)

ReceiveConn(r) ==
  /\ Incoming("conn", r)
  /\ conn' = [c \in Clients |->
       IF c = connChannels[r] THEN [conn[c] EXCEPT !.told = TRUE] ELSE conn[c]]
  /\ connChannels' = [connChannels EXCEPT ![r] = None]
  /\ UNCHANGED <<channels, slot, waiting, onvifRealm, dhQueue, exited, up, camera>>

\* Mutant: a DISC leaves the payload channel open.
DiscKeepsChannel(r) ==
  /\ Incoming("disc", r)
  /\ connChannels' = [connChannels EXCEPT ![r] = None]
  /\ onvifRealm' = IF onvifRealm = r THEN None ELSE onvifRealm
  /\ UNCHANGED <<channels, slot, waiting, dhQueue, exited, conn, up, camera>>

ReceiveDisc(r) ==
  /\ Incoming("disc", r)
  /\ channels' = [channels EXCEPT ![r] = None]
  /\ connChannels' = [connChannels EXCEPT ![r] = None]
  /\ onvifRealm' = IF onvifRealm = r THEN None ELSE onvifRealm
  /\ UNCHANGED <<slot, waiting, dhQueue, exited, conn, up, camera>>

\* A payload of a realm nobody serves is dropped.
ReceivePayload(r) ==
  /\ Incoming("data", r)
  /\ conn' = [c \in Clients |->
       IF c = channels[r] /\ conn[c].writer # "done"
       THEN [conn[c] EXCEPT !.rx = @ + 1] ELSE conn[c]]
  /\ UNCHANGED <<taskVars, up, camera>>

-----------------------------------------------------------------------------
(* The camera (external). *)

Replies(r, kind) ==
  /\ Len(down) < MaxInFlight
  /\ down' = Append(down, [kind |-> kind, realm |-> r])

\* A Bind is answered with CONN, refused with DISC, or not answered.
CameraTakes ==
  /\ ~exited
  /\ up # <<>>
  /\ LET r == Head(up).realm IN
       CASE Head(up).kind = "bind" ->
              \/ /\ Replies(r, "conn")
                 /\ camera' = [camera EXCEPT
                      ![r] = [state |-> "bound", asked |-> FALSE, answered |-> 0]]
              \/ /\ Refuses
                 /\ Replies(r, "disc")
                 /\ camera' = [camera EXCEPT ![r].state = "closed"]
              \/ UNCHANGED <<down, camera>>
         [] Head(up).kind = "data" ->
              /\ camera' = [camera EXCEPT ![r].asked = @ \/ camera[r].state = "bound"]
              /\ UNCHANGED down
         [] Head(up).kind = "disc" ->
              /\ camera' = [camera EXCEPT ![r].state = "released"]
              /\ UNCHANGED down
         [] Head(up).kind = "heartbeat" -> UNCHANGED <<down, camera>>
  /\ up' = Tail(up)
  /\ UNCHANGED <<taskVars, conn>>

CameraAnswers(r) ==
  /\ ~exited
  /\ camera[r].state = "bound"
  /\ camera[r].asked
  /\ camera[r].answered < Parts
  /\ Replies(r, "data")
  /\ camera' = [camera EXCEPT ![r].answered = @ + 1]
  /\ UNCHANGED <<taskVars, conn, up>>

\* The camera closes a realm, as it does after each HTTP response.
CameraCloses(r) ==
  /\ ~exited
  /\ camera[r].state = "bound"
  /\ Replies(r, "disc")
  /\ camera' = [camera EXCEPT ![r].state = "closed"]
  /\ UNCHANGED <<taskVars, conn, up>>

-----------------------------------------------------------------------------
HandlerStep(c) ==
  \/ AcquireSlot(c)
  \/ Register(c)
  \/ SendConnect(c)
  \/ Open(c)
  \/ BindFails(c)

ReaderSends(c) ==
  \/ SendData(c)
  \/ SendDisconnect(c)
  \/ RemoveChannel(c)

WriterStep(c) ==
  \/ TakePayload(c)
  \/ ChannelClosed(c)
  \/ WriteFails(c)
  \/ FlushResponse(c)

Dispatch == \E r \in Realms : ReceiveConn(r) \/ ReceiveDisc(r) \/ ReceivePayload(r)

Next ==
  \/ \E c \in Clients : \/ Accept(c)
                        \/ HandlerStep(c)
                        \/ ReadData(c)
                        \/ ReadEnds(c)
                        \/ ReaderSends(c)
                        \/ WriterStep(c)
  \/ Heartbeat
  \/ Transmit
  \/ Dispatch
  \/ CameraTakes
  \/ \E r \in Realms : CameraAnswers(r) \/ CameraCloses(r)

Spec == Init /\ [][Next]_vars

-----------------------------------------------------------------------------
(* Safety. *)

\* Connections of the ONVIF listener that stand between permit and response.
InService ==
  {c \in OnvifClients :
     conn[c].pc \in {"register", "connect", "await", "open"} /\ conn[c].writer # "done"}

\* ONVIF requests use the session one at a time, and the permit is never lost:
\* whoever holds it is in service and so will drop it.
OnvifOneAtATime == InService = IF slot = None THEN {} ELSE {slot}

\* On the way to the camera every realm starts with its Bind and ends with its
\* Disconnect: no data is sent before the one is answered or after the other.
RealmProtocol ==
  LET sent == up \o dhQueue
  IN  \A i \in DOMAIN sent : sent[i].kind # "heartbeat" =>
        LET r == sent[i].realm
            before == {sent[j].kind : j \in {k \in 1 .. i - 1 : sent[k].realm = r}}
        IN  IF sent[i].kind = "bind"
            THEN camera[r].state = "none" /\ before = {}
            ELSE camera[r].state \in {"bound", "closed"} /\ before \subseteq {"data"}

\* main.rs: a following request can never race with the delayed DISC packet.
\* A response that the camera has sent in full reaches the client in full.
ResponseWhole ==
  \A c \in Framed :
    conn[c].writer = "done" /\ camera[conn[c].realm].answered = Parts =>
      conn[c].got = Parts

\* The table of channels does not grow: an entry belongs to a connection with
\* a task that will remove it.
NoForgottenChannel ==
  \A r \in Realms : channels[r] # None =>
    LET c == channels[r] IN
      /\ conn[c].realm = r
      /\ c \in OnvifClients => conn[c].writer # "done"
      /\ c \in RtspClients => conn[c].reader # "done"

-----------------------------------------------------------------------------
(* The ONVIF connections of one engine are served as OnvifQueue has it. *)

Served == {c \in OnvifClients : conn[c].writer = "done"}

AnsweredTo ==
  [c \in OnvifClients |->
     IF conn[c].realm = None THEN 0 ELSE camera[conn[c].realm].answered]

ClosedTo ==
  {c \in OnvifClients :
     conn[c].realm # None /\ camera[conn[c].realm].state \in {"closed", "released"}}

GivenTo == [c \in OnvifClients |-> IF conn[c].writer = "done" THEN conn[c].got ELSE 0]

Queue == INSTANCE OnvifQueue WITH
  Requests  <- OnvifClients,
  queue     <- waiting,
  inService <- InService,
  served    <- Served,
  answered  <- AnsweredTo,
  closed    <- ClosedTo,
  given     <- GivenTo,
  broken    <- exited

\* Requests of the ONVIF listener are served in order, one at a time, and each
\* framed response is handed over in one piece, although permit, realm, channel
\* and response pass through five tasks and two tables.
ImplementsQueue == Queue!Spec

-----------------------------------------------------------------------------
(* Liveness. *)

\* tokio runs every task; a task that waits for room in the channel to
\* dh_writer gets its turn.
EngineFairness ==
  /\ \A c \in Clients : SF_vars(HandlerStep(c)) /\ SF_vars(ReaderSends(c))
  /\ \A c \in OnvifClients : WF_vars(TakePayload(c) \/ ChannelClosed(c))
  /\ WF_vars(Transmit)
  /\ WF_vars(Dispatch)

\* The session delivers, and the camera closes every realm some day.
CameraFairness ==
  /\ WF_vars(CameraTakes)
  /\ \A r \in Realms : SF_vars(CameraCloses(r))

\* A client of the ONVIF listener reads its response, or closes its connection.
\* Nothing in the engine enforces this: one that does neither keeps the permit.
ClientFairness == \A c \in OnvifClients : WF_vars(FlushResponse(c))

LiveSpec == Spec /\ EngineFairness /\ CameraFairness /\ ClientFairness

\* An ONVIF client that waits for the permit is served, unless the process ends
\* for a new session, as long as the camera closes its realms and the clients
\* before it read their responses: nothing else can keep the permit.
OnvifServed ==
  \A c \in OnvifClients : conn[c].pc = "queued" ~> (conn[c].pc # "queued" \/ exited)
=============================================================================
