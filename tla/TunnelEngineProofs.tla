-------------------------- MODULE TunnelEngineProofs --------------------------
(***************************************************************************)
(* Proofs about TunnelEngine, for every set of connections and realms and  *)
(* every bound.                                                            *)
(*                                                                         *)
(* The invariant has three layers.  ControlInv relates the phases of a     *)
(* connection to the permit, the realms and the tables of channels;        *)
(* LinkInv relates them to the packets in flight and to the camera;        *)
(* CountInv accounts for every payload the camera has sent.  Each layer is *)
(* inductive under the ones before it.                                     *)
(***************************************************************************)
EXTENDS TunnelEngine, SequenceTheorems, FiniteSetTheorems, TLAPS

-----------------------------------------------------------------------------
(* The first layer: connections, permit and tables. *)

\* The type invariant without what the other layers show: that payloads are at
\* most Parts and that a packet from the camera names a realm.
HandlerPcs == {"new", "queued", "register", "connect", "await", "open"}
ReaderPcs == {"idle", "read", "send", "disc", "remove", "done"}
WriterPcs == {"idle", "recv", "flush", "done"}

LooseConnection ==
  [pc : HandlerPcs, realm : Realms \cup {None}, told : BOOLEAN,
   reader : ReaderPcs, writer : WriterPcs,
   chunks : 0 .. MaxChunks, rx : Nat, got : Nat]

LoosePacket == [kind : {"conn", "data", "disc"}, realm : Realms \cup {None}]

TasksTyped ==
  /\ channels \in [Realms -> Clients \cup {None}]
  /\ connChannels \in [Realms -> Clients \cup {None}]
  /\ slot \in OnvifClients \cup {None}
  /\ waiting \in Seq(OnvifClients)
  /\ onvifRealm \in Realms \cup {None}
  /\ exited \in BOOLEAN
  /\ conn \in [Clients -> LooseConnection]

LinkTyped ==
  /\ dhQueue \in Seq(Event) /\ Len(dhQueue) <= QueueCapacity
  /\ up \in Seq(Event) /\ Len(up) <= MaxInFlight
  /\ down \in Seq(LoosePacket) /\ Len(down) <= MaxInFlight
  /\ camera \in [Realms -> CameraRealm]

\* The tasks of a connection run while it is open, and only then.
InPhase(c) ==
  /\ conn[c].realm = None <=> conn[c].pc \in {"new", "queued", "register"}
  /\ conn[c].told => conn[c].pc \in {"await", "open"}
  /\ IF conn[c].pc = "open"
     THEN conn[c].told /\ conn[c].reader # "idle" /\ conn[c].writer # "idle"
     ELSE /\ conn[c].reader = "idle" /\ conn[c].writer = "idle"
          /\ conn[c].rx = 0 /\ conn[c].got = 0
  /\ conn[c].writer = "flush" => c \in OnvifClients
  /\ conn[c].reader \in {"disc", "remove"} => c \in RtspClients

PhasesAgree == \A c \in Clients : InPhase(c)

RealmsDiffer ==
  \A c, d \in Clients : conn[c].realm = conn[d].realm /\ c # d => conn[c].realm = None

\* The semaphore's queue holds each ONVIF connection that waits once.
QueueFits ==
  /\ \A c \in OnvifClients :
       conn[c].pc = "queued" <=> \E i \in DOMAIN waiting : waiting[i] = c
  /\ \A i, j \in DOMAIN waiting : waiting[i] = waiting[j] => i = j

ChannelsFit ==
  \A r \in Realms : connChannels[r] # None => conn[connChannels[r]].realm = r

ControlInv ==
  /\ TasksTyped
  /\ PhasesAgree
  /\ RealmsDiffer
  /\ QueueFits
  /\ ChannelsFit
  /\ OnvifOneAtATime
  /\ NoForgottenChannel

-----------------------------------------------------------------------------
(* The second layer: what is on its way to the camera and back. *)

\* Everything the engine has queued and the camera has not taken.
Sent == up \o dhQueue

\* An event belongs to a connection in the phase that sends it; co is conn in
\* the state it is about.
EventOwned(e, co) ==
  /\ e.realm # None
  /\ \E c \in Clients :
       /\ co[c].realm = e.realm
       /\ co[c].pc = IF e.kind = "bind" THEN "await" ELSE "open"
       /\ e.kind = "disc" => co[c].reader \in {"remove", "done"}

EventsOwned ==
  \A i \in DOMAIN Sent :
    IF Sent[i].kind = "heartbeat" THEN Sent[i].realm = None ELSE EventOwned(Sent[i], conn)

\* A realm a connection waits for, and one that is open.
Alive(r, co) == \E c \in Clients : co[c].realm = r /\ co[c].pc \in {"await", "open"}
Opened(r, co) == \E c \in Clients : co[c].realm = r /\ co[c].pc = "open"

\* So does a packet from the camera.
PacketOwned(p, co) ==
  /\ p.realm # None
  /\ Alive(p.realm, co)
  /\ p.kind = "data" => Opened(p.realm, co)

PacketsOwned == \A i \in DOMAIN down : PacketOwned(down[i], conn)

\* The camera knows a realm from its Bind on, and is asked once it is open.
CameraOwned ==
  \A r \in Realms :
    /\ camera[r].state # "none" => Alive(r, conn)
    /\ camera[r].asked \/ camera[r].answered # 0 => Opened(r, conn)

\* A connection the camera has accepted stays known to it until the reader has
\* sent its Disconnect.
Answered(r, ca) == ca[r].state \in {"bound", "closed"}

AcceptedStaysKnown ==
  \A c \in Clients :
    conn[c].reader \notin {"remove", "done"} =>
      /\ conn[c].told => Answered(conn[c].realm, camera)
      /\ \A i \in DOMAIN down :
           down[i] = [kind |-> "conn", realm |-> conn[c].realm] => Answered(conn[c].realm, camera)

\* A DISC from the camera is the last packet of its realm that carries data.
Over(r, ca) == ca[r].state \in {"closed", "released"}

DiscIsLast ==
  \A i \in DOMAIN down : down[i].kind = "disc" =>
    /\ Over(down[i].realm, camera)
    /\ \A j \in DOMAIN down :
         j > i => down[j] # [kind |-> "data", realm |-> down[i].realm]

\* RealmProtocol, said of two events at a time.
EventsInOrder ==
  \A i \in DOMAIN Sent : Sent[i].kind # "heartbeat" =>
    /\ IF Sent[i].kind = "bind" THEN camera[Sent[i].realm].state = "none"
                                ELSE Answered(Sent[i].realm, camera)
    /\ \A k \in 1 .. i - 1 :
         Sent[k].realm = Sent[i].realm => Sent[k].kind = "data" /\ Sent[i].kind # "bind"

LinkInv ==
  /\ LinkTyped
  /\ EventsOwned
  /\ PacketsOwned
  /\ CameraOwned
  /\ AcceptedStaysKnown
  /\ DiscIsLast
  /\ EventsInOrder

-----------------------------------------------------------------------------
(* The third layer: no payload is lost. *)

\* Payloads of a realm on their way from the camera, in the packets dn.
Payload(r) == [kind |-> "data", realm |-> r]
Coming(r, dn) == Cardinality({i \in DOMAIN dn : dn[i] = Payload(r)})

\* Payloads on their way, in the connection's channel and taken from it.
Known(c) == conn[c].got + conn[c].rx + Coming(conn[c].realm, down)

PayloadsCounted(c) ==
  conn[c].realm # None =>
    /\ Known(c) <= camera[conn[c].realm].answered
    /\ c \in OnvifClients /\ conn[c].writer = "recv" =>
         Known(c) = camera[conn[c].realm].answered

\* An ONVIF connection loses its channel only to a DISC behind the last payload.
ChannelOutlivesPayloads(c) ==
  /\ c \in OnvifClients /\ conn[c].realm # None
  /\ conn[c].writer # "done" /\ ~HasChannel(c) /\ ~exited
  => Over(conn[c].realm, camera) /\ Coming(conn[c].realm, down) = 0

\* What is flushed is the whole response, or all the camera will ever send.
FlushedIsWhole(c) ==
  c \in Framed /\ conn[c].writer \in {"flush", "done"} =>
    \/ conn[c].got = Parts
    \/ Over(conn[c].realm, camera) /\ conn[c].got = camera[conn[c].realm].answered

Accounted(c) ==
  /\ PayloadsCounted(c)
  /\ ChannelOutlivesPayloads(c)
  /\ FlushedIsWhole(c)

CountInv == \A c \in Clients : Accounted(c)

-----------------------------------------------------------------------------
(* The first layer is inductive. *)

\* A connection keeps its type when handle_client moves on.
LEMMA HandlerMoves ==
  ASSUME NEW l \in LooseConnection
  PROVE  /\ \A pc \in HandlerPcs : [l EXCEPT !.pc = pc] \in LooseConnection
         /\ \A pc \in HandlerPcs, r \in Realms :
              [l EXCEPT !.pc = pc, !.realm = r] \in LooseConnection
         /\ \A pc \in HandlerPcs, x \in ReaderPcs, y \in WriterPcs :
              [l EXCEPT !.pc = pc, !.reader = x, !.writer = y] \in LooseConnection
         /\ [l EXCEPT !.told = TRUE] \in LooseConnection
BY DEF LooseConnection

\* So it does when process_reader does.
LEMMA ReaderMoves ==
  ASSUME NEW l \in LooseConnection, NEW x \in ReaderPcs
  PROVE  /\ [l EXCEPT !.reader = x] \in LooseConnection
         /\ l.chunks < MaxChunks =>
              [l EXCEPT !.reader = x, !.chunks = @ + 1] \in LooseConnection
<1>1. /\ [l EXCEPT !.reader = x] \in LooseConnection
      /\ \A n \in 0 .. MaxChunks : [l EXCEPT !.reader = x, !.chunks = n] \in LooseConnection
  BY DEF LooseConnection
<1>2. l.chunks < MaxChunks => l.chunks + 1 \in 0 .. MaxChunks
  BY BoundAssumption DEF LooseConnection
<1>3. QED
  BY <1>1, <1>2

\* And when process_writer does, or dh_reader adds a payload.
LEMMA WriterMoves ==
  ASSUME NEW l \in LooseConnection, NEW y \in WriterPcs
  PROVE  /\ [l EXCEPT !.writer = y] \in LooseConnection
         /\ [l EXCEPT !.rx = 0, !.writer = y] \in LooseConnection
         /\ [l EXCEPT !.rx = @ + 1] \in LooseConnection
         /\ l.rx > 0 =>
              [l EXCEPT !.rx = @ - 1, !.got = @ + 1, !.writer = y] \in LooseConnection
<1>1. /\ [l EXCEPT !.writer = y] \in LooseConnection
      /\ \A n \in Nat : /\ [l EXCEPT !.rx = n] \in LooseConnection
                        /\ [l EXCEPT !.rx = n, !.writer = y] \in LooseConnection
  BY DEF LooseConnection
<1>2. \A n, m \in Nat : [l EXCEPT !.rx = n, !.got = m, !.writer = y] \in LooseConnection
  BY DEF LooseConnection
<1>3. /\ 0 \in Nat /\ l.rx + 1 \in Nat /\ l.got + 1 \in Nat
      /\ l.rx > 0 => l.rx - 1 \in Nat
  BY DEF LooseConnection
<1>4. QED
  BY <1>1, <1>2, <1>3

InServicePcs == {"register", "connect", "await", "open"}

\* A step that leaves the permit alone and moves no connection into or out of
\* the service keeps what the permit and the realms are bound to.
LEMMA ServiceFrame ==
  ASSUME ControlInv, UNCHANGED <<slot, waiting>>,
         \A r \in Realms : connChannels'[r] \in {connChannels[r], None},
         \A d \in Clients :
           /\ conn'[d].realm = conn[d].realm
           /\ conn'[d].pc = "queued" <=> conn[d].pc = "queued"
           /\ conn'[d].pc \in InServicePcs <=> conn[d].pc \in InServicePcs
           /\ d \in OnvifClients => (conn'[d].writer = "done" <=> conn[d].writer = "done")
  PROVE  RealmsDiffer' /\ QueueFits' /\ ChannelsFit' /\ OnvifOneAtATime'
<1>1. RealmsDiffer'
  BY DEF ControlInv, RealmsDiffer
<1>2. QueueFits'
  BY DEF ControlInv, QueueFits, Clients
<1>3. ChannelsFit'
  BY DEF ControlInv, TasksTyped, ChannelsFit
<1>4. OnvifOneAtATime'
  <2>1. InService' = InService
    BY DEF InService, InServicePcs, Clients
  <2>2. QED
    BY <2>1 DEF ControlInv, OnvifOneAtATime
<1>5. QED
  BY <1>1, <1>2, <1>3, <1>4

\* Channels are kept while the tasks that remove them run.
LEMMA ChannelFrame ==
  ASSUME ControlInv,
         \A r \in Realms : channels'[r] \in {channels[r], None},
         \A d \in Clients :
           /\ conn'[d].realm = conn[d].realm
           /\ d \in OnvifClients /\ conn'[d].writer = "done" =>
                conn[d].writer = "done" \/ channels'[conn[d].realm] = None
           /\ d \in RtspClients /\ conn'[d].reader = "done" =>
                conn[d].reader = "done" \/ channels'[conn[d].realm] = None
  PROVE  NoForgottenChannel'
BY DEF ControlInv, TasksTyped, NoForgottenChannel

\* A task that moves one connection on, and neither takes nor drops the permit.
LEMMA TaskKeepsControl ==
  ASSUME ControlInv, NEW c \in Clients,
         UNCHANGED <<connChannels, slot, waiting, exited>>,
         onvifRealm' \in Realms \cup {None},
         channels' \in [Realms -> Clients \cup {None}],
         \A r \in Realms : channels'[r] \in {channels[r], None},
         conn' \in [Clients -> LooseConnection],
         \A d \in Clients \ {c} : conn'[d] = conn[d],
         /\ conn'[c].realm = conn[c].realm
         /\ conn'[c].pc = conn[c].pc
              \/ (conn'[c].pc \in InServicePcs /\ conn[c].pc \in InServicePcs),
         InPhase(c)',
         c \in OnvifClients => (conn'[c].writer = "done" <=> conn[c].writer = "done"),
         c \in RtspClients /\ conn'[c].reader = "done" => channels'[conn[c].realm] = None
                                                     \/ conn[c].reader = "done"
  PROVE  ControlInv'
<1>1. TasksTyped'
  BY DEF ControlInv, TasksTyped
<1>2. PhasesAgree'
  BY DEF ControlInv, PhasesAgree, InPhase
<1>3. RealmsDiffer' /\ QueueFits' /\ ChannelsFit' /\ OnvifOneAtATime'
  <2>1. \A d \in Clients :
          /\ conn'[d].realm = conn[d].realm
          /\ conn'[d].pc = "queued" <=> conn[d].pc = "queued"
          /\ conn'[d].pc \in InServicePcs <=> conn[d].pc \in InServicePcs
          /\ d \in OnvifClients => (conn'[d].writer = "done" <=> conn[d].writer = "done")
    BY DEF InServicePcs
  <2>2. QED
    BY <2>1, ServiceFrame DEF ControlInv, TasksTyped
<1>4. NoForgottenChannel'
  BY ChannelFrame, ClientAssumption
<1>5. QED
  BY <1>1, <1>2, <1>3, <1>4 DEF ControlInv

\* handle_client sends its Bind.
LEMMA SendConnectKeepsControl ==
  ASSUME ControlInv, NEW c \in Clients, SendConnect(c)
  PROVE  ControlInv'
<1> USE DEF SendConnect, ControlInv, TasksTyped, taskVars
<1>1. conn' \in [Clients -> LooseConnection]
  BY HandlerMoves DEF HandlerPcs, ReaderPcs, WriterPcs
<1>2. InPhase(c)'
  BY ClientAssumption DEF LooseConnection, PhasesAgree, InPhase, Clients
<1>3. conn[c].realm \in Realms \cup {None}
  BY DEF LooseConnection
<1>4. QED
  BY <1>1, <1>2, <1>3, TaskKeepsControl, ClientAssumption
  DEF LooseConnection, PhasesAgree, InPhase, InServicePcs

\* The camera's CONN starts the two tasks of the connection.
LEMMA OpenKeepsControl ==
  ASSUME ControlInv, NEW c \in Clients, Open(c)
  PROVE  ControlInv'
<1> USE DEF Open, ControlInv, TasksTyped, taskVars
<1>1. conn' \in [Clients -> LooseConnection]
  BY HandlerMoves DEF HandlerPcs, ReaderPcs, WriterPcs
<1>2. InPhase(c)'
  <2>1. /\ conn'[c].pc = "open" /\ conn'[c].reader = "read" /\ conn'[c].writer = "recv"
        /\ conn'[c].realm = conn[c].realm /\ conn'[c].told = conn[c].told
    BY DEF LooseConnection
  <2>2. QED
    BY <2>1 DEF PhasesAgree, InPhase
<1>3. conn[c].realm \in Realms \cup {None}
  BY DEF LooseConnection
<1>4. QED
  BY <1>1, <1>2, <1>3, TaskKeepsControl, ClientAssumption
  DEF LooseConnection, PhasesAgree, InPhase, InServicePcs

\* process_reader reads from its client.
LEMMA ReadDataKeepsControl ==
  ASSUME ControlInv, NEW c \in Clients, ReadData(c)
  PROVE  ControlInv'
<1> USE DEF ReadData, ControlInv, TasksTyped, taskVars
<1>1. conn' \in [Clients -> LooseConnection]
  BY ReaderMoves DEF HandlerPcs, ReaderPcs, WriterPcs
<1>2. InPhase(c)'
  BY ClientAssumption DEF LooseConnection, PhasesAgree, InPhase, Clients
<1>3. conn[c].realm \in Realms \cup {None}
  BY DEF LooseConnection
<1>4. QED
  BY <1>1, <1>2, <1>3, TaskKeepsControl, ClientAssumption
  DEF LooseConnection, PhasesAgree, InPhase, InServicePcs

\* It sends what it has read.
LEMMA SendDataKeepsControl ==
  ASSUME ControlInv, NEW c \in Clients, SendData(c)
  PROVE  ControlInv'
<1> USE DEF SendData, ControlInv, TasksTyped, taskVars
<1>1. conn' \in [Clients -> LooseConnection]
  BY ReaderMoves DEF HandlerPcs, ReaderPcs, WriterPcs
<1>2. InPhase(c)'
  BY ClientAssumption DEF LooseConnection, PhasesAgree, InPhase, Clients
<1>3. conn[c].realm \in Realms \cup {None}
  BY DEF LooseConnection
<1>4. QED
  BY <1>1, <1>2, <1>3, TaskKeepsControl, ClientAssumption
  DEF LooseConnection, PhasesAgree, InPhase, InServicePcs

\* The client has closed its side.
LEMMA ReadEndsKeepsControl ==
  ASSUME ControlInv, NEW c \in Clients, ReadEnds(c)
  PROVE  ControlInv'
<1> USE DEF ReadEnds, ControlInv, TasksTyped, taskVars
<1>1. conn' \in [Clients -> LooseConnection]
  BY ReaderMoves DEF HandlerPcs, ReaderPcs, WriterPcs
<1>2. InPhase(c)'
  BY ClientAssumption DEF LooseConnection, PhasesAgree, InPhase, Clients
<1>3. conn[c].realm \in Realms \cup {None}
  BY DEF LooseConnection
<1>4. QED
  BY <1>1, <1>2, <1>3, TaskKeepsControl, ClientAssumption
  DEF LooseConnection, PhasesAgree, InPhase, InServicePcs

\* process_reader of an RTSP connection says so to the camera.
LEMMA SendDisconnectKeepsControl ==
  ASSUME ControlInv, NEW c \in Clients, SendDisconnect(c)
  PROVE  ControlInv'
<1> USE DEF SendDisconnect, ControlInv, TasksTyped, taskVars
<1>1. conn' \in [Clients -> LooseConnection]
  BY ReaderMoves DEF HandlerPcs, ReaderPcs, WriterPcs
<1>2. InPhase(c)'
  BY ClientAssumption DEF LooseConnection, PhasesAgree, InPhase, Clients
<1>3. conn[c].realm \in Realms \cup {None}
  BY DEF LooseConnection
<1>4. QED
  BY <1>1, <1>2, <1>3, TaskKeepsControl, ClientAssumption
  DEF LooseConnection, PhasesAgree, InPhase, InServicePcs

\* And then removes the connection's channel.
LEMMA RemoveChannelKeepsControl ==
  ASSUME ControlInv, NEW c \in Clients, RemoveChannel(c)
  PROVE  ControlInv'
<1> USE DEF RemoveChannel, ControlInv, TasksTyped, taskVars
<1>1. conn' \in [Clients -> LooseConnection]
  BY ReaderMoves DEF HandlerPcs, ReaderPcs, WriterPcs
<1>2. InPhase(c)'
  BY ClientAssumption DEF LooseConnection, PhasesAgree, InPhase, Clients
<1>3. conn[c].realm \in Realms \cup {None}
  BY DEF LooseConnection
<1>4. QED
  BY <1>1, <1>2, <1>3, TaskKeepsControl, ClientAssumption
  DEF LooseConnection, PhasesAgree, InPhase, InServicePcs

\* process_writer takes a payload.
LEMMA TakePayloadKeepsControl ==
  ASSUME ControlInv, NEW c \in Clients, TakePayload(c)
  PROVE  ControlInv'
<1> USE DEF TakePayload, ControlInv, TasksTyped, taskVars
<1>1. conn' \in [Clients -> LooseConnection]
  BY WriterMoves DEF HandlerPcs, ReaderPcs, WriterPcs
<1>2. InPhase(c)'
  BY ClientAssumption DEF LooseConnection, PhasesAgree, InPhase, Clients
<1>3. conn[c].realm \in Realms \cup {None}
  BY DEF LooseConnection
<1>4. QED
  BY <1>1, <1>2, <1>3, TaskKeepsControl, ClientAssumption
  DEF LooseConnection, PhasesAgree, InPhase, InServicePcs

\* It ends with its channel.
LEMMA ChannelClosedKeepsControl ==
  ASSUME ControlInv, NEW c \in Clients, ChannelClosed(c)
  PROVE  ControlInv'
<1> USE DEF ChannelClosed, ControlInv, TasksTyped, taskVars
<1>1. conn' \in [Clients -> LooseConnection]
  BY WriterMoves DEF HandlerPcs, ReaderPcs, WriterPcs
<1>2. InPhase(c)'
  BY ClientAssumption DEF LooseConnection, PhasesAgree, InPhase, Clients
<1>3. conn[c].realm \in Realms \cup {None}
  BY DEF LooseConnection
<1>4. QED
  BY <1>1, <1>2, <1>3, TaskKeepsControl, ClientAssumption
  DEF LooseConnection, PhasesAgree, InPhase, InServicePcs

\* Or with its client.
LEMMA WriteFailsKeepsControl ==
  ASSUME ControlInv, NEW c \in Clients, WriteFails(c)
  PROVE  ControlInv'
<1> USE DEF WriteFails, ControlInv, TasksTyped, taskVars
<1>1. conn' \in [Clients -> LooseConnection]
  BY WriterMoves DEF HandlerPcs, ReaderPcs, WriterPcs
<1>2. InPhase(c)'
  BY ClientAssumption DEF LooseConnection, PhasesAgree, InPhase, Clients
<1>3. conn[c].realm \in Realms \cup {None}
  BY DEF LooseConnection
<1>4. QED
  BY <1>1, <1>2, <1>3, TaskKeepsControl, ClientAssumption
  DEF LooseConnection, PhasesAgree, InPhase, InServicePcs

\* Without an answer to the Bind the process ends.
LEMMA BindFailsKeepsControl ==
  ASSUME ControlInv, NEW c \in Clients, BindFails(c)
  PROVE  ControlInv'
<1> USE DEF BindFails
<1>1. TasksTyped'
  BY DEF ControlInv, TasksTyped
<1>2. PhasesAgree'
  BY DEF ControlInv, PhasesAgree, InPhase
<1>3. RealmsDiffer' /\ QueueFits' /\ ChannelsFit' /\ OnvifOneAtATime'
  BY ServiceFrame DEF ControlInv, TasksTyped
<1>4. NoForgottenChannel'
  BY ChannelFrame DEF ControlInv, TasksTyped
<1>5. QED
  BY <1>1, <1>2, <1>3, <1>4 DEF ControlInv

\* A connection is accepted; one of the ONVIF listener queues for the permit.
LEMMA AcceptKeepsControl ==
  ASSUME ControlInv, NEW c \in Clients, Accept(c)
  PROVE  ControlInv'
<1> USE DEF Accept
<1>1. TasksTyped'
  <2>1. conn' \in [Clients -> LooseConnection]
    BY HandlerMoves DEF ControlInv, TasksTyped, HandlerPcs
  <2>2. waiting' \in Seq(OnvifClients)
    BY DEF ControlInv, TasksTyped
  <2>3. QED
    BY <2>1, <2>2 DEF ControlInv, TasksTyped
<1>2. PhasesAgree'
  BY ClientAssumption DEF ControlInv, TasksTyped, LooseConnection, PhasesAgree, InPhase
<1>3. QueueFits'
  <2>1. CASE c \in OnvifClients
    <3>1. waiting \in Seq(OnvifClients) /\ waiting' = Append(waiting, c)
      BY <2>1 DEF ControlInv, TasksTyped
    <3>2. /\ DOMAIN waiting = 1 .. Len(waiting) /\ Len(waiting) \in Nat
          /\ DOMAIN waiting' = 1 .. Len(waiting) + 1
          /\ waiting'[Len(waiting) + 1] = c
          /\ \A i \in 1 .. Len(waiting) : waiting'[i] = waiting[i]
      BY <2>1, <3>1, AppendProperties, LenProperties
    <3>3. \A d \in OnvifClients : conn'[d].pc = "queued" <=> conn[d].pc = "queued" \/ d = c
      BY <2>1 DEF ControlInv, TasksTyped, LooseConnection, Clients
    <3>4. \A i \in DOMAIN waiting : waiting[i] # c
      BY <2>1, <3>1 DEF ControlInv, QueueFits, TasksTyped
    <3>5. QED
      BY <2>1, <3>2, <3>3, <3>4 DEF ControlInv, QueueFits
  <2>2. CASE c \notin OnvifClients
    BY <2>2 DEF ControlInv, TasksTyped, LooseConnection, QueueFits, Clients
  <2>3. QED
    BY <2>1, <2>2
<1>4. RealmsDiffer' /\ ChannelsFit' /\ OnvifOneAtATime' /\ NoForgottenChannel'
  <2>1. \A d \in Clients : /\ conn'[d].realm = conn[d].realm
                           /\ conn'[d].reader = conn[d].reader
                           /\ conn'[d].writer = conn[d].writer
                           /\ d # c => conn'[d].pc = conn[d].pc
    BY DEF ControlInv, TasksTyped, LooseConnection
  <2>2. InService' = InService
    BY <2>1, ClientAssumption DEF InService, ControlInv, TasksTyped, LooseConnection, Clients
  <2>3. OnvifOneAtATime'
    BY <2>2 DEF ControlInv, OnvifOneAtATime
  <2>4. RealmsDiffer' /\ ChannelsFit'
    BY <2>1 DEF ControlInv, RealmsDiffer, ChannelsFit, TasksTyped
  <2>5. NoForgottenChannel'
    BY <2>1, ChannelFrame
  <2>6. QED
    BY <2>3, <2>4, <2>5
<1>5. QED
  BY <1>1, <1>2, <1>3, <1>4 DEF ControlInv

\* The first in the queue gets the permit.
LEMMA AcquireSlotKeepsControl ==
  ASSUME ControlInv, NEW c \in Clients, AcquireSlot(c)
  PROVE  ControlInv'
<1> USE DEF AcquireSlot
<1>1. /\ waiting \in Seq(OnvifClients) /\ waiting # <<>>
      /\ waiting' \in Seq(OnvifClients) /\ Len(waiting) \in Nat \ {0}
      /\ DOMAIN waiting = 1 .. Len(waiting) /\ DOMAIN waiting' = 1 .. Len(waiting) - 1
      /\ \A i \in 1 .. Len(waiting) - 1 : waiting'[i] = waiting[i + 1]
      /\ c = waiting[1] /\ c \in OnvifClients
  BY HeadTailProperties, LenProperties, EmptySeq DEF ControlInv, TasksTyped
<1>2. conn[c].pc = "queued"
  BY <1>1 DEF ControlInv, QueueFits
<1>3. TasksTyped'
  <2>1. conn' \in [Clients -> LooseConnection]
    BY HandlerMoves DEF ControlInv, TasksTyped, HandlerPcs
  <2>2. QED
    BY <1>1, <2>1 DEF ControlInv, TasksTyped
<1>4. PhasesAgree'
  BY <1>2 DEF ControlInv, TasksTyped, LooseConnection, PhasesAgree, InPhase
<1>5. \A d \in Clients : /\ conn'[d].realm = conn[d].realm
                         /\ conn'[d].reader = conn[d].reader
                         /\ conn'[d].writer = conn[d].writer
                         /\ conn'[d].pc = IF d = c THEN "register" ELSE conn[d].pc
  BY DEF ControlInv, TasksTyped, LooseConnection
<1>6. QueueFits'
  <2>1. \A i \in DOMAIN waiting : waiting[i] = c <=> i = 1
    BY <1>1 DEF ControlInv, QueueFits
  <2>2. \A d \in OnvifClients :
          conn'[d].pc = "queued" <=> \E i \in DOMAIN waiting' : waiting'[i] = d
    <3>1. ASSUME NEW d \in OnvifClients, conn'[d].pc = "queued"
          PROVE  \E i \in DOMAIN waiting' : waiting'[i] = d
      <4>1. PICK i \in DOMAIN waiting : waiting[i] = d
        BY <1>5, <3>1 DEF ControlInv, QueueFits, Clients
      <4>2. i # 1
        BY <1>5, <2>1, <3>1, <4>1 DEF Clients
      <4>3. i - 1 \in DOMAIN waiting' /\ waiting'[i - 1] = d
        BY <1>1, <4>1, <4>2
      <4>4. QED
        BY <4>3
    <3>2. ASSUME NEW d \in OnvifClients, NEW i \in DOMAIN waiting', waiting'[i] = d
          PROVE  conn'[d].pc = "queued"
      <4>1. i + 1 \in DOMAIN waiting /\ waiting[i + 1] = d /\ i + 1 # 1
        BY <1>1, <3>2
      <4>2. d # c /\ conn[d].pc = "queued"
        BY <2>1, <4>1 DEF ControlInv, QueueFits
      <4>3. QED
        BY <1>5, <4>2 DEF Clients
    <3>3. QED
      BY <3>1, <3>2
  <2>3. \A i, j \in DOMAIN waiting' : waiting'[i] = waiting'[j] => i = j
    <3>1. SUFFICES ASSUME NEW i \in DOMAIN waiting', NEW j \in DOMAIN waiting',
                          waiting'[i] = waiting'[j]
                   PROVE  i = j
      OBVIOUS
    <3>2. i + 1 \in DOMAIN waiting /\ j + 1 \in DOMAIN waiting
          /\ waiting[i + 1] = waiting[j + 1]
      BY <1>1, <3>1
    <3>3. i + 1 = j + 1
      BY <3>2 DEF ControlInv, QueueFits
    <3>4. QED
      BY <1>1, <3>3
  <2>4. QED
    BY <2>2, <2>3 DEF QueueFits
<1>7. OnvifOneAtATime'
  <2>1. InService = {}
    BY DEF ControlInv, OnvifOneAtATime
  <2>2. conn[c].writer = "idle"
    BY <1>2 DEF ControlInv, PhasesAgree, InPhase
  <2>3. InService' = {c}
    BY <1>1, <1>5, <2>1, <2>2 DEF InService, Clients
  <2>4. c # None
    BY <1>1, ClientAssumption DEF Clients
  <2>5. QED
    BY <2>3, <2>4 DEF OnvifOneAtATime
<1>8. RealmsDiffer' /\ ChannelsFit'
  BY <1>5 DEF ControlInv, RealmsDiffer, ChannelsFit, TasksTyped
<1>9. NoForgottenChannel'
  BY <1>5, ChannelFrame
<1>10. QED
  BY <1>3, <1>4, <1>6, <1>7, <1>8, <1>9 DEF ControlInv

\* A fresh realm is entered into both tables.
LEMMA RegisterKeepsControl ==
  ASSUME ControlInv, NEW c \in Clients, Register(c)
  PROVE  ControlInv'
<1>1. PICK r \in Realms :
        /\ IsFresh(r)
        /\ conn' = [conn EXCEPT ![c].pc = "connect", ![c].realm = r]
        /\ channels' = [channels EXCEPT ![r] = c]
        /\ connChannels' = [connChannels EXCEPT ![r] = c]
  BY DEF Register
<1>2. UNCHANGED <<slot, waiting, onvifRealm, exited>> /\ conn[c].pc = "register"
  BY DEF Register
<1>3. TasksTyped'
  <2>1. conn' \in [Clients -> LooseConnection]
    BY <1>1, HandlerMoves DEF ControlInv, TasksTyped, HandlerPcs
  <2>2. QED
    BY <1>1, <1>2, <2>1 DEF ControlInv, TasksTyped
<1>4. r # None /\ conn[c].realm = None
  BY <1>2, ClientAssumption DEF ControlInv, PhasesAgree, InPhase
<1>5. \A d \in Clients : /\ conn'[d].realm = IF d = c THEN r ELSE conn[d].realm
                         /\ conn'[d].pc = IF d = c THEN "connect" ELSE conn[d].pc
                         /\ conn'[d].reader = conn[d].reader
                         /\ conn'[d].writer = conn[d].writer
                         /\ conn'[d].told = conn[d].told
                         /\ conn'[d].rx = conn[d].rx
                         /\ conn'[d].got = conn[d].got
  BY <1>1 DEF ControlInv, TasksTyped, LooseConnection
<1>6. PhasesAgree'
  BY <1>2, <1>4, <1>5 DEF ControlInv, PhasesAgree, InPhase
<1>7. RealmsDiffer'
  <2>1. \A d \in Clients : conn[d].realm # r
    BY <1>1 DEF IsFresh
  <2>2. QED
    BY <1>5, <2>1 DEF ControlInv, RealmsDiffer
<1>8. QueueFits'
  BY <1>2, <1>5 DEF ControlInv, QueueFits, Clients
<1>10. ChannelsFit'
  <2>1. SUFFICES ASSUME NEW q \in Realms, connChannels'[q] # None
                 PROVE  conn'[connChannels'[q]].realm = q
    BY DEF ChannelsFit
  <2>2. CASE q = r
    BY <1>1, <1>5, <2>2 DEF ControlInv, TasksTyped
  <2>3. CASE q # r
    <3>1. connChannels'[q] = connChannels[q] /\ connChannels[q] \in Clients
      BY <1>1, <2>1, <2>3 DEF ControlInv, TasksTyped
    <3>2. conn[connChannels[q]].realm = q /\ q # None
      BY <2>1, <3>1, ClientAssumption DEF ControlInv, ChannelsFit
    <3>3. QED
      BY <1>4, <1>5, <3>1, <3>2
  <2>4. QED
    BY <2>2, <2>3
<1>11. OnvifOneAtATime'
  <2>1. InService' = InService
    BY <1>2, <1>5 DEF InService, Clients
  <2>2. QED
    BY <1>2, <2>1 DEF ControlInv, OnvifOneAtATime
<1>12. NoForgottenChannel'
  <2>1. conn[c].reader = "idle" /\ conn[c].writer = "idle"
    BY <1>2 DEF ControlInv, PhasesAgree, InPhase
  <2>2. SUFFICES ASSUME NEW q \in Realms, channels'[q] # None
                 PROVE  /\ conn'[channels'[q]].realm = q
                        /\ channels'[q] \in OnvifClients => conn'[channels'[q]].writer # "done"
                        /\ channels'[q] \in RtspClients => conn'[channels'[q]].reader # "done"
    BY DEF NoForgottenChannel
  <2>3. CASE q = r
    BY <1>1, <1>5, <2>1, <2>3 DEF ControlInv, TasksTyped
  <2>4. CASE q # r
    <3>1. channels'[q] = channels[q] /\ channels[q] \in Clients
      BY <1>1, <2>2, <2>4 DEF ControlInv, TasksTyped
    <3>2. /\ conn[channels[q]].realm = q /\ q # None
          /\ channels[q] \in OnvifClients => conn[channels[q]].writer # "done"
          /\ channels[q] \in RtspClients => conn[channels[q]].reader # "done"
      BY <2>2, <3>1, ClientAssumption DEF ControlInv, NoForgottenChannel
    <3>3. QED
      BY <1>4, <1>5, <3>1, <3>2
  <2>5. QED
    BY <2>3, <2>4
<1>13. QED
  BY <1>3, <1>6, <1>7, <1>8, <1>10, <1>11, <1>12 DEF ControlInv

\* The response is written, and the permit dropped.
LEMMA FlushResponseKeepsControl ==
  ASSUME ControlInv, NEW c \in Clients, FlushResponse(c)
  PROVE  ControlInv'
<1> USE DEF FlushResponse
<1>1. TasksTyped'
  BY WriterMoves DEF ControlInv, TasksTyped, WriterPcs
<1>2. PhasesAgree'
  BY DEF ControlInv, TasksTyped, LooseConnection, PhasesAgree, InPhase
<1>3. \A d \in Clients : /\ conn'[d].realm = conn[d].realm
                         /\ conn'[d].pc = conn[d].pc
                         /\ conn'[d].reader = conn[d].reader
                         /\ conn'[d].writer = IF d = c THEN "done" ELSE conn[d].writer
  BY DEF ControlInv, TasksTyped, LooseConnection
<1>4. RealmsDiffer' /\ QueueFits' /\ ChannelsFit'
  BY <1>3 DEF ControlInv, RealmsDiffer, QueueFits, ChannelsFit, TasksTyped, Clients
<1>5. OnvifOneAtATime'
  <2>1. c \in InService
    BY DEF ControlInv, PhasesAgree, InPhase, InService
  <2>2. InService = {c}
    BY <2>1 DEF ControlInv, OnvifOneAtATime
  <2>3. InService' = {}
    BY <1>3, <2>2 DEF InService, Clients
  <2>4. QED
    BY <2>3 DEF OnvifOneAtATime
<1>6. NoForgottenChannel'
  <2>1. conn[c].realm \in Realms /\ c \in OnvifClients
    BY DEF ControlInv, TasksTyped, LooseConnection, PhasesAgree, InPhase
  <2>2. QED
    BY <1>3, <2>1, ChannelFrame, ClientAssumption DEF ControlInv, TasksTyped
<1>7. QED
  BY <1>1, <1>2, <1>4, <1>5, <1>6 DEF ControlInv

\* What dh_reader does to a connection.
LEMMA DispatchTouches ==
  ASSUME ControlInv, NEW r \in Realms,
         ReceiveConn(r) \/ ReceiveDisc(r) \/ ReceivePayload(r)
  PROVE  /\ conn' \in [Clients -> LooseConnection]
         /\ \A d \in Clients :
              /\ conn'[d].realm = conn[d].realm
              /\ conn'[d].pc = conn[d].pc
              /\ conn'[d].reader = conn[d].reader
              /\ conn'[d].writer = conn[d].writer
              /\ conn'[d].got = conn[d].got
              /\ conn'[d].told <=> (conn[d].told \/ (ReceiveConn(r) /\ d = connChannels[r]))
              /\ conn'[d].rx =
                   IF ReceivePayload(r) /\ d = channels[r] /\ conn[d].writer # "done"
                   THEN conn[d].rx + 1 ELSE conn[d].rx
<1>0. conn \in [Clients -> LooseConnection] /\ \A d \in Clients : conn[d] \in LooseConnection
  BY DEF ControlInv, TasksTyped
<1>1. CASE ReceiveConn(r)
  <2>1. ~ReceivePayload(r)
    BY <1>1 DEF ReceiveConn, ReceivePayload, Incoming
  <2>2. \A d \in Clients :
          conn'[d] = IF d = connChannels[r] THEN [conn[d] EXCEPT !.told = TRUE] ELSE conn[d]
    BY <1>1 DEF ReceiveConn
  <2>3. conn' \in [Clients -> LooseConnection]
    BY <1>0, <1>1, HandlerMoves DEF ReceiveConn
  <2>4. QED
    BY <1>0, <1>1, <2>1, <2>2, <2>3 DEF LooseConnection
<1>2. CASE ReceivePayload(r)
  <2>1. ~ReceiveConn(r)
    BY <1>2 DEF ReceiveConn, ReceivePayload, Incoming
  <2>2. \A d \in Clients :
          conn'[d] = IF d = channels[r] /\ conn[d].writer # "done"
                     THEN [conn[d] EXCEPT !.rx = @ + 1] ELSE conn[d]
    BY <1>2 DEF ReceivePayload
  <2>3. conn' \in [Clients -> LooseConnection]
    BY <1>0, <1>2, WriterMoves DEF ReceivePayload, LooseConnection
  <2>4. QED
    BY <1>0, <1>2, <2>1, <2>2, <2>3 DEF LooseConnection
<1>3. CASE ReceiveDisc(r)
  <2>1. ~ReceiveConn(r) /\ ~ReceivePayload(r)
    BY <1>3 DEF ReceiveConn, ReceiveDisc, ReceivePayload, Incoming
  <2>2. conn' = conn
    BY <1>3 DEF ReceiveDisc
  <2>3. QED
    BY <1>0, <2>1, <2>2 DEF LooseConnection
<1>4. QED
  BY <1>1, <1>2, <1>3

\* dh_reader follows the tables, and a DISC clears their entries.
LEMMA DispatchKeepsControl ==
  ASSUME ControlInv, LinkInv, NEW r \in Realms,
         ReceiveConn(r) \/ ReceiveDisc(r) \/ ReceivePayload(r)
  PROVE  ControlInv'
<1>1. TasksTyped'
  BY DispatchTouches, ClientAssumption
  DEF ControlInv, TasksTyped, ReceiveConn, ReceiveDisc, ReceivePayload, taskVars
<1>2. RealmsDiffer' /\ QueueFits' /\ ChannelsFit' /\ OnvifOneAtATime'
  <2>1. UNCHANGED <<slot, waiting>>
        /\ \A q \in Realms : connChannels'[q] \in {connChannels[q], None}
    BY DEF ReceiveConn, ReceiveDisc, ReceivePayload, taskVars, ControlInv, TasksTyped
  <2>2. QED
    BY <2>1, DispatchTouches, ServiceFrame
<1>3. NoForgottenChannel'
  <2>1. \A q \in Realms : channels'[q] \in {channels[q], None}
    BY DEF ReceiveConn, ReceiveDisc, ReceivePayload, taskVars, ControlInv, TasksTyped
  <2>2. QED
    BY <2>1, DispatchTouches, ChannelFrame
<1>4. PhasesAgree'
  <2>1. PacketOwned(Head(down), conn) /\ Head(down).realm = r
    <3>1. 1 \in DOMAIN down /\ Head(down) = down[1]
      BY LenProperties, EmptySeq
      DEF LinkInv, LinkTyped, ReceiveConn, ReceiveDisc, ReceivePayload, Incoming
    <3>2. QED
      BY <3>1 DEF LinkInv, PacketsOwned, ReceiveConn, ReceiveDisc, ReceivePayload, Incoming
  <2>2. PICK o \in Clients :
          /\ conn[o].realm = r /\ r # None
          /\ conn[o].pc \in {"await", "open"}
          /\ Head(down).kind = "data" => conn[o].pc = "open"
    BY <2>1 DEF PacketOwned, Alive, Opened
  <2>3. \A d \in Clients :
          /\ ReceiveConn(r) /\ d = connChannels[r] => d = o
          /\ ReceivePayload(r) /\ d = channels[r] => d = o /\ conn[d].pc = "open"
    BY <2>2, ClientAssumption
    DEF ReceivePayload, Incoming, ControlInv, ChannelsFit, NoForgottenChannel, RealmsDiffer
  <2>4. SUFFICES ASSUME NEW d \in Clients PROVE InPhase(d)'
    BY DEF PhasesAgree
  <2>5. InPhase(d)
    BY DEF ControlInv, PhasesAgree
  <2>6. /\ conn'[d].told => conn'[d].pc \in {"await", "open"}
        /\ conn[d].told => conn'[d].told
    BY <2>2, <2>3, <2>5, DispatchTouches DEF InPhase
  <2>7. conn'[d].pc # "open" => conn'[d].rx = conn[d].rx
    BY <2>2, <2>3, <2>5, DispatchTouches DEF InPhase
  <2>8. QED
    BY <2>5, <2>6, <2>7, DispatchTouches DEF InPhase
<1>5. QED
  BY <1>1, <1>2, <1>3, <1>4 DEF ControlInv

\* A step of another part of the program that keeps the connections and tables.
LEMMA OthersKeepControl ==
  ASSUME ControlInv,
         UNCHANGED <<channels, connChannels, slot, waiting, onvifRealm, exited, conn>>
  PROVE  ControlInv'
BY DEF ControlInv, TasksTyped, PhasesAgree, InPhase, RealmsDiffer, QueueFits, ChannelsFit,
       OnvifOneAtATime, InService, NoForgottenChannel

\* Every step keeps the first layer; the second says that a CONN finds the
\* connection that waits for it.
LEMMA StepKeepsControl == ControlInv /\ LinkInv /\ [Next]_vars => ControlInv'
<1> SUFFICES ASSUME ControlInv, LinkInv, [Next]_vars PROVE ControlInv'
  OBVIOUS
<1>1. ASSUME NEW c \in Clients, Accept(c) \/ HandlerStep(c) PROVE ControlInv'
  BY <1>1, AcceptKeepsControl, AcquireSlotKeepsControl, RegisterKeepsControl,
     SendConnectKeepsControl, OpenKeepsControl, BindFailsKeepsControl DEF HandlerStep
<1>2. ASSUME NEW c \in Clients, ReadData(c) \/ ReadEnds(c) \/ ReaderSends(c) PROVE ControlInv'
  BY <1>2, ReadDataKeepsControl, ReadEndsKeepsControl, SendDataKeepsControl,
     SendDisconnectKeepsControl, RemoveChannelKeepsControl DEF ReaderSends
<1>3. ASSUME NEW c \in Clients, WriterStep(c) PROVE ControlInv'
  BY <1>3, TakePayloadKeepsControl, ChannelClosedKeepsControl, WriteFailsKeepsControl,
     FlushResponseKeepsControl DEF WriterStep
<1>4. CASE Dispatch
  BY <1>4, DispatchKeepsControl DEF Dispatch
<1>5. CASE Heartbeat \/ Transmit \/ CameraTakes
  BY <1>5, OthersKeepControl DEF Heartbeat, Transmit, CameraTakes, taskVars
<1>6. ASSUME NEW r \in Realms, CameraAnswers(r) \/ CameraCloses(r) PROVE ControlInv'
  BY <1>6, OthersKeepControl DEF CameraAnswers, CameraCloses, taskVars
<1>7. CASE UNCHANGED vars
  BY <1>7, OthersKeepControl DEF vars, taskVars
<1>8. QED
  BY <1>1, <1>2, <1>3, <1>4, <1>5, <1>6, <1>7 DEF Next

\* No connection has begun, nobody holds the permit.
LEMMA InitControl == Init => ControlInv
<1> SUFFICES ASSUME Init PROVE ControlInv
  OBVIOUS
<1>1. TasksTyped
  <2>1. [pc |-> "new", realm |-> None, told |-> FALSE, reader |-> "idle",
         writer |-> "idle", chunks |-> 0, rx |-> 0, got |-> 0] \in LooseConnection
    BY BoundAssumption DEF LooseConnection, HandlerPcs, ReaderPcs, WriterPcs
  <2>2. QED
    BY <2>1, EmptySeq DEF Init, TasksTyped
<1>2. PhasesAgree /\ RealmsDiffer
  BY DEF Init, PhasesAgree, InPhase, RealmsDiffer
<1>3. QueueFits
  BY DEF Init, QueueFits, Clients
<1>4. ChannelsFit /\ OnvifOneAtATime /\ NoForgottenChannel
  BY DEF Init, ChannelsFit, OnvifOneAtATime, InService, NoForgottenChannel, Clients
<1>5. QED
  BY <1>1, <1>2, <1>3, <1>4 DEF ControlInv

-----------------------------------------------------------------------------
(* The second layer is inductive. *)

\* RealmProtocol follows from its form about pairs of events.
LEMMA PairsMakeProtocol == EventsInOrder => RealmProtocol
BY DEF EventsInOrder, RealmProtocol, Answered, Sent

\* What a step may do to a connection: a new realm is fresh, and a phase that
\* has sent something is left forwards only.
Evolves ==
  \A d \in Clients :
    /\ \/ conn'[d].realm = conn[d].realm
       \/ conn[d].realm = None /\ IsFresh(conn'[d].realm)
    /\ conn[d].pc = "await" =>
         conn'[d].pc = "await" \/ (conn'[d].pc = "open" /\ conn[d].told)
    /\ conn[d].pc = "open" => conn'[d].pc = "open"
    /\ conn[d].reader \in {"remove", "done"} => conn'[d].reader \in {"remove", "done"}

\* Every step moves connections forwards.
LEMMA StepEvolves ==
  ASSUME ControlInv, Next
  PROVE  Evolves
<1> USE DEF ControlInv, TasksTyped
<1>1. ASSUME NEW c \in Clients, HandlerStep(c) \/ Accept(c) PROVE Evolves
  <2>1. CASE Accept(c)
    BY <2>1 DEF Accept, Evolves, LooseConnection
  <2>2. CASE AcquireSlot(c)
    <3>1. waiting[1] = c /\ 1 \in DOMAIN waiting
      BY <2>2, EmptySeq, LenProperties DEF AcquireSlot
    <3>2. conn[c].pc = "queued"
      BY <3>1, ElementOfSeq, LenProperties DEF QueueFits
    <3>3. QED
      BY <2>2, <3>2 DEF AcquireSlot, Evolves, LooseConnection
  <2>3. CASE Register(c)
    <3>1. conn[c].realm = None
      BY <2>3 DEF Register, PhasesAgree, InPhase
    <3>2. QED
      BY <2>3, <3>1 DEF Register, Evolves, LooseConnection
  <2>4. CASE SendConnect(c)
    BY <2>4 DEF SendConnect, Evolves, LooseConnection
  <2>5. CASE Open(c)
    BY <2>5 DEF Open, Evolves, LooseConnection, PhasesAgree, InPhase
  <2>6. CASE BindFails(c)
    BY <2>6 DEF BindFails, Evolves, LooseConnection
  <2>7. QED
    BY <1>1, <2>1, <2>2, <2>3, <2>4, <2>5, <2>6 DEF HandlerStep
<1>2. ASSUME NEW c \in Clients, ReadData(c) \/ ReadEnds(c) \/ ReaderSends(c) PROVE Evolves
  <2>1. CASE ReadData(c)
    BY <2>1 DEF ReadData, Evolves, LooseConnection
  <2>2. CASE ReadEnds(c)
    BY <2>2 DEF ReadEnds, Evolves, LooseConnection
  <2>3. CASE SendData(c)
    BY <2>3 DEF SendData, Evolves, LooseConnection
  <2>4. CASE SendDisconnect(c)
    BY <2>4 DEF SendDisconnect, Evolves, LooseConnection
  <2>5. CASE RemoveChannel(c)
    BY <2>5 DEF RemoveChannel, Evolves, LooseConnection
  <2>6. QED
    BY <1>2, <2>1, <2>2, <2>3, <2>4, <2>5 DEF ReaderSends
<1>3. ASSUME NEW c \in Clients, WriterStep(c) PROVE Evolves
  <2>1. CASE TakePayload(c)
    BY <2>1 DEF TakePayload, Evolves, LooseConnection
  <2>2. CASE ChannelClosed(c)
    BY <2>2 DEF ChannelClosed, Evolves, LooseConnection
  <2>3. CASE WriteFails(c)
    BY <2>3 DEF WriteFails, Evolves, LooseConnection
  <2>4. CASE FlushResponse(c)
    BY <2>4 DEF FlushResponse, Evolves, LooseConnection
  <2>5. QED
    BY <1>3, <2>1, <2>2, <2>3, <2>4 DEF WriterStep
<1>4. CASE Dispatch
  BY <1>4, DispatchTouches DEF Dispatch, Evolves
<1>5. CASE conn' = conn
  BY <1>5 DEF Evolves
<1>6. QED
  BY <1>1, <1>2, <1>3, <1>4, <1>5
  DEF Next, Heartbeat, Transmit, CameraTakes, CameraAnswers, CameraCloses, taskVars

\* Realms stay alive and open, and what they have sent stays theirs.
LEMMA OwnersStay ==
  ASSUME ControlInv, LinkInv, Evolves
  PROVE  /\ \A r \in Realms : /\ Alive(r, conn) => Alive(r, conn')
                              /\ Opened(r, conn) => Opened(r, conn')
         /\ \A i \in DOMAIN down : PacketOwned(down[i], conn')
         /\ \A i \in DOMAIN Sent : Sent[i].kind # "heartbeat" => EventOwned(Sent[i], conn')
<1>1. ASSUME NEW r, r # None
      PROVE  /\ Alive(r, conn) => Alive(r, conn')
             /\ Opened(r, conn) => Opened(r, conn')
  BY <1>1 DEF Alive, Opened, Evolves
<1>2. \A i \in DOMAIN down : PacketOwned(down[i], conn')
  BY <1>1 DEF LinkInv, PacketsOwned, PacketOwned
<1>3. ASSUME NEW i \in DOMAIN Sent, Sent[i].kind # "heartbeat"
      PROVE  EventOwned(Sent[i], conn')
  <2>1. PICK c \in Clients :
          /\ Sent[i].realm # None
          /\ conn[c].realm = Sent[i].realm
          /\ conn[c].pc = IF Sent[i].kind = "bind" THEN "await" ELSE "open"
          /\ Sent[i].kind = "disc" => conn[c].reader \in {"remove", "done"}
    BY <1>3 DEF LinkInv, EventsOwned, EventOwned
  <2>2. Sent[i].kind = "bind" => ~conn[c].told
    <3>1. SUFFICES ASSUME Sent[i].kind = "bind", conn[c].told PROVE FALSE
      OBVIOUS
    <3>2. conn[c].reader = "idle"
      BY <2>1, <3>1 DEF ControlInv, PhasesAgree, InPhase
    <3>3. Answered(Sent[i].realm, camera)
      BY <2>1, <3>1, <3>2 DEF LinkInv, AcceptedStaysKnown
    <3>4. QED
      BY <1>3, <3>1, <3>3 DEF LinkInv, EventsInOrder, Answered
  <2>3. QED
    BY <2>1, <2>2 DEF EventOwned, Evolves
<1>4. QED
  BY <1>1, <1>2, <1>3, ClientAssumption

\* While dh_reader tells nobody and the camera does not move, what it has
\* accepted stays known to it.
LEMMA AcceptedFrame ==
  ASSUME ControlInv, LinkInv, Evolves, camera' = camera,
         \A d \in Clients : conn'[d].told => conn[d].told,
         \A i \in DOMAIN down' :
           down'[i].kind = "conn" => \E j \in DOMAIN down : down[j] = down'[i]
  PROVE  AcceptedStaysKnown'
<1>1. SUFFICES ASSUME NEW c \in Clients, conn'[c].reader \notin {"remove", "done"},
                      conn'[c].told
                        \/ \E i \in DOMAIN down' :
                             down'[i] = [kind |-> "conn", realm |-> conn'[c].realm]
               PROVE  camera[conn'[c].realm].state \in {"bound", "closed"}
  BY DEF AcceptedStaysKnown, Answered
<1>2. conn[c].reader \notin {"remove", "done"}
  BY <1>1 DEF Evolves
<1>3. CASE conn[c].told
  <2>1. conn[c].realm # None
    BY <1>3 DEF ControlInv, PhasesAgree, InPhase
  <2>2. conn'[c].realm = conn[c].realm
    BY <2>1 DEF Evolves
  <2>3. QED
    BY <1>2, <1>3, <2>2 DEF LinkInv, AcceptedStaysKnown, Answered
<1>4. CASE ~conn[c].told
  <2>1. PICK j \in DOMAIN down : down[j] = [kind |-> "conn", realm |-> conn'[c].realm]
    <3>1. PICK i \in DOMAIN down' : down'[i] = [kind |-> "conn", realm |-> conn'[c].realm]
      BY <1>1, <1>4
    <3>2. down'[i].kind = "conn"
      BY <3>1
    <3>3. QED
      BY <3>1, <3>2
  <2>2. conn'[c].realm = conn[c].realm
    BY <2>1 DEF LinkInv, PacketsOwned, PacketOwned, Alive, Evolves, IsFresh
  <2>3. QED
    BY <1>2, <2>1, <2>2 DEF LinkInv, AcceptedStaysKnown, Answered
<1>5. QED
  BY <1>3, <1>4

\* What is queued and what is in flight, as one sequence.
LEMMA Joined ==
  ASSUME NEW s \in Seq(Event), NEW t \in Seq(Event)
  PROVE  /\ s \o t \in Seq(Event) /\ Len(s \o t) = Len(s) + Len(t)
         /\ Len(s) \in Nat /\ Len(t) \in Nat
         /\ DOMAIN (s \o t) = 1 .. Len(s) + Len(t)
         /\ \A i \in 1 .. Len(s) + Len(t) :
              (s \o t)[i] = IF i <= Len(s) THEN s[i] ELSE t[i - Len(s)]
<1>1. s \o t \in Seq(Event) /\ Len(s \o t) = Len(s) + Len(t)
      /\ \A i \in 1 .. Len(s) + Len(t) :
           (s \o t)[i] = IF i <= Len(s) THEN s[i] ELSE t[i - Len(s)]
  BY ConcatProperties
<1>2. QED
  BY <1>1, LenProperties

\* Sent is that sequence.
LEMMA SentTyped ==
  ASSUME LinkTyped
  PROVE  /\ Sent \in Seq(Event) /\ Len(Sent) = Len(up) + Len(dhQueue)
         /\ DOMAIN Sent = 1 .. Len(Sent) /\ Len(Sent) \in Nat
         /\ Len(up) \in Nat /\ Len(dhQueue) \in Nat
         /\ \A i \in 1 .. Len(Sent) :
              Sent[i] = IF i <= Len(up) THEN up[i] ELSE dhQueue[i - Len(up)]
BY Joined DEF LinkTyped, Sent

\* Enqueue adds an event at the end.
LEMMA EnqueueExtends ==
  ASSUME LinkTyped, NEW kind \in {"bind", "data", "disc", "heartbeat"},
         NEW r \in Realms \cup {None}, Enqueue(kind, r), UNCHANGED <<up, down, camera>>
  PROVE  /\ LinkTyped'
         /\ DOMAIN Sent' = 1 .. Len(Sent) + 1
         /\ \A i \in 1 .. Len(Sent) : Sent'[i] = Sent[i]
         /\ Sent'[Len(Sent) + 1] = [kind |-> kind, realm |-> r]
<1> DEFINE e == [kind |-> kind, realm |-> r]
<1>1. e \in Event
  BY DEF Event
<1>2. dhQueue' = Append(dhQueue, e) /\ Len(dhQueue) < QueueCapacity
  BY DEF Enqueue
<1> HIDE DEF e
<1>3. /\ dhQueue' \in Seq(Event) /\ Len(dhQueue') = Len(dhQueue) + 1
      /\ \A i \in 1 .. Len(dhQueue) : dhQueue'[i] = dhQueue[i]
      /\ dhQueue'[Len(dhQueue) + 1] = e
  BY <1>1, <1>2, AppendProperties DEF LinkTyped
<1>4. LinkTyped'
  BY <1>2, <1>3, SentTyped, BoundAssumption DEF LinkTyped
<1>5. /\ Sent' \in Seq(Event) /\ Len(Sent') = Len(up) + Len(dhQueue')
      /\ DOMAIN Sent' = 1 .. Len(Sent')
      /\ \A i \in 1 .. Len(Sent') :
           Sent'[i] = IF i <= Len(up) THEN up[i] ELSE dhQueue'[i - Len(up)]
  <2>1. Sent' = up \o dhQueue' /\ up \in Seq(Event)
    BY DEF Sent, LinkTyped
  <2>2. QED
    BY <1>3, <2>1, Joined
<1>6. Len(Sent') = Len(Sent) + 1 /\ DOMAIN Sent' = 1 .. Len(Sent) + 1
  BY <1>3, <1>5, SentTyped
<1>7. ASSUME NEW i \in 1 .. Len(Sent) PROVE Sent'[i] = Sent[i]
  <2>1. CASE i <= Len(up)
    BY <1>3, <1>5, <1>6, <2>1, SentTyped
  <2>2. CASE i > Len(up)
    <3>1. i - Len(up) \in 1 .. Len(dhQueue)
      BY <2>2, SentTyped
    <3>2. i \in 1 .. Len(Sent')
      BY <1>6, SentTyped
    <3>3. Sent'[i] = dhQueue'[i - Len(up)] /\ Sent[i] = dhQueue[i - Len(up)]
      BY <1>5, <2>2, <3>2, SentTyped
    <3>4. QED
      BY <1>3, <3>1, <3>3
  <2>3. QED
    BY <2>1, <2>2, SentTyped
<1>8. Sent'[Len(Sent) + 1] = e
  BY <1>3, <1>5, <1>6, SentTyped
<1>9. QED
  BY <1>4, <1>6, <1>7, <1>8 DEF e

\* Transmit moves an event from one part to the other.
LEMMA TransmitMoves ==
  ASSUME LinkTyped, Transmit
  PROVE  LinkTyped' /\ Sent' = Sent
<1>1. /\ dhQueue \in Seq(Event) /\ dhQueue # <<>> /\ up \in Seq(Event)
      /\ up' = Append(up, Head(dhQueue)) /\ dhQueue' = Tail(dhQueue)
      /\ Len(up) < MaxInFlight /\ Len(dhQueue) <= QueueCapacity
      /\ UNCHANGED <<down, camera>>
  BY DEF Transmit, LinkTyped
<1>2. /\ Head(dhQueue) \in Event /\ Head(dhQueue) = dhQueue[1]
      /\ dhQueue' \in Seq(Event) /\ Len(dhQueue') = Len(dhQueue) - 1
      /\ \A i \in 1 .. Len(dhQueue') : dhQueue'[i] = dhQueue[i + 1]
  BY <1>1, HeadTailProperties
<1>3. /\ up' \in Seq(Event) /\ Len(up') = Len(up) + 1
      /\ \A i \in 1 .. Len(up) : up'[i] = up[i]
      /\ up'[Len(up) + 1] = dhQueue[1]
  BY <1>1, <1>2, AppendProperties
<1>4. LinkTyped'
  BY <1>1, <1>2, <1>3, SentTyped, BoundAssumption DEF LinkTyped
<1>5. /\ Sent' \in Seq(Event) /\ Len(Sent') = Len(up') + Len(dhQueue')
      /\ \A i \in 1 .. Len(Sent') :
           Sent'[i] = IF i <= Len(up') THEN up'[i] ELSE dhQueue'[i - Len(up')]
  <2>1. Sent' = up' \o dhQueue' /\ up' \in Seq(Event) /\ dhQueue' \in Seq(Event)
    BY <1>2, <1>3 DEF Sent
  <2>2. QED
    BY <2>1, Joined
<1>6. Len(Sent') = Len(Sent) /\ Len(Sent) \in Nat
  BY <1>2, <1>3, <1>5, SentTyped, LenProperties, EmptySeq
<1>7. ASSUME NEW i \in 1 .. Len(Sent) PROVE Sent'[i] = Sent[i]
  <2>1. Sent'[i] = IF i <= Len(up') THEN up'[i] ELSE dhQueue'[i - Len(up')]
    BY <1>5, <1>6
  <2>2. Sent[i] = IF i <= Len(up) THEN up[i] ELSE dhQueue[i - Len(up)]
    BY SentTyped
  <2>3. /\ Len(up) \in Nat /\ Len(dhQueue) \in Nat \ {0}
        /\ Len(Sent) = Len(up) + Len(dhQueue)
    BY <1>1, SentTyped, LenProperties, EmptySeq
  <2>4. CASE i <= Len(up)
    BY <1>3, <2>1, <2>2, <2>3, <2>4
  <2>5. CASE i = Len(up) + 1
    BY <1>3, <2>1, <2>2, <2>3, <2>5
  <2>6. CASE i > Len(up) + 1
    <3>1. i - Len(up') \in 1 .. Len(dhQueue') /\ (i - Len(up')) + 1 = i - Len(up)
      BY <1>2, <1>3, <2>3, <2>6
    <3>2. dhQueue'[i - Len(up')] = dhQueue[(i - Len(up')) + 1]
      BY <1>2, <3>1
    <3>3. QED
      BY <1>3, <2>1, <2>2, <2>3, <2>6, <3>1, <3>2
  <2>7. QED
    BY <2>3, <2>4, <2>5, <2>6
<1>8. Sent' = Sent
  BY <1>5, <1>6, <1>7, SentTyped, SeqEqual
<1>9. QED
  BY <1>4, <1>8

\* The camera takes the oldest.
LEMMA TakingShifts ==
  ASSUME LinkTyped, up # <<>>, up' = Tail(up), dhQueue' = dhQueue
  PROVE  /\ up' \in Seq(Event) /\ Len(up') <= MaxInFlight
         /\ Head(up) = Sent[1] /\ Len(Sent) \in Nat \ {0} /\ Sent[1] \in Event
         /\ DOMAIN Sent' = 1 .. Len(Sent) - 1
         /\ \A i \in 1 .. Len(Sent) - 1 : Sent'[i] = Sent[i + 1]
<1>1. /\ up' \in Seq(Event) /\ Len(up') = Len(up) - 1
      /\ \A i \in 1 .. Len(up') : up'[i] = up[i + 1]
      /\ Head(up) = up[1] /\ Len(up) \in Nat \ {0} /\ Head(up) \in Event
  BY HeadTailProperties, EmptySeq DEF LinkTyped
<1>2. /\ DOMAIN Sent' = 1 .. Len(up') + Len(dhQueue)
      /\ \A i \in 1 .. Len(up') + Len(dhQueue) :
           Sent'[i] = IF i <= Len(up') THEN up'[i] ELSE dhQueue[i - Len(up')]
  BY <1>1, Joined DEF LinkTyped, Sent
<1>3. DOMAIN Sent' = 1 .. Len(Sent) - 1
      /\ \A i \in 1 .. Len(Sent) - 1 : Sent'[i] = Sent[i + 1]
  <2>1. DOMAIN Sent' = 1 .. Len(Sent) - 1
    BY <1>1, <1>2, SentTyped
  <2>2. ASSUME NEW i \in 1 .. Len(Sent) - 1 PROVE Sent'[i] = Sent[i + 1]
    <3>1. CASE i <= Len(up')
      BY <1>1, <1>2, <3>1, SentTyped
    <3>2. CASE i > Len(up')
      BY <1>1, <1>2, <3>2, SentTyped
    <3>3. QED
      BY <1>1, <3>1, <3>2, SentTyped
  <2>3. QED
    BY <2>1, <2>2
<1>4. Len(Sent) \in Nat \ {0} /\ Head(up) = Sent[1]
  BY <1>1, SentTyped
<1>5. Len(up') <= MaxInFlight
  BY <1>1, BoundAssumption DEF LinkTyped
<1>6. QED
  BY <1>1, <1>3, <1>4, <1>5

\* A packet from the camera is added at the end, and dh_reader takes the first.
LEMMA ReplyExtends ==
  ASSUME LinkTyped, NEW kind \in {"conn", "data", "disc"}, NEW r \in Realms, Replies(r, kind)
  PROVE  /\ down' \in Seq(LoosePacket) /\ Len(down') <= MaxInFlight
         /\ DOMAIN down = 1 .. Len(down) /\ Len(down) \in Nat
         /\ DOMAIN down' = 1 .. Len(down) + 1
         /\ \A i \in 1 .. Len(down) : down'[i] = down[i]
         /\ down'[Len(down) + 1] = [kind |-> kind, realm |-> r]
<1>1. [kind |-> kind, realm |-> r] \in LoosePacket
  BY DEF LoosePacket
<1>2. QED
  BY <1>1, AppendProperties, LenProperties, BoundAssumption DEF LinkTyped, Replies

\* The first is the one dh_reader takes.
LEMMA IncomingShifts ==
  ASSUME LinkTyped, NEW kind, NEW r, Incoming(kind, r)
  PROVE  /\ down' \in Seq(LoosePacket) /\ Len(down') <= MaxInFlight
         /\ DOMAIN down = 1 .. Len(down) /\ Len(down) \in Nat \ {0}
         /\ DOMAIN down' = 1 .. Len(down) - 1
         /\ \A i \in 1 .. Len(down) - 1 : down'[i] = down[i + 1]
         /\ down[1] = [kind |-> kind, realm |-> r]
<1>1. /\ down \in Seq(LoosePacket) /\ down # <<>> /\ Len(down) <= MaxInFlight
      /\ down' = Tail(down) /\ Head(down) = [kind |-> kind, realm |-> r]
  BY DEF LinkTyped, Incoming
<1>2. /\ down' \in Seq(LoosePacket) /\ Len(down') = Len(down) - 1
      /\ \A i \in 1 .. Len(down') : down'[i] = down[i + 1]
  BY <1>1, HeadTailProperties
<1>3. Head(down) = down[1] /\ Len(down) \in Nat \ {0}
  BY <1>1, EmptySeq
<1>4. DOMAIN down = 1 .. Len(down) /\ DOMAIN down' = 1 .. Len(down')
  BY <1>1, <1>2, LenProperties
<1>5. Len(down') <= MaxInFlight
  BY <1>1, <1>2, <1>3, BoundAssumption
<1>6. QED
  BY <1>1, <1>2, <1>3, <1>4, <1>5

\* A step of a connection's tasks that queues nothing.
LEMMA TasksKeepLink ==
  ASSUME ControlInv, LinkInv, Evolves, UNCHANGED <<dhQueue, up, down, camera>>,
         \A d \in Clients : conn'[d].told => conn[d].told
  PROVE  LinkInv'
<1>1. LinkTyped' /\ Sent' = Sent
  BY DEF LinkInv, LinkTyped, Sent
<1>2. EventsOwned'
  BY <1>1, OwnersStay DEF LinkInv, EventsOwned
<1>3. PacketsOwned'
  BY OwnersStay DEF PacketsOwned
<1>4. CameraOwned'
  BY OwnersStay DEF LinkInv, CameraOwned
<1>5. AcceptedStaysKnown'
  BY AcceptedFrame
<1>6. DiscIsLast' /\ EventsInOrder'
  BY <1>1 DEF LinkInv, DiscIsLast, EventsInOrder, Over, Answered
<1>7. QED
  BY <1>1, <1>2, <1>3, <1>4, <1>5, <1>6 DEF LinkInv

\* An event is queued by the connection it belongs to, in the order of the
\* protocol.
LEMMA EnqueueKeepsLink ==
  ASSUME ControlInv, LinkInv, Evolves, UNCHANGED <<up, down, camera>>,
         NEW kind \in {"bind", "data", "disc", "heartbeat"}, NEW r \in Realms \cup {None},
         Enqueue(kind, r),
         \A d \in Clients : conn'[d].told => conn[d].told,
         IF kind = "heartbeat" THEN r = None
         ELSE /\ EventOwned([kind |-> kind, realm |-> r], conn')
              /\ IF kind = "bind" THEN camera[r].state = "none" ELSE Answered(r, camera)
              /\ \A k \in DOMAIN Sent :
                   Sent[k].realm = r => Sent[k].kind = "data" /\ kind # "bind"
  PROVE  LinkInv'
<1> DEFINE e == [kind |-> kind, realm |-> r]
<1>1. /\ LinkTyped'
      /\ DOMAIN Sent' = 1 .. Len(Sent) + 1
      /\ \A i \in 1 .. Len(Sent) : Sent'[i] = Sent[i]
      /\ Sent'[Len(Sent) + 1] = e
  BY EnqueueExtends DEF LinkInv
<1>2. DOMAIN Sent = 1 .. Len(Sent) /\ Len(Sent) \in Nat
  BY SentTyped DEF LinkInv
<1>3. EventsOwned'
  <2>1. SUFFICES ASSUME NEW i \in 1 .. Len(Sent) + 1
                 PROVE  IF Sent'[i].kind = "heartbeat" THEN Sent'[i].realm = None
                        ELSE EventOwned(Sent'[i], conn')
    BY <1>1 DEF EventsOwned
  <2>2. CASE i \in 1 .. Len(Sent)
    BY <1>1, <1>2, <2>2, OwnersStay DEF LinkInv, EventsOwned
  <2>3. CASE i = Len(Sent) + 1
    BY <1>1, <2>3
  <2>4. QED
    BY <1>2, <2>2, <2>3
<1>4. PacketsOwned'
  BY OwnersStay DEF PacketsOwned
<1>5. CameraOwned'
  BY OwnersStay DEF LinkInv, CameraOwned
<1>6. AcceptedStaysKnown'
  BY AcceptedFrame
<1>7. DiscIsLast'
  BY DEF LinkInv, DiscIsLast, Over
<1>8. EventsInOrder'
  <2>1. SUFFICES ASSUME NEW i \in 1 .. Len(Sent) + 1, Sent'[i].kind # "heartbeat"
                 PROVE  /\ IF Sent'[i].kind = "bind"
                           THEN camera[Sent'[i].realm].state = "none"
                           ELSE Answered(Sent'[i].realm, camera)
                        /\ \A k \in 1 .. i - 1 : Sent'[k].realm = Sent'[i].realm =>
                             Sent'[k].kind = "data" /\ Sent'[i].kind # "bind"
    BY <1>1 DEF EventsInOrder, Answered
  <2>2. CASE i \in 1 .. Len(Sent)
    <3>1. \A k \in 1 .. i - 1 : k \in 1 .. Len(Sent)
      BY <1>2, <2>2
    <3>2. QED
      BY <1>1, <1>2, <2>1, <2>2, <3>1 DEF LinkInv, EventsInOrder
  <2>3. CASE i = Len(Sent) + 1
    <3>1. \A k \in 1 .. i - 1 : k \in DOMAIN Sent /\ Sent'[k] = Sent[k]
      BY <1>1, <1>2, <2>3
    <3>2. QED
      BY <1>1, <2>1, <2>3, <3>1
  <2>4. QED
    BY <1>2, <2>2, <2>3
<1>9. QED
  BY <1>1, <1>3, <1>4, <1>5, <1>6, <1>7, <1>8 DEF LinkInv

\* Who has queued what: a connection that is about to send its Bind has queued
\* nothing, one that is open has queued no Bind, and no Disconnect before its
\* reader ends.
LEMMA QueuedSoFar ==
  ASSUME ControlInv, LinkInv, NEW c \in Clients, conn[c].realm # None,
         NEW k \in DOMAIN Sent, Sent[k].realm = conn[c].realm
  PROVE  /\ conn[c].pc \in {"await", "open"}
         /\ conn[c].pc = "open" /\ conn[c].reader \notin {"remove", "done"} =>
              Sent[k].kind = "data"
<1>1. Sent[k].kind \in {"bind", "data", "disc", "heartbeat"}
  <2>1. Sent \in Seq(Event) /\ k \in 1 .. Len(Sent)
    BY SentTyped DEF LinkInv
  <2>2. Sent[k] \in Event
    BY <2>1, ElementOfSeq
  <2>3. QED
    BY <2>2 DEF Event
<1>2. Sent[k].kind # "heartbeat"
  BY DEF LinkInv, EventsOwned
<1>3. EventOwned(Sent[k], conn)
  BY <1>2 DEF LinkInv, EventsOwned
<1>4. PICK d \in Clients :
        /\ conn[d].realm = Sent[k].realm
        /\ conn[d].pc = IF Sent[k].kind = "bind" THEN "await" ELSE "open"
        /\ Sent[k].kind = "disc" => conn[d].reader \in {"remove", "done"}
  BY <1>3 DEF EventOwned
<1>5. d = c
  BY <1>4 DEF ControlInv, RealmsDiffer
<1>6. QED
  BY <1>1, <1>2, <1>4, <1>5

\* handle_client and process_reader add the event of their phase.
LEMMA SendersKeepLink ==
  ASSUME ControlInv, LinkInv, Evolves, NEW c \in Clients,
         SendConnect(c) \/ SendData(c) \/ SendDisconnect(c)
  PROVE  LinkInv'
<1>1. UNCHANGED <<up, down, camera>> /\ conn[c] \in LooseConnection
  BY DEF SendConnect, SendData, SendDisconnect, linkVars, ControlInv, TasksTyped
<1>2. \A d \in Clients : conn'[d].told => conn[d].told
  BY DEF SendConnect, SendData, SendDisconnect, ControlInv, TasksTyped, LooseConnection
<1>3. CASE SendConnect(c)
  <2>1. conn[c].pc = "connect" /\ Enqueue("bind", conn[c].realm)
    BY <1>3 DEF SendConnect
  <2>2. conn[c].realm \in Realms /\ conn[c].realm # None
    BY <1>1, <2>1 DEF ControlInv, PhasesAgree, InPhase, LooseConnection
  <2>3. conn'[c].pc = "await" /\ conn'[c].realm = conn[c].realm
    BY <1>1, <1>3 DEF SendConnect, ControlInv, TasksTyped, LooseConnection
  <2>4. EventOwned([kind |-> "bind", realm |-> conn[c].realm], conn')
    BY <2>2, <2>3 DEF EventOwned
  <2>5. camera[conn[c].realm].state = "none"
    BY <2>1, <2>2 DEF LinkInv, CameraOwned, Alive, ControlInv, RealmsDiffer
  <2>6. \A k \in DOMAIN Sent : Sent[k].realm # conn[c].realm
    BY <2>1, <2>2, QueuedSoFar
  <2>7. QED
    BY <1>1, <1>2, <2>1, <2>2, <2>4, <2>5, <2>6, EnqueueKeepsLink
<1>4. ASSUME NEW kind \in {"data", "disc"}, Enqueue(kind, conn[c].realm),
             conn[c].reader \in {"send", "disc"}, conn'[c].realm = conn[c].realm,
             conn'[c].pc = conn[c].pc,
             kind = "disc" => conn'[c].reader = "remove"
      PROVE  LinkInv'
  <2>1. conn[c].pc = "open" /\ conn[c].told /\ conn[c].realm # None
    BY <1>4 DEF ControlInv, PhasesAgree, InPhase
  <2>2. conn[c].realm \in Realms
    BY <1>1, <2>1 DEF LooseConnection
  <2>3. EventOwned([kind |-> kind, realm |-> conn[c].realm], conn')
    BY <1>4, <2>1 DEF EventOwned
  <2>4. Answered(conn[c].realm, camera)
    BY <1>4, <2>1 DEF LinkInv, AcceptedStaysKnown
  <2>5. \A k \in DOMAIN Sent : Sent[k].realm = conn[c].realm => Sent[k].kind = "data"
    BY <1>4, <2>1, QueuedSoFar
  <2>6. QED
    BY <1>1, <1>2, <1>4, <2>2, <2>3, <2>4, <2>5, EnqueueKeepsLink
<1>5. CASE SendData(c)
  BY <1>1, <1>4, <1>5 DEF SendData, ControlInv, TasksTyped, LooseConnection
<1>6. CASE SendDisconnect(c)
  BY <1>1, <1>4, <1>6 DEF SendDisconnect, ControlInv, TasksTyped, LooseConnection
<1>7. QED
  BY <1>3, <1>5, <1>6

\* The heartbeat belongs to no realm.
LEMMA HeartbeatKeepsLink ==
  ASSUME ControlInv, LinkInv, Evolves, Heartbeat
  PROVE  LinkInv'
BY EnqueueKeepsLink DEF Heartbeat, linkVars

\* dh_writer takes from the one queue and adds to the other.
LEMMA TransmitKeepsLink ==
  ASSUME ControlInv, LinkInv, Evolves, Transmit
  PROVE  LinkInv'
<1>1. LinkTyped' /\ Sent' = Sent /\ UNCHANGED <<conn, down, camera>>
  BY TransmitMoves DEF LinkInv, Transmit
<1>2. EventsOwned'
  BY <1>1 DEF LinkInv, EventsOwned, EventOwned
<1>3. PacketsOwned' /\ CameraOwned' /\ AcceptedStaysKnown' /\ DiscIsLast'
  BY <1>1 DEF LinkInv, PacketsOwned, CameraOwned, AcceptedStaysKnown, DiscIsLast, Over, Answered
<1>4. EventsInOrder'
  BY <1>1 DEF LinkInv, EventsInOrder, Answered
<1>5. QED
  BY <1>1, <1>2, <1>3, <1>4 DEF LinkInv

\* dh_reader takes a packet: a CONN tells its connection what the camera knows.
LEMMA DispatchKeepsLink ==
  ASSUME ControlInv, LinkInv, Evolves, NEW r \in Realms,
         ReceiveConn(r) \/ ReceiveDisc(r) \/ ReceivePayload(r)
  PROVE  LinkInv'
<1>1. UNCHANGED <<dhQueue, up, camera>> /\ Sent' = Sent
  BY DEF ReceiveConn, ReceiveDisc, ReceivePayload, taskVars, Sent
<1>2. PICK kind : Incoming(kind, r)
  BY DEF ReceiveConn, ReceiveDisc, ReceivePayload
<1>3. /\ down' \in Seq(LoosePacket) /\ Len(down') <= MaxInFlight
      /\ DOMAIN down = 1 .. Len(down) /\ Len(down) \in Nat \ {0}
      /\ DOMAIN down' = 1 .. Len(down) - 1
      /\ \A i \in 1 .. Len(down) - 1 : down'[i] = down[i + 1]
      /\ down[1] = [kind |-> kind, realm |-> r]
  BY <1>2, IncomingShifts DEF LinkInv
<1>4. LinkTyped'
  BY <1>1, <1>3 DEF LinkInv, LinkTyped
<1>5. EventsOwned' /\ EventsInOrder'
  BY <1>1, OwnersStay DEF LinkInv, EventsOwned, EventsInOrder, Answered
<1>6. \A i \in DOMAIN down' : i + 1 \in DOMAIN down /\ down'[i] = down[i + 1]
  BY <1>3
<1>7. PacketsOwned'
  BY <1>6, OwnersStay DEF PacketsOwned
<1>8. CameraOwned'
  BY <1>1, OwnersStay DEF LinkInv, CameraOwned
<1>9. DiscIsLast'
  <2>1. SUFFICES ASSUME NEW i \in DOMAIN down', down'[i].kind = "disc"
                 PROVE  /\ Over(down'[i].realm, camera)
                        /\ \A j \in DOMAIN down' :
                             j > i => down'[j] # [kind |-> "data", realm |-> down'[i].realm]
    BY <1>1 DEF DiscIsLast, Over
  <2>2. \A j \in DOMAIN down' : j > i => j + 1 > i + 1
    BY <1>3
  <2>3. QED
    BY <1>6, <2>1, <2>2 DEF LinkInv, DiscIsLast
<1>10. AcceptedStaysKnown'
  <2>1. CASE \A d \in Clients : conn'[d].told => conn[d].told
    BY <1>1, <1>6, <2>1, AcceptedFrame
  <2>2. CASE ReceiveConn(r)
    <3>1. SUFFICES ASSUME NEW c \in Clients, conn[c].reader \notin {"remove", "done"}
                   PROVE  /\ conn'[c].told => Answered(conn[c].realm, camera)
                          /\ \A i \in DOMAIN down' :
                               down'[i] = [kind |-> "conn", realm |-> conn[c].realm] =>
                                 Answered(conn[c].realm, camera)
      BY <1>1, DispatchTouches DEF AcceptedStaysKnown, Answered
    <3>2. conn'[c].told => conn[c].told \/ c = connChannels[r]
      BY DispatchTouches
    <3>3. c = connChannels[r] => conn[c].realm = r
      BY ClientAssumption DEF ControlInv, ChannelsFit
    <3>4. down[1] = [kind |-> "conn", realm |-> r] /\ 1 \in DOMAIN down
      BY <1>3, <2>2 DEF ReceiveConn, Incoming
    <3>5. QED
      BY <1>6, <3>1, <3>2, <3>3, <3>4 DEF LinkInv, AcceptedStaysKnown
  <2>3. QED
    BY <2>1, <2>2, DispatchTouches
<1>11. QED
  BY <1>4, <1>5, <1>7, <1>8, <1>9, <1>10 DEF LinkInv

\* Events and packets other than heartbeats name a realm.
LEMMA RealmsKnown ==
  ASSUME LinkInv
  PROVE  /\ \A i \in DOMAIN Sent : Sent[i].kind # "heartbeat" => Sent[i].realm \in Realms
         /\ \A i \in DOMAIN down : down[i].realm \in Realms
<1>1. \A i \in DOMAIN Sent : Sent[i] \in Event
  BY SentTyped, ElementOfSeq DEF LinkInv
<1>2. \A i \in DOMAIN down : down[i] \in LoosePacket
  BY LenProperties, ElementOfSeq DEF LinkInv, LinkTyped
<1>3. QED
  BY <1>1, <1>2
  DEF LinkInv, EventsOwned, EventOwned, Event, PacketsOwned, PacketOwned, LoosePacket

\* The camera answers a Bind or an open realm: what a reply must satisfy.
LEMMA ReplyKeepsLink ==
  ASSUME ControlInv, LinkInv, UNCHANGED conn,
         LinkTyped', EventsOwned', CameraOwned', EventsInOrder',
         NEW r \in Realms, NEW kind \in {"conn", "data", "disc"}, Replies(r, kind),
         \A q \in Realms \ {r} : camera'[q] = camera[q],
         Answered(r, camera'),
         Over(r, camera) => Over(r, camera'),
         PacketOwned([kind |-> kind, realm |-> r], conn),
         kind = "data" => ~Over(r, camera),
         kind = "disc" => Over(r, camera')
  PROVE  LinkInv'
<1>1. /\ DOMAIN down = 1 .. Len(down) /\ Len(down) \in Nat
      /\ DOMAIN down' = 1 .. Len(down) + 1
      /\ \A i \in 1 .. Len(down) : down'[i] = down[i]
      /\ down'[Len(down) + 1] = [kind |-> kind, realm |-> r]
  BY ReplyExtends DEF LinkInv
<1>2. \A i \in DOMAIN down' : i \in DOMAIN down \/ i = Len(down) + 1
  BY <1>1
<1>3. \A i \in DOMAIN down : down[i].realm \in Realms
  BY RealmsKnown
<1>4. PacketsOwned'
  BY <1>1, <1>2 DEF LinkInv, PacketsOwned
<1>5. AcceptedStaysKnown'
  <2>1. SUFFICES ASSUME NEW c \in Clients, conn[c].reader \notin {"remove", "done"},
                        conn[c].realm # r,
                        \/ conn[c].told
                        \/ \E i \in DOMAIN down' :
                             down'[i] = [kind |-> "conn", realm |-> conn[c].realm]
                 PROVE  Answered(conn[c].realm, camera')
    BY DEF AcceptedStaysKnown, Answered
  <2>2. conn[c].told \/ \E i \in DOMAIN down :
                           down[i] = [kind |-> "conn", realm |-> conn[c].realm]
    BY <1>1, <1>2, <2>1
  <2>3. Answered(conn[c].realm, camera)
    BY <2>1, <2>2 DEF LinkInv, AcceptedStaysKnown
  <2>4. conn[c].realm \in Realms
    <3>1. conn[c].realm # None
      BY <2>2 DEF ControlInv, PhasesAgree, InPhase, LinkInv, PacketsOwned, PacketOwned
    <3>2. QED
      BY <3>1 DEF ControlInv, TasksTyped, LooseConnection
  <2>5. QED
    BY <2>1, <2>3, <2>4 DEF Answered
<1>6. DiscIsLast'
  <2>1. SUFFICES ASSUME NEW i \in DOMAIN down', down'[i].kind = "disc"
                 PROVE  /\ Over(down'[i].realm, camera')
                        /\ \A j \in DOMAIN down' :
                             j > i => down'[j] # [kind |-> "data", realm |-> down'[i].realm]
    BY DEF DiscIsLast, Over
  <2>2. CASE i = Len(down) + 1
    BY <1>1, <2>1, <2>2 DEF Over
  <2>3. CASE i \in DOMAIN down
    <3>1. down'[i] = down[i] /\ Over(down[i].realm, camera) /\ down[i].realm \in Realms
      BY <1>1, <1>3, <2>1, <2>3 DEF LinkInv, DiscIsLast
    <3>2. Over(down'[i].realm, camera')
      BY <3>1 DEF Over
    <3>3. ASSUME NEW j \in DOMAIN down', j > i
          PROVE  down'[j] # [kind |-> "data", realm |-> down'[i].realm]
      <4>1. CASE j \in DOMAIN down
        BY <1>1, <2>1, <2>3, <3>1, <3>3, <4>1 DEF LinkInv, DiscIsLast
      <4>2. CASE j = Len(down) + 1
        BY <1>1, <3>1, <4>2
      <4>3. QED
        BY <1>2, <4>1, <4>2
    <3>4. QED
      BY <3>2, <3>3
  <2>4. QED
    BY <1>2, <2>2, <2>3
<1>7. QED
  BY <1>4, <1>5, <1>6 DEF LinkInv

\* An open realm answers, or is closed by the camera.
LEMMA CameraSpeaksKeepsLink ==
  ASSUME ControlInv, LinkInv, NEW r \in Realms, CameraAnswers(r) \/ CameraCloses(r)
  PROVE  LinkInv'
<1>1. /\ UNCHANGED <<conn, up, dhQueue>> /\ Sent' = Sent
      /\ camera[r].state = "bound" /\ Alive(r, conn)
      /\ camera \in [Realms -> CameraRealm]
  BY DEF CameraAnswers, CameraCloses, taskVars, Sent, LinkInv, CameraOwned, LinkTyped
<1>2. PICK kind \in {"data", "disc"} :
        /\ Replies(r, kind)
        /\ kind = "data" => CameraAnswers(r)
        /\ kind = "disc" => CameraCloses(r)
  BY DEF CameraAnswers, CameraCloses
<1>3. /\ \A q \in Realms \ {r} : camera'[q] = camera[q]
      /\ camera'[r].asked = camera[r].asked
      /\ camera'[r].state = IF kind = "data" THEN "bound" ELSE "closed"
      /\ kind = "data" => Opened(r, conn)
      /\ kind = "disc" => camera'[r].answered = camera[r].answered
      /\ camera' \in [Realms -> CameraRealm]
  BY <1>1, <1>2, BoundAssumption
  DEF CameraAnswers, CameraCloses, CameraRealm, LinkInv, CameraOwned
<1>4. LinkTyped'
  BY <1>1, <1>2, <1>3, ReplyExtends DEF LinkInv, LinkTyped
<1>5. EventsOwned'
  BY <1>1 DEF LinkInv, EventsOwned
<1>6. EventsInOrder'
  <2>1. \A i \in DOMAIN Sent : Sent[i].kind # "heartbeat" =>
          /\ camera[Sent[i].realm].state = "none" => camera'[Sent[i].realm].state = "none"
          /\ Answered(Sent[i].realm, camera) => Answered(Sent[i].realm, camera')
    BY <1>1, <1>3, RealmsKnown DEF Answered
  <2>2. QED
    BY <1>1, <2>1 DEF LinkInv, EventsInOrder
<1>7. CameraOwned'
  BY <1>1, <1>3 DEF LinkInv, CameraOwned
<1>8. PacketOwned([kind |-> kind, realm |-> r], conn)
  BY <1>1, <1>3, ClientAssumption DEF PacketOwned
<1>9. QED
  BY <1>1, <1>2, <1>3, <1>4, <1>5, <1>6, <1>7, <1>8, ReplyKeepsLink DEF Answered, Over

\* The camera takes an event: it is the only one of its realm, or one of
\* several that carry data.
LEMMA CameraTakesKeepsLink ==
  ASSUME ControlInv, LinkInv, CameraTakes
  PROVE  LinkInv'
<1> DEFINE r == Head(up).realm
           k == Head(up).kind
<1>1. UNCHANGED <<conn, dhQueue>> /\ up # <<>> /\ up' = Tail(up)
      /\ camera \in [Realms -> CameraRealm]
  BY DEF CameraTakes, taskVars, LinkInv, LinkTyped
<1>2. /\ up' \in Seq(Event) /\ Len(up') <= MaxInFlight
      /\ Sent[1] = Head(up) /\ Len(Sent) \in Nat \ {0} /\ Sent[1] \in Event
      /\ DOMAIN Sent' = 1 .. Len(Sent) - 1
      /\ \A i \in 1 .. Len(Sent) - 1 : Sent'[i] = Sent[i + 1]
  BY <1>1, TakingShifts DEF LinkInv
<1>3. DOMAIN Sent = 1 .. Len(Sent)
  BY SentTyped DEF LinkInv
<1>4. \A i \in DOMAIN Sent' : i + 1 \in DOMAIN Sent /\ Sent'[i] = Sent[i + 1]
  BY <1>2, <1>3
<1>5. EventsOwned'
  BY <1>1, <1>4 DEF LinkInv, EventsOwned
<1>6. k \in {"bind", "data", "disc", "heartbeat"} /\ 1 \in DOMAIN Sent
  BY <1>2, <1>3 DEF Event
<1>7. k # "heartbeat" =>
        /\ r \in Realms
        /\ IF k = "bind" THEN camera[r].state = "none" ELSE Answered(r, camera)
        /\ Alive(r, conn)
        /\ k # "bind" => Opened(r, conn)
  BY <1>2, <1>6
  DEF LinkInv, EventsInOrder, EventsOwned, EventOwned, Event, Alive, Opened
<1>8. k # "heartbeat" => \A i \in DOMAIN Sent' : Sent'[i].realm = r => k = "data"
  <2>1. SUFFICES ASSUME k # "heartbeat", NEW i \in DOMAIN Sent', Sent'[i].realm = r
                 PROVE  k = "data"
    OBVIOUS
  <2>2. Sent[i + 1].realm = r /\ r # None /\ i + 1 \in DOMAIN Sent
    BY <1>4, <1>7, <2>1, ClientAssumption
  <2>3. Sent[i + 1].kind # "heartbeat"
    BY <2>2 DEF LinkInv, EventsOwned
  <2>4. 1 \in 1 .. (i + 1) - 1
    BY <1>2
  <2>5. QED
    BY <1>2, <2>2, <2>3, <2>4 DEF LinkInv, EventsInOrder
<1>9. ASSUME NEW i \in DOMAIN Sent', Sent'[i].kind # "heartbeat",
             IF Sent'[i].kind = "bind" THEN camera'[Sent'[i].realm].state = "none"
                                       ELSE Answered(Sent'[i].realm, camera')
      PROVE  /\ IF Sent'[i].kind = "bind" THEN camera'[Sent'[i].realm].state = "none"
                                          ELSE Answered(Sent'[i].realm, camera')
             /\ \A j \in 1 .. i - 1 :
                  Sent'[j].realm = Sent'[i].realm => Sent'[j].kind = "data" /\ Sent'[i].kind # "bind"
  <2>1. \A j \in 1 .. i - 1 : j \in DOMAIN Sent' /\ j + 1 \in 1 .. (i + 1) - 1
    BY <1>2, <1>9
  <2>2. QED
    BY <1>4, <1>9, <2>1 DEF LinkInv, EventsInOrder
<1>10. ASSUME \A q \in Realms : camera'[q].state # camera[q].state => q = r /\ k \in {"bind", "disc"}
       PROVE  EventsInOrder'
  <2>1. SUFFICES ASSUME NEW i \in DOMAIN Sent', Sent'[i].kind # "heartbeat"
                 PROVE  IF Sent'[i].kind = "bind" THEN camera'[Sent'[i].realm].state = "none"
                                                  ELSE Answered(Sent'[i].realm, camera')
    BY <1>9 DEF EventsInOrder, Answered
  <2>2. IF Sent[i + 1].kind = "bind" THEN camera[Sent[i + 1].realm].state = "none"
                                     ELSE Answered(Sent[i + 1].realm, camera)
    BY <1>4, <2>1 DEF LinkInv, EventsInOrder
  <2>3. Sent[i + 1].realm \in Realms
    BY <1>4, <2>1, RealmsKnown
  <2>4. camera'[Sent[i + 1].realm].state = camera[Sent[i + 1].realm].state
    BY <1>4, <1>8, <1>10, <2>1, <2>3
  <2>5. QED
    BY <1>4, <2>2, <2>4 DEF Answered
<1>11. CASE UNCHANGED <<down, camera>>
  <2>1. LinkTyped' /\ PacketsOwned' /\ CameraOwned' /\ AcceptedStaysKnown' /\ DiscIsLast'
    BY <1>1, <1>2, <1>11
    DEF LinkInv, LinkTyped, PacketsOwned, CameraOwned, AcceptedStaysKnown, DiscIsLast,
        Over, Answered
  <2>2. QED
    BY <1>5, <1>10, <1>11, <2>1 DEF LinkInv
<1>12. ASSUME k = "bind", NEW kind \in {"conn", "disc"}, Replies(r, kind),
              IF kind = "conn"
              THEN camera' = [camera EXCEPT
                     ![r] = [state |-> "bound", asked |-> FALSE, answered |-> 0]]
              ELSE camera' = [camera EXCEPT ![r].state = "closed"]
       PROVE  LinkInv'
  <2>1. r \in Realms /\ camera[r].state = "none" /\ Alive(r, conn)
    BY <1>7, <1>12
  <2>2. [state |-> "bound", asked |-> FALSE, answered |-> 0] \in CameraRealm
    BY BoundAssumption DEF CameraRealm
  <2>3. /\ \A q \in Realms \ {r} : camera'[q] = camera[q]
        /\ camera'[r].state = IF kind = "conn" THEN "bound" ELSE "closed"
        /\ camera'[r].asked => camera[r].asked
        /\ camera'[r].answered # 0 => camera[r].answered # 0
        /\ camera' \in [Realms -> CameraRealm]
    <3>1. CASE kind = "conn"
      <4>1. camera' = [camera EXCEPT
                        ![r] = [state |-> "bound", asked |-> FALSE, answered |-> 0]]
        BY <1>12, <3>1
      <4> HIDE DEF r
      <4>2. QED
        BY <1>1, <2>1, <2>2, <3>1, <4>1
    <3>2. CASE kind = "disc"
      <4>1. camera' = [camera EXCEPT ![r].state = "closed"]
        BY <1>12, <3>2
      <4> HIDE DEF r
      <4>2. QED
        BY <1>1, <2>1, <3>2, <4>1 DEF CameraRealm
    <3>3. QED
      BY <3>1, <3>2
  <2>4. LinkTyped'
    BY <1>1, <1>2, <1>12, <2>1, <2>3, ReplyExtends DEF LinkInv, LinkTyped
  <2>5. CameraOwned'
    BY <1>1, <2>1, <2>3 DEF LinkInv, CameraOwned
  <2>6. EventsInOrder'
    BY <1>10, <1>12, <2>3
  <2>7. PacketOwned([kind |-> kind, realm |-> r], conn)
    BY <2>1, ClientAssumption DEF PacketOwned
  <2>8. ~Over(r, camera)
    BY <2>1 DEF Over
  <2>9. Answered(r, camera') /\ (kind = "disc" => Over(r, camera'))
    BY <1>1, <2>3 DEF Answered, Over
  <2>10. QED
    BY <1>1, <1>5, <1>12, <2>1, <2>3, <2>4, <2>5, <2>6, <2>7, <2>8, <2>9, ReplyKeepsLink
<1>13. ASSUME k = "data", UNCHANGED down,
              camera' = [camera EXCEPT ![r].asked = @ \/ camera[r].state = "bound"]
       PROVE  LinkInv'
  <2>1. r \in Realms /\ Opened(r, conn)
    BY <1>7, <1>13
  <2>2. /\ \A q \in Realms \ {r} : camera'[q] = camera[q]
        /\ camera'[r].state = camera[r].state
        /\ camera'[r].answered = camera[r].answered
        /\ camera' \in [Realms -> CameraRealm]
    BY <1>1, <1>13, <2>1 DEF CameraRealm
  <2>3. \A q \in Realms : camera'[q].state = camera[q].state
    BY <2>2
  <2>4. LinkTyped' /\ CameraOwned'
    <3>1. LinkTyped'
      BY <1>1, <1>2, <1>13, <2>2 DEF LinkInv, LinkTyped
    <3>2. Alive(r, conn)
      BY <1>7, <1>13
    <3>3. CameraOwned'
      BY <1>1, <2>1, <2>2, <3>2 DEF LinkInv, CameraOwned
    <3>4. QED
      BY <3>1, <3>3
  <2>5. PacketsOwned' /\ AcceptedStaysKnown' /\ DiscIsLast'
    <3>1. PacketsOwned'
      BY <1>1, <1>13 DEF LinkInv, PacketsOwned
    <3>2. \A q \in Realms : (Answered(q, camera') <=> Answered(q, camera)) /\ (Over(q, camera') <=> Over(q, camera))
      BY <2>3 DEF Answered, Over
    <3>3. \A i \in DOMAIN down : down[i].realm \in Realms
      BY RealmsKnown
    <3>4. DiscIsLast'
      BY <1>13, <2>3, <3>3 DEF LinkInv, DiscIsLast, Over
    <3>5. AcceptedStaysKnown'
      <4>1. \A c \in Clients : conn[c].told => conn[c].realm \in Realms
        BY DEF ControlInv, PhasesAgree, InPhase, TasksTyped, LooseConnection
      <4>2. \A c \in Clients, i \in DOMAIN down :
              down[i] = [kind |-> "conn", realm |-> conn[c].realm] => conn[c].realm \in Realms
        BY <3>3
      <4>3. QED
        BY <1>1, <1>13, <2>3, <4>1, <4>2 DEF LinkInv, AcceptedStaysKnown, Answered
    <3>6. QED
      BY <3>1, <3>4, <3>5
  <2>6. EventsInOrder'
    BY <1>10, <2>3
  <2>7. QED
    BY <1>5, <2>4, <2>5, <2>6 DEF LinkInv
<1>14. ASSUME k = "disc", UNCHANGED down,
              camera' = [camera EXCEPT ![r].state = "released"]
       PROVE  LinkInv'
  <2>1. r \in Realms /\ Opened(r, conn)
    BY <1>7, <1>14
  <2>2. /\ \A q \in Realms \ {r} : camera'[q] = camera[q]
        /\ camera'[r].state = "released"
        /\ camera'[r].asked = camera[r].asked
        /\ camera'[r].answered = camera[r].answered
        /\ camera' \in [Realms -> CameraRealm]
    BY <1>1, <1>14, <2>1 DEF CameraRealm
  <2>3. LinkTyped' /\ CameraOwned'
    BY <1>1, <1>2, <1>14, <2>1, <2>2 DEF LinkInv, LinkTyped, CameraOwned, Alive, Opened
  <2>4. PacketsOwned'
    BY <1>1, <1>14 DEF LinkInv, PacketsOwned
  <2>5. \A i \in DOMAIN down : down[i].realm \in Realms
    BY RealmsKnown
  <2>6. DiscIsLast'
    <3>1. \A q \in Realms : Over(q, camera) => Over(q, camera')
      BY <2>2 DEF Over
    <3>2. \A i \in DOMAIN down : Over(down[i].realm, camera) => camera'[down[i].realm].state \in {"closed", "released"}
      BY <2>5, <3>1 DEF Over
    <3>3. QED
      BY <1>14, <3>2 DEF LinkInv, DiscIsLast, Over
  <2>7. AcceptedStaysKnown'
    <3>1. \A c \in Clients : conn[c].realm = r => conn[c].reader \in {"remove", "done"}
      <4>1. EventOwned(Sent[1], conn)
        BY <1>2, <1>6, <1>14 DEF LinkInv, EventsOwned
      <4>2. QED
        BY <1>2, <1>14, <2>1, <4>1, ClientAssumption DEF EventOwned, ControlInv, RealmsDiffer
    <3>2. \A c \in Clients : conn[c].told => conn[c].realm \in Realms
      BY DEF ControlInv, PhasesAgree, InPhase, TasksTyped, LooseConnection
    <3>3. \A c \in Clients, i \in DOMAIN down :
            down[i] = [kind |-> "conn", realm |-> conn[c].realm] => conn[c].realm \in Realms
      BY <2>5
    <3>4. QED
      BY <1>1, <1>14, <2>2, <3>1, <3>2, <3>3 DEF LinkInv, AcceptedStaysKnown, Answered
  <2>8. EventsInOrder'
    BY <1>10, <1>14, <2>2
  <2>9. QED
    BY <1>5, <2>3, <2>4, <2>6, <2>7, <2>8 DEF LinkInv
<1>15. QED
  <2>1. CASE k = "bind"
    BY <1>11, <1>12, <2>1 DEF CameraTakes
  <2>2. CASE k = "data"
    BY <1>13, <2>2 DEF CameraTakes
  <2>3. CASE k = "disc"
    BY <1>14, <2>3 DEF CameraTakes
  <2>4. CASE k = "heartbeat"
    BY <1>11, <2>4 DEF CameraTakes
  <2>5. QED
    BY <1>6, <2>1, <2>2, <2>3, <2>4

\* Every step keeps the second layer.
LEMMA StepKeepsLink == ControlInv /\ LinkInv /\ [Next]_vars => LinkInv'
<1> SUFFICES ASSUME ControlInv, LinkInv, [Next]_vars PROVE LinkInv'
  OBVIOUS
<1>1. CASE UNCHANGED vars
  <2>1. UNCHANGED <<conn, up, down, camera, dhQueue>>
    BY <1>1 DEF vars, taskVars, linkVars
  <2>2. Evolves
    BY <2>1 DEF Evolves
  <2>3. QED
    BY <2>1, <2>2, TasksKeepLink
<1>2. SUFFICES ASSUME Next PROVE LinkInv'
  BY <1>1
<1>3. Evolves
  BY <1>2, StepEvolves
<1>4. ASSUME NEW c \in Clients,
             \/ Accept(c) \/ AcquireSlot(c) \/ Register(c) \/ Open(c) \/ BindFails(c)
             \/ ReadData(c) \/ ReadEnds(c) \/ RemoveChannel(c)
             \/ TakePayload(c) \/ ChannelClosed(c) \/ WriteFails(c) \/ FlushResponse(c)
      PROVE  LinkInv'
  <2>1. UNCHANGED <<dhQueue, up, down, camera>>
    BY <1>4
    DEF Accept, AcquireSlot, Register, Open, BindFails, ReadData, ReadEnds, RemoveChannel,
        TakePayload, ChannelClosed, WriteFails, FlushResponse, taskVars, linkVars
  <2>2. \A d \in Clients : conn'[d].told = conn[d].told
    <3> USE DEF ControlInv, TasksTyped, LooseConnection
    <3>1. CASE Accept(c)
      BY <3>1 DEF Accept
    <3>2. CASE AcquireSlot(c)
      BY <3>2 DEF AcquireSlot
    <3>3. CASE Register(c)
      BY <3>3 DEF Register
    <3>4. CASE Open(c)
      BY <3>4 DEF Open
    <3>5. CASE BindFails(c)
      BY <3>5 DEF BindFails
    <3>6. CASE ReadData(c)
      BY <3>6 DEF ReadData
    <3>7. CASE ReadEnds(c)
      BY <3>7 DEF ReadEnds
    <3>8. CASE RemoveChannel(c)
      BY <3>8 DEF RemoveChannel
    <3>9. CASE TakePayload(c)
      BY <3>9 DEF TakePayload
    <3>10. CASE ChannelClosed(c)
      BY <3>10 DEF ChannelClosed
    <3>11. CASE WriteFails(c)
      BY <3>11 DEF WriteFails
    <3>12. CASE FlushResponse(c)
      BY <3>12 DEF FlushResponse
    <3>13. QED
      BY <1>4, <3>1, <3>2, <3>3, <3>4, <3>5, <3>6, <3>7,
         <3>8, <3>9, <3>10, <3>11, <3>12
  <2>3. QED
    BY <1>3, <2>1, <2>2, TasksKeepLink
<1>5. ASSUME NEW c \in Clients, SendConnect(c) \/ SendData(c) \/ SendDisconnect(c)
      PROVE  LinkInv'
  BY <1>3, <1>5, SendersKeepLink
<1>6. CASE Heartbeat \/ Transmit
  BY <1>3, <1>6, HeartbeatKeepsLink, TransmitKeepsLink
<1>7. CASE Dispatch
  BY <1>3, <1>7, DispatchKeepsLink DEF Dispatch
<1>8. CASE CameraTakes
  BY <1>8, CameraTakesKeepsLink
<1>9. ASSUME NEW r \in Realms, CameraAnswers(r) \/ CameraCloses(r) PROVE LinkInv'
  BY <1>9, CameraSpeaksKeepsLink
<1>10. QED
  BY <1>2, <1>4, <1>5, <1>6, <1>7, <1>8, <1>9
  DEF Next, HandlerStep, ReaderSends, WriterStep

\* Nothing is in flight.
LEMMA InitLink == Init => LinkInv
<1> SUFFICES ASSUME Init PROVE LinkInv
  OBVIOUS
<1>1. LinkTyped
  <2>1. [state |-> "none", asked |-> FALSE, answered |-> 0] \in CameraRealm
    BY BoundAssumption DEF CameraRealm
  <2>2. QED
    BY <2>1, EmptySeq, BoundAssumption DEF Init, LinkTyped
<1>2. DOMAIN Sent = {} /\ DOMAIN down = {}
  BY <1>1, SentTyped, EmptySeq, LenProperties DEF Init
<1>3. EventsOwned /\ EventsInOrder /\ PacketsOwned /\ DiscIsLast
  BY <1>2 DEF EventsOwned, EventsInOrder, PacketsOwned, DiscIsLast
<1>4. CameraOwned
  BY DEF Init, CameraOwned
<1>5. AcceptedStaysKnown
  BY <1>2 DEF Init, AcceptedStaysKnown
<1>6. QED
  BY <1>1, <1>3, <1>4, <1>5 DEF LinkInv

-----------------------------------------------------------------------------
(* The third layer is inductive. *)

\* How many payloads of a realm are among the packets, and how the number
\* changes when one is added at the end or taken from the front.
LEMMA ComingCounts ==
  ASSUME NEW n \in Nat, NEW dn, DOMAIN dn = 1 .. n, NEW r
  PROVE  /\ Coming(r, dn) \in Nat
         /\ IsFiniteSet({i \in DOMAIN dn : dn[i] = Payload(r)})
         /\ Coming(r, dn) = 0 <=> \A i \in DOMAIN dn : dn[i] # Payload(r)
<1> DEFINE S == {i \in 1 .. n : dn[i] = Payload(r)}
<1>1. IsFiniteSet(S)
  BY FS_Interval, FS_Subset
<1>2. Coming(r, dn) = Cardinality(S)
  BY DEF Coming
<1>3. Cardinality(S) \in Nat /\ (Cardinality(S) = 0 <=> S = {})
  BY <1>1, FS_CardinalityType, FS_EmptySet
<1>4. QED
  BY <1>1, <1>2, <1>3

\* One packet more.
LEMMA ComingExtends ==
  ASSUME NEW n \in Nat, NEW dn, NEW dm, DOMAIN dn = 1 .. n, DOMAIN dm = 1 .. n + 1,
         \A i \in 1 .. n : dm[i] = dn[i], NEW r
  PROVE  Coming(r, dm) = Coming(r, dn) + (IF dm[n + 1] = Payload(r) THEN 1 ELSE 0)
<1> DEFINE S == {i \in DOMAIN dn : dn[i] = Payload(r)}
           T == {i \in DOMAIN dm : dm[i] = Payload(r)}
<1>1. IsFiniteSet(S) /\ Cardinality(S) \in Nat /\ n + 1 \notin S
  BY ComingCounts DEF Coming
<1>2. T = IF dm[n + 1] = Payload(r) THEN S \cup {n + 1} ELSE S
  OBVIOUS
<1>3. Cardinality(S \cup {n + 1}) = Cardinality(S) + 1
  BY <1>1, FS_AddElement
<1>4. Coming(r, dm) = Cardinality(T) /\ Coming(r, dn) = Cardinality(S)
  BY DEF Coming
<1> HIDE DEF S, T
<1>5. QED
  BY <1>1, <1>2, <1>3, <1>4

\* The first packet is taken.
LEMMA ComingShifts ==
  ASSUME NEW n \in Nat \ {0}, NEW dn, NEW dm, DOMAIN dn = 1 .. n, DOMAIN dm = 1 .. n - 1,
         \A i \in 1 .. n - 1 : dm[i] = dn[i + 1], NEW r
  PROVE  Coming(r, dn) = Coming(r, dm) + (IF dn[1] = Payload(r) THEN 1 ELSE 0)
<1> DEFINE S == {i \in DOMAIN dn : dn[i] = Payload(r)}
           T == {i \in DOMAIN dm : dm[i] = Payload(r)}
           f == [i \in T |-> i + 1]
<1>1. IsFiniteSet(S) /\ Cardinality(S) \in Nat
  BY n \in Nat, ComingCounts DEF Coming
<1>2. IsFiniteSet(T) /\ Cardinality(T) \in Nat
  BY n - 1 \in Nat, ComingCounts DEF Coming
<1>3. f \in Bijection(T, S \ {1})
  <2>1. f \in [T -> S \ {1}]
    OBVIOUS
  <2>2. \A i, j \in T : f[i] = f[j] => i = j
    OBVIOUS
  <2>3. \A j \in S \ {1} : \E i \in T : f[i] = j
    <3>1. SUFFICES ASSUME NEW j \in S \ {1} PROVE j - 1 \in T /\ f[j - 1] = j
      OBVIOUS
    <3>2. j - 1 \in T
      OBVIOUS
    <3>3. QED
      BY <3>2
  <2>4. QED
    <3> HIDE DEF S, T, f
    <3>1. QED
      BY <2>1, <2>2, <2>3 DEF Bijection, Injection, Surjection, IsInjective
<1>4. Cardinality(S \ {1}) = Cardinality(T)
  BY <1>2, <1>3, FS_Bijection DEF ExistsBijection
<1>5. Cardinality(S \ {1}) = IF 1 \in S THEN Cardinality(S) - 1 ELSE Cardinality(S)
  BY <1>1, FS_RemoveElement
<1>6. 1 \in S <=> dn[1] = Payload(r)
  OBVIOUS
<1>7. Coming(r, dn) = Cardinality(S) /\ Coming(r, dm) = Cardinality(T)
  BY DEF Coming
<1> HIDE DEF S, T
<1>8. QED
  BY <1>1, <1>2, <1>4, <1>5, <1>6, <1>7

\* What the packets from the camera look like, and how many carry data.
LEMMA DownCounts ==
  ASSUME LinkInv
  PROVE  /\ DOMAIN down = 1 .. Len(down) /\ Len(down) \in Nat
         /\ \A r : /\ Coming(r, down) \in Nat
                   /\ Coming(r, down) = 0 <=> \A i \in DOMAIN down : down[i] # Payload(r)
<1>1. DOMAIN down = 1 .. Len(down) /\ Len(down) \in Nat
  BY LenProperties DEF LinkInv, LinkTyped
<1>2. QED
  BY <1>1, ComingCounts

\* Nothing comes to a realm that is not open, nor was answered there.
LEMMA QuietBeforeOpen ==
  ASSUME ControlInv, LinkInv, NEW c \in Clients, conn[c].pc # "open",
         NEW r \in Realms, \A d \in Clients : conn[d].realm = r => d = c
  PROVE  Coming(r, down) = 0 /\ camera[r].answered = 0
<1>1. ~Opened(r, conn)
  BY DEF Opened
<1>2. camera[r].answered = 0
  BY <1>1 DEF LinkInv, CameraOwned
<1>3. \A i \in DOMAIN down : down[i] # Payload(r)
  BY <1>1 DEF LinkInv, PacketsOwned, PacketOwned, Payload
<1>4. QED
  BY <1>2, <1>3, DownCounts

\* The realm of a connection that has one is its own.
LEMMA OwnRealm ==
  ASSUME ControlInv, NEW c \in Clients, conn[c].realm # None
  PROVE  /\ conn[c].realm \in Realms
         /\ \A d \in Clients : conn[d].realm = conn[c].realm => d = c
BY DEF ControlInv, TasksTyped, LooseConnection, RealmsDiffer

\* A step that moves none of a connection's payloads.
LEMMA CountFrame ==
  ASSUME ControlInv, NEW d \in Clients, Accounted(d), exited => exited',
         /\ conn'[d].realm = conn[d].realm /\ conn'[d].writer = conn[d].writer
         /\ conn'[d].rx = conn[d].rx /\ conn'[d].got = conn[d].got,
         conn[d].realm # None =>
           /\ Coming(conn[d].realm, down') = Coming(conn[d].realm, down)
           /\ camera'[conn[d].realm].answered = camera[conn[d].realm].answered
           /\ Over(conn[d].realm, camera) => Over(conn[d].realm, camera')
           /\ d \in OnvifClients /\ HasChannel(d) =>
                channels'[conn[d].realm] = d \/ exited'
  PROVE  Accounted(d)'
<1>1. PayloadsCounted(d)'
  BY DEF Accounted, PayloadsCounted, Known
<1>2. ChannelOutlivesPayloads(d)'
  <2>1. SUFFICES ASSUME d \in OnvifClients, conn[d].realm # None, conn[d].writer # "done",
                        channels'[conn[d].realm] # d, ~exited'
                 PROVE  Over(conn[d].realm, camera') /\ Coming(conn[d].realm, down') = 0
    BY DEF ChannelOutlivesPayloads, HasChannel, Over
  <2>2. QED
    BY <2>1 DEF Accounted, ChannelOutlivesPayloads
<1>3. FlushedIsWhole(d)'
  <2>1. SUFFICES ASSUME d \in Framed, conn[d].writer \in {"flush", "done"}
                 PROVE  \/ conn[d].got = Parts
                        \/ /\ Over(conn[d].realm, camera')
                           /\ conn[d].got = camera'[conn[d].realm].answered
    BY DEF FlushedIsWhole, Over
  <2>2. conn[d].realm # None
    BY <2>1 DEF ControlInv, PhasesAgree, InPhase
  <2>3. QED
    BY <2>1, <2>2 DEF Accounted, FlushedIsWhole
<1>4. QED
  BY <1>1, <1>2, <1>3 DEF Accounted

\* A step of a task: it changes at most one connection and touches no packet
\* from the camera.
LEMMA TaskFrame ==
  ASSUME ControlInv, CountInv, NEW c \in Clients, UNCHANGED <<down, camera>>,
         exited => exited',
         \A d \in Clients \ {c} : conn'[d] = conn[d],
         \A r \in Realms : channels'[r] = channels[r] \/ r = conn[c].realm \/ IsFresh(r)
  PROVE  \A d \in Clients \ {c} : Accounted(d)'
<1>1. SUFFICES ASSUME NEW d \in Clients \ {c} PROVE Accounted(d)'
  OBVIOUS
<1>2. conn[d].realm # None => channels'[conn[d].realm] = channels[conn[d].realm]
  BY OwnRealm DEF IsFresh
<1>3. QED
  BY <1>1, <1>2, CountFrame DEF CountInv, HasChannel

\* handle_client and process_reader before a connection opens, and after.
LEMMA HandlerKeepsCount ==
  ASSUME ControlInv, LinkInv, CountInv, NEW c \in Clients, Accept(c) \/ HandlerStep(c)
  PROVE  CountInv'
<1>0. conn \in [Clients -> LooseConnection] /\ channels \in [Realms -> Clients \cup {None}]
  BY DEF ControlInv, TasksTyped
<1>1. CASE Accept(c) \/ AcquireSlot(c) \/ SendConnect(c)
  <2>1. UNCHANGED <<down, camera, channels, exited>>
    BY <1>1 DEF Accept, AcquireSlot, SendConnect, linkVars
  <2>2. \A d \in Clients :
          /\ conn'[d].realm = conn[d].realm /\ conn'[d].writer = conn[d].writer
          /\ conn'[d].rx = conn[d].rx /\ conn'[d].got = conn[d].got
    <3>1. CASE Accept(c)
      BY <1>0, <3>1 DEF Accept, LooseConnection
    <3>2. CASE AcquireSlot(c)
      BY <1>0, <3>2 DEF AcquireSlot, LooseConnection
    <3>3. CASE SendConnect(c)
      BY <1>0, <3>3 DEF SendConnect, LooseConnection
    <3>4. QED
      BY <1>1, <3>1, <3>2, <3>3
  <2>3. QED
    BY <2>1, <2>2, CountFrame DEF CountInv, HasChannel
<1>2. CASE Register(c)
  <2>1. PICK r \in Realms :
          /\ IsFresh(r)
          /\ conn' = [conn EXCEPT ![c].pc = "connect", ![c].realm = r]
          /\ channels' = [channels EXCEPT ![r] = c]
    BY <1>2 DEF Register
  <2>2. UNCHANGED <<down, camera, exited>> /\ conn[c].pc = "register"
    BY <1>2 DEF Register, linkVars
  <2>3. \A d \in Clients \ {c} : Accounted(d)'
    BY <1>0, <2>1, <2>2, TaskFrame
  <2>4. Coming(r, down) = 0 /\ camera[r].answered = 0
    BY <2>1, <2>2, QuietBeforeOpen DEF IsFresh
  <2>5. conn[c].writer = "idle" /\ conn[c].rx = 0 /\ conn[c].got = 0
    BY <2>2 DEF ControlInv, PhasesAgree, InPhase
  <2>6. /\ conn'[c].realm = r /\ conn'[c].writer = "idle"
        /\ conn'[c].rx = 0 /\ conn'[c].got = 0
    BY <1>0, <2>1, <2>5 DEF LooseConnection
  <2>7. channels'[r] = c
    BY <1>0, <2>1
  <2>8. Accounted(c)'
    BY <2>2, <2>4, <2>6, <2>7
    DEF Accounted, PayloadsCounted, ChannelOutlivesPayloads, FlushedIsWhole, Known, HasChannel
  <2>9. QED
    BY <2>3, <2>8 DEF CountInv
<1>3. CASE Open(c)
  <2>1. /\ conn[c].pc = "await" /\ UNCHANGED <<down, camera, channels, exited>>
        /\ conn' = [conn EXCEPT ![c].pc = "open", ![c].reader = "read", ![c].writer = "recv"]
    BY <1>3 DEF Open, linkVars
  <2>2. \A d \in Clients \ {c} : Accounted(d)'
    BY <1>0, <2>1, TaskFrame
  <2>3. /\ conn[c].realm # None /\ conn[c].writer = "idle"
        /\ conn[c].rx = 0 /\ conn[c].got = 0
    BY <2>1 DEF ControlInv, PhasesAgree, InPhase
  <2>4. Coming(conn[c].realm, down) = 0 /\ camera[conn[c].realm].answered = 0
    BY <2>1, <2>3, OwnRealm, QuietBeforeOpen
  <2>5. /\ conn'[c].realm = conn[c].realm /\ conn'[c].writer = "recv"
        /\ conn'[c].rx = 0 /\ conn'[c].got = 0
    BY <1>0, <2>1, <2>3 DEF LooseConnection
  <2>6. PayloadsCounted(c)' /\ FlushedIsWhole(c)'
    BY <2>1, <2>4, <2>5 DEF PayloadsCounted, FlushedIsWhole, Known
  <2>7. ChannelOutlivesPayloads(c)'
    BY <2>1, <2>3, <2>5 DEF CountInv, Accounted, ChannelOutlivesPayloads, HasChannel, Over
  <2>8. QED
    BY <2>2, <2>6, <2>7 DEF CountInv, Accounted
<1>4. CASE BindFails(c)
  <2>1. exited' /\ UNCHANGED <<down, camera, conn>>
    BY <1>4 DEF BindFails, linkVars
  <2>2. QED
    BY <2>1, CountFrame DEF CountInv
<1>5. QED
  BY <1>1, <1>2, <1>3, <1>4 DEF HandlerStep

\* process_reader removes the channel of an RTSP connection only.
LEMMA ReaderKeepsCount ==
  ASSUME ControlInv, CountInv, NEW c \in Clients,
         ReadData(c) \/ ReadEnds(c) \/ ReaderSends(c)
  PROVE  CountInv'
<1>0. conn \in [Clients -> LooseConnection] /\ channels \in [Realms -> Clients \cup {None}]
  BY DEF ControlInv, TasksTyped
<1>1. UNCHANGED <<down, camera, exited>>
  BY DEF ReadData, ReadEnds, ReaderSends, SendData, SendDisconnect, RemoveChannel,
         taskVars, linkVars
<1>2. \A d \in Clients :
        /\ conn'[d].realm = conn[d].realm /\ conn'[d].writer = conn[d].writer
        /\ conn'[d].rx = conn[d].rx /\ conn'[d].got = conn[d].got
  <2>1. CASE ReadData(c)
    BY <1>0, <2>1 DEF ReadData, LooseConnection
  <2>2. CASE ReadEnds(c)
    BY <1>0, <2>2 DEF ReadEnds, LooseConnection
  <2>3. CASE SendData(c)
    BY <1>0, <2>3 DEF SendData, LooseConnection
  <2>4. CASE SendDisconnect(c)
    BY <1>0, <2>4 DEF SendDisconnect, LooseConnection
  <2>5. CASE RemoveChannel(c)
    BY <1>0, <2>5 DEF RemoveChannel, LooseConnection
  <2>6. QED
    BY <2>1, <2>2, <2>3, <2>4, <2>5 DEF ReaderSends
<1>3. \A d \in OnvifClients : conn[d].realm # None =>
        channels'[conn[d].realm] = channels[conn[d].realm]
  <2>1. CASE RemoveChannel(c)
    <3>1. c \in RtspClients /\ channels' = [channels EXCEPT ![conn[c].realm] = None]
      BY <2>1 DEF RemoveChannel, ControlInv, PhasesAgree, InPhase
    <3>2. SUFFICES ASSUME NEW d \in OnvifClients, conn[d].realm # None
                   PROVE  conn[d].realm # conn[c].realm /\ conn[d].realm \in Realms
      BY <1>0, <3>1
    <3>3. d \in Clients /\ d # c
      BY <3>1, ClientAssumption DEF Clients
    <3>4. QED
      BY <3>2, <3>3, OwnRealm
  <2>2. CASE channels' = channels
    BY <2>2
  <2>3. QED
    BY <2>1, <2>2 DEF ReadData, ReadEnds, ReaderSends, SendData, SendDisconnect, taskVars
<1>4. QED
  BY <1>1, <1>2, <1>3, CountFrame DEF CountInv, HasChannel

\* process_writer: what it takes stays accounted for, and it ends a response
\* when it is complete or when nothing more can come.
LEMMA WriterKeepsCount ==
  ASSUME ControlInv, LinkInv, CountInv, NEW c \in Clients, WriterStep(c)
  PROVE  CountInv'
<1>0. /\ conn \in [Clients -> LooseConnection] /\ channels \in [Realms -> Clients \cup {None}]
      /\ conn[c] \in LooseConnection
  BY DEF ControlInv, TasksTyped
<1>1. /\ UNCHANGED <<down, camera, exited>> /\ ~exited
      /\ \A d \in Clients \ {c} : conn'[d] = conn[d]
      /\ \A r \in Realms : channels'[r] = channels[r] \/ r = conn[c].realm
      /\ conn[c].writer \in {"recv", "flush"}
  BY <1>0 DEF WriterStep, TakePayload, ChannelClosed, WriteFails, FlushResponse, taskVars, linkVars
<1>2. \A d \in Clients \ {c} : Accounted(d)'
  BY <1>1, TaskFrame
<1>3. conn[c].realm # None /\ conn[c].realm \in Realms
  BY <1>0, <1>1 DEF ControlInv, PhasesAgree, InPhase, LooseConnection
<1>4. Coming(conn[c].realm, down) \in Nat /\ conn[c].rx \in Nat /\ conn[c].got \in Nat
  BY <1>0, DownCounts DEF LooseConnection
<1>5. camera[conn[c].realm].answered \in Nat
  BY <1>3 DEF LinkInv, LinkTyped, CameraRealm
<1>6. Accounted(c)
  BY DEF CountInv
<1>7. CASE TakePayload(c)
  <2>1. /\ conn'[c].realm = conn[c].realm
        /\ conn'[c].rx = conn[c].rx - 1 /\ conn'[c].got = conn[c].got + 1
        /\ conn[c].writer = "recv" /\ channels' = channels
        /\ conn'[c].writer \in {"recv", "flush"}
        /\ c \in Framed /\ conn'[c].writer = "flush" => conn[c].got + 1 = Parts
    BY <1>0, <1>7 DEF TakePayload, LooseConnection, ResponseComplete, taskVars
  <2>2. Known(c)' = Known(c)
    BY <1>1, <1>4, <2>1 DEF Known
  <2>3. PayloadsCounted(c)'
    BY <1>1, <1>6, <2>1, <2>2 DEF Accounted, PayloadsCounted
  <2>4. ChannelOutlivesPayloads(c)'
    BY <1>1, <1>6, <2>1 DEF Accounted, ChannelOutlivesPayloads, HasChannel, Over
  <2>5. FlushedIsWhole(c)'
    BY <2>1 DEF FlushedIsWhole
  <2>6. QED
    BY <1>2, <2>3, <2>4, <2>5 DEF CountInv, Accounted
<1>8. CASE ChannelClosed(c)
  <2>1. /\ conn'[c].realm = conn[c].realm
        /\ conn'[c].rx = conn[c].rx /\ conn'[c].got = conn[c].got
        /\ conn[c].writer = "recv" /\ conn[c].rx = 0 /\ channels' = channels /\ ~HasChannel(c)
        /\ conn'[c].writer = IF c \in OnvifClients THEN "flush" ELSE "done"
    BY <1>0, <1>8 DEF ChannelClosed, LooseConnection, taskVars
  <2>2. PayloadsCounted(c)'
    BY <1>1, <1>6, <2>1 DEF Accounted, PayloadsCounted, Known
  <2>3. ChannelOutlivesPayloads(c)'
    BY <1>1, <1>6, <2>1 DEF Accounted, ChannelOutlivesPayloads, HasChannel, Over
  <2>4. FlushedIsWhole(c)'
    <3>1. SUFFICES ASSUME c \in Framed
                   PROVE  /\ Over(conn[c].realm, camera)
                          /\ conn[c].got = camera[conn[c].realm].answered
      BY <1>1, <2>1 DEF FlushedIsWhole, Over
    <3>2. c \in OnvifClients
      BY <3>1, ClientAssumption
    <3>3. Over(conn[c].realm, camera) /\ Coming(conn[c].realm, down) = 0
      BY <1>1, <1>3, <1>6, <2>1, <3>2 DEF Accounted, ChannelOutlivesPayloads
    <3>4. Known(c) = camera[conn[c].realm].answered
      BY <1>3, <1>6, <2>1, <3>2 DEF Accounted, PayloadsCounted
    <3>5. QED
      BY <1>4, <2>1, <3>3, <3>4 DEF Known
  <2>5. QED
    BY <1>2, <2>2, <2>3, <2>4 DEF CountInv, Accounted
<1>9. CASE WriteFails(c) \/ FlushResponse(c)
  <2>1. /\ conn'[c].realm = conn[c].realm
        /\ conn'[c].rx = 0 /\ conn'[c].got = conn[c].got /\ conn'[c].writer = "done"
        /\ c \in Framed => conn[c].writer = "flush"
    <3>1. CASE WriteFails(c)
      BY <1>0, <3>1, ClientAssumption DEF WriteFails, LooseConnection
    <3>2. CASE FlushResponse(c)
      BY <1>0, <3>2 DEF FlushResponse, LooseConnection
    <3>3. QED
      BY <1>9, <3>1, <3>2
  <2>2. PayloadsCounted(c)'
    <3>1. Known(c) <= camera[conn[c].realm].answered
      BY <1>3, <1>6 DEF Accounted, PayloadsCounted
    <3>2. Known(c)' <= camera[conn[c].realm].answered
      BY <1>1, <1>4, <1>5, <2>1, <3>1 DEF Known
    <3>3. QED
      BY <1>1, <2>1, <3>2 DEF PayloadsCounted
  <2>3. ChannelOutlivesPayloads(c)' /\ FlushedIsWhole(c)'
    BY <1>1, <1>6, <2>1 DEF Accounted, ChannelOutlivesPayloads, FlushedIsWhole, Over
  <2>4. QED
    BY <1>2, <2>2, <2>3 DEF CountInv, Accounted
<1>10. QED
  BY <1>7, <1>8, <1>9 DEF WriterStep

\* dh_reader: a payload moves from the session to the channel of its realm, and
\* a DISC comes behind the last one.
LEMMA DispatchKeepsCount ==
  ASSUME ControlInv, LinkInv, CountInv, Dispatch
  PROVE  CountInv'
<1>1. PICK r \in Realms : ReceiveConn(r) \/ ReceiveDisc(r) \/ ReceivePayload(r)
  BY DEF Dispatch
<1>2. PICK kind \in {"conn", "disc", "data"} :
        /\ Incoming(kind, r)
        /\ kind = "conn" => ReceiveConn(r)
        /\ kind = "disc" => ReceiveDisc(r)
        /\ kind = "data" => ReceivePayload(r)
  BY <1>1 DEF ReceiveConn, ReceiveDisc, ReceivePayload
<1>3. /\ DOMAIN down = 1 .. Len(down) /\ Len(down) \in Nat \ {0}
      /\ DOMAIN down' = 1 .. Len(down) - 1
      /\ \A i \in 1 .. Len(down) - 1 : down'[i] = down[i + 1]
      /\ down[1] = [kind |-> kind, realm |-> r]
  BY <1>2, IncomingShifts DEF LinkInv
<1>4. \A q : Coming(q, down) = Coming(q, down') + (IF kind = "data" /\ q = r THEN 1 ELSE 0)
  <2>1. \A q : Coming(q, down) = Coming(q, down') + (IF down[1] = Payload(q) THEN 1 ELSE 0)
    BY <1>3, ComingShifts
  <2>2. \A q : down[1] = Payload(q) <=> kind = "data" /\ q = r
    BY <1>3 DEF Payload
  <2>3. QED
    BY <2>1, <2>2
<1>5. \A q : Coming(q, down) \in Nat /\ Coming(q, down') \in Nat
  <2>1. Len(down) - 1 \in Nat
    BY <1>3
  <2>2. QED
    BY <1>3, <2>1, ComingCounts, DownCounts
<1>6. /\ \A d \in Clients :
           /\ conn'[d].realm = conn[d].realm /\ conn'[d].writer = conn[d].writer
           /\ conn'[d].got = conn[d].got
           /\ conn'[d].rx = IF ReceivePayload(r) /\ d = channels[r] /\ conn[d].writer # "done"
                            THEN conn[d].rx + 1 ELSE conn[d].rx
      /\ UNCHANGED <<camera, exited>> /\ ~exited
  BY <1>1, DispatchTouches DEF ReceiveConn, ReceiveDisc, ReceivePayload, Incoming, taskVars
<1>7. channels \in [Realms -> Clients \cup {None}] /\ conn \in [Clients -> LooseConnection]
  BY DEF ControlInv, TasksTyped
<1>8. CASE kind = "conn"
  <2>1. ~ReceivePayload(r) /\ channels' = channels
    BY <1>2, <1>8 DEF ReceiveConn, ReceivePayload, Incoming
  <2>2. \A q : Coming(q, down') = Coming(q, down)
    BY <1>4, <1>5, <1>8
  <2>3. QED
    BY <1>6, <2>1, <2>2, CountFrame DEF CountInv, HasChannel
<1>9. CASE kind = "disc"
  <2>1. ~ReceivePayload(r) /\ channels' = [channels EXCEPT ![r] = None]
    BY <1>2, <1>9 DEF ReceiveDisc, ReceivePayload, Incoming
  <2>2. \A q : Coming(q, down') = Coming(q, down)
    BY <1>4, <1>5, <1>9
  <2>3. Over(r, camera) /\ Coming(r, down) = 0
    <3>1. /\ Over(r, camera)
          /\ \A j \in DOMAIN down : j > 1 => down[j] # Payload(r)
      BY <1>3, <1>9 DEF LinkInv, DiscIsLast, Payload
    <3>2. down[1] # Payload(r)
      BY <1>3, <1>9 DEF Payload
    <3>3. \A j \in DOMAIN down : down[j] # Payload(r)
      BY <1>3, <3>1, <3>2
    <3>4. QED
      BY <3>1, <3>3, DownCounts
  <2>4. SUFFICES ASSUME NEW d \in Clients PROVE Accounted(d)'
    BY DEF CountInv
  <2>5. CASE conn[d].realm # r
    <3>1. conn[d].realm # None => channels'[conn[d].realm] = channels[conn[d].realm]
      BY <1>7, <2>1, <2>5
    <3>2. QED
      BY <1>6, <2>1, <2>2, <3>1, CountFrame DEF CountInv, HasChannel
  <2>6. CASE conn[d].realm = r
    <3>1. Known(d)' = Known(d)
      BY <1>6, <2>1, <2>2 DEF Known
    <3>2. PayloadsCounted(d)'
      BY <1>6, <3>1 DEF CountInv, Accounted, PayloadsCounted
    <3>3. ChannelOutlivesPayloads(d)'
      BY <1>6, <2>2, <2>3, <2>6 DEF ChannelOutlivesPayloads, Over
    <3>4. FlushedIsWhole(d)'
      BY <1>6 DEF CountInv, Accounted, FlushedIsWhole, Over
    <3>5. QED
      BY <3>2, <3>3, <3>4 DEF Accounted
  <2>7. QED
    BY <2>5, <2>6
<1>10. CASE kind = "data"
  <2>1. ReceivePayload(r) /\ channels' = channels
    BY <1>2, <1>10 DEF ReceivePayload, taskVars
  <2>2. SUFFICES ASSUME NEW d \in Clients PROVE Accounted(d)'
    BY DEF CountInv
  <2>3. Accounted(d) /\ conn[d] \in LooseConnection
    BY <1>7 DEF CountInv
  <2>4. CASE conn[d].realm # r
    <3>1. d # channels[r]
      BY <2>4, ClientAssumption DEF ControlInv, NoForgottenChannel, Clients
    <3>2. Coming(conn[d].realm, down') = Coming(conn[d].realm, down)
      BY <1>4, <1>5, <2>4
    <3>3. QED
      BY <1>6, <2>1, <2>3, <3>1, <3>2, CountFrame DEF HasChannel
  <2>5. CASE conn[d].realm = r
    <3>1. /\ Coming(r, down') \in Nat /\ Coming(r, down) = Coming(r, down') + 1
          /\ conn[d].rx \in Nat /\ conn[d].got \in Nat /\ camera[r].answered \in Nat
          /\ r # None
      BY <1>4, <1>5, <1>10, <2>3, ClientAssumption
      DEF LooseConnection, LinkInv, LinkTyped, CameraRealm
    <3>2. conn'[d].rx \in {conn[d].rx, conn[d].rx + 1}
      BY <1>6
    <3>3. Known(d) <= camera[r].answered
      BY <2>3, <2>5, <3>1 DEF Accounted, PayloadsCounted
    <3>4. Known(d)' <= camera[r].answered
      BY <1>6, <2>5, <3>1, <3>2, <3>3 DEF Known
    <3>5. ASSUME d \in OnvifClients, conn[d].writer = "recv"
          PROVE  Known(d)' = camera[r].answered
      <4>1. HasChannel(d)
        <5>1. Coming(r, down) # 0
          BY <3>1
        <5>2. QED
          BY <1>6, <2>3, <2>5, <3>1, <3>5, <5>1 DEF Accounted, ChannelOutlivesPayloads
      <4>2. conn'[d].rx = conn[d].rx + 1
        BY <1>6, <2>1, <2>5, <3>5, <4>1 DEF HasChannel
      <4>3. Known(d) = camera[r].answered
        BY <2>3, <2>5, <3>1, <3>5 DEF Accounted, PayloadsCounted
      <4>4. QED
        BY <1>6, <2>5, <3>1, <4>2, <4>3 DEF Known
    <3>6. PayloadsCounted(d)'
      BY <1>6, <2>5, <3>4, <3>5 DEF PayloadsCounted
    <3>7. ChannelOutlivesPayloads(d)'
      BY <1>6, <2>1, <2>3, <2>5, <3>1
      DEF Accounted, ChannelOutlivesPayloads, HasChannel, Over
    <3>8. FlushedIsWhole(d)'
      BY <1>6, <2>3 DEF Accounted, FlushedIsWhole, Over
    <3>9. QED
      BY <3>6, <3>7, <3>8 DEF Accounted
  <2>6. QED
    BY <2>4, <2>5
<1>11. QED
  BY <1>8, <1>9, <1>10

\* The camera's replies: only an answer carries data, and a realm it has closed
\* answers nothing.
LEMMA ReplyKeepsCount ==
  ASSUME ControlInv, LinkInv, CountInv, UNCHANGED <<conn, channels, exited>>,
         NEW r \in Realms, NEW kind \in {"conn", "disc"}, Replies(r, kind),
         \A q \in Realms : /\ camera'[q].answered = camera[q].answered
                           /\ Over(q, camera) => Over(q, camera')
  PROVE  CountInv'
<1>1. /\ DOMAIN down = 1 .. Len(down) /\ Len(down) \in Nat
      /\ DOMAIN down' = 1 .. Len(down) + 1
      /\ \A i \in 1 .. Len(down) : down'[i] = down[i]
      /\ down'[Len(down) + 1] = [kind |-> kind, realm |-> r]
  BY ReplyExtends DEF LinkInv
<1>2. \A q : down'[Len(down) + 1] # Payload(q)
  BY <1>1 DEF Payload
<1>3. \A q : Coming(q, down') = Coming(q, down)
  <2>1. \A q : Coming(q, down) \in Nat
    BY DownCounts
  <2>2. \A q : Coming(q, down') =
                 Coming(q, down) + (IF down'[Len(down) + 1] = Payload(q) THEN 1 ELSE 0)
    BY <1>1, ComingExtends
  <2>3. QED
    BY <1>2, <2>1, <2>2
<1>4. QED
  BY <1>3, OwnRealm, CountFrame DEF CountInv, HasChannel

\* An answer is one payload more on its way.
LEMMA CameraSpeaksKeepsCount ==
  ASSUME ControlInv, LinkInv, CountInv, NEW r \in Realms, CameraAnswers(r) \/ CameraCloses(r)
  PROVE  CountInv'
<1>0. camera \in [Realms -> CameraRealm]
  BY DEF LinkInv, LinkTyped
<1>1. CASE CameraCloses(r)
  <2>1. \A q \in Realms : /\ camera'[q].answered = camera[q].answered
                          /\ Over(q, camera) => Over(q, camera')
    BY <1>0, <1>1 DEF CameraCloses, CameraRealm, Over
  <2>2. QED
    BY <1>1, <2>1, ReplyKeepsCount DEF CameraCloses, taskVars
<1>2. CASE CameraAnswers(r)
  <2>1. /\ UNCHANGED <<conn, channels, exited>> /\ camera[r].state = "bound"
        /\ \A q \in Realms \ {r} : camera'[q] = camera[q]
        /\ camera'[r].answered = camera[r].answered + 1
        /\ Replies(r, "data") /\ camera[r].answered \in Nat
    BY <1>0, <1>2 DEF CameraAnswers, CameraRealm, taskVars
  <2>2. /\ DOMAIN down = 1 .. Len(down) /\ Len(down) \in Nat
        /\ DOMAIN down' = 1 .. Len(down) + 1
        /\ \A i \in 1 .. Len(down) : down'[i] = down[i]
        /\ down'[Len(down) + 1] = Payload(r)
    BY <2>1, ReplyExtends DEF LinkInv, Payload
  <2>3. \A q : /\ Coming(q, down) \in Nat
               /\ Coming(q, down') = Coming(q, down) + (IF q = r THEN 1 ELSE 0)
    <3>1. \A q : Payload(r) = Payload(q) <=> q = r
      BY DEF Payload
    <3>2. \A q : Coming(q, down) \in Nat
      BY DownCounts
    <3>3. \A q : Coming(q, down') =
                   Coming(q, down) + (IF down'[Len(down) + 1] = Payload(q) THEN 1 ELSE 0)
      BY <2>2, ComingExtends
    <3>4. QED
      BY <2>2, <3>1, <3>2, <3>3
  <2>4. SUFFICES ASSUME NEW d \in Clients PROVE Accounted(d)'
    BY DEF CountInv
  <2>5. Accounted(d)
    BY DEF CountInv
  <2>6. CASE conn[d].realm # r
    <3>1. conn[d].realm # None =>
            /\ Coming(conn[d].realm, down') = Coming(conn[d].realm, down)
            /\ camera'[conn[d].realm] = camera[conn[d].realm]
      BY <2>1, <2>3, <2>6, OwnRealm
    <3>2. QED
      BY <2>1, <2>5, <3>1, CountFrame DEF HasChannel, Over
  <2>7. CASE conn[d].realm = r
    <3>1. /\ conn[d].rx \in Nat /\ conn[d].got \in Nat /\ r # None
          /\ ~Over(r, camera)
      BY <2>1, ClientAssumption DEF ControlInv, TasksTyped, LooseConnection, Over
    <3>2. Known(d)' = Known(d) + 1 /\ Known(d) \in Nat
      BY <2>1, <2>3, <2>7, <3>1 DEF Known
    <3>3. PayloadsCounted(d)'
      BY <2>1, <2>5, <2>7, <3>1, <3>2 DEF Accounted, PayloadsCounted
    <3>4. ChannelOutlivesPayloads(d)'
      BY <2>1, <2>5, <2>7, <3>1 DEF Accounted, ChannelOutlivesPayloads, HasChannel, Over
    <3>5. FlushedIsWhole(d)'
      BY <2>1, <2>5, <2>7, <3>1 DEF Accounted, FlushedIsWhole, Over
    <3>6. QED
      BY <3>3, <3>4, <3>5 DEF Accounted
  <2>8. QED
    BY <2>6, <2>7
<1>3. QED
  BY <1>1, <1>2

\* Taking an event answers nothing: the answer to a Bind starts from zero in a
\* realm that had none.
LEMMA CameraTakesKeepsCount ==
  ASSUME ControlInv, LinkInv, CountInv, CameraTakes
  PROVE  CountInv'
<1> DEFINE r == Head(up).realm
           k == Head(up).kind
<1>1. UNCHANGED <<conn, channels, exited>> /\ camera \in [Realms -> CameraRealm]
  BY DEF CameraTakes, taskVars, LinkInv, LinkTyped
<1>2. k \in {"bind", "data", "disc", "heartbeat"} /\ 1 \in DOMAIN Sent /\ Sent[1] = Head(up)
  <2>1. Sent[1] = Head(up) /\ Len(Sent) \in Nat \ {0} /\ Sent[1] \in Event
    BY TakingShifts DEF CameraTakes, taskVars, LinkInv
  <2>2. QED
    BY <2>1, SentTyped DEF Event, LinkInv
<1>3. k # "heartbeat" => r \in Realms
  BY <1>2, RealmsKnown
<1>4. k = "bind" => camera[r].state = "none" /\ camera[r].answered = 0
  <2>1. SUFFICES ASSUME k = "bind" PROVE camera[r].state = "none" /\ camera[r].answered = 0
    OBVIOUS
  <2>2. camera[r].state = "none" /\ EventOwned(Sent[1], conn)
    BY <1>2, <2>1 DEF LinkInv, EventsInOrder, EventsOwned
  <2>3. PICK c \in Clients : conn[c].realm = r /\ conn[c].pc = "await"
    BY <1>2, <2>1, <2>2 DEF EventOwned
  <2>4. \A d \in Clients : conn[d].realm = r => d = c
    BY <1>3, <2>1, <2>3, OwnRealm, ClientAssumption
  <2>5. QED
    BY <1>3, <2>1, <2>2, <2>3, <2>4, QuietBeforeOpen
<1>5. CASE k = "bind" /\ ~UNCHANGED <<down, camera>>
  <2>1. PICK kind \in {"conn", "disc"} :
          /\ Replies(r, kind)
          /\ IF kind = "conn"
             THEN camera' = [camera EXCEPT
                    ![r] = [state |-> "bound", asked |-> FALSE, answered |-> 0]]
             ELSE camera' = [camera EXCEPT ![r].state = "closed"]
    BY <1>5 DEF CameraTakes
  <2>2. \A q \in Realms : /\ camera'[q].answered = camera[q].answered
                          /\ Over(q, camera) => Over(q, camera')
    <3> HIDE DEF r, k
    <3>1. QED
      BY <1>1, <1>3, <1>4, <1>5, <2>1 DEF CameraRealm, Over
  <2>3. QED
    BY <1>1, <1>3, <1>5, <2>1, <2>2, ReplyKeepsCount
<1>6. ASSUME down' = down,
             \A q \in Realms : /\ camera'[q].answered = camera[q].answered
                               /\ Over(q, camera) => Over(q, camera')
      PROVE  CountInv'
  BY <1>1, <1>6, OwnRealm, CountFrame DEF CountInv, HasChannel
<1>7. CASE UNCHANGED <<down, camera>>
  BY <1>6, <1>7 DEF Over
<1>8. ASSUME k \in {"data", "disc"}
      PROVE  /\ down' = down
             /\ \A q \in Realms : /\ camera'[q].answered = camera[q].answered
                                  /\ Over(q, camera) => Over(q, camera')
  <2>1. CASE k = "data"
    <3>1. down' = down /\ camera' = [camera EXCEPT ![r].asked = @ \/ camera[r].state = "bound"]
      BY <2>1 DEF CameraTakes
    <3> HIDE DEF r, k
    <3>2. QED
      BY <1>1, <3>1 DEF CameraRealm, Over
  <2>2. CASE k = "disc"
    <3>1. down' = down /\ camera' = [camera EXCEPT ![r].state = "released"]
      BY <2>2 DEF CameraTakes
    <3> HIDE DEF r, k
    <3>2. QED
      BY <1>1, <3>1 DEF CameraRealm, Over
  <2>3. QED
    BY <1>8, <2>1, <2>2
<1>9. k = "heartbeat" => UNCHANGED <<down, camera>>
  BY DEF CameraTakes
<1>10. QED
  BY <1>2, <1>5, <1>6, <1>7, <1>8, <1>9

\* Every step keeps the account.
LEMMA StepKeepsCount == ControlInv /\ LinkInv /\ CountInv /\ [Next]_vars => CountInv'
<1> SUFFICES ASSUME ControlInv, LinkInv, CountInv, [Next]_vars PROVE CountInv'
  OBVIOUS
<1>1. ASSUME NEW c \in Clients, Accept(c) \/ HandlerStep(c) PROVE CountInv'
  BY <1>1, HandlerKeepsCount
<1>2. ASSUME NEW c \in Clients, ReadData(c) \/ ReadEnds(c) \/ ReaderSends(c) PROVE CountInv'
  BY <1>2, ReaderKeepsCount
<1>3. ASSUME NEW c \in Clients, WriterStep(c) PROVE CountInv'
  BY <1>3, WriterKeepsCount
<1>4. CASE Heartbeat \/ Transmit \/ UNCHANGED vars
  <2>1. UNCHANGED <<conn, channels, exited, down, camera>>
    BY <1>4 DEF Heartbeat, Transmit, vars, taskVars, linkVars
  <2>2. QED
    BY <2>1, CountFrame DEF CountInv, HasChannel
<1>5. CASE Dispatch
  BY <1>5, DispatchKeepsCount
<1>6. CASE CameraTakes
  BY <1>6, CameraTakesKeepsCount
<1>7. ASSUME NEW r \in Realms, CameraAnswers(r) \/ CameraCloses(r) PROVE CountInv'
  BY <1>7, CameraSpeaksKeepsCount
<1>8. QED
  BY <1>1, <1>2, <1>3, <1>4, <1>5, <1>6, <1>7 DEF Next

\* No realm, no payload.
LEMMA InitCount == Init => CountInv
BY DEF Init, CountInv, Accounted, PayloadsCounted, ChannelOutlivesPayloads, FlushedIsWhole

-----------------------------------------------------------------------------
(* The invariant, and what follows from it. *)

IInv == ControlInv /\ LinkInv /\ CountInv

\* The three layers together are inductive.
LEMMA IInvHolds == Spec => []IInv
<1>1. Init => IInv
  BY InitControl, InitLink, InitCount DEF IInv
<1>2. IInv /\ [Next]_vars => IInv'
  BY StepKeepsControl, StepKeepsLink, StepKeepsCount DEF IInv
<1>3. QED
  BY <1>1, <1>2, PTL DEF Spec

\* No more payloads reach a connection than the camera has sent.
LEMMA PayloadsBounded ==
  ASSUME IInv, NEW c \in Clients
  PROVE  conn[c] \in Connection
<1>1. conn[c] \in LooseConnection
  BY DEF IInv, ControlInv, TasksTyped
<1>2. conn[c].rx \in 0 .. Parts /\ conn[c].got \in 0 .. Parts
  <2>1. CASE conn[c].realm = None
    BY <2>1, BoundAssumption DEF IInv, ControlInv, PhasesAgree, InPhase
  <2>2. CASE conn[c].realm # None
    <3>1. /\ Coming(conn[c].realm, down) \in Nat
          /\ camera[conn[c].realm].answered \in 0 .. Parts
          /\ Known(c) <= camera[conn[c].realm].answered
      BY <2>2, OwnRealm, DownCounts
      DEF IInv, LinkInv, LinkTyped, CameraRealm, CountInv, Accounted, PayloadsCounted
    <3>2. conn[c].rx \in Nat /\ conn[c].got \in Nat
      BY <1>1 DEF LooseConnection
    <3>3. QED
      BY <3>1, <3>2, BoundAssumption DEF Known
  <2>3. QED
    BY <2>1, <2>2
<1>3. QED
  BY <1>1, <1>2
  DEF LooseConnection, Connection, HandlerPcs, ReaderPcs, WriterPcs

\* The account bounds what a connection holds.
LEMMA IInvTyped == IInv => TypeOK
<1> SUFFICES ASSUME IInv PROVE TypeOK
  OBVIOUS
<1>1. conn \in [Clients -> Connection]
  BY PayloadsBounded DEF IInv, ControlInv, TasksTyped
<1>2. down \in Seq(Packet)
  <2>1. down \in Seq(LoosePacket) /\ DOMAIN down = 1 .. Len(down)
    BY LenProperties DEF IInv, LinkInv, LinkTyped
  <2>2. \A i \in 1 .. Len(down) : down[i] \in Packet
    <3>1. \A i \in 1 .. Len(down) : down[i] \in LoosePacket
      BY <2>1, ElementOfSeq
    <3>2. \A i \in 1 .. Len(down) : down[i].realm \in Realms
      BY <2>1, RealmsKnown DEF IInv
    <3>3. QED
      BY <3>1, <3>2 DEF LoosePacket, Packet
  <2>3. QED
    BY <2>1, <2>2, LenProperties, SeqDef
<1>3. QED
  BY <1>1, <1>2 DEF IInv, ControlInv, TasksTyped, LinkInv, LinkTyped, TypeOK

\* The tables, the permit, the connections and the packets keep their types: no
\* connection takes more payloads than its response has, and no packet of the
\* session lacks a realm.
THEOREM TypeCorrect == Spec => []TypeOK
BY IInvHolds, IInvTyped, PTL

\* The permit of onvif_slots is held by exactly the one ONVIF connection in
\* service: two requests never use the session at once, and no path through
\* handle_client and process_writer loses the permit.
THEOREM OneOnvifRequest == Spec => []OnvifOneAtATime
<1>1. IInv => OnvifOneAtATime
  BY DEF IInv, ControlInv
<1>2. QED
  BY <1>1, IInvHolds, PTL

\* dh_reader's table of channels has no entry that its connection's tasks have
\* left behind.
THEOREM TableCleaned == Spec => []NoForgottenChannel
<1>1. IInv => NoForgottenChannel
  BY DEF IInv, ControlInv
<1>2. QED
  BY <1>1, IInvHolds, PTL

\* What dh_writer sends of a realm is a Bind, then data, then a Disconnect, and
\* the data only once the camera has accepted the realm.
THEOREM RealmsInOrder == Spec => []RealmProtocol
<1>1. IInv => RealmProtocol
  BY PairsMakeProtocol DEF IInv, LinkInv
<1>2. QED
  BY <1>1, IInvHolds, PTL

\* process_writer never ends a response with a Content-Length while payloads of
\* it are on their way: if the camera has sent all of it, the client has it all.
THEOREM ResponsesArriveWhole == Spec => []ResponseWhole
<1>1. IInv => ResponseWhole
  BY ClientAssumption
  DEF IInv, CountInv, Accounted, FlushedIsWhole, ResponseWhole, Clients
<1>2. QED
  BY <1>1, IInvHolds, PTL

-----------------------------------------------------------------------------
(* The ONVIF connections implement OnvifQueue: a step is one of its steps or  *)
(* changes nothing it speaks of.                                              *)

\* A step that moves no ONVIF connection into or out of the service.
LEMMA ServiceStays ==
  ASSUME \A d \in OnvifClients :
           /\ conn'[d].pc \in InServicePcs <=> conn[d].pc \in InServicePcs
           /\ conn'[d].writer = "done" <=> conn[d].writer = "done"
           /\ conn[d].writer = "done" => conn'[d].got = conn[d].got
  PROVE  UNCHANGED <<InService, Served, GivenTo>>
<1>1. InService' = InService
  BY DEF InService, InServicePcs
<1>2. Served' = Served
  BY DEF Served
<1>3. GivenTo' = GivenTo
  BY DEF GivenTo
<1>4. QED
  BY <1>1, <1>2, <1>3

\* A step that answers and closes no realm of an ONVIF connection.
LEMMA RealmsStay ==
  ASSUME \A d \in OnvifClients :
           /\ conn'[d].realm = conn[d].realm
           /\ conn[d].realm # None =>
                /\ camera'[conn[d].realm].answered = camera[conn[d].realm].answered
                /\ Over(conn[d].realm, camera') <=> Over(conn[d].realm, camera)
  PROVE  UNCHANGED <<AnsweredTo, ClosedTo>>
<1>1. AnsweredTo' = AnsweredTo
  BY DEF AnsweredTo
<1>2. ClosedTo' = ClosedTo
  BY DEF ClosedTo, Over
<1>3. QED
  BY <1>1, <1>2

\* An ONVIF connection is in service while it is open, or has been served.
LEMMA OpenIsServed ==
  ASSUME ControlInv, NEW c \in OnvifClients, conn[c].pc \in {"await", "open"}
  PROVE  c \in InService \cup Served
BY DEF InService, Served

\* A response that is in hand is all its client will be given.
LEMMA GivenWhole ==
  ASSUME IInv, NEW c \in OnvifClients, conn[c].writer \in {"flush", "done"}
  PROVE  /\ conn[c].realm # None
         /\ conn[c].got \in 0 .. AnsweredTo[c]
         /\ AnsweredTo[c] \in 0 .. Parts
         /\ c \in Framed => conn[c].got = AnsweredTo[c] /\ (conn[c].got = Parts \/ c \in ClosedTo)
<1>1. c \in Clients /\ conn[c].realm # None
  BY DEF Clients, IInv, ControlInv, PhasesAgree, InPhase
<1>2. /\ conn[c].rx \in Nat /\ conn[c].got \in Nat
      /\ Coming(conn[c].realm, down) \in Nat
      /\ camera[conn[c].realm].answered \in 0 .. Parts
  BY <1>1, OwnRealm, DownCounts
  DEF IInv, ControlInv, TasksTyped, LooseConnection, LinkInv, LinkTyped, CameraRealm
<1>3. conn[c].got <= camera[conn[c].realm].answered
  <2>1. Known(c) <= camera[conn[c].realm].answered
    BY <1>1 DEF IInv, CountInv, Accounted, PayloadsCounted
  <2>2. QED
    BY <1>2, <2>1 DEF Known
<1>4. AnsweredTo[c] = camera[conn[c].realm].answered
  BY <1>1 DEF AnsweredTo
<1>5. c \in Framed =>
        \/ conn[c].got = Parts
        \/ Over(conn[c].realm, camera) /\ conn[c].got = camera[conn[c].realm].answered
  BY <1>1 DEF IInv, CountInv, Accounted, FlushedIsWhole
<1>6. Over(conn[c].realm, camera) => c \in ClosedTo
  BY <1>1 DEF ClosedTo, Over
<1>7. QED
  BY <1>1, <1>2, <1>3, <1>4, <1>5, <1>6, BoundAssumption

\* handle_client: a connection queues up, gets the permit, or ends the session.
LEMMA HandlerServesQueue ==
  ASSUME IInv, NEW c \in Clients, Accept(c) \/ HandlerStep(c)
  PROVE  Queue!Next \/ UNCHANGED Queue!vars
<1>0. /\ conn \in [Clients -> LooseConnection] /\ waiting \in Seq(OnvifClients)
      /\ OnvifClients \subseteq Clients
  BY DEF IInv, ControlInv, TasksTyped, Clients
<1>1. CASE Accept(c)
  <2>1. \A d \in Clients : /\ conn'[d].realm = conn[d].realm
                           /\ conn'[d].writer = conn[d].writer
                           /\ conn'[d].got = conn[d].got
                           /\ d # c => conn'[d].pc = conn[d].pc
    BY <1>0, <1>1 DEF Accept, LooseConnection
  <2>2. conn[c].pc = "new" /\ conn'[c].pc = IF c \in OnvifClients THEN "queued" ELSE "register"
    BY <1>0, <1>1 DEF Accept, LooseConnection
  <2>3. UNCHANGED <<camera, exited>> /\ ~exited
    BY <1>1 DEF Accept, linkVars
  <2>4. UNCHANGED <<InService, Served, GivenTo>>
    BY <1>0, <2>1, <2>2, ServiceStays DEF InServicePcs
  <2>5. UNCHANGED <<AnsweredTo, ClosedTo>>
    BY <1>0, <2>1, <2>3, RealmsStay
  <2>6. CASE c \in OnvifClients
    <3>1. waiting' = Append(waiting, c)
      BY <1>1, <2>6 DEF Accept
    <3>2. \A i \in DOMAIN waiting : waiting[i] # c
      BY <2>2, <2>6 DEF IInv, ControlInv, QueueFits
    <3>3. c \notin InService \cup Served
      BY <1>0, <2>2 DEF IInv, ControlInv, PhasesAgree, InPhase, InService, Served
    <3>4. Queue!Arrive(c)
      BY <2>3, <2>4, <2>5, <3>1, <3>2, <3>3 DEF Queue!Arrive
    <3>5. QED
      BY <2>6, <3>4 DEF Queue!Next
  <2>7. CASE c \notin OnvifClients
    BY <1>1, <2>3, <2>4, <2>5, <2>7 DEF Accept, Queue!vars
  <2>8. QED
    BY <2>6, <2>7
<1>2. CASE AcquireSlot(c)
  <2>1. /\ ~exited /\ slot = None /\ waiting # <<>> /\ c = Head(waiting)
        /\ slot' = c /\ waiting' = Tail(waiting) /\ UNCHANGED <<camera, exited>>
        /\ conn' = [conn EXCEPT ![c].pc = "register"]
    BY <1>2 DEF AcquireSlot, linkVars
  <2>2. InService = {}
    BY <2>1 DEF IInv, ControlInv, OnvifOneAtATime
  <2>3. InService' = {c}
    <3>1. ControlInv'
      BY <1>2, AcquireSlotKeepsControl DEF IInv
    <3>2. c \in OnvifClients /\ c # None
      BY <1>0, <2>1, EmptySeq, HeadTailProperties, ClientAssumption
    <3>3. QED
      BY <2>1, <3>1, <3>2 DEF ControlInv, OnvifOneAtATime
  <2>4. \A d \in Clients : /\ conn'[d].realm = conn[d].realm
                           /\ conn'[d].writer = conn[d].writer
                           /\ conn'[d].got = conn[d].got
    BY <1>0, <2>1 DEF LooseConnection
  <2>5. UNCHANGED <<Served, GivenTo>>
    BY <1>0, <2>4 DEF Served, GivenTo
  <2>6. UNCHANGED <<AnsweredTo, ClosedTo>>
    BY <1>0, <2>1, <2>4, RealmsStay
  <2>7. Queue!Serve
    BY <2>1, <2>2, <2>3, <2>5, <2>6 DEF Queue!Serve
  <2>8. QED
    BY <2>7 DEF Queue!Next
<1>3. CASE Register(c)
  <2>1. PICK r \in Realms :
          /\ IsFresh(r)
          /\ conn' = [conn EXCEPT ![c].pc = "connect", ![c].realm = r]
    BY <1>3 DEF Register
  <2>2. UNCHANGED <<waiting, camera, exited>> /\ conn[c].pc = "register"
    BY <1>3 DEF Register, linkVars
  <2>3. \A d \in Clients : /\ d # c => conn'[d].realm = conn[d].realm /\ conn'[d].pc = conn[d].pc
                           /\ conn'[d].writer = conn[d].writer
                           /\ conn'[d].got = conn[d].got
    BY <1>0, <2>1 DEF LooseConnection
  <2>4. conn'[c].realm = r /\ conn'[c].pc = "connect" /\ conn[c].realm = None /\ r # None
    BY <1>0, <2>1, <2>2, ClientAssumption
    DEF LooseConnection, IInv, ControlInv, PhasesAgree, InPhase
  <2>5. camera[r].answered = 0 /\ ~Over(r, camera)
    <3>1. ~Alive(r, conn) /\ ~Opened(r, conn)
      BY <2>1 DEF Alive, Opened, IsFresh
    <3>2. QED
      BY <3>1 DEF IInv, LinkInv, CameraOwned, Over
  <2>6. UNCHANGED <<InService, Served, GivenTo>>
    BY <1>0, <2>2, <2>3, <2>4, ServiceStays DEF InServicePcs
  <2>7. AnsweredTo' = AnsweredTo
    BY <1>0, <2>2, <2>3, <2>4, <2>5 DEF AnsweredTo
  <2>8. ClosedTo' = ClosedTo
    BY <1>0, <2>2, <2>3, <2>4, <2>5 DEF ClosedTo, Over
  <2>9. QED
    BY <2>2, <2>6, <2>7, <2>8 DEF Queue!vars
<1>4. CASE SendConnect(c) \/ Open(c)
  <2>1. \A d \in Clients : /\ conn'[d].realm = conn[d].realm
                           /\ conn'[d].writer = "done" <=> conn[d].writer = "done"
                           /\ conn'[d].got = conn[d].got
                           /\ conn'[d].pc \in InServicePcs <=> conn[d].pc \in InServicePcs
    <3>1. CASE SendConnect(c)
      BY <1>0, <3>1 DEF SendConnect, LooseConnection, InServicePcs
    <3>2. CASE Open(c)
      <4>1. conn[c].writer = "idle"
        BY <3>2 DEF Open, IInv, ControlInv, PhasesAgree, InPhase
      <4>2. QED
        BY <1>0, <3>2, <4>1 DEF Open, LooseConnection, InServicePcs
    <3>3. QED
      BY <1>4, <3>1, <3>2
  <2>2. UNCHANGED <<waiting, camera, exited>>
    BY <1>4 DEF SendConnect, Open, linkVars
  <2>3. UNCHANGED <<InService, Served, GivenTo>>
    BY <1>0, <2>1, ServiceStays
  <2>4. UNCHANGED <<AnsweredTo, ClosedTo>>
    BY <1>0, <2>1, <2>2, RealmsStay
  <2>5. QED
    BY <2>2, <2>3, <2>4 DEF Queue!vars
<1>5. CASE BindFails(c)
  <2>1. ~exited /\ exited' = TRUE /\ UNCHANGED <<waiting, conn, camera>>
    BY <1>5 DEF BindFails, linkVars
  <2>2. UNCHANGED <<InService, Served, GivenTo, AnsweredTo, ClosedTo>>
    BY <2>1 DEF InService, Served, GivenTo, AnsweredTo, ClosedTo
  <2>3. Queue!Break
    BY <2>1, <2>2 DEF Queue!Break
  <2>4. QED
    BY <2>3 DEF Queue!Next
<1>6. QED
  BY <1>1, <1>2, <1>3, <1>4, <1>5 DEF HandlerStep

\* process_reader, dh_writer and dh_reader serve nobody.
LEMMA TasksLeaveQueue ==
  ASSUME IInv,
         UNCHANGED <<waiting, exited, camera>>,
         \A d \in Clients : /\ conn'[d].realm = conn[d].realm
                            /\ conn'[d].pc = conn[d].pc
                            /\ conn'[d].got = conn[d].got
                            /\ d \in OnvifClients => conn'[d].writer = conn[d].writer
  PROVE  UNCHANGED Queue!vars
<1>1. UNCHANGED <<InService, Served, GivenTo>>
  BY ServiceStays DEF Clients
<1>2. UNCHANGED <<AnsweredTo, ClosedTo>>
  BY RealmsStay DEF Clients
<1>3. QED
  BY <1>1, <1>2 DEF Queue!vars

\* None of process_reader's steps does.
LEMMA ReaderLeavesQueue ==
  ASSUME IInv, NEW c \in Clients, ReadData(c) \/ ReadEnds(c) \/ ReaderSends(c)
  PROVE  UNCHANGED Queue!vars
<1>1. \A d \in Clients : /\ conn'[d].realm = conn[d].realm
                         /\ conn'[d].pc = conn[d].pc
                         /\ conn'[d].got = conn[d].got
                         /\ conn'[d].writer = conn[d].writer
  <2>1. conn \in [Clients -> LooseConnection]
    BY DEF IInv, ControlInv, TasksTyped
  <2>2. \E x : \/ conn' = [conn EXCEPT ![c].reader = x]
               \/ conn' = [conn EXCEPT ![c].reader = x, ![c].chunks = @ + 1]
    BY DEF ReaderSends, ReadData, ReadEnds, SendData, SendDisconnect, RemoveChannel
  <2>3. QED
    BY <2>1, <2>2 DEF LooseConnection
<1>2. UNCHANGED <<waiting, exited, camera>>
  BY DEF ReaderSends, ReadData, ReadEnds, SendData, SendDisconnect, RemoveChannel,
         taskVars, linkVars
<1>3. QED
  BY <1>1, <1>2, TasksLeaveQueue

\* process_writer collects, and hands a response over.
LEMMA WriterServesQueue ==
  ASSUME IInv, NEW c \in Clients, WriterStep(c)
  PROVE  Queue!Next \/ UNCHANGED Queue!vars
<1>0. /\ conn \in [Clients -> LooseConnection] /\ OnvifClients \subseteq Clients
      /\ UNCHANGED <<waiting, exited, camera>> /\ ~exited
  BY DEF IInv, ControlInv, TasksTyped, Clients, WriterStep, TakePayload, ChannelClosed,
         WriteFails, FlushResponse, taskVars, linkVars
<1>1. CASE TakePayload(c) \/ ChannelClosed(c) \/ WriteFails(c)
  <2>1. /\ \A d \in Clients : /\ conn'[d].realm = conn[d].realm
                              /\ conn'[d].pc = conn[d].pc
                              /\ d # c => conn'[d] = conn[d]
        /\ conn[c].writer # "done"
        /\ c \in OnvifClients => conn'[c].writer # "done"
    <3>1. CASE TakePayload(c)
      BY <1>0, <3>1 DEF TakePayload, LooseConnection
    <3>2. CASE ChannelClosed(c)
      BY <1>0, <3>2 DEF ChannelClosed, LooseConnection
    <3>3. CASE WriteFails(c)
      BY <1>0, <3>3, ClientAssumption DEF WriteFails, LooseConnection
    <3>4. QED
      BY <1>1, <3>1, <3>2, <3>3
  <2>2. UNCHANGED <<InService, Served, GivenTo>>
    BY <1>0, <2>1, ServiceStays
  <2>3. UNCHANGED <<AnsweredTo, ClosedTo>>
    BY <1>0, <2>1, RealmsStay
  <2>4. QED
    BY <1>0, <2>2, <2>3 DEF Queue!vars
<1>2. CASE FlushResponse(c)
  <2>1. conn[c].writer = "flush" /\ slot' = None
    BY <1>2 DEF FlushResponse
  <2>2. c \in OnvifClients /\ conn[c].pc = "open"
    BY <2>1 DEF IInv, ControlInv, PhasesAgree, InPhase
  <2>3. \A d \in Clients : /\ conn'[d].realm = conn[d].realm
                           /\ conn'[d].pc = conn[d].pc
                           /\ conn'[d].got = conn[d].got
                           /\ conn'[d].writer = IF d = c THEN "done" ELSE conn[d].writer
    BY <1>0, <1>2 DEF FlushResponse, LooseConnection
  <2>4. InService = {c}
    <3>1. c \in InService
      BY <2>1, <2>2 DEF InService
    <3>2. QED
      BY <3>1 DEF IInv, ControlInv, OnvifOneAtATime
  <2>5. InService' = {}
    <3>1. ControlInv'
      BY <1>2, FlushResponseKeepsControl DEF IInv
    <3>2. QED
      BY <2>1, <3>1 DEF ControlInv, OnvifOneAtATime
  <2>6. Served' = Served \cup {c}
    BY <1>0, <2>2, <2>3 DEF Served
  <2>7. GivenTo' = [GivenTo EXCEPT ![c] = conn[c].got]
    BY <1>0, <2>2, <2>3 DEF GivenTo
  <2>8. UNCHANGED <<AnsweredTo, ClosedTo>>
    BY <1>0, <2>3, RealmsStay
  <2>9. /\ conn[c].got \in 0 .. AnsweredTo[c]
        /\ c \in Framed => conn[c].got = AnsweredTo[c] /\ (conn[c].got = Parts \/ c \in ClosedTo)
    BY <2>1, <2>2, GivenWhole
  <2>10. Queue!Finish(c)
    BY <1>0, <2>4, <2>5, <2>6, <2>7, <2>8, <2>9 DEF Queue!Finish
  <2>11. QED
    BY <2>2, <2>10 DEF Queue!Next
<1>3. QED
  BY <1>1, <1>2 DEF WriterStep

\* The camera closes one realm, or stays silent.
LEMMA ClosingServesQueue ==
  ASSUME IInv, NEW r \in Realms, Alive(r, conn), ~exited,
         UNCHANGED <<waiting, exited, conn>>,
         \A q \in Realms : /\ camera'[q].answered = camera[q].answered
                           /\ q # r => (Over(q, camera') <=> Over(q, camera)),
         Over(r, camera) => Over(r, camera')
  PROVE  Queue!Next \/ UNCHANGED Queue!vars
<1>1. PICK o \in Clients : conn[o].realm = r /\ conn[o].pc \in {"await", "open"}
  BY DEF Alive
<1>2. /\ r # None
      /\ \A d \in Clients : conn[d].realm = r => d = o
      /\ \A d \in Clients : conn[d].realm # None => conn[d].realm \in Realms
  BY <1>1, OwnRealm, ClientAssumption DEF IInv
<1>3. UNCHANGED <<InService, Served, GivenTo>>
  BY DEF InService, Served, GivenTo
<1>4. CASE o \in OnvifClients /\ Over(r, camera') /\ ~Over(r, camera)
  <2>1. AnsweredTo' = AnsweredTo
    BY <1>2 DEF AnsweredTo, Clients
  <2>2. ClosedTo' = ClosedTo \cup {o} /\ o \notin ClosedTo
    BY <1>1, <1>2, <1>4 DEF ClosedTo, Over, Clients
  <2>3. o \in InService \cup Served
    BY <1>1, <1>4, OpenIsServed DEF IInv
  <2>4. Queue!Close(o)
    BY <1>3, <2>1, <2>2, <2>3 DEF Queue!Close
  <2>5. QED
    BY <1>4, <2>4 DEF Queue!Next
<1>5. CASE ~(o \in OnvifClients /\ Over(r, camera') /\ ~Over(r, camera))
  <2>1. UNCHANGED <<AnsweredTo, ClosedTo>>
    BY <1>2, <1>5, RealmsStay DEF Clients
  <2>2. QED
    BY <1>3, <2>1 DEF Queue!vars
<1>6. QED
  BY <1>4, <1>5

\* The camera answers, and closes a realm of its own accord.
LEMMA CameraServesQueue ==
  ASSUME IInv, NEW r \in Realms, CameraAnswers(r) \/ CameraCloses(r)
  PROVE  Queue!Next \/ UNCHANGED Queue!vars
<1>0. /\ camera \in [Realms -> CameraRealm] /\ camera[r].state = "bound"
      /\ UNCHANGED <<waiting, exited, conn>> /\ ~exited
  BY DEF IInv, LinkInv, LinkTyped, CameraAnswers, CameraCloses, taskVars
<1>1. Alive(r, conn)
  BY <1>0 DEF IInv, LinkInv, CameraOwned
<1>2. CASE CameraCloses(r)
  <2>1. /\ \A q \in Realms : /\ camera'[q].answered = camera[q].answered
                             /\ q # r => (Over(q, camera') <=> Over(q, camera))
        /\ Over(r, camera')
    BY <1>0, <1>2 DEF CameraCloses, CameraRealm, Over
  <2>2. QED
    BY <1>0, <1>1, <2>1, ClosingServesQueue
<1>3. CASE CameraAnswers(r)
  <2>1. PICK o \in Clients : conn[o].realm = r /\ conn[o].pc \in {"await", "open"}
    BY <1>1 DEF Alive
  <2>2. /\ r # None
        /\ \A d \in Clients : conn[d].realm = r => d = o
        /\ \A d \in Clients : conn[d].realm # None => conn[d].realm \in Realms
    BY <2>1, OwnRealm, ClientAssumption DEF IInv
  <2>3. /\ camera'[r].answered = camera[r].answered + 1 /\ camera[r].answered < Parts
        /\ \A q \in Realms : /\ q # r => camera'[q] = camera[q]
                             /\ Over(q, camera') <=> Over(q, camera)
    BY <1>0, <1>3 DEF CameraAnswers, CameraRealm, Over
  <2>4. UNCHANGED <<InService, Served, GivenTo>>
    BY <1>0 DEF InService, Served, GivenTo
  <2>5. CASE o \in OnvifClients
    <3>1. AnsweredTo[o] = camera[r].answered
      BY <2>1, <2>2, <2>5 DEF AnsweredTo
    <3>2. AnsweredTo' = [AnsweredTo EXCEPT ![o] = @ + 1]
      BY <1>0, <2>1, <2>2, <2>3, <2>5 DEF AnsweredTo, Clients
    <3>3. ClosedTo' = ClosedTo
      BY <1>0, <2>2, <2>3 DEF ClosedTo, Over, Clients
    <3>4. o \notin ClosedTo
      BY <1>0, <2>1 DEF ClosedTo
    <3>5. o \in InService \cup (Served \ Framed)
      <4>1. o \in InService \cup Served
        BY <2>1, <2>5, OpenIsServed DEF IInv
      <4>2. ~(o \in Served /\ o \in Framed)
        <5>1. SUFFICES ASSUME o \in Served, o \in Framed PROVE FALSE
          OBVIOUS
        <5>2. AnsweredTo[o] = Parts
          BY <2>5, <3>4, <5>1, GivenWhole DEF Served
        <5>3. QED
          BY <2>3, <3>1, <5>2, BoundAssumption
      <4>3. QED
        BY <4>1, <4>2
    <3>6. Queue!Answer(o)
      BY <1>0, <2>3, <2>4, <3>1, <3>2, <3>3, <3>4, <3>5 DEF Queue!Answer
    <3>7. QED
      BY <2>5, <3>6 DEF Queue!Next
  <2>6. CASE o \notin OnvifClients
    <3>1. UNCHANGED <<AnsweredTo, ClosedTo>>
      BY <1>0, <2>2, <2>3, <2>6, RealmsStay DEF Clients
    <3>2. QED
      BY <1>0, <2>4, <3>1 DEF Queue!vars
  <2>7. QED
    BY <2>5, <2>6
<1>4. QED
  BY <1>2, <1>3

\* The camera takes an event: it answers a Bind, with or without a refusal, and
\* a Disconnect closes the realm.
LEMMA TakingServesQueue ==
  ASSUME IInv, CameraTakes
  PROVE  Queue!Next \/ UNCHANGED Queue!vars
<1> DEFINE r == Head(up).realm
           k == Head(up).kind
<1>1. /\ camera \in [Realms -> CameraRealm]
      /\ UNCHANGED <<waiting, exited, conn>> /\ ~exited
  BY DEF CameraTakes, taskVars, IInv, LinkInv, LinkTyped
<1>2. k \in {"bind", "data", "disc", "heartbeat"} /\ 1 \in DOMAIN Sent /\ Sent[1] = Head(up)
  <2>1. Sent[1] = Head(up) /\ Len(Sent) \in Nat \ {0} /\ Sent[1] \in Event
    BY TakingShifts DEF CameraTakes, taskVars, IInv, LinkInv
  <2>2. QED
    BY <2>1, SentTyped DEF Event, IInv, LinkInv
<1>3. ASSUME k # "heartbeat"
      PROVE  /\ r \in Realms
             /\ Alive(r, conn)
             /\ k = "bind" => camera[r].state = "none" /\ camera[r].answered = 0
  <2>1. r \in Realms /\ EventOwned(Head(up), conn)
    BY <1>2, <1>3, RealmsKnown DEF IInv, LinkInv, EventsOwned
  <2>2. PICK c \in Clients : /\ conn[c].realm = r
                             /\ conn[c].pc = IF k = "bind" THEN "await" ELSE "open"
    BY <2>1 DEF EventOwned
  <2>3. Alive(r, conn)
    BY <2>2 DEF Alive
  <2>4. k = "bind" => camera[r].answered = 0
    <3>1. \A d \in Clients : conn[d].realm = r => d = c
      BY <2>1, <2>2, OwnRealm, ClientAssumption DEF IInv
    <3>2. QED
      BY <2>1, <2>2, <3>1, QuietBeforeOpen DEF IInv
  <2>5. k = "bind" => camera[r].state = "none"
    BY <1>2 DEF IInv, LinkInv, EventsInOrder
  <2>6. QED
    BY <2>1, <2>3, <2>4, <2>5
<1>4. CASE camera' = camera
  BY <1>1, <1>4, TasksLeaveQueue
<1>5. CASE k # "heartbeat" /\ camera' # camera
  <2>1. \/ /\ k = "bind"
           /\ camera' = [camera EXCEPT ![r] = [state |-> "bound", asked |-> FALSE, answered |-> 0]]
        \/ /\ k = "bind"
           /\ camera' = [camera EXCEPT ![r].state = "closed"]
        \/ camera' = [camera EXCEPT ![r].asked = @ \/ camera[r].state = "bound"]
        \/ camera' = [camera EXCEPT ![r].state = "released"]
    BY <1>2, <1>5 DEF CameraTakes
  <2>2. r \in Realms /\ Alive(r, conn)
        /\ (k = "bind" => camera[r].state = "none" /\ camera[r].answered = 0)
    BY <1>3, <1>5
  <2>3. /\ \A q \in Realms : /\ camera'[q].answered = camera[q].answered
                             /\ q # r => (Over(q, camera') <=> Over(q, camera))
        /\ Over(r, camera) => Over(r, camera')
    <3> HIDE DEF r, k
    <3>1. QED
      BY <1>1, <2>1, <2>2 DEF CameraRealm, Over
  <2>4. QED
    <3> HIDE DEF r, k
    <3>1. QED
      BY <1>1, <2>2, <2>3, ClosingServesQueue
<1>6. k = "heartbeat" => camera' = camera
  BY DEF CameraTakes
<1>7. QED
  BY <1>4, <1>5, <1>6

\* Every step of the realms is a step of the queue, or none.
LEMMA StepServesQueue ==
  ASSUME IInv, [Next]_vars
  PROVE  [Queue!Next]_(Queue!vars)
<1>1. ASSUME NEW c \in Clients, Accept(c) \/ HandlerStep(c)
      PROVE  [Queue!Next]_(Queue!vars)
  BY <1>1, HandlerServesQueue
<1>2. ASSUME NEW c \in Clients, ReadData(c) \/ ReadEnds(c) \/ ReaderSends(c)
      PROVE  [Queue!Next]_(Queue!vars)
  BY <1>2, ReaderLeavesQueue
<1>3. ASSUME NEW c \in Clients, WriterStep(c) PROVE [Queue!Next]_(Queue!vars)
  BY <1>3, WriterServesQueue
<1>4. CASE Heartbeat \/ Transmit \/ UNCHANGED vars
  <2>1. UNCHANGED <<conn, waiting, exited, camera>>
    BY <1>4 DEF Heartbeat, Transmit, vars, taskVars, linkVars
  <2>2. QED
    BY <2>1, TasksLeaveQueue
<1>5. CASE Dispatch
  <2>1. PICK r \in Realms : ReceiveConn(r) \/ ReceiveDisc(r) \/ ReceivePayload(r)
    BY <1>5 DEF Dispatch
  <2>2. UNCHANGED <<waiting, exited, camera>>
    BY <2>1 DEF ReceiveConn, ReceiveDisc, ReceivePayload, Incoming, taskVars
  <2>3. QED
    BY <2>1, <2>2, DispatchTouches, TasksLeaveQueue DEF IInv
<1>6. CASE CameraTakes
  BY <1>6, TakingServesQueue
<1>7. ASSUME NEW r \in Realms, CameraAnswers(r) \/ CameraCloses(r)
      PROVE  [Queue!Next]_(Queue!vars)
  BY <1>7, CameraServesQueue
<1>8. QED
  BY <1>1, <1>2, <1>3, <1>4, <1>5, <1>6, <1>7 DEF Next

\* The ONVIF listener's promise: whatever the camera does and however the tasks
\* interleave, requests are served one at a time in the order of their arrival,
\* and a framed response is written once and in one piece, all the camera sent
\* of it, not before it has sent it all or closed the realm.
THEOREM ServesAsQueue == Spec => ImplementsQueue
<1>1. Init => Queue!Init
  <2>1. SUFFICES ASSUME Init PROVE Queue!Init
    OBVIOUS
  <2>2. \A c \in OnvifClients : conn[c].pc = "new" /\ conn[c].writer = "idle" /\ conn[c].realm = None
    BY <2>1 DEF Init, Clients
  <2>3. InService = {} /\ Served = {} /\ ClosedTo = {}
    BY <2>2 DEF InService, Served, ClosedTo
  <2>4. /\ AnsweredTo = [c \in OnvifClients |-> 0]
        /\ GivenTo = [c \in OnvifClients |-> 0]
    BY <2>2 DEF AnsweredTo, GivenTo
  <2>5. QED
    BY <2>1, <2>3, <2>4 DEF Init, Queue!Init
<1>2. IInv /\ [Next]_vars => [Queue!Next]_(Queue!vars)
  BY StepServesQueue
<1>3. QED
  BY <1>1, <1>2, IInvHolds, PTL DEF Spec, ImplementsQueue, Queue!Spec

=============================================================================
