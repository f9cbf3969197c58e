------------------------------ MODULE Handshake ------------------------------
(***************************************************************************)
(* The negotiation of app/vendor/dh_p2p: main() of main.py and the UDP     *)
(* helper of helpers.py, from the first probe to launch_engine().  One     *)
(* thread, always waiting for one datagram; the servers, the relay agent   *)
(* and the camera (external) answer a request never, late, or repeatedly.  *)
(*                                                                         *)
(* pc names the datagram the client waits for: a wait for the answer to a  *)
(* control request bears the request's name.  Requests up to the relay     *)
(* agent share one UDP socket, main_remote (channel_remote is an alias).   *)
(***************************************************************************)
EXTENDS Naturals

CONSTANTS
  Transports,  \* values of --transport: "direct", "relay"
  Limit        \* per loop of the code, how many rounds it makes

Loops == {"servers", "info", "channel", "reads", "sign", "punch", "grant", "close"}

ASSUME LimitAssumption ==
  /\ Transports \subseteq {"direct", "relay"}
  /\ Limit \in [Loops -> Nat \ {0}]

VARIABLES
  pc,         \* what main() waits for
  transport,  \* --transport
  natFirst,   \* P2P_WAIT_FOR_CHANNEL_RESPONSE is not "1"
  attempt,    \* round of the retry loop main() is in
  reads,      \* round of the inner loop that reads datagrams
  finite,     \* TRUE if main_remote has a timeout set by settimeout()
  asked,      \* control requests sent from main_remote
  queued,     \* its pending_responses: final answers put aside
  granted,    \* what the peers have confirmed, as main() saw it
  engine      \* session launch_engine() was given: "none", "relay", "device"

vars == <<pc, transport, natFirst, attempt, reads, finite, asked, queued,
          granted, engine>>

\* Waits inside UDP.request() on the device-info socket and on main_remote.
InfoWaits    == {"probeDevice", "infoDevice"}
RequestWaits == InfoWaits \cup {"probe", "online", "relay", "agent"}
\* Waits of main() that call UDP.read() itself.
ReadWaits    == {"natInfo", "relayChannel", "channel", "relayNat"}
\* Waits for a PTCP packet of the relay agent or the camera, and for STUN.
BinaryWaits  == {"earlySync", "sync", "sign", "punch", "punchReply", "drain",
                 "deviceSync", "grant", "close"}
Waits        == RequestWaits \cup ReadWaits \cup BinaryWaits
Ended        == {"engine", "exited"}

MainRequests == {"probe", "online", "channel", "relay", "agent", "start",
                 "relayChannel"}
Rounds       == UNION {0 .. Limit[l] : l \in Loops}

\* The loop that repeats a request, and the one that reads datagrams in a wait.
RetryLoop == [probe |-> "servers", probeDevice |-> "info", infoDevice |-> "info",
              channel |-> "channel"]

ReadLoop(wait) ==
  IF wait \in RequestWaits THEN "reads" ELSE IF wait = "drain" THEN "punch" ELSE wait

Typed ==
  /\ pc \in Waits \cup Ended \cup {"bind", "lazy"}
  /\ transport \in Transports
  /\ natFirst \in BOOLEAN
  /\ attempt \in Rounds
  /\ reads \in Rounds
  /\ finite \in BOOLEAN
  /\ asked \subseteq MainRequests
  /\ queued \subseteq MainRequests
  /\ granted \subseteq {"relaySync", "sign", "punch", "deviceSync", "grant"}
  /\ engine \in {"none", "relay", "device"}

\* No loop makes a round more than it is meant to, although all share two counters.
InOwnLoop ==
  /\ pc \in DOMAIN RetryLoop => attempt <= Limit[RetryLoop[pc]]
  /\ ReadLoop(pc) \in Loops => reads < Limit[ReadLoop(pc)]

TypeOK == Typed /\ InOwnLoop

Init ==
  /\ pc = "bind"
  /\ transport \in Transports
  /\ natFirst \in BOOLEAN
  /\ attempt = 0
  /\ reads = 0
  /\ finite = FALSE
  /\ asked = {}
  /\ queued = {}
  /\ granted = {}
  /\ engine = "none"

-----------------------------------------------------------------------------
(* Moves of main(). *)

Exit ==
  /\ pc' = "exited"
  /\ UNCHANGED <<transport, natFirst, attempt, reads, finite, asked, queued,
                 granted, engine>>

\* launch_engine: the session's socket and counters go to the Rust engine.
Launch(session) ==
  /\ pc' = "engine"
  /\ engine' = session
  /\ UNCHANGED <<transport, natFirst, attempt, reads, finite, asked, queued>>

\* Main sends requests and waits for next, in a loop that begins anew.
Ask(requests, next) ==
  /\ pc' = next
  /\ reads' = 0
  /\ asked' = asked \cup requests
  /\ UNCHANGED <<transport, natFirst, queued, engine>>

\* A probe opens a new socket, the later main_remote, with a timeout of 8 s.
Probe(candidate) ==
  /\ pc' = "probe"
  /\ attempt' = candidate
  /\ reads' = 0
  /\ finite' = TRUE
  /\ asked' = {"probe"}
  /\ queued' = {}
  /\ UNCHANGED <<transport, natFirst, granted, engine>>

ProbeDevice(round) ==
  /\ Ask({}, "probeDevice")
  /\ attempt' = round
  /\ UNCHANGED <<finite, granted>>

\* Mutant: the timeout that the branch before has cleared is not set again.
AwaitChannelUntimed(round) ==
  /\ Ask({"channel"}, "channel")
  /\ attempt' = round
  /\ finite' = FALSE
  /\ UNCHANGED granted

\* The channel-response loop: its first round waits for the answer to the
\* request sent before the relay setup, the others send it again.
AwaitChannel(round) ==
  /\ Ask({"channel"}, "channel")
  /\ attempt' = round
  /\ finite' = TRUE
  /\ UNCHANGED granted

\* PTCP sync with the relay agent on main_remote.
SyncWithAgent(next) ==
  /\ Ask({}, next)
  /\ finite' = FALSE
  /\ UNCHANGED <<attempt, granted>>

\* The listeners are bound; P2P_LAZY_CONNECT waits for a first local client.
Bind ==
  /\ pc = "bind"
  /\ \/ Probe(1)
     \/ /\ pc' = "lazy"
        /\ UNCHANGED <<transport, natFirst, attempt, reads, finite, asked,
                       queued, granted, engine>>

FirstClient == pc = "lazy" /\ Probe(1)

-----------------------------------------------------------------------------
(* Control requests. *)

\* A request another answer may still come for, on the socket main() reads.
Arriving ==
  IF pc = "probeDevice" THEN {"probeDevice"}
  ELSE IF pc = "infoDevice" THEN InfoWaits
  ELSE asked

\* UDP.read() without return_error: any status from 400 on ends the process,
\* whichever request it answers.
RefusalExits ==
  /\ pc \in RequestWaits \cup {"relayNat"}
  /\ Exit

\* request(): an answer to another request is put aside, a provisional one is
\* ignored; both use up one of the reads.
ReadOther(r) ==
  /\ pc \in RequestWaits
  /\ r \in Arriving
  /\ reads + 1 < Limit["reads"]
  /\ reads' = reads + 1
  /\ queued' \in IF r = pc \/ pc \in InfoWaits
                 THEN {queued}
                 ELSE {queued, queued \cup {r}}
  /\ UNCHANGED <<pc, transport, natFirst, attempt, finite, asked, granted, engine>>

\* The final answer to the request main() waits for.
ProbeAnswered ==
  /\ pc = "probe"
  /\ Ask({"online"}, "online")
  /\ finite' = TRUE
  /\ UNCHANGED <<attempt, granted>>

OnlineAnswered == pc = "online" /\ ProbeDevice(1)

DeviceProbed ==
  /\ pc = "probeDevice"
  /\ Ask({}, "infoDevice")
  /\ UNCHANGED <<attempt, finite, granted>>

\* Device info with a salt: the channel is requested (direct transport) and the
\* relay agent set up, without waiting for the channel.
InfoAnswered ==
  /\ pc = "infoDevice"
  /\ Ask(IF transport = "relay" THEN {"relay"} ELSE {"channel", "relay"}, "relay")
  /\ UNCHANGED <<attempt, finite, granted>>

RelayAnswered ==
  /\ pc = "relay"
  /\ Ask({"agent"}, "agent")
  /\ UNCHANGED <<attempt, finite, granted>>

\* setup_relay_agent ends with /relay/start, whose answer nobody waits for.
AgentAnswered ==
  /\ pc = "agent"
  /\ IF transport = "relay"
     THEN Ask({"start", "relayChannel"}, "relayNat") /\ UNCHANGED attempt
     ELSE Ask({"start"}, IF natFirst THEN "natInfo" ELSE "channel") /\ attempt' = 1
  /\ finite' = TRUE
  /\ UNCHANGED granted

\* Mutant: the rounds of the device-info loop are not counted.
RetryForEver ==
  \/ pc = "probe" /\ Probe(attempt)
  \/ pc \in InfoWaits /\ ProbeDevice(attempt)
  \/ pc \in RequestWaits \ (InfoWaits \cup {"probe"}) /\ Exit

\* OSError or ConnectionError out of request(), or device info without a salt:
\* the next server, the next round, or the end.
NoAnswer ==
  \/ pc = "probe" /\ attempt < Limit["servers"] /\ Probe(attempt + 1)
  \/ pc = "probe" /\ attempt >= Limit["servers"] /\ Exit
  \/ pc \in InfoWaits /\ attempt < Limit["info"] /\ ProbeDevice(attempt + 1)
  \/ pc \in InfoWaits /\ attempt >= Limit["info"] /\ Exit
  \/ pc \in RequestWaits \ (InfoWaits \cup {"probe"}) /\ Exit

ReadsUsedUp ==
  /\ pc \in RequestWaits
  /\ reads + 1 >= Limit["reads"]
  /\ NoAnswer

NoSalt == pc = "infoDevice" /\ NoAnswer

-----------------------------------------------------------------------------
(* Direct transport: Server Nat Info, then the channel-response loop.  A wait *)
(* of this part takes the answer to any request; provisional ones are read    *)
(* and forgotten, which changes nothing.                                      *)

NatInfo ==
  /\ pc = "natInfo"
  /\ Ask({"relayChannel"}, "relayChannel")
  /\ UNCHANGED <<attempt, finite, granted>>

RelayChannelAccepted == pc = "relayChannel" /\ SyncWithAgent("earlySync")

\* The relay agent answers the sync; anything else leads to the fallback.
EarlySynced ==
  /\ pc = "earlySync"
  /\ granted' = granted \cup {"relaySync"}
  /\ Launch("relay")

\* A refusal, a timeout or an unexpected sync response: the except and finally
\* blocks, then the channel-response loop from its first round.
Fallback == pc \in {"natInfo", "relayChannel", "earlySync"} /\ AwaitChannel(1)

\* LocalAddr and PubAddr are there: the answer to p2p-channel itself.
ChannelAnswered == pc = "channel" /\ SyncWithAgent("sync")

\* A refusal, or an answer without the fields: also the answer to some other
\* request, since read() does not compare CSeq.
ChannelRefused == pc = "channel" /\ Exit

\* Mutant: the retry after the last one allowed.
ChannelRetriedOnceMore ==
  /\ pc = "channel"
  /\ \/ attempt <= Limit["channel"] /\ AwaitChannel(attempt + 1)
     \/ attempt > Limit["channel"] /\ Exit

ChannelUnanswered ==
  /\ pc = "channel"
  /\ \/ attempt < Limit["channel"] /\ AwaitChannel(attempt + 1)
     \/ attempt >= Limit["channel"] /\ Exit

\* Relay transport: whatever comes first, even a provisional answer, is taken
\* for the NAT information.
RelayNat == pc = "relayNat" /\ SyncWithAgent("sync")

-----------------------------------------------------------------------------
(* PTCP with the relay agent, the hole punch, PTCP with the camera. *)

\* A PTCP packet after the second sync.  The relay transport insists on the
\* sync; the direct one asks for the sign whatever the packet was.
AgentSynced ==
  /\ pc = "sync"
  /\ \/ /\ transport = "relay"
        /\ granted' = granted \cup {"relaySync"}
        /\ Launch("relay")
     \/ transport = "relay" /\ Exit
     \/ /\ transport = "direct"
        /\ Ask({}, "sign")
        /\ granted' \in {granted, granted \cup {"relaySync"}}
        /\ UNCHANGED <<attempt, finite>>

\* A confirmation that main() waits for, and the wait it leads to.
Confirmed(wait, what, next) ==
  /\ pc = wait
  /\ granted' = granted \cup {what}
  /\ Ask({}, next)
  /\ UNCHANGED <<attempt, finite>>

SignReceived    == Confirmed("sign", "sign", "punch")
PunchAnswered   == Confirmed("punch", "punch", "punchReply")
DeviceSynced    == Confirmed("deviceSync", "deviceSync", "grant")
ChannelGranted  == Confirmed("grant", "grant", "close")

SecondPunchAnswered ==
  /\ pc = "punchReply"
  /\ Ask({}, "drain")
  /\ UNCHANGED <<attempt, finite, granted>>

\* A heartbeat, an acknowledgement or another packet uses up one round.
OtherPacket(wait) ==
  /\ pc = wait
  /\ \/ /\ reads + 1 < Limit[wait]
        /\ reads' = reads + 1
        /\ UNCHANGED <<pc, transport, natFirst, attempt, finite, asked, queued,
                       granted, engine>>
     \/ reads + 1 >= Limit[wait] /\ Exit

\* Mutant: a missing sign response is not noticed.
GoesOnWithoutAnswer ==
  \/ pc = "sign" /\ Ask({}, "punch") /\ UNCHANGED <<attempt, finite, granted>>
  \/ pc \in {"punch", "grant", "close"} /\ Exit

\* No answer within the timeout of the read: nothing to go on with.
MissingAnswer == pc \in {"sign", "punch", "grant", "close"} /\ Exit

\* Up to five acknowledgements of the hole punch are drained.
SyncWithDevice == Ask({}, "deviceSync") /\ UNCHANGED <<attempt, finite, granted>>

Drain ==
  /\ pc = "drain"
  /\ \/ /\ reads + 1 < Limit["punch"]
        /\ reads' = reads + 1
        /\ UNCHANGED <<pc, transport, natFirst, attempt, finite, asked, queued,
                       granted, engine>>
     \/ reads + 1 >= Limit["punch"] /\ SyncWithDevice

DrainEnds ==
  /\ pc = "drain"
  /\ \/ reads > 0 /\ SyncWithDevice
     \/ reads = 0 /\ Launch("relay") /\ UNCHANGED granted

UnexpectedDeviceSync == pc = "deviceSync" /\ Exit

DeviceSyncTimesOut == pc = "deviceSync" /\ Launch("relay") /\ UNCHANGED granted

SetupClosed == pc = "close" /\ Launch("device") /\ UNCHANGED granted

EngineEnds == pc = "engine" /\ Exit

\* An exception nobody catches: a port in use, a malformed answer, a socket
\* error, ten datagrams without DH/HTTP or twenty without PTCP in a row.
UncaughtError == pc \notin Ended /\ Exit

-----------------------------------------------------------------------------
\* recv() ends by socket.timeout: every wait that has a timeout at all, on its
\* socket or for the single call.
TimesOut ==
  \/ /\ pc \in RequestWaits
     /\ finite \/ pc \in InfoWaits
     /\ NoAnswer
  \/ pc \in {"natInfo", "relayChannel"} /\ finite /\ Fallback
  \/ pc = "earlySync" /\ Fallback
  \/ finite /\ ChannelUnanswered
  \/ pc = "relayNat" /\ finite /\ Exit
  \/ MissingAnswer
  \/ DrainEnds
  \/ DeviceSyncTimesOut

Control ==
  \/ RefusalExits
  \/ \E r \in Arriving : ReadOther(r)
  \/ ProbeAnswered \/ OnlineAnswered \/ DeviceProbed \/ InfoAnswered
  \/ RelayAnswered \/ AgentAnswered
  \/ ReadsUsedUp \/ NoSalt

Channel ==
  \/ NatInfo \/ RelayChannelAccepted \/ EarlySynced \/ Fallback
  \/ ChannelAnswered \/ ChannelRefused \/ RelayNat

Session ==
  \/ AgentSynced
  \/ SignReceived \/ PunchAnswered \/ SecondPunchAnswered
  \/ Drain
  \/ DeviceSynced \/ UnexpectedDeviceSync \/ ChannelGranted \/ SetupClosed
  \/ \E wait \in {"sign", "grant", "close"} : OtherPacket(wait)

Next ==
  \/ Bind \/ FirstClient
  \/ Control \/ Channel \/ Session
  \/ TimesOut
  \/ UncaughtError
  \/ EngineEnds

Spec == Init /\ [][Next]_vars

-----------------------------------------------------------------------------
(* Safety. *)

\* The engine inherits a session its peer takes part in: the relay agent has
\* acknowledged a sync or issued its sign; a camera has answered the hole
\* punch and the sync and granted the channel for the sign.  No path through
\* retries, fallbacks and timeouts hands over a socket without that.
EngineInheritsSession ==
  /\ engine = "relay" => {"relaySync", "sign"} \cap granted # {}
  /\ engine = "device" => {"sign", "punch", "deviceSync", "grant"} \subseteq granted

\* "Keep a finite timeout for every Easy4IP control request": settimeout(None),
\* which several branches leave on the shared socket, never meets a wait for a
\* control server.
ControlReadsFinite ==
  pc \in ReadWaits \cup (RequestWaits \ InfoWaits) => finite

\* The course of main(): the fallback and the direct path only lead onwards.
Stage ==
  [bind |-> 0, lazy |-> 1, probe |-> 2, online |-> 3, probeDevice |-> 4, infoDevice |-> 4,
   relay |-> 5, agent |-> 6, natInfo |-> 7, relayChannel |-> 8, earlySync |-> 9,
   channel |-> 10, relayNat |-> 10, sync |-> 11, sign |-> 12, punch |-> 13, punchReply |-> 14,
   drain |-> 15, deviceSync |-> 16, grant |-> 17, close |-> 18, engine |-> 19, exited |-> 20]

\* The measures of a step onwards, the weightiest first: the stage, the round of
\* its retry loop, the step in the round, the datagrams read in this step.
Forward ==
  \/ Stage[pc] < Stage[pc']
  \/ /\ Stage[pc] = Stage[pc'] /\ pc \in DOMAIN RetryLoop
     /\ attempt < attempt' /\ attempt' <= Limit[RetryLoop[pc]]
  \/ pc = "probeDevice" /\ pc' = "infoDevice" /\ attempt' = attempt
  \/ /\ pc' = pc /\ attempt' = attempt
     /\ reads < reads' /\ reads' < Limit[ReadLoop(pc)]

\* The negotiation never goes round in circles, whatever the peers send and
\* however often: each step, also on a late or repeated answer, uses up a round
\* of a bounded loop or leads to a later stage.  Outside request()
\* main() skips any number of provisional answers, which change nothing here.
NeverInCircles == [][Forward]_vars

-----------------------------------------------------------------------------
(* Liveness.  No datagram need ever arrive; a timeout that is set expires. *)

LiveSpec == Spec /\ WF_vars(Bind) /\ WF_vars(TimesOut)

\* The negotiation ends, with the engine or with an exit status for the
\* manager, unless it is stuck in one of the two reads without a timeout.
EndsUnlessUntimed ==
  pc # "lazy" ~> pc \in Ended \cup {"lazy", "sync", "punchReply"}

-----------------------------------------------------------------------------
(* What comments of the source promise and the code does not keep. *)

\* main.py wants a finite timeout because without one "the worker remains
\* "connecting" forever", and a fallback "instead of blocking forever on the
\* direct socket": the negotiation always ends.
HandshakeEnds == pc = "probe" ~> pc \in Ended
=============================================================================
