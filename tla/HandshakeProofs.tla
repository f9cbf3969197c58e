--------------------------- MODULE HandshakeProofs ---------------------------
(***************************************************************************)
(* Proofs about Handshake, for every choice of the loops' limits.          *)
(***************************************************************************)
EXTENDS Handshake, TLAPS

\* The rounds a loop may be in.
LEMMA RoundsOfLoops ==
  /\ Rounds \subseteq Nat
  /\ 0 \in Rounds
  /\ 1 \in Rounds
  /\ \A l \in Loops, n \in Rounds : n < Limit[l] => n + 1 \in Rounds
<1>1. \A l \in Loops : Limit[l] \in Nat \ {0}
  BY LimitAssumption
<1>2. \A n : n \in Rounds <=> \E l \in Loops : n \in 0 .. Limit[l]
  BY DEF Rounds
<1>3. "info" \in Loops
  BY DEF Loops
<1>4. \A n \in Rounds : n \in Nat
  BY <1>1, <1>2
<1>5. 0 \in 0 .. Limit["info"] /\ 1 \in 0 .. Limit["info"]
  BY <1>1, <1>3
<1>6. \A l \in Loops, n \in Rounds : n < Limit[l] => n + 1 \in 0 .. Limit[l]
  BY <1>1, <1>4
<1>7. QED
  BY <1>2, <1>3, <1>4, <1>5, <1>6

-----------------------------------------------------------------------------
(* The invariant. *)

\* What main() has been told by the time it waits for a given datagram.
StagesReached ==
  /\ pc \in {"punch", "punchReply", "drain", "deviceSync", "grant", "close"} =>
       "sign" \in granted
  /\ pc \in {"punchReply", "drain", "deviceSync", "grant", "close"} =>
       "punch" \in granted
  /\ pc \in {"grant", "close"} => "deviceSync" \in granted
  /\ pc = "close" => "grant" \in granted

\* The timeout of main_remote outlasts the device-info requests in between.
TimeoutKept == pc \in RequestWaits \cup ReadWaits => finite

IInv == Typed /\ StagesReached /\ TimeoutKept /\ EngineInheritsSession

-----------------------------------------------------------------------------
(* One lemma per move of main(). *)

\* The process ends; nothing else changes.
LEMMA ExitKeepsInv == IInv /\ Exit => IInv'
BY DEF IInv, Exit, Typed, StagesReached, TimeoutKept, EngineInheritsSession,
       Ended, Waits, RequestWaits, InfoWaits, ReadWaits, BinaryWaits

\* main() asks the servers, in a round it may be in.
LEMMA ProbeKeepsInv ==
  ASSUME IInv, NEW n \in Rounds, Probe(n)
  PROVE  IInv'
BY RoundsOfLoops
DEF IInv, Probe, Typed, StagesReached, TimeoutKept, EngineInheritsSession,
    MainRequests, Waits, RequestWaits, InfoWaits, ReadWaits, BinaryWaits

\* A move to another wait by Ask, if what the wait presupposes is there.
LEMMA AskKeepsInv ==
  ASSUME IInv, NEW requests \in SUBSET MainRequests, NEW next \in Waits,
         Ask(requests, next),
         attempt' \in Rounds,
         finite' \in BOOLEAN,
         granted \subseteq granted',
         granted' \subseteq {"relaySync", "sign", "punch", "deviceSync", "grant"},
         StagesReached',
         TimeoutKept'
  PROVE  IInv'
BY RoundsOfLoops DEF IInv, Ask, Typed, EngineInheritsSession

\* launch_engine, with the confirmations the session needs.
LEMMA LaunchKeepsInv ==
  ASSUME IInv, NEW session \in {"relay", "device"}, Launch(session),
         granted \subseteq granted',
         granted' \subseteq {"relaySync", "sign", "punch", "deviceSync", "grant"},
         session = "relay" => {"relaySync", "sign"} \cap granted' # {},
         session = "device" => {"sign", "punch", "deviceSync", "grant"} \subseteq granted'
  PROVE  IInv'
BY DEF IInv, Launch, Typed, StagesReached, TimeoutKept, EngineInheritsSession,
       Ended, Waits, RequestWaits, InfoWaits, ReadWaits, BinaryWaits

\* A read that takes a datagram and stays at the same wait, in a further round.
LEMMA ReadKeepsInv ==
  ASSUME IInv, NEW loop \in Loops,
         reads + 1 < Limit[loop],
         reads' = reads + 1,
         queued' \subseteq MainRequests,
         UNCHANGED <<pc, transport, natFirst, attempt, finite, asked, granted, engine>>
  PROVE  IInv'
<1>1. reads \in Rounds /\ reads \in Nat /\ Limit[loop] \in Nat
  BY RoundsOfLoops, LimitAssumption DEF IInv, Typed
<1>2. reads < Limit[loop]
  BY <1>1
<1>3. reads' \in Rounds
  BY <1>1, <1>2, RoundsOfLoops
<1>4. QED
  BY <1>3 DEF IInv, Typed, StagesReached, TimeoutKept, EngineInheritsSession

-----------------------------------------------------------------------------
(* The steps. *)

\* The p2p-channel request, asked with a timeout on the socket.
LEMMA AwaitChannelKeepsInv ==
  ASSUME IInv, NEW n \in Rounds, AwaitChannel(n)
  PROVE  IInv'
<1>1. StagesReached' /\ TimeoutKept'
  BY DEF AwaitChannel, Ask, StagesReached, TimeoutKept
<1>2. "channel" \in Waits /\ {"channel"} \in SUBSET MainRequests
  BY DEF Waits, ReadWaits, MainRequests
<1>3. QED
  BY <1>1, <1>2, AskKeepsInv DEF AwaitChannel, IInv, Typed

\* The PTCP session with the relay agent, with or without the channel.
LEMMA SyncKeepsInv ==
  ASSUME IInv, NEW next \in {"sync", "earlySync"}, SyncWithAgent(next)
  PROVE  IInv'
<1>1. StagesReached' /\ TimeoutKept'
  BY DEF SyncWithAgent, Ask, StagesReached, TimeoutKept,
         RequestWaits, InfoWaits, ReadWaits
<1>2. next \in Waits /\ {} \in SUBSET MainRequests
  BY DEF Waits, BinaryWaits
<1>3. QED
  BY <1>1, <1>2, AskKeepsInv DEF SyncWithAgent, IInv, Typed

\* The device-info requests use a socket of their own.
LEMMA ProbeDeviceKeepsInv ==
  ASSUME IInv, NEW n \in Rounds, pc \in RequestWaits, ProbeDevice(n)
  PROVE  IInv'
<1>1. StagesReached' /\ TimeoutKept'
  BY DEF ProbeDevice, Ask, StagesReached, TimeoutKept, IInv
<1>2. "probeDevice" \in Waits /\ {} \in SUBSET MainRequests
  BY DEF Waits, RequestWaits, InfoWaits
<1>3. QED
  BY <1>1, <1>2, AskKeepsInv DEF ProbeDevice, IInv, Typed

\* request() fails, and the loop around it goes on or gives up.
LEMMA NoAnswerKeepsInv == IInv /\ NoAnswer => IInv'
<1> SUFFICES ASSUME IInv, NoAnswer PROVE IInv'
  OBVIOUS
<1>1. attempt \in Rounds /\ "servers" \in Loops /\ "info" \in Loops
  BY DEF IInv, Typed, Loops
<1>2. ASSUME attempt < Limit["servers"], Probe(attempt + 1) PROVE IInv'
  BY <1>1, <1>2, RoundsOfLoops, ProbeKeepsInv
<1>3. ASSUME pc \in InfoWaits, attempt < Limit["info"], ProbeDevice(attempt + 1)
      PROVE  IInv'
  BY <1>1, <1>3, RoundsOfLoops, ProbeDeviceKeepsInv DEF RequestWaits
<1>4. QED
  BY <1>2, <1>3, ExitKeepsInv DEF NoAnswer

\* The final answers to the control requests.
LEMMA AnswerKeepsInv ==
  ASSUME IInv, \/ ProbeAnswered \/ DeviceProbed \/ InfoAnswered
               \/ RelayAnswered \/ AgentAnswered \/ NatInfo
  PROVE  IInv'
<1> USE DEF Ask, StagesReached, TimeoutKept, RequestWaits, InfoWaits, ReadWaits,
            MainRequests, Waits
<1>1. attempt \in Rounds /\ 1 \in Rounds /\ finite \in BOOLEAN
      /\ granted \subseteq {"relaySync", "sign", "punch", "deviceSync", "grant"}
  BY RoundsOfLoops DEF IInv, Typed
<1>2. CASE ProbeAnswered
  BY <1>1, <1>2, AskKeepsInv DEF ProbeAnswered, IInv
<1>3. CASE DeviceProbed
  BY <1>1, <1>3, AskKeepsInv DEF DeviceProbed, IInv
<1>4. CASE InfoAnswered
  BY <1>1, <1>4, AskKeepsInv DEF InfoAnswered, IInv
<1>5. CASE RelayAnswered
  BY <1>1, <1>5, AskKeepsInv DEF RelayAnswered, IInv
<1>6. CASE AgentAnswered
  BY <1>1, <1>6, AskKeepsInv DEF AgentAnswered, IInv
<1>7. CASE NatInfo
  BY <1>1, <1>7, AskKeepsInv DEF NatInfo, IInv
<1>8. QED
  BY <1>2, <1>3, <1>4, <1>5, <1>6, <1>7

\* Waits for PTCP and STUN that lead to further waits.
LEMMA SessionKeepsInv ==
  ASSUME IInv, \/ SignReceived \/ PunchAnswered \/ SecondPunchAnswered
               \/ DeviceSynced \/ ChannelGranted
  PROVE  IInv'
<1> USE DEF Ask, Confirmed, StagesReached, TimeoutKept, RequestWaits, InfoWaits,
            ReadWaits, BinaryWaits, Waits
<1>1. attempt \in Rounds /\ finite \in BOOLEAN /\ {} \in SUBSET MainRequests
      /\ granted \subseteq {"relaySync", "sign", "punch", "deviceSync", "grant"}
  BY DEF IInv, Typed
<1>2. CASE SignReceived
  BY <1>1, <1>2, AskKeepsInv DEF SignReceived, IInv
<1>3. CASE PunchAnswered
  BY <1>1, <1>3, AskKeepsInv DEF PunchAnswered, IInv
<1>4. CASE SecondPunchAnswered
  BY <1>1, <1>4, AskKeepsInv DEF SecondPunchAnswered, IInv
<1>5. CASE DeviceSynced
  BY <1>1, <1>5, AskKeepsInv DEF DeviceSynced, IInv
<1>6. CASE ChannelGranted
  BY <1>1, <1>6, AskKeepsInv DEF ChannelGranted, IInv
<1>7. QED
  BY <1>2, <1>3, <1>4, <1>5, <1>6

\* The second sync with the relay agent.
LEMMA AgentSyncedKeepsInv == IInv /\ AgentSynced => IInv'
<1> SUFFICES ASSUME IInv, AgentSynced PROVE IInv'
  OBVIOUS
<1>1. granted \subseteq {"relaySync", "sign", "punch", "deviceSync", "grant"}
      /\ attempt \in Rounds /\ finite \in BOOLEAN
  BY DEF IInv, Typed
<1>2. ASSUME granted' = granted \cup {"relaySync"}, Launch("relay") PROVE IInv'
  BY <1>1, <1>2, LaunchKeepsInv
<1>3. ASSUME pc = "sync", Ask({}, "sign"),
             granted' \in {granted, granted \cup {"relaySync"}},
             UNCHANGED <<attempt, finite>>
      PROVE  IInv'
  <2>1. StagesReached' /\ TimeoutKept'
    BY <1>3 DEF Ask, StagesReached, TimeoutKept, RequestWaits, InfoWaits, ReadWaits
  <2>2. "sign" \in Waits /\ {} \in SUBSET MainRequests
    BY DEF Waits, BinaryWaits
  <2>3. QED
    BY <1>1, <1>3, <2>1, <2>2, AskKeepsInv
<1>4. QED
  BY <1>2, <1>3, ExitKeepsInv DEF AgentSynced

\* The end of the hole punch: the camera's sync, or the relay session, which
\* has its sign by then.
LEMMA SyncWithDeviceKeepsInv ==
  ASSUME IInv, pc = "drain", SyncWithDevice
  PROVE  IInv'
<1>1. StagesReached' /\ TimeoutKept'
  BY DEF SyncWithDevice, Ask, IInv, StagesReached, TimeoutKept, RequestWaits,
         InfoWaits, ReadWaits
<1>2. "deviceSync" \in Waits /\ {} \in SUBSET MainRequests
  BY DEF Waits, BinaryWaits
<1>3. QED
  BY <1>1, <1>2, AskKeepsInv DEF SyncWithDevice, IInv, Typed

\* The fallback to the relay session, whose sign was confirmed before the punch.
LEMMA RelayTakesOver ==
  ASSUME IInv, pc \in {"drain", "deviceSync"}, Launch("relay"), UNCHANGED granted
  PROVE  IInv'
BY LaunchKeepsInv DEF IInv, Typed, StagesReached

\* The drain of the punch finds the socket silent.
LEMMA DrainEndsKeepsInv == IInv /\ DrainEnds => IInv'
BY SyncWithDeviceKeepsInv, RelayTakesOver DEF DrainEnds

\* One round of that drain.
LEMMA DrainKeepsInv == IInv /\ Drain => IInv'
<1> SUFFICES ASSUME IInv, Drain PROVE IInv'
  OBVIOUS
<1>1. "punch" \in Loops /\ queued \subseteq MainRequests
  BY DEF Loops, IInv, Typed
<1>2. CASE reads' = reads + 1
  BY <1>1, <1>2, ReadKeepsInv, SyncWithDeviceKeepsInv DEF Drain
<1>3. CASE reads' # reads + 1
  BY <1>3, SyncWithDeviceKeepsInv DEF Drain
<1>4. QED
  BY <1>2, <1>3

\* Datagrams that only use up a round of a loop.
LEMMA OtherPacketKeepsInv ==
  ASSUME IInv, NEW wait \in {"sign", "grant", "close"}, OtherPacket(wait)
  PROVE  IInv'
<1>1. wait \in Loops /\ queued \subseteq MainRequests
  BY DEF Loops, IInv, Typed
<1>2. CASE Exit
  BY <1>2, ExitKeepsInv
<1>3. CASE ~Exit
  BY <1>1, <1>3, ReadKeepsInv DEF OtherPacket
<1>4. QED
  BY <1>2, <1>3

\* request() puts the answer to another request aside.
LEMMA ReadOtherKeepsInv ==
  ASSUME IInv, NEW r \in Arriving, ReadOther(r)
  PROVE  IInv'
<1>1. queued \subseteq MainRequests /\ asked \subseteq MainRequests
  BY DEF IInv, Typed
<1>2. pc \in InfoWaits \/ r \in MainRequests
  BY <1>1 DEF Arriving, InfoWaits
<1>3. queued' \subseteq MainRequests
  BY <1>1, <1>2 DEF ReadOther
<1>4. "reads" \in Loops
  BY DEF Loops
<1>5. QED
  BY <1>3, <1>4, ReadKeepsInv DEF ReadOther

\* The wait for the channel times out: another round or the end.
LEMMA ChannelUnansweredKeepsInv == IInv /\ ChannelUnanswered => IInv'
<1> SUFFICES ASSUME IInv, ChannelUnanswered PROVE IInv'
  OBVIOUS
<1>1. attempt \in Rounds /\ "channel" \in Loops
  BY DEF IInv, Typed, Loops
<1>2. ASSUME attempt < Limit["channel"], AwaitChannel(attempt + 1) PROVE IInv'
  BY <1>1, <1>2, RoundsOfLoops, AwaitChannelKeepsInv
<1>3. QED
  BY <1>2, ExitKeepsInv DEF ChannelUnanswered

\* A step of the relay set-up has no answer: main() asks for the channel.
LEMMA FallbackKeepsInv == IInv /\ Fallback => IInv'
BY RoundsOfLoops, AwaitChannelKeepsInv DEF Fallback

\* A session is handed over.
LEMMA HandoverKeepsInv ==
  ASSUME IInv, EarlySynced \/ SetupClosed \/ DeviceSyncTimesOut
  PROVE  IInv'
<1>1. granted \subseteq {"relaySync", "sign", "punch", "deviceSync", "grant"}
  BY DEF IInv, Typed
<1>2. CASE EarlySynced
  BY <1>1, <1>2, LaunchKeepsInv DEF EarlySynced
<1>3. CASE SetupClosed
  BY <1>1, <1>3, LaunchKeepsInv DEF SetupClosed, IInv, StagesReached
<1>4. CASE DeviceSyncTimesOut
  BY <1>4, RelayTakesOver DEF DeviceSyncTimesOut
<1>5. QED
  BY <1>2, <1>3, <1>4

-----------------------------------------------------------------------------
(* The whole. *)

\* Nothing has been asked or confirmed at the start.
LEMMA InitEstablishesInv == Init => IInv
BY RoundsOfLoops
DEF Init, IInv, Typed, StagesReached, TimeoutKept, EngineInheritsSession, Waits,
    RequestWaits, InfoWaits, ReadWaits

\* Every step keeps the invariant.
LEMMA StepKeepsInv == IInv /\ [Next]_vars => IInv'
<1> SUFFICES ASSUME IInv, [Next]_vars PROVE IInv'
  OBVIOUS
<1>1. CASE UNCHANGED vars
  BY <1>1 DEF vars, IInv, Typed, StagesReached, TimeoutKept, EngineInheritsSession
<1>2. CASE Bind \/ FirstClient
  <2>1. CASE pc' = "lazy"
    BY <1>2, <2>1 DEF Bind, FirstClient, Probe, IInv, Typed, StagesReached,
       TimeoutKept, EngineInheritsSession, RequestWaits, InfoWaits, ReadWaits
  <2>2. CASE Probe(1)
    BY <2>2, RoundsOfLoops, ProbeKeepsInv
  <2>3. QED
    BY <1>2, <2>1, <2>2 DEF Bind, FirstClient
<1>3. CASE Control
  <2>1. CASE RefusalExits
    BY <2>1, ExitKeepsInv DEF RefusalExits
  <2>2. CASE \E r \in Arriving : ReadOther(r)
    BY <2>2, ReadOtherKeepsInv
  <2>3. CASE OnlineAnswered
    BY <2>3, RoundsOfLoops, ProbeDeviceKeepsInv DEF OnlineAnswered, RequestWaits
  <2>4. CASE ReadsUsedUp \/ NoSalt
    BY <2>4, NoAnswerKeepsInv DEF ReadsUsedUp, NoSalt
  <2>5. QED
    BY <1>3, <2>1, <2>2, <2>3, <2>4, AnswerKeepsInv DEF Control
<1>4. CASE Channel
  <2>1. CASE RelayChannelAccepted \/ ChannelAnswered \/ RelayNat
    BY <2>1, SyncKeepsInv DEF RelayChannelAccepted, ChannelAnswered, RelayNat
  <2>2. CASE ChannelRefused
    BY <2>2, ExitKeepsInv DEF ChannelRefused
  <2>3. QED
    BY <1>4, <2>1, <2>2, AnswerKeepsInv, HandoverKeepsInv, FallbackKeepsInv DEF Channel
<1>5. CASE Session
  <2>1. CASE UnexpectedDeviceSync
    BY <2>1, ExitKeepsInv DEF UnexpectedDeviceSync
  <2>2. CASE \E wait \in {"sign", "grant", "close"} : OtherPacket(wait)
    BY <2>2, OtherPacketKeepsInv
  <2>3. QED
    BY <1>5, <2>1, <2>2, AgentSyncedKeepsInv, SessionKeepsInv, DrainKeepsInv,
       HandoverKeepsInv DEF Session
<1>6. CASE TimesOut
  BY <1>6, NoAnswerKeepsInv, FallbackKeepsInv, ChannelUnansweredKeepsInv,
     ExitKeepsInv, DrainEndsKeepsInv, HandoverKeepsInv DEF TimesOut, MissingAnswer
<1>7. CASE UncaughtError \/ EngineEnds
  BY <1>7, ExitKeepsInv DEF UncaughtError, EngineEnds
<1>8. QED
  BY <1>1, <1>2, <1>3, <1>4, <1>5, <1>6, <1>7 DEF Next

\* The inductive invariant holds for any limits of the loops.
THEOREM InvariantHolds == Spec => []IInv
BY InitEstablishesInv, StepKeepsInv, PTL DEF Spec

\* Whatever is lost, late or repeated, launch_engine is given a session whose
\* peer has confirmed it: a synced or signed relay session, or a direct one for
\* which every confirmation up to the channel grant was received.
THEOREM EngineGetsLiveSession == Spec => []EngineInheritsSession
<1>1. IInv => EngineInheritsSession
  BY DEF IInv
<1>2. QED
  BY <1>1, InvariantHolds, PTL

\* No wait for a control server is entered without a timeout on the socket,
\* whichever branch and fallback led there.
THEOREM ControlReadsHaveTimeout == Spec => []ControlReadsFinite
<1>1. IInv => ControlReadsFinite
  BY DEF IInv, TimeoutKept, ControlReadsFinite
<1>2. QED
  BY <1>1, InvariantHolds, PTL

-----------------------------------------------------------------------------
(* The loops. *)

\* Every loop makes a round at least.
LEMMA LimitsPositive ==
  /\ \A l \in Loops : Limit[l] \in Nat /\ 0 < Limit[l] /\ 1 <= Limit[l]
  /\ {"servers", "info", "channel", "reads", "punch"} \subseteq Loops
BY LimitAssumption DEF Loops

\* A wait that is entered anew, in a round its loop allows.
LEMMA EntersLoop ==
  ASSUME reads' = 0,
         pc' \in DOMAIN RetryLoop => attempt' <= Limit[RetryLoop[pc']]
  PROVE  InOwnLoop'
BY LimitsPositive DEF InOwnLoop

\* A further datagram in the same wait.
LEMMA StaysInLoop ==
  ASSUME InOwnLoop, pc' = pc, attempt' = attempt, reads' < Limit[ReadLoop(pc)]
  PROVE  InOwnLoop'
BY DEF InOwnLoop

\* Neither the end nor the engine is a loop.
LEMMA LeavesLoops ==
  ASSUME pc' \in {"exited", "engine", "lazy"}
  PROVE  InOwnLoop'
BY DEF InOwnLoop, RetryLoop, ReadLoop, RequestWaits, InfoWaits, Loops

\* A failed request: the next round of its loop, if there is one left.
LEMMA NoAnswerInLoop == Typed /\ NoAnswer => InOwnLoop'
<1> SUFFICES ASSUME Typed, NoAnswer PROVE InOwnLoop'
  OBVIOUS
<1>1. attempt \in Nat /\ Limit["servers"] \in Nat /\ Limit["info"] \in Nat
  BY RoundsOfLoops, LimitsPositive DEF Typed
<1>2. CASE attempt < Limit["servers"] /\ Probe(attempt + 1)
  BY <1>1, <1>2, EntersLoop DEF Probe, RetryLoop
<1>3. CASE attempt < Limit["info"] /\ ProbeDevice(attempt + 1)
  BY <1>1, <1>3, EntersLoop DEF ProbeDevice, Ask, RetryLoop
<1>4. CASE Exit
  BY <1>4, LeavesLoops DEF Exit
<1>5. QED
  BY <1>2, <1>3, <1>4 DEF NoAnswer

\* Requests that are repeated, and answers that lead to another request.
LEMMA ControlInLoop == Typed /\ InOwnLoop /\ Control => InOwnLoop'
<1> SUFFICES ASSUME Typed, InOwnLoop, Control PROVE InOwnLoop'
  OBVIOUS
<1>1. CASE RefusalExits
  BY <1>1, LeavesLoops DEF RefusalExits, Exit
<1>2. ASSUME NEW r \in Arriving, ReadOther(r) PROVE InOwnLoop'
  BY <1>2, StaysInLoop DEF ReadOther, ReadLoop
<1>3. CASE ReadsUsedUp \/ NoSalt
  BY <1>3, NoAnswerInLoop DEF ReadsUsedUp, NoSalt
<1>4. CASE ProbeAnswered \/ InfoAnswered \/ RelayAnswered
  BY <1>4, EntersLoop DEF ProbeAnswered, InfoAnswered, RelayAnswered, Ask, RetryLoop
<1>5. CASE OnlineAnswered
  BY <1>5, EntersLoop, LimitsPositive DEF OnlineAnswered, ProbeDevice, Ask, RetryLoop
<1>6. CASE DeviceProbed
  BY <1>6, EntersLoop DEF DeviceProbed, Ask, InOwnLoop, RetryLoop
<1>7. CASE AgentAnswered
  BY <1>7, EntersLoop, LimitsPositive DEF AgentAnswered, Ask, RetryLoop
<1>8. QED
  BY <1>1, <1>2, <1>3, <1>4, <1>5, <1>6, <1>7 DEF Control

\* The channel-response loop begins anew after the relay set-up.
LEMMA FallbackInLoop == Fallback => InOwnLoop'
BY EntersLoop, LimitsPositive DEF Fallback, AwaitChannel, Ask, RetryLoop

\* PTCP with the relay agent.
LEMMA ChannelInLoop == Typed /\ InOwnLoop /\ Channel => InOwnLoop'
<1> SUFFICES ASSUME Channel PROVE InOwnLoop'
  OBVIOUS
<1>1. CASE NatInfo \/ RelayChannelAccepted \/ ChannelAnswered \/ RelayNat
  BY <1>1, EntersLoop
  DEF NatInfo, RelayChannelAccepted, ChannelAnswered, RelayNat, SyncWithAgent, Ask, RetryLoop
<1>2. CASE EarlySynced \/ ChannelRefused
  BY <1>2, LeavesLoops DEF EarlySynced, ChannelRefused, Launch, Exit
<1>3. QED
  BY <1>1, <1>2, FallbackInLoop DEF Channel

\* A datagram drained after the hole punch, or the end of that loop.
LEMMA DrainInLoop == InOwnLoop /\ (Drain \/ DrainEnds) => InOwnLoop'
<1> SUFFICES ASSUME InOwnLoop, Drain \/ DrainEnds PROVE InOwnLoop'
  OBVIOUS
<1>1. pc = "drain" /\ ReadLoop(pc) = "punch"
  BY DEF Drain, DrainEnds, ReadLoop, RequestWaits, InfoWaits
<1>2. CASE SyncWithDevice
  BY <1>2, EntersLoop DEF SyncWithDevice, Ask, RetryLoop
<1>3. CASE Launch("relay")
  BY <1>3, LeavesLoops DEF Launch
<1>4. CASE ~(SyncWithDevice \/ Launch("relay"))
  BY <1>1, <1>4, StaysInLoop DEF Drain, DrainEnds
<1>5. QED
  BY <1>2, <1>3, <1>4

\* The two PTCP sessions and the hole punch.
LEMMA SessionInLoop == Typed /\ InOwnLoop /\ Session => InOwnLoop'
<1> SUFFICES ASSUME InOwnLoop, Session PROVE InOwnLoop'
  OBVIOUS
<1>1. CASE AgentSynced
  BY <1>1, EntersLoop, LeavesLoops DEF AgentSynced, Ask, Launch, Exit, RetryLoop
<1>2. CASE SignReceived \/ PunchAnswered \/ SecondPunchAnswered \/ DeviceSynced \/ ChannelGranted
  BY <1>2, EntersLoop
  DEF SignReceived, PunchAnswered, SecondPunchAnswered, DeviceSynced, ChannelGranted, Confirmed,
      Ask, RetryLoop
<1>3. CASE UnexpectedDeviceSync \/ SetupClosed
  BY <1>3, LeavesLoops DEF UnexpectedDeviceSync, SetupClosed, Launch, Exit
<1>4. ASSUME NEW wait \in {"sign", "grant", "close"}, OtherPacket(wait) PROVE InOwnLoop'
  <2>1. pc = wait /\ ReadLoop(pc) = wait
    BY <1>4 DEF OtherPacket, ReadLoop, RequestWaits, InfoWaits
  <2>2. CASE Exit
    BY <2>2, LeavesLoops DEF Exit
  <2>3. CASE ~Exit
    BY <1>4, <2>1, <2>3, StaysInLoop DEF OtherPacket
  <2>4. QED
    BY <2>2, <2>3
<1>5. QED
  BY <1>1, <1>2, <1>3, <1>4, DrainInLoop DEF Session

\* A timeout leads to a round the loop still has, or out of it.
LEMMA TimeoutInLoop == Typed /\ InOwnLoop /\ TimesOut => InOwnLoop'
<1> SUFFICES ASSUME Typed, InOwnLoop, TimesOut PROVE InOwnLoop'
  OBVIOUS
<1>1. CASE ChannelUnanswered
  <2>1. attempt \in Nat /\ Limit["channel"] \in Nat
    BY RoundsOfLoops, LimitsPositive DEF Typed
  <2>2. CASE attempt < Limit["channel"] /\ AwaitChannel(attempt + 1)
    BY <2>1, <2>2, EntersLoop DEF AwaitChannel, Ask, RetryLoop
  <2>3. CASE Exit
    BY <2>3, LeavesLoops DEF Exit
  <2>4. QED
    BY <1>1, <2>2, <2>3 DEF ChannelUnanswered
<1>2. CASE MissingAnswer \/ (pc = "relayNat" /\ Exit) \/ DeviceSyncTimesOut
  BY <1>2, LeavesLoops DEF MissingAnswer, DeviceSyncTimesOut, Launch, Exit
<1>3. QED
  BY <1>1, <1>2, NoAnswerInLoop, FallbackInLoop, DrainInLoop DEF TimesOut

\* Every variable of the negotiation keeps its type, and no loop of main() or
\* request() makes more rounds than its own limit, whatever the limits are and
\* however retries, fallbacks and timeouts lead from one loop to another.
THEOREM TypeCorrect == Spec => []TypeOK
<1>1. Init => InOwnLoop
  BY DEF Init, InOwnLoop, RetryLoop, ReadLoop, RequestWaits, InfoWaits, Loops
<1>2. IInv /\ InOwnLoop /\ [Next]_vars => InOwnLoop'
  <2> SUFFICES ASSUME Typed, InOwnLoop, [Next]_vars PROVE InOwnLoop'
    BY DEF IInv
  <2>1. CASE UNCHANGED vars
    BY <2>1 DEF vars, InOwnLoop
  <2>2. CASE Bind \/ FirstClient
    <3>1. CASE pc' = "lazy"
      BY <3>1, LeavesLoops
    <3>2. CASE Probe(1)
      BY <3>2, EntersLoop, LimitsPositive DEF Probe, RetryLoop
    <3>3. QED
      BY <2>2, <3>1, <3>2 DEF Bind, FirstClient
  <2>3. CASE UncaughtError \/ EngineEnds
    BY <2>3, LeavesLoops DEF UncaughtError, EngineEnds, Exit
  <2>4. QED
    BY <2>1, <2>2, <2>3, ControlInLoop, ChannelInLoop, SessionInLoop, TimeoutInLoop DEF Next
<1>3. IInv /\ InOwnLoop => TypeOK
  BY DEF IInv, TypeOK
<1>4. QED
  BY <1>1, <1>2, <1>3, InvariantHolds, PTL DEF Spec

-----------------------------------------------------------------------------
(* The variant. *)

\* The end of the process is the last stage.
LEMMA EndsForward ==
  ASSUME Typed, pc # "exited", Exit
  PROVE  Forward
BY DEF Typed, Exit, Forward, Stage, Waits, RequestWaits, InfoWaits, ReadWaits, BinaryWaits,
       Ended

\* A request without an answer is the next round of a bounded loop, or the end.
LEMMA NoAnswerForward == Typed /\ NoAnswer => Forward
<1> SUFFICES ASSUME Typed, NoAnswer PROVE Forward
  OBVIOUS
<1>1. attempt \in Nat /\ \A l \in Loops : Limit[l] \in Nat
  BY RoundsOfLoops, LimitAssumption DEF Typed
<1>2. CASE pc = "probe" /\ attempt < Limit["servers"] /\ Probe(attempt + 1)
  BY <1>1, <1>2 DEF Probe, Forward, Stage, RetryLoop, Loops
<1>3. CASE pc \in InfoWaits /\ attempt < Limit["info"] /\ ProbeDevice(attempt + 1)
  BY <1>1, <1>3 DEF ProbeDevice, Ask, Forward, Stage, RetryLoop, Loops, InfoWaits
<1>4. CASE Exit
  <2>1. pc # "exited"
    BY DEF NoAnswer, RequestWaits, InfoWaits
  <2>2. QED
    BY <1>4, <2>1, EndsForward
<1>5. QED
  BY <1>2, <1>3, <1>4 DEF NoAnswer

\* The fallback leads from the relay set-up to the channel-response loop.
LEMMA FallbackForward == Fallback => Forward
BY DEF Fallback, AwaitChannel, Ask, Forward, Stage

\* Another datagram than the awaited one counts as a read.
LEMMA ReadForward ==
  ASSUME Typed, pc' = pc, attempt' = attempt, reads' = reads + 1,
         reads + 1 < Limit[ReadLoop(pc)]
  PROVE  Forward
<1>1. reads \in Nat
  BY RoundsOfLoops DEF Typed
<1>2. QED
  BY <1>1 DEF Forward

\* So is a drained acknowledgement of the hole punch.
LEMMA DrainForward == Typed /\ (Drain \/ DrainEnds) => Forward
<1> SUFFICES ASSUME Typed, Drain \/ DrainEnds PROVE Forward
  OBVIOUS
<1>1. pc = "drain" /\ ReadLoop(pc) = "punch"
  BY DEF Drain, DrainEnds, ReadLoop, RequestWaits, InfoWaits
<1>2. CASE SyncWithDevice \/ Launch("relay")
  BY <1>1, <1>2 DEF SyncWithDevice, Ask, Launch, Forward, Stage
<1>3. CASE ~(SyncWithDevice \/ Launch("relay"))
  BY <1>1, <1>3, ReadForward DEF Drain, DrainEnds
<1>4. QED
  BY <1>2, <1>3

\* Control requests.
LEMMA ControlForward == Typed /\ Control => Forward
<1> SUFFICES ASSUME Typed, Control PROVE Forward
  OBVIOUS
<1>1. CASE RefusalExits
  BY <1>1, EndsForward DEF RefusalExits, RequestWaits, InfoWaits
<1>2. CASE \E r \in Arriving : ReadOther(r)
  BY <1>2, ReadForward DEF ReadOther, ReadLoop
<1>3. CASE ReadsUsedUp \/ NoSalt
  BY <1>3, NoAnswerForward DEF ReadsUsedUp, NoSalt
<1>4. CASE ProbeAnswered \/ OnlineAnswered \/ DeviceProbed \/ InfoAnswered \/ RelayAnswered
  BY <1>4
  DEF ProbeAnswered, OnlineAnswered, DeviceProbed, InfoAnswered, RelayAnswered, ProbeDevice,
      Ask, Forward, Stage
<1>5. CASE AgentAnswered
  BY <1>5 DEF AgentAnswered, Ask, Forward, Stage
<1>6. QED
  BY <1>1, <1>2, <1>3, <1>4, <1>5 DEF Control

\* The channel, early relay or not.
LEMMA ChannelForward == Typed /\ Channel => Forward
<1> SUFFICES ASSUME Typed, Channel PROVE Forward
  OBVIOUS
<1>1. CASE NatInfo \/ RelayChannelAccepted \/ ChannelAnswered \/ RelayNat
  BY <1>1
  DEF NatInfo, RelayChannelAccepted, ChannelAnswered, RelayNat, SyncWithAgent, Ask, Forward,
      Stage
<1>2. CASE EarlySynced
  BY <1>2 DEF EarlySynced, Launch, Forward, Stage
<1>3. CASE ChannelRefused
  BY <1>3, EndsForward DEF ChannelRefused
<1>4. QED
  BY <1>1, <1>2, <1>3, FallbackForward DEF Channel

\* The two PTCP sessions and the hole punch.
LEMMA SessionForward == Typed /\ Session => Forward
<1> SUFFICES ASSUME Typed, Session PROVE Forward
  OBVIOUS
<1>1. CASE AgentSynced
  BY <1>1, EndsForward DEF AgentSynced, Ask, Launch, Forward, Stage
<1>2. CASE SignReceived \/ PunchAnswered \/ SecondPunchAnswered \/ DeviceSynced \/ ChannelGranted
  BY <1>2
  DEF SignReceived, PunchAnswered, SecondPunchAnswered, DeviceSynced, ChannelGranted, Confirmed,
      Ask, Forward, Stage
<1>3. CASE UnexpectedDeviceSync \/ SetupClosed
  BY <1>3, EndsForward DEF UnexpectedDeviceSync, SetupClosed, Launch, Forward, Stage
<1>4. ASSUME NEW wait \in {"sign", "grant", "close"}, OtherPacket(wait) PROVE Forward
  <2>1. pc = wait /\ ReadLoop(pc) = wait
    BY <1>4 DEF OtherPacket, ReadLoop, RequestWaits, InfoWaits
  <2>2. QED
    BY <1>4, <2>1, ReadForward, EndsForward DEF OtherPacket
<1>5. QED
  BY <1>1, <1>2, <1>3, <1>4, DrainForward DEF Session

\* A timeout leads to the next round, to a fallback or to the end.
LEMMA TimeoutForward == Typed /\ TimesOut => Forward
<1> SUFFICES ASSUME Typed, TimesOut PROVE Forward
  OBVIOUS
<1>1. CASE ChannelUnanswered
  <2>1. attempt \in Nat /\ Limit["channel"] \in Nat
    BY RoundsOfLoops, LimitAssumption DEF Typed, Loops
  <2>2. CASE attempt < Limit["channel"] /\ AwaitChannel(attempt + 1)
    BY <1>1, <2>1, <2>2 DEF ChannelUnanswered, AwaitChannel, Ask, Forward, Stage, RetryLoop
  <2>3. QED
    BY <1>1, <2>2, EndsForward DEF ChannelUnanswered
<1>2. CASE MissingAnswer \/ (pc = "relayNat" /\ Exit)
  BY <1>2, EndsForward DEF MissingAnswer
<1>3. CASE DeviceSyncTimesOut
  BY <1>3 DEF DeviceSyncTimesOut, Launch, Forward, Stage
<1>4. QED
  BY <1>1, <1>2, <1>3, NoAnswerForward, FallbackForward, DrainForward DEF TimesOut

\* Every step of the negotiation is a step onwards, for any limits of the loops
\* and whatever arrives: there is no infinite exchange, however often a server
\* answers, repeats itself or refuses.  (The provisional answers main() skips
\* in a read of its own change no variable: their number is not bounded.)
THEOREM NegotiationIsFinite == Spec => NeverInCircles
<1>1. Typed /\ [Next]_vars => [Forward]_vars
  <2> SUFFICES ASSUME Typed, Next PROVE Forward
    BY DEF vars
  <2>1. CASE Bind \/ FirstClient
    BY <2>1 DEF Bind, FirstClient, Probe, Forward, Stage
  <2>2. CASE UncaughtError \/ EngineEnds
    BY <2>2, EndsForward DEF UncaughtError, EngineEnds, Ended
  <2>3. QED
    BY <2>1, <2>2, ControlForward, ChannelForward, SessionForward, TimeoutForward DEF Next
<1>2. IInv => Typed
  BY DEF IInv
<1>3. QED
  BY <1>1, <1>2, InvariantHolds, PTL DEF Spec, NeverInCircles
=============================================================================
