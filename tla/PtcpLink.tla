------------------------------ MODULE PtcpLink -------------------------------
(***************************************************************************)
(* One PTCP session of the Rust engine over UDP: the PTCPSession of        *)
(* rust-engine/src/ptcp.rs, the tasks that drive it (dh_reader and         *)
(* dh_writer in process.rs, the retransmission task in main.rs), the       *)
(* Python handshake that opens the session and hands its counters over     *)
(* (UDP.read_ptcp and request_ptcp in helpers.py), the datagrams in flight *)
(* and, as an external party, the camera at the other end.                 *)
(*                                                                         *)
(* The camera's byte stream is cut into packets 1..NPackets; packet i      *)
(* covers the bytes Offset[i] .. Offset[i+1] - 1 of the stream and carries *)
(* the low bits of Offset[i] as its sequence number.  Datagrams are lost,  *)
(* duplicated and reordered.                                               *)
(***************************************************************************)
EXTENDS WrappingU32, Sequences, SequencesExt, FiniteSets

CONSTANTS
  NPackets,        \* packets the camera's stream consists of
  Handoff,         \* of these, the packets the Python handshake waits for
  HandshakeTakes,  \* datagrams the handshake may read out of turn: "repeated"
                   \* ones, and "early" ones whose predecessor is missing
  HandshakeLengths,\* lengths of the bodies the handshake sends, 0 for none
  Offset,          \* [1..NPackets+1 -> Nat], where each packet starts
  Video,           \* packets whose body is PTCPBody::Payload
  Recovery,        \* packets with pid & 0xFF000000 == 0x01000000
  GapPolicies,     \* values P2P_ALLOW_GAP_SKIP may have
  GapPacketLimit,  \* GAP_PACKET_LIMIT, 32 in the code
  MaxRetransmits,  \* MAX_RETRANSMITS, 50 in the code
  MaxSentWindow,   \* MAX_SENT_WINDOW, 2048 in the code
  SendLengths,     \* lengths of the bodies dh_writer sends
  StrayDatagrams,  \* TRUE if a datagram without the PTCP magic may arrive
  MaxInFlight      \* bound: datagrams in flight in one direction

Packets == 1 .. NPackets

ASSUME StreamAssumption ==
  /\ NPackets \in Nat
  /\ Handoff \in 0 .. NPackets
  /\ Offset \in [1 .. NPackets + 1 -> Nat]
  /\ \A i, j \in 1 .. NPackets + 1 : i < j => Offset[i] < Offset[j]
  /\ \A i \in Packets : Offset[i + 1] - Offset[i] < HalfRange
  /\ Video \subseteq Packets
  /\ Recovery \subseteq Packets

ASSUME LimitAssumption ==
  /\ GapPolicies \subseteq BOOLEAN
  /\ StrayDatagrams \in BOOLEAN
  /\ HandshakeTakes \subseteq {"repeated", "early"}
  /\ HandshakeLengths \subseteq 0 .. HalfRange - 1
  /\ GapPacketLimit \in Nat \ {0}
  /\ MaxRetransmits \in Nat
  /\ MaxSentWindow \in Nat \ {0}
  /\ SendLengths \subseteq 1 .. HalfRange - 1
  /\ MaxInFlight \in Nat \ {0}

VARIABLES
  (* PTCPSession, receiving half *)
  recv,        \* next byte expected
  pending,     \* packets received ahead of recv
  gapPackets,  \* gap_packets
  gapSince,    \* gap_since: "none", "running", or "expired" past gap_timeout()
  quiet,       \* TRUE once last_progress is 15 s old
  allowGapSkip,\* allow_gap_skip
  (* PTCPSession, sending half *)
  sent,        \* next byte to send
  window,      \* sent_window
  (* tasks of the engine process *)
  reader,      \* "handshake" until the engine is launched, then dh_reader:
               \* "read", "ack", or "dead" after a panic
  exited,      \* process::exit(75) was called
  (* UDP *)
  inbound,     \* datagrams from the camera: [id, ack], id 0 is PTCPBody::Empty
  outbound,    \* datagrams to the camera: [start, len, ack]
  (* the camera *)
  camNext,     \* next packet it sends for the first time
  camAcked,    \* packets up to this one are acknowledged
  camRecv,     \* next byte it expects from the engine
  (* history *)
  unheard,     \* bytes of the handshake's bodies the camera has not received
  delivered,   \* packets the handshake read and then recv() returned, in order
  discarded    \* TRUE once sent_window dropped a packet because it was full

receiveVars == <<recv, pending, gapPackets, gapSince, quiet, delivered>>
sendVars    == <<sent, window, discarded>>
cameraVars  == <<camNext, camAcked, camRecv, unheard>>
vars == <<recv, pending, gapPackets, gapSince, quiet, allowGapSkip, sent, window,
          reader, exited, inbound, outbound, camNext, camAcked, camRecv,
          unheard, delivered, discarded>>

-----------------------------------------------------------------------------
(* Packets and their sequence numbers. *)

Start(i) == Offset[i] % Modulus
Length(i) == Offset[i + 1] - Offset[i]
End(i) == WrapAdd(Start(i), Length(i))

InFlight  == [id : 0 .. NPackets, ack : U32]
Outgoing  == [start : U32, len : Nat, ack : U32]
Tracked   == [start : U32, len : Nat, ack : U32, retries : Nat]

TypeOK ==
  /\ recv \in U32
  /\ pending \subseteq Packets
  /\ gapPackets \in Nat
  /\ gapSince \in {"none", "running", "expired"}
  /\ quiet \in BOOLEAN
  /\ allowGapSkip \in GapPolicies
  /\ sent \in U32
  /\ window \in Seq(Tracked)
  /\ reader \in {"handshake", "read", "ack", "dead"}
  /\ exited \in BOOLEAN
  /\ inbound \subseteq InFlight
  /\ outbound \subseteq Outgoing
  /\ camNext \in 1 .. NPackets + 1
  /\ camAcked \in 0 .. NPackets
  /\ camRecv \in U32
  /\ unheard \in Nat
  /\ delivered \in Seq(Packets)
  /\ discarded \in BOOLEAN

\* The session as UDP.__init__ in helpers.py creates it.
Init ==
  /\ recv = Start(1)
  /\ pending = {}
  /\ gapPackets = 0
  /\ gapSince = "none"
  /\ quiet = FALSE
  /\ allowGapSkip \in GapPolicies
  /\ sent = 0
  /\ window = <<>>
  /\ reader = "handshake"
  /\ exited = FALSE
  /\ inbound = {}
  /\ outbound = {}
  /\ camNext = 1
  /\ camAcked = 0
  /\ camRecv = 0
  /\ unheard = 0
  /\ delivered = <<>>
  /\ discarded = FALSE

Launched == reader # "handshake"

-----------------------------------------------------------------------------
(* PTCPSession::recv *)

\* Mutant: any acknowledgement empties the window.
AcknowledgeEverything(ack) == window' = <<>>

\* acknowledge_sent: the acknowledged packets at the front leave the window.
Acknowledge(ack) ==
  \E k \in 0 .. Len(window) :
    /\ \A j \in 1 .. k : Covers(ack, WrapAdd(window[j].start, window[j].len))
    /\ k < Len(window) =>
         ~Covers(ack, WrapAdd(window[k + 1].start, window[k + 1].len))
    /\ window' = SubSeq(window, k + 1, Len(window))

\* ready is the run of packets in waiting that continues the stream at byte
\* from and cannot be continued further.
RunEnd(from, ready) == IF ready = <<>> THEN from ELSE End(Last(ready))

\* Mutant: the run need not start where the stream stands.
RunFromAnywhere(ready, waiting, from) ==
  /\ \A i \in DOMAIN ready : i > 1 => Start(ready[i]) = End(ready[i - 1])
  /\ \A i \in waiting : Start(i) # RunEnd(from, ready)

IsContiguousRun(ready, waiting, from) ==
  /\ \A i \in DOMAIN ready :
       Start(ready[i]) = IF i = 1 THEN from ELSE End(ready[i - 1])
  /\ \A i \in waiting : Start(i) # RunEnd(from, ready)

\* Mutants: one packet is drained at most; the gap clock is never reset.
DrainOnePacket(waiting, from, clock) ==
  LET ready == {i \in waiting : Start(i) = from}
  IN  /\ \E i \in ready : recv' = End(i) /\ delivered' = Append(delivered, i)
      /\ quiet' = FALSE
      /\ pending' = waiting \ ready
      /\ gapPackets' = IF pending' = {} THEN 0 ELSE 1
      /\ gapSince' = IF pending' = {} THEN "none" ELSE clock

DrainKeepsClock(waiting, from, clock) ==
  \E ready \in BoundedSeq(waiting, Cardinality(waiting)) :
    /\ IsContiguousRun(ready, waiting, from)
    /\ recv' = RunEnd(from, ready)
    /\ delivered' = delivered \o ready
    /\ quiet' = (quiet /\ ready = <<>>)
    /\ pending' = waiting \ ToSet(ready)
    /\ gapPackets' = IF pending' = {} THEN 0 ELSE 1
    /\ gapSince' = clock

\* drain_contiguous, with waiting the pending packets, from the value of recv
\* and clock the value of gap_since it starts from.
DrainContiguous(waiting, from, clock) ==
  \E ready \in BoundedSeq(waiting, Cardinality(waiting)) :
    /\ IsContiguousRun(ready, waiting, from)
    /\ recv' = RunEnd(from, ready)
    /\ delivered' = delivered \o ready
    /\ quiet' = (quiet /\ ready = <<>>)
    /\ pending' = waiting \ ToSet(ready)
    /\ gapPackets' = IF pending' = {} THEN 0 ELSE 1
    /\ gapSince' = IF pending' = {} THEN "none" ELSE clock

\* A packet that starts before recv, or ends at or before it.
IsStale(i) ==
  \/ Start(i) # recv /\ ~SequenceAfter(Start(i), recv)
  \/ ~SequenceAfter(End(i), recv)

\* The packet to jump to: the pending one nearest after recv.
IsNextStart(i, waiting) ==
  /\ SequenceAfter(Start(i), recv)
  /\ \A j \in waiting :
       SequenceAfter(Start(j), recv) =>
         WrapSub(Start(i), recv) <= WrapSub(Start(j), recv)

\* Mutant: the policy of P2P_ALLOW_GAP_SKIP is not asked.
SkipsGapAlways(i, waiting) ==
  \/ i \in Recovery
  \/ gapPackets + 1 >= GapPacketLimit
  \/ gapSince = "expired"

\* Whether recv() gives up on the bytes in front of the packets it holds.
SkipsGap(i, waiting) ==
  LET safeToSkip == i \notin Video /\ waiting \cap Video = {}
      gapExpired == gapSince = "expired"
  IN  /\ allowGapSkip
      /\ safeToSkip \/ gapExpired
      /\ \/ i \in Recovery
         \/ gapPackets + 1 >= GapPacketLimit
         \/ gapExpired

\* A packet beyond recv: it is kept, and the gap before it may be skipped.
BufferAhead(i) ==
  LET waiting == pending \cup {i}
      clock   == IF gapSince = "none" THEN "running" ELSE gapSince
  IN  \/ /\ SkipsGap(i, waiting)
         /\ \E next \in waiting :
              /\ IsNextStart(next, waiting)
              /\ DrainContiguous(waiting, Start(next), clock)
      \/ /\ ~SkipsGap(i, waiting)
         /\ pending' = waiting
         /\ gapPackets' = gapPackets + 1
         /\ gapSince' = clock
         /\ UNCHANGED <<recv, quiet, delivered>>

\* What recv() does with the body of a packet of the camera's stream.
Reorder(i) ==
  \/ IsStale(i) /\ UNCHANGED receiveVars
  \/ /\ ~IsStale(i)
     /\ Start(i) = recv
     /\ DrainContiguous({j \in pending : Start(j) # recv} \cup {i}, recv, gapSince)
  \/ /\ ~IsStale(i)
     /\ Start(i) # recv
     /\ \E j \in pending : Start(j) = Start(i)
     /\ UNCHANGED receiveVars
  \/ /\ ~IsStale(i)
     /\ Start(i) # recv
     /\ \A j \in pending : Start(j) # Start(i)
     /\ BufferAhead(i)

-----------------------------------------------------------------------------
(* The engine's tasks. *)

\* dh_reader: ptcp_read, then session.recv under the session mutex.  UDP may
\* leave a second copy of the datagram in flight.
Receive(p) ==
  /\ ~exited
  /\ reader = "read"
  /\ p \in inbound
  /\ inbound' \in {inbound, inbound \ {p}}
  /\ Acknowledge(p.ack)
  /\ IF p.id = 0
     THEN /\ reader' = "read"
          /\ UNCHANGED receiveVars
     ELSE /\ reader' = "ack"
          /\ Reorder(p.id)
  /\ UNCHANGED <<sent, discarded, exited, outbound, cameraVars, allowGapSkip>>

\* Mutant: the acknowledgement names the end of any packet held.
AckHighest ==
  /\ ~exited
  /\ reader = "ack"
  /\ reader' = "read"
  /\ \E ack \in {End(i) : i \in pending} \cup {recv} :
       outbound' = outbound \cup {[start |-> sent, len |-> 0, ack |-> ack]}
  /\ UNCHANGED <<receiveVars, sendVars, exited, inbound, cameraVars, allowGapSkip>>

\* dh_reader: the acknowledgement of what it just read, in a second critical
\* section; an Empty body is not tracked and does not advance sent.
SendAck ==
  /\ ~exited
  /\ reader = "ack"
  /\ reader' = "read"
  /\ outbound' = outbound \cup {[start |-> sent, len |-> 0, ack |-> recv]}
  /\ UNCHANGED <<receiveVars, sendVars, exited, inbound, cameraVars, allowGapSkip>>

\* dh_reader: PTCPPacket::parse asserts the magic; a datagram of another
\* protocol panics the task and leaves the process running without it.
ReaderPanics ==
  /\ StrayDatagrams
  /\ ~exited
  /\ reader = "read"
  /\ reader' = "dead"
  /\ UNCHANGED <<receiveVars, sendVars, exited, inbound, outbound, cameraVars, allowGapSkip>>

\* A bound: the bytes in flight stay within half of the counter's range.
RoomFor(len) ==
  /\ WrapSub(sent, camRecv) + len < HalfRange
  /\ window # <<>> => WrapSub(sent, window[1].start) + len < HalfRange
  /\ \A p \in outbound : WrapSub(sent, p.start) + len < HalfRange
  /\ \A p \in inbound : WrapSub(sent, p.ack) + len < HalfRange
  /\ Cardinality({p \in outbound : p.len > 0}) < MaxInFlight

-----------------------------------------------------------------------------
(* The Python handshake. *)

\* A packet of the camera's stream that read_ptcp counts: the next one, or one
\* it should not have taken.
CountedNext(i) ==
  \/ i = Len(delivered) + 1
  \/ "early" \in HandshakeTakes /\ i \notin ToSet(delivered)

CountedAgain(i) == "repeated" \in HandshakeTakes /\ i \in ToSet(delivered)

\* read_ptcp: every PTCP datagram counts, whatever its sequence number.  Copies
\* may stay in flight and reach the engine.
HandshakeReads(p) ==
  /\ ~exited
  /\ ~Launched
  /\ p \in inbound
  /\ inbound' \in {inbound, inbound \ {p}}
  /\ \/ p.id = 0 /\ UNCHANGED <<recv, delivered>>
     \/ /\ p.id # 0
        /\ recv' = WrapAdd(recv, Length(p.id))
        /\ \/ CountedNext(p.id) /\ delivered' = Append(delivered, p.id)
           \/ CountedAgain(p.id) /\ UNCHANGED delivered
  /\ UNCHANGED <<pending, gapPackets, gapSince, quiet, sendVars, reader,
                 exited, outbound, cameraVars, allowGapSkip>>

\* request_ptcp: nothing is kept for retransmission.
HandshakeSends(len) ==
  /\ ~exited
  /\ ~Launched
  /\ RoomFor(len)
  /\ sent' = WrapAdd(sent, len)
  /\ outbound' = outbound \cup {[start |-> sent, len |-> len, ack |-> recv]}
  /\ unheard' = unheard + len
  /\ UNCHANGED <<receiveVars, window, discarded, reader, exited, inbound,
                 camNext, camAcked, camRecv, allowGapSkip>>

\* launch_engine of the direct path: the control packets are read, and so is
\* any Empty datagram, which is taken for the answer to the last body.  The
\* engine adopts the socket and the counters (from_state), with an empty window.
HandOver(p) ==
  /\ ~exited
  /\ ~Launched
  /\ Len(delivered) >= Handoff
  /\ p \in inbound
  /\ p.id = 0
  /\ inbound' \in {inbound, inbound \ {p}}
  /\ reader' = "read"
  /\ UNCHANGED <<receiveVars, sendVars, exited, outbound, cameraVars, allowGapSkip>>

\* launch_engine of the relay path and of the fallbacks to it: the last body
\* was answered by a control packet, which the agent (external) sends only to
\* a body it received.
RelayHandOver ==
  /\ ~exited
  /\ ~Launched
  /\ Len(delivered) >= Handoff
  /\ unheard = 0
  /\ reader' = "read"
  /\ UNCHANGED <<receiveVars, sendVars, exited, inbound, outbound, cameraVars, allowGapSkip>>

-----------------------------------------------------------------------------
(* PTCPSession::send and the retransmission task. *)

\* dh_writer: PTCPSession::send of a body of len bytes, then the datagram.
Send(len) ==
  LET packet == [start |-> sent, len |-> len, ack |-> recv]
      full   == Len(window) >= MaxSentWindow
  IN  /\ ~exited
      /\ Launched
      /\ RoomFor(len)
      /\ sent' = WrapAdd(sent, len)
      /\ window' = Append(IF full THEN Tail(window) ELSE window,
                          [start |-> sent, len |-> len, ack |-> recv, retries |-> 0])
      /\ discarded' = (discarded \/ full)
      /\ outbound' = outbound \cup {packet}
      /\ UNCHANGED <<receiveVars, reader, exited, inbound, cameraVars, allowGapSkip>>

\* The retransmission task of main.rs, every 100 ms: due is the set of window
\* positions whose RETRANSMIT_AFTER has passed.  The retry counters are updated
\* before the stall check; a stalled session exits without sending anything.
Retryable == {j \in DOMAIN window : window[j].retries < MaxRetransmits}

\* Mutant: retransmissions are not counted.
RetransmitUncounted(due) ==
  /\ ~exited
  /\ due # {}
  /\ outbound' = outbound \cup
       {[start |-> window[j].start, len |-> window[j].len, ack |-> window[j].ack] : j \in due}
  /\ UNCHANGED <<receiveVars, sendVars, exited, reader, inbound, cameraVars, allowGapSkip>>

RetransmitTick(due) ==
  LET retried == [j \in DOMAIN window |->
                    IF j \in due
                    THEN [window[j] EXCEPT !.retries = @ + 1]
                    ELSE window[j]]
      stalled == quiet /\ \E j \in DOMAIN window : retried[j].retries >= MaxRetransmits
      copies  == {[start |-> window[j].start, len |-> window[j].len,
                   ack |-> window[j].ack] : j \in due}
  IN  /\ ~exited
      /\ due # {} \/ stalled
      /\ window' = retried
      /\ exited' = stalled
      /\ outbound' = IF stalled THEN outbound ELSE outbound \cup copies
      /\ UNCHANGED <<receiveVars, sent, discarded, reader, inbound, cameraVars, allowGapSkip>>

\* Any socket operation that keeps failing ends the process with status 75.
SocketFailure ==
  /\ ~exited
  /\ Launched
  /\ exited' = TRUE
  /\ UNCHANGED <<receiveVars, sendVars, reader, inbound, outbound, cameraVars, allowGapSkip>>

-----------------------------------------------------------------------------
(* Time. *)

\* gap_timeout() passes while a gap is open.
GapTimerExpires ==
  /\ ~exited
  /\ gapSince = "running"
  /\ gapSince' = "expired"
  /\ UNCHANGED <<recv, pending, gapPackets, quiet, delivered, sendVars, reader,
                 exited, inbound, outbound, cameraVars, allowGapSkip>>

\* 15 seconds pass since the last in-order delivery.
FallsQuiet ==
  /\ ~exited
  /\ Launched
  /\ ~quiet
  /\ quiet' = TRUE
  /\ UNCHANGED <<recv, pending, gapPackets, gapSince, delivered, sendVars, reader,
                 exited, inbound, outbound, cameraVars, allowGapSkip>>

-----------------------------------------------------------------------------
(* The camera and the network (external). *)

\* A bound: nothing in flight, or kept for retransmission, is older than half
\* of the counter's range, 2 GB of stream.
RoomForPacket(i) ==
  /\ Offset[i + 1] - Offset[camAcked + 1] < HalfRange
  /\ \A p \in inbound : p.id # 0 => Offset[i + 1] - Offset[p.id] < HalfRange
  /\ \A p \in outbound \cup ToSet(window) : WrapSub(End(i), p.ack) < HalfRange

\* The camera sends packet i for the first time and keeps it until it is
\* acknowledged.
CameraSends(i) ==
  /\ ~exited
  /\ i = camNext
  /\ i \in Packets
  /\ RoomForPacket(i)
  /\ Cardinality(inbound) < MaxInFlight
  /\ inbound' = inbound \cup {[id |-> i, ack |-> camRecv]}
  /\ camNext' = i + 1
  /\ UNCHANGED <<receiveVars, sendVars, reader, exited, outbound, camAcked, camRecv,
                 unheard, allowGapSkip>>

CameraResends(i) ==
  /\ ~exited
  /\ i \in camAcked + 1 .. camNext - 1
  /\ Cardinality(inbound) < MaxInFlight
  /\ inbound' = inbound \cup {[id |-> i, ack |-> camRecv]}
  /\ UNCHANGED <<receiveVars, sendVars, reader, exited, outbound, cameraVars, allowGapSkip>>

\* What is left of the handshake's bodies once the camera has received p.
StillUnheard(p) ==
  IF p.start # camRecv THEN unheard
  ELSE IF p.len < unheard THEN unheard - p.len ELSE 0

\* A datagram of the engine reaches the camera: it accepts the bytes it
\* expects next, notes the acknowledgement and answers a body with an Empty
\* acknowledgement of its own.
CameraReceives(p) ==
  /\ ~exited
  /\ p \in outbound
  /\ Cardinality(inbound) < MaxInFlight
  /\ outbound' \in {outbound, outbound \ {p}}
  /\ camRecv' = IF p.start = camRecv THEN WrapAdd(camRecv, p.len) ELSE camRecv
  /\ unheard' = StillUnheard(p)
  /\ \E a \in camAcked .. camNext - 1 :
       /\ camAcked' = a
       /\ a > camAcked => Covers(p.ack, End(a))
       /\ \A j \in a + 1 .. camNext - 1 : ~Covers(p.ack, End(j))
  /\ inbound' = IF p.len = 0 THEN inbound
                ELSE inbound \cup {[id |-> 0, ack |-> camRecv']}
  /\ UNCHANGED <<receiveVars, sendVars, reader, exited, camNext, allowGapSkip>>

LoseInbound(p) ==
  /\ ~exited
  /\ p \in inbound
  /\ inbound' = inbound \ {p}
  /\ UNCHANGED <<receiveVars, sendVars, reader, exited, outbound, cameraVars, allowGapSkip>>

LoseOutbound(p) ==
  /\ ~exited
  /\ p \in outbound
  /\ outbound' = outbound \ {p}
  /\ UNCHANGED <<receiveVars, sendVars, reader, exited, inbound, cameraVars, allowGapSkip>>

-----------------------------------------------------------------------------
HandshakeNext ==
  \/ \E p \in inbound : HandshakeReads(p)
  \/ \E len \in HandshakeLengths : HandshakeSends(len)
  \/ \E p \in inbound : HandOver(p)
  \/ RelayHandOver

EngineNext ==
  \/ \E p \in inbound : Receive(p)
  \/ SendAck
  \/ ReaderPanics
  \/ \E len \in SendLengths : Send(len)
  \/ \E due \in SUBSET Retryable : RetransmitTick(due)
  \/ SocketFailure

EnvironmentNext ==
  \/ GapTimerExpires
  \/ FallsQuiet
  \/ \E i \in Packets : CameraSends(i) \/ CameraResends(i)
  \/ \E p \in outbound : CameraReceives(p) \/ LoseOutbound(p)
  \/ \E p \in inbound : LoseInbound(p)

Next == HandshakeNext \/ EngineNext \/ EnvironmentNext

Spec == Init /\ [][Next]_vars

-----------------------------------------------------------------------------
(* Safety. *)

\* With strict ordering (the default gap policy) the packets of the camera's
\* stream are taken exactly once and in order, by the handshake and from the
\* byte it stopped at by recv(), whatever UDP does to the datagrams and across
\* counter wraparound.
DeliveredInOrder ==
  ~allowGapSkip => \A i \in DOMAIN delivered : delivered[i] = i

\* The acknowledgements dh_reader sends never make the camera forget a packet
\* that recv() has not returned: nothing is lost while the process lives.
NothingForgotten == ~allowGapSkip => camAcked <= Len(delivered)

\* The packet that continues the stream is never left waiting in pending, and
\* nothing already returned stays there (drain_contiguous runs to its end).
NothingStuckInPending ==
  \A i \in pending : SequenceAfter(Start(i), recv)

\* gap_since and gap_packets describe a gap exactly while one is open.
GapBookkeeping ==
  /\ pending = {} <=> gapPackets = 0
  /\ pending = {} <=> gapSince = "none"

\* Even with P2P_ALLOW_GAP_SKIP a packet is never returned twice or after a
\* later one: a late retransmission of skipped bytes is dropped as stale.
NeverBackwards ==
  \A i, j \in DOMAIN delivered : i < j => delivered[i] < delivered[j]

\* From the handover on, and until the send window overflows, every byte the
\* engine sent and the camera has not received is in the window, in order and
\* without holes, so that it can be sent again.  (The bodies of the handshake
\* are not: see LostBodyReconnects.)
WindowCoversUnreceived ==
  LET end(j) == WrapAdd(window[j].start, window[j].len)
      lacks  == WrapSub(sent, camRecv) - unheard
  IN  Launched /\ ~discarded =>
        IF window = <<>>
        THEN lacks = 0
        ELSE /\ lacks <= WrapSub(sent, window[1].start)
             /\ end(Len(window)) = sent
             /\ \A j \in 1 .. Len(window) - 1 : end(j) = window[j + 1].start

\* In strict ordering the session implements the ordered stream it stands for;
\* a session that may skip promises nothing, and is mapped to a stream in which
\* nothing happens.
Stream == INSTANCE OrderedStream WITH
  StreamLength <- NPackets,
  offered      <- IF allowGapSkip THEN 0 ELSE camNext - 1,
  taken        <- IF allowGapSkip THEN <<>> ELSE delivered,
  forgotten    <- IF allowGapSkip THEN 0 ELSE camAcked,
  broken       <- ~allowGapSkip /\ exited

ImplementsStream == Stream!Spec

-----------------------------------------------------------------------------
(* Liveness. *)

\* tokio runs every task; a timer that is due fires.
EngineFairness ==
  /\ WF_vars(SendAck)
  /\ WF_vars(RetransmitTick(Retryable))
  /\ WF_vars(FallsQuiet)

\* Nothing stays in flight for ever: in each direction the oldest datagram is
\* delivered or dropped, so that the bounds on them never block a task for good.
OldestInbound(p) ==
  \A q \in inbound : WrapSub(camRecv, q.ack) <= WrapSub(camRecv, p.ack)

OldestOutbound(p) ==
  \A q \in outbound : WrapSub(sent, q.start) <= WrapSub(sent, p.start)

NetworkDrains ==
  /\ WF_vars(\E p \in inbound : OldestInbound(p) /\ LoseInbound(p))
  /\ WF_vars(\E p \in outbound : OldestOutbound(p) /\ LoseOutbound(p))

\* UDP is fair-lossy: what is sent again and again arrives, also while
\* dh_reader is busy with an acknowledgement.  It is enough to ask this of the
\* packet recv() waits for and of the camera's acknowledgements.
Awaited(p) == p.id = Len(delivered) + 1

NetworkFairness ==
  /\ NetworkDrains
  /\ SF_vars(SendAck /\ \E p \in inbound : Awaited(p))
  /\ SF_vars(\E p \in inbound : Awaited(p) /\ Receive(p))
  /\ SF_vars(\E p \in inbound : p.id = 0 /\ Receive(p))
  /\ SF_vars(\E p \in outbound : p.start = camRecv /\ CameraReceives(p))

\* The camera retransmits what is not acknowledged.
CameraFairness == SF_vars(\E i \in Packets : i = Len(delivered) + 1 /\ CameraResends(i))

\* The heartbeat task queues a body every 5 seconds.
HeartbeatFairness == WF_vars(\E len \in SendLengths : Send(len))

LiveSpec ==
  Spec /\ EngineFairness /\ HeartbeatFairness /\ NetworkFairness /\ CameraFairness

\* In strict ordering every packet the camera has sent reaches the client's
\* channel unless the process ends (exit 75 and a new session) or dh_reader has
\* panicked: neither losses nor a gap can hold the stream up for ever.
EngineCatchesUp ==
  ~allowGapSkip /\ Launched /\ Len(delivered) < camNext - 1 ~>
    (Len(delivered) = camNext - 1 \/ exited \/ reader = "dead")

\* A process whose dh_reader has panicked does not linger: its heartbeats go
\* unacknowledged until the stall check ends it.
DeadReaderReconnects == reader = "dead" ~> exited

\* The camera waits for bytes that nobody can send again: a body of the
\* handshake that was lost, or one that the full window dropped.
Unsendable ==
  LET lacks == WrapSub(sent, camRecv)
      kept  == IF window = <<>> THEN 0 ELSE WrapSub(sent, window[1].start)
  IN  /\ Launched
      /\ lacks > kept
      /\ \A p \in outbound : p.start = camRecv => p.len = 0

\* A session whose camera waits for such bytes ends, so that a new one can be
\* opened: no heartbeat of it is acknowledged, and once the camera's stream
\* has fallen silent the stall check of the retransmission task exits.
LostBodyReconnects == Unsendable ~> exited

=============================================================================
