---------------------------- MODULE PtcpLinkProofs ----------------------------
(***************************************************************************)
(* Proofs about PtcpLink, for every stream, gap policy and limit.          *)
(*                                                                         *)
(* The gap's bookkeeping and the types are inductive by themselves.  For   *)
(* the order of the stream, StreamInv says at which packet the session     *)
(* stands and that nothing in flight is more than half of the counter's    *)
(* range away from it; for the retransmissions, SendInv measures every     *)
(* position of the engine's stream by its distance behind sent.            *)
(***************************************************************************)
EXTENDS PtcpLink, SequenceTheorems, WellFoundedInduction, TLAPS

-----------------------------------------------------------------------------
(* Bookkeeping. *)

\* The gap's bookkeeping is inductive once gap_packets is known to count.
GapInv == GapBookkeeping /\ gapPackets \in Nat

\* drain_contiguous resets the bookkeeping with the last packet it takes, if
\* the clock it was given runs whenever packets were waiting before.
LEMMA DrainKeepsBooks ==
  ASSUME NEW waiting, NEW from, NEW clock,
         DrainContiguous(waiting, from, clock),
         pending' # {} => clock # "none"
  PROVE  GapInv'
BY DEF DrainContiguous, GapInv, GapBookkeeping

\* A packet beyond recv opens a gap, keeps one open or skips it.
LEMMA BufferKeepsBooks ==
  ASSUME GapInv, NEW i, BufferAhead(i)
  PROVE  GapInv'
<1> DEFINE clock == IF gapSince = "none" THEN "running" ELSE gapSince
           waiting == pending \cup {i}
<1>1. clock # "none"
  OBVIOUS
<1>2. ASSUME NEW next, DrainContiguous(waiting, Start(next), clock)
      PROVE  GapInv'
  <2> HIDE DEF clock, waiting
  <2>1. QED
    BY <1>1, <1>2, DrainKeepsBooks
<1>3. ASSUME pending' = waiting, gapPackets' = gapPackets + 1, gapSince' = clock
      PROVE  GapInv'
  BY <1>1, <1>3 DEF GapInv, GapBookkeeping
<1>4. QED
  BY <1>2, <1>3 DEF BufferAhead

\* recv() keeps the bookkeeping whatever packet it is given.
LEMMA ReorderKeepsBooks ==
  ASSUME GapInv, NEW i, Reorder(i)
  PROVE  GapInv'
<1>1. CASE UNCHANGED receiveVars
  BY <1>1 DEF receiveVars, GapInv, GapBookkeeping
<1>2. ASSUME Start(i) = recv,
             DrainContiguous({j \in pending : Start(j) # recv} \cup {i}, recv, gapSince)
      PROVE  GapInv'
  <2> DEFINE waiting == {j \in pending : Start(j) # recv} \cup {i}
  <2>1. pending' # {} => gapSince # "none"
    <3>1. PICK ready \in BoundedSeq(waiting, Cardinality(waiting)) :
            /\ IsContiguousRun(ready, waiting, recv)
            /\ pending' = waiting \ ToSet(ready)
      BY <1>2 DEF DrainContiguous
    <3>2. i \in ToSet(ready)
      <4>1. ready # <<>>
        BY <1>2, <3>1 DEF IsContiguousRun, RunEnd
      <4>2. PICK n \in 0 .. Cardinality(waiting) : ready \in [1 .. n -> waiting]
        BY <3>1 DEF BoundedSeq, SeqOf
      <4>3. n \in Nat
        OBVIOUS
      <4>4. 1 \in DOMAIN ready /\ ready[1] \in waiting
        BY <4>1, <4>2, <4>3
      <4>5. ready[1] = i
        BY <3>1, <4>4 DEF IsContiguousRun
      <4>6. QED
        BY <4>4, <4>5 DEF ToSet
    <3>3. pending' \subseteq pending
      BY <3>1, <3>2
    <3>4. QED
      BY <3>3 DEF GapInv, GapBookkeeping
  <2>2. QED
    BY <1>2, <2>1, DrainKeepsBooks
<1>3. CASE BufferAhead(i)
  BY <1>3, BufferKeepsBooks
<1>4. QED
  BY <1>1, <1>2, <1>3 DEF Reorder

\* Only dh_reader and the gap timer touch the bookkeeping.
LEMMA StepKeepsBooks == GapInv /\ [Next]_vars => GapInv'
<1> SUFFICES ASSUME GapInv, [Next]_vars PROVE GapInv'
  OBVIOUS
<1>1. CASE UNCHANGED <<pending, gapPackets, gapSince>>
  BY <1>1 DEF GapInv, GapBookkeeping
<1>2. ASSUME NEW p \in inbound, Receive(p) PROVE GapInv'
  <2>1. CASE UNCHANGED receiveVars
    BY <1>1, <2>1 DEF receiveVars
  <2>2. CASE Reorder(p.id)
    BY <2>2, ReorderKeepsBooks
  <2>3. QED
    BY <1>2, <2>1, <2>2 DEF Receive
<1>3. CASE GapTimerExpires
  BY <1>3 DEF GapTimerExpires, GapInv, GapBookkeeping
<1>4. CASE FallsQuiet
  BY <1>1, <1>4 DEF FallsQuiet
<1>5. ASSUME NEW len \in SendLengths, Send(len) PROVE GapInv'
  BY <1>1, <1>5 DEF Send, receiveVars
<1>6. ASSUME NEW due, RetransmitTick(due) PROVE GapInv'
  BY <1>1, <1>6 DEF RetransmitTick, receiveVars
<1>7. CASE SendAck \/ ReaderPanics \/ SocketFailure
  BY <1>1, <1>7 DEF SendAck, ReaderPanics, SocketFailure, receiveVars
<1>8. ASSUME NEW i \in Packets, CameraSends(i) \/ CameraResends(i) PROVE GapInv'
  BY <1>1, <1>8 DEF CameraSends, CameraResends, receiveVars
<1>9. ASSUME NEW p, CameraReceives(p) \/ LoseOutbound(p) \/ LoseInbound(p) PROVE GapInv'
  BY <1>1, <1>9 DEF CameraReceives, LoseOutbound, LoseInbound, receiveVars
<1>10. CASE HandshakeNext
  BY <1>1, <1>10
  DEF HandshakeNext, HandshakeReads, HandshakeSends, HandOver, RelayHandOver, receiveVars
<1>11. CASE UNCHANGED vars
  BY <1>1, <1>11 DEF vars
<1>12. QED
  BY <1>2, <1>3, <1>4, <1>5, <1>6, <1>7, <1>8, <1>9, <1>10, <1>11
  DEF Next, EngineNext, EnvironmentNext

\* gap_since runs and gap_packets counts exactly while packets wait behind a
\* gap, so that a gap can always time out and a closed one never does.
THEOREM GapIsBookkept == Spec => []GapBookkeeping
<1>1. Init => GapInv
  BY DEF Init, GapInv, GapBookkeeping
<1>2. GapInv => GapBookkeeping
  BY DEF GapInv
<1>3. QED
  BY <1>1, <1>2, StepKeepsBooks, PTL DEF Spec

-----------------------------------------------------------------------------
(* Positions in the camera's stream and their sequence numbers. *)

\* The remainder is the one number below the modulus.
LEMMA RemainderIs ==
  ASSUME NEW m \in Nat \ {0}, NEW q \in Nat, NEW r \in 0 .. m - 1
  PROVE  (q * m + r) % m = r
<1> DEFINE a == q * m + r
           p == a \div m
           d == p - q
<1>1. a \in Nat
  OBVIOUS
<1>2. p \in Nat /\ a = p * m + (a % m) /\ a % m \in 0 .. m - 1
  BY <1>1
<1>3. d \in Int /\ d * m < m /\ d * m > 0 - m
  BY <1>2
<1>4. d = 0
  <2> HIDE DEF d
  <2>1. d >= 1 => d * m >= m
    BY <1>3
  <2>2. d <= -1 => d * m <= 0 - m
    BY <1>3
  <2>3. QED
    BY <1>3, <2>1, <2>2
<1>5. QED
  BY <1>2, <1>4

\* Within the range, wrapping addition and subtraction are those of the stream.
LEMMA WrapFollowsStream ==
  ASSUME NEW a \in Nat, NEW d \in 0 .. Modulus - 1
  PROVE  /\ a % Modulus \in U32
         /\ WrapAdd(a % Modulus, d) = (a + d) % Modulus
         /\ WrapSub((a + d) % Modulus, a % Modulus) = d
<1> DEFINE M == Modulus
           q == a \div M
           r == a % M
<1>1. M \in Nat \ {0}
  BY HalfRangeAssumption DEF Modulus
<1>0. d \in 0 .. M - 1
  OBVIOUS
<1> HIDE DEF M
<1>2. r \in 0 .. M - 1
  BY <1>1
<1>3. q \in Nat /\ a = q * M + r
  BY <1>1
<1> DEFINE s == (a + d) % M
<1> HIDE DEF q, r, s
<1>4. s = IF r + d < M THEN r + d ELSE r + d - M
  <2>1. CASE r + d < M
    <3>1. a + d = q * M + (r + d) /\ r + d \in 0 .. M - 1
      BY <1>0, <1>1, <1>2, <1>3, <2>1
    <3>2. QED
      BY <1>1, <1>2, <1>3, <2>1, <3>1, RemainderIs DEF s
  <2>2. CASE r + d >= M
    <3>1. /\ a + d = (q + 1) * M + (r + d - M) /\ r + d - M \in 0 .. M - 1
          /\ q + 1 \in Nat
      BY <1>0, <1>1, <1>2, <1>3, <2>2
    <3>2. ((q + 1) * M + (r + d - M)) % M = r + d - M
      BY <1>1, <3>1, RemainderIs
    <3>3. s = r + d - M
      BY <3>1, <3>2 DEF s
    <3>4. QED
      BY <1>0, <1>1, <1>2, <2>2, <3>3
  <2>3. QED
    BY <1>0, <1>1, <1>2, <2>1, <2>2
<1>5. QED
  BY <1>0, <1>1, <1>2, <1>4 DEF WrapAdd, WrapSub, U32, M, r, s

\* Less than half of the range lies between two positions.
Near(i, j) == Offset[j] - Offset[i] < HalfRange

Positions == 1 .. NPackets + 1

\* Offset grows along the stream.
LEMMA OffsetGrows ==
  /\ NPackets \in Nat
  /\ \A i \in Positions : Offset[i] \in Nat
  /\ \A i, j \in Positions : /\ i < j => Offset[i] < Offset[j]
                             /\ i <= j => Offset[i] <= Offset[j]
  /\ \A i \in Packets : /\ i \in Positions /\ i + 1 \in Positions
                        /\ Length(i) \in 1 .. HalfRange - 1
                        /\ Offset[i + 1] = Offset[i] + Length(i)
<1> USE StreamAssumption DEF Positions
<1>1. \A i \in Positions : i \in Nat /\ Offset[i] \in Nat
  OBVIOUS
<1>2. \A i, j \in Positions : /\ i < j => Offset[i] < Offset[j]
                              /\ i <= j => Offset[i] <= Offset[j]
  <2>1. \A i, j \in Positions : i < j => Offset[i] < Offset[j]
    OBVIOUS
  <2>2. \A i, j \in Positions : i <= j => i < j \/ i = j
    BY <1>1
  <2>3. \A i, j \in Positions : Offset[i] < Offset[j] => Offset[i] <= Offset[j]
    BY <1>1
  <2>4. \A i \in Positions : Offset[i] <= Offset[i]
    BY <1>1
  <2>5. QED
    BY <2>1, <2>2, <2>3, <2>4
<1>3. ASSUME NEW i \in Packets
      PROVE  /\ i \in Positions /\ i + 1 \in Positions
             /\ Length(i) \in 1 .. HalfRange - 1
             /\ Offset[i + 1] = Offset[i] + Length(i)
  <2>1. i \in Positions /\ i + 1 \in Positions /\ i < i + 1
    BY DEF Packets
  <2>2. Offset[i + 1] - Offset[i] < HalfRange
    OBVIOUS
  <2>3. Offset[i] \in Nat /\ Offset[i + 1] \in Nat /\ Offset[i] < Offset[i + 1]
    BY <1>1, <1>2, <2>1
  <2>4. QED
    BY <2>1, <2>2, <2>3, HalfRangeAssumption DEF Length
<1>4. QED
  BY <1>1, <1>2, <1>3

\* The sequence numbers of positions that are near tell them apart and in order.
LEMMA NearPositions ==
  ASSUME NEW i \in Positions, NEW j \in Positions, i <= j, Near(i, j)
  PROVE  /\ Start(i) \in U32 /\ Start(j) \in U32
         /\ WrapSub(Start(j), Start(i)) = Offset[j] - Offset[i]
         /\ i < j => /\ SequenceAfter(Start(j), Start(i))
                     /\ ~SequenceAfter(Start(i), Start(j))
                     /\ Start(i) # Start(j)
<1> DEFINE d == Offset[j] - Offset[i]
<1>1. /\ Offset[i] \in Nat /\ Offset[j] \in Nat /\ Offset[j] = Offset[i] + d
      /\ d \in 0 .. HalfRange - 1 /\ (i < j => d > 0)
  <2>1. /\ Offset[i] \in Nat /\ Offset[j] \in Nat
        /\ i < j => Offset[i] < Offset[j]
        /\ Offset[i] <= Offset[j]
    BY OffsetGrows
  <2>2. QED
    BY <2>1, HalfRangeAssumption DEF Near
<1>2. d \in 0 .. Modulus - 1
  BY <1>1, HalfRangeAssumption DEF Modulus
<1> HIDE DEF d
<1>3. Start(i) \in U32 /\ Start(j) \in U32 /\ WrapSub(Start(j), Start(i)) = d
  BY <1>1, <1>2, WrapFollowsStream DEF Start
<1>4. d > 0 => /\ SequenceAfter(Start(j), Start(i))
               /\ ~SequenceAfter(Start(i), Start(j))
               /\ Start(i) # Start(j)
  BY <1>1, <1>3, HalfRangeAssumption DEF SequenceAfter, WrapSub, U32, Modulus
<1>5. QED
  BY <1>1, <1>3, <1>4 DEF d

\* Positions between near ones are near.
LEMMA NearWithin ==
  ASSUME NEW i \in Positions, NEW j \in Positions, Near(i, j),
         NEW k \in Positions, NEW l \in Positions, i <= k, k <= l, l <= j
  PROVE  Near(k, l)
<1>1. /\ Offset[i] \in Nat /\ Offset[j] \in Nat /\ Offset[k] \in Nat /\ Offset[l] \in Nat
      /\ Offset[i] <= Offset[k] /\ Offset[l] <= Offset[j]
  <2>1. i \in Nat /\ j \in Nat /\ k \in Nat /\ l \in Nat
    BY OffsetGrows DEF Positions
  <2>2. Offset[i] \in Nat /\ Offset[j] \in Nat /\ Offset[k] \in Nat /\ Offset[l] \in Nat
    BY OffsetGrows
  <2>3. Offset[i] <= Offset[k]
    BY OffsetGrows
  <2>4. Offset[l] <= Offset[j]
    BY OffsetGrows
  <2>5. QED
    BY <2>2, <2>3, <2>4
<1>2. QED
  BY <1>1, HalfRangeAssumption DEF Near

\* A packet ends where the next one starts.
LEMMA EndIsNextStart ==
  ASSUME NEW i \in Packets
  PROVE  /\ i \in Positions /\ i + 1 \in Positions
         /\ Length(i) \in 1 .. HalfRange - 1
         /\ Near(i, i + 1)
         /\ End(i) = Start(i + 1) /\ End(i) \in U32 /\ Start(i) \in U32
<1>1. /\ i \in Positions /\ i + 1 \in Positions
      /\ Offset[i] \in Nat /\ Offset[i + 1] = Offset[i] + Length(i)
      /\ Length(i) \in 1 .. HalfRange - 1
  BY OffsetGrows
<1>2. Near(i, i + 1)
  BY <1>1, HalfRangeAssumption DEF Near
<1>3. Length(i) \in 0 .. Modulus - 1
  BY <1>1, HalfRangeAssumption DEF Modulus
<1>4. End(i) = Start(i + 1)
  BY <1>1, <1>3, WrapFollowsStream DEF End, Start
<1>5. QED
  <2>1. i <= i + 1
    BY <1>1 DEF Positions
  <2>2. Start(i) \in U32 /\ Start(i + 1) \in U32
    BY <1>1, <1>2, <2>1, NearPositions
  <2>3. QED
    BY <1>1, <1>2, <1>4, <2>2

-----------------------------------------------------------------------------
(* Types. *)

\* A datagram of the engine is shorter than half of the range, and what is kept
\* for retransmission is not empty.
ShortOutgoing == [start : U32, len : 0 .. HalfRange - 1, ack : U32]
ShortTracked  == [start : U32, len : 1 .. HalfRange - 1, ack : U32, retries : Nat]

ReceiverTyped ==
  /\ recv \in U32
  /\ pending \subseteq Packets
  /\ gapPackets \in Nat
  /\ gapSince \in {"none", "running", "expired"}
  /\ quiet \in BOOLEAN
  /\ delivered \in Seq(Packets)

SenderTyped ==
  /\ sent \in U32
  /\ window \in Seq(ShortTracked)
  /\ discarded \in BOOLEAN

TasksTyped ==
  /\ allowGapSkip \in GapPolicies
  /\ reader \in {"handshake", "read", "ack", "dead"}
  /\ exited \in BOOLEAN

WorldTyped ==
  /\ inbound \subseteq InFlight
  /\ outbound \subseteq ShortOutgoing
  /\ camNext \in Positions
  /\ camAcked \in 0 .. NPackets
  /\ camRecv \in U32
  /\ unheard \in Nat

TypeInv == ReceiverTyped /\ SenderTyped /\ TasksTyped /\ WorldTyped

\* The types of the proofs are those of the runs, and more.
LEMMA TypeInvTypes == TypeInv => TypeOK
<1> SUFFICES ASSUME TypeInv PROVE TypeOK
  OBVIOUS
<1>1. ShortTracked \subseteq Tracked /\ ShortOutgoing \subseteq Outgoing
  BY HalfRangeAssumption DEF ShortTracked, Tracked, ShortOutgoing, Outgoing
<1>2. window \in Seq(Tracked)
  BY <1>1, SeqDef DEF TypeInv, SenderTyped
<1>3. QED
  BY <1>1, <1>2
  DEF TypeInv, ReceiverTyped, SenderTyped, TasksTyped, WorldTyped, TypeOK, Positions

\* Adding less than half of the range stays within it.
LEMMA WrapAddTyped ==
  ASSUME NEW a \in U32, NEW b \in 0 .. HalfRange - 1
  PROVE  WrapAdd(a, b) \in U32
BY HalfRangeAssumption DEF U32, Modulus, WrapAdd

\* A sequence of at most n elements is a sequence.
LEMMA BoundedSeqTyped ==
  ASSUME NEW S, NEW n, NEW s \in BoundedSeq(S, n)
  PROVE  s \in Seq(S)
<1>1. PICK m \in 0 .. n : s \in [1 .. m -> S]
  BY DEF BoundedSeq, SeqOf
<1>2. m \in Nat
  OBVIOUS
<1>3. QED
  BY <1>1, <1>2, SeqDef

\* What drain_contiguous returns and keeps are packets that waited.
LEMMA DrainTyped ==
  ASSUME NEW waiting \in SUBSET Packets, NEW from \in U32,
         NEW clock \in {"none", "running", "expired"},
         delivered \in Seq(Packets), quiet \in BOOLEAN,
         DrainContiguous(waiting, from, clock)
  PROVE  ReceiverTyped'
<1>1. PICK ready \in BoundedSeq(waiting, Cardinality(waiting)) :
        /\ recv' = RunEnd(from, ready)
        /\ delivered' = delivered \o ready
        /\ quiet' = (quiet /\ ready = <<>>)
        /\ pending' = waiting \ ToSet(ready)
        /\ gapPackets' = IF pending' = {} THEN 0 ELSE 1
        /\ gapSince' = IF pending' = {} THEN "none" ELSE clock
  BY DEF DrainContiguous
<1>2. ready \in Seq(waiting) /\ ready \in Seq(Packets)
  BY BoundedSeqTyped, SeqDef
<1>3. recv' \in U32
  <2>1. CASE ready = <<>>
    BY <1>1, <2>1 DEF RunEnd
  <2>2. CASE ready # <<>>
    <3>1. Len(ready) \in 1 .. Len(ready)
      BY <1>2, <2>2, EmptySeq, LenProperties
    <3>2. Last(ready) \in Packets
      BY <1>2, <3>1, ElementOfSeq DEF Last
    <3>3. QED
      BY <1>1, <2>2, <3>2, EndIsNextStart DEF RunEnd
  <2>3. QED
    BY <2>1, <2>2
<1>4. delivered' \in Seq(Packets)
  BY <1>1, <1>2, ConcatProperties
<1>5. QED
  BY <1>1, <1>3, <1>4 DEF ReceiverTyped

\* So recv() keeps its types.
LEMMA ReorderTyped ==
  ASSUME ReceiverTyped, NEW i \in Packets, Reorder(i)
  PROVE  ReceiverTyped'
<1>1. CASE UNCHANGED receiveVars
  BY <1>1 DEF ReceiverTyped, receiveVars
<1>2. CASE DrainContiguous({j \in pending : Start(j) # recv} \cup {i}, recv, gapSince)
  BY <1>2, DrainTyped DEF ReceiverTyped
<1>3. CASE BufferAhead(i)
  <2> DEFINE waiting == pending \cup {i}
             clock == IF gapSince = "none" THEN "running" ELSE gapSince
  <2>1. waiting \in SUBSET Packets /\ clock \in {"none", "running", "expired"}
    BY DEF ReceiverTyped
  <2>2. ASSUME NEW next \in waiting, DrainContiguous(waiting, Start(next), clock)
        PROVE  ReceiverTyped'
    <3>1. Start(next) \in U32
      BY <2>1, <2>2, EndIsNextStart
    <3> HIDE DEF waiting, clock
    <3>2. QED
      BY <2>1, <2>2, <3>1, DrainTyped DEF ReceiverTyped
  <2>3. ASSUME pending' = waiting, gapPackets' = gapPackets + 1, gapSince' = clock,
               UNCHANGED <<recv, quiet, delivered>>
        PROVE  ReceiverTyped'
    BY <2>1, <2>3 DEF ReceiverTyped
  <2>4. QED
    BY <1>3, <2>2, <2>3 DEF BufferAhead
<1>4. QED
  BY <1>1, <1>2, <1>3 DEF Reorder

\* acknowledge_sent drops the front of the window.
LEMMA AcknowledgeDrops ==
  ASSUME SenderTyped, NEW ack, Acknowledge(ack)
  PROVE  \E k \in 0 .. Len(window) :
           /\ window' \in Seq(ShortTracked) /\ Len(window') = Len(window) - k
           /\ \A j \in 1 .. Len(window) - k : window'[j] = window[j + k]
           /\ k > 0 => Covers(ack, WrapAdd(window[k].start, window[k].len))
<1>1. PICK k \in 0 .. Len(window) :
        /\ \A j \in 1 .. k : Covers(ack, WrapAdd(window[j].start, window[j].len))
        /\ window' = SubSeq(window, k + 1, Len(window))
  BY DEF Acknowledge
<1>2. window \in Seq(ShortTracked) /\ Len(window) \in Nat /\ k \in Nat /\ k <= Len(window)
  BY LenProperties DEF SenderTyped
<1>3. \A j \in k + 1 .. Len(window) : window[j] \in ShortTracked
  BY <1>2, ElementOfSeq
<1>4. /\ window' \in Seq(ShortTracked)
      /\ Len(window') = IF k + 1 <= Len(window) THEN Len(window) - (k + 1) + 1 ELSE 0
      /\ \A j \in 1 .. Len(window) - (k + 1) + 1 : window'[j] = window[(k + 1) + j - 1]
  BY <1>1, <1>2, <1>3, SubSeqProperties
<1>5. Len(window') = Len(window) - k
  BY <1>2, <1>4
<1>6. ASSUME NEW j \in 1 .. Len(window) - k PROVE window'[j] = window[j + k]
  <2>1. j \in 1 .. Len(window) - (k + 1) + 1 /\ (k + 1) + j - 1 = j + k
    BY <1>2
  <2>2. QED
    BY <1>4, <2>1
<1>7. k > 0 => k \in 1 .. k
  BY <1>2
<1>8. QED
  BY <1>1, <1>4, <1>5, <1>6, <1>7

\* A retransmission changes nothing in the window but the retry counters.
LEMMA RetransmitTracks ==
  ASSUME SenderTyped, NEW due, RetransmitTick(due)
  PROVE  /\ window' \in Seq(ShortTracked) /\ Len(window') = Len(window)
         /\ \A j \in 1 .. Len(window) :
              /\ window'[j].start = window[j].start
              /\ window'[j].len = window[j].len
              /\ window'[j].ack = window[j].ack
<1>1. window \in Seq(ShortTracked) /\ Len(window) \in Nat /\ DOMAIN window = 1 .. Len(window)
  BY LenProperties DEF SenderTyped
<1>2. window' = [j \in 1 .. Len(window) |->
                   IF j \in due THEN [window[j] EXCEPT !.retries = @ + 1] ELSE window[j]]
  BY <1>1 DEF RetransmitTick
<1>3. ASSUME NEW j \in 1 .. Len(window)
      PROVE  /\ window'[j] \in ShortTracked
             /\ window'[j].start = window[j].start
             /\ window'[j].len = window[j].len
             /\ window'[j].ack = window[j].ack
  <2>1. window[j] \in ShortTracked
    BY <1>1, ElementOfSeq
  <2>2. QED
    BY <1>2, <2>1 DEF ShortTracked
<1>4. window' \in [1 .. Len(window) -> ShortTracked]
  BY <1>2, <1>3
<1>5. window' \in Seq(ShortTracked)
  BY <1>1, <1>4, SeqDef
<1>6. Len(window') = Len(window)
  BY <1>1, <1>4, <1>5, LenProperties
<1>7. QED
  BY <1>3, <1>5, <1>6

\* Send adds to the window at its end, and drops its front when it is full.
LEMMA SendTracks ==
  ASSUME SenderTyped, recv \in U32, NEW len \in SendLengths, Send(len)
  PROVE  LET full == Len(window) >= MaxSentWindow
             kept == IF full THEN Len(window) - 1 ELSE Len(window)
             packet == [start |-> sent, len |-> len, ack |-> recv, retries |-> 0]
         IN  /\ window' \in Seq(ShortTracked) /\ packet \in ShortTracked
             /\ Len(window) \in Nat /\ (full => Len(window) > 0)
             /\ Len(window') = kept + 1 /\ window'[kept + 1] = packet
             /\ \A j \in 1 .. kept : window'[j] = window[IF full THEN j + 1 ELSE j]
<1> DEFINE full == Len(window) >= MaxSentWindow
           front == IF full THEN Tail(window) ELSE window
           packet == [start |-> sent, len |-> len, ack |-> recv, retries |-> 0]
<1>1. packet \in ShortTracked
  BY LimitAssumption, HalfRangeAssumption DEF SenderTyped, ShortTracked
<1>2. window \in Seq(ShortTracked) /\ Len(window) \in Nat
  BY LenProperties DEF SenderTyped
<1>3. full => window # <<>> /\ Len(window) > 0
  BY <1>2, LimitAssumption, EmptySeq
<1>4. /\ front \in Seq(ShortTracked)
      /\ Len(front) = IF full THEN Len(window) - 1 ELSE Len(window)
      /\ \A j \in 1 .. Len(front) : front[j] = window[IF full THEN j + 1 ELSE j]
  BY <1>2, <1>3, HeadTailProperties
<1>5. window' = Append(front, packet)
  BY DEF Send
<1> HIDE DEF front, packet
<1>6. /\ window' \in Seq(ShortTracked) /\ Len(window') = Len(front) + 1
      /\ \A j \in 1 .. Len(front) : window'[j] = front[j]
      /\ window'[Len(front) + 1] = packet
  BY <1>1, <1>4, <1>5, AppendProperties
<1>7. QED
  BY <1>1, <1>2, <1>3, <1>4, <1>6 DEF packet

\* Every step keeps the types.
LEMMA StepTyped == TypeInv /\ [Next]_vars => TypeInv'
<1> SUFFICES ASSUME TypeInv, [Next]_vars PROVE TypeInv'
  OBVIOUS
<1> USE DEF TypeInv
<1>1. ASSUME UNCHANGED receiveVars PROVE ReceiverTyped'
  BY <1>1 DEF ReceiverTyped, receiveVars
<1>2. ASSUME UNCHANGED sendVars PROVE SenderTyped'
  BY <1>2 DEF SenderTyped, sendVars
<1>3. ASSUME UNCHANGED <<inbound, outbound, cameraVars>> PROVE WorldTyped'
  BY <1>3 DEF WorldTyped, cameraVars
<1>4. ASSUME NEW len \in 0 .. HalfRange - 1,
             NEW out \in {[start |-> sent, len |-> len, ack |-> recv]}
      PROVE  out \in ShortOutgoing
  BY <1>4 DEF ShortOutgoing, ReceiverTyped, SenderTyped
<1>5. ASSUME NEW p \in inbound, HandshakeReads(p) PROVE TypeInv'
  <2>1. p.id \in 0 .. NPackets
    BY DEF WorldTyped, InFlight
  <2>2. recv' \in U32 /\ delivered' \in Seq(Packets)
    <3>1. CASE p.id = 0
      BY <1>5, <3>1 DEF HandshakeReads, ReceiverTyped
    <3>2. CASE p.id # 0
      <4>1. p.id \in Packets
        BY <2>1, <3>2, OffsetGrows DEF Packets
      <4>2. Length(p.id) \in 0 .. HalfRange - 1
        BY <4>1, EndIsNextStart
      <4>3. recv' = WrapAdd(recv, Length(p.id))
        BY <1>5, <3>2 DEF HandshakeReads
      <4>4. recv' \in U32
        BY <4>2, <4>3, WrapAddTyped DEF ReceiverTyped
      <4>5. delivered' = Append(delivered, p.id) \/ delivered' = delivered
        BY <1>5, <3>2 DEF HandshakeReads
      <4>6. QED
        BY <4>1, <4>4, <4>5, AppendProperties DEF ReceiverTyped
    <3>3. QED
      BY <3>1, <3>2
  <2>3. QED
    BY <1>2, <1>5, <2>2
    DEF HandshakeReads, ReceiverTyped, TasksTyped, WorldTyped, cameraVars
<1>6. ASSUME NEW len \in HandshakeLengths, HandshakeSends(len) PROVE TypeInv'
  <2>1. len \in 0 .. HalfRange - 1
    BY LimitAssumption
  <2>2. sent' \in U32
    BY <1>6, <2>1, WrapAddTyped DEF HandshakeSends, SenderTyped
  <2>3. outbound' \subseteq ShortOutgoing
    BY <1>4, <1>6, <2>1 DEF HandshakeSends, WorldTyped
  <2>4. unheard' \in Nat
    BY <1>6, <2>1, HalfRangeAssumption DEF HandshakeSends, WorldTyped
  <2>5. QED
    BY <1>1, <1>6, <2>2, <2>3, <2>4
    DEF HandshakeSends, SenderTyped, TasksTyped, WorldTyped
<1>7. CASE RelayHandOver \/ ReaderPanics \/ SocketFailure
  BY <1>1, <1>2, <1>3, <1>7 DEF RelayHandOver, ReaderPanics, SocketFailure, TasksTyped
<1>8. ASSUME NEW p \in inbound, Receive(p) PROVE TypeInv'
  <2>1. p.id \in 0 .. NPackets
    BY DEF WorldTyped, InFlight
  <2>2. ReceiverTyped'
    <3>1. CASE p.id = 0
      BY <1>1, <1>8, <3>1 DEF Receive
    <3>2. CASE p.id # 0
      <4>1. p.id \in Packets
        BY <2>1, <3>2, OffsetGrows DEF Packets
      <4>2. QED
        BY <1>8, <3>2, <4>1, ReorderTyped DEF Receive
    <3>3. QED
      BY <3>1, <3>2
  <2>3. window' \in Seq(ShortTracked)
    BY <1>8, AcknowledgeDrops DEF Receive
  <2>4. QED
    BY <1>8, <2>2, <2>3 DEF Receive, SenderTyped, TasksTyped, WorldTyped, cameraVars
<1>9. CASE SendAck
  <2>1. 0 \in 0 .. HalfRange - 1
    BY HalfRangeAssumption
  <2>2. outbound' \subseteq ShortOutgoing
    BY <1>4, <1>9, <2>1 DEF SendAck, WorldTyped
  <2>3. QED
    BY <1>1, <1>2, <1>9, <2>2 DEF SendAck, TasksTyped, WorldTyped, cameraVars
<1>10. ASSUME NEW len \in SendLengths, Send(len) PROVE TypeInv'
  <2>1. len \in 0 .. HalfRange - 1
    BY LimitAssumption, HalfRangeAssumption
  <2>2. sent' \in U32
    BY <1>10, <2>1, WrapAddTyped DEF Send, SenderTyped
  <2>3. window' \in Seq(ShortTracked)
    BY <1>10, SendTracks DEF ReceiverTyped
  <2>4. discarded' \in BOOLEAN
    BY <1>10 DEF Send, SenderTyped
  <2>5. outbound' \subseteq ShortOutgoing
    BY <1>4, <1>10, <2>1 DEF Send, WorldTyped
  <2>6. QED
    BY <1>1, <1>10, <2>2, <2>3, <2>4, <2>5
    DEF Send, SenderTyped, TasksTyped, WorldTyped, cameraVars
<1>11. ASSUME NEW due \in SUBSET Retryable, RetransmitTick(due) PROVE TypeInv'
  <2>1. window' \in Seq(ShortTracked)
    BY <1>11, RetransmitTracks
  <2>2. \A j \in DOMAIN window :
          [start |-> window[j].start, len |-> window[j].len, ack |-> window[j].ack]
            \in ShortOutgoing
    <3>1. SUFFICES ASSUME NEW j \in DOMAIN window
                   PROVE  [start |-> window[j].start, len |-> window[j].len,
                           ack |-> window[j].ack] \in ShortOutgoing
      OBVIOUS
    <3>2. window[j] \in ShortTracked
      BY <3>1, LenProperties, ElementOfSeq DEF SenderTyped
    <3>3. QED
      BY <3>2, HalfRangeAssumption DEF ShortTracked, ShortOutgoing
  <2>3. outbound' \subseteq ShortOutgoing
    BY <1>11, <2>2 DEF RetransmitTick, Retryable, WorldTyped
  <2>4. exited' \in BOOLEAN
    BY <1>11 DEF RetransmitTick
  <2>5. QED
    BY <1>1, <1>11, <2>1, <2>3, <2>4
    DEF RetransmitTick, SenderTyped, TasksTyped, WorldTyped, cameraVars
<1>12. CASE GapTimerExpires \/ FallsQuiet
  BY <1>2, <1>3, <1>12 DEF GapTimerExpires, FallsQuiet, ReceiverTyped, TasksTyped
<1>13. ASSUME NEW i \in Packets, CameraSends(i) \/ CameraResends(i) PROVE TypeInv'
  <2>1. [id |-> i, ack |-> camRecv] \in InFlight
    BY OffsetGrows DEF WorldTyped, InFlight, Packets
  <2>2. i + 1 \in Positions
    BY OffsetGrows
  <2>3. QED
    BY <1>1, <1>2, <1>13, <2>1, <2>2
    DEF CameraSends, CameraResends, TasksTyped, WorldTyped, cameraVars
<1>14. ASSUME NEW p \in outbound, CameraReceives(p) PROVE TypeInv'
  <2>1. p \in ShortOutgoing
    BY DEF WorldTyped
  <2>2. camRecv' \in U32
    BY <1>14, <2>1, WrapAddTyped DEF CameraReceives, WorldTyped, ShortOutgoing
  <2>3. [id |-> 0, ack |-> camRecv'] \in InFlight
    BY <2>2, OffsetGrows DEF InFlight
  <2>4. camAcked' \in 0 .. NPackets
    BY <1>14, OffsetGrows DEF CameraReceives, WorldTyped, Positions
  <2>5. unheard' \in Nat
    BY <1>14, <2>1, HalfRangeAssumption
    DEF CameraReceives, StillUnheard, WorldTyped, ShortOutgoing
  <2>6. QED
    BY <1>1, <1>2, <1>14, <2>2, <2>3, <2>4, <2>5 DEF CameraReceives, TasksTyped, WorldTyped
<1>15. ASSUME NEW p, LoseOutbound(p) \/ LoseInbound(p) PROVE TypeInv'
  BY <1>1, <1>2, <1>15 DEF LoseOutbound, LoseInbound, TasksTyped, WorldTyped, cameraVars
<1>16. CASE UNCHANGED vars
  BY <1>1, <1>2, <1>3, <1>16
  DEF vars, receiveVars, sendVars, cameraVars, TasksTyped
<1>17. ASSUME NEW p \in inbound, HandOver(p) PROVE TypeInv'
  BY <1>1, <1>2, <1>17 DEF HandOver, TasksTyped, WorldTyped, cameraVars
<1>18. QED
  BY <1>5, <1>6, <1>7, <1>8, <1>9, <1>10, <1>11, <1>12, <1>13, <1>14, <1>15, <1>16, <1>17
  DEF Next, HandshakeNext, EngineNext, EnvironmentNext

\* The session starts with its types.
LEMMA InitTyped == Init => TypeInv
<1> SUFFICES ASSUME Init PROVE TypeInv
  OBVIOUS
<1>1. 1 \in Positions /\ 0 \in U32 /\ 0 \in 0 .. NPackets
  BY OffsetGrows, HalfRangeAssumption DEF Positions, U32, Modulus
<1>2. Start(1) \in U32
  <2>1. Near(1, 1)
    BY <1>1, OffsetGrows, HalfRangeAssumption DEF Near
  <2>2. 1 <= 1
    OBVIOUS
  <2>3. QED
    BY <1>1, <2>1, <2>2, NearPositions
<1>3. ReceiverTyped /\ SenderTyped
  BY <1>1, <1>2, EmptySeq DEF Init, ReceiverTyped, SenderTyped
<1>4. TasksTyped /\ WorldTyped
  BY <1>1 DEF Init, TasksTyped, WorldTyped
<1>5. QED
  BY <1>3, <1>4 DEF TypeInv

\* Every variable of the session, the network and the camera keeps its type:
\* no counter leaves 32 bits, no packet outside the stream is ever delivered.
THEOREM TypeCorrect == Spec => []TypeOK
BY InitTyped, StepTyped, TypeInvTypes, PTL DEF Spec

-----------------------------------------------------------------------------
(* The order of the stream, as long as the handshake reads nothing twice. *)

\* The last packet that was taken.
Pos == IF delivered = <<>> THEN 0 ELSE Last(delivered)

DeliveredGrows ==
  /\ NeverBackwards
  /\ \A i \in DOMAIN delivered : delivered[i] < camNext

\* Without skipping, nothing is left out; the handshake never skips.
StrictlyOrdered ==
  ~allowGapSkip \/ ~Launched => \A i \in DOMAIN delivered : delivered[i] = i

StandsAtPos == recv = Start(Pos + 1)

PendingAhead ==
  /\ \A i \in pending : Pos + 1 < i /\ i < camNext
  /\ ~Launched => pending = {}

\* Every acknowledgement names the end of a packet that was taken.
AckNames(ack, pos, next) == \E k \in 0 .. pos : ack = Start(k + 1) /\ Near(k + 1, next)

AcksTrue ==
  /\ \A p \in outbound : AckNames(p.ack, Pos, camNext)
  /\ \A j \in DOMAIN window : AckNames(window[j].ack, Pos, camNext)

CameraKeeps == camAcked <= Pos /\ Near(camAcked + 1, camNext)

PacketsNear == \A p \in inbound : p.id # 0 => p.id < camNext /\ Near(p.id, camNext)

ReceivedInv == DeliveredGrows /\ StrictlyOrdered /\ StandsAtPos /\ PendingAhead

StreamInv ==
  /\ ReceivedInv
  /\ AcksTrue
  /\ CameraKeeps
  /\ PacketsNear

\* A nonempty set of numbers has a least element.
LEMMA LeastElement ==
  ASSUME NEW S, S \subseteq Nat, S # {}
  PROVE  \E m \in S : \A n \in S : m <= n
<1>1. IsWellFoundedOn(OpToRel(<, Nat), Nat)
  BY NatLessThanWellFounded
<1>2. PICK m \in S : \A n \in S : ~(<<n, m>> \in OpToRel(<, Nat))
  BY <1>1, WFMin
<1>3. \A n \in S : ~(n < m)
  BY <1>2 DEF OpToRel
<1>4. QED
  BY <1>3

\* Where the session stands, and what is near.
LEMMA PosIsTaken ==
  ASSUME TypeInv, StreamInv
  PROVE  /\ Len(delivered) \in Nat /\ DOMAIN delivered = 1 .. Len(delivered)
         /\ camNext \in Nat /\ camNext \in Positions
         /\ Pos \in 0 .. camNext - 1 /\ Pos + 1 \in Positions
         /\ Near(Pos + 1, camNext)
         /\ \A i \in DOMAIN delivered : delivered[i] \in Packets /\ delivered[i] <= Pos
         /\ ~allowGapSkip \/ ~Launched => Pos = Len(delivered)
         /\ camAcked \in Nat
<1>1. /\ delivered \in Seq(Packets) /\ Len(delivered) \in Nat
      /\ DOMAIN delivered = 1 .. Len(delivered)
      /\ \A i \in DOMAIN delivered : delivered[i] \in Packets
  BY LenProperties, ElementOfSeq DEF TypeInv, ReceiverTyped
<1>2. camNext \in Nat /\ camNext \in Positions /\ camNext >= 1 /\ camAcked \in Nat
  BY OffsetGrows DEF TypeInv, WorldTyped, Positions
<1>3. CASE delivered = <<>>
  <2>1. Len(delivered) = 0 /\ Pos = 0 /\ DOMAIN delivered = {}
    BY <1>1, <1>3, EmptySeq DEF Pos
  <2>2. 1 \in Positions /\ camAcked + 1 \in Positions
    BY <1>2, <2>1, OffsetGrows DEF Positions, StreamInv, CameraKeeps
  <2>3. Near(Pos + 1, camNext)
    <3>1. camAcked = 0
      BY <1>2, <2>1 DEF StreamInv, CameraKeeps
    <3>2. QED
      BY <2>1, <3>1 DEF StreamInv, CameraKeeps
  <2>4. QED
    BY <1>1, <1>2, <2>1, <2>2, <2>3
<1>4. CASE delivered # <<>>
  <2>1. /\ Len(delivered) \in DOMAIN delivered /\ Pos = delivered[Len(delivered)]
        /\ Pos \in Packets /\ Pos < camNext
    <3>1. Len(delivered) > 0
      BY <1>1, <1>4, EmptySeq
    <3>2. Len(delivered) \in DOMAIN delivered
      BY <1>1, <3>1
    <3>3. QED
      BY <1>1, <1>4, <3>2 DEF Pos, Last, StreamInv, ReceivedInv, DeliveredGrows
  <2>2. Pos \in Nat /\ Pos + 1 \in Positions
    BY <2>1, OffsetGrows DEF Packets
  <2>3. \A i \in DOMAIN delivered : delivered[i] <= Pos
    <3>1. SUFFICES ASSUME NEW i \in DOMAIN delivered, i # Len(delivered)
                   PROVE  delivered[i] <= Pos
      BY <2>1, <2>2
    <3>2. i < Len(delivered)
      BY <1>1, <3>1
    <3>3. delivered[i] < delivered[Len(delivered)] /\ delivered[i] \in Packets
      BY <1>1, <2>1, <3>2 DEF StreamInv, ReceivedInv, DeliveredGrows, NeverBackwards
    <3>4. QED
      BY <2>1, <2>2, <3>3 DEF Packets
  <2>4. Near(Pos + 1, camNext)
    <3>1. camAcked + 1 \in Positions /\ camAcked + 1 <= Pos + 1 /\ Pos + 1 <= camNext
          /\ camNext <= camNext
      BY <1>2, <2>1, <2>2, OffsetGrows DEF Positions, StreamInv, CameraKeeps
    <3>2. QED
      BY <1>2, <2>2, <3>1, NearWithin DEF StreamInv, CameraKeeps
  <2>5. QED
    BY <1>1, <1>2, <2>1, <2>2, <2>3, <2>4 DEF StreamInv, ReceivedInv, StrictlyOrdered
<1>5. QED
  BY <1>3, <1>4

\* Positions that are near have different sequence numbers.
LEMMA NearInjective ==
  ASSUME NEW b \in Positions, NEW e \in Positions, Near(b, e),
         NEW i \in Positions, NEW j \in Positions, b <= i, i <= e, b <= j, j <= e,
         Start(i) = Start(j)
  PROVE  i = j
<1>1. b \in Nat /\ e \in Nat /\ i \in Nat /\ j \in Nat
  BY OffsetGrows DEF Positions
<1>2. i <= j => Near(i, j)
  BY NearWithin
<1>3. j <= i => Near(j, i)
  BY NearWithin
<1>4. QED
  BY <1>1, <1>2, <1>3, NearPositions

\* The run that drain_contiguous returns has no holes.
LEMMA RunIsConsecutive ==
  ASSUME NEW b \in Positions, NEW e \in Positions, Near(b, e),
         NEW waiting, waiting \subseteq b .. e - 1,
         NEW ready \in Seq(waiting), IsContiguousRun(ready, waiting, Start(b))
  PROVE  \A m \in 1 .. Len(ready) : ready[m] = b + m - 1
<1> DEFINE S == {m \in 1 .. Len(ready) : ready[m] # b + m - 1}
<1>1. /\ Len(ready) \in Nat /\ DOMAIN ready = 1 .. Len(ready)
      /\ \A m \in 1 .. Len(ready) : ready[m] \in waiting
  BY LenProperties, ElementOfSeq
<1>2. b \in Nat /\ e \in Nat /\ e <= NPackets + 1 /\ NPackets \in Nat /\ b >= 1
  BY OffsetGrows DEF Positions
<1>3. SUFFICES ASSUME S # {} PROVE FALSE
  OBVIOUS
<1>4. S \subseteq Nat
  BY <1>1
<1>5. PICK m \in S : \A n \in S : m <= n
  <2> HIDE DEF S
  <2>1. QED
    BY <1>3, <1>4, LeastElement
<1>0. ASSUME NEW x \in waiting
      PROVE  /\ x \in b .. e - 1 /\ x \in Nat /\ b <= x /\ x <= e /\ x + 1 <= e
             /\ x \in Positions /\ x \in Packets
  <2>1. x \in b .. e - 1
    OBVIOUS
  <2>2. QED
    BY <1>2, <2>1 DEF Positions, Packets
<1>6. /\ m \in 1 .. Len(ready) /\ ready[m] # b + m - 1 /\ ready[m] \in waiting
      /\ ready[m] \in Nat /\ b <= ready[m] /\ ready[m] <= e /\ ready[m] \in Positions
  <2>1. m \in 1 .. Len(ready) /\ ready[m] # b + m - 1
    BY <1>5
  <2>2. ready[m] \in waiting
    BY <1>1, <2>1
  <2>3. QED
    BY <1>0, <2>1, <2>2
<1>7. CASE m = 1
  <2>1. Start(ready[1]) = Start(b)
    BY <1>1, <1>6, <1>7 DEF IsContiguousRun
  <2>2. ready[1] = b
    <3>1. ready[1] \in Positions /\ b <= ready[1] /\ ready[1] <= e /\ b <= b /\ b <= e
      BY <1>2, <1>6, <1>7
    <3>2. QED
      BY <2>1, <3>1, NearInjective
  <2>3. QED
    BY <1>2, <1>6, <1>7, <2>2
<1>8. CASE m > 1
  <2>1. m - 1 \in 1 .. Len(ready) /\ m - 1 < m
    BY <1>1, <1>6, <1>8
  <2>2. ready[m - 1] = b + (m - 1) - 1
    BY <1>5, <1>6, <2>1
  <2>3. /\ ready[m - 1] \in Nat /\ b <= ready[m - 1] /\ ready[m - 1] + 1 <= e
        /\ ready[m - 1] \in Packets
    <3>1. ready[m - 1] \in waiting
      BY <1>1, <2>1
    <3>2. QED
      BY <1>0, <3>1
  <2>4. Start(ready[m]) = Start(ready[m - 1] + 1)
    BY <1>1, <1>6, <1>8, <2>3, EndIsNextStart DEF IsContiguousRun
  <2>5. ready[m - 1] + 1 \in Positions /\ b <= ready[m - 1] + 1 /\ ready[m - 1] + 1 <= e
    BY <1>2, <2>3, EndIsNextStart
  <2>6. ready[m] = ready[m - 1] + 1
    BY <1>6, <2>4, <2>5, NearInjective
  <2>7. QED
    BY <1>1, <1>2, <1>6, <2>2, <2>6
<1>9. QED
  BY <1>1, <1>6, <1>7, <1>8

\* What the session has taken after a drain from packet b: b and its successors.
Advances(b, n) ==
  /\ recv' = Start(b + n)
  /\ delivered' \in Seq(Packets) /\ Len(delivered') = Len(delivered) + n
  /\ \A i \in 1 .. Len(delivered) : delivered'[i] = delivered[i]
  /\ \A m \in 1 .. n : delivered'[Len(delivered) + m] = b + m - 1

\* drain_contiguous takes packet b and its successors, and leaves behind only
\* packets beyond the next gap.
LEMMA DrainAdvances ==
  ASSUME TypeInv, NEW b \in Positions, Near(b, camNext),
         NEW waiting, waiting \subseteq b .. camNext - 1, b \in waiting,
         NEW clock, DrainContiguous(waiting, Start(b), clock)
  PROVE  \E n \in Nat \ {0} :
           /\ b + n <= camNext
           /\ Advances(b, n)
           /\ \A j \in pending' : b + n < j /\ j < camNext
<1>1. PICK ready \in BoundedSeq(waiting, Cardinality(waiting)) :
        /\ IsContiguousRun(ready, waiting, Start(b))
        /\ recv' = RunEnd(Start(b), ready)
        /\ delivered' = delivered \o ready
        /\ pending' = waiting \ ToSet(ready)
  BY DEF DrainContiguous
<1>2. /\ camNext \in Positions /\ camNext \in Nat /\ camNext <= NPackets + 1
      /\ b \in Nat /\ b >= 1 /\ NPackets \in Nat
  BY OffsetGrows DEF TypeInv, WorldTyped, Positions
<1>3. waiting \subseteq Packets
  BY <1>2 DEF Packets
<1>4. /\ ready \in Seq(waiting) /\ ready \in Seq(Packets)
      /\ Len(ready) \in Nat /\ DOMAIN ready = 1 .. Len(ready)
      /\ \A m \in 1 .. Len(ready) : ready[m] \in waiting
  <2>1. ready \in Seq(waiting)
    BY BoundedSeqTyped
  <2>2. ready \in Seq(Packets)
    <3>1. PICK k \in Nat : ready \in [1 .. k -> waiting]
      BY <2>1, SeqDef
    <3>2. ready \in [1 .. k -> Packets]
      BY <1>3, <3>1
    <3>3. QED
      BY <3>2, SeqDef
  <2>3. Len(ready) \in Nat /\ DOMAIN ready = 1 .. Len(ready)
    BY <2>1, LenProperties
  <2>4. \A m \in 1 .. Len(ready) : ready[m] \in waiting
    BY <2>1, ElementOfSeq
  <2>5. QED
    BY <2>1, <2>2, <2>3, <2>4
<1>5. \A m \in 1 .. Len(ready) : ready[m] = b + m - 1
  BY <1>1, <1>2, <1>4, RunIsConsecutive
<1>6. Len(ready) # 0
  <2>1. SUFFICES ASSUME Len(ready) = 0 PROVE FALSE
    OBVIOUS
  <2>2. ready = <<>>
    BY <1>4, <2>1, EmptySeq
  <2>3. QED
    BY <1>1, <2>2 DEF IsContiguousRun, RunEnd
<1> DEFINE n == Len(ready)
<1>7. n \in 1 .. n /\ ready # <<>> /\ b + n - 1 \in waiting /\ b + n <= camNext
  <2>1. n \in 1 .. n
    BY <1>4, <1>6
  <2>2. ready[n] = b + n - 1 /\ ready[n] \in waiting
    BY <1>4, <1>5, <2>1
  <2>3. QED
    BY <1>2, <1>4, <1>6, <2>1, <2>2, EmptySeq
<1>8. RunEnd(Start(b), ready) = Start(b + n)
  <2>1. RunEnd(Start(b), ready) = End(b + n - 1)
    BY <1>5, <1>7 DEF RunEnd, Last
  <2>2. End(b + n - 1) = Start((b + n - 1) + 1)
    BY <1>3, <1>7, EndIsNextStart
  <2>3. (b + n - 1) + 1 = b + n
    BY <1>2, <1>4
  <2>4. QED
    BY <2>1, <2>2, <2>3
<1>9. Advances(b, n)
  <2>1. delivered \in Seq(Packets) /\ Len(delivered) \in Nat
    BY LenProperties DEF TypeInv, ReceiverTyped
  <2>2. /\ delivered' \in Seq(Packets) /\ Len(delivered') = Len(delivered) + n
        /\ \A i \in 1 .. Len(delivered) + n :
             delivered'[i] = IF i <= Len(delivered) THEN delivered[i]
                                                    ELSE ready[i - Len(delivered)]
    BY <1>1, <1>4, <2>1, ConcatProperties
  <2>3. ASSUME NEW m \in 1 .. n PROVE delivered'[Len(delivered) + m] = b + m - 1
    <3>1. /\ Len(delivered) + m \in 1 .. Len(delivered) + n
          /\ ~(Len(delivered) + m <= Len(delivered))
          /\ (Len(delivered) + m) - Len(delivered) = m
      BY <1>4, <2>1
    <3>2. QED
      BY <1>5, <2>2, <3>1
  <2>4. \A i \in 1 .. Len(delivered) : delivered'[i] = delivered[i]
    BY <1>4, <2>1, <2>2
  <2>5. QED
    BY <1>1, <1>8, <2>2, <2>3, <2>4 DEF Advances
<1>10. ASSUME NEW j \in pending' PROVE b + n < j /\ j < camNext
  <2>1. j \in waiting /\ j \in b .. camNext - 1 /\ j \notin ToSet(ready)
    BY <1>1, <1>10
  <2>2. j # b + n
    BY <1>1, <1>8, <2>1 DEF IsContiguousRun
  <2>3. ~(j < b + n)
    <3>1. SUFFICES ASSUME j < b + n PROVE FALSE
      OBVIOUS
    <3>2. j - b + 1 \in 1 .. n
      BY <1>2, <1>4, <2>1, <3>1
    <3>3. ready[j - b + 1] = j
      BY <1>2, <1>5, <2>1, <3>2
    <3>4. QED
      BY <1>4, <2>1, <3>2, <3>3 DEF ToSet
  <2>4. QED
    BY <1>2, <1>4, <2>1, <2>2, <2>3
<1>11. QED
  BY <1>4, <1>6, <1>7, <1>9, <1>10

\* Taking packets from b on, which lies at Pos + 1 or beyond.
LEMMA AdvanceKeeps ==
  ASSUME TypeInv, StreamInv, NEW b \in Nat, NEW n \in Nat \ {0},
         Pos < b, b + n <= camNext, ~allowGapSkip \/ ~Launched => b = Pos + 1,
         Advances(b, n),
         allowGapSkip' = allowGapSkip, Launched => Launched', camNext' = camNext
  PROVE  /\ Pos' = b + n - 1 /\ Pos' \in Nat /\ Pos <= Pos'
         /\ DeliveredGrows' /\ StrictlyOrdered' /\ StandsAtPos'
<1> DEFINE L == Len(delivered)
<1>1. /\ L \in Nat /\ DOMAIN delivered = 1 .. L /\ camNext \in Nat /\ Pos \in Nat
      /\ \A i \in 1 .. L : delivered[i] \in Nat /\ delivered[i] <= Pos
  BY PosIsTaken, OffsetGrows DEF Packets
<1>2. /\ delivered' \in Seq(Packets) /\ Len(delivered') = L + n
      /\ DOMAIN delivered' = 1 .. L + n
      /\ \A i \in 1 .. L : delivered'[i] = delivered[i]
      /\ \A m \in 1 .. n : delivered'[L + m] = b + m - 1
      /\ recv' = Start(b + n)
  BY LenProperties DEF Advances
<1>3. ~allowGapSkip \/ ~Launched => Pos = L /\ \A i \in 1 .. L : delivered[i] = i
  BY <1>1, PosIsTaken DEF StreamInv, ReceivedInv, StrictlyOrdered
<1>4. \A i, j \in 1 .. L : i < j => delivered[i] < delivered[j]
  BY <1>1 DEF StreamInv, ReceivedInv, DeliveredGrows, NeverBackwards
<1> HIDE DEF L
<1>5. ASSUME NEW i \in 1 .. L + n
      PROVE  delivered'[i] = IF i <= L THEN delivered[i] ELSE b + (i - L) - 1
  <2>1. CASE i <= L
    BY <1>1, <1>2, <2>1
  <2>2. CASE i > L
    <3>1. i - L \in 1 .. n /\ L + (i - L) = i
      BY <1>1, <2>2
    <3>2. delivered'[L + (i - L)] = b + (i - L) - 1
      BY <1>2, <3>1
    <3>3. QED
      BY <1>1, <2>2, <3>1, <3>2
  <2>3. QED
    BY <1>1, <2>1, <2>2
<1>6. Pos' = b + n - 1
  <2>1. delivered' # <<>> /\ L + n \in 1 .. L + n /\ ~(L + n <= L)
    BY <1>1, <1>2, EmptySeq
  <2>2. Pos' = delivered'[L + n]
    BY <1>2, <2>1 DEF Pos, Last
  <2>3. delivered'[L + n] = b + ((L + n) - L) - 1
    BY <1>5, <2>1
  <2>4. QED
    BY <1>1, <2>2, <2>3
<1>7. Pos' \in Nat /\ Pos <= Pos'
  BY <1>1, <1>6
<1>8. DeliveredGrows'
  <2>1. ASSUME NEW i \in 1 .. L + n PROVE delivered'[i] < camNext
    <3>1. CASE i <= L
      <4>1. delivered[i] \in Nat /\ delivered[i] <= Pos
        BY <1>1, <3>1
      <4>2. QED
        BY <1>1, <1>5, <3>1, <4>1
    <3>2. CASE i > L
      <4>1. delivered'[i] = b + (i - L) - 1
        BY <1>1, <1>5, <3>2
      <4>2. QED
        BY <1>1, <4>1, <3>2
    <3>3. QED
      BY <1>1, <3>1, <3>2
  <2>2. ASSUME NEW i \in 1 .. L + n, NEW j \in 1 .. L + n, i < j
        PROVE  delivered'[i] < delivered'[j]
    <3>1. CASE j <= L
      <4>1. i \in 1 .. L /\ j \in 1 .. L
        BY <1>1, <2>2, <3>1
      <4>2. QED
        BY <1>2, <1>4, <2>2, <4>1
    <3>2. CASE j > L /\ i <= L
      <4>1. delivered'[j] = b + (j - L) - 1 /\ j - L \in 1 .. n
        BY <1>1, <1>5, <3>2
      <4>2. delivered'[i] = delivered[i] /\ delivered[i] \in Nat /\ delivered[i] <= Pos
        BY <1>1, <1>2, <3>2
      <4>3. QED
        BY <1>1, <4>1, <4>2
    <3>3. CASE i > L
      <4>1. ~(i <= L) /\ ~(j <= L)
        BY <1>1, <2>2, <3>3
      <4>2. delivered'[i] = b + (i - L) - 1 /\ delivered'[j] = b + (j - L) - 1
        BY <1>5, <4>1
      <4>3. QED
        BY <1>1, <2>2, <4>2
    <3>4. QED
      BY <1>1, <3>1, <3>2, <3>3
  <2>3. QED
    BY <1>2, <2>1, <2>2 DEF DeliveredGrows, NeverBackwards
<1>9. StrictlyOrdered'
  <2>1. SUFFICES ASSUME ~allowGapSkip' \/ ~Launched', NEW i \in 1 .. L + n
                 PROVE  delivered'[i] = i
    BY <1>2 DEF StrictlyOrdered
  <2>2. /\ Pos = L /\ \A k \in 1 .. L : delivered[k] = k
        /\ b = Pos + 1
    BY <1>3, <2>1
  <2>3. CASE i <= L
    BY <1>1, <1>2, <2>2, <2>3
  <2>4. CASE i > L
    <3>1. delivered'[i] = b + (i - L) - 1
      BY <1>1, <1>5, <2>4
    <3>2. QED
      BY <1>1, <2>2, <3>1
  <2>5. QED
    BY <1>1, <2>3, <2>4
<1>10. StandsAtPos'
  <2>1. Pos' + 1 = b + n
    BY <1>6
  <2>2. QED
    BY <1>2, <2>1 DEF StandsAtPos
<1>11. QED
  BY <1>6, <1>7, <1>8, <1>9, <1>10

\* So does draining the packets that wait.
LEMMA DrainKeepsOrder ==
  ASSUME TypeInv, StreamInv, NEW b \in Nat, Pos < b,
         ~allowGapSkip => b = Pos + 1,
         NEW waiting, waiting \subseteq b .. camNext - 1, b \in waiting,
         NEW clock, DrainContiguous(waiting, Start(b), clock),
         allowGapSkip' = allowGapSkip, Launched, Launched', camNext' = camNext
  PROVE  ReceivedInv' /\ Pos' \in Nat /\ Pos <= Pos'
<1>1. /\ camNext \in Nat /\ camNext \in Positions /\ Pos \in Nat /\ Pos + 1 \in Positions
      /\ Near(Pos + 1, camNext)
  BY PosIsTaken
<1>2. b \in b .. camNext - 1
  OBVIOUS
<1>3. b \in Positions /\ b < camNext /\ Pos + 1 <= b
  BY <1>1, <1>2, OffsetGrows DEF Positions
<1>4. Near(b, camNext)
  BY <1>1, <1>3, NearWithin
<1>5. PICK n \in Nat \ {0} :
        /\ b + n <= camNext
        /\ Advances(b, n)
        /\ \A j \in pending' : b + n < j /\ j < camNext
  BY <1>3, <1>4, DrainAdvances
<1>6. /\ Pos' = b + n - 1 /\ Pos' \in Nat /\ Pos <= Pos'
      /\ DeliveredGrows' /\ StrictlyOrdered' /\ StandsAtPos'
  BY <1>5, AdvanceKeeps
<1>7. PendingAhead'
  <2>1. Pos' + 1 = b + n
    BY <1>6
  <2>2. QED
    BY <1>5, <2>1 DEF PendingAhead
<1>8. QED
  BY <1>6, <1>7 DEF ReceivedInv

\* Nothing that the stream's order is about changes for the receiver.
LEMMA ReceiverRests ==
  ASSUME TypeInv, StreamInv, UNCHANGED <<recv, pending, delivered, allowGapSkip>>,
         Launched => Launched', camNext' \in Nat, camNext <= camNext'
  PROVE  ReceivedInv' /\ Pos' = Pos /\ Pos' \in Nat /\ Pos <= Pos'
<1>1. Pos' = Pos
  BY DEF Pos
<1>2. camNext \in Nat /\ Pos \in Nat
  BY PosIsTaken
<1>3. DeliveredGrows'
  <2>1. \A i \in DOMAIN delivered : delivered[i] \in Nat
    BY PosIsTaken, OffsetGrows DEF Packets
  <2>2. QED
    BY <1>2, <2>1 DEF StreamInv, ReceivedInv, DeliveredGrows, NeverBackwards
<1>4. StrictlyOrdered' /\ StandsAtPos'
  BY <1>1 DEF StreamInv, ReceivedInv, StrictlyOrdered, StandsAtPos
<1>5. PendingAhead'
  <2>1. \A i \in pending : i \in Nat
    BY OffsetGrows DEF TypeInv, ReceiverTyped, Packets
  <2>2. QED
    BY <1>1, <1>2, <2>1 DEF StreamInv, ReceivedInv, PendingAhead
<1>6. QED
  BY <1>1, <1>2, <1>3, <1>4, <1>5 DEF ReceivedInv

\* recv() takes packets in the stream's order, whichever packet it is given.
LEMMA ReorderKeepsOrder ==
  ASSUME TypeInv, StreamInv, NEW i \in Packets, i < camNext, Near(i, camNext), Reorder(i),
         Launched, Launched', UNCHANGED <<camNext, allowGapSkip>>
  PROVE  ReceivedInv' /\ Pos' \in Nat /\ Pos <= Pos'
<1>1. /\ camNext \in Nat /\ camNext \in Positions /\ Pos \in Nat /\ Pos + 1 \in Positions
      /\ Pos + 1 <= camNext /\ Near(Pos + 1, camNext)
      /\ i \in Nat /\ i \in Positions /\ recv = Start(Pos + 1)
  BY PosIsTaken, OffsetGrows
  DEF Packets, Positions, StreamInv, ReceivedInv, StandsAtPos
<1>2. ASSUME NEW j \in pending
      PROVE  j \in Nat /\ j \in Positions /\ Pos + 1 < j /\ j < camNext
  <2>1. j \in Packets
    BY DEF TypeInv, ReceiverTyped
  <2>2. QED
    BY <2>1, OffsetGrows DEF Packets, Positions, StreamInv, ReceivedInv, PendingAhead
<1>3. UNCHANGED receiveVars => ReceivedInv' /\ Pos' \in Nat /\ Pos <= Pos'
  BY <1>1, ReceiverRests DEF receiveVars
<1>4. ~IsStale(i) => Pos < i
  <2>1. SUFFICES ASSUME i <= Pos PROVE IsStale(i)
    BY <1>1
  <2>2. i <= i /\ i < Pos + 1 /\ i <= Pos + 1
    BY <1>1, <2>1
  <2>3. Near(i, Pos + 1)
    BY <1>1, <2>2, NearWithin
  <2>4. Start(i) # recv /\ ~SequenceAfter(Start(i), recv)
    BY <1>1, <2>2, <2>3, NearPositions
  <2>5. QED
    BY <2>4 DEF IsStale
<1>5. ASSUME Pos < i, Start(i) = recv,
             DrainContiguous({j \in pending : Start(j) # recv} \cup {i}, recv, gapSince)
      PROVE  ReceivedInv' /\ Pos' \in Nat /\ Pos <= Pos'
  <2>1. i = Pos + 1
    BY <1>1, <1>5, NearInjective
  <2> DEFINE waiting == {j \in pending : Start(j) # recv} \cup {i}
  <2>2. waiting \subseteq i .. camNext - 1
    BY <1>1, <1>2, <2>1
  <2>3. i \in waiting /\ DrainContiguous(waiting, Start(i), gapSince)
    BY <1>5
  <2> HIDE DEF waiting
  <2>4. QED
    BY <1>1, <1>5, <2>1, <2>2, <2>3, DrainKeepsOrder
<1>6. ASSUME Pos < i, Start(i) # recv, BufferAhead(i)
      PROVE  ReceivedInv' /\ Pos' \in Nat /\ Pos <= Pos'
  <2> DEFINE waiting == pending \cup {i}
             clock == IF gapSince = "none" THEN "running" ELSE gapSince
  <2>1. i # Pos + 1
    BY <1>1, <1>6
  <2>2. ASSUME NEW j \in waiting
        PROVE  j \in Nat /\ j \in Positions /\ Pos + 1 < j /\ j < camNext
    BY <1>1, <1>2, <1>6, <2>1
  <2>3. ASSUME SkipsGap(i, waiting), NEW next \in waiting,
               IsNextStart(next, waiting), DrainContiguous(waiting, Start(next), clock)
        PROVE  ReceivedInv' /\ Pos' \in Nat /\ Pos <= Pos'
    <3>1. ASSUME NEW j \in waiting
          PROVE  /\ SequenceAfter(Start(j), recv)
                 /\ WrapSub(Start(j), recv) = Offset[j] - Offset[Pos + 1]
      <4>1. j \in Positions /\ Pos + 1 < j /\ Pos + 1 <= j /\ j <= camNext /\ Pos + 1 <= Pos + 1
        BY <1>1, <2>2
      <4>2. Near(Pos + 1, j)
        BY <1>1, <4>1, NearWithin
      <4>3. QED
        BY <1>1, <4>1, <4>2, NearPositions
    <3>2. ASSUME NEW j \in waiting PROVE next <= j
      <4>1. Offset[next] - Offset[Pos + 1] <= Offset[j] - Offset[Pos + 1]
        BY <2>3, <3>1 DEF IsNextStart
      <4>2. Offset[next] \in Nat /\ Offset[j] \in Nat /\ Offset[Pos + 1] \in Nat
        BY <1>1, <2>2, OffsetGrows
      <4>3. j < next => Offset[j] < Offset[next]
        BY <2>2, OffsetGrows
      <4>4. next \in Nat /\ j \in Nat
        BY <2>2
      <4>5. QED
        BY <4>1, <4>2, <4>3, <4>4
    <3>3. waiting \subseteq next .. camNext - 1
      BY <1>1, <2>2, <3>2
    <3>4. next \in Nat /\ Pos < next
      BY <1>1, <2>2
    <3>5. allowGapSkip
      BY <2>3 DEF SkipsGap
    <3> HIDE DEF waiting, clock
    <3>6. QED
      BY <2>3, <3>3, <3>4, <3>5, DrainKeepsOrder
  <2>4. ASSUME pending' = waiting, UNCHANGED <<recv, delivered>>
        PROVE  ReceivedInv' /\ Pos' \in Nat /\ Pos <= Pos'
    <3>1. Pos' = Pos
      BY <2>4 DEF Pos
    <3>2. PendingAhead'
      BY <2>2, <2>4, <3>1 DEF PendingAhead
    <3>3. DeliveredGrows' /\ StrictlyOrdered' /\ StandsAtPos'
      BY <2>4, <3>1
      DEF StreamInv, ReceivedInv, DeliveredGrows, NeverBackwards, StrictlyOrdered, StandsAtPos
    <3>4. QED
      BY <1>1, <3>1, <3>2, <3>3 DEF ReceivedInv
  <2>5. \/ /\ SkipsGap(i, waiting)
           /\ \E next \in waiting :
                IsNextStart(next, waiting) /\ DrainContiguous(waiting, Start(next), clock)
        \/ pending' = waiting /\ UNCHANGED <<recv, delivered>>
    BY <1>6 DEF BufferAhead
  <2> HIDE DEF waiting, clock
  <2>6. QED
    BY <2>3, <2>4, <2>5
<1>7. QED
  BY <1>3, <1>4, <1>5, <1>6 DEF Reorder

\* As long as the camera sends nothing new, an acknowledgement stays true.
LEMMA AcksKept ==
  ASSUME TypeInv, StreamInv, Pos' \in Nat, Pos <= Pos', camNext' = camNext,
         \A p \in outbound' :
           \/ p \in outbound
           \/ p.ack = recv
           \/ \E j \in DOMAIN window : p.ack = window[j].ack,
         \A j \in DOMAIN window' :
           \/ window'[j].ack = recv
           \/ \E l \in DOMAIN window : window'[j].ack = window[l].ack
  PROVE  AcksTrue'
<1>1. Pos \in Nat /\ Near(Pos + 1, camNext) /\ recv = Start(Pos + 1)
  BY PosIsTaken DEF StreamInv, ReceivedInv, StandsAtPos
<1>2. AckNames(recv, Pos, camNext)
  BY <1>1 DEF AckNames
<1>3. ASSUME NEW ack, AckNames(ack, Pos, camNext) PROVE AckNames(ack, Pos', camNext')
  BY <1>1, <1>3 DEF AckNames
<1>4. \A p \in outbound : AckNames(p.ack, Pos, camNext)
  BY DEF StreamInv, AcksTrue
<1>5. \A j \in DOMAIN window : AckNames(window[j].ack, Pos, camNext)
  BY DEF StreamInv, AcksTrue
<1>6. ASSUME NEW p \in outbound' PROVE AckNames(p.ack, Pos', camNext')
  BY <1>2, <1>3, <1>4, <1>5
<1>7. ASSUME NEW j \in DOMAIN window' PROVE AckNames(window'[j].ack, Pos', camNext')
  BY <1>2, <1>3, <1>5
<1>8. QED
  BY <1>6, <1>7 DEF AcksTrue

\* The camera forgets only what an acknowledgement names.
LEMMA ForgottenWasTaken ==
  ASSUME TypeInv, StreamInv, NEW ack, AckNames(ack, Pos, camNext),
         NEW a \in camAcked .. camNext - 1, a > camAcked => Covers(ack, End(a))
  PROVE  a <= Pos /\ Near(a + 1, camNext)
<1>1. /\ camNext \in Nat /\ camNext \in Positions /\ Pos \in Nat /\ camAcked \in Nat
      /\ Pos + 1 \in Positions /\ Pos + 1 <= camNext
      /\ camAcked <= Pos /\ Near(camAcked + 1, camNext)
  BY PosIsTaken DEF StreamInv, CameraKeeps
<1>2. a \in Nat /\ a < camNext /\ camAcked <= a
  BY <1>1
<1>3. a <= Pos
  <2>1. SUFFICES ASSUME Pos < a PROVE FALSE
    BY <1>1, <1>2
  <2>2. PICK k \in 0 .. Pos : ack = Start(k + 1) /\ Near(k + 1, camNext)
    BY DEF AckNames
  <2>3. a > camAcked /\ a \in Packets /\ a + 1 \in Positions
    <3>1. camNext <= NPackets + 1 /\ NPackets \in Nat
      BY <1>1, OffsetGrows DEF Positions
    <3>2. QED
      BY <1>1, <1>2, <2>1, <3>1 DEF Packets, Positions
  <2>4. /\ k + 1 \in Positions /\ k + 1 < a + 1 /\ k + 1 <= a + 1 /\ a + 1 <= camNext
        /\ k + 1 <= k + 1
    BY <1>1, <1>2, <2>1, <2>2, OffsetGrows DEF Positions
  <2>5. Near(k + 1, a + 1)
    BY <1>1, <2>2, <2>3, <2>4, NearWithin
  <2>6. ~SequenceAfter(Start(k + 1), Start(a + 1)) /\ Start(k + 1) # Start(a + 1)
    BY <2>3, <2>4, <2>5, NearPositions
  <2>7. End(a) = Start(a + 1)
    BY <2>3, EndIsNextStart
  <2>8. QED
    BY <2>2, <2>3, <2>6, <2>7 DEF Covers
<1>4. Near(a + 1, camNext)
  <2>1. /\ a + 1 \in Positions /\ camAcked + 1 \in Positions
        /\ camAcked + 1 <= a + 1 /\ a + 1 <= camNext /\ camNext <= camNext
    BY <1>1, <1>2, <1>3, OffsetGrows DEF Positions
  <2>2. QED
    BY <1>1, <2>1, NearWithin
<1>5. QED
  BY <1>3, <1>4

\* The bound on the camera keeps everything near the next packet too.
LEMMA OfferKeepsNear ==
  ASSUME TypeInv, StreamInv, NEW i \in Packets, CameraSends(i)
  PROVE  AcksTrue' /\ CameraKeeps' /\ PacketsNear'
<1>1. /\ i = camNext /\ i \in Nat /\ i \in Positions /\ i + 1 \in Positions
      /\ camNext' = i + 1
      /\ UNCHANGED <<delivered, window, outbound, camAcked>> /\ Pos \in Nat /\ Pos + 1 \in Positions
      /\ Pos' = Pos /\ Near(i, i + 1) /\ End(i) = Start(i + 1)
  BY PosIsTaken, EndIsNextStart
  DEF CameraSends, receiveVars, sendVars, Packets, Pos
<1>2. ASSUME NEW ack, AckNames(ack, Pos, camNext), WrapSub(End(i), ack) < HalfRange
      PROVE  AckNames(ack, Pos', camNext')
  <2>1. PICK k \in 0 .. Pos : ack = Start(k + 1) /\ Near(k + 1, camNext)
    BY <1>2 DEF AckNames
  <2>2. k + 1 \in Positions /\ k + 1 < i + 1
    <3>1. Pos \in 0 .. camNext - 1
      BY PosIsTaken
    <3>2. k \in Nat /\ k <= Pos /\ k < i
      BY <1>1, <3>1
    <3>3. QED
      BY <1>1, <3>2, OffsetGrows DEF Positions
  <2> DEFINE d == Offset[i + 1] - Offset[k + 1]
  <2>3. /\ Offset[k + 1] \in Nat /\ Offset[i] \in Nat /\ Offset[i + 1] \in Nat
        /\ Offset[k + 1] < Offset[i + 1]
    BY <1>1, <2>2, OffsetGrows
  <2>4. Offset[i] - Offset[k + 1] < HalfRange /\ Offset[i + 1] - Offset[i] < HalfRange
    BY <1>1, <2>1 DEF Near
  <2>5. d \in 0 .. Modulus - 1 /\ Offset[i + 1] = Offset[k + 1] + d
    BY <2>3, <2>4, HalfRangeAssumption DEF Modulus
  <2> HIDE DEF d
  <2>6. WrapSub(Start(i + 1), Start(k + 1)) = d
    BY <2>3, <2>5, WrapFollowsStream DEF Start
  <2>7. Near(k + 1, i + 1)
    BY <1>1, <1>2, <2>1, <2>6 DEF Near, d
  <2>8. QED
    BY <1>1, <2>1, <2>7 DEF AckNames
<1>3. /\ \A p \in outbound : WrapSub(End(i), p.ack) < HalfRange
      /\ \A j \in DOMAIN window : WrapSub(End(i), window[j].ack) < HalfRange
  <2>1. \A j \in DOMAIN window : window[j] \in ToSet(window)
    BY DEF ToSet
  <2>2. \A p \in outbound \cup ToSet(window) : WrapSub(End(i), p.ack) < HalfRange
    BY DEF CameraSends, RoomForPacket
  <2>3. QED
    BY <2>1, <2>2
<1>4. AcksTrue'
  BY <1>1, <1>2, <1>3 DEF StreamInv, AcksTrue
<1>5. CameraKeeps'
  BY <1>1 DEF StreamInv, CameraKeeps, CameraSends, RoomForPacket, Near
<1>6. PacketsNear'
  <2>1. SUFFICES ASSUME NEW p \in inbound', p.id # 0
                 PROVE  p.id < i + 1 /\ Near(p.id, i + 1)
    BY <1>1 DEF PacketsNear
  <2>2. CASE p \in inbound
    <3>1. p.id < i /\ p.id \in Nat
      BY <1>1, <2>1, <2>2, OffsetGrows DEF StreamInv, PacketsNear, TypeInv, WorldTyped, InFlight
    <3>2. Offset[i + 1] - Offset[p.id] < HalfRange
      BY <2>1, <2>2 DEF CameraSends, RoomForPacket
    <3>3. QED
      BY <1>1, <3>1, <3>2 DEF Near
  <2>3. CASE p = [id |-> i, ack |-> camRecv]
    BY <1>1, <2>3
  <2>4. QED
    BY <2>2, <2>3 DEF CameraSends
<1>7. QED
  BY <1>4, <1>5, <1>6

\* While the camera sends nothing for the first time, its packets in flight are
\* those it keeps or sent before.
LEMMA PacketsStayNear ==
  ASSUME TypeInv, StreamInv, camNext' = camNext,
         \A p \in inbound' : p \in inbound \/ p.id = 0 \/ p.id \in camAcked + 1 .. camNext - 1
  PROVE  PacketsNear'
<1>1. SUFFICES ASSUME NEW p \in inbound', p.id # 0, p.id \in camAcked + 1 .. camNext - 1
               PROVE  p.id < camNext /\ Near(p.id, camNext)
  BY DEF PacketsNear, StreamInv
<1>2. /\ camNext \in Nat /\ camNext \in Positions /\ camAcked \in Nat
      /\ Near(camAcked + 1, camNext)
  BY PosIsTaken DEF StreamInv, CameraKeeps
<1>3. /\ p.id \in Positions /\ camAcked + 1 \in Positions /\ p.id < camNext
      /\ camAcked + 1 <= p.id /\ p.id <= camNext /\ camNext <= camNext
  <2>1. camNext <= NPackets + 1 /\ NPackets \in Nat
    BY <1>2, OffsetGrows DEF Positions
  <2>2. p.id \in Nat /\ camAcked + 1 <= p.id /\ p.id <= camNext - 1
    BY <1>1, <1>2
  <2>3. QED
    BY <1>2, <2>1, <2>2 DEF Positions
<1>4. QED
  BY <1>2, <1>3, NearWithin

\* The handshake takes the packet it waits for.
LEMMA HandshakeKeepsOrder ==
  ASSUME HandshakeTakes = {}, TypeInv, StreamInv, NEW p \in inbound, HandshakeReads(p)
  PROVE  ReceivedInv' /\ Pos' \in Nat /\ Pos <= Pos'
<1>1. /\ ~Launched /\ ~Launched'
      /\ UNCHANGED <<pending, window, outbound, camNext, camAcked, allowGapSkip>>
  BY DEF HandshakeReads, sendVars, cameraVars, Launched
<1>2. /\ Pos \in Nat /\ Pos = Len(delivered) /\ camNext \in Nat /\ Pos + 1 \in Positions
      /\ delivered \in Seq(Packets)
  BY <1>1, PosIsTaken DEF TypeInv, ReceiverTyped
<1>3. CASE p.id = 0
  BY <1>1, <1>2, <1>3, ReceiverRests DEF HandshakeReads
<1>4. CASE p.id # 0
  <2>1. p.id = Pos + 1 /\ p.id < camNext
    BY <1>2, <1>4 DEF HandshakeReads, CountedNext, CountedAgain, StreamInv, PacketsNear
  <2>2. p.id \in Packets
    BY <1>2, <2>1, OffsetGrows DEF TypeInv, WorldTyped, Positions, Packets
  <2>3. recv' = Start(p.id + 1)
    <3>1. recv' = WrapAdd(Start(p.id), Length(p.id))
      BY <1>4, <2>1 DEF HandshakeReads, StreamInv, ReceivedInv, StandsAtPos
    <3>2. QED
      BY <2>2, <3>1, EndIsNextStart DEF End
  <2>4. /\ delivered' \in Seq(Packets) /\ Len(delivered') = Len(delivered) + 1
        /\ \A i \in 1 .. Len(delivered) : delivered'[i] = delivered[i]
        /\ delivered'[Len(delivered) + 1] = p.id
    <3>1. delivered' = Append(delivered, p.id)
      BY <1>4 DEF HandshakeReads, CountedNext, CountedAgain
    <3>2. QED
      BY <1>2, <2>2, <3>1, AppendProperties
  <2>5. Advances(p.id, 1)
    <3>1. \A m \in 1 .. 1 : delivered'[Len(delivered) + m] = p.id + m - 1
      <4>1. SUFFICES ASSUME NEW m \in 1 .. 1
                     PROVE  delivered'[Len(delivered) + m] = p.id + m - 1
        OBVIOUS
      <4>2. m = 1
        OBVIOUS
      <4>3. QED
        BY <1>2, <2>1, <2>4, <4>2
    <3>2. QED
      BY <2>3, <2>4, <3>1 DEF Advances
  <2>6. /\ Pos' = p.id + 1 - 1 /\ Pos' \in Nat /\ Pos <= Pos'
        /\ DeliveredGrows' /\ StrictlyOrdered' /\ StandsAtPos'
    <3>1. p.id \in Nat /\ Pos < p.id /\ p.id + 1 <= camNext /\ 1 \in Nat \ {0}
      BY <1>2, <2>1
    <3>2. QED
      BY <1>1, <2>1, <2>5, <3>1, AdvanceKeeps
  <2>7. PendingAhead'
    BY <1>1 DEF StreamInv, ReceivedInv, PendingAhead
  <2>8. QED
    BY <2>6, <2>7 DEF ReceivedInv
<1>5. QED
  BY <1>3, <1>4

\* Every step keeps the order of the stream.
LEMMA StepKeepsStream ==
  ASSUME HandshakeTakes = {}, TypeInv, StreamInv, [Next]_vars
  PROVE  StreamInv' /\ Pos \in Nat /\ Pos' \in Nat /\ Pos <= Pos'
<1>1. Pos \in Nat /\ camNext \in Nat /\ camAcked \in Nat
  BY PosIsTaken
<1> DEFINE Rests == UNCHANGED <<recv, pending, delivered, allowGapSkip>> /\ (Launched => Launched')
           AcksRest == /\ \A p \in outbound' : p \in outbound \/ p.ack = recv
                            \/ \E j \in DOMAIN window : p.ack = window[j].ack
                       /\ \A j \in DOMAIN window' : window'[j].ack = recv
                            \/ \E l \in DOMAIN window : window'[j].ack = window[l].ack
           PacketsRest == \A p \in inbound' : p \in inbound \/ p.id = 0
                            \/ p.id \in camAcked + 1 .. camNext - 1
<1>2. ASSUME Rests, AcksRest, PacketsRest, UNCHANGED <<camNext, camAcked>>
      PROVE  StreamInv' /\ Pos' \in Nat /\ Pos <= Pos'
  <2>1. ReceivedInv' /\ Pos' = Pos /\ Pos' \in Nat /\ Pos <= Pos'
    BY <1>1, <1>2, ReceiverRests
  <2>2. AcksTrue'
    BY <1>2, <2>1, AcksKept
  <2>3. CameraKeeps'
    BY <1>2, <2>1 DEF StreamInv, CameraKeeps
  <2>4. PacketsNear'
    BY <1>2, PacketsStayNear
  <2>5. QED
    BY <2>1, <2>2, <2>3, <2>4 DEF StreamInv
<1>3. ASSUME ReceivedInv', Pos' \in Nat, Pos <= Pos', AcksRest, PacketsRest,
             UNCHANGED <<camNext, camAcked>>
      PROVE  StreamInv' /\ Pos' \in Nat /\ Pos <= Pos'
  <2>1. AcksTrue'
    BY <1>3, AcksKept
  <2>2. CameraKeeps'
    BY <1>1, <1>3 DEF StreamInv, CameraKeeps
  <2>3. PacketsNear'
    BY <1>3, PacketsStayNear
  <2>4. QED
    BY <1>3, <2>1, <2>2, <2>3 DEF StreamInv
<1>4. ASSUME UNCHANGED <<window, outbound>> PROVE AcksRest
  BY <1>4
<1>5. ASSUME inbound' \subseteq inbound PROVE PacketsRest
  BY <1>5
<1>6. ASSUME NEW p \in inbound, HandshakeReads(p)
      PROVE  StreamInv' /\ Pos' \in Nat /\ Pos <= Pos'
  <2>1. AcksRest /\ PacketsRest /\ UNCHANGED <<camNext, camAcked>>
    BY <1>4, <1>5, <1>6 DEF HandshakeReads, sendVars, cameraVars
  <2> HIDE DEF AcksRest, PacketsRest
  <2>2. QED
    BY <1>3, <1>6, <2>1, HandshakeKeepsOrder
<1>7. ASSUME NEW len \in HandshakeLengths, HandshakeSends(len)
      PROVE  StreamInv' /\ Pos' \in Nat /\ Pos <= Pos'
  <2>1. Rests /\ AcksRest /\ PacketsRest /\ UNCHANGED <<camNext, camAcked>>
    BY <1>7 DEF HandshakeSends, receiveVars, cameraVars, Launched
  <2>2. QED
    BY <1>2, <2>1
<1>8. CASE RelayHandOver \/ ReaderPanics \/ SocketFailure
  <2>1. Rests /\ AcksRest /\ PacketsRest /\ UNCHANGED <<camNext, camAcked>>
    BY <1>8
    DEF RelayHandOver, ReaderPanics, SocketFailure, receiveVars, sendVars, cameraVars, Launched
  <2>2. QED
    BY <1>1, <1>2, <2>1
<1>9. ASSUME NEW p \in inbound, Receive(p)
      PROVE  StreamInv' /\ Pos' \in Nat /\ Pos <= Pos'
  <2>1. /\ Launched /\ Launched'
        /\ UNCHANGED <<outbound, camNext, camAcked, allowGapSkip>>
        /\ inbound' \subseteq inbound
    BY <1>9 DEF Receive, Launched, cameraVars
  <2>2. AcksRest
    <3>1. PICK k \in 0 .. Len(window) :
            /\ window' \in Seq(ShortTracked) /\ Len(window') = Len(window) - k
            /\ \A j \in 1 .. Len(window) - k : window'[j] = window[j + k]
      BY <1>9, AcknowledgeDrops DEF Receive, TypeInv
    <3>2. DOMAIN window = 1 .. Len(window) /\ DOMAIN window' = 1 .. Len(window') /\ Len(window) \in Nat
      BY <3>1, LenProperties DEF TypeInv, SenderTyped
    <3>3. ASSUME NEW j \in DOMAIN window'
          PROVE  \E l \in DOMAIN window : window'[j].ack = window[l].ack
      <4>1. j + k \in DOMAIN window /\ j \in 1 .. Len(window) - k
        BY <3>1, <3>2
      <4>2. window'[j] = window[j + k]
        BY <3>1, <4>1
      <4>3. QED
        BY <4>1, <4>2
    <3>4. QED
      BY <2>1, <3>3
  <2>3. PacketsRest
    BY <1>5, <2>1
  <2>4. ReceivedInv' /\ Pos' \in Nat /\ Pos <= Pos'
    <3>1. CASE p.id = 0
      <4>1. UNCHANGED <<recv, pending, delivered>>
        BY <1>9, <3>1 DEF Receive, receiveVars
      <4>2. QED
        BY <1>1, <2>1, <4>1, ReceiverRests
    <3>2. CASE p.id # 0
      <4>1. p.id \in Packets
        BY <3>2, OffsetGrows DEF TypeInv, WorldTyped, InFlight, Packets
      <4>2. p.id < camNext /\ Near(p.id, camNext)
        BY <3>2 DEF StreamInv, PacketsNear
      <4>3. Reorder(p.id)
        BY <1>9, <3>2 DEF Receive
      <4>4. QED
        BY <2>1, <4>1, <4>2, <4>3, ReorderKeepsOrder
    <3>3. QED
      BY <3>1, <3>2
  <2> HIDE DEF AcksRest, PacketsRest
  <2>5. QED
    BY <1>3, <2>1, <2>2, <2>3, <2>4
<1>10. CASE SendAck
  <2>1. Rests /\ AcksRest /\ PacketsRest /\ UNCHANGED <<camNext, camAcked>>
    BY <1>10 DEF SendAck, receiveVars, sendVars, cameraVars, Launched
  <2>2. QED
    BY <1>1, <1>2, <2>1
<1>11. ASSUME NEW len \in SendLengths, Send(len)
       PROVE  StreamInv' /\ Pos' \in Nat /\ Pos <= Pos'
  <2>1. Rests /\ PacketsRest /\ UNCHANGED <<camNext, camAcked>>
    BY <1>11 DEF Send, receiveVars, cameraVars, Launched
  <2> DEFINE full == Len(window) >= MaxSentWindow
             kept == IF full THEN Len(window) - 1 ELSE Len(window)
             packet == [start |-> sent, len |-> len, ack |-> recv, retries |-> 0]
  <2>2. /\ window' \in Seq(ShortTracked) /\ Len(window) \in Nat
        /\ full => Len(window) > 0
        /\ Len(window') = kept + 1 /\ window'[kept + 1] = packet
        /\ \A j \in 1 .. kept : window'[j] = window[IF full THEN j + 1 ELSE j]
    BY <1>11, SendTracks DEF TypeInv, ReceiverTyped
  <2>3. DOMAIN window = 1 .. Len(window) /\ DOMAIN window' = 1 .. Len(window')
    BY <2>2, LenProperties DEF TypeInv, SenderTyped
  <2>4. packet.ack = recv
    OBVIOUS
  <2> HIDE DEF packet
  <2>5. ASSUME NEW j \in DOMAIN window'
        PROVE  window'[j].ack = recv \/ \E l \in DOMAIN window : window'[j].ack = window[l].ack
    <3>1. CASE j = kept + 1
      BY <2>2, <2>4, <3>1
    <3>2. CASE j # kept + 1
      <4>1. j \in 1 .. kept /\ (IF full THEN j + 1 ELSE j) \in DOMAIN window
        BY <2>2, <2>3, <3>2
      <4>2. QED
        BY <2>2, <4>1
    <3>3. QED
      BY <3>1, <3>2
  <2>6. \A p \in outbound' : p \in outbound \/ p.ack = recv
    BY <1>11 DEF Send
  <2>7. QED
    BY <1>2, <2>1, <2>5, <2>6
<1>12. ASSUME NEW due \in SUBSET Retryable, RetransmitTick(due)
       PROVE  StreamInv' /\ Pos' \in Nat /\ Pos <= Pos'
  <2>1. Rests /\ PacketsRest /\ UNCHANGED <<camNext, camAcked>>
    BY <1>12 DEF RetransmitTick, receiveVars, cameraVars, Launched
  <2>2. /\ window' \in Seq(ShortTracked) /\ Len(window') = Len(window)
        /\ \A j \in 1 .. Len(window) : window'[j].ack = window[j].ack
    BY <1>12, RetransmitTracks DEF TypeInv
  <2>3. DOMAIN window = 1 .. Len(window) /\ DOMAIN window' = 1 .. Len(window)
    BY <2>2, LenProperties DEF TypeInv, SenderTyped
  <2>4. \A j \in DOMAIN window' : \E l \in DOMAIN window : window'[j].ack = window[l].ack
    BY <2>2, <2>3
  <2>5. ASSUME NEW p \in outbound'
        PROVE  p \in outbound \/ \E j \in DOMAIN window : p.ack = window[j].ack
    BY <1>12 DEF RetransmitTick, Retryable
  <2>6. QED
    BY <1>2, <2>1, <2>4, <2>5
<1>13. CASE GapTimerExpires \/ FallsQuiet
  <2>1. Rests /\ AcksRest /\ PacketsRest /\ UNCHANGED <<camNext, camAcked>>
    BY <1>13 DEF GapTimerExpires, FallsQuiet, sendVars, cameraVars, Launched
  <2>2. QED
    BY <1>1, <1>2, <2>1
<1>14. ASSUME NEW i \in Packets, CameraSends(i)
       PROVE  StreamInv' /\ Pos' \in Nat /\ Pos <= Pos'
  <2>1. AcksTrue' /\ CameraKeeps' /\ PacketsNear'
    BY <1>14, OfferKeepsNear
  <2>2. UNCHANGED <<recv, pending, delivered, allowGapSkip>> /\ camNext' = camNext + 1
        /\ (Launched => Launched')
    BY <1>14 DEF CameraSends, receiveVars, Launched
  <2>3. ReceivedInv' /\ Pos' \in Nat /\ Pos <= Pos'
    BY <1>1, <2>2, ReceiverRests
  <2>4. QED
    BY <2>1, <2>3 DEF StreamInv
<1>15. ASSUME NEW i \in Packets, CameraResends(i)
       PROVE  StreamInv' /\ Pos' \in Nat /\ Pos <= Pos'
  <2>1. Rests /\ AcksRest /\ PacketsRest /\ UNCHANGED <<camNext, camAcked>>
    BY <1>15 DEF CameraResends, receiveVars, sendVars, cameraVars, Launched
  <2>2. QED
    BY <1>2, <2>1
<1>16. ASSUME NEW p \in outbound, CameraReceives(p)
       PROVE  StreamInv' /\ Pos' \in Nat /\ Pos <= Pos'
  <2>1. /\ UNCHANGED <<recv, pending, delivered, allowGapSkip, window, camNext>>
        /\ Launched => Launched'
        /\ outbound' \subseteq outbound
        /\ \A q \in inbound' : q \in inbound \/ q.id = 0
    BY <1>16 DEF CameraReceives, receiveVars, sendVars, Launched
  <2>2. ReceivedInv' /\ Pos' = Pos /\ Pos' \in Nat /\ Pos <= Pos'
    BY <1>1, <2>1, ReceiverRests
  <2>3. AcksTrue' /\ PacketsNear'
    BY <2>1, <2>2, AcksKept, PacketsStayNear
  <2>4. CameraKeeps'
    <3>1. AckNames(p.ack, Pos, camNext)
      BY DEF StreamInv, AcksTrue
    <3>2. PICK a \in camAcked .. camNext - 1 :
            camAcked' = a /\ (a > camAcked => Covers(p.ack, End(a)))
      BY <1>16 DEF CameraReceives
    <3>3. a <= Pos /\ Near(a + 1, camNext)
      BY <3>1, <3>2, ForgottenWasTaken
    <3>4. QED
      BY <2>1, <2>2, <3>2, <3>3 DEF CameraKeeps
  <2>5. QED
    BY <2>2, <2>3, <2>4 DEF StreamInv
<1>17. ASSUME NEW p, LoseOutbound(p) \/ LoseInbound(p)
       PROVE  StreamInv' /\ Pos' \in Nat /\ Pos <= Pos'
  <2>1. Rests /\ AcksRest /\ PacketsRest /\ UNCHANGED <<camNext, camAcked>>
    BY <1>17 DEF LoseOutbound, LoseInbound, receiveVars, sendVars, cameraVars, Launched
  <2>2. QED
    BY <1>2, <2>1
<1>18. CASE UNCHANGED vars
  <2>1. Rests /\ AcksRest /\ PacketsRest /\ UNCHANGED <<camNext, camAcked>>
    BY <1>18 DEF vars, Launched
  <2>2. QED
    BY <1>1, <1>2, <2>1
<1>19. ASSUME NEW p \in inbound, HandOver(p)
       PROVE  StreamInv' /\ Pos' \in Nat /\ Pos <= Pos'
  <2>1. Rests /\ AcksRest /\ PacketsRest /\ UNCHANGED <<camNext, camAcked>>
    BY <1>19 DEF HandOver, receiveVars, sendVars, cameraVars, Launched
  <2>2. QED
    BY <1>1, <1>2, <2>1
<1>20. QED
  BY <1>1, <1>6, <1>7, <1>8, <1>9, <1>10, <1>11, <1>12, <1>13, <1>14, <1>15, <1>16,
     <1>17, <1>18, <1>19
  DEF Next, HandshakeNext, EngineNext, EnvironmentNext

\* The stream starts at its first byte.
LEMMA InitStream == Init => StreamInv
<1> SUFFICES ASSUME Init PROVE StreamInv
  OBVIOUS
<1>1. delivered = <<>> /\ Len(delivered) = 0 /\ DOMAIN delivered = {} /\ Pos = 0
  BY EmptySeq DEF Init, Pos
<1>2. Near(1, 1)
  <2>1. 1 \in Positions
    BY OffsetGrows DEF Positions
  <2>2. QED
    BY <2>1, OffsetGrows, HalfRangeAssumption DEF Near
<1>3. ReceivedInv
  BY <1>1
  DEF Init, ReceivedInv, DeliveredGrows, NeverBackwards, StrictlyOrdered, StandsAtPos,
      PendingAhead
<1>4. AcksTrue
  BY EmptySeq DEF Init, AcksTrue
<1>5. CameraKeeps /\ PacketsNear
  BY <1>1, <1>2 DEF Init, CameraKeeps, PacketsNear
<1>6. QED
  BY <1>3, <1>4, <1>5 DEF StreamInv

\* A handshake that reads every datagram once leaves a stream in order.
LEMMA StreamKept ==
  ASSUME HandshakeTakes = {}
  PROVE  Spec => [](TypeInv /\ StreamInv)
<1>1. Init => TypeInv /\ StreamInv
  BY InitTyped, InitStream
<1>2. (TypeInv /\ StreamInv) /\ [Next]_vars => (TypeInv /\ StreamInv)'
  BY StepTyped, StepKeepsStream
<1>3. QED
  BY <1>1, <1>2, PTL DEF Spec

\* In strict ordering the client is handed the camera's packets 1, 2, 3...,
\* each once and none left out, whatever UDP does to the datagrams and wherever
\* the counters wrap.
THEOREM InOrder ==
  ASSUME HandshakeTakes = {}
  PROVE  Spec => []DeliveredInOrder
<1>1. TypeInv /\ StreamInv => DeliveredInOrder
  BY DEF StreamInv, ReceivedInv, StrictlyOrdered, DeliveredInOrder
<1>2. QED
  BY <1>1, StreamKept, PTL

\* In strict ordering the camera never forgets a packet that the client has not
\* got.  Nothing is said of what a gap policy that skips bytes acknowledges.
THEOREM CameraForgetsOnlyTaken ==
  ASSUME HandshakeTakes = {}
  PROVE  Spec => []NothingForgotten
<1>1. TypeInv /\ StreamInv => NothingForgotten
  BY PosIsTaken DEF StreamInv, CameraKeeps, NothingForgotten
<1>2. QED
  BY <1>1, StreamKept, PTL

\* What waits in pending lies behind a real gap: recv() has taken every packet
\* that continues the stream.
THEOREM PendingIsAhead ==
  ASSUME HandshakeTakes = {}
  PROVE  Spec => []NothingStuckInPending
<1>1. ASSUME TypeInv, StreamInv PROVE NothingStuckInPending
  <2>1. SUFFICES ASSUME NEW i \in pending PROVE SequenceAfter(Start(i), recv)
    BY DEF NothingStuckInPending
  <2>2. /\ i \in Positions /\ Pos + 1 < i /\ Pos + 1 <= i /\ i <= camNext
        /\ recv = Start(Pos + 1)
    <3>1. i \in Packets /\ Pos + 1 < i /\ i < camNext
      BY <1>1 DEF TypeInv, ReceiverTyped, StreamInv, ReceivedInv, PendingAhead
    <3>2. recv = Start(Pos + 1)
      BY <1>1 DEF StreamInv, ReceivedInv, StandsAtPos
    <3>3. camNext \in Nat /\ Pos \in 0 .. camNext - 1
      BY <1>1, PosIsTaken
    <3>4. QED
      BY <3>1, <3>2, <3>3, OffsetGrows DEF Packets, Positions
  <2>3. camNext \in Positions /\ Pos + 1 \in Positions /\ Near(Pos + 1, camNext)
        /\ Pos + 1 <= Pos + 1
    BY <1>1, PosIsTaken, OffsetGrows DEF Positions
  <2>4. Near(Pos + 1, i)
    BY <2>2, <2>3, NearWithin
  <2>5. QED
    BY <2>2, <2>3, <2>4, NearPositions
<1>2. QED
  BY <1>1, StreamKept, PTL

\* With every gap policy: no packet is handed over twice or after a later one.
THEOREM ForwardOnly ==
  ASSUME HandshakeTakes = {}
  PROVE  Spec => []NeverBackwards
<1>1. TypeInv /\ StreamInv => NeverBackwards
  BY DEF StreamInv, ReceivedInv, DeliveredGrows
<1>2. QED
  BY <1>1, StreamKept, PTL

-----------------------------------------------------------------------------
(* The session implements the ordered stream. *)

\* In strict ordering, what was delivered are the first packets of the stream.
PrefixDelivered ==
  /\ Pos = Len(delivered) /\ Pos \in Nat /\ camNext \in Nat /\ Pos < camNext
  /\ camNext <= NPackets + 1 /\ NPackets \in Nat /\ camAcked \in Nat
  /\ delivered = [i \in 1 .. Pos |-> i]

\* That follows from the invariant.
LEMMA DeliveredIsPrefix == TypeInv /\ StreamInv /\ ~allowGapSkip => PrefixDelivered
<1> SUFFICES ASSUME TypeInv, StreamInv, ~allowGapSkip PROVE PrefixDelivered
  OBVIOUS
<1>1. /\ Pos = Len(delivered) /\ camNext \in Nat /\ Pos \in 0 .. camNext - 1
      /\ camNext \in Positions /\ DOMAIN delivered = 1 .. Len(delivered) /\ camAcked \in Nat
  BY PosIsTaken
<1>2. \A i \in 1 .. Pos : delivered[i] = i
  BY <1>1 DEF StreamInv, ReceivedInv, StrictlyOrdered
<1>3. delivered = [i \in 1 .. Pos |-> delivered[i]]
  <2>1. delivered \in Seq(Packets)
    BY DEF TypeInv, ReceiverTyped
  <2>2. PICK n \in Nat : delivered \in [1 .. n -> Packets]
    BY <2>1, SeqDef
  <2>3. delivered = [i \in DOMAIN delivered |-> delivered[i]]
    BY <2>2
  <2>4. QED
    BY <1>1, <2>3
<1>4. delivered = [i \in 1 .. Pos |-> i]
  BY <1>2, <1>3
<1>5. QED
  BY <1>1, <1>4, OffsetGrows DEF Positions, PrefixDelivered

\* The same for the state after a step.
LEMMA PrefixAfterStep == (TypeInv /\ StreamInv /\ ~allowGapSkip => PrefixDelivered)'
BY DeliveredIsPrefix, PTL

\* Packets reach the client by a step of the stream, if any do.
LEMMA TakesInOrder ==
  ASSUME TypeInv, StreamInv, TypeInv', StreamInv', Pos <= Pos', ~allowGapSkip, ~exited,
         UNCHANGED <<allowGapSkip, camNext, camAcked, exited>>
  PROVE  [Stream!Next]_(Stream!vars)
<1>1. /\ Pos = Len(delivered) /\ Pos \in Nat /\ camNext \in Nat
      /\ delivered = [i \in 1 .. Pos |-> i]
  BY DeliveredIsPrefix DEF PrefixDelivered
<1>2. /\ Pos' \in Nat /\ Pos' < camNext /\ delivered' = [i \in 1 .. Pos' |-> i]
  <2>1. TypeInv' /\ StreamInv' /\ ~allowGapSkip'
    OBVIOUS
  <2>2. PrefixDelivered'
    BY <2>1, PrefixAfterStep
  <2>3. QED
    BY <2>2 DEF PrefixDelivered
<1>3. CASE Pos' = Pos
  <2>1. delivered' = delivered
    BY <1>1, <1>2, <1>3
  <2>2. QED
    BY <2>1 DEF Stream!vars
<1>4. CASE Pos' # Pos
  <2>1. Pos' \in Len(delivered) + 1 .. camNext - 1
    BY <1>1, <1>2, <1>4
  <2>2. delivered' = Stream!TakenFirst(Pos')
    BY <1>2 DEF Stream!TakenFirst
  <2>3. \E n \in Len(delivered) + 1 .. camNext - 1 : delivered' = Stream!TakenFirst(n)
    BY <2>1, <2>2
  <2>4. Stream!Take
    BY <2>3 DEF Stream!Take
  <2>5. QED
    BY <2>4 DEF Stream!Next
<1>5. QED
  BY <1>3, <1>4

\* Every step of the session is one of the ordered stream, or none.
LEMMA StepImplements ==
  ASSUME HandshakeTakes = {}, TypeInv, StreamInv, [Next]_vars
  PROVE  [Stream!Next]_(Stream!vars)
<1>1. TypeInv' /\ StreamInv' /\ Pos \in Nat /\ Pos' \in Nat /\ Pos <= Pos'
  BY StepTyped, StepKeepsStream
<1>2. allowGapSkip \in BOOLEAN /\ exited \in BOOLEAN
  BY LimitAssumption DEF TypeInv, TasksTyped
<1>3. allowGapSkip' = allowGapSkip /\ (Next => ~exited)
  BY DEF Next, HandshakeNext, EngineNext, EnvironmentNext, vars,
     HandshakeReads, HandshakeSends, HandOver, RelayHandOver, Receive, SendAck, ReaderPanics, Send,
     RetransmitTick, SocketFailure, GapTimerExpires, FallsQuiet, CameraSends,
     CameraResends, CameraReceives, LoseInbound, LoseOutbound
<1>4. CASE allowGapSkip
  BY <1>3, <1>4 DEF Stream!vars
<1>5. CASE ~allowGapSkip
  <2>1. ASSUME ~exited, UNCHANGED <<camNext, camAcked, exited>>
        PROVE  [Stream!Next]_(Stream!vars)
    BY <1>1, <1>3, <1>5, <2>1, TakesInOrder
  <2>2. ASSUME ~exited, exited', UNCHANGED <<delivered, camNext, camAcked>>
        PROVE  [Stream!Next]_(Stream!vars)
    BY <1>3, <1>5, <2>2 DEF Stream!Next, Stream!Break
  <2>3. ASSUME NEW i \in Packets, CameraSends(i) PROVE [Stream!Next]_(Stream!vars)
    <3>1. camNext \in Nat /\ camNext <= NPackets /\ camNext' = camNext + 1 /\ NPackets \in Nat
      BY <2>3, <1>5, DeliveredIsPrefix, OffsetGrows DEF CameraSends, Packets, PrefixDelivered
    <3>2. UNCHANGED <<delivered, camAcked, exited>> /\ ~exited
      BY <2>3 DEF CameraSends, receiveVars
    <3>3. camNext - 1 < NPackets /\ camNext' - 1 = (camNext - 1) + 1
      BY <3>1
    <3>4. Stream!Offer
      BY <1>3, <1>5, <3>2, <3>3 DEF Stream!Offer
    <3>5. QED
      BY <3>4 DEF Stream!Next
  <2>4. ASSUME NEW p \in outbound, CameraReceives(p) PROVE [Stream!Next]_(Stream!vars)
    <3>1. UNCHANGED <<delivered, camNext, exited>> /\ ~exited
      BY <2>4 DEF CameraReceives, receiveVars
    <3>2. CASE camAcked' = camAcked
      BY <1>3, <1>5, <3>1, <3>2 DEF Stream!vars
    <3>3. CASE camAcked' # camAcked
      <4>1. camAcked' \in camAcked .. camNext - 1
        BY <2>4 DEF CameraReceives
      <4>2. camAcked' <= Pos'
        BY <1>1 DEF StreamInv, CameraKeeps
      <4>3. Pos' = Pos /\ Pos = Len(delivered) /\ camAcked \in Nat /\ camNext \in Nat
        BY <1>5, <3>1, DeliveredIsPrefix DEF Pos, PrefixDelivered
      <4>4. camAcked' \in camAcked + 1 .. Len(delivered)
        BY <1>1, <3>3, <4>1, <4>2, <4>3
      <4>5. \E n \in camAcked + 1 .. Len(delivered) : camAcked' = n
        BY <4>4
      <4>6. QED
        BY <1>3, <1>5, <3>1, <4>5 DEF Stream!Next, Stream!Forget
    <3>4. QED
      BY <3>2, <3>3
  <2>5. ASSUME NEW due, RetransmitTick(due) PROVE [Stream!Next]_(Stream!vars)
    <3>1. ~exited /\ UNCHANGED <<delivered, camNext, camAcked>> /\ exited' \in BOOLEAN
      BY <2>5 DEF RetransmitTick, receiveVars, cameraVars
    <3>2. exited' \/ exited' = exited
      BY <1>2, <3>1
    <3>3. QED
      BY <2>1, <2>2, <3>1, <3>2
  <2>6. CASE SocketFailure
    BY <2>2, <2>6 DEF SocketFailure, receiveVars, cameraVars
  <2>7. ASSUME NEW p, \/ HandshakeReads(p) \/ HandOver(p) \/ Receive(p)
                      \/ LoseInbound(p) \/ LoseOutbound(p)
        PROVE  [Stream!Next]_(Stream!vars)
    BY <2>1, <2>7
    DEF HandshakeReads, HandOver, Receive, LoseInbound, LoseOutbound, cameraVars
  <2>8. ASSUME NEW len, HandshakeSends(len) \/ Send(len) PROVE [Stream!Next]_(Stream!vars)
    BY <2>1, <2>8 DEF HandshakeSends, Send, cameraVars
  <2>9. ASSUME NEW i, CameraResends(i) PROVE [Stream!Next]_(Stream!vars)
    BY <2>1, <2>9 DEF CameraResends, cameraVars
  <2>10. CASE RelayHandOver \/ SendAck \/ ReaderPanics \/ GapTimerExpires \/ FallsQuiet
    BY <2>1, <2>10
    DEF RelayHandOver, SendAck, ReaderPanics, GapTimerExpires, FallsQuiet, cameraVars
  <2>11. CASE UNCHANGED vars
    BY <2>11 DEF vars, Stream!vars
  <2>12. QED
    BY <2>3, <2>4, <2>5, <2>6, <2>7, <2>8, <2>9, <2>10, <2>11
    DEF Next, HandshakeNext, EngineNext, EnvironmentNext
<1>6. QED
  BY <1>2, <1>4, <1>5

\* In strict ordering the session, the network and the camera together behave
\* as the ordered stream: packets are offered, handed over in order, forgotten
\* only after that, until the session breaks.
THEOREM SessionImplementsStream ==
  ASSUME HandshakeTakes = {}
  PROVE  Spec => ImplementsStream
<1>1. Init => Stream!Init
  <2>1. SUFFICES ASSUME Init PROVE Stream!Init
    OBVIOUS
  <2>2. camNext = 1 /\ camAcked = 0 /\ delivered = <<>> /\ exited = FALSE
    BY <2>1 DEF Init
  <2>3. camNext - 1 = 0
    BY <2>2
  <2>4. QED
    BY <2>2, <2>3 DEF Stream!Init
<1>2. (TypeInv /\ StreamInv) /\ [Next]_vars => [Stream!Next]_(Stream!vars)
  BY StepImplements
<1>3. QED
  BY <1>1, <1>2, StreamKept, PTL DEF Spec, ImplementsStream, Stream!Spec

-----------------------------------------------------------------------------
(* The sending half: how far behind sent everything is. *)

\* Bytes that are on their way lie behind sent.
SentBehind ==
  \A p \in outbound : p.len <= WrapSub(sent, p.start) /\ WrapSub(sent, p.start) < HalfRange

EndOf(packet) == WrapAdd(packet.start, packet.len)

\* The window holds consecutive bytes that end at sent.
WindowChained ==
  /\ \A j \in DOMAIN window : WrapSub(sent, window[j].start) < HalfRange
  /\ \A j \in DOMAIN window : window[j].len <= WrapSub(sent, window[j].start)
  /\ \A j, k \in DOMAIN window :
       j <= k => WrapSub(sent, window[k].start) <= WrapSub(sent, window[j].start)
  /\ \A j \in DOMAIN window :
       EndOf(window[j]) = IF j = Len(window) THEN sent ELSE window[j + 1].start
  /\ ~Launched => window = <<>>

\* The camera acknowledges no byte that it has not received.
AcksBehind ==
  /\ WrapSub(sent, camRecv) < HalfRange
  /\ \A p \in inbound : /\ WrapSub(sent, camRecv) <= WrapSub(sent, p.ack)
                        /\ WrapSub(sent, p.ack) < HalfRange

\* What the camera has not received of the handshake's bodies is part of what
\* it has not received; until the engine is launched it is all of it.
UnheardBehind ==
  /\ unheard <= WrapSub(sent, camRecv)
  /\ ~Launched => unheard = WrapSub(sent, camRecv)

\* The window reaches back to what the camera has received of the engine.
WindowReaches ==
  Launched /\ ~discarded =>
    IF window = <<>> THEN unheard = WrapSub(sent, camRecv)
    ELSE WrapSub(sent, camRecv) - unheard <= WrapSub(sent, window[1].start)

SendInv ==
  SentBehind /\ WindowChained /\ AcksBehind /\ UnheardBehind /\ WindowReaches

\* As a counter advances, everything falls further behind it.
LEMMA BehindGrows ==
  ASSUME NEW s \in U32, NEW x \in U32, NEW len \in 0 .. HalfRange - 1,
         WrapSub(s, x) + len < HalfRange
  PROVE  WrapSub(WrapAdd(s, len), x) = WrapSub(s, x) + len
BY HalfRangeAssumption DEF U32, Modulus, WrapAdd, WrapSub

\* Its old value is as far behind as it advanced.
LEMMA BehindItself ==
  ASSUME NEW s \in U32, NEW len \in 0 .. HalfRange - 1
  PROVE  WrapSub(WrapAdd(s, len), s) = len /\ WrapSub(s, s) = 0
BY HalfRangeAssumption DEF U32, Modulus, WrapAdd, WrapSub

\* A position that advances towards the counter is less far behind.
LEMMA BehindShrinks ==
  ASSUME NEW s \in U32, NEW x \in U32, NEW len \in 0 .. HalfRange - 1,
         len <= WrapSub(s, x), WrapSub(s, x) < HalfRange
  PROVE  WrapSub(s, WrapAdd(x, len)) = WrapSub(s, x) - len
BY HalfRangeAssumption DEF U32, Modulus, WrapAdd, WrapSub

\* Only the counter itself is not behind it; distances subtract.
LEMMA BehindDiffers ==
  ASSUME NEW s \in U32, NEW x \in U32, NEW y \in U32
  PROVE  /\ WrapSub(s, x) \in Nat
         /\ WrapSub(s, x) = 0 <=> x = s
         /\ WrapSub(s, x) <= WrapSub(s, y) => WrapSub(x, y) = WrapSub(s, y) - WrapSub(s, x)
BY HalfRangeAssumption DEF U32, Modulus, WrapSub

\* What an acknowledgement covers is at least as far behind.
LEMMA CoveredIsBehind ==
  ASSUME NEW s \in U32, NEW ack \in U32, NEW x \in U32,
         WrapSub(s, ack) < HalfRange, WrapSub(s, x) < HalfRange, Covers(ack, x)
  PROVE  WrapSub(s, ack) <= WrapSub(s, x)
BY HalfRangeAssumption DEF U32, Modulus, WrapSub, Covers, SequenceAfter

\* The types the distances are taken of.
LEMMA SendTypes ==
  ASSUME TypeInv
  PROVE  /\ sent \in U32 /\ camRecv \in U32 /\ recv \in U32 /\ unheard \in Nat
         /\ window \in Seq(ShortTracked) /\ Len(window) \in Nat
         /\ DOMAIN window = 1 .. Len(window)
         /\ \A j \in 1 .. Len(window) :
              /\ window[j].start \in U32 /\ window[j].len \in 1 .. HalfRange - 1
              /\ window[j].len \in 0 .. HalfRange - 1
         /\ \A p \in outbound : p.start \in U32 /\ p.len \in 0 .. HalfRange - 1
         /\ \A p \in inbound : p.ack \in U32
<1>1. window \in Seq(ShortTracked) /\ Len(window) \in Nat /\ DOMAIN window = 1 .. Len(window)
  BY LenProperties DEF TypeInv, SenderTyped
<1>2. ASSUME NEW j \in 1 .. Len(window)
      PROVE  /\ window[j].start \in U32 /\ window[j].len \in 1 .. HalfRange - 1
             /\ window[j].len \in 0 .. HalfRange - 1
  <2>1. window[j] \in ShortTracked
    BY <1>1, ElementOfSeq
  <2>2. window[j].start \in U32 /\ window[j].len \in 1 .. HalfRange - 1
    BY <2>1 DEF ShortTracked
  <2>3. QED
    BY <2>2, HalfRangeAssumption
<1>3. QED
  BY <1>1, <1>2
  DEF TypeInv, ReceiverTyped, SenderTyped, WorldTyped, ShortOutgoing, InFlight

\* Nothing new is sent: what is added to the network was sent before.
LEMMA OutboundStays ==
  ASSUME TypeInv, SendInv, sent' = sent,
         \A p \in outbound' :
           \/ p \in outbound
           \/ p.start = sent /\ p.len = 0
           \/ \E j \in DOMAIN window : p.start = window[j].start /\ p.len = window[j].len
  PROVE  SentBehind'
<1>1. WrapSub(sent, sent) = 0 /\ 0 < HalfRange
  BY SendTypes, BehindDiffers, HalfRangeAssumption
<1>2. QED
  BY <1>1 DEF SendInv, SentBehind, WindowChained

\* The camera's datagrams name a position it has reached.
LEMMA AcksStay ==
  ASSUME TypeInv, SendInv, sent' = sent, camRecv' = camRecv,
         \A p \in inbound' : p \in inbound \/ p.ack = camRecv
  PROVE  AcksBehind'
<1>1. WrapSub(sent, camRecv) \in Nat
  BY SendTypes, BehindDiffers
<1>2. QED
  BY <1>1 DEF SendInv, AcksBehind

\* The bytes the window holds stay the same.
LEMMA WindowStays ==
  ASSUME TypeInv, SendInv, sent' = sent, camRecv' = camRecv, discarded' = discarded,
         unheard' = unheard, Launched' <=> Launched,
         window' \in Seq(ShortTracked), Len(window') = Len(window),
         \A j \in 1 .. Len(window) : /\ window'[j].start = window[j].start
                                     /\ window'[j].len = window[j].len
  PROVE  WindowChained' /\ WindowReaches' /\ UnheardBehind'
<1>1. /\ DOMAIN window = 1 .. Len(window) /\ DOMAIN window' = 1 .. Len(window)
      /\ Len(window) \in Nat
      /\ window = <<>> <=> Len(window) = 0
      /\ window' = <<>> <=> Len(window) = 0
  BY SendTypes, LenProperties, EmptySeq
<1>2. \A j \in 1 .. Len(window) : EndOf(window'[j]) = EndOf(window[j])
  BY DEF EndOf
<1>3. ASSUME NEW j \in 1 .. Len(window)
      PROVE  EndOf(window'[j]) = IF j = Len(window') THEN sent' ELSE window'[j + 1].start
  <2>1. EndOf(window[j]) = IF j = Len(window) THEN sent ELSE window[j + 1].start
    BY <1>1 DEF SendInv, WindowChained
  <2>2. j # Len(window) => j + 1 \in 1 .. Len(window)
    <3>1. Len(window) \in Nat
      BY <1>1
    <3>2. QED
      BY <3>1
  <2>3. QED
    BY <1>2, <2>1, <2>2
<1>4. WindowChained'
  BY <1>1, <1>3 DEF SendInv, WindowChained, EndOf
<1>5. WindowReaches'
  <2>1. window # <<>> => 1 \in 1 .. Len(window)
    BY <1>1
  <2>2. QED
    BY <1>1, <2>1 DEF SendInv, WindowReaches
<1>6. UnheardBehind'
  BY DEF SendInv, UnheardBehind
<1>7. QED
  BY <1>4, <1>5, <1>6

\* Sending len bytes puts everything len bytes further behind.
LEMMA SendingMovesOn ==
  ASSUME TypeInv, SendInv, NEW len \in 0 .. HalfRange - 1, RoomFor(len),
         sent' = WrapAdd(sent, len), camRecv' = camRecv, inbound' = inbound,
         \A p \in outbound' : p \in outbound \/ (p.start = sent /\ p.len = len)
  PROVE  /\ SentBehind' /\ AcksBehind' /\ sent' \in U32
         /\ WrapSub(sent', sent) = len
         /\ WrapSub(sent', camRecv) = WrapSub(sent, camRecv) + len
         /\ \A j \in 1 .. Len(window) :
              /\ WrapSub(sent', window[j].start) = WrapSub(sent, window[j].start) + len
              /\ WrapSub(sent', window[j].start) < HalfRange
              /\ WrapSub(sent, window[j].start) \in Nat
<1>1. /\ sent' \in U32 /\ WrapSub(sent', sent) = len
      /\ WrapSub(sent', camRecv) = WrapSub(sent, camRecv) + len
      /\ WrapSub(sent, camRecv) \in Nat /\ len < HalfRange /\ len \in Nat
  <2>1. WrapSub(sent, camRecv) + len < HalfRange
    BY DEF RoomFor
  <2>2. len < HalfRange /\ len \in Nat
    BY HalfRangeAssumption
  <2>3. QED
    BY <2>1, <2>2, SendTypes, WrapAddTyped, BehindItself, BehindGrows, BehindDiffers
<1>2. ASSUME NEW p \in outbound'
      PROVE  p.len <= WrapSub(sent', p.start) /\ WrapSub(sent', p.start) < HalfRange
  <2>1. CASE p \in outbound
    <3>1. /\ p.start \in U32 /\ p.len \in 0 .. HalfRange - 1
          /\ WrapSub(sent, p.start) + len < HalfRange
          /\ p.len <= WrapSub(sent, p.start)
      BY <2>1, SendTypes DEF RoomFor, SendInv, SentBehind
    <3>2. WrapSub(sent', p.start) = WrapSub(sent, p.start) + len
      BY <3>1, SendTypes, BehindGrows
    <3>3. WrapSub(sent, p.start) \in Nat /\ p.len \in Nat
      <4>1. sent \in U32 /\ p.start \in U32 /\ p.len \in 0 .. HalfRange - 1
        BY <3>1, SendTypes
      <4>2. QED
        BY <4>1, BehindDiffers
    <3>4. QED
      BY <1>1, <3>1, <3>2, <3>3
  <2>2. CASE p.start = sent /\ p.len = len
    BY <1>1, <2>2
  <2>3. QED
    BY <2>1, <2>2
<1>3. ASSUME NEW p \in inbound
      PROVE  /\ WrapSub(sent', camRecv) <= WrapSub(sent', p.ack)
             /\ WrapSub(sent', p.ack) < HalfRange
  <2>1. /\ p.ack \in U32 /\ WrapSub(sent, p.ack) + len < HalfRange
        /\ WrapSub(sent, camRecv) <= WrapSub(sent, p.ack)
    BY SendTypes DEF RoomFor, SendInv, AcksBehind
  <2>2. WrapSub(sent', p.ack) = WrapSub(sent, p.ack) + len
    BY <2>1, SendTypes, BehindGrows
  <2>3. WrapSub(sent, p.ack) \in Nat
    BY <2>1, SendTypes, BehindDiffers
  <2>4. QED
    BY <1>1, <2>1, <2>2, <2>3
<1>4. ASSUME NEW j \in 1 .. Len(window)
      PROVE  /\ WrapSub(sent', window[j].start) = WrapSub(sent, window[j].start) + len
             /\ WrapSub(sent', window[j].start) < HalfRange
             /\ WrapSub(sent, window[j].start) \in Nat
  <2>1. /\ 1 \in DOMAIN window /\ j \in DOMAIN window /\ 1 <= j /\ window # <<>>
        /\ window[j].start \in U32 /\ window[1].start \in U32
    BY SendTypes, EmptySeq
  <2>2. WrapSub(sent, window[j].start) <= WrapSub(sent, window[1].start)
    BY <2>1 DEF SendInv, WindowChained
  <2>3. WrapSub(sent, window[1].start) + len < HalfRange
    BY <2>1 DEF RoomFor
  <2>4. WrapSub(sent, window[j].start) \in Nat /\ WrapSub(sent, window[1].start) \in Nat
    BY <2>1, SendTypes, BehindDiffers
  <2>5. WrapSub(sent, window[j].start) + len < HalfRange
    BY <1>1, <2>2, <2>3, <2>4, HalfRangeAssumption
  <2>6. QED
    BY <2>1, <2>4, <2>5, SendTypes, BehindGrows
<1>5. SentBehind'
  BY <1>2 DEF SentBehind
<1>6. AcksBehind'
  <2>1. WrapSub(sent', camRecv) < HalfRange
    BY <1>1 DEF RoomFor
  <2>2. QED
    BY <1>3, <2>1 DEF AcksBehind
<1>7. QED
  BY <1>1, <1>4, <1>5, <1>6

\* dh_writer's packet joins the window at its end.
LEMMA SendKeepsWindow ==
  ASSUME TypeInv, SendInv, NEW len \in SendLengths, Send(len)
  PROVE  SendInv'
<1> DEFINE full == Len(window) >= MaxSentWindow
           kept == IF full THEN Len(window) - 1 ELSE Len(window)
           packet == [start |-> sent, len |-> len, ack |-> recv, retries |-> 0]
           old(j) == IF full THEN j + 1 ELSE j
<1>1. /\ len \in 0 .. HalfRange - 1 /\ len \in Nat /\ RoomFor(len) /\ sent' = WrapAdd(sent, len)
      /\ camRecv' = camRecv /\ inbound' = inbound /\ Launched /\ Launched'
      /\ discarded' = (discarded \/ full) /\ unheard' = unheard
  BY LimitAssumption, HalfRangeAssumption DEF Send, cameraVars, Launched
<1>2. \A p \in outbound' : p \in outbound \/ (p.start = sent /\ p.len = len)
  BY DEF Send
<1>3. /\ SentBehind' /\ AcksBehind'
      /\ WrapSub(sent', sent) = len /\ len < HalfRange
      /\ WrapSub(sent', camRecv) = WrapSub(sent, camRecv) + len
      /\ \A j \in 1 .. Len(window) :
           /\ WrapSub(sent', window[j].start) = WrapSub(sent, window[j].start) + len
           /\ WrapSub(sent', window[j].start) < HalfRange
           /\ WrapSub(sent, window[j].start) \in Nat
  BY <1>1, <1>2, SendingMovesOn, HalfRangeAssumption
<1>4. /\ window' \in Seq(ShortTracked) /\ Len(window) \in Nat /\ (full => Len(window) > 0)
      /\ Len(window') = kept + 1 /\ window'[kept + 1] = packet
      /\ \A j \in 1 .. kept : window'[j] = window[old(j)]
  BY SendTypes, SendTracks DEF TypeInv
<1>5. /\ kept \in Nat /\ DOMAIN window = 1 .. Len(window) /\ DOMAIN window' = 1 .. kept + 1
      /\ window' # <<>>
  BY <1>4, SendTypes, LenProperties, EmptySeq
<1>6. packet.start = sent /\ packet.len = len /\ EndOf(packet) = sent'
  BY <1>1 DEF EndOf
<1>7. ASSUME NEW j \in 1 .. kept
      PROVE  /\ old(j) \in 1 .. Len(window) /\ window'[j] = window[old(j)]
             /\ old(j) = Len(window) <=> j = kept
             /\ j # kept => old(j + 1) = old(j) + 1 /\ j + 1 \in 1 .. kept
             /\ j \in Nat
  <2>1. Len(window) \in Nat /\ kept \in Nat /\ (full => Len(window) > 0)
    BY <1>4, <1>5
  <2>2. window'[j] = window[old(j)]
    BY <1>4
  <2>3. j \in Nat /\ 1 <= j /\ j <= kept
    BY <2>1
  <2>4. /\ old(j) \in 1 .. Len(window)
        /\ old(j) = Len(window) <=> j = kept
    <3>1. CASE full
      BY <2>1, <2>3, <3>1
    <3>2. CASE ~full
      BY <2>1, <2>3, <3>2
    <3>3. QED
      BY <3>1, <3>2
  <2>5. old(j + 1) = old(j) + 1
    BY <2>3
  <2>6. j # kept => j + 1 \in 1 .. kept
    <3> HIDE DEF kept
    <3>1. QED
      BY <2>1, <2>3
  <2>7. QED
    BY <2>2, <2>3, <2>4, <2>5, <2>6
<1>8. \A j, k \in 1 .. kept : j <= k => old(j) <= old(k)
  BY <1>5
<1> HIDE DEF full, kept, packet, old
<1>9. ASSUME NEW j \in 1 .. kept + 1
      PROVE  /\ WrapSub(sent', window'[j].start) < HalfRange
             /\ window'[j].len <= WrapSub(sent', window'[j].start)
  <2>1. CASE j \in 1 .. kept
    <3>1. /\ WrapSub(sent', window[old(j)].start) = WrapSub(sent, window[old(j)].start) + len
          /\ WrapSub(sent', window[old(j)].start) < HalfRange
          /\ WrapSub(sent, window[old(j)].start) \in Nat
      BY <1>3, <1>7, <2>1
    <3>2. window[old(j)].len <= WrapSub(sent, window[old(j)].start)
      BY <1>5, <1>7, <2>1 DEF SendInv, WindowChained
    <3>3. window[old(j)].len \in Nat
      BY <1>7, <2>1, SendTypes, HalfRangeAssumption
    <3>4. window'[j] = window[old(j)]
      BY <1>7, <2>1
    <3>5. QED
      BY <1>1, <3>1, <3>2, <3>3, <3>4
  <2>2. CASE j = kept + 1
    BY <1>1, <1>3, <1>4, <1>6, <2>2
  <2>3. QED
    BY <1>5, <2>1, <2>2
<1>10. ASSUME NEW j \in 1 .. kept + 1, NEW k \in 1 .. kept + 1, j <= k
       PROVE  WrapSub(sent', window'[k].start) <= WrapSub(sent', window'[j].start)
  <2>1. CASE k \in 1 .. kept
    <3>1. j \in 1 .. kept
      BY <1>5, <1>10, <2>1
    <3>2. WrapSub(sent, window[old(k)].start) <= WrapSub(sent, window[old(j)].start)
      BY <1>5, <1>7, <1>8, <1>10, <2>1, <3>1 DEF SendInv, WindowChained
    <3>3. /\ WrapSub(sent', window'[k].start) = WrapSub(sent, window[old(k)].start) + len
          /\ WrapSub(sent, window[old(k)].start) \in Nat
      BY <1>3, <1>7, <2>1
    <3>4. /\ WrapSub(sent', window'[j].start) = WrapSub(sent, window[old(j)].start) + len
          /\ WrapSub(sent, window[old(j)].start) \in Nat
      BY <1>3, <1>7, <3>1
    <3>5. QED
      BY <1>1, <3>2, <3>3, <3>4
  <2>2. CASE k = kept + 1
    <3>1. WrapSub(sent', window'[k].start) = len
      BY <1>3, <1>4, <1>6, <2>2
    <3>2. CASE j \in 1 .. kept
      <4>1. /\ WrapSub(sent', window'[j].start) = WrapSub(sent, window[old(j)].start) + len
            /\ WrapSub(sent, window[old(j)].start) \in Nat
        BY <1>3, <1>7, <3>2
      <4>2. QED
        BY <1>1, <3>1, <4>1
    <3>3. CASE j = kept + 1
      BY <1>1, <2>2, <3>1, <3>3
    <3>4. QED
      BY <1>5, <3>2, <3>3
  <2>3. QED
    BY <1>5, <2>1, <2>2
<1>11. ASSUME NEW j \in 1 .. kept + 1
       PROVE  EndOf(window'[j]) = IF j = Len(window') THEN sent' ELSE window'[j + 1].start
  <2>1. CASE j = kept + 1
    BY <1>4, <1>6, <2>1
  <2>2. CASE j = kept /\ j \in 1 .. kept
    <3>1. EndOf(window[old(j)]) = sent
      BY <1>5, <1>7, <2>2 DEF SendInv, WindowChained
    <3>2. window'[j] = window[old(j)] /\ window'[j + 1].start = sent /\ j # Len(window')
      BY <1>4, <1>5, <1>6, <1>7, <2>2
    <3>3. QED
      BY <3>1, <3>2
  <2>3. CASE j # kept /\ j \in 1 .. kept
    <3>1. EndOf(window[old(j)]) = window[old(j) + 1].start
      BY <1>5, <1>7, <2>3 DEF SendInv, WindowChained
    <3>2. /\ window'[j] = window[old(j)] /\ window'[j + 1] = window[old(j) + 1]
      BY <1>7, <2>3
    <3>3. j # Len(window')
      BY <1>4, <1>5, <2>3
    <3>4. QED
      BY <3>1, <3>2, <3>3
  <2>4. QED
    BY <1>5, <2>1, <2>2, <2>3
<1>12. WindowChained'
  <2>1. DOMAIN window' = 1 .. kept + 1
    BY <1>5
  <2>2. QED
    BY <1>1, <1>9, <1>10, <1>11, <2>1 DEF WindowChained
<1>13. WindowReaches'
  <2>1. SUFFICES ASSUME ~discarded, ~full
                 PROVE  WrapSub(sent', camRecv') - unheard' <= WrapSub(sent', window'[1].start)
    BY <1>1, <1>5 DEF WindowReaches
  <2>2. kept = Len(window) /\ \A j \in 1 .. kept : old(j) = j
    BY <2>1 DEF kept, old
  <2>3. WrapSub(sent, camRecv) \in Nat /\ unheard \in Nat
    BY SendTypes, BehindDiffers
  <2>4. CASE Len(window) = 0
    <3>1. window = <<>>
      BY <2>4, SendTypes, EmptySeq
    <3>2. unheard = WrapSub(sent, camRecv)
      BY <1>1, <2>1, <3>1 DEF SendInv, WindowReaches
    <3>3. window'[1].start = sent
      BY <1>4, <1>6, <2>2, <2>4
    <3>4. WrapSub(sent', camRecv') = WrapSub(sent, camRecv) + len
      BY <1>1, <1>3
    <3>5. WrapSub(sent', window'[1].start) = len
      BY <1>3, <3>3, Zenon
    <3>6. QED
      BY <1>1, <2>3, <3>2, <3>4, <3>5
  <2>5. CASE Len(window) # 0
    <3>1. 1 \in 1 .. kept /\ window # <<>>
      BY <1>4, <2>2, <2>5, EmptySeq
    <3>2. window'[1] = window[1]
      BY <1>7, <2>2, <3>1
    <3>3. WrapSub(sent, camRecv) - unheard <= WrapSub(sent, window[1].start)
      BY <1>1, <2>1, <3>1 DEF SendInv, WindowReaches
    <3>4. /\ WrapSub(sent', window[1].start) = WrapSub(sent, window[1].start) + len
          /\ WrapSub(sent, window[1].start) \in Nat
      BY <1>3, <2>2, <3>1
    <3>5. QED
      BY <1>1, <1>3, <2>3, <3>2, <3>3, <3>4
  <2>6. QED
    BY <2>4, <2>5
<1>14. UnheardBehind'
  <2>1. WrapSub(sent', camRecv') = WrapSub(sent, camRecv) + len
    BY <1>1, <1>3
  <2>2. WrapSub(sent, camRecv) \in Nat /\ unheard \in Nat
    BY SendTypes, BehindDiffers
  <2>3. QED
    BY <1>1, <2>1, <2>2 DEF SendInv, UnheardBehind
<1>15. QED
  BY <1>3, <1>12, <1>13, <1>14 DEF SendInv

\* An acknowledgement drops bytes that the camera has received.
LEMMA AcknowledgeKeepsWindow ==
  ASSUME TypeInv, SendInv, NEW p \in inbound, Acknowledge(p.ack),
         sent' = sent, camRecv' = camRecv, discarded' = discarded, unheard' = unheard,
         Launched, Launched'
  PROVE  WindowChained' /\ WindowReaches' /\ UnheardBehind'
<1>1. PICK k \in 0 .. Len(window) :
        /\ window' \in Seq(ShortTracked) /\ Len(window') = Len(window) - k
        /\ \A j \in 1 .. Len(window) - k : window'[j] = window[j + k]
        /\ k > 0 => Covers(p.ack, WrapAdd(window[k].start, window[k].len))
  BY AcknowledgeDrops DEF TypeInv
<1>2. /\ Len(window) \in Nat /\ DOMAIN window = 1 .. Len(window) /\ k \in Nat
      /\ k <= Len(window) /\ DOMAIN window' = 1 .. Len(window) - k
  BY <1>1, SendTypes, LenProperties
<1>3. ASSUME NEW j \in 1 .. Len(window) - k
      PROVE  /\ j + k \in DOMAIN window /\ window'[j] = window[j + k] /\ j \in Nat
             /\ j = Len(window') <=> j + k = Len(window)
             /\ j # Len(window') => /\ j + 1 \in 1 .. Len(window) - k
                                    /\ (j + 1) + k = (j + k) + 1
  <2> DEFINE n == Len(window)
  <2>1. n \in Nat /\ k \in Nat /\ k <= n /\ j \in 1 .. n - k
    BY <1>2
  <2>2. DOMAIN window = 1 .. n /\ Len(window') = n - k /\ window'[j] = window[j + k]
    BY <1>1, <1>2
  <2> HIDE DEF n
  <2>3. /\ j + k \in 1 .. n /\ j \in Nat
        /\ j = n - k <=> j + k = n
        /\ j # n - k => j + 1 \in 1 .. n - k
        /\ (j + 1) + k = (j + k) + 1
    BY <2>1
  <2>4. QED
    BY <2>2, <2>3 DEF n
<1>4. WindowChained'
  <2>1. ASSUME NEW j \in 1 .. Len(window) - k
        PROVE  /\ WrapSub(sent, window'[j].start) < HalfRange
               /\ window'[j].len <= WrapSub(sent, window'[j].start)
    BY <1>3 DEF SendInv, WindowChained
  <2>2. ASSUME NEW j \in 1 .. Len(window) - k, NEW l \in 1 .. Len(window) - k, j <= l
        PROVE  WrapSub(sent, window'[l].start) <= WrapSub(sent, window'[j].start)
    <3>1. /\ j + k \in DOMAIN window /\ window'[j] = window[j + k]
          /\ l + k \in DOMAIN window /\ window'[l] = window[l + k]
          /\ j + k <= l + k
      BY <1>2, <1>3, <2>2
    <3>2. QED
      BY <3>1 DEF SendInv, WindowChained
  <2>3. ASSUME NEW j \in 1 .. Len(window) - k
        PROVE  EndOf(window'[j]) = IF j = Len(window') THEN sent ELSE window'[j + 1].start
    <3>1. EndOf(window[j + k])
            = IF j + k = Len(window) THEN sent ELSE window[(j + k) + 1].start
      BY <1>3 DEF SendInv, WindowChained
    <3>2. j # Len(window') => window'[j + 1] = window[(j + k) + 1]
      BY <1>3
    <3>3. QED
      BY <1>3, <3>1, <3>2
  <2>4. QED
    BY <1>2, <2>1, <2>2, <2>3 DEF WindowChained
<1>5. WindowReaches'
  <2>1. SUFFICES ASSUME ~discarded
                 PROVE  IF window' = <<>> THEN unheard = WrapSub(sent, camRecv)
                        ELSE WrapSub(sent, camRecv) - unheard
                               <= WrapSub(sent, window'[1].start)
    BY DEF WindowReaches
  <2>2. /\ window' = <<>> <=> k = Len(window)
        /\ window = <<>> <=> Len(window) = 0
    BY <1>1, <1>2, SendTypes, EmptySeq
  <2>3. CASE k = 0
    <3>1. Len(window) # 0 => window'[1] = window[1]
      <4>1. SUFFICES ASSUME Len(window) # 0 PROVE window'[1] = window[1]
        OBVIOUS
      <4>2. 1 \in 1 .. Len(window) - k /\ 1 + k = 1
        BY <1>2, <2>3, <4>1
      <4>3. QED
        BY <1>3, <4>2
    <3>2. QED
      BY <2>1, <2>2, <2>3, <3>1 DEF SendInv, WindowReaches
  <2>4. CASE k > 0
    <3>1. k \in 1 .. Len(window) /\ k \in DOMAIN window
      BY <1>2, <2>4
    <3> DEFINE end == EndOf(window[k])
    <3>2. end = IF k = Len(window) THEN sent ELSE window[k + 1].start
      BY <3>1 DEF SendInv, WindowChained
    <3>3. k # Len(window) => k + 1 \in DOMAIN window /\ k + 1 \in 1 .. Len(window)
      <4> DEFINE n == Len(window)
      <4>1. n \in Nat /\ k \in 1 .. n /\ DOMAIN window = 1 .. n
        BY <1>2, <3>1
      <4> HIDE DEF n
      <4>2. k # n => k + 1 \in 1 .. n
        BY <4>1
      <4>3. QED
        BY <4>1, <4>2 DEF n
    <3>4. end \in U32 /\ WrapSub(sent, end) < HalfRange
      <4>1. CASE k = Len(window)
        <5>1. sent \in U32 /\ WrapSub(sent, sent) = 0 /\ 0 < HalfRange
          BY SendTypes, BehindDiffers, HalfRangeAssumption
        <5>2. QED
          BY <3>2, <4>1, <5>1
      <4>2. CASE k # Len(window)
        <5>1. window[k + 1].start \in U32
          BY <3>3, <4>2, SendTypes
        <5>2. WrapSub(sent, window[k + 1].start) < HalfRange
          BY <3>3, <4>2 DEF SendInv, WindowChained
        <5>3. QED
          BY <3>2, <4>2, <5>1, <5>2
      <4>3. QED
        BY <4>1, <4>2
    <3>5. Covers(p.ack, end)
      BY <1>1, <2>4 DEF EndOf
    <3> HIDE DEF end
    <3>6. /\ p.ack \in U32 /\ WrapSub(sent, p.ack) < HalfRange
          /\ WrapSub(sent, camRecv) <= WrapSub(sent, p.ack)
      BY SendTypes DEF SendInv, AcksBehind
    <3>7. WrapSub(sent, p.ack) <= WrapSub(sent, end)
      BY <3>4, <3>5, <3>6, SendTypes, CoveredIsBehind
    <3>8. WrapSub(sent, camRecv) <= WrapSub(sent, end)
      <4>1. /\ WrapSub(sent, camRecv) \in Nat /\ WrapSub(sent, p.ack) \in Nat
            /\ WrapSub(sent, end) \in Nat
        BY <3>4, <3>6, SendTypes, BehindDiffers
      <4>2. QED
        BY <3>6, <3>7, <4>1
    <3>9. CASE k = Len(window)
      <4>1. WrapSub(sent, camRecv) \in Nat /\ WrapSub(sent, sent) = 0
        BY SendTypes, BehindDiffers
      <4>2. WrapSub(sent, camRecv) = 0
        BY <3>2, <3>8, <3>9, <4>1
      <4>3. unheard = 0
        BY <4>2, SendTypes DEF SendInv, UnheardBehind
      <4>4. QED
        BY <2>2, <3>9, <4>2, <4>3
    <3>10. CASE k # Len(window)
      <4>1. 1 \in 1 .. Len(window) - k /\ 1 + k = k + 1
        <5> DEFINE n == Len(window)
        <5>1. n \in Nat /\ k \in Nat /\ k <= n /\ k # n
          BY <1>2, <3>10
        <5> HIDE DEF n
        <5>2. 1 \in 1 .. n - k /\ 1 + k = k + 1
          BY <5>1
        <5>3. QED
          BY <5>2 DEF n
      <4>2. window'[1] = window[k + 1]
        BY <1>3, <4>1
      <4>3. /\ WrapSub(sent, camRecv) \in Nat /\ unheard \in Nat
            /\ WrapSub(sent, end) \in Nat
        BY <3>4, SendTypes, BehindDiffers
      <4>4. WrapSub(sent, camRecv) - unheard <= WrapSub(sent, end)
        BY <3>8, <4>3
      <4>5. QED
        BY <2>2, <3>2, <3>10, <4>2, <4>4
    <3>11. QED
      BY <3>9, <3>10
  <2>5. QED
    BY <1>2, <2>3, <2>4
<1>6. UnheardBehind'
  BY DEF SendInv, UnheardBehind
<1>7. QED
  BY <1>4, <1>5, <1>6

\* A retransmission sends nothing that was not sent before.
LEMMA RetransmitKeepsSent ==
  ASSUME TypeInv, SendInv, NEW due \in SUBSET Retryable, RetransmitTick(due)
  PROVE  SendInv'
<1>1. UNCHANGED <<sent, discarded, inbound, camRecv, unheard, reader>>
  BY DEF RetransmitTick, cameraVars
<1>2. /\ window' \in Seq(ShortTracked) /\ Len(window') = Len(window)
      /\ \A j \in 1 .. Len(window) : /\ window'[j].start = window[j].start
                                     /\ window'[j].len = window[j].len
  BY RetransmitTracks DEF TypeInv
<1>3. WindowChained' /\ WindowReaches' /\ UnheardBehind'
  BY <1>1, <1>2, WindowStays DEF Launched
<1>4. ASSUME NEW p \in outbound'
      PROVE  \/ p \in outbound
             \/ \E j \in DOMAIN window : p.start = window[j].start /\ p.len = window[j].len
  BY DEF RetransmitTick, Retryable
<1>5. SentBehind'
  BY <1>1, <1>4, OutboundStays
<1>6. AcksBehind'
  BY <1>1, AcksStay
<1>7. QED
  BY <1>3, <1>5, <1>6 DEF SendInv

\* What the camera accepts lies at the front of what it has not received.
LEMMA CameraCatchesUp ==
  ASSUME TypeInv, SendInv, NEW p \in outbound, CameraReceives(p)
  PROVE  SendInv'
<1>1. /\ UNCHANGED <<sent, window, discarded, reader>> /\ outbound' \subseteq outbound
      /\ camRecv' = IF p.start = camRecv THEN WrapAdd(camRecv, p.len) ELSE camRecv
      /\ unheard' = StillUnheard(p)
      /\ \A q \in inbound' : q \in inbound \/ q.ack = camRecv'
  BY DEF CameraReceives, sendVars
<1>2. /\ WrapSub(sent, camRecv') <= WrapSub(sent, camRecv)
      /\ WrapSub(sent, camRecv') \in Nat /\ WrapSub(sent, camRecv) \in Nat
      /\ camRecv' \in U32
      /\ UnheardBehind'
      /\ WrapSub(sent, camRecv') - unheard' <= WrapSub(sent, camRecv) - unheard
  <2>1. /\ sent \in U32 /\ camRecv \in U32 /\ p.start \in U32 /\ p.len \in 0 .. HalfRange - 1
        /\ p.len <= WrapSub(sent, p.start) /\ WrapSub(sent, p.start) < HalfRange
    BY SendTypes DEF SendInv, SentBehind
  <2>2. WrapSub(sent, camRecv) \in Nat
    BY <2>1, BehindDiffers
  <2>3. CASE p.start = camRecv
    <3>1. camRecv' = WrapAdd(camRecv, p.len)
      BY <1>1, <2>3
    <3>2. camRecv' \in U32
      BY <2>1, <3>1, WrapAddTyped
    <3>3. WrapSub(sent, camRecv') = WrapSub(sent, camRecv) - p.len
      <4>1. p.len <= WrapSub(sent, camRecv) /\ WrapSub(sent, camRecv) < HalfRange
        BY <2>1, <2>3
      <4>2. WrapSub(sent, WrapAdd(camRecv, p.len)) = WrapSub(sent, camRecv) - p.len
        BY <2>1, <4>1, BehindShrinks
      <4>3. QED
        BY <3>1, <4>2
    <3>4. WrapSub(sent, camRecv') \in Nat
      BY <2>1, <3>2, BehindDiffers
    <3>5. p.len \in Nat
      BY <2>1, HalfRangeAssumption
    <3>6. /\ unheard \in Nat /\ unheard <= WrapSub(sent, camRecv)
          /\ ~Launched => unheard = WrapSub(sent, camRecv)
      BY SendTypes DEF SendInv, UnheardBehind
    <3>7. unheard' = IF p.len < unheard THEN unheard - p.len ELSE 0
      BY <1>1, <2>3 DEF StillUnheard
    <3>8. /\ unheard' <= WrapSub(sent, camRecv')
          /\ ~Launched => unheard' = WrapSub(sent, camRecv')
          /\ WrapSub(sent, camRecv') - unheard' <= WrapSub(sent, camRecv) - unheard
      BY <2>2, <3>3, <3>4, <3>5, <3>6, <3>7
    <3>9. UnheardBehind'
      BY <1>1, <3>8 DEF UnheardBehind, Launched
    <3>10. QED
      BY <2>2, <3>2, <3>3, <3>4, <3>5, <3>8, <3>9
  <2>4. CASE p.start # camRecv
    <3>1. camRecv' = camRecv /\ unheard' = unheard
      BY <1>1, <2>4 DEF StillUnheard
    <3>2. UnheardBehind'
      BY <1>1, <3>1 DEF SendInv, UnheardBehind, Launched
    <3>3. unheard \in Nat
      BY SendTypes
    <3>4. QED
      BY <2>1, <2>2, <3>1, <3>2, <3>3
  <2>5. QED
    BY <2>3, <2>4
<1>3. SentBehind'
  BY <1>1, OutboundStays
<1>4. WindowChained'
  BY <1>1 DEF SendInv, WindowChained, EndOf, Launched
<1>5. AcksBehind'
  <2>1. WrapSub(sent, camRecv') < HalfRange
    BY <1>2, HalfRangeAssumption DEF SendInv, AcksBehind
  <2>2. ASSUME NEW q \in inbound'
        PROVE  /\ WrapSub(sent, camRecv') <= WrapSub(sent, q.ack)
               /\ WrapSub(sent, q.ack) < HalfRange
    <3>1. CASE q \in inbound
      <4>1. /\ WrapSub(sent, camRecv) <= WrapSub(sent, q.ack)
            /\ WrapSub(sent, q.ack) < HalfRange
        BY <3>1 DEF SendInv, AcksBehind
      <4>2. sent \in U32 /\ q.ack \in U32
        BY <3>1, SendTypes
      <4>3. WrapSub(sent, q.ack) \in Nat
        BY <4>2, BehindDiffers
      <4>4. QED
        BY <1>2, <4>1, <4>3
    <3>2. CASE q.ack = camRecv'
      BY <1>2, <2>1, <3>2
    <3>3. QED
      BY <1>1, <3>1, <3>2
  <2>3. sent' = sent
    BY <1>1
  <2>4. QED
    BY <2>1, <2>2, <2>3 DEF AcksBehind
<1>6. WindowReaches'
  <2>1. SUFFICES ASSUME Launched, ~discarded
                 PROVE  IF window = <<>> THEN unheard' = WrapSub(sent, camRecv')
                        ELSE WrapSub(sent, camRecv') - unheard'
                               <= WrapSub(sent, window[1].start)
    BY <1>1 DEF WindowReaches, Launched
  <2>2. /\ unheard \in Nat /\ unheard' \in Nat /\ unheard' <= WrapSub(sent, camRecv')
    <3>1. unheard' <= WrapSub(sent, camRecv')
      BY <1>1, <1>2 DEF UnheardBehind
    <3>2. p.len \in Nat /\ unheard \in Nat
      BY SendTypes, HalfRangeAssumption
    <3>3. QED
      BY <1>1, <3>1, <3>2 DEF StillUnheard
  <2>3. CASE window = <<>>
    <3>1. unheard = WrapSub(sent, camRecv)
      BY <2>1, <2>3 DEF SendInv, WindowReaches
    <3>2. QED
      BY <1>2, <2>2, <2>3, <3>1
  <2>4. CASE window # <<>>
    <3>1. WrapSub(sent, camRecv) - unheard <= WrapSub(sent, window[1].start)
      BY <2>1, <2>4 DEF SendInv, WindowReaches
    <3>2. 1 \in 1 .. Len(window)
      BY <2>4, SendTypes, EmptySeq
    <3>3. window[1].start \in U32 /\ sent \in U32
      BY <3>2, SendTypes
    <3>4. WrapSub(sent, window[1].start) \in Nat
      BY <3>3, BehindDiffers
    <3>5. QED
      BY <1>2, <2>2, <2>4, <3>1, <3>4
  <2>5. QED
    BY <2>3, <2>4
<1>7. QED
  BY <1>2, <1>3, <1>4, <1>5, <1>6 DEF SendInv

\* The engine starts with an empty window: what the camera has not received by
\* then was sent by the handshake.
LEMMA HandOverKeepsSent ==
  ASSUME TypeInv, SendInv, UNCHANGED <<sent, window, discarded, camRecv, unheard, outbound>>,
         inbound' \subseteq inbound, ~Launched, Launched'
  PROVE  SendInv'
<1>1. window = <<>> /\ DOMAIN window = {}
  BY DEF SendInv, WindowChained
<1>2. SentBehind' /\ AcksBehind'
  BY DEF SendInv, SentBehind, AcksBehind
<1>3. unheard = WrapSub(sent, camRecv) /\ UnheardBehind'
  BY DEF SendInv, UnheardBehind
<1>4. WindowChained' /\ WindowReaches'
  BY <1>1, <1>3 DEF WindowChained, WindowReaches, EndOf
<1>5. QED
  BY <1>2, <1>3, <1>4 DEF SendInv

\* Every step keeps the distances.
LEMMA StepKeepsSent ==
  ASSUME TypeInv, SendInv, [Next]_vars
  PROVE  SendInv'
<1> DEFINE Rests == /\ UNCHANGED <<sent, window, discarded, camRecv, unheard>>
                    /\ Launched' <=> Launched
           OutboundRests == \A p \in outbound' :
                              p \in outbound \/ (p.start = sent /\ p.len = 0)
           InboundRests == \A p \in inbound' : p \in inbound \/ p.ack = camRecv
<1>1. ASSUME Rests, OutboundRests, InboundRests PROVE SendInv'
  <2>1. SentBehind'
    BY <1>1, OutboundStays
  <2>2. AcksBehind'
    BY <1>1, AcksStay
  <2>3. WindowChained' /\ WindowReaches' /\ UnheardBehind'
    BY <1>1, SendTypes, WindowStays
  <2>4. QED
    BY <2>1, <2>2, <2>3 DEF SendInv
<1>2. ASSUME NEW p \in inbound, HandshakeReads(p) PROVE SendInv'
  <2>1. Rests /\ OutboundRests /\ InboundRests
    BY <1>2 DEF HandshakeReads, sendVars, cameraVars, Launched
  <2>2. QED
    BY <1>1, <2>1
<1>3. ASSUME NEW len \in HandshakeLengths, HandshakeSends(len) PROVE SendInv'
  <2>1. /\ len \in 0 .. HalfRange - 1 /\ RoomFor(len) /\ sent' = WrapAdd(sent, len)
        /\ UNCHANGED <<camRecv, inbound, window, discarded>> /\ ~Launched /\ ~Launched'
        /\ unheard' = unheard + len
    BY <1>3, LimitAssumption DEF HandshakeSends, cameraVars, Launched
  <2>2. \A p \in outbound' : p \in outbound \/ (p.start = sent /\ p.len = len)
    BY <1>3 DEF HandshakeSends
  <2>3. /\ SentBehind' /\ AcksBehind'
        /\ WrapSub(sent', camRecv) = WrapSub(sent, camRecv) + len
    BY <2>1, <2>2, SendingMovesOn
  <2>4. UnheardBehind'
    <3>1. unheard = WrapSub(sent, camRecv) /\ unheard \in Nat /\ len \in Nat
      BY <2>1, SendTypes, HalfRangeAssumption DEF SendInv, UnheardBehind
    <3>2. WrapSub(sent', camRecv') = WrapSub(sent, camRecv) + len
      BY <2>1, <2>3
    <3>3. QED
      BY <2>1, <3>1, <3>2 DEF UnheardBehind
  <2>5. window' = <<>>
    BY <2>1 DEF SendInv, WindowChained
  <2>6. DOMAIN window' = {}
    BY <2>5
  <2>7. WindowChained'
    BY <2>5, <2>6 DEF WindowChained
  <2>8. WindowReaches'
    BY <2>1 DEF WindowReaches
  <2>9. QED
    BY <2>3, <2>7, <2>8, <2>4 DEF SendInv
<1>4. ASSUME NEW p \in inbound, HandOver(p) PROVE SendInv'
  BY <1>4, HandOverKeepsSent DEF HandOver, sendVars, cameraVars, Launched
<1>5. ASSUME NEW p \in inbound, Receive(p) PROVE SendInv'
  <2>1. /\ UNCHANGED <<sent, discarded, camRecv, unheard, outbound>> /\ Launched /\ Launched'
        /\ inbound' \subseteq inbound /\ Acknowledge(p.ack)
    BY <1>5 DEF Receive, cameraVars, Launched
  <2>2. SentBehind' /\ AcksBehind'
    BY <2>1, OutboundStays, AcksStay
  <2>3. WindowChained' /\ WindowReaches' /\ UnheardBehind'
    BY <2>1, AcknowledgeKeepsWindow
  <2>4. QED
    BY <2>2, <2>3 DEF SendInv
<1>6. CASE SendAck
  <2>1. Rests /\ OutboundRests /\ InboundRests
    BY <1>6 DEF SendAck, sendVars, cameraVars, Launched
  <2>2. QED
    BY <1>1, <2>1
<1>7. CASE ReaderPanics \/ SocketFailure \/ GapTimerExpires \/ FallsQuiet
  <2>1. Rests /\ OutboundRests /\ InboundRests
    BY <1>7
    DEF ReaderPanics, SocketFailure, GapTimerExpires, FallsQuiet, sendVars, cameraVars, Launched
  <2>2. QED
    BY <1>1, <2>1
<1>8. ASSUME NEW len \in SendLengths, Send(len) PROVE SendInv'
  BY <1>8, SendKeepsWindow
<1>9. ASSUME NEW due \in SUBSET Retryable, RetransmitTick(due) PROVE SendInv'
  BY <1>9, RetransmitKeepsSent
<1>10. ASSUME NEW i \in Packets, CameraSends(i) \/ CameraResends(i) PROVE SendInv'
  <2>1. Rests /\ OutboundRests /\ InboundRests
    BY <1>10 DEF CameraSends, CameraResends, sendVars, cameraVars, Launched
  <2>2. QED
    BY <1>1, <2>1
<1>11. ASSUME NEW p \in outbound, CameraReceives(p) PROVE SendInv'
  BY <1>11, CameraCatchesUp
<1>12. ASSUME NEW p, LoseInbound(p) \/ LoseOutbound(p) PROVE SendInv'
  <2>1. Rests /\ OutboundRests /\ InboundRests
    BY <1>12 DEF LoseInbound, LoseOutbound, sendVars, cameraVars, Launched
  <2>2. QED
    BY <1>1, <2>1
<1>13. CASE UNCHANGED vars
  <2>1. Rests /\ OutboundRests /\ InboundRests
    BY <1>13 DEF vars, Launched
  <2>2. QED
    BY <1>1, <2>1
<1>14. CASE RelayHandOver
  BY <1>14, HandOverKeepsSent DEF RelayHandOver, sendVars, cameraVars, Launched
<1>15. QED
  BY <1>2, <1>3, <1>4, <1>5, <1>6, <1>7, <1>8, <1>9, <1>10, <1>11, <1>12, <1>13, <1>14
  DEF Next, HandshakeNext, EngineNext, EnvironmentNext

\* Nothing is sent at the start.
LEMMA InitSent == Init => SendInv
<1> SUFFICES ASSUME Init PROVE SendInv
  OBVIOUS
<1>1. /\ sent = 0 /\ camRecv = 0 /\ window = <<>> /\ inbound = {} /\ outbound = {}
      /\ unheard = 0
  BY DEF Init
<1>2. WrapSub(0, 0) = 0 /\ 0 < HalfRange
  BY HalfRangeAssumption DEF WrapSub
<1>3. DOMAIN window = {}
  BY <1>1
<1>4. QED
  BY <1>1, <1>2, <1>3 
  DEF SendInv, SentBehind, WindowChained, AcksBehind, UnheardBehind, WindowReaches

\* From the handover on, and until the window overflows, every byte that the
\* engine sent and the camera has not received is in the window, in order and
\* without holes: each loss can be repaired.  Only the bodies of the handshake
\* may be missing for good.
THEOREM UnreceivedIsKept == Spec => []WindowCoversUnreceived
<1>1. ASSUME TypeInv, SendInv PROVE WindowCoversUnreceived
  <2>1. CASE Launched /\ ~discarded /\ window = <<>>
    BY <1>1, <2>1, SendTypes, BehindDiffers DEF WindowCoversUnreceived, SendInv, WindowReaches
  <2>2. SUFFICES ASSUME Launched, ~discarded, window # <<>>
                 PROVE  /\ WrapSub(sent, camRecv) - unheard <= WrapSub(sent, window[1].start)
                        /\ EndOf(window[Len(window)]) = sent
                        /\ \A j \in 1 .. Len(window) - 1 : EndOf(window[j]) = window[j + 1].start
    BY <2>1 DEF WindowCoversUnreceived, EndOf
  <2>3. WrapSub(sent, camRecv) - unheard <= WrapSub(sent, window[1].start)
    BY <1>1, <2>2 DEF SendInv, WindowReaches
  <2>4. Len(window) \in Nat /\ Len(window) > 0 /\ DOMAIN window = 1 .. Len(window)
    BY <1>1, <2>2, SendTypes, EmptySeq
  <2>5. \A j \in DOMAIN window :
          EndOf(window[j]) = IF j = Len(window) THEN sent ELSE window[j + 1].start
    BY <1>1 DEF SendInv, WindowChained
  <2>6. \A j \in 1 .. Len(window) - 1 : j \in DOMAIN window /\ j # Len(window)
    <3> DEFINE n == Len(window)
    <3>1. n \in Nat /\ DOMAIN window = 1 .. n
      BY <2>4
    <3> HIDE DEF n
    <3>2. \A j \in 1 .. n - 1 : j \in 1 .. n /\ j # n
      BY <3>1
    <3>3. QED
      BY <3>1, <3>2 DEF n
  <2>7. Len(window) \in DOMAIN window
    BY <2>4
  <2>8. QED
    BY <2>3, <2>5, <2>6, <2>7
<1>2. Init => TypeInv /\ SendInv
  BY InitTyped, InitSent
<1>3. (TypeInv /\ SendInv) /\ [Next]_vars => (TypeInv /\ SendInv)'
  BY StepTyped, StepKeepsSent
<1>4. QED
  BY <1>1, <1>2, <1>3, PTL DEF Spec

=============================================================================
