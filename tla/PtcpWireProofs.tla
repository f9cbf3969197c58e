--------------------------- MODULE PtcpWireProofs ---------------------------
(***************************************************************************)
(* Proofs about PtcpWire, for every payload and every datagram.            *)
(***************************************************************************)
EXTENDS PtcpWire, FiniteSetTheorems, TLAPS

\* A text without U+FFFD has as many bytes as it has characters.
LEMMA PlainTextLen ==
  ASSUME NEW text \in Seq(Bytes)
  PROVE  TextLen(text) = Len(text)
<1> DEFINE replaced == {i \in DOMAIN text : text[i] = Replacement}
<1>1. replaced = {}
  BY WireAssumption
<1>2. Cardinality(replaced) = 0
  BY <1>1, FS_EmptySet
<1>3. TextLen(text) = Len(text) + 2 * Cardinality(replaced)
  BY DEF TextLen
<1> HIDE DEF replaced
<1>4. QED
  BY <1>2, <1>3

\* from_utf8_lossy leaves valid text as it is.
LEMMA LossyKeepsValidText ==
  ASSUME NEW data \in Seq(Bytes), \A i \in DOMAIN data : data[i] \notin Garbled
  PROVE  Lossy(data) = data
BY DEF Lossy

\* The text of a DISC is valid and has four bytes.
LEMMA DiscIsPlain == /\ Disc \in Seq(Bytes)
                     /\ \A i \in DOMAIN Disc : Disc[i] \notin Garbled
                     /\ Len(Disc) = 4
                     /\ TextLen(Disc) = 4
<1>1. DOMAIN Disc = 1 .. 4 /\ Len(Disc) = 4
  BY DEF Disc
<1>2. \A i \in 1 .. 4 : Disc[i] \in {"D", "I", "S", "C"}
  BY DEF Disc
<1>3. \A i \in DOMAIN Disc : Disc[i] \in Bytes \ Garbled
  BY <1>1, <1>2, WireAssumption
<1>4. Disc \in Seq({"D", "I", "S", "C"})
  BY DEF Disc
<1>5. Disc \in Seq(Bytes)
  <2>1. {"D", "I", "S", "C"} \subseteq Bytes
    BY WireAssumption
  <2>2. QED
    BY <1>4, <2>1
<1>6. TextLen(Disc) = Len(Disc)
  BY <1>5, PlainTextLen
<1>7. QED
  BY <1>1, <1>3, <1>5, <1>6

\* The length of a payload fits the half word it is written to.
LEMMA LengthFitsHalfWord ==
  ASSUME NEW n \in Nat, n < HalfWord
  PROVE  n % HalfWord = n
BY SMT DEF HalfWord

\* What parse makes of a body, by its size and first byte.
LEMMA ParseCases ==
  ASSUME NEW w, w.size \in Nat
  PROVE  /\ w.size = 0 => Parse(w) = [kind |-> "empty"]
         /\ w.size \in 1 .. 3 => Parse(w) = Panic
         /\ w.size >= 4 => Parse(w) = ParseByType(w)
BY DEF Parse

\* What parse makes of a body of at least four bytes, by its first byte.
LEMMA TypeCases ==
  ASSUME NEW w
  PROVE  /\ w.type = SyncByte => ParseByType(w) = [kind |-> "sync"]
         /\ w.type = PayloadByte => ParseByType(w) = ParsePayload(w)
         /\ w.type = BindByte /\ w.size >= 16 =>
              ParseByType(w) = [kind |-> "bind", realm |-> w.realm, port |-> w.port]
         /\ w.type = StatusByte /\ w.size >= HeaderSize =>
              ParseByType(w) = [kind |-> "status", realm |-> w.realm, text |-> Lossy(w.data)]
         /\ w.type = StatusByte /\ ~(w.size >= HeaderSize) => ParseByType(w) = Panic
         /\ w.type = HeartbeatByte => ParseByType(w) = [kind |-> "heartbeat"]
BY DEF ParseByType, SyncByte, PayloadByte, BindByte, StatusByte, HeartbeatByte

\* What len makes of every kind of body.
LEMMA LenCases ==
  ASSUME NEW b
  PROVE  /\ b.kind = "empty" => BodyLen(b) = 0
         /\ b.kind = "sync" => BodyLen(b) = 4
         /\ b.kind = "heartbeat" => BodyLen(b) = HeaderSize
         /\ b.kind = "bind" => BodyLen(b) = 20
         /\ b.kind = "status" => BodyLen(b) = TextLen(b.text) + HeaderSize
         /\ b.kind = "payload" => BodyLen(b) = Len(b.data) + HeaderSize
         /\ b.kind = "command" => BodyLen(b) = b.bytes.size
BY DEF BodyLen

\* A payload whose length fits two bytes is read back as it was built.
LEMMA PayloadRoundTrip ==
  ASSUME NEW realm \in Words, NEW data \in Seq(Bytes), Len(data) < HalfWord,
         NEW b, b = [kind |-> "payload", realm |-> realm, data |-> data]
  PROVE  /\ Parse(Serialize(b)) = b
         /\ BodyLen(b) = Serialize(b).size
         /\ BodyLen(b) = HeaderSize + Len(data)
         /\ BodyLen(b) \in Nat
         /\ Serialize(b).type = PayloadByte
<1> DEFINE w == Serialize(b)
<1>1. b.kind = "payload" /\ b.data = data /\ b.realm = realm /\ Len(data) \in Nat
  OBVIOUS
<1>2. Len(data) % HalfWord = Len(data)
  BY <1>1, LengthFitsHalfWord
<1>3. w = Fields(HeaderSize + Len(data), PayloadByte, Len(data), realm, 0, data)
  BY <1>1, <1>2 DEF Serialize
<1>4. /\ w.size = 12 + Len(data)
      /\ w.type = PayloadByte
      /\ w.length = Len(data)
      /\ w.realm = realm
      /\ w.padded
      /\ w.data = data
  BY <1>3 DEF Fields, HeaderSize
<1>5. Parse(w) = ParsePayload(w)
  BY <1>1, <1>4, ParseCases, TypeCases
<1>6. ParsePayload(w) = b
  <2>1. w.size >= HeaderSize /\ w.padded /\ w.length = w.size - HeaderSize
    BY <1>1, <1>4 DEF HeaderSize
  <2>2. QED
    BY <1>4, <2>1 DEF ParsePayload
<1>7. BodyLen(b) = 12 + Len(data)
  BY <1>1, LenCases DEF HeaderSize
<1>8. QED
  BY <1>1, <1>4, <1>5, <1>6, <1>7 DEF HeaderSize

\* Every body dh_writer and dh_reader send is read back as it was built, and
\* sent advances by exactly the bytes that go out (PTCPBody::serialize, parse
\* and len agree).
THEOREM RoundTrip ==
  ASSUME NEW b \in EngineBody
  PROVE  /\ Parse(Serialize(b)) = b
         /\ BodyLen(b) = Serialize(b).size
         /\ BodyLen(b) \in Nat
<1> DEFINE w == Serialize(b)
<1>1. CASE b \in [kind : {"empty", "heartbeat"}]
  <2>1. CASE b = [kind |-> "empty"]
    <3>1. w.size = 0
      BY <2>1 DEF Serialize, Fields
    <3>2. BodyLen(b) = 0
      BY <2>1, LenCases
    <3>3. QED
      BY <2>1, <3>1, <3>2, ParseCases
  <2>2. CASE b = [kind |-> "heartbeat"]
    <3>1. w.size = 12 /\ w.type = HeartbeatByte
      BY <2>2 DEF Serialize, Fields, HeaderSize
    <3>2. BodyLen(b) = 12
      BY <2>2, LenCases DEF HeaderSize
    <3>3. QED
      BY <2>2, <3>1, <3>2, ParseCases, TypeCases
  <2>3. QED
    BY <1>1, <2>1, <2>2
<1>2. CASE b \in [kind : {"bind"}, realm : Words, port : Words]
  <2>1. b = [kind |-> "bind", realm |-> b.realm, port |-> b.port]
    BY <1>2
  <2>2. w.size = 20 /\ w.type = BindByte /\ w.realm = b.realm /\ w.port = b.port
    BY <2>1 DEF Serialize, Fields
  <2>3. BodyLen(b) = 20
    BY <2>1, LenCases
  <2>4. QED
    BY <2>1, <2>2, <2>3, ParseCases, TypeCases
<1>3. CASE b \in [kind : {"status"}, realm : Words, text : {Disc}]
  <2>1. b = [kind |-> "status", realm |-> b.realm, text |-> Disc]
    BY <1>3
  <2>2. b.kind = "status" /\ b.text = Disc
    BY <2>1
  <2>3. w = Fields(16, StatusByte, 0, b.realm, 0, Disc)
    BY <2>2, DiscIsPlain DEF Serialize, HeaderSize
  <2>4. w.size = 16 /\ w.type = StatusByte /\ w.realm = b.realm /\ w.data = Disc
    BY <2>3 DEF Fields
  <2>5. Parse(w) = [kind |-> "status", realm |-> b.realm, text |-> Lossy(Disc)]
    BY <2>4, ParseCases, TypeCases DEF HeaderSize
  <2>6. BodyLen(b) = 16
    BY <2>2, LenCases, DiscIsPlain DEF HeaderSize
  <2>7. Lossy(Disc) = Disc
    BY DiscIsPlain, LossyKeepsValidText
  <2>8. QED
    BY <2>1, <2>4, <2>5, <2>6, <2>7
<1>4. CASE b \in [kind : {"payload"}, realm : Words, data : Seq(Bytes)]
           /\ Len(b.data) <= ReadBuffer
  <2>1. b = [kind |-> "payload", realm |-> b.realm, data |-> b.data]
    BY <1>4
  <2>2. b.realm \in Words /\ b.data \in Seq(Bytes) /\ Len(b.data) < HalfWord
    BY <1>4, WireAssumption DEF HalfWord
  <2>3. QED
    BY <2>1, <2>2, PayloadRoundTrip
<1>5. QED
  BY <1>1, <1>2, <1>3, <1>4 DEF EngineBody

\* recv advances by the bytes that were on the wire for every body that is
\* parsed at all, as long as Sync, Bind and Heartbeat have the size the code
\* expects and a status is valid UTF-8: the packet lengths of PtcpLink.
THEOREM LenIsSize ==
  ASSUME NEW w \in Wire, Parse(w) # Panic, LenFits(w)
  PROVE  BodyLen(Parse(w)) = w.size
<1>1. w.size \in Nat /\ w.type \in Nat /\ w.data \in Seq(Bytes)
  BY DEF Wire
<1>2. CASE w.size < 4
  BY <1>1, <1>2, ParseCases, LenCases
<1>3. CASE w.size >= 4 /\ w.type \in {SyncByte, HeartbeatByte}
  BY <1>1, <1>3, ParseCases, TypeCases, LenCases DEF LenFits, HeaderSize
<1>4. CASE w.size >= 4 /\ w.type = BindByte
  <2>1. w.size = 20
    BY <1>4 DEF LenFits
  <2>2. Parse(w) = [kind |-> "bind", realm |-> w.realm, port |-> w.port]
    BY <1>4, <2>1, ParseCases, TypeCases
  <2>3. QED
    BY <2>1, <2>2, LenCases
<1>5. CASE w.size >= 4 /\ w.type = PayloadByte
  <2>1. Parse(w) = ParsePayload(w)
    BY <1>1, <1>5, ParseCases, TypeCases
  <2>2. /\ w.size >= HeaderSize
        /\ Parse(w) = [kind |-> "payload", realm |-> w.realm, data |-> w.data]
    BY <2>1 DEF ParsePayload
  <2>3. w.size = HeaderSize + Len(w.data)
    BY <1>5, <2>2 DEF Wire
  <2>4. BodyLen(Parse(w)) = Len(w.data) + HeaderSize
    BY <2>2, LenCases
  <2>5. QED
    BY <1>1, <2>3, <2>4 DEF HeaderSize
<1>6. CASE w.size >= 4 /\ w.type = StatusByte
  <2>1. w.size >= HeaderSize
    BY <1>1, <1>6, ParseCases, TypeCases
  <2>2. Parse(w) = [kind |-> "status", realm |-> w.realm, text |-> Lossy(w.data)]
    BY <1>1, <1>6, <2>1, ParseCases, TypeCases
  <2>3. Lossy(w.data) = w.data
    BY <1>1, <1>6, LossyKeepsValidText DEF LenFits
  <2>5. TextLen(w.data) = Len(w.data)
    BY <1>1, PlainTextLen
  <2>6. w.size = HeaderSize + Len(w.data)
    BY <1>6, <2>1 DEF Wire
  <2>7. BodyLen(Parse(w)) = TextLen(w.data) + HeaderSize
    BY <2>2, <2>3, LenCases
  <2>8. QED
    BY <1>1, <2>5, <2>6, <2>7 DEF HeaderSize
<1>7. CASE w.size >= 4 /\ w.type \notin {SyncByte, PayloadByte, BindByte, StatusByte, HeartbeatByte}
  <2>1. Parse(w) = [kind |-> "command", bytes |-> w]
    BY <1>1, <1>7, ParseCases DEF ParseByType
  <2>2. QED
    BY <2>1, LenCases
<1>8. QED
  BY <1>1, <1>2, <1>3, <1>4, <1>5, <1>6, <1>7

\* A whole datagram of the engine is read back as it was built.
THEOREM PacketRoundTrip ==
  ASSUME NEW p \in [sent : Words, recv : Words, pid : Words, lmid : Words,
                    rmid : Words, body : EngineBody]
  PROVE  ParsePacket(SerializePacket(p)) = p
<1>1. Parse(Serialize(p.body)) = p.body
  BY RoundTrip
<1>2. Serialize(p.body).size \in Nat
  BY RoundTrip
<1>3. QED
  BY <1>1, <1>2 DEF ParsePacket, SerializePacket
=============================================================================
