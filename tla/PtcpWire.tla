------------------------------ MODULE PtcpWire ------------------------------
(***************************************************************************)
(* The body of a PTCP datagram: PTCPBody and PTCPPayload of                *)
(* rust-engine/src/ptcp.rs, as values and as bytes on the wire, and the    *)
(* conversions between them.  The stream's byte counters advance by        *)
(* PTCPBody::len of what was parsed, so that it matters when this is not   *)
(* the number of bytes that were on the wire.                              *)
(*                                                                         *)
(* The bytes of a body are grouped into the fields the code reads: the     *)
(* first byte (type), the low half of the first word (length), bytes 4..7  *)
(* (realm), whether bytes 8..11 are zero (padded), bytes 12..15 of a Bind  *)
(* (port) and what follows byte 11 of a payload or a status (data).        *)
(***************************************************************************)
EXTENDS Naturals, Sequences, FiniteSets

CONSTANTS
  Bytes,        \* the bytes data consists of
  Garbled,      \* those that are not valid UTF-8
  Replacement,  \* U+FFFD, which String::from_utf8_lossy puts in their place
  Words,        \* 32-bit numbers: realms and ports
  ReadBuffer    \* most bytes process_reader puts into a payload, 4096

Disc == <<"D", "I", "S", "C">>

HalfWord == 65536   \* a payload's length is two bytes

ASSUME WireAssumption ==
  /\ {"D", "I", "S", "C"} \subseteq Bytes \ Garbled
  /\ Garbled \subseteq Bytes
  /\ Replacement \notin Bytes
  /\ 0 \in Words
  /\ ReadBuffer \in Nat \ {0}
  /\ ReadBuffer < HalfWord

SyncByte == 0
PayloadByte == 16
BindByte == 17
StatusByte == 18
HeartbeatByte == 19
HeaderSize == 12

Wire ==
  {w \in [size : Nat, type : Nat, length : Nat, realm : Words,
          padded : BOOLEAN, port : Words, data : Seq(Bytes)] :
     w.size >= HeaderSize /\ w.type \in {PayloadByte, StatusByte} =>
       w.size = HeaderSize + Len(w.data)}

\* The bodies the engine builds: dh_writer's four events, and acknowledgements.
EngineBody ==
  [kind : {"empty", "heartbeat"}]
    \cup [kind : {"bind"}, realm : Words, port : Words]
    \cup [kind : {"status"}, realm : Words, text : {Disc}]
    \cup {b \in [kind : {"payload"}, realm : Words, data : Seq(Bytes)] :
            Len(b.data) <= ReadBuffer}

Lossy(data) ==
  [i \in DOMAIN data |-> IF data[i] \in Garbled THEN Replacement ELSE data[i]]

\* String::len counts bytes, and U+FFFD has three.
TextLen(text) == Len(text) + 2 * Cardinality({i \in DOMAIN text : text[i] = Replacement})

Panic == [kind |-> "panic"]

\* PTCPPayload::parse, with its four assertions.
ParsePayload(w) ==
  IF w.size >= HeaderSize /\ w.padded /\ w.length = w.size - HeaderSize
  THEN [kind |-> "payload", realm |-> w.realm, data |-> w.data]
  ELSE Panic

\* PTCPBody::parse by the first byte; an index past the end panics too.
ParseByType(w) ==
  CASE w.type = SyncByte -> [kind |-> "sync"]
    [] w.type = PayloadByte -> ParsePayload(w)
    [] w.type = BindByte ->
         IF w.size >= 16 THEN [kind |-> "bind", realm |-> w.realm, port |-> w.port] ELSE Panic
    [] w.type = StatusByte ->
         IF w.size >= HeaderSize
         THEN [kind |-> "status", realm |-> w.realm, text |-> Lossy(w.data)] ELSE Panic
    [] w.type = HeartbeatByte -> [kind |-> "heartbeat"]
    [] OTHER -> [kind |-> "command", bytes |-> w]

Parse(w) ==
  IF w.size = 0 THEN [kind |-> "empty"]
  ELSE IF w.size < 4 THEN Panic ELSE ParseByType(w)

\* PTCPBody::serialize and PTCPPayload::serialize.
Fields(size, type, length, realm, port, data) ==
  [size |-> size, type |-> type, length |-> length, realm |-> realm, padded |-> TRUE,
   port |-> port, data |-> data]

Serialize(b) ==
  CASE b.kind = "empty" -> Fields(0, 0, 0, 0, 0, <<>>)
    [] b.kind = "sync" -> Fields(4, SyncByte, 256, 0, 0, <<>>)
    [] b.kind = "heartbeat" -> Fields(HeaderSize, HeartbeatByte, 0, 0, 0, <<>>)
    [] b.kind = "bind" -> Fields(20, BindByte, 0, b.realm, b.port, <<>>)
    [] b.kind = "status" ->
         Fields(HeaderSize + TextLen(b.text), StatusByte, 0, b.realm, 0, b.text)
    [] b.kind = "payload" ->
         Fields(HeaderSize + Len(b.data), PayloadByte, Len(b.data) % HalfWord,
                b.realm, 0, b.data)
    [] b.kind = "command" -> b.bytes

\* Mutants: the header of a payload is left out; that of the datagram counts.
BodyLenNoHeader(b) ==
  IF b.kind = "payload" THEN Len(b.data) ELSE Serialize(b).size

BodyLenWithPacket(b) == Serialize(b).size + 24

\* PTCPBody::len.
BodyLen(b) ==
  CASE b.kind = "sync" -> 4
    [] b.kind = "command" -> b.bytes.size
    [] b.kind = "payload" -> Len(b.data) + HeaderSize
    [] b.kind = "bind" -> 20
    [] b.kind = "status" -> TextLen(b.text) + HeaderSize
    [] b.kind = "heartbeat" -> HeaderSize
    [] b.kind = "empty" -> 0

\* PTCPPacket::parse and serialize: the 24 bytes before the body.
ParsePacket(d) ==
  IF d.size >= 24 /\ d.magic = "PTCP"
  THEN [sent |-> d.sent, recv |-> d.recv, pid |-> d.pid, lmid |-> d.lmid,
        rmid |-> d.rmid, body |-> Parse(d.body)]
  ELSE [body |-> Panic]

SerializePacket(p) ==
  [size |-> 24 + Serialize(p.body).size, magic |-> "PTCP", sent |-> p.sent,
   recv |-> p.recv, pid |-> p.pid, lmid |-> p.lmid, rmid |-> p.rmid,
   body |-> Serialize(p.body)]

\* The bodies of other lengths than the ones len() assumes.
LenFits(w) ==
  /\ w.type = SyncByte => w.size \in {0, 4}
  /\ w.type = BindByte => w.size \in {0, 20}
  /\ w.type = HeartbeatByte => w.size \in {0, HeaderSize}
  /\ w.type = StatusByte => \A i \in DOMAIN w.data : w.data[i] \notin Garbled
=============================================================================
