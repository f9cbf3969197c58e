---------------------------- MODULE OnvifResponse ----------------------------
(***************************************************************************)
(* One ONVIF response on its way to the client: the camera cuts it into    *)
(* payloads wherever it likes, dh_reader unpacks them and hands the data   *)
(* to the realm's channel, process_writer collects until the response is   *)
(* complete or the channel closes, and writes it with the addresses        *)
(* replaced.  Datagrams arrive in order here: PtcpLink is about the rest.  *)
(***************************************************************************)
EXTENDS PtcpWire, HttpText

CONSTANTS
  Responses,     \* what the camera may answer: [text, declared, expected]
  Realm,         \* the realm of the request
  MaxQueued,     \* bound: bodies on the wire, and chunks in the channel
  MaxHeartbeats  \* bound: heartbeats of the camera

ASSUME ResponseAssumption ==
  /\ \A r \in Responses : r.text \in Seq(Bytes \ Garbled)
  /\ Realm \in Words
  /\ MaxQueued \in Nat \ {0}
  /\ MaxHeartbeats \in Nat

VARIABLES
  response,    \* the camera's answer to this request
  sent,        \* tokens of it the camera has sent
  heartbeats,  \* heartbeats it has sent
  closed,      \* TRUE once it has sent DISC
  onWire,      \* datagrams between the camera and dh_reader: their body, and the
               \* camera's own counter (PTCPPacket.sent) when it was sent
  wireBytes,   \* bytes of body the camera has sent so far
  recv,        \* the session's byte counter
  open,        \* the realm has an entry in channels
  channel,     \* chunks in the unbounded channel
  received,    \* process_writer's buffer
  writer       \* process_writer: "collect", "flush" or "done"

cameraVars == <<response, sent, heartbeats, closed, wireBytes>>
writerVars == <<received, writer>>
vars == <<cameraVars, onWire, recv, open, channel, writerVars>>

TypeOK ==
  /\ response \in Responses
  /\ sent \in 0 .. Len(response.text)
  /\ heartbeats \in 0 .. MaxHeartbeats
  /\ closed \in BOOLEAN
  /\ \A i \in DOMAIN onWire :
       /\ onWire[i].at \in 0 .. wireBytes
       /\ onWire[i].body.size \in Nat
       /\ onWire[i].body.type \in 0 .. 255
  /\ recv \in 0 .. wireBytes
  /\ open \in BOOLEAN
  /\ \A i \in DOMAIN channel : channel[i] \in Seq(Bytes)
  /\ received.text \in Seq(Bytes)
  /\ writer \in {"collect", "flush", "done"}

Init ==
  /\ response \in Responses
  /\ sent = 0
  /\ heartbeats = 0
  /\ closed = FALSE
  /\ onWire = <<>>
  /\ wireBytes = 0
  /\ recv = 0
  /\ open = TRUE
  /\ channel = <<>>
  /\ received = [text |-> <<>>, declared |-> response.declared]
  /\ writer = "collect"

-----------------------------------------------------------------------------
(* The camera (external). *)

\* What the buffer that dh_reader reads a datagram into can hold.
MaxDatagram == 65535

Transmit(body) ==
  /\ ~closed
  /\ Len(onWire) < MaxQueued
  /\ 24 + Serialize(body).size <= MaxDatagram
  /\ onWire' = Append(onWire, [at |-> wireBytes, body |-> Serialize(body)])
  /\ wireBytes' = wireBytes + Serialize(body).size
  /\ UNCHANGED <<response, recv, open, channel, writerVars>>

CameraSends(n) ==
  /\ sent + n <= Len(response.text)
  /\ Transmit([kind |-> "payload", realm |-> Realm,
               data |-> SubSeq(response.text, sent + 1, sent + n)])
  /\ sent' = sent + n
  /\ UNCHANGED <<heartbeats, closed>>

CameraHeartbeat ==
  /\ heartbeats < MaxHeartbeats
  /\ Transmit([kind |-> "heartbeat"])
  /\ heartbeats' = heartbeats + 1
  /\ UNCHANGED <<sent, closed>>

\* The camera closes the realm, also in the middle of its response.
CameraCloses ==
  /\ Transmit([kind |-> "status", realm |-> Realm, text |-> Disc])
  /\ closed' = TRUE
  /\ UNCHANGED <<sent, heartbeats>>

-----------------------------------------------------------------------------
(* The engine. *)

\* Mutant: a DISC leaves the realm's channel open.
DiscIgnored ==
  /\ onWire # <<>>
  /\ onWire' = Tail(onWire)
  /\ LET body == Parse(Head(onWire).body)
     IN  /\ recv' = recv + BodyLen(body)
         /\ channel' = IF body.kind = "payload" /\ body.realm = Realm /\ open
                       THEN Append(channel, body.data) ELSE channel
  /\ UNCHANGED <<cameraVars, open, writerVars>>

\* dh_reader: the counter, then the channel of the payload's realm, or DISC.
ReaderDelivers ==
  /\ onWire # <<>>
  /\ Len(channel) < MaxQueued
  /\ onWire' = Tail(onWire)
  /\ LET body == Parse(Head(onWire).body)
     IN  /\ recv' = recv + BodyLen(body)
         /\ channel' = IF body.kind = "payload" /\ body.realm = Realm /\ open
                       THEN Append(channel, body.data) ELSE channel
         /\ open' = (open /\ ~(body.kind = "status" /\ body.text = Disc))
  /\ UNCHANGED <<cameraVars, writerVars>>

\* process_writer: one chunk is added to the buffer.
WriterCollects ==
  /\ writer = "collect"
  /\ channel # <<>>
  /\ channel' = Tail(channel)
  /\ received' = [received EXCEPT !.text = @ \o Head(channel)]
  /\ writer' = IF ResponseComplete(received') THEN "flush" ELSE "collect"
  /\ UNCHANGED <<cameraVars, onWire, recv, open>>

\* The channel is closed and drained.
ChannelEnds ==
  /\ writer = "collect"
  /\ channel = <<>>
  /\ ~open
  /\ writer' = "flush"
  /\ UNCHANGED <<cameraVars, onWire, recv, open, channel, received>>

\* What the client has been given in the end: the buffer, rewritten.
Output ==
  IF writer = "done" /\ received.text # <<>>
  THEN NormalizeNoProfile(RewriteResponse(received))
  ELSE [text |-> <<>>, declared |-> 0]

\* The response is written, and the realm leaves channels.
WriterFlushes ==
  /\ writer = "flush"
  /\ writer' = "done"
  /\ open' = FALSE
  /\ channel' = <<>>
  /\ UNCHANGED <<cameraVars, onWire, recv, received>>

Next ==
  \/ \E n \in 1 .. Len(response.text) : CameraSends(n)
  \/ CameraHeartbeat
  \/ CameraCloses
  \/ ReaderDelivers
  \/ WriterCollects
  \/ ChannelEnds
  \/ WriterFlushes

Spec == Init /\ [][Next]_vars

\* tokio runs dh_reader and process_writer.
LiveSpec ==
  Spec /\ WF_vars(ReaderDelivers) /\ WF_vars(WriterCollects)
       /\ WF_vars(ChannelEnds) /\ WF_vars(WriterFlushes)

-----------------------------------------------------------------------------
(* Properties. *)

\* A response with a correct Content-Length.
Framed ==
  /\ HasHeader(response.text)
  /\ Declares(response.text, "length")
  /\ response.declared = Len(Body(response.text))

\* What the client reads by its Content-Length is what was written, though
\* replacing addresses changes the size of the body, the response may be cut
\* off anywhere and the camera may have declared no length or a wrong one.
LengthMatchesBody ==
  LET output == Output
  IN  HasHeader(output.text) =>
        /\ Declares(output.text, "length")
        /\ output.declared = Len(Body(output.text))

\* However the camera cuts a response into payloads, and whenever it closes
\* the realm after the last one, the client gets the whole of it with exactly
\* the camera's own URLs changed.
FramedArrivesWhole ==
  writer = "done" /\ Framed /\ sent = Len(response.text) =>
    Output.text = response.expected

Schemes == {"http", "rtsp"}
Addresses == {"ip", "localhost"}

AuthorityAt(text, i) == SubSeq(text, i + 4, FirstAt(text, i + 4, Delimiters) - 1)

Lacks(text, tokens) == \A i \in DOMAIN text : text[i] \notin tokens

\* No URL in what the client gets leads to the camera's own address, also not
\* one with a user part or a port, nor in a response that was cut off.
NoCameraAddress ==
  \A i \in DOMAIN Output.text, scheme \in Schemes :
    UrlAt(Output.text, i, scheme) => Lacks(AuthorityAt(Output.text, i), Addresses)

\* The session's byte counter follows the bytes that were on the wire, across
\* all kinds of bodies: the next datagram starts where it stands.
CounterFollowsWire ==
  recv = IF onWire = <<>> THEN wireBytes ELSE Head(onWire).at

\* A response that is complete, or whose realm was closed, is written; the
\* client never waits for the next heartbeat or for ever.
ResponseIsWritten == (Framed /\ sent = Len(response.text)) \/ closed ~> writer = "done"

-----------------------------------------------------------------------------
(* What theorems assume of the responses. *)

\* [user[:password]@]host[:port] with an address for a host, if at all.
AddressIsHost(authority) ==
  \A i \in DOMAIN authority : authority[i] \in Addresses =>
    /\ i = 1 \/ authority[i - 1] = "@"
    /\ i = Len(authority) \/ authority[i + 1] = ":"
    /\ \A j \in DOMAIN authority : j > i => authority[j] # "@"

IsPlain(authority) == AddressIsHost(authority) /\ Lacks(authority, Schemes)

\* The camera's URLs name it by their host, and stand in bodies.
PlainUrls ==
  \A r \in Responses :
    /\ Lacks(Header(r.text), Schemes)
    /\ \A i \in DOMAIN r.text, scheme \in Schemes :
         UrlAt(r.text, i, scheme) => IsPlain(AuthorityAt(r.text, i))

\* What a framed response is expected to look like is what rewriting the whole
\* of it in one piece gives.
ExpectedInOnePiece ==
  \A r \in Responses :
    HasHeader(r.text) /\ Declares(r.text, "length") /\ r.declared = Len(Body(r.text)) =>
      NormalizeNoProfile(RewriteResponse([text |-> r.text, declared |-> r.declared])).text
        = r.expected
=============================================================================
