# Verification of dahua-p2p-bridge

TLA+ models, TLC configurations and TLAPS proofs for the bridge that exposes
remote Dahua cameras as local RTSP and ONVIF ports.  Paths are relative to the
repository (`src/`).

## 1. Inventory

### Components

| Component | State it keeps | Operations | Model |
|---|---|---|---|
| PTCP session, `rust-engine/src/ptcp.rs` | `sent`, `recv`, `pending`, `gap_packets`, `gap_since`, `last_progress`, `sent_window` | `recv` (acknowledge, reorder, skip a gap), `send`, `due_retransmissions`, `has_retransmission_stall`; socket failures | `PtcpLink` |
| Packet formats, `ptcp.rs` 17-232 | none | `parse`, `serialize`, `len` | `PtcpWire` |
| Engine tasks, `main.rs`, `process.rs` | `channels`, `conn_channels`, `onvif_slots`, `onvif_realm`, the bounded channel `dh_tx`, two tasks per client | accept, bind, read, write, dispatch, heartbeat, retransmit | `TunnelEngine` (realms), `PtcpLink` (reader, retransmission) |
| HTTP rewriting, `process.rs` 19-217 | the buffer of `process_writer` | addresses, lengths, completeness | `HttpText`, `OnvifResponse` |
| Worker manager, `app/p2p_manager.py` | `_workers`, `services`, lifecycle locks, `_lock`, per process a `ServiceState` | `start`, `stop`, `_start_onvif_after_rtsp`, `_read_output` | `P2PManager` |
| Camera API, `app/main.py` | the `cameras` table | startup, add, update, delete, test | `CameraApi` |
| Handshake, `app/vendor/dh_p2p/` | the shared UDP socket `main_remote` with its timeout and `pending_responses`, the sockets to device info and camera, the PTCP counters | `main` up to `launch_engine`, `UDP.request`, `read`, `read_ptcp` | `Handshake`; the counters in `PtcpLink`; what the manager sees of it in `P2PManager` |
| Vendor worker, `vendor-worker/p2p_relay_multi.c` | DLL handles, mapped ports | start, watch | not modelled |
| MJPEG and ONVIF relays, sessions, web page, probes, packaging | | | not modelled |

### How they interact

`app/main.py` calls `P2PManager.start`/`stop` from request threads, at startup
and at shutdown.  A worker owns two processes, one per service.  Each runs the
Python handshake, prints `Ready to connect`, hands its UDP socket and the PTCP
counters to the Rust engine and then waits for it.  The engine multiplexes local
TCP connections as realms of the PTCP session.  When the session is broken it
exits with status 75; the Python process passes the status on, the manager's
reader thread sees the end of the output and rebuilds the session.

### What is hard here

* UDP loses, duplicates and reorders; byte counters are `u32` and wrap after
  4 GB; a datagram the handshake consumed may come again after the handover, and the
  engine does not know which of the handshake's own bodies have arrived.
* `recv()` and the acknowledgement are two critical sections.
* A session can be broken in ways the engine notices late or never: a gap nobody
  fills, a `dh_reader` task that has panicked, retries that are used up.
* The handshake runs every control request, and the relay agent's PTCP session,
  over one socket whose timeout each branch sets and clears; answers may be lost,
  late or repeated, and main() falls back from direct to relay at several places.
* ONVIF requests queue for a single permit; the camera closes a realm after each
  response with a `DISC` that may be late.
* The byte counters advance by the length of what was parsed, not of what was on
  the wire; the handshake adds up lengths without looking at sequence numbers.
* A response is cut into payloads anywhere and rewritten, which changes its size.
* A request changes a database row and, in separate steps, the worker beside it.
* Four kinds of threads change a camera's worker: API calls, the starter, and a
  reader per process, with a delay between decision and restart, under three
  locks.

`PROJECT.json` lists every such hazard with its line and the properties aimed
at it, or the reason why none is.

### What makes each component correct

* Session: in strict ordering the client gets the camera's bytes, all of them
  and in order; nothing is acknowledged that was not delivered; what the camera
  lacks of the engine's bytes can be sent again, or the session ends; a broken
  session ends instead of hanging.
* Realms: Bind, data, Disconnect in this order; a response is whole whatever the
  previous realm's `DISC` does; the permit and the channel table never leak.
* Handshake: the engine gets a session its peer has confirmed; every wait can end.
* Packets: what the engine builds is read back, and counters follow the wire.
* Responses: whole, with a length that fits and no address of the camera.
* Camera API: a worker has the credentials of the committed row, none runs for
  another camera, and an enabled camera runs.
* Manager: one process per port; no process without a worker; every service is
  either followed by a thread or shown as failed; no deadlock; a reconnect asked
  for happens.

## 2. Plan

Done, in this order: `WrappingU32`, `OrderedStream`, `PtcpLink`, `P2PManager`,
`TunnelEngine`, `Handshake`, the handshake's half of `PtcpLink`, `PtcpWire`,
`HttpText`, `OnvifResponse`, `CameraApi`, `OnvifQueue`, and the proofs of section 5.

Every invariant and action property of a passing run is proved for every value of the
constants, under the hypotheses section 5 names, and with them the refinements of
`OrderedStream` and `OnvifQueue`; the liveness properties are model-checked only.

Left, in order of weight:

1. That rewriting a response twice changes nothing.
2. The vendor backend in `P2PManager` with `VendorWorker`; the frame splitting of
   the MJPEG preview.

## 3. Modules

### `WrappingU32`

`wrapping_add`, `wrapping_sub` and `sequence_after` with the width as a
parameter: `HalfRange` is 2^31 in the code and 3 to 8 in the runs, so that a few
bytes cross the wraparound.

### `PtcpLink` and `OrderedStream`

One session.  The camera's stream is a sequence of packets with byte offsets;
`Start(i)` is what the packet's `sent` field carries.  Variables of the receiving
and the sending half have the names of `PTCPSession`'s fields; `quiet` stands for
"`last_progress` is 15 s old", `gapSince = "expired"` for `gap_timeout()` having
passed.  `Receive` is `ptcp_read` and `session.recv` in `dh_reader`, `SendAck` the
second critical section, `Send` a body from `dh_writer`, `RetransmitTick` the task
of `main.rs` with its stall check, `ReaderPanics` the assertion in
`PTCPPacket::parse`, `SocketFailure` the exits of `ptcp_request` and `ptcp_read`.
Until the engine is launched `reader` is `"handshake"`: `HandshakeReads` and
`HandshakeSends` are `read_ptcp` and `request_ptcp`, which count lengths on both
sides.  `HandOver` and `RelayHandOver` are `launch_engine` with `from_state`, which
starts the engine from these sums and with an empty window.  On the direct path
`main.py` 762-785 launches at any `Empty` packet, whatever it acknowledges, so that
the camera may lack bodies of the handshake by then: `unheard` counts their bytes.
On the relay path and the fallbacks to it the last body was answered by a packet that
the agent only sends when it has that body (`RelayHandOver`).
`Reorder` follows `recv()` case by case: stale, in order, already pending, ahead;
`BufferAhead` holds the skip policy.

`inbound` and `outbound` are sets of datagrams: taking one may leave a copy
(duplication), any member may be next (reordering), `LoseInbound` and
`LoseOutbound` drop one.  The camera is external: it sends each packet, repeats
what is not acknowledged, accepts the next expected bytes and acknowledges.

`delivered` and `discarded` are history variables.  The first `Handoff` packets are
the control packets the handshake waits for; copies of them may reach the engine.

`OrderedStream` says what the client is promised: packets 1, 2, 3... in this
order, the camera forgets only what was handed over, the session may break.

Left out: `pid`, `lmid`, `rmid` and `count`, which are copied and decide nothing
(except the recovery bit of `pid`, the set `Recovery`).
Assumptions in the guards: nothing in flight or kept for retransmission is older
than half of the counter's range, that is 2 GB of stream (`RoomFor`,
`RoomForPacket`); at most `MaxInFlight` datagrams each way.  `HandshakeTakes` says
what `read_ptcp` may read out of turn, control packets read before ("repeated") or
ahead of a missing one ("early").  The passing runs take each to be read once and in
order (`HandshakeTakes = {}`); `ptcp_handover` has repeated ones.

### `PtcpWire`

`PTCPBody::parse`, `serialize` and `len` and the packet around them, as operators.
The bytes of a body are grouped into the fields the code reads, data is a sequence
of bytes, `Garbled` bytes are those `from_utf8_lossy` replaces by three others, and an
assertion that fails, or an index past the end, is `Panic`.  `LenFits` names the
bodies for which `len()` is the number of bytes on the wire.

### `HttpText` and `OnvifResponse`

`HttpText` has the functions of `process.rs` on sequences of tokens: a token is a
scheme, a host of a certain kind, a delimiter or a header line, in any spelling,
and counts as one byte.  `Round` is one round of the loop over a prefix and
`ReplaceScheme` the loop, as a recursive function of `search_from`.  Abstracted: the search's last `prefix.len()` bytes, in
which no URL fits; an IPv4 literal is recognised as such; the two fault markers are
one token; the number in `Content-Length` is a field beside the text.

`OnvifResponse` sends one response through `PtcpWire`, `dh_reader` and
`process_writer`.  The camera (external) cuts it anywhere, sends a heartbeat in
between and closes the realm at any time, also in the middle; no datagram is larger
than the engine's read buffer (`MaxDatagram`).  A datagram carries the camera's own
counter, `sent` of `PTCPPacket`, in `at`: `CounterFollowsWire` compares it with the
engine's.  Datagrams arrive in order, which is what `PtcpLink` shows.  `Output` is what the client reads in the end.
Responses are put together in `MCOnvifResponse` with what the client ought to see
written beside them.  The client's socket does not fail here (it does in
`TunnelEngine`).

Two conditions on the constant `Responses` are named here because theorems assume
them.  `PlainUrls`: an address in the authority of a URL is its host, behind the
userinfo and in front of the port; no scheme stands within an authority; headers hold
no URL.  `ExpectedInOnePiece`: what a record expects is what rewriting gives of the
response in one piece.  TLC evaluates the first for the responses of the run, and
`FramedArrivesWhole` there includes the second.

### `TunnelEngine` and `OnvifQueue`

The realms of one engine.  `conn[c]` holds what `handle_client`, `process_reader`
and `process_writer` of connection `c` are doing: `pc` runs through accept,
waiting for the permit, registration of a fresh realm, `Connect` and the wait
for `CONN`.  `channels` and `connChannels` map a realm to the connection that holds
the other end; a sender lives in the map only, so removing the entry is what
closes the channel (`HasChannel`).  `dhQueue` is the bounded channel to
`dh_writer`; `SendConnect`, `SendData`, `SendDisconnect` and `Heartbeat` wait for
room in it.  `FlushResponse` is the end of `process_writer` for ONVIF: write,
remove the channel, drop the permit, one step that is taken when the client has read
the response or gone.  `write_all` has no timeout (`process.rs` 169), so it may never
be taken.  `BindFails` is the branch of the match in
`handle_client` that both the timeout and a dropped sender take.

The PTCP session is two FIFO sequences, `up` and `down`: this is what `PtcpLink`
shows in strict ordering.  The camera is external: it answers a Bind with `CONN`,
refuses it with `DISC` (`Refuses`) or stays silent, answers requests in `Parts`
payloads, and may close a realm at any time.  Realm identifiers are fresh; the
code draws them at random, and a collision (2^-32 per pair) is left out.

`OnvifQueue` says what the clients of the ONVIF listener are promised: they are served
one at a time in the order of their arrival, and one whose response has a
Content-Length is given all the camera has sent of it, not before that is the whole
response or the camera has closed the realm.  The mapping reads `queue` off the
semaphore's waiters, `inService` off the connections between permit
and response, `answered` and `closed`
off the camera's side of the connection's realm, and `given` off the finished writer.
Nothing of tables, channels, packets in flight or tasks appears in it.

### `Handshake`

`main()` of `app/vendor/dh_p2p/main.py` and the class `UDP` of `helpers.py`.  The
program is one thread that always waits for one datagram, so `pc` names the
datagram; a wait inside `UDP.request()` bears the name of its request.  `asked` is
what was sent from `main_remote`; a server may answer anything in it, never,
late or again, which covers loss, delay, duplication and reordering without a
network of its own.  `ReadOther` is `request()` with the answer to another
request, `NoAnswer` its failure and what the loop around it does; `TimesOut` is
every timeout, and needs `finite` where the socket's own timeout counts.  The four
waits of `ReadWaits` call `UDP.read()` themselves and take the answer to any
request.  `attempt` and `reads` are the outer and the inner loop's round, `Limit` the
numbers of rounds.  `granted` is a history of what the peers have confirmed.
`UncaughtError` stands for every exception that leaves `main()`.

`InOwnLoop`, a part of `TypeOK`, says that a loop makes no more rounds than its own limit,
although all loops share the two counters.
`NeverInCircles` says that every step goes `Forward` in a lexicographic order: the
`Stage` of `main()`, the round of the retry loop this stage is in (`RetryLoop`), the
step within the round, and the datagrams read in this step; the last three are below
the bounds of their loops.  `main()` skips provisional answers to requests it reads
itself (`ReadWaits`) without a bound on their number; they change nothing of the state.

Left out: message contents and cryptography, `--debug`,
`--type 0` (the manager passes 1), `main.py` 787-950 (`launch_engine` does not
return).  External: servers, relay agent, camera.

### `P2PManager`

One camera, default backend.  `caller`, `starter` and `reader` are the program
counters of the three kinds of threads.  The lifecycle lock is a variable, since
threads hold it over several steps; a section under `_lock` is one step, except
the peer's restart, which waits for a process while it holds `_lock`: then
`locked` names the thread, and every step that needs `_lock` waits.  A process
and its `ServiceState` are one record in `proc`: `_start_service` creates both.

Worker and process slots are finite and reused when nothing refers to them, so
a bounded instance runs for ever: `FreeProcs` and `FreeWorkers` are the only
bounds beside `MaxUnread`, the lines a reader has not seen.  `BeginCall` waits for
the lifecycle lock and for free slots.

Abstractions: a line of output is `ready`, `media`, or not modelled; the log, and
with it whether a transient marker is found among the last 100 lines, is a choice
between retry and error (both are explored); `last_error` and the contents of
`status()` beyond the status are left out; termination succeeds within its
timeouts; a process and its engine are one.  Of `online_since` only the reset of
`reconnect_attempt` is kept: a session that has been online may have been for 60 s
(`CountsFrom`).  The length of a delay is left out.

### `CameraApi`

Endpoints and startup of `app/main.py`.  `calls[c]` is the request a thread serves;
a transaction is open from its first write to `Commits`, and meanwhile others cannot
write (`Locked`): sqlite takes one writer, and the others wait or, as in
`DeleteIsBusy`, give up after 5 s.  Add and update that give up have changed nothing
and are no step.  `start` and `stop` of the manager are one step each, since they
hold the camera's lifecycle lock throughout; `Starts` may leave a worker whose session
was not launched (`Popen` raised).  An INSERT takes the id after the last one, as
AUTOINCREMENT does (`NewIds`).  `public_camera` then asks for the port of this id, within
the transaction: without one it raises, and the transaction is rolled back, which gives
the id back too (`HasPort`, `RollsBack`); otherwise the row is committed (`Commits`).
`Killed` and `Shutdown` end the process; `StartupReads` may find another
`APP_SECRET_KEY`.  `settled` is a history variable: the cameras whose last request ran
alone and was carried out.  It marks the moments at which anything can be promised,
for two requests that overlap on one camera may leave the older row's worker, until
the next request or restart.

Abstractions: `login` stands for everything a worker uses of a row; the vendor is a
property of the serial number, which no request changes; requests are served when
startup is done (`startup` runs before the server accepts); authentication and
validation refuse requests before they do anything.

## 4. Runs

| Run | Question | Bounds |
|---|---|---|
| `ptcp_receive` | handover and engine: order, completeness, acknowledgements, books on the gap, refinement of `OrderedStream` and delivery in the end in strict ordering; nothing twice or late with `P2P_ALLOW_GAP_SKIP` | 5 packets of 1-2 bytes, video, command and recovery, the fourth crosses the wraparound, 1 control packet for the handshake, 2 datagrams in flight, limit 2 instead of 32; no bodies of the engine |
| `ptcp_send` | the send window from the handshake on, with lost, repeated and reordered acknowledgements, wraparound, overflow; a body nobody can send again and a dead reader end the process | window of 2, 1 retry, 2 datagrams in flight each way, a handshake's body of 2 bytes and the engine's of 1, a camera that only acknowledges, stray datagrams |
| `ptcp_handover` | violation: a control packet read twice | 3 packets, strict ordering, 1 for the handshake |
| `tunnel` | realms, responses, channel table, refinement of `OnvifQueue` | 1 RTSP and 2 ONVIF connections, 3 realms, queue of 1, responses of 2 payloads |
| `tunnel_live` | every ONVIF connection is served | 2 connections, one response without Content-Length |
| `manager` | safety of the manager, `Popen` failing anywhere | 2 workers, 2 processes per service |
| `manager_live` | calls return, ONVIF starts, reconnects happen | 1 worker at a time |
| `manager_status` | violation: a camera shown online has both channels ready | 1 worker at a time |
| `handshake` | the engine's session is confirmed, control reads have a timeout, no step leads back, `main()` ends outside two reads | both transports, loops of 2 or 3 rounds |
| `handshake_hangs` | violation: the negotiation always ends | as `handshake` |
| `onvif_response` | wholeness, length, addresses and byte counter of a response | 30 responses with up to 2 URLs, any cut, 1 heartbeat, 1 body on the wire and 1 chunk in the channel at a time |
| `camera_api` | rows and workers agree, ports are never another camera's, enabled cameras run | 2 threads, 2 serial numbers of which one has an adapter, 2 logins, 2 secrets and one too short, 2 ports |

Why the bounds are enough.  Five packets give a gap in front of, between and
behind buffered packets and several that drain at once, before and across the
wraparound.  A window of two overflows and is acknowledged in part; a body of the
handshake and one of the engine suffice for the first to be lost and the second to wait
behind it; the counter's range must leave room for both.  Two ONVIF
connections suffice for one to meet the other's delayed `DISC`; a queue of one is
always contended.  Two processes per port are the old one and its successor, two
workers the stopped one and its successor; loops of the handshake need a first, a
repeated and a last round; two requests suffice to overlap and two ids for one to
be deleted while another is added; what the manager's threads remember
refers to at most these.  The proofs of section 5 drop the bounds for every safety property.

The handshake sends bodies in `ptcp_send` only, and `ptcp_receive` acknowledges without
bodies of the engine between `recv()` and the acknowledgement; the theorem
`SessionImplementsStream` covers both together.

Two invariants that section 5 proves are in no run of their own.  `NothingForgotten` is
what `OrderedStream` says of the camera's memory.  `OnvifOneAtATime` says of the permit
what `OnvifQueue` says of the requests, one in service, and that the permit is not
lost, which run `tunnel_live` would show by a client that is never served.
`CHECK_DEADLOCK FALSE` stands where the process may end or all connections are
served; the runs of manager and camera API check for deadlock.

Every property of a passing run is violated by a mutant of the code, kept beside
the definition it changes and marked as such.

### What the violation runs show

* `handshake_hangs`: `recv()` at `main.py` 661 and, without a timeout left on its
  socket, `read_ptcp()` at 560 wait for ever if one datagram is lost; the worker
  stays connecting and nothing rebuilds it.
* `ptcp_handover`: `read_ptcp` adds the length of a control packet it reads a second
  time to `ptcp_recv`.  The engine inherits a counter beyond the stream, takes the
  camera's next packet for stale and acknowledges what nobody has.
* `manager_status`: "A camera is usable only when every required local channel is
  ready" (`app/p2p_manager.py` 54-56), but `WorkerState.status` looks at the sessions
  that exist, and the ONVIF one is created after the RTSP one is up: until then the
  camera is online with one channel.

Further disagreements have no run.  Once the ONVIF session exists no line of the default
backend sets it online, so that a camera with both sessions up goes back to connecting.
`reconnect_attempt`, from which `app/p2p_manager.py` 341-349 computes a delay that
doubles up to 30 s and is reset after 60 s online, is a field of the `ServiceState`, which
the restart it delays replaces: it never exceeds one, and the delay is 2 s and jitter
every time.  `main()` takes any `Empty` packet for the "PTCP setup acknowledgement"
(`main.py` 773), also a queued one of an earlier body; if the last body was lost the
engine cannot send it again, and the session stays useless until the stall check ends
it (`LostBodyReconnects`), which takes a camera whose stream falls silent.
Whether the RTSP session is connecting is asked before the
restart delay; after it the session is terminated unasked, also if it has come online,
against `app/p2p_manager.py` 373-374.  An answer to `p2p-channel` that arrives while the
relay agent is set up goes to `pending_responses`, "instead of discarding" it
(`helpers.py` 254-256), which nobody reads: `read_for_cseq` has no caller, and `main()`
waits 45 s and asks again.  In strict ordering nothing looks at
`gap_since`, so a gap the camera does not fill while it acknowledges heartbeats
stays, against `rust-engine/src/main.rs` 188-189; an expired gap skips video although
the comment at `ptcp.rs` 432-435 rules it out (the one at 446-449 wants it); a gap
that opens behind bytes just delivered keeps the clock of the gap before it; a
`DISC` that answers a Bind ends the engine with all its realms by the branch meant
for a missing `CONN` (`main.rs` 75-86).  `LenIsSize` shows by its assumptions for which
bodies `len()` is not the size on the wire.

### Fairness

* Engine tasks: tokio runs every task that can run (weak); a task that waits for
  room in the bounded channel is served in order by tokio (strong).
* ONVIF clients, in `tunnel_live` only: each takes the response that is written to it,
  or closes its connection (`ClientFairness`).  The code does not enforce this: a client
  that stops reading keeps the permit, and with it all others waiting, for ever
  (`process.rs` 169-172).  `OnvifServed` says what holds as long as there is no such one.
* Timers fire (weak): the retransmission tick, the 15 s of quiet, the bind
  timeout.
* Network: fair-lossy.  What is sent again and again arrives (strong), and what is
  in flight arrives or is lost in the end (weak).  Without this UDP could drop
  every retransmission.
* Camera: it resends what is not acknowledged and closes its realms.  The second
  is what the comment at `main.rs` 44-46 reports of the camera; `OnvifServed` needs
  it, since an ONVIF client that leaves without a request keeps its permit until
  the camera closes the realm.
* Manager: threads that can run do; a lifecycle lock that is free again and again
  is obtained (strong); the deadline of the starter passes.
* `onvif_response`: tokio runs `dh_reader` and `process_writer` (weak); the camera need
  not send anything.
* Handshake: a timeout that is set expires (weak).  No datagram need arrive.

Apart from that no fairness is assumed of clients, nor of calls, of exits or of what a
process prints.

## 5. Proofs

| Theorem | Module | Says |
|---|---|---|
| `TypeCorrect` | `P2PManagerProofs` | `Spec => []TypeOK` |
| `PortsHaveOneOwner` | | `Spec => []SingleOwnerPerPort` |
| `NoProcessIsOrphaned` | | `Spec => []NoOrphan` |
| `EveryServiceIsFollowed` | | `Spec => []NobodyWaitsInVain` |
| `GapIsBookkept` | `PtcpLinkProofs` | `Spec => []GapBookkeeping`, for every stream, limit and policy |
| `TypeCorrect` | | `Spec => []TypeOK` |
| `InOrder` | | `Spec => []DeliveredInOrder`, if `HandshakeTakes = {}` |
| `CameraForgetsOnlyTaken` | | `Spec => []NothingForgotten`, likewise; it speaks of strict ordering |
| `PendingIsAhead` | | `Spec => []NothingStuckInPending`, likewise |
| `ForwardOnly` | | `Spec => []NeverBackwards`, likewise |
| `SessionImplementsStream` | | `Spec => ImplementsStream`, likewise: the refinement of `OrderedStream` |
| `UnreceivedIsKept` | | `Spec => []WindowCoversUnreceived`: what the engine itself sent, whenever it was launched |
| `TypeCorrect` | `TunnelEngineProofs` | `Spec => []TypeOK` |
| `ServesAsQueue` | | `Spec => ImplementsQueue`: the refinement of `OnvifQueue` |
| `OneOnvifRequest` | | `Spec => []OnvifOneAtATime` |
| `TableCleaned` | | `Spec => []NoForgottenChannel` |
| `RealmsInOrder` | | `Spec => []RealmProtocol` |
| `ResponsesArriveWhole` | | `Spec => []ResponseWhole` |
| `TypeCorrect` | `HandshakeProofs` | `Spec => []TypeOK`, with every loop within its own limit |
| `EngineGetsLiveSession` | | `Spec => []EngineInheritsSession` |
| `ControlReadsHaveTimeout` | | `Spec => []ControlReadsFinite` |
| `NegotiationIsFinite` | | `Spec => NeverInCircles` |
| `RoundTrip`, `PacketRoundTrip` | `PtcpWireProofs` | `parse` undoes `serialize` for everything the engine sends, and `len()` is what goes out |
| `LenIsSize` | | `len()` of what was parsed is the size on the wire, if `LenFits` |
| `TypeCorrect` | `OnvifResponseProofs` | `Spec => []TypeOK` |
| `CounterStaysInStep` | | `Spec => []CounterFollowsWire` |
| `LengthIsDeclared` | | `Spec => []LengthMatchesBody` |
| `FramedIsCollected` | | a response with a length that was sent to its end is collected to its end |
| `CutsDoNotMatter` | | `Spec => []FramedArrivesWhole`, if it holds of responses that come in one piece |
| `AddressesAreReplaced` | | `Spec => []NoCameraAddress`, if `PlainUrls` |
| `TypeCorrect` | `CameraApiProofs` | `Spec => []TypeOK` |
| `WorkerIsOfItsCamera` | | `Spec => []NeverAnothersCamera` |
| `WorkerAgrees` | | `Spec => []WorkerFollowsRow` |
| `EnabledRuns` | | `Spec => []EnabledCameraRuns` |
| `AfterIsTransitive`, `AckCoversPrefix`, ... | `WrappingU32Proofs` | the order of wrapping counters, for every even modulus |

**Manager.**  Assumptions: `None` is no thread, worker or process; the process
slots of the two services are disjoint; `SpawnFails` is a Boolean; `MaxUnread` is
positive.  None of the invariants is inductive alone.  `IInv` adds:
`SlotsMatchPorts` (a worker's slot for a service holds a process that binds its
port), `LockHolders` (a thread in a section under the lifecycle lock holds it),
`CallerPhases` (between pop and register no worker is registered; the processes
to terminate are at most one per port and gone before the call goes on; a new
worker is empty), `ReadersFollow` (a live process has a reader that reads, and a
reader's process belongs to a worker), `PeerPhases` (while a reader replaces the
peer its worker is registered, has a peer, and the failed session is no longer in
it).  `SingleOwnerPerPort` follows because a live process sits in the
registered worker's only slot for its port, or is doomed by the one call that
holds the lifecycle lock, which registers nobody before it is done.  TLC checked
`IInv` on the instance of run `manager` before it was proved.

**Handshake.**  Assumption: every loop makes at least one round.  `IInv` adds
`StagesReached`, what has been confirmed by the time `main()` waits for a given
datagram, since the engine gets the relay session as a fallback several waits
after its sign; and `TimeoutKept`, which includes the device-info requests, during
which `main_remote` is not read but must keep its timeout.  One lemma per kind of
move (`Exit`, `Probe`, `Ask`, `Launch`, a read that uses up a round), then the steps.
`NegotiationIsFinite` needs of the state only its type: an exception or a fallback
leads to a later stage, a timeout or an answer to the next round or step, and any other
datagram uses up a read.  Stages and rounds are bounded, so nothing can go `Forward` for
ever: of `EndsUnlessUntimed` only that a wait with a timeout ends is left to TLC.

**Session.**  `GapInv` is `GapBookkeeping` with the counter a natural number.  One
lemma per layer of `recv()`: `DrainKeepsBooks`, `BufferKeepsBooks`,
`ReorderKeepsBooks`, then one step per action.  `TypeInv` is inductive by itself: it
asks more than `TypeOK` of what is in flight and in the window, whose lengths are
below half of the range.

Receiving half: `StreamInv`, over positions in the stream and not over counters.
`ReceivedInv` says that `recv` stands at the end of the last packet delivered,
delivery only moves forward, by one packet at a time if nothing may be skipped, and
all that is pending lies ahead of it; `AcksTrue` that every acknowledgement, in flight
or kept in the window, is the end of a packet that was taken; `CameraKeeps` and `PacketsNear` that
everything in flight or not yet forgotten is within half of the range, which is what
makes `sequence_after` on two counters the order of two positions
(`AfterIsTransitive` alone does not give that).  The hypothesis `HandshakeTakes = {}`
says that `read_ptcp` counts each control packet once and in order; without it all of this is
false, as `ptcp_handover` shows.  The refinement takes each action to a step of
`OrderedStream` or a stutter (`StepImplements`), with the same invariant; where
skipping is allowed the mapping is constant and the theorem says nothing.

Sending half: `SendInv`, needs no such hypothesis, as it speaks of the engine's own
packets.  Everything is measured as a distance behind `sent`: the window is a chain
of packets that ends there (`WindowChained`), the camera and its acknowledgements
are behind (`SentBehind`, `AcksBehind`), and the window reaches back to what the
camera has received (`WindowReaches`), as long as nothing was discarded.  The
handshake's bodies are no part of this: `unheard` of the bytes the camera lacks are
theirs, before the launch all of them (`UnheardBehind`), and the window need only reach
back over the rest.
TLC checked both invariants on the instances of the runs before they were proved.

**Realms.**  Assumptions: RTSP and ONVIF connections are disjoint, the ones with a
Content-Length are ONVIF, `None` is neither connection nor realm; the bounds are
positive.  `IInv` has three layers, each inductive under the ones before it.
`ControlInv`: the tasks of a connection agree on its phase, no two share a realm, the
semaphore's queue holds each waiting connection once, entries of both tables belong
to their realm's connection.  `LinkInv`: every event on the way to the camera and
every packet back belongs to a connection in the phase that sends or awaits it, the
camera knows the realms it was told of, a `DISC` is the last packet of its realm; it
contains `RealmProtocol` said of two events at a time.  `CountInv`: while an ONVIF
writer collects, the payloads the camera has sent are those it has taken, those in its
channel and those in flight, and its channel outlives them; hence what it flushes is
the whole response or all that the camera will ever send.
The refinement of `OnvifQueue` uses the three layers.  Handlers arrive and are served,
since the semaphore's queue is in the order of arrival (`HandlerServesQueue`); readers,
`dh_writer` and `dh_reader` are stutters (`TasksLeaveQueue`, `ReaderLeavesQueue`); a
writer finishes the one request in service with all that the camera has answered
(`WriterServesQueue`, `GivenWhole`), although its realm may be closed and its channel
gone; the camera answers and closes only realms in service or already served
(`CameraServesQueue`, `ClosingServesQueue`, `TakingServesQueue`, `OpenIsServed`).

**Counters.**  Pure arithmetic, with `HalfRange` positive as the only assumption.

**Packet formats.**  Assumptions: `DISC` consists of valid bytes, U+FFFD is not a byte,
the read buffer of `process_reader` is below 2^16.  The last is what makes the
payload's 16-bit length, which `parse` asserts, agree.  Two lemmas expand `Parse` and
`BodyLen` once, case by case; the theorems then split on the kind of body.

**Camera API.**  Assumptions: at least one camera fits, the secret that is too short is
not one of the others, `None` is no row and no worker.  None of the properties is
inductive alone.  `IInv` adds: `PhaseInv` (no request before startup is done), `LockInv`
(one open transaction, and what it will commit), `AloneInv` (no other request about a
camera whose request runs alone), `IdInv` (nothing refers to an id above the last
committed one, so a new row starts with no worker), `SerialInv` (row, worker and
requests of one id have one serial number, hence `NeverAnothersCamera`), `StepInv` (what
a request that runs alone may rely on at each step) and `AgreeInv` (agreement at rest
and, during startup, for each camera that startup has passed).  One lemma each for the
first, the middle and the last step of a request, then one per action.

**Responses.**  Assumptions: responses are texts of valid bytes, the realm is a 32-bit
word, the bounds are numbers, and those of the packet formats.  `IInv` says that the
counter is the place of the next datagram (`WireCounted`, with `RoundTrip` and
`LenIsSize`), that a `DISC` is the last datagram, that the writer's buffer is a prefix
of the response, and, in `InTransit`, that the rest is in the channel and on the wire
in this order: there are cut points, one per chunk and datagram, between which the
response's text lies.  `FramedIsCollected` follows, with the fact that a prefix is
complete for `ResponseComplete` only if it is the whole (`PrefixHasHeader`).
`CutsDoNotMatter` has `ExpectedInOnePiece` as its hypothesis, that each framed response
rewritten in one piece is what its record expects; it is a statement about the
constant `Responses` alone, and holds of those of run `onvif_response`, where
`FramedArrivesWhole` is checked of every cut, also of none.

`LengthIsDeclared` needs that the replacement neither makes nor destroys the end of a
header.  That is a fact about the loop of `replace_url_authorities`, here a recursive
function.  No induction theorem of the library applies, so the proof goes the other
way round: a recursive definition is a `CHOOSE` of a function that solves its
equation; if there were a number of rounds for which no solution exists there would
be a least one, `OneMoreRound` builds the next solution from the one before
(`RoundIsLocal`: a round only looks ahead), and so a solution exists; the same
argument by a least counterexample shows that every token of the result is one of the
text or of the new authority (`ReplaceSchemeTokens`).

`AddressesAreReplaced` follows the loop in the same way, but by the last wrong round:
if every round hands on a property of what the later ones made, the whole has it
(`LastRoundWrong`).  The property is about URLs: each URL of what a round returns is one
of the text in front of it, one in the later rounds' part, or the one just written
(`UrlsOfRound`, `RoundUrls`), and the last has no address because `HostOf` finds the
address of a plain authority (`HostIsFound`, `PutIsClean`).  The second pass, for the
other prefix, leaves what the first has cleaned (`SchemeCleans`, `ReplacedUrls`).  A
response that was cut off may end within a URL: what is left of a plain authority is
plain (`PrefixIsPlain`, `PartIsPlain`).  The hypothesis `PlainUrls` is about the camera
and cannot be dropped, see below.

**Model-checked only.**

* Liveness under fairness: `EngineCatchesUp`, `LostBodyReconnects`, `DeadReaderReconnects`, `OnvifServed`,
  `CallsReturn`, `OnvifStarts`, `ReconnectHappens`, `EndsUnlessUntimed`,
  `ResponseIsWritten`.
* Nothing is shown of `NoCameraAddress` without `PlainUrls`, and it is not true of every
  text: the loop goes on behind the end of an authority, so that a URL directly in the
  authority of another (`http://http://ip`) is not looked at, and a URL in a header
  (`Location`) is not rewritten.
* That a response in one piece is rewritten to what it should be
  (`ExpectedInOnePiece`), which is a computation per response.
* The session when the handshake reads a packet twice or early.

## 6. Not modelled

* Pure I/O and presentation: `onvif_proxy.py`, the web page, the MJPEG preview,
  sessions and encryption, packaging.
* The SDK probes and the vendor worker: sequential programs around closed DLLs, with
  the vendor backend of the manager that starts the latter.
* The spelling of RTSP and HTTP, and the encoding of PTCP's 32-bit numbers.
* Logging, with `redact_http_text`, `debug_http` and the `Debug` implementations.
* Poisoned mutexes: a panic inside a critical section of the engine.
