# TLA+ models of the SplitHTTP dialer, the WireGuard inbound and the VLESS codecs

This directory holds TLA+ models of the concurrent parts of the repository, the TLC
configurations that check them, and `PROJECT.json`. `PROJECT.json` lists the components,
the runs, the mutants, the source lines each definition models, the findings and the
hazards.

## 1. Inventory

The repository has three source files. Together they make up three subsystems.

| Component | Source | State it keeps | Operations |
|---|---|---|---|
| FakeDNSEngine interface | `src/features/dns/fakedns.go:1-12` | none | none (it only declares an interface) |
| HTTP client cache (C4) | `fakedns.go:39-114` | `globalDialerMap`, guarded by `globalDialerAccess` | `getHTTPClient`: builds a fresh client on every call and stores it; the lookup is commented out |
| SplitHTTP dialer (C5) | `fakedns.go:120-242` | the session id, the download response body, `remoteAddr`/`localAddr` | `Dial`: GET, status check, pipe and producer start, 2-byte read, return `splitConn` |
| Upload pipe and semaphore (C3) | `fakedns.go:180-223, 244-258` | pipe contents (size-limited), `requestsLimiter`, `requestCounter`, the uploader goroutines | `uploadWriter.Write` (write then flush), `Close`, the producer loop, one POST per batch |
| WireGuard inbound server (C8) | `src/proxy/wireguard/server.go:30-138` | `s.info` (routingInfo), the endpoint's `conn`, the device | `NewServer`, `Network`, `Process` (read loop, handoff to `readQueue`) |
| Bind bridge (C7) | `server.go:121-137`, with the bind itself outside `src/` | `readQueue`, the elements the device's receive goroutines post | receive (post and wait), `Close` |
| Userspace stack forwarders (C6) | `server.go:140-191` | one goroutine per intercepted flow | TCP forwarder (handshake, or an RST on failure), UDP forwarder |
| Connection-forward pipeline (C9) | `server.go:193-251` | ctx and its cancel, the inactivity timer, the link, the two copy halves | Dispatch, `task.Run` of request and response, half-close, interrupt, defers |
| Length-packet codec (C1) | `src/unnamed/part_000:76-180` | `LengthPacketWriter.cache`, the bytes on the stream | `MultiLengthPacketWriter`, `LengthPacketWriter`, `LengthPacketReader` |
| Addon codec (C2) | `part_000:15-54, 182-241` | none (pure functions, used in the handshake) | `EncodeHeaderAddons`, `DecodeHeaderAddons`, `PopulateSeed`, `CheckSeed` |

How the parts interact:
- **SplitHTTP.** The caller's `Write` goes through a `BufferedWriter` into a size-limited
  pipe. The producer goroutine reads the pipe one batch at a time. For each batch it takes
  a semaphore token and starts an uploader goroutine, which sends `POST ?seq=n` and gives
  the token back when it exits. The download side is the body of a single GET.
- **WireGuard.** Each inbound UDP connection (one per peer) runs its own `Process`
  goroutine. The WireGuard device's receive goroutines each post an element on the shared
  unbuffered `readQueue`, and `Process` fills it with one datagram. The device decrypts
  the datagram into the userspace stack. The stack's forwarders start one goroutine per
  flow, and that goroutine reads the shared `s.info` and runs `forwardConnection`. That
  function dispatches the flow and copies both directions under an inactivity timer.

What makes this hard:
- Goroutines interleave:
  - in SplitHTTP: the producer, many uploaders, and the caller;
  - in WireGuard: several `Process` calls, the receive goroutines, and forwarders that read
    `s.info`;
  - in a forwarded flow: two copy halves, the timer, and the function returning early.
- Steps fail partway: `Dial` can fail after the producer has started, a POST can be lost,
  a half can fail after some data has moved, and `Dispatch` can return an error.
- Cancellation and timeouts interact: the idle timer races the copies, and the link ends
  must be interrupted on the error path.
- Bounds: a full pipe, the semaphore bound, the 255-byte addon length, the 16-bit packet
  length, and the `buf.Size` filter.

What makes each component correct:
- **C3/C5:** the semaphore's free tokens plus the POSTs in flight always equal
  `maxConcurrentUploads`. No caller byte is lost, duplicated or reordered on its way into
  the POST bodies. After `Close`, everything drains. A failed `Dial` leaves no goroutine behind.
- **C7/C8:** every datagram that is read reaches the device. No peer starves. A flow is
  dispatched with its own peer's routing info and never finds a nil dispatcher. An
  endpoint is detached once its connection dies.
- **C9:** a flow always ends and leaves no goroutine blocked. A `Dispatch` error does not crash the process.
- **C1/C2:** decoding what was encoded gives the input back. The filters drop exactly the
  buffers they should. `CheckSeed` is symmetric and strict.

## 2. Plan

The modules are listed in order of importance. Modules 1-5 and 7 exist now.

1. `SplitHTTPDial` (done): the dialer, the pipe, the producer, the semaphore and the
   uploaders.
2. `ForwardConnection` (done): one forwarded flow.
3. `WireGuardInbound` (done): `Process` per peer, the `readQueue` handoff, `s.info`, and
   the forwarders.
4. `PacketCodec` (done): one stream written by `LengthPacketWriter` or
   `MultiLengthPacketWriter` and read by `LengthPacketReader`, with byte-width headers,
   the `buf.Size` filter and chunked reads, checked against the spec's framing. A violation
   run covers lengths above what the 2-byte field holds.
5. `AddonCodec` (done): `EncodeHeaderAddons`/`DecodeHeaderAddons`, `PopulateSeed` and
   `CheckSeed` in the handshake that uses them, with a violation run for a record longer
   than the length byte holds.
6. (Not built; see section 7.) A composition module, `WireGuardFlows`: `WireGuardInbound` whose forwarded flows each
   run an instance of `ForwardConnection` (INSTANCE per flow). It checks that flows
   outlive the `Process` call that carried them (the detached context).
7. `UploadStream` (done): the abstract upload stream. The caller's bytes reach the server
   in seq order, possibly with a gap at a lost POST. `SplitHTTPDial` is shown to refine it
   with `INSTANCE ... WITH`.
8. (Not built; see section 7.) A run with two sessions dialled concurrently, covering
   the global client cache under its mutex.

## 3. Modules and how they map to the code

### SplitHTTPDial (`fakedns.go`)
Variables:
- `dialPc` is the control point of `Dial`.
- `client` is the cached client's transport.
- `bodyOpen` tracks the download body.
- `pipeState` and `pipe` are the upload pipe, holding items. The i-th `Write` carries
  item i.
- `written` is the caller's stream, kept as a ghost variable.
- `producer` and `chunk` are the producer goroutine and the batch it holds.
- `permits` is `requestsLimiter`, and `counter` is `requestCounter`.
- `uploads` has one record per uploader goroutine.

Actions:
- `GetHTTPClient`, `DialDownload` and `ReadInitialResponse` are the steps of `Dial`.
  `DialDownload` starts the pipe and the producer before the header read, as the code
  does.
- `UploadWriterWrite` and `SplitConnClose` are the caller.
- `ProducerReadMultiBuffer`, `ProducerExit` and `ProducerSpawnUpload` are the producer
  loop.
- `UploadRequest(u)` is one uploader goroutine. It has every outcome, and its deferred
  `Signal` returns the token.

The pipe is modelled from the spec, since it is outside `src/`. A write blocks while the
buffered data exceeds the limit. A read returns everything that is buffered. A closed pipe
drains before it returns EOF.

### UploadStream, and the refinement by SplitHTTPDial
`UploadStream` is what the upload side promises its caller, with no pipe, producer or
semaphore (spec 4.4, 4.5 and 7):
- the caller writes, or closes;
- `Post` sends the next non-empty stretch of unposted bytes as the next seq, while fewer
  than `MaxConcurrentUploads` POSTs are unanswered;
- `Answer` ends an unanswered POST as delivered or lost. A lost POST is never sent again.
- posting and answering are weakly fair.

`SplitHTTPDial.Stream` instantiates it with this refinement mapping:
- `posts` are the uploads ordered by seq, with their bodies and states;
- `open` is "the pipe is not closed";
- `written` maps to `written`.

`RefinesUploadStream == Stream!Spec` is checked as a property of the `splithttp_upload`
run. Under the mapping, dialling, the producer's reads and its exit are stuttering steps.
A spawn is a `Post` and an uploader's return is an `Answer`.

### ForwardConnection (`server.go:193-251`)
Actions:
- `Dispatch` covers the dispatch and the start of both halves through `task.Run`. An error
  leads to the nil link being dereferenced.
- `RequestCopy`/`RequestEnd` and `ResponseCopy`/`ResponseEnd` are the two `buf.Copy`
  halves. Their deferred `SetTimeout` calls are included, and so is the
  `task.OnSuccess(..., Close(link.Writer))` half-close.
- `ForwardReturn` covers what `task.Run` returns, the interrupt on the error path, and the
  deferred `cancel()` and `conn.Close()`.
- `TimerCheck` is `signal.CancelAfterInactivity`. Each period it either consumes an
  activity mark or cancels ctx.

The guest and the remote are an environment. Each side may send up to a bound, close, or
fail, and each may stay silent forever.

### WireGuardInbound (`server.go:48-191`)
Actions:
- `ProcessStart`, `ProcessRead` and `ProcessHandoff` make up `Process` for one peer.
  `ProcessStart` writes `s.info` and attaches `nep.conn`. `ProcessRead` reads one datagram,
  or returns on a read error. `ProcessHandoff` fills a posted element; a closed queue
  returns, and a zero-length payload clears `nep.conn` and returns.
- `WorkerPost`, `WorkerDeliver`, `WorkerExit` and `DeviceClose` are the bind and the
  device's receive goroutines, modelled from the spec section 4.7.
- `TCPForward` and `UDPForward` are the forwarder goroutines. They read `s.info` at the
  moment they run.

### PacketCodec (`part_000:76-180`)
Variables:
- `kind` is the writer the stream was built with.
- `cache` is `LengthPacketWriter.cache`.
- `wire` holds the bytes written and not yet read.
- `wstate` is the writing side: open, failed, or closed.
- `sent` and `committed` are ghost variables. `sent` holds the packets every call framed;
  `committed` counts the packets of calls that returned nil.
- `rstate` and `delivered` are the reader's error and the multi-buffers it returned.

Operators:
- `LengthHeader` and `HeaderLength` are the two byte conversions.
- `Retained` is the `length == 0 || length+2 > buf.Size` filter.
- `PacketFrame` is the fresh buffer: header, then an `eb.Write` that truncates to capacity
  without an error.
- `ReadChunks` (RECURSIVE) is the reader's `buf.Size` loop.

Actions:
- `WriteMultiBuffer` is one caller's call of either writer. `WriteOut` is its final
  `Write`, which succeeds or fails after any prefix of the bytes.
- `CloseWriter` is the writing side closing.
- `ReadPacket` is `ReadMultiBuffer`. It blocks until its bytes have arrived. Once the
  writer is gone, a short read becomes the length error or the payload error.

Bytes are `ByteBits` = 2 bits wide and `buf.Size` is 4, in place of 8 and 8192. This keeps
the ratio that matters (a buffer holds less than the length field can express) and makes
both the filter edge and the 16-bit wrap reachable.

### AddonCodec (`part_000:15-54, 182-241`)
The operators `PopulateSeed`, `EncodeHeaderAddons`, `DecodeHeaderAddons` and `CheckSeed`
translate the code. `CheckSeed` returns the first mismatching field in the code's order.

`proto.Marshal` is abstracted to what framing depends on: one tag unit and one value unit
per non-default field, in field order. `Unmarshal` accepts whole pairs and fails on a tag
with no value. This matches protobuf, which parses a cut between two fields and rejects a
cut inside one.

The handshake around the codecs (`ClientSend`, `ServerDecode`, `ServerRespond`,
`ClientCheck`) is VLESS code outside the repository, so it is modelled from the spec:
- the client fills its addons from a flow and a seed;
- the server decodes them and reads the following command;
- the server answers with any addon record;
- the client decodes the answer and runs `CheckSeed`.

Either connection may close while the header is in flight, which exercises the read-error
paths. The length byte is `ByteBits` = 4 bits wide in the passing run. The widest record
has 14 units, so 4 bits hold it and 3 bits do not.

## 4. Runs

| Run | Checks | Result |
|---|---|---|
| `splithttp_upload` | `PermitsMatchInFlight`, `UploadConservation`, `ClosedConnDrainsUploads`, `RefinesUploadStream` | pass, 949 states |
| `splithttp_failed_dial` | `FailedDialLeavesNoProducer` | violation: the GET answers 200, `Dial` starts the producer, and the 2-byte read fails. The producer then stays blocked on a pipe nobody closes, and the response body stays open. |
| `forward_flow` | `FlowReleased` | pass, about 17k states |
| `forward_dispatch_error` | `NoNilLinkDereference` | violation: `link.Writer` of a nil link |
| `wg_inbound` | `NoFlowWithoutDispatcher`, `DatagramsReachDevice` | pass, about 312k states, about 45 s |
| `wg_shared_info` | `FlowRoutedByOwnPeerInfo` | violation: a flow of peer 1 is routed with peer 2's `s.info` |
| `wg_empty_datagram` | `ProcessServesOpenConnection` | violation: a zero-length datagram makes `payload.Read` return `io.EOF`, and `Process` returns while its connection and the device are up |
| `wg_stale_endpoint` | `EndpointDetachedOnReturn` | violation: `Process` returns on a read error with `nep.conn` still set |
| `packet_framing` | `DecodedPacketsMatchSent`, `CommittedPacketsDelivered` | pass, about 311k states, about 60 s |
| `packet_wide_length` | `DecodedPacketsMatchSent` | violation: a 16-byte packet is framed with length 0 (the 65536-byte case of the code), and the reader returns an empty packet |
| `addon_handshake` | `AddonsRoundTrip`, `CheckSeedMatchesReference` | pass, about 2k states |
| `addon_long_record` | `AddonsRoundTrip` | violation: with a 3-bit length byte, a 12-unit record (seed fields, no flow) gets the length byte 12 mod 8 = 4. The server unmarshals `Seed` and `Mode`, and reads the `Duration` tag as the command |

Each property of a passing run has a mutant in `PROJECT.json`: a variant of the code,
defined just before the action it replaces, that TLC shows breaks the property. The
variants are:
- a spawn that does not wait for a token;
- a pipe that discards overflow;
- a `Signal` that runs only on success;
- an uploader that retries a lost POST under the same seq;
- an error path that does not interrupt `link.Reader`;
- a `Process` that does not write `s.info`;
- a receive goroutine that ends after one packet.
- a `buf.Size` filter that leaves room for only one header byte;
- a reader that takes the two length bytes in the wrong order;
- `EncodeHeaderAddons` keyed on the flow alone;
- a `CheckSeed` without the one-side-nil branches;
- for the type invariants: a `LengthPacketWriter` without the deferred cache reset, a
  client that discards `CheckSeed`'s result, a `Signal` run twice on the error path, an empty read
  forwarded as a buffer, and a handoff that does not set `v.endpoint`.

## 5. Bounds

- **SplitHTTP:** 2 permits, a pipe limit of 1 item and 4 writes. With these a full pipe
  blocks a write while both permits are held, batches of one and of two items occur, and
  POSTs finish out of order.
- **Forward:** 2 buffers each way. A half can fail, or the timer can fire, between two
  copies.
- **WireGuard:** 2 peers, 1 receive goroutine, 2 datagrams per peer and 2 flows. This is
  the smallest setting in which peers compete for the receiver and a flow of one peer is
  forwarded after the other peer's `Process` has started.

- **PacketCodec:** 3 calls of at most 2 buffers each. The buffers have every length
  from 0 to `buf.Size` and two distinct byte values. So the filter keeps some buffers and
  drops others at both edges, a packet spans two read chunks, and a failure can cut
  before, inside or after any frame. The violation run uses one call of four full buffers,
  16 bytes, which is one more than the length field holds.
- **AddonCodec:** both flows, with and without a seed. Responses come from every
  combination of the seed fields and sub-records: nil, PopulateSeed's value, or a value
  differing in the last field that `CheckSeed` compares.

All runs set `CHECK_DEADLOCK FALSE`. The program really does stop: a failed dial, a
caller that closes, a handshake that has ended, a packet reader blocked on a stream that stays open, or every peer gone and the device down leaves all goroutines either
finished or parked forever.

## 6. Fairness

Weak fairness is assumed for every goroutine that can run: the `Dial` goroutine, the
producer, each uploader, both copy halves, `forwardConnection`, the timer's periodic check,
the receive goroutines and the forwarders. Go schedules runnable goroutines.

The uploaders' fairness also assumes that every POST eventually returns, with a response
or a transport error. The code sets no timeout on them, so this is an assumption about the server. It is
listed as a hazard.

The codec stream assumes weak fairness of the reader only. The writer's caller owes
nothing, and a reader blocked on an open stream waits forever, as `io.ReadFull` does.

`ProcessHandoff` is strongly fair. The Go runtime serves the receivers blocked on a
channel in FIFO order, so a `Process` that waits intermittently is served eventually.

The caller, the guest, the remote and the peers owe nothing: they may stop at any point.

## 7. Not modelled

- The gVisor stack, the WireGuard cryptography, and the device's handling of receive
  errors, which is library code.
- TLS, uTLS and HTTP/2 framing.
- `remoteAddr`/`localAddr` capture. It is data only, and `GotConn` runs on the dialing
  goroutine.
- The UUID.
- Logging.
- `Network()`.
- The vision writer that `EncodeBodyAddons` may return. It is outside the repository.
- The bytes of protobuf encoding. Only the field structure is modelled.
- The composition of `WireGuardInbound` with one `ForwardConnection` per flow (plan
  item 6). A forwarded flow runs on a context detached from `Process`. Its only shared
  state is the `s.info` it reads when its forwarder runs, and `WireGuardInbound` already
  models that read. A product of the two modules would add states but no interaction to
  check.
- Two concurrent dials (plan item 8). The cache lookup in `getHTTPClient` is commented
  out (`fakedns.go:56-59`), so every `Dial` builds its own client. The only shared step is
  the map store under `globalDialerMutex`. Two dials share no state that either one reads.
- Connection reuse in `net/http`. Upload response bodies are never closed
  (`fakedns.go:216`, and the TODO at line 56), so their connections are not reused. The
  model keeps no pool, and the hazard list records this.
- A server that never answers a POST. The uploaders' fairness assumes `httpClient.Do`
  returns, and the code sets no timeout (`fakedns.go:210`). Without that assumption,
  `ClosedConnDrainsUploads` fails by construction, so no run checks it. The hazard list
  records this.
