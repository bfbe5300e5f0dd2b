# TLA+ models of gosocket

This directory holds TLA+ models of the gosocket library (`src/`), the TLC
configurations that check them, and this description. The models are written
from the Go source. `spec.md` is used only to state what the code is supposed
to do.

## 1. Inventory

### Components

| Component | Source | State | Operations |
|---|---|---|---|
| QueueConn | `conn_queue.go` | `sendCh` (buffered channel), `closedFlag`, `doneFlag`, `cause`, the sender and receiver goroutines | `NewQueueConn`, `Send`, `Close`, `CloseWith`, `sendLoop`, `receiveLoop`, `close(err, isReadingErr)`, `getPendingPackets`, `markClosed` |
| Conn / EasyConn | `conn.go`, `conn_easy.go` | `net.Conn`, `codec`, `readTimeout`, `writeTimeout` | `Send` (write deadline, then `Codec.Write`), `Receive` (read deadline, then `Codec.Read`), `Close`, the options `WriteTimeout`, `ReadTimeout`, `Codec` |
| Codec | `protocol/codec.go` | the writer and reader buffers, `maxPktSize` | `Write` (size check, fixed header, variable head, body, one flush), `Read` (3-byte header, `FindPacket`, size check, `ReadFull`, `DecodeHead`, body), the options `MaxPktSize`, `WBufGetter`, `RBufGetter` |
| Packet registry | `protocol/packet.go` | `pktCreators` map | `RegisterPktCreator`, `DeletePktCreators`, `FindPacket` |
| Reader / Writer / ByteOrder | `protocol/reader.go`, `protocol/writer.go`, `protocol/binary.go` | a byte buffer and a cursor `off` | `ReadFull`, `HasSize`, typed getters, `RemainBytes`; `ResetBuf`, typed putters, `Flush` |
| Packet heads | `pkts/heads.go`, `pkts/packets.go` | `cmd`, `version`, `codec`, `props`, `seqId`, `topic` | `HeadSize`, `EncodeHead`, `DecodeHead` of NotifyHead, HttpHead, PubHead; packet constructors and their registration |
| Props | `pkts/property.go` | `props` map, cached size `len`; `propCreators` map | `With`, `Remove`, `Reset`, `Encode`, `Decode`, `FindProp`, `RegisterPropCreator` |
| Router | `route/router.go`, `route/route.go` | `RouterCenter{handlers, headsNum, routers}`, `RouterGroup{handlers, headsNum, routes}`, `RouterInfo` | `Use`, `UseAfter`, `Group`, `RouterGroup.Use/UseAfter/Handle/Group`, `combineHandlers`, `Get`, `HandlePacket`, `GenMsgId` |
| Context | `route/context.go` | `index int8`, `handlers`, `values` | `Reset`, `Next`, `Abort`, `SkipNext`, `SkipNextN`, `IsAborted`, `Set/Get` |
| Client and connection pool | `client.go`, `client_conn_pool.go` | `connAddr`, `dialCallAddr` (atomic pointers), `dialCall{done, resp, err}` | `GetConn`, `doDial`, `getConn`, `putConn`, `Close`, `Client.Send` |
| Timer pool | `timer.go` | `sync.Pool` of timers | `acquireTimer`, `releaseTimer`; not called by any active code |
| Request/response client | `client_sync.go` | | entirely commented out |
| Examples | `examples/` | | programs that use the library |

### How they interact

* Sending: the application calls `QueueConn.Send(p)`. The packet goes into
  `sendCh`. The sender goroutine takes it out and calls `EasyConn.Send`.
  That sets the write deadline and calls `Codec.Write`, which frames the
  packet with the `Writer`.
* Receiving: the receiver goroutine calls `EasyConn.Receive`. That calls
  `Codec.Read`, which uses `FindPacket` from the registry and the
  `DecodeHead` of the packet. The goroutine then calls the user's
  `pktHandler`. On the server that handler is usually `route.HandlePacket`.
  It looks up the route from the kind and `GenMsgId` and runs the handler
  chain in a pooled `Context`.
* Shutdown: `Close` puts a nil sentinel on `sendCh`. When a worker's loop
  ends, it calls `close`. A CAS on `doneFlag` picks one of the two workers
  to record the cause and close the `net.Conn`, which unblocks the other
  worker. The other worker runs `pendingPktsHandler` and `onClose`.
* Client: `Client.Send` gets the single connection from the pool. If there
  is none it dials, and concurrent dials are merged into one `dialCall`.

### What is hard

* Concurrency in QueueConn. Application goroutines, `pktHandler` on the
  receiver goroutine, the sender goroutine and the two-phase `close` all
  touch `sendCh`, `closedFlag`, `doneFlag` and `cause`. Only the flags are
  atomic. `cause` is a plain field.
* Failure. Any read or write can fail at any moment: peer reset, EOF, or a
  deadline. A failure on one side has to bring down the other side through
  `Conn.Close` or the sentinel.
* Bounded queue. A full `sendCh` closes the connection (slow consumer) and
  does not save what is queued.
* Integer widths. The frame length is a `uint16`. The version and codec
  share one byte. `Context.index` is an `int8`.
* Go slice aliasing. In `Use`, `append(heads, ...)` writes into the array
  that `tails` still points to.
* The lock-free dial merge in the pool (`atomic.LoadPointer` followed by a
  separate CAS).

### What makes each component correct

* QueueConn.
  * No packet is lost, duplicated or reordered between `Send` and the wire
    or `pendingPktsHandler`.
  * `onClose` is called exactly once, after both goroutines are done, with
    the first error.
  * A connection that has been closed always reaches `onClose`.
  * After `onClose`, no accepted packet is left unreported.
* Codec.
  * Decoding an encoded packet gives it back.
  * A stream of frames decodes to the same packets in the same order.
  * Packets larger than the limit are rejected on both sides.
* Packet heads and Props.
  * Round trip of every head field.
  * The cached `Props.len` equals the encoded size.
* Router.
  * A route's chain is center heads ++ group heads ++ route handlers ++
    group tails ++ center tails.
  * Dispatch runs each handler at most once, in order, and none after
    `Abort`.
  * `Context.index` stays inside the chain.
* Pool.
  * At most one dial is in flight.
  * Every `GetConn` returns the connection that was dialled, or the dial
    error. It never dereferences a nil call.

## 2. Plan

Modules, in the order they are (to be) written. The QueueConn comes first
because it holds the concurrency of the system.

1. `QueueConn` (done). Models the QueueConn together with its sender,
   receiver and application goroutines. EasyConn is abstracted to the
   `ncClosed` flag plus reads and writes that fail nondeterministically.
   `MCQueueConn` instantiates it.
2. `QueueConnAbstract` (planned). An abstract FIFO channel with close. The
   refinement `QueueConn => QueueConnAbstract` maps `sendCh` and the
   history to the abstract queue and delivered sequence.
3. `Router` (done). Go slices are modelled as a backing-array store plus
   `(array, offset, len, cap)` headers, so the `append` aliasing in `Use` is
   represented. `RouterAbstract` is the reference composition, written with
   plain sequences, and the chain composition invariant of spec §8 is
   checked against it by refinement.
4. `Context` (done). `Next`, `Abort`, `SkipNext` and `SkipNextN` over an
   `int8` index (`% 2^8`, signed), with handlers that call these
   nondeterministically, including nested `Next`. Checks at-most-once
   dispatch, nothing after Abort, and values never carried from one
   packet to the next.
5. `Codec` (done). One connection's byte stream between two Codecs,
   with every packet shape of `pkts`, the real `maxPktSize = 2<<16-1`
   and `uint16(size)`. It composes `Props` (the application's props
   object, sent with each data packet). Checks that `Read` returns what
   `Write` accepted, frame by frame.
6. `PropTypes` and `Props` (done). The Prop types with their wrappers, and
   the property bag with its cached `len`, its `Encode` and its `Decode`.
   The packet heads (`EncodeHead` and `DecodeHead` of NotifyHead, HttpHead
   and PubHead) are operators of `Codec`.
7. `ClientConnPool` (done). Concurrent `GetConn` and `doDial`
   goroutines, with the Load and the CAS of `dialCallAddr` as separate
   steps.

Twelve runs are kept. A new violation run only earns a place if it shows
a bug worse than one already shown. The
divergences found while modelling that have no run are described under
"Observations without a run" below.

Composition: a later `System` module may compose `QueueConn` (receiver
side) with `Context` dispatch. It would use `pktHandler` calling `Send`
from the receiver goroutine, which is what the example ping handler does.

## 3. What is modelled now

### QueueConn (`QueueConn.tla`, `MCQueueConn.tla`)

State. The variables are the fields of `QueueConn`:

* `sendCh` as a sequence. `Nil` is the nil sentinel.
* `closedFlag`, `doneFlag` and `cause`.
* `ncClosed`, which stands for the state of the underlying `Conn`.
* `pc`, `err` and `cur`, which hold the locals of `sendLoop`,
  `receiveLoop` and `close` for each worker goroutine.
* `uPc`, `uCall` and `uPkt`, which hold the position of each application
  goroutine inside `Send`, `Close` or `CloseWith`.

History variables record what the code does with each packet:

* `enqueued`: what entered the channel.
* `written`: what was written to the stream.
* `lost`: what was dequeued but failed to write.
* `pending`: what was handed to `pendingPktsHandler`.
* `accepted`: what `Send` returned nil for.
* `onCloseCalls`: the causes passed to `onClose`.

Actions. Each shared-memory access of the code is one step:

* `Send` is `SendCheck` (the `IsClosed` test) and then `SendEnqueue` (the
  `select`). On a full channel it continues with `SendSlowClose`
  (`Conn.Close`) and `SendSlowMark` (`markClosed`).
* `Close` is a `Send(nil)` followed by `CloseMark`. `CloseWith(p)` is
  `Send(p)` followed by `Close`.
* `sendLoop` is `SendLoopRecv` (the receive from `sendCh`) and
  `SendLoopWrite`. `receiveLoop` is `ReceiveLoopErr`.
* `close` is split into steps: `closeCAS`, `closeSetCause`,
  `closeMarkClosed`, `closeConnClose` and `closeWake` for the first caller,
  and `closePending` (which includes `getPendingPackets`) and
  `closeOnClose` for the second caller.

Abstractions:

* A successful `Receive` followed by `pktHandler` changes nothing in the
  QueueConn, so it is not a step. A handler that calls `Send` is one more
  application goroutine.
* `getPendingPackets` is one step. A `Send` that races with it can only add
  packets after it, and that case is the one `PendingComplete` shows.
* `PacketTooLarge` from `Codec.Write` is one more way for a write to fail.

Bounds. `MCQueueConn` uses:

* 2 application goroutines. Two are needed for a `Send` to race a
  `Close`.
* 3 packets.
* `SendChSize = 2`, so the channel can fill up and the slow-consumer path
  runs.
* `MaxCalls = 2` per goroutine (1 in the liveness run).

With these bounds every branch of every action fires: a full channel, a
sentinel behind data, two sentinels, a write failing mid-queue, and either
worker winning the CAS. Symmetry over goroutines and over packets is used
in the safety run only.

Fairness. The Go scheduler runs every runnable goroutine, so every step of
the workers and of a call already in progress is weakly fair. A write
always ends: it succeeds, fails, or hits the write deadline, which is
always set by default. A read on an open connection can block for as long
as the peer keeps sending, so only a read on a closed `Conn` is fair
(`ReceiveLoopErrOnClosed`). Application goroutines are never obliged to
start a call.

### Router (`Router.tla`, `RouterAbstract.tla`, `MCRouter.tla`)

Registration runs once, in one goroutine, at startup, so the model has no
concurrency. Its subject is the storage: the order of calls and the way Go
shares backing arrays between slices.

* State. `mem` is the sequence of backing arrays that have been allocated.
  A slice is a header `[arr, off, len, cap]` into `mem`, and array 0 is nil.
  `rc`/`rcHeads` are `RouterCenter.handlers`/`headsNum`. `g`, `gHeads` and
  `gEx` hold, per kind, the group's chain, its heads and whether the group
  exists in `rc.routers`. `r` and `rEx` hold, per kind and message id,
  the route chain and whether the route exists. `ops` counts calls.
* Operators. `Reslice` is `s[lo:hi]`. `GoAppend` is `append`. It writes in
  place when `len + n <= cap`. Otherwise it allocates the capacity that
  `growslice` chooses: double, or the needed size when that is larger,
  rounded up to the allocator's size classes for 8-byte elements.
  `combineHandlers` is `make` plus three `copy` calls, into an array of
  exactly the final size. Its `abortIndex` panic is a guard.
* Actions. There is one action per registration method: `CenterUse`,
  `CenterUseAfter`, `CenterGroup`, `GroupUse`, `GroupUseAfter`,
  `GroupHandle` and `GroupReset` (`RouterGroup.Group`). Each takes a handler
  list from `HandlerArgs`.
* Abstract spec. `RouterAbstract` keeps every chain as a plain sequence.
  `Use` inserts after the heads, `UseAfter` appends, and `Group`/`Handle`
  insert into a snapshot. The constant `GroupHeadsWhole` chooses the group
  heads. FALSE gives the spec's heads (center heads plus group handlers).
  TRUE gives what `RouterCenter.Group` sets (the whole chain).
  `Router` instantiates it once, with `GroupHeadsWhole` TRUE (the code's
  heads), through the refinement mapping `View(mem, ·)`.
* Bounds. There are two handlers (`h1`, `h2`), with lists `<<h1>>`,
  `<<h2>>` and `<<h1,h2>>`, one kind, one message id, and five calls. That
  is enough to fill an array and overflow it, to append into spare
  capacity, and to snapshot the chain before and after each kind of call.
  Both violations need only two or three calls.

### Context (`Context.tla`, `MCContext.tla`)

Dispatch is `HandlePacket`: `GetContext`, `Reset` (index -1), then
`ctx.Next()`. It runs on the receiver goroutine, which dispatches one packet
at a time, so the model is sequential. What makes it hard is the control
flow that handlers drive.

* State. `index` is `c.index` as an `int8`. `Int8` models Go's
  two's-complement conversion and wrapping. `n` is `len(c.handlers)`.
  `stack` holds the `Next` calls in progress, one frame per Go call, each
  with its `pc`, its loop bound (`n := int8(len(c.handlers))`) and `cur`,
  the handler its loop called last. `runs` and `aborted` are history: the
  handler indices called, and whether `Abort` was called, in this dispatch.
  `values` is `c.values`: each key maps to the number of the dispatch whose
  handler `Set` it, or `NoValue` (a nil map has every key absent). The
  context is the pooled one, so all packets go through the same variables.
* Actions. `HandlePacket` (Reset, which sets `values` to nil, then push a
  `Next` frame). `NextEnter`
  (`c.index++`), `NextTest` (the loop test: call `handlers[c.index]`, panic
  on a negative index, or return), `NextInc` (the loop's `c.index++`). The
  running handler may call `Abort`, `SkipNext`, `SkipNextN(k)`, `Set(k)` or
  `CallNext` (a nested `Next`), or return (`HandlerReturn`). `Get` and
  `MustGet` only read `values`.
* Bounds. Chains of 2 and 3 handlers, at most 3 context calls by handlers
  per packet, and 2 packets. Three calls allow a nested `Next` followed by
  an `Abort` or a skip in the inner handler, which is where the shared
  index matters. The run skips by 1 or 2; what a skip of `math.MaxInt32`
  does is recorded under observations. One key is enough for a value
  `Set` in the first packet to be visible in the second.
* Fairness. `Spec` has weak fairness on `Dispatch`: the receiver goroutine
  keeps running a packet it has started. No liveness property is checked.
  With a bounded number of handler calls, every dispatch ends by the shape
  of the model, so a termination property would show nothing.

### Props (`PropTypes.tla`, `Props.tla`)

The props of a data packet live in a map from id to prop, together with
`len`, a cached encoded size. `HeadSize` reads `len` to size the write
buffer, and `EncodeHead` writes `uint16(len)` as the props size in front of
`Encode`'s bytes.

* `PropTypes` has no state. A Prop is `[t |-> type, v |-> value]`, where
  the type is one of `u8`, `u16`, `u32`, `u64`, `f32`, `f64` or `str`.
  `Width` is each fixed type's `Size`, and so also the width its `Encode`
  and `Decode` use. A float is its IEEE bits, which is what
  `PutFloat32/64` writes. The `With*` wrappers build the `With` call. The
  signed ones convert to the unsigned type of the same width first. Each
  call is recorded with the getter that reads it back (`WithInt16` with
  `GetInt16`) and the argument as given (`arg`), and `Signed` is the
  `intN(v)` conversion of the `GetIntN` wrappers. `InitRegistry` holds the
  ids `init()` registers.
* `Props` state. `props` is a function from the registered ids to a Prop
  or `NoProp`. `len` is `p.len`. `ops` counts the application's calls.
  `byteOrder` is the `ByteOrder` of the Writer and Reader, `BigEndian` or
  `LittleEndian`, chosen once at `Init` and never changed.
  The registry is `InitRegistry` plus the constant `AppRegistry`, the ids
  the application registers. The `ASSUME` is `RegisterPropCreator`'s
  panic on a repeated id.
* Operators. `BE`, `FromBE`, `LE` and `FromLE` (all RECURSIVE) are the
  big- and little-endian putters and getters of `binary.go`; `PutUint` and
  `UintOf` are the `Writer`/`Reader` methods that go through `w.order` and
  `r.order`. `EncodeValue` and `Encode` give the
  bytes of one prop and of the map, in an iteration order given as an
  argument. `DecodeValue` and `DecodeLoop` are the reader cursor with its
  `HasSize` checks, `FindProp` and the loop of `Props.Decode`. `Get` and
  the typed getters (`GetUint8` .. `GetStr`, `GetByte`, `GetIntN`) return
  `[panic, ok, val]`: not ok and the zero value for an absent id, a panic
  for a Prop of another type (the unchecked `v.(*XProp)` assertion), and
  otherwise the value, converted by `intN(v)` for the signed ones.
* Actions. `With` (Remove, then add, as `Props.With` does), `Remove`,
  `Reset`, and `Receive`, which decodes what a gosocket peer sends, with a
  props size 0 or 1 byte longer than its items. `With` stores the Prop as
  given, whatever type is registered for the id, as the code does.

### Codec (`Codec.tla`, `MCCodec.tla`)

One connection: the writer's `Codec.Write` and the reader's `Codec.Read`
on the same byte stream. Both sides use one `ByteOrder`, chosen at `Init`:
`EasyConn` builds its codec with `BigEndian`, and `NewWriter`/`NewReader`
accept `LittleEndian` too, so both are initial states.

* State. The Props variables (the application's props object, through
  `INSTANCE Props`). `stream` holds the bytes written and not yet read.
  It is a sequence of runs `[val |-> byte, n |-> count]`, so a body of
  65536 bytes is one element. `out` is the history of frames written,
  each marked as written by a Codec or raw from another peer. `in` holds
  the packets `Read` returned. `rxErr` is the error that ended the read
  loop.
* Packets. A packet is its `PktBase` (kind, flags, body) and its head
  fields. `Creators` is the registry `packets.go` fills. `FindPacket`,
  the `NewFull*Pkt` constructors, and `HeadSize`, `EncodeHead` and
  `DecodeHead` of each head (`NotifyHead`, `HttpHead`, `PubHead`; a Ping
  has none) are operators. `NotifyEncodeHead` writes
  `byte(version<<3) | codec` and `NotifyDecodeHead` reads
  `version = vc >> 3` and `codec = vc & 0x08`, as the code does.
* Actions.
  * `PropsOp`: one of the Props actions.
  * `Write(t)`: `Codec.Write` of template `t`, with the current props
    attached to a data packet (`SetProps`). It checks the size, then
    writes `kind<<4 | flags`, `uint16(size)`, `EncodeHead` in every map
    iteration order, zero padding up to `HeadSize`, and the body.
    `WriteTooLarge` is the `ErrPacketTooLarge` return.
  * `PeerWrite(f)`: another peer writes raw frame `f`.
  * `ReadBadKind`, `ReadTooLarge`, `ReadBadHead` and `ReadPacket` are the
    four outcomes of `Codec.Read` once its `ReadFull`s have their bytes.
    A `ReadFull` without enough bytes blocks, and that is a guard. `Read`
    is their disjunction.
  * `Finished` stutters once the call bound is reached.
* Fairness. The reader is `EasyConn.Receive` in `QueueConn.receiveLoop`,
  which calls it again after each packet until an error. So a `Read`
  whose bytes have arrived is eventually taken (`ReadFairness`). Nothing
  forces a `Write`. `ReadFairness` is `WF_vars(Read)` written out as
  `<>[]ReadEnabled => []<><<Read>>_vars`. `ReadEnabled` spells out
  `ENABLED <<Read>>_vars`: the fixed head has arrived, and either it fails
  at once or the payload has arrived too. TLC's own `ENABLED` evaluation
  of the recursive head decoder reached through the `Props` instance does
  not terminate.
* `CodecMax` is `MaxPktSize`'s effect. The option checks its argument,
  but then assigns it anyway (line 38), so the argument is what is kept.
* Bounds (`MCCodec`).
  * One application-registered `f32` id, and one call of each id's
    wrapper of its registered type, including `WithInt16(-2)` and an
    empty string.
  * Peer props of up to two distinct ids. The peer declares a props size
    equal to what it encodes, or one byte less (`MCPeerSlack`).
  * Five templates, one per head shape: Ping, Pong, Notify, Sub (an
    `HttpHead`) and Pub.
  * Four raw frames: one of unknown kind 7, a Notify whose 3-byte head
    is shorter than 5, a Notify whose props hold the unregistered id 9,
    and a Ping that declares and sends 40 bytes, more than the limit.
  * `MaxPktSize(20)`, so that both size checks fire.
  * Both byte orders. The raw frames are written as bytes, so under
    `LittleEndian` their sizes read differently (the short Notify's
    `0 3` is 768, over the limit). Each error path is reached under at
    least one order, and every `Write` round-trips under both.
  * Three calls.
  * The templates use even versions and codec 0, because the `vc & 0x08`
    decoding loses every other codec and the low bit of the version
    (a known defect, listed as a hazard).
  * `MCCodecTrunc` writes one Ping with a 65536-byte body under the
    default limit.
* The Prop types and wrappers are in their own constant-free module,
  `PropTypes`. `MCCodec` can then use them without going through the
  `Props` instance, whose constants `MCCodec` itself defines.

### ClientConnPool (`ClientConnPool.tla`, `MCClientConnPool.tla`)

`Client.Send` calls `pool.GetConn()` from whatever goroutine the application
sends on, so several goroutines race in `doDial` on an empty pool.

* State. `conn` and `dialCall` are the two atomic pointers (`Nil` is nil).
  `calls` holds the `dialCall` records. The dialCall of goroutine `p`'s
  `k`-th call is named `<<p, k>>`, and so is the connection it creates.
  `pc` and `dialing` are each goroutine's position and local variable,
  and `ret` is what its `GetConn` returned. `sentOn` holds the connections
  `Client.Send` sent on.
  `created` and `closed` are history. `panicked` records a nil dereference.
* Actions. `GetConn` and `Close` (both start with `getConn`'s load).
  `doDial` is split into one action per atomic operation: `Load` (line 71),
  `Cas` (72), `Wait` (75: panics on a nil `dialing`, otherwise waits for
  `done`), `Check` (the double check, 79), `Dial` (fails, or
  `connCreator` plus `putConn`), `Clear` (91) and `Done` (`close(call.done)`).
  Each path out of `GetConn` (`Return`) leaves the goroutine at `Client.Send`'s
  second half: `ClientSend` sends on the returned connection unless an error
  came back. `Client.Close` is the pool's `Close`, and `NewClient` is `Init`.
* Fairness. Weak fairness for each goroutine's `doDial` steps, because a
  runnable goroutine is eventually scheduled. Calls into the pool are not
  forced.
* Bounds. The passing run has two goroutines with two calls each, and
  symmetry over the goroutines. That is enough for a failed dial followed
  by a redial, and for a goroutine that loaded nil reaching the double check
  after the dial finished. The panic needs two goroutines, and the hang
  needs three.

### Observations without a run

These were seen as counterexamples while the models were built. They are
described here and have no run of their own.

* Spec §4.6 and `RouterCenter.Group` (router.go:40). The group's `headsNum`
  is set to the whole combined chain. So after `UseAfter(h1)` and
  `Group(k1, h1)`, the center tail `h1` is a group head, and route
  handlers run after it. Spec §4.6 says the composed chain is center heads,
  then group heads, then the route's handlers, then group tails, then
  center tails. `RouterAbstract` keeps both readings through
  `GroupHeadsWhole`. The refinement is checked with the code's reading.
* Spec §8 scenario 3 and `QueueConn.Send` (conn_queue.go:142). The slow
  consumer path closes the Conn and returns `ErrSlowConsumer`, but never
  records it as the cause. `onClose` gets the I/O error the closed Conn
  produces instead.
* `Props.Decode` (property.go:158) with a peer that repeats an id. The map
  keeps one entry, but `len` counts the bytes of both. When the packet is
  sent on, the props size no longer matches what `Encode` writes.
* `Context.SkipNextN` (context.go:63) with a large count. `int8(n)`
  truncates it: `SkipNextN(math.MaxInt32)`, meant to skip the rest of
  the chain, adds -1, so the nested `Next` calls the same handler again.
  `AtMostOnce` is violated. `SkipNextN(128)` in the first handler makes
  the index -127, and `handlers[c.index]` panics at line 70. Both runs
  were replaced to stay within twelve runs. With the skips of 1 and 2 that
  `ctx_safety` uses, the index never gets near the wrap.
* `Props.Decode` (property.go:146) with a peer that declares one byte too
  few. The loop tests the end only before an id byte, so the last property
  is read past the end, and `Decode` succeeds. Spec "Props" says decoders
  consume exactly the declared length. `codec_safety` reaches this case
  (`PeerSlack` -1). `len` counts the bytes read, so `LenConsistent` still
  holds, and the body after the props is intact.
* `RespTimeout` and `DialTimeout` (client.go:51, 58) set `dialTimeout`,
  which no code reads. `NewClient` builds its dialer with
  `defaultDialTimeout` (client.go:74), so neither option has any effect.

### Runs

| Run | Result | What it shows |
|---|---|---|
| `qc_safety` (`MCQueueConn.cfg`) | pass | `PacketConservation`: the packets that entered `sendCh` are, in order, those written, the one whose write failed, the one in flight, those reported pending, and those still queued. Nothing is lost, duplicated or reordered. Also `OnCloseAtMostOnce`. Deadlock is checked: the only final states are those where everything has ended. |
| `qc_liveness` (`MCQueueConnLive.cfg`) | pass | `ClosedLeadsToOnClose`: once closed, both goroutines exit and `onClose` runs. This relies on the receiver's sentinel (`closeWake`) when the sender is idle. |
| `qc_onclose_race` | violation | The CAS on `doneFlag` is done before `c.cause = err`. If the other worker ends at the same time, for example on a read deadline just after `Close`, it runs `onClose(c.cause)` while `cause` is still nil and the Conn is not yet closed. This is a data race on `cause`. |
| `qc_pending_toctou` | violation | `Send` tests `IsClosed` and then enqueues. A `Send` that passed the test before a concurrent `Close` puts its packet behind the sentinel after `getPendingPackets` has run. `Send` returns nil, but the packet is never written and never reported. |

| `router_safety` (`MCRouter.cfg`) | pass | `TypeOK` includes that every header stays inside its array and `headsNum <= len`, which means the reslicing never panics. `NoSharedArrays`: the center, the groups and the routes never share a backing array, so a later registration cannot change a chain that was already copied. This holds because `combineHandlers` copies with `make`. The mutant that builds it with `append` breaks it. |
| `router_use_alias` | violation | `UseAfter(h1)` then `Use(h2)`. `heads` is `h[:0]` and has `h`'s capacity, so `append(heads, h2)` overwrites `h1` in place, and `tails` then reads `h2`. The chain becomes `[h2, h2]` where it should be `[h2, h1]`. The same code is in `RouterGroup.Use`. Spec scenario 6 (`Use(A).UseAfter(C)`) calls them in the one order that works. |

| `ctx_safety` (`MCContext.cfg`) | pass | `AtMostOnce`: each handler runs at most once per dispatch, however handlers nest `Next`, skip and abort. It holds because every `Next` and every loop reads and writes the one shared `c.index`. A `Next` that restores the caller's index, or a loop with its own counter, breaks it or `NoRunAfterAbort`. `NoRunAfterAbort` (action property): after `Abort` no handler is called, in the inner or any enclosing `Next`. `ValuesOfThisRequest`: with the one pooled context serving packet after packet, every value in `c.values`, and so every value `Get` returns, was `Set` while dispatching the current packet. A `Reset` that keeps `values` breaks it on the second packet. |
| `codec_safety` (`MCCodec.cfg`) | pass | `FrameBoundary`: `Read` returns, in order, the packets `Write` accepted, equal in kind, flags, every head field, props and body. It fails only on a frame from another peer. This holds with props changed between sends, props decoded from a peer (one that declares a byte too few included), every map iteration order, and both byte orders. A decode loop running while `read <= end` breaks it. `WithGetRoundTrip`: for every packet read and every `With*` call whose Prop the sender's packet carried, the receiver's matching getter returns the argument given, without a panic. This needs the wrapper's unsigned conversion, `Encode`, `Decode` by the registered type, the type assertion and the signed conversion to agree. A `GetInt16` without `int16(v)` returns 65534 for `WithInt16(-2)` and breaks it. `FramesDelivered` (liveness): once `k` frames were written, `Read` eventually returns the `k`-th packet or fails. It never waits for bytes that were not written. A `Write` whose size counts the fixed head too breaks it: the reader waits forever for 3 more bytes of the last frame. `LenConsistent`: the props' cached `len` is the encoded size. A `With` that skips its `Remove` breaks it. `TypeOK` includes a 5-bit version on every decoded head. A decoder that keeps `vc` whole breaks it. |
| `codec_trunc` (`MCCodecTrunc.cfg`) | violation | A Ping with a 65536-byte body is no larger than `maxPktSize` (131071), so `Write` accepts it, but frames it with `uint16(65536) = 0`. `Read` returns a Ping with no body and then reads the body as the next frames. |

| `pool_safety` (`MCClientConnPool.cfg`) | pass | `NoLeakedConn`: every connection `connCreator` made is the one the pool holds, so `Close` reaches it. This holds because of the CAS, because `putConn` comes before the store of nil, and because of the double check. Without the double check, a goroutine that loaded nil before the store dials a second connection. `SendOnCreated`: `Client.Send` only ever sends on a connection `connCreator` made, never on nil. This holds on every path out of `doDial`, including a waiter that reads `dialing.resp` after `done`. A `Dial` that stores the connection but leaves `call.resp` unset breaks it: the waiters then send on nil. |
| `pool_nil_deref` | violation | Two goroutines on an empty pool both load nil at line 71. One wins the CAS, and the other's CAS fails, so it does `<-dialing.done` with `dialing == nil` and panics. |
| `pool_hang` | violation | Three goroutines on an empty pool. One dials and stores the connection. A second has already started `doDial`: it wins the CAS, finds the connection at the double check, and returns without clearing `dialCallAddr` or closing `done`. The third loads that call, fails its CAS and waits forever. `CHECK_DEADLOCK FALSE` here, so that TLC reports the liveness property rather than the deadlock it causes. |

## 4. Not modelled (yet), and why

* Reader, Writer and ByteOrder are modelled through what `Props` and
  `Codec` use: both orders' putters and getters of the widths used, the
  cursor with its `HasSize` checks, `ReadFull` and `RemainBytes`. The 24-,
  40-, 48- and 56-bit widths are not used by any Prop or head. The io
  plumbing (`Reset`, `Discard`, `Read`) only moves bytes.
* Timer pool (`timer.go`). No active code calls it.
* `client_sync.go`. It is commented out.
* Examples. They are users of the library.
* Logging and the `Desc` strings.
* `Context.Get/MustGet` only read `values`. `MustGet` panics on an absent
  key, but whether a handler asks for a key it never set is up to the
  application. Only the dispatching goroutine touches `values`.
* The Codec's buffer getter options (`WBufGetter`, `RBufGetter`) only
  choose where the bytes are kept. `RBufGetter` sets the write getter
  (codec.go:52), so a custom read buffer is never used. I/O errors of
  `ReadFull` and `Flush` are the failing reads and writes of `QueueConn`.
* The getters, setters and `Desc` of the packets, and `Has`, `Size` and
  `ForEach` of Props, only read.
* The option setters of `client.go` only fill `DialOpts` before
  `NewClient`. The timeout options write `dialTimeout`, which nothing reads
  (see observations). The send on the returned
  connection is `QueueConn.Send`, modelled in `QueueConn`.
* Redial after the pool's connection has closed. The pool keeps its first
  connection forever. Spec §1 lists reconnection as a non-goal, so no
  property asks for it.
* `DeletePropCreators` and `DeletePktCreators`, and registration after
  start-up. The registries are the constants that `init()` and the
  application's registrations leave.
