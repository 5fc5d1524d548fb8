# A TLA+ verification of tchannel_rs

`tchannel_rs` is an implementation of the TChannel RPC protocol on tokio: many
calls share one TCP connection, messages are cut into frames of at most 65534
bytes, and a server runs a handler for each request. This directory holds TLA+
modules translated from the Rust source, TLC configurations that check them on
small instances, and proofs that TLAPS checks for every instance. Paths are
relative to the repository; `src/` is the crate.

## 1. The system: inventory

| Component | State it keeps | Operations | What is hard | What makes it correct |
|---|---|---|---|---|
| `fragmentation.rs` (with `encode_args` of `frames/payloads.rs`) | arguments still to send, room left in the frame | `create_frames`, `next_frame_args_vec`, `next_arg_fragment` | arithmetic at the frame boundary; an error after some frames are made | every message is cut into frames that fit and are flagged correctly |
| `defragmentation.rs` | arguments so far, its channel of frames | `read_and_check`, `read_beginning`, `read_continuation`, `add` | which argument a piece belongs to; a channel that closes half way | inverse of fragmentation; accepts only what was sent |
| `connection/mod.rs` | counter of message ids, map id -> Sender behind an RwLock, bounded channels, reader and writer tasks | `new_frames_io`, `register`, `dispatch_following`, `close`, `send` | calls, reader and writer interleave; a lock is held across an await; ids wrap around; futures are dropped | frames reach the call they answer; ids are released; nobody waits for ever |
| `server.rs` | map id -> Sender, the futures in progress (at most `server_tasks`), the channel to the writer | `dispatch_frame`, `handle_input`, `send_frames`, error frames | tasks and stream share one poll loop; one error ends all | a request is handled whole and at most once; every request is answered |
| `subchannel.rs` | handlers behind an RwLock, each behind a Mutex | `send`, `handle`, `register`, `unregister` | two closes per call, on different paths | as above, from the caller's side |
| `handler.rs`, `messages/` | none | `convert`, `TryFrom`/`TryInto` | which error takes which path | the caller sees what the handler answered; JSON is accepted unchanged or not at all |
| `frames/` | the buffer of `FramedRead` | frame and payload codecs | reads that end anywhere, 8-bit and 16-bit lengths at their limits | frames come out of the stream as they went in |
| `connection/pool.rs` | pools per address behind an RwLock, bb8 pools | `get`, `create_pool`, `connect` with `verify`, `is_valid` with `ping`, `has_broken` | stale connections, double-checked creation, connections retired under their calls, handshakes without answer | calls get a verified connection; connections are closed when nobody uses them |
| `channel.rs` | server handle, subchannels | `start_server`, `shutdown_server`, `subchannel` | restart races, bind after return | one server, one subchannel per name |

How they interact. `SubChannel::send` takes a `Connection` from the pool, which
gives it an id, a channel and an entry in the map; the connection is back in
the pool before the request is sent, so calls share it and outlive its time in
the pool. A new connection is shown to calls only after `verify` has seen the
peer's InitResponse. It fragments the request and
sends the frames to the `FrameSender` task, which writes them to the socket. At
the server the loop of `handle_connection` reads frames and dispatches them by
id: an unknown id starts a `FrameHandler` future. That future defragments the
request, removes its id from the map, runs the handler under its mutex and
sends the fragmented response to the server's `FrameSender`. At the client
`FrameReceiver` dispatches the frames of responses to the channels of the
calls; a call defragments, closes its id and returns.

## 2. The modules

| Module | Models | Notes |
|---|---|---|
| `Fragmentation` | `fragmentation.rs`, `encode_args` | a step per frame begun, argument taken, frame encoded |
| `Defragmentation` | `defragmentation.rs` | a step per `recv()` |
| `MessageTransfer` | one message from its sender to its reader | composes the two; requests and responses |
| `Frames` | frames, message ids, the two directions of the TCP stream | shared by the sides of a connection |
| `FrameSender` | the writer task, `connection/mod.rs:164` | instantiated by both sides |
| `Connection` | client side: calls, map, reader task | `pc` is the line of `SubChannel::send` a call is at |
| `Server` | server side: dispatch loop, tasks, handlers | `task` is the line of `FrameHandler::handle` a task is at |
| `Multiplex` | `Connection` and `Server` over one TCP connection | the properties of RPC |
| `RpcService` | what a caller is promised | abstract specification, implemented by `Multiplex` |
| `LazyMap` | a map filled on first use, checked twice | instantiated for subchannels and for pools |
| `Registry` | `TChannel::subchannel`, `register`, `ConnectionPools::get` | what the users of a TChannel share |
| `Lifecycle` | `start_server`, `shutdown_server`, drop, `Server::run` | the server task and its listener |
| `Payloads` | `frames/payloads.rs` as bytes | operators: what each payload writes and reads |
| `FrameCodec` | `TFrameIdCodec` under `FramedRead` and `FramedWrite` | one direction of a TCP stream, byte by byte |
| `Sockets` | the TCP connections to one address | shared by `Pool` and `Acceptor` |
| `Pool` | `SubChannel::connect`, `ConnectionManager`, the tasks of a connection; bb8 (external) | `send` is where a send is, `conn` where a connection is |
| `Acceptor` | `Server::run`, the handshake, the end of a connection | or a peer that is another implementation |
| `Network` | `Pool`, `Acceptor` and `Lifecycle` together | connections over their whole life |
| `MCMessageTransfer`, `MCMultiplex`, `MCRegistry`, `MCFrameCodec`, `MCNetwork` | | instances for TLC |
| `Induction` | | induction over the natural numbers in a form the provers can use |
| `Fragmentation_proofs` | | theorems about `MessageTransfer` |
| `FrameCodec_proofs` | | theorems about `Payloads` and `FrameCodec` |
| `Multiplex_proofs`, `Requests_proofs`, `Responses_proofs` | | theorems about `Multiplex`, each extending the ones before |
| `Registry_proofs`, `Network_proofs` | | theorems about the module they are named after; the second about `Lifecycle` too |

**Message transfer.** An argument is its length. Fragmentation splits and
defragmentation concatenates without reordering, so lengths determine content;
a piece of length 0 is the `None` the code stores. `Fragmentation.FillArg` is
one iteration of the loop of `next_frame_args_vec`, `EndFrame` the encoding of
the frame with the two refusals of `encode_args`. `FieldsRefused` is the other
way in which `create_frames` fails: the fields of a request, encoded before
anything is cut, hold a service name that has no one-byte length. `tightEnds` is a history
variable: it counts the arguments, other than a message's last, that end where
fewer than two bytes of the frame are left. `create_frames` has no await, so
cutting it into steps adds no behaviour. A request is read with any scheme, a
response with the scheme of the caller's message type (`SchemeAccepted`). The
Sender of a response's reader may be dropped (`SenderDropped`): this happens
when another call registers the same id.

**Connection and server.** A step is what a task does between two awaits. A
frame's payload is `<<call, position>>`, which lets the properties tell the
bytes of calls apart. A request or response has a fixed number of frames per
call (`ReqLen`, `ResLen`). All channels hold `BufferSize` frames, a direction
of the TCP stream holds `WireCapacity` of them. `held` and `srvHeld` are the
frame a dispatcher waits to hand over with the read lock of the map in its
hands; while there is one, nobody takes the write lock. `senders[i]` is the
call the entry of id `i` leads to; a call's Sender exists as long as the map
leads to it. `StreamPolled` is the condition under which
`try_for_each_concurrent` polls its stream, and with it a waiting dispatch.
`FailConnection` is what an error inside `handle_connection` does: all futures,
the map and the read half of the socket are dropped, while the writer task
finishes. `Cancel` is an owner dropping the future of `send`; `Disconnect` a
TCP connection that breaks with everything on the way lost. The handler's
answers are `Ok`, `MessageError`, `WrongScheme` (a message of another type than
the caller expects), `Unfragmentable` (a response that `create_frames` refuses,
for which an error frame is sent) and `GeneralError` (any error).

**What a TChannel shares.** In `Registry` a user is a task; `subchannel` and
`get` are the look under the read lock, `create_subchannel` and `create_pool`
the critical section under the write lock. Building a pool awaits inside that
section and may fail. Values are numbered as they are created, so that two
subchannels of one name would be told apart. `unregister` takes `&mut self`; the
map keeps an `Arc` of every subchannel, so no caller can have that reference,
and it is left out. In `Lifecycle` the std Mutex makes `start_server` and
`shutdown_server` one step each. `abort` marks a task; the runtime drops it
later, and a poll that has begun may still bind. A connection that was accepted
is a task of its own, and outlives the server task: it is `Multiplex`.

**JSON.** The second and third argument of a `JsonMessage` are JSON objects,
written without white space around them. Lengths do not say what the bytes are,
so `bytes_to_json` says what `from_slice` *may* accept: any stretch of two bytes
or more, as the end of a method name or the inside of an object may be an object
by itself. It is certain only that a stretch that begins where one of the two
objects does is accepted only if it is that object: no part of an object is
one, and what follows an object is the next one or nothing. An argument
that is missing or empty is an error. UTF-8 of the method name is left out; its
errors make fewer messages acceptable.

**Codecs.** `Payloads` writes and reads the payload of every frame the program
sends, in the source's order of fields, with `Radix` values of a byte. With a
`Radix` of 8 a frame has at most 62 bytes and a short string or argument reaches
the limits that take 255 or 65535 bytes in the code; the header keeps its 16
bytes. `U8` to `U64` are the numbers of values of one to eight bytes; the casts
(`as u16`) are `% U16`; what the code checks is in `FieldFits` and
`PayloadFits`. `Sendable` is what the frames given to the codec are assumed to
be: records of the fields of their type, with the types the Rust structs give
them, and, as nothing checks the length of a payload without arguments, texts of
the handshake and of errors that fit a frame. `AsRead` is the payload with its
headers as a map: their order on the wire is that of a `HashMap`. `FrameCodec` lets every read return any number of
the bytes that have arrived; `Decode` is one call of `TFrameIdCodec::decode`.

**Pool and network.** In `Network` a message is one frame (`Multiplex` has the
rest), and what matters is who holds a connection. `put` is the return of a
connection to bb8: it goes to the first waiter, untested, or to the idle ones;
`has_broken` being false, nothing is looked at. `without(q, e)` is the queue `q`
without its element `e` (a queue has it at most once). `GetIdle` takes the oldest idle
connection and, with `test_connection`, sends the ping, which bb8 0.8.0 awaits
without a timeout; only waiting for a connection times out (`GetTimesOut`).
`Connect` and `Verify` are `ConnectionManager::connect`, which bb8 runs in a
task of its own. `SendersDropped` is the condition under which `FrameSender`
ends: the `Connection` and each call's `FrameOutput` hold a Sender, so calls
keep a retired connection open. At the peer `Fail` is an error of
`handle_connection`; a `PingRequest` is one for this crate's server
(`ReadPing`). The peer may be this crate or another implementation, of the same
version or not. `ResetBacklog` is the end of a listener: connections it has not
accepted are reset, those it has go on. `Disconnect` breaks a TCP connection.

The definitions called a *seeded fault* in their comment are not part of the
model: each is a plausible wrong version of the definition after it and is used
to make sure that a property can fail.

## 3. The runs

`tlc -config X.cfg M`, with the module `PROJECT.json` names. All of them finish
within a minute, `Network` in about three. Deadlock checking is off: a message that was read and a
connection whose calls have all returned really stop. That nobody is stuck
before that is what `EventuallyRead` and `EveryCallReturns` check.

| Run (cfg) | Instance | Properties | Result |
|---|---|---|---|
| `FragmentSmall` | frames of 26 bytes, three arguments of 0..11 bytes, two schemes | type, `FramesWellFormed`, `FailsOnlyWhenTight`, `RoundTripUnlessTight`, `BytesConserved`, `NoArgumentSplit`, `JsonIntact`, `AcceptedOnlyIfSent`, `EventuallyRead` | hold |
| `Multiplex` | 3 calls, one unsendable; requests of 2, responses of 2 and 3 frames; 3 server tasks | `PendingMapped`, `ResponseMatches`, `IdsReleased`, `AnsweredMeansQuiet`, `EveryCallReturns` | hold |
| `Faults` | 2 calls, all handler answers, cancellation, disconnection | `PendingMapped`, `ResponseMatches`, `RequestIntact`, `IdsReleased`, `ImplementsService` | hold |
| `IdReuse` | 3 calls, 2 ids, one cancellable call, one unknown endpoint | type, `SameIdOnly`, `ReadOnce` | hold |
| `Registry` | 3 users, 2 services, 2 addresses, 1 endpoint; users symmetric | `HandlersReachable`, `OnePoolPerAddress` | hold |
| `Codec` | bytes of 8 values; a frame of every type and size class between two others, stream cut and broken anywhere | `FramesIntact`, `BufferIsPartial`, `AllFramesArrive` | hold |
| `Network` | 2 sends (one may be dropped), a pool of 1 connection, 2 connections opened, 2 server tasks, 5 combinations of peer and connection test, all faults | type, `VerifiedBeforeUse`, `NoOrphanServer`, `SendsReturn`, `SocketsReleased`, `AddressReleased` | hold |
| `RoundTripReal` | frames of 65534 bytes, 56 bytes of fields, 19 lengths around both capacities | `RoundTrip` | violated |
| `SlotsExhausted` | 2 calls, requests of 2 frames, 2 server tasks | `EveryCallReturns` | violated |
| `IdWrapAround` | 3 calls, 2 ids | `PendingMapped` | violated |
| `Restart` | 2 server tasks | `StartedServerListens` | violated |
| `LostAnswers` | 2 sends, 1 connection, this crate on both sides, handlers may fail | `LostAnswersAreErrors` | violated |

**Why the bounds are enough.** In frames of 26 bytes the first frame has 6 and a
continuation 8 bytes for arguments with their lengths; arguments of up to 11
bytes begin and end at every offset of a frame and span three frames. Lengths
enter the code only through comparison with the room left, so that larger frames
add no case; `FailsOnlyWhenTight`, `FramesWellFormed` and `RoundTripUnlessTight`
are proved for every frame size, and `RoundTripReal` has the code's own. Channels and wires
of one frame are the tightest the code allows (`mpsc::channel` panics on 0), so
that every wait for room happens; larger buffers only remove waits. Messages of
two and three frames have a first, a middle and a last one. Three calls give a
third party to every conflict of two; two ids for three calls make the first
and the third share one. Three users race for a key while one has it already
(the number of values is not bounded: it is that of the keys). In `Network` two
sends over a pool of one connection make one wait for the other, be handed its
connection or time out; the second connection is opened after the first was
retired, refused or failed its test. Two server tasks allow a restart while the
aborted task still listens and while connections of the first are in use.
`MaxServers` and `MaxConns` are bounds in guards; a connect beyond `MaxConns`
fails, as it may in any case when no server listens. Of the peers, another
implementation of the same version answers untested connections as this crate
does, and one that refuses is told apart from one of another version only by the
text of the error. In `Codec` three frames are enough for a read to end in, at
and behind a boundary with a frame before and one after.

**What the violations show.** Each is recorded in `PROJECT.json` with the line
of the repository it contradicts.

1. `RoundTrip`: an argument that ends 0 or 1 byte before the end of a frame
   is joined with the next one, or followed by an additional empty one, by
   `add_first_arg`. `RoundTripUnlessTight` shows that this is the only case in
   which a message changes.
   In the same situation an empty argument is Complete even if its length does
   not fit, and `encode_args` refuses the message (65455, 0 and 0 bytes, for
   one); `FailsOnlyWhenTight` shows that `encode_args` refuses nothing else. What
   happens to a tight message is bounded by `BytesConserved` and
   `NoArgumentSplit`: no byte is lost and no argument becomes two, and a
   `JsonMessage` is refused rather than changed (`JsonIntact`). A `RawMessage` is
   returned with its arguments joined.
2. `SlotsExhausted`: when `server_tasks` requests have begun and none is whole,
   the connection stops for ever. `Multiplex`, with a task more than sendable
   requests, shows that the slots are what it takes: the read lock held across
   `send` and full buffers in both directions do not stop the system by
   themselves.
3. `LostAnswers`: when a connection ends nobody tells the sends that wait on
   it, as nothing closes their channels. The end of a connection takes no
   network failure: the error of one handler ends the connection of every call,
   and so does the ping of `test_connection`, for which this crate's server has
   no answer. `SendsReturn` shows that the loss of the connection is the only
   reason for which a send does not return: handed over, retired, refused or
   cancelled connections are not.
4. `IdWrapAround`: after 2^32 ids, `register` overwrites the Sender of a waiting
   call before it refuses the new one. (The code has a second way to lose an
   entry, which this run's trace does not show: the second `close` of a finished
   call removes that of a call that has registered the id since.) What still
   holds then is in
   `IdReuse`: frames reach readers of their own id only (`SameIdOnly`), each at
   most one of them (`ReadOnce`). That a message is put together from the frames
   of one call does *not* hold with four calls of one id. Call A has its
   answer and has closed once; C registers and sends its request; A's second
   close removes C's entry, so that C ends without an answer while its
   response of two frames is on its way; E registers, and C's own closes
   remove the entry of E, whose response loses its first frame; F registers,
   and is given the first frame of C's response and the last of E's as its own.
   Handlers can be given the frames of two requests in a similar way. This is
   read off the code and the model, not shown by a run.
5. `Restart`: a server started before the runtime has dropped the aborted one
   cannot bind; `start_server` has returned Ok, and answers "Server already
   started" until `shutdown_server` is called.

One more divergence needs no run: `convert` (`handler.rs:79`, `Frames.convert`)
answers `MessageError` with `ResponseCode::Ok`, so that the caller gets it as
an ordinary message, while `messages/mod.rs:29` says that it "arrives as
HandlerError::MessageError". The model does what the code does, and no property
here would tell the difference.

**Fairness.** `MessageTransfer.Fairness` is weak fairness of each loop: the
fragmenter is a terminating loop, and tokio polls a reader whose channel is not
empty. `Multiplex.FairSpec` asks only that *some* step of `Progress` happens
while one is possible. Every step moves a call, a task or a frame forward and
none can be repeated for ever, so no fairness of a lock, a channel or a
particular task is needed. `Lifecycle.FairSpec` lets the runtime poll every
spawned task and drop every aborted one. The fairness of `Progress` includes
that handlers return. Cancellation and disconnection are never forced.
`Network.NetFairSpec` is of the same kind as `Multiplex.FairSpec`: some step of
the client, the peer or the runtime happens while one is possible; sends,
connections and server tasks only move forward, so the state graph has no cycle
and this is enough. Retirement, faults, `start_server` and `shutdown_server` are
never forced. For the same reason `SendsReturn` and `SocketsReleased` can speak
of the end (`<>[]`) where one would otherwise write a leads-to for every send.
`FrameCodec.FairSpec` is weak fairness of the writer and of the reader.

## 4. The proofs

`tlapm M.tla` checks them, in one to a few minutes each. Every theorem is about
the specification TLC checks, for all values of its constants. The inductive
invariants were checked with TLC on small instances before they were proved.

**Induction over data.** The library states induction for an operator, which the
provers cannot instantiate. `Induction.SetInduction` states it for a set: a set
with 0 and the successor of each of its numbers has all of them. It follows
from the well-foundedness of `<` on the natural numbers (`WFMin`, about sets
too). With it, what a recursive function computes is proved as follows: a
function that satisfies the recursion is shown to exist, two of them agree on
every argument, so that the `CHOOSE` behind the definition is that function.

**One message (`Fragmentation_proofs`).** Assumed: a first frame has room for its
fields and more than the length of one argument (`FragmentationAssumption`).

* `FragmentationInvariant`, from which follow `CreateFramesFailsOnlyWhenTight`
  and `FramesAreWellFormed`. The invariant `FragInv` ties the bytes of the frame
  to the room left (`size + limit` is the payload of a frame until an argument
  does not fit) and the number of pieces in the frame to the arguments left, by
  state of `create_frames`; neither property is inductive alone, as an error
  depends on how the frame was filled.
* `TransferInvariant`, from which follow `TransferTypeCorrect` (`TypeOK`),
  `OnlySentIsAccepted` (`AcceptedOnlyIfSent`) and `DefragmentInvertsFragment`
  (`RoundTripUnlessTight`). Let `o` be what the reader will have put together
  from the frames made so far and the one being filled, and `a` what
  `ArgsFragmenter` still has. As long as no argument is tight, `o` and `a` make
  up the message in one of two ways: the cut is between two arguments
  (`Clean`) or inside one (`Cut`), and `create_frames` ends a frame that is not
  the last only in the second case, which is the one `add_first_arg` assumes when it
  continues an argument. An argument that ends with its frame is the case in
  which the code confuses the two; it is harmless for the last argument
  alone, which is then followed by an empty fourth one. Lemmas about
  `add` and `PushFront` show that each step of the sender keeps `Clean` or
  `Cut`. The reader is tied to the sender by `Flow`: the channel holds the
  frames that were delivered and not read, and `out` is what `add` makes of the
  ones before. "What `add` makes of the first n frames" would be a
  recursion; the invariant says instead that there is a function `D` with
  `D[0]` empty and `D[n] = add(D[n - 1], ...)`, and each step extends the witness.
* `NoByteIsLost` (`BytesConserved`), tight messages included. `SenderBytes` says
  that the bytes in what the reader will have put together and those
  `ArgsFragmenter` still has are those of the message: `add` may give a piece to
  the wrong argument, but it keeps the sum. That the sums of the prefixes `D[n]`
  grow with n, so that a reader that stops early has no more than the message,
  is an induction.
* `BoundaryInvariant`, from which follows `ArgumentsStayWhole`
  (`NoArgumentSplit`), also for a tight message and for a reader whose channel was
  closed. On the sender's side (`CutInv`), what `ArgsFragmenter` holds behind its
  front is a run of whole arguments to the message's end, and so is all of it
  once a piece of the frame has ended its argument. A piece that starts a new argument at
  the reader is either not the first of its frame, so that the one before it was
  Complete, or it is empty, so that nothing is left of the front; in both
  cases the bytes the reader has by then (`SenderBytes`) are those of whole
  arguments. A piece that goes on with an argument moves no boundary. With it goes
  that the first argument is empty only if the message's is: a first frame has
  room for a byte of it (`FragmentationAssumption`). Of "for every prefix of the
  frames" only the definition of `D` above is needed, which is unique
  (`PartialsUnique`).
* `JsonArrivesIntact` (`JsonIntact`), from the same invariant. An accepted
  message has a second and a third argument that are not empty. Three
  boundaries in a row, of which the last has bytes behind it, can only be those
  before the method name, the headers and the body, the first argument not
  being empty unless the method name is. The third argument, beginning where the
  body does, is the body.

**One connection.** The number of calls, lengths of messages, capacities,
handlers, faults and cancellations are arbitrary. Some theorems assume `NoWrap`,
more ids than calls, without which `IdWrapAround` refutes `PendingMapped`.

Without `NoWrap`, that is for every reuse of ids:

* `Multiplex_proofs`: `MultiplexTypeCorrect`, type correctness of both sides and
  the wires, and `FramesKeepTheirId` (`SameIdOnly`). The invariant `IdInv`: every
  frame on a wire, in a channel or with a dispatcher bears the id its call
  has taken, the two maps lead from an id to a call or task with that id, and a
  call never changes its id.
* `Responses_proofs`: `HandOverInvariant` and `FramesReadOnce` (`ReadOnce`). What
  a reader has read, what is in its channel and what the dispatcher waits to
  hand over is what was given; the invariant says that no frame was given twice and that the frames of a call in the pipe (below) are in order
  and later than all those of the call that were given, to whomever. Then
  dispatching the head of the pipe gives something new, whoever the map leads
  to. `HandledOnce`, that a handler runs at most once for a call, needs only the
  states of a task: a later frame without a task to go to is refused by
  `read_beginning` before a handler is looked up.

With `NoWrap`:

* `Multiplex_proofs`: `PendingCallsStayMapped` and `FinishedCallsAreReleased`.
  The inductive invariant `MapInv` adds that the counter has counted the calls
  that started and that their ids differ: the second `close` of a call can then
  not remove the entry of another.
* `Requests_proofs`: `RequestInvariant` and `RequestsAreIntact`
  (`RequestIntact`). The frames on the wire, in the writer's hands and in its
  channel are looked at as one sequence, the pipe: writing does not change
  it, sending appends to it, dispatching takes its head. `RequestIntact`
  speaks of the handler only; what makes it inductive is that the pipe holds
  frames of started calls with their ids (`RequestFrames`), each call's in
  order (`InOrder`) and without a gap between what was dispatched and what was
  sent (`RequestsComplete`). Hence the head of the pipe is the next frame of
  its call, and as ids are unique (`MapInv`), the map of the server leads it to
  the task of that call and of no other.
* `Responses_proofs`: the same for the other direction, with the difference that
  frames for a call that no longer listens are dropped, so that completeness is
  claimed only of calls that still listen, while the connection is up.
  `ConnectionInvariant` is the inductive invariant of the whole connection. From it follow `ResponsesMatch`
  (`ResponseMatches`), `AnsweredIsQuiet` (`AnsweredMeansQuiet`) and
  `ServiceImplemented`: the refinement of `RpcService`, step by step. Each
  action of the connection is shown to be the step of the abstract service that
  its effect on `pc`, `runs` and `result` is, or a stutter; that a
  handler runs at most once, only for a call that was submitted, and before its
  call is answered is where the invariant is needed.

**What a TChannel shares.**

* `Registry_proofs`: `HandlersAreReachable` and `PoolsAreShared` for any number of
  users, services and addresses. The invariant adds that nobody holds a value
  that is not in the map, that a handler's owner holds its subchannel and that
  values are numbered below the counter.
* `Network_proofs`, its first part: `NoServerEscapes` of `Lifecycle` for any number of
  restarts; the invariant adds that tasks not spawned yet do not run.

**Codecs (`FrameCodec_proofs`).** Assumed: a byte has more than 4 values
(`PayloadsAssumption`; with fewer, two bytes could not hold the length of a
header) and frames are `Sendable` (`FrameCodecAssumption`). Otherwise the frames, their
number, and where reads end and the connection breaks are arbitrary.

* Numbers. `put` writes the remainders of n shifted by one byte after the other,
  and `get` builds the same shifts again from the first (`GetShifts`); nothing
  is lost if nothing is left of n after w shifts (`Fits`), which holds below the
  w-th power of `Radix` (`OneByteMore`).
* Fields and payloads. For each kind of field: decoding what was encoded, with
  any bytes behind it, returns the field and those bytes (`ReadString`,
  `ReadTracing`, `ReadChecksum`, `ReadHeaders`, `ReadArgs`). `FlattenSeq` is
  looked at through its suffixes (`FlattenSuffixes`): after i parts the i-th
  suffix is left. Headers, arguments and the fields of a payload are loops
  that take off one part after the other, so that each is an induction over the
  suffixes. `ReadPayload`: a payload that `encode` accepts is read as it was
  written. Arguments have no number of their own on the wire; that they end where
  the payload ends is why `ReadArgs` needs the checks of `encode_args`, and that
  a frame fits its 16-bit length why it may compare lengths modulo `U16`.
* `StreamInvariant`: there are T and z such that `T[i]` is what the frames after
  the i-th are on the wire, z the bytes lost with the connection, and buffer, wire
  and z in a row are `T[n]`, n being the number of frames received. A write
  appends to every `T[i]`; a read moves bytes from the wire to the buffer; a
  break moves the wire to z. If `is_buffering` says that the next frame is
  there, the buffer begins with its encoding (`LongerHasPrefix`), and
  `decode_frame` takes exactly that off (`DecodeFrame`). Neither property is
  inductive without this account of the bytes.
* From it `FramesArriveIntact` (`FramesIntact`) with `ReadPayload`, and
  `NoFrameWaits` (`BufferIsPartial`), as a buffer shorter than the next frame is a
  beginning of it (`ShorterIsPrefix`).

**Pool, handshake and server (`Network_proofs`),** for any number of sends,
connections, server tasks and `max_connections`.

* `NetworkInvariant`: connections not opened are nowhere (`UnopenedInv`); what is
  in a queue of the pool is there once and in the state of that queue
  (`QueueInv`); a connection that is given out has one holder (`HoldersInv`);
  what is only done with a verified connection (`VerifiedInv`); and
  connections in the pool and approvals add up to at most `max_connections`
  (`CapacityInv`).
* From it `NetworkTypeCorrect` (`NetTypeOK`, where the number of approvals being
  bounded takes the capacity count), `ConnectionsAreVerified`
  (`VerifiedBeforeUse`; that a send may use a connection handed to it as a
  waiter, without a test, takes the queue and the holder parts) and
  `PoolKeepsItsLimits`.
* `NetworkImplementsLifecycle`: every behaviour of the network is one of
  `Lifecycle`, so that `NoServerEscapesNetwork` (`NoOrphanServer`) is
  `NoServerEscapes` with clients and connections beside the server.

**Only model-checked.**

* `EventuallyRead`, `EveryCallReturns`, `SendsReturn`, `SocketsReleased`,
  `AddressReleased`, `AllFramesArrive`: liveness, out of reach of the backends.

Every invariant and every action property that a run finds to hold is also a
theorem.

## 5. Not modelled

* `errors.rs`, `config.rs`, `lib.rs`: declarations and conversions between error
  types. Errors are told apart only where a caller does so; the fields of
  `Config` are CONSTANTS (`BufferSize`, `ServerTasks`, `MaxConnections`) or
  chosen in the initial state (`testing`).
* `Cancel` and `Claim` payloads, which nothing sends or reads; checksums other
  than None, for which the code has `todo!()`; Thrift, which is unimplemented.
  The codec of the `Checksum` field itself is in `Payloads`.
* UTF-8, the content of headers, tracing and TTL (their encoding is in
  `Payloads`, and the code makes no decision with them); logging.
* Name resolution (`first_addr`), which fails before anything is changed.
* Panics of handlers. Arguments of 2 GiB and more, whose length the code casts
  to `i32`.
* bb8 beyond what `pool.rs` configures: its lock is a step, its retries of
  `connect` are one success or failure, and `min_idle` is not set by the code.

## 6. Plan

Done: message transfer with raw and JSON messages, both sides of a connection,
the abstract service, the registry, the life cycle, the codecs, and the network
of pool, handshake, tests and server. Proved: every safety property the runs
check, with the refinements of `RpcService` and of `Lifecycle`. What could
follow:

1. A composition of `MessageTransfer` with `Multiplex`, so that the content of
   a message and the frames of several calls are in one specification.
2. The liveness of a connection, should a prover for `ENABLED` be at hand: the
   argument is that every step of `Progress` moves a frame, a call or a task
   forward and that, with a slot for every request, some step is possible until all
   have returned.
3. A corrected `register` and `close` as a variant of `Connection`, of which the
   theorems under `NoWrap` would hold with reused ids.
