# TLA+ models of libext-go

libext-go connects *extensions* (peripheral drivers, container runtimes) to a
hub. The hub runs `server.Server`; an extension runs a `Client` and a
`Controller` with a handler. This directory models the concurrent core of both
sides, checks it with TLC on small instances and proves its safety properties
with TLAPS.

## The system and its parts

| part | source | module | status |
|---|---|---|---|
| extension session: commands, responses, timeouts, keepalive | `server/extension.go`, `server/extension_util.go` | `ExtensionSession` | modelled, proofs |
| extension registry: handlers and names | `server/server.go`, `server/extension.go` | `ExtensionRegistry` | modelled, proofs |
| stream and packet listeners, server `Close` | `server/server.go`, `server/conn_stream.go`, `server/conn_packet.go` | `Listeners` | modelled, proofs |
| handshake and framing | `server/conn_base.go`, `client.go`, `codec/` | `Handshake` | modelled (the encodings are not), proofs |
| controller and channel bundles | `controller.go`, `channel_bundle.go`, `extutil/handler.go` | `Controller` | modelled, proofs |
| client stream | `client.go` | `ClientStream` | modelled, proofs |
| what a stream promises its controller | `client.go`, `controller.go` | `StreamContract` | abstract specification |
| runtime stream output | `extruntime/handler_stream.go` | `StreamOutput` | modelled, proofs |
| what the numbers of a stream promise its receiver | `extruntime/handler_stream.go` | `NumberContract` | abstract specification |
| stream manager, stream input, port forwarding | `extutil/streaming.go`, `extruntime/handle_action.go`, `extruntime/handler.go` | `RuntimeStreams` | modelled but for TTY resize, proofs |
| peripheral handler | `extperipheral/handler.go` | `Peripherals` | modelled, proofs |
| runtime commands (pods, images, info) | `extruntime/handler_*.go` | | dispatch only |
| message constructors, types | `protoutil/`, `types/` | | not modelled |

On the hub an endpoint accepts connections (`Listeners`), reads the register
message and changes to the codec it names (`Handshake`); `handleNewConn` looks
up the manager for the kind and name (`ExtensionRegistry`), and the manager's
`HandleStream` registers the name and runs the session (`ExtensionSession`). On
the extension a loop calls `ProcessNewStream(RefreshChannels())` again and
again; `handleSession` serves one pair of channels after the other
(`Controller`), and two goroutines move commands and messages between the
channels and the connection (`ClientStream`). Commands go to a handler:
`Peripherals`, or the runtime handler, whose operations read input from the
stream manager (`RuntimeStreams`) and send output from goroutines of their own
(`StreamOutput`) through the send function the controller gave them.

`PROJECT.json` maps every definition that models code to its lines.

## Modules

**ExtensionSession.** One session. `pc[c]` is a call of `SendCmd`, identified
with its `msgWaitValue` (`msgCh`, `closed`, `working`); `msgWait` is the
`sync.Map`, `tq` the timeout queue as a set of armed entries; `wpc`, `tpc`,
`rpc`, `hpc` are the writer, timer, receiver and handler goroutines; `ctx` and
`groupErr` the errgroup, an error named by where it came from (a failed PING and
a closed `keepaliveCh` both return `io.ErrUnexpectedEOF`; the first is a failure
of the connection here). Each access to shared state is a step of its own: the
timer's load, close and delete, the three parts of a call's deferred cleanup,
and the spin lock of `msgWaitValue`. The receiver holds that lock over several
steps; `close` holds it within one step, because nothing in it blocks. Keys
(`id`, `seq`) are opaque; `KeyOf` says which calls share one. Time is
abstracted: an armed entry may be delivered at any moment.

**Controller.** Bundles are numbered, closed channels are sets of bundles.
`RefreshChannels` is split where it waits (sending on `chRefreshed`) and where
`channelBundle.Close` closes its two channels. A `select` is a disjunction of
its ready cases; a send on a closed channel is such a case and, like a second
close, sets `panic` to what was done to which bundle, after which nothing
moves. Workers are goroutines a handler starts for
asynchronous commands. `faults` is chosen in `Init` from `FaultSets`: which of
failed dials, marshal errors, cancellation and `Close` can happen. Streams are
seen from their channels only.

**ClientStream.** One call of `ProcessNewStream`. The writer and the reader are
split at every channel operation, `Encode` and `Decode`, and their deferred
functions: the writer closes the connection, the reader closes `keepaliveCh`
and then `cmdCh`. `GroupReturn` is the errgroup. A read error is one of the
kinds `checkNetworkReadErr` tells apart.

**StreamContract** is the abstract specification of one stream and the owner of
its two channels: a stream fails before it starts, or moves commands and
messages, closes `cmdCh` once, after the last command, and only then returns;
the owner closes `msgCh` once, and no message meets it closed before the stream
is over (`LateSend`). `misuse` makes the panics visible. `ClientStream`
implements the contract (`Contract`, with `phase` computed from where
`ProcessNewStream` is; its own sends and closes are guarded steps, so a misuse
of `cmdCh` would be a step the contract does not have), and so does
`Controller` for each of its bundles, with its abstract stream steps and, as
`misuse`, its panics. So what `Controller` assumes of a stream is what the
client does, and what the client assumes of the owner is what `RefreshChannels`,
`handleSession` and `sendMsg` do. A session that fails closes its bundle without
the mutex; `KeepsContract` of `Controller` excepts the panics that follow.

**Listeners.** A stream and a packet endpoint under `Server.ListenAndServe`,
`Close` from another goroutine endpoint by endpoint, and the packet sessions
with their pipes: `connections` is the `sync.Map` by address, `lx` the session
the read loop is writing to, and the deferred close and delete are two steps.

**Handshake.** The bytes from the extension to the hub as tokens: register
message, newline, size, body, JSON value. The decoder of `validateConnection`
reads any number of tokens from the register message on, and what it read is
gone. A `Write` is a unit: a connection that breaks within one is not modelled.
On a packet connection tokens are datagrams that get lost and overtake
each other. `patient` says that the extension waits for a first command, a
hypothesis that nothing in the code enforces (`SendMsg`, `types/handler.go`, may
be called at any time), `whole` that the newline is read together with the register message.

**StreamOutput.** `nextSeq` is split into its load and the rounds of its
compare-and-swap loop; uploaders read, number and send; `Main` is
`handleStreamOperation` with its deferred close, wait and last message.
Numbers are `uint64` in the code and `Nat` here: 2^64 messages are out of
reach. `iohelper` is external: a reader sees the end of its pipe once it is
closed and empty. `preRun` is nil in every caller.

**NumberContract** is the abstract specification of those numbers: taking one is
a single step, each is used for one message, and the last message takes the
last number when all others are used. `StreamOutput` implements it (`Numbers`):
the successful compare-and-swap is the step that takes a number, `Held` are the
numbers of goroutines about to send.

**RuntimeStreams.** The session goroutine dispatches operations and writes
input; an operation adds its stream under the spin lock (`lock`), runs, and
removes whatever has its sid. The sequence queue of `arhat.dev/pkg` is
modelled from its use: input in any order, handed over in order, closed after
the number of an empty one. The `Write` into a full pipe blocks. The delayed
close of a port forwarding keeps the integer division of the code.

**ExtensionRegistry.** `Handle` is one step (it holds the lock); the two lookups
of `handleNewConn`, the missing endpoint configuration and the registration are
steps of their own. An extension may have the empty name. `resolved` is a
history variable: what the table said between the two lookups.

**Peripherals.** Calls of `HandleCmd`. Every access to the map, `Connect` and
`Close` is a step. In this repository `handleSession` calls `HandleCmd` from one
goroutine, one command at a time; the model also lets calls overlap, an
over-approximation that the `sync.Map` and the `LoadOrStore` after `Connect` are
written for. `serial` says that no CLOSE overlaps other commands for its id, as
is the case under `handleSession`.

`MC*.tla` give the constants values. Definitions such as `TimerSkipClose` that
are not used in `Next` are faulty variants of the definition that follows them;
`PROJECT.json` names the property each one breaks.

## Runs

| run | instance | holds |
|---|---|---|
| `SessionCalls` | 2 calls, own keys, 1 message per key, handler may return; 1.3M states | `NoStrandedWaiter`, `NoSpuriousTimeout`, `NoLeftovers`, `RoutedByKey` |
| `SessionEnds` | 2 calls with the same key, waiting or not, 1 message, cancellation, write errors and the handler returning; 1.9M states | `NoSendOnClosed`, `CleanExit` |
| `SessionLive` | 1 call, 2 messages, `Close`, fairness | `FullChannelIsRead`, `CallReturns`, `KeepaliveContinues`, `ShutdownCompletes` |
| `Controller` | 1 worker, 3 bundles, `Close` with failed dials or with marshal errors and cancellation, fairness | `LiveStreamIsOpen`, `OfferNeedsOpen`, `OldCommandsClosed`, `KeepsContract`, `LateSendReturns`, `BundleServed`, `RefreshReturns` |
| `Client` | one stream, every fault, fairness | `LocalEndIsClean`, `KeepsContract`, `StreamEnds`, `MessagesTaken` |
| `Output` | 2 uploaders, 3 chunks, drops, cancellation, fairness | `LastIsComplete`, `OutputBeforeLast`, `KeepsNumbering`, `LastIsSent` |
| `Streams` | exec, logs and port forwarding with one sid, 2 chunks and a close in any order, fairness | `NothingDeliveredAfterEnd`, `OpenInputIsReachable`, `EofIsComplete`, `BlockedInputReleased` |
| `Peripherals` | 4 calls, 2 ids, 3 connections | `StoredIsOpen`, `NoLeak`, `OperatesOnOpen` |
| `Registry` | 3 connections, two with the same name, one of another kind without a name, 3 `Handle` calls | `RegisteredIsRunning`, `OneStreamPerName`, `LookupIsAtomic` |
| `Listeners` | 2 endpoints, 1 address, 2 sessions, fairness | `RunningIsReachable`, `ServeEnds`, `AddressFreed` |
| `Handshake` | 3 messages, both codecs, both transports | `FramingKept`, `CleanEndIsComplete` |
| `ControllerLateSend` | 1 worker, 2 bundles, no faults | `LateSendIsSafe` is **violated** |

The last run is a disagreement between the code and its comment at
`controller.go:118` ("no return message means async operation, will send message
later"): `sendMsg` selects between `cb.closed` and a send on `cb.msgCh`; once
both are closed it may choose the send, which panics. `KeepsContract` bounds the
damage: that happens to messages whose stream is over, never during a stream.

**Further observations.** These are properties in the modules that TLC refutes
with the constants given; they are not kept as runs.

* `NoStrandedWaiter` with `KeyOf <- OneKey`, `Posts = {}`: a call that reuses
  `(id, seq)` while an earlier one is being cleaned up can lose its map entry
  and its timeout, because cleanup deletes by key. `ReusedKeysAreSafe` (below)
  says which reuse is safe.
* `CallReturns` with `MaxPerKey = 3`: surplus answers make the receiver wait for
  room in `msgCh` inside the spin lock that `close` needs. Two are harmless,
  which `SecondMessageIsHarmless` proves.
* `WaitEnds` (`StallSpec`, one call, no messages): while `Encode` blocks, the
  timer goroutine blocks on `keepaliveCh` and no timeout fires.
* `CloseEndsStream` (`Ends = {"close"}`, silent peer): the receiver stays in
  `Decode`. `OutOfBandIsUnrequested` (one call, one message): a late answer
  goes to the out-of-band handler.
* `RefreshReturns` and `OldCommandsClosed` without their hypothesis on dials:
  after a failed dial nobody closes `cmdCh`, `handleSession` waits on it for
  ever, and a later `RefreshChannels` blocks with the mutex held.
  `KeepsContract` without its exception, with marshal errors: both
  `handleSession` and `RefreshChannels` close the bundle. `LateSendReturns`
  without `ctlClosed`: after `Close` nobody closes the last bundle.
  `ClosedHandlesNothing`: commands are handled after `Close`.
* `NamesAreUnique` (`MaxHandles = 2`): every `Handle` call makes a manager with
  a name table of its own, so "extension with same name (in same kind) should
  never be registered more than once" (`examples/server_example_test.go:132`)
  holds per manager only.
* `CloseEndsServe`: `Close` before an endpoint has stored its listener does
  nothing, and the endpoint then listens. `StoppedSessionEnds`: a packet session
  whose context is done ends with the next message only.
* `EarlyMessagesArrive`: messages sent right after the register message may be
  dropped with the decoder that read it. `NewlineIsHarmless`: the newline after
  the register message, read separately, is a size to the protobuf decoder.
  `DatagramsKeepFraming`: size and body of a protobuf message are two datagrams.
* `InputNeverBlocks`: an operation that does not read its input blocks the
  session goroutine. `InputCloseArrives`: with less than 100 KB in its pipe a
  port forwarding does not close its input at the end of it. `EofIsComplete`
  for streams no longer in the table: an operation whose `Add` fails because its
  sid is in use removes the stream that uses it (`handle_action.go:219`, "close
  this session locally"), and that operation sees an early end of its input.
* `NeverLeaks`: overlapping CLOSE and CONNECT of one id would lose a connection;
  `handleSession` does not overlap them.

**Bounds.** Two calls are the least that interfere. One message per key covers
on time, late and absent; two cover the full buffer of `msgCh`. Two bundles
suffice to close an old one, three to fill `chRefreshed` behind a busy session.
Two uploaders and `Main` are all that share a counter in the code. Three
operations with one sid let one fail its `Add`, remove a second and be followed
by a third; two chunks and a close arrive in every order, and a pipe for one
chunk fills. Two sessions of one address follow each other. Four calls on a
peripheral id are a connect, its rival, an operation and a close. Three `Handle`
calls allow a specific handler, its replacement and a general one during a
single lookup. `MaxPerKey`, `MaxRefresh`, `MaxWrites`, `MaxHandles`, `MaxSeq`,
`MaxMsgs` and the finite sets of calls, connections, sessions and handles are
the only bounds. The theorems below hold for all values of them.

**Deadlock** is checked except in `Controller` (failed dials wedge the
controller, as described), `Streams` (when all input has arrived and all
operations are over, nothing is left to do) and `Handshake` (a decoder waits for
bytes that do not come).

**Fairness.** Goroutines that can run do (WF). Where goroutines compete for a
channel, Go queues the waiters, and a `select` chooses at random among ready
cases, so a case that is ready again and again is taken (SF). The timeout queue
delivers by deadline (SF per entry). A handler returns when its context is
done, as those of the examples do. `FairSpec` of the session adds that `Encode`
ends, i.e. the peer reads or the connection breaks; `StallSpec` does not. In
`Listeners` receivers read what arrives. In `RuntimeStreams` the runtime's
`Exec`, `Attach` and `PortForward` return, but an operation may run for ever
and never read. Nothing is assumed of the peer's messages, of how long a
connection lasts, or of when the runtime's `run` returns.

## Proofs

Each proof module states an inductive invariant, shows that the initial states
satisfy it and that each action keeps it, and derives the properties. The
assumptions are the named `ASSUME`s of the modules on their constants.

`ExtensionSessionProofs`, for any sets of calls and keys:

* `TypeCorrect`: `TypeOK` always holds.
* `SendIsOpen`: `NoSendOnClosed`. The strengthening `LockInv` says the spin lock
  is taken exactly while the receiver is in `send`, on a value not closed.
* `ExitIsClean`: `CleanExit`. `GroupInv` ties the end of the timer goroutine to
  the context: it closes `keepaliveCh` only when the context is done, and then
  an error is recorded or the parent was cancelled.
* `WaitersCanBeWoken`, `TimeoutsAreOwn`, `CallsLeaveNothing`: with distinct keys
  (`UniqueKeys`) `NoStrandedWaiter`, `NoSpuriousTimeout` and `NoLeftovers` hold.
  `WaitInv` is a part about the map and one about each call: it follows the timer
  goroutine from taking an entry to deleting its key; in between the call has
  started, has no other entry, and is closed before the key goes.
* `ReusedKeysAreSafe`: the same three under the weaker hypothesis that
  `KeysTakeTurns` in every state. A key may be used again once the call before
  has left `sendCmd`, provided the timer goroutine is not between load and delete
  of that key. The first half a caller can ensure, the second it cannot see: that
  is the window of the observation above. Distinct keys are a special case
  (`OwnInv`: the timer goroutine gets to a key after its call has armed it).
* `MessagesAreRouted`: `RoutedByKey`, for repeated keys too. `RouteInv` adds that
  every value is in the map under its own key, and that the value the receiver
  holds was found under the key of its message.
* `SecondMessageIsHarmless`: `FullChannelIsRead`, for repeated keys too. With at
  most two messages for a key, and a live context, a receiver that waits for room
  in `msgCh` inside the spin lock waits for a call that has yet to read.
  `CountInv` says of a call whose value is open: what it has taken, what is in
  its channel and what the receiver holds for its key are no more than the peer
  has sent for that key. `BoxInv` adds that a value the receiver can reach is
  closed once its call is past `close`.

`ControllerProofs`, for any number of bundles and workers and any faults:
`OffersAreSafe` (`OfferNeedsOpen`), `StreamsAreCurrent` (`LiveStreamIsOpen`),
`OldBundlesEnd` (`OldCommandsClosed`) and the refinement `BundlesKeepContract` (`KeepsContract`). The invariant says
that the mutex keeps `Close` out of `RefreshChannels` (`LockInv`), which bundle
the loop works on (`LoopInv`), that bundles not handed over are known to nobody
(`FreshInv`), which bundles can be closed at each point (`CloseInv`), and which
command channels are (`CmdInv`). For the refinement `HandedInv` adds that the
session and its handler only have bundles that were the current one, or are
about to be: one they find closed is then older than the current bundle, and its
stream is over.

`ClientStreamProofs`: the refinement `ContractKept` (`KeepsContract`) and
`LocalEnds` (`LocalEndIsClean`). The invariant says where the goroutines are in
each phase, when `cmdCh` is closed, and that as long as the connection is not
lost the goroutines and the errgroup have no error other than `io.EOF`.

`StreamOutputProofs`, for any set of uploaders:

* `SeqIsFresh`: `NumbersAreUnique` and `NeverAhead`. `NumberInv` says all numbers
  handed out are below the counter, and each is sent, lost, final or held.
* `LastMessageIsLast`: `LastIsComplete`, from `NumberInv` and `PhaseInv` (when
  `Main` takes its number all uploaders are done).
* `NoOutputAfterLast`: `OutputBeforeLast`, from `PhaseInv`.
* `NextSeqIsAtomic`: the refinement of `NumberContract` (`KeepsNumbering`). Sends
  remove exactly one held number because numbers are unique, and the last
  message finds its number to be the only one held.

`RuntimeStreamsProofs`, for any operations, sids, amounts of input and pipes:
`EndedGetsNothing` (`NothingDeliveredAfterEnd`, an action property),
`OpenStreamsAreReachable` (`OpenInputIsReachable`), `InputIsComplete`
(`EofIsComplete`), all for operations that share sids and remove each other's
streams. `TableInv` says when a stream can be in the table, under its own sid
only, and that the sid stays free while `create` runs; `InputInv` that while an
operation is in the table every number handed over has been written to its pipe,
which is closed only when all have been; `EndInv` that an operation without an
entry has its pipe closed, or never had a stream that anybody could hold.

`PeripheralsProofs`, for any calls, ids and connections: `MapHoldsOpen`
(`StoredIsOpen`), `NothingLeaks` (`NoLeak`), `OperationsAreSafe`
(`OperatesOnOpen`). The invariant says that connections not made yet are nowhere
(`FreshInv`), that one not stored belongs to one CONNECT and a stored one to one
id (`OwnerInv`), and what a serial hub excludes (`SerialInv`).

`ExtensionRegistryProofs`, for any connections, kinds, names and number of
`Handle` calls: `NamesAreExact` (`RegisteredIsRunning`), `NamesAreExclusive`
(`OneStreamPerName`), `LookupsAreAtomic` (`LookupIsAtomic`). Between the lookups
the general entry is always one of the resolved ones: `Handle` either replaces
it, which resolves to the new one, or leaves it.

`ConnectionProofs`, about `Listeners` for any endpoints, addresses and sessions:

* `SessionsAreReachable`: `RunningIsReachable`, since an address is only entered
  when it is free, and freed only by the session that holds it.
* `EntriesAreGivenBack`, an action property: an entry never passes from one
  session to another, and only its own session removes it, having closed its
  pipe.
* `LoopCanContinue`: whenever the packet loop waits for room in a pipe, the
  session of that pipe reads, is about to close it, or has closed it. This is the
  safety part of `AddressFreed` and `ServeEnds`.

and about `Handshake` for any number of messages:

* `OrderlyFraming`: `FramingKept`; `OrderlyEnd`: `CleanEndIsComplete`. What an
  orderly extension sends is one sequence of parts, two per message, and
  `Consumed` is the hub's position in it. `WireInv` says that the `i`-th part on
  the wire is the one at position `Consumed + i`, `ProgressInv` relates the
  position to the decoder's state and to the messages delivered, `GreetingInv`
  says that nothing follows the register message before the hub has read it,
  and `DatagramInv` what a JSON session over datagrams has to read.

Only model-checked: the liveness properties. Fairness is out of the prover's
reach.

## Not modelled

* Runtime commands for pods, images and info: the handler calls the runtime
  engine and converts the result; there is no state. Their dispatch is `Start`
  of `RuntimeStreams`, their asynchronous reply a worker of `Controller`.
* TTY resize: two numbers handed to the runtime.
* The encodings of JSON and protobuf and the pool of byte buffers: library
  code, and buffers are written before they are read.
* `protoutil` and `types`: constructors and interfaces.
* DTLS endpoints accept connections as a stream endpoint does.
* An out-of-band callback that itself calls `SendCmd`.
