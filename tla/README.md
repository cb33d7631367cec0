# openmvci in TLA+

openmvci is a user-space J2534 PassThru library for Mini-VCI adapters. An
application calls `PassThru*` functions; a process-wide registry resolves its
handles to drivers; a driver talks to the adapter through a transport (USB or
a serial node); a UDS client for vehicle diagnostics is built on top of the
same entry points. This directory holds a TLA+ model of it, the TLC runs that
check the model on small instances, and TLAPS proofs for all instances.

Run everything from this directory:

    tlc -workers 2 -config MCRegistryHandles.cfg MCRegistry.tla
    tlapm RegistryProofs.tla

Every run ends within five minutes on two cores; the proofs take a few
minutes from nothing. Paths below are relative to the repository.

## Inventory

| Component | State | Operations | Interacts by |
|---|---|---|---|
| Entry points and registry, `src/api.cpp` | device and channel maps, two handle counters, `registryMutex`, a thread-local error text | open, close, connect, disconnect, read, write, start and stop of periodic messages and filters, ioctl, voltage, version, last error | one mutex held for the whole call; owns the drivers |
| Compatibility names, `src/mvcicompat.cpp` | none | forwards | calls the entry points |
| Driver, `src/driver.cpp` | channels, periodic messages, filters, three counters, a transport | the same operations, per device | called under the registry mutex; calls its transport |
| Packet codec, `src/packet.cpp` | none | encode, decode | called by the driver |
| Dispatch, `src/platform/*_transport.cpp` | the chosen transport | open tries USB or serial nodes, the rest forwards | owns a USB or serial transport |
| Serial transport, `src/platform/serial_transport.cpp` | descriptor, open flag, ready flag, current rate, receive buffer | open, close, write, read, clear; bootstrap, fallback, recovery, tickle, keepalive | recursion: an I/O error recovers, recovery bootstraps, a bootstrap does I/O |
| USB transport, `src/platform/usb_vci.cpp` | handle, endpoints, mode and ready flags, receive buffer | discover, claim, bootstrap, read, write, clear | libusb |
| Frame resynchronisation, `include/mvci/platform/frame_resync.hpp` | none (works on a caller's buffer) | extract one frame | called by both transports |
| UDS client, `src/uds.cpp` | the set of channels whose filters are installed | send and collect responses, DTCs, VIN, clear | calls the entry points, no lock of its own |
| Tools, examples, tests | none | straight-line callers | |

What is hard about it:

* the two levels of channel identifiers, and the cascade of `close`;
* several application threads, one mutex held across blocking reads, a
  thread-local error text read without the mutex;
* recovery of a lost device in the middle of any read or write, the
  bootstrap's own included, which bootstraps again: a recursion whose levels
  share the descriptor, the ready flag and the rate;
* rates and control-line modes tried one after the other, with the
  descriptor able to disappear at each step;
* responses that arrive late, out of order, for another channel, or while a
  keepalive waits for its acknowledgement;
* a byte stream that has to be cut into frames again after corruption.

What makes each component correct:

* Registry: a handle names one channel of one driver, for as long as it is
  open and never again; nothing dangles and nothing leaks; each thread reads
  its own error.
* Driver: identifiers are unique on a device; a read delivers the frames of
  its channel and accounts for the others; counts returned are what happened.
* Serial session: ready means the adapter behind this descriptor acknowledged
  a handshake; no ICVM packet outside a session; strict means strict; the
  fallback is exhaustive and leaves the port where the adapter is; every call
  returns.
* Streams: frames are delivered whole, in order, and at most the corrupt
  ones are lost.
* UDS: a response is used for the request it answers; a failure is reported.

`PROJECT.json` lists the components with their status, and the hazards at
their lines with the properties that would catch them.

## Plan

Modules, in order (* written):

1. * `J2534`, `DriverTables`, `PassThru`, `Registry`, with `MCRegistry` and
   `RegistryProofs`, `RegistryRefinementProofs`: handles, identifiers, mutex,
   error text; the abstract interface and its implementation.
2. * `SerialSession`, with `MCSerialSession` and `SerialSessionProofs`: the
   session of the serial transport.
3. * `ChannelIO`, with `ChannelQueues`, `MCChannelIO` and `ChannelIOProofs`: the
   message loops of `Driver::read` and `Driver::write` for two channels on one
   stream, and the queue per channel they implement.
4. `SerialRead`: the receive stream with tickles and keepalives that read it
   too, and recovery in the middle of a frame.
5. * `FrameResync`, with `MCFrameResync` and `FrameResyncProofs`: the extraction loop under any
   chunking, against a reference that looks for frames by position.
6. * `UsbVci`, `PlatformTransport`, with `MCPlatformTransport` and
   `PlatformTransportProofs`: discovery, claim, bootstrap and write over USB,
   and the dispatch between the bus and the serial nodes.
7. * `UdsClient`, `DtcReader`, with `MCDtcReader` and `DtcReaderProofs`:
   requests, late and negative responses, filters on first use, DTCs, VIN,
   clearing, and the command line reader.
8. Liveness of the mutex when calls block.

`Selections` and `SequenceLemmas` serve them all. Every invariant and every
refinement that a passing run checks has a theorem; what comes next would need
its module first (4), or has no proof here (8).

## The modules

### J2534, DriverTables, Registry, PassThru

`Registry` models `api.cpp`: `drivers` is `devices_`, `channels` is
`channels_`, and the counters, the mutex and `lastErrorBuffer` keep their
meaning. A call is three steps: `Enter` (the thread waits for the mutex),
`Acquire`, and one action that is the whole handler, ending in `Return`, which
records the status and frees the mutex, as `recordResult` under `lock_guard`
does. `PassThruGetLastError` is `GetLastError`, with no mutex, and it resets
the text of the caller, as the code does.

`DriverTables` models the tables of `driver.cpp`: a driver is a record; each
operation is a status operator and an operator for the driver it leaves, with
the checks in the code's order (the message before the channel for periodic messages, the
channel before the messages for filters). Periodic messages are stored and
never sent and filters stored and never applied in the code, so the tables
hold identifiers. The message loops of `read` and `write` change no table;
here they are the set of statuses they may return, and `ChannelIO` has the rest.

`PassThru` is what an application may rely on: devices, channels with a rate
and two sets of identifiers, handles never issued twice, calls that happen one
at a time. `Registry!Promise` instantiates it with a refinement mapping that
looks a channel's data up in the driver under its internal identifier. A
registry that mixed up two channels, reused an identifier or left a binding
behind would not implement it.

### ChannelIO, ChannelQueues

`ChannelIO` models the loops of `Driver::read` and `Driver::write`, over a
serial or a USB transport chosen at the start. `wire` holds the frames the
device has sent, `inbox` the whole frames in `rxBuffer_`. A read is a call with
its locals: the messages copied out so far (`out`), whether its deadline has
passed, and the timeout it last gave the transport (`remaining`). A round is
`NextRound` and then what the transport does: `Take` and `Skip` a buffered
frame, read a `Chunk`, `TimesOut`, `ReadFails`, `EmptyTransfer`. The two
transports differ in what they make of no time left. `Swallow` is an exchange
of the serial session that reads frames and throws them away. `ClearRx` is the
ioctl: the serial transport empties its buffer and what the line holds, the USB
one reads and throws away as many frames as have come. A write sends its
messages one by one; the application goes on behind what a failed call counts.

`ChannelQueues` is the promise: a queue for each channel, of the frames that
reached `rxBuffer_`. `ChannelIO!Promise` maps the queue of the channel being
read to the frames copied out but not reported, followed by its frames in the
buffer, so a call that fails with the wrong count loses or repeats a frame of
the abstract queue.

`Selections` has `Picked`, the part of a sequence at given indices, in the order
of the sequence. `ChannelIO` and `ChannelQueues` take it where the
library has `SelectSeq`, which is recursive and takes its test as an operator,
so that nothing could be proved about it.

### SerialSession

Models the session half of `serial_transport.cpp`. The code recurses, so the
state has `stack`, the frames of the running call: `Open`, `Write` or `Read`
at the bottom, then `Fallback` (bootstrapWithFallback), `Bootstrap` (bootstrap
with its attempt and stage) and `Recover` (tryRecoverDevice) as often as they
nest. `ret` is what the callee that just returned answered. `fdOpen`, `open`,
`miniReady` and `currentBaud` are the code's; `port` is what the line is
really set to, `booted` the setting at which the adapter last acknowledged a
whole handshake through the descriptor in use (both are the model's, for the
properties), and `adapter` is where the adapter answers.

Faults are a reply that does not come, an I/O error recovery does not take, a
loss from which the node comes back (`Recover`), a loss from which it does not
(`LoseForGood`), and, with `PortRefuses`, a failing tcsetattr; `MaxFaults`
bounds them in a behaviour. After a loss the reply to the request that was out
may be missing without a further fault. Writes are ICVM packets, as every
packet the driver encodes is; a write or read of one unit is one exchange.
Time is abstract: a read lasts some number of quiet intervals (`MaxQuiet`); a
tickle that is not due yet is the same step as one that is answered.

### FrameResync

Models `tryExtractMvcIFrame` and its callers. One pass of the loop is an
action, one for each way it may end: `TooShort`, `NoMagic`, `ShortHeader`,
`ShortPayload` (the loop returns false), `Deliver` (it returns true),
`Oversized` (it goes round again with one byte less). Around it a transport
reads again (`Read`), appends a chunk and tries again (`Receive`), or clears
the buffer between reads (`Clear`). `received` is the stream since the last
clear and `delivered` the frames returned since then; the code keeps neither.
The magic, the header and the size field keep their roles, at the lengths the
constants give them. `FramesOf` is the reference: the frames of a stream, found
by position, with no buffer and no loop: from a place in the stream, the next
magic (`NextStart`), the end of the frame there if all of it has come (`NextEnd`,
`Complete`), and on from that end.

### UsbVci, PlatformTransport

`UsbVci` models `usb_vci.cpp` but for its reads, which are in `ChannelIO` and
`FrameResync`. `handle`, `claimed`, `miniVciMode` and `miniVciReady` are the
code's fields. A device is a place in the list libusb returns; `opened` counts
the handles libusb has open, those of candidates that are looked at and
rejected included. `call` has the locals of the open or write that runs:

* the search, `openUsb` and the three functions it calls: `Skips`, `Opens`,
  `Rejects` and `Accepts` are the ways the loop over the list may take with one
  device, `NextPass` takes the list again for the next ID or, at last, for a
  keyword, `NotFound` ends it;
* `claimInterface`: `ClaimFails`, `Claims`;
* `initializeMiniVci`: `StartsAttempt` with its flush, then `Sends` and
  `HearsReply` for each of the messages, `HearsAnother` for replies read while
  another is waited for, `SendFails` and `NoReply` for what ends an attempt,
  `BootstrapEnds` for what open and write make of the result. The reply to the
  first message is two status bytes, with which the replies to the others may
  begin, so any late reply may be taken for it or not (`FitsStage`);
* the packet: `Transfers`, `TransferFails`. `writeRaw` looks at the handle and
  not at the claim, so a packet may also go out through an interface that could
  not be claimed, for the system to refuse or let pass.

Beside the code there are the devices: `taken` is how far the adapter of each
got with the messages of a bootstrap, `pending` the replies it has sent and
nobody has read. Messages and replies may be lost. A read brings any number of
replies, and those behind the one that was waited for are lost with it.
`Pulled` and `PluggedIn` may come between any two steps. A device that was
pulled forgets, and no handle opened before works again.

`PlatformTransport` models `createPlatformTransport` of the three platforms: on
Windows the USB transport alone, on Linux and macOS the dispatcher, with
`inner` for `inner_`. The loop over the serial nodes is `NodeOpens`,
`NodeFails`, `NoNodeLeft`, which the Linux dispatcher enters for any selector
that begins with the ID of a Mini-VCI (`mini`, a test of the text) and the macOS
one for an empty selector only; an open closes what was open first, a call is
forwarded to what was opened. That a node opened is what the serial
transport's `open` returned; its descriptor may be lost by then. What a serial
node does once it is open is in `SerialSession`.

### UdsClient, DtcReader

`UdsClient` models `uds.cpp`. `initialised` is its static set of channels;
`request` has the locals of `sendUdsRequestWithId`, `responses` the vector it
fills, `op` the operation of `uds.hpp` it runs for, or the cycle of the command
line reader, which opens no session and retries nothing. `MarksChannel` and
`StartsFilter` are `ensureObdFlowControlFilters`, `Writes` and `WriteFails` the
request (one that failed may have arrived), `Collects`, `TimesOut` and `ReadFails` the
loop that collects, with `Deadline` for the time that passes. What the operations make of the responses is in
`SessionDone`, `RetriesPhysically`, `TriesObd` and `Returns`, over the parsers
`DtcsIn`, `ObdVinIn`, `DidVinIn` and `ClearedIn`.

At the other end of the channel are the ECUs: `asked` has the requests each
has to answer, and `Grants` and `Denies` answer one, at any time, also long
after the request has ended, also repeatedly. Nothing in a response says which
request it is for, except its service, and an OBD VIN is a set of parts, by
whichever ECUs they were sent. `past` and `tried` are histories, for
the properties.

`DtcReader` adds the callers: an application that connects, disconnects and
begins operations as it likes, or `main` of `dtc_reader.cpp`, with its options,
its loops and the cleanup at each of its exits.

## The runs

| Run | Instance | Shows |
|---|---|---|
| registry_handles | one thread, 2 devices, 3 channel handles, 1 identifier of each kind, one rate | handles resolve, do not alias, do not leak, stay stale; counters stay ahead; PassThru is implemented |
| channel_io | both transports, 2 channels one after the other or together, 3 frames, 3 messages of which one is too long, 2 messages to a call, 1 failed write | ImplementsChannelQueues, PollDrainsBuffer, WrittenInOrder, SerialReadReturns |
| frame_resync | every stream of up to 8 bytes over 4 values, in chunks of 1 or 2; magic of 2 bytes, header of 4, payloads of 0 or 2 | ChunkingIrrelevant, BufferBounded, LoopEnds |
| serial_faults | 2 rates, 3 modes of the adapter, 2 attempts, 2 faults of any kind, nothing strict but the open | ReadyMeansBooted, PacketOnlyInSession, StrictOpen, CallsReturn |
| serial_rates | the code's 4 rates, 3 modes and 3 attempts, stages strict, 1 fault | FallbackFindsAdapter, ConfiguredRateKept |
| uds_client | serial line, 2 ECUs of which one has a code and one knows two services, 2 filters, 2 channels, VIN of 2 frames, 1 failed transfer, one request kept by an ECU and one frame by the adapter, 2 responses to a request, 2 operations or `main` with any options | FiltersFirst, RetryOnlyOnSilence, DtcsAreFresh, ClearMeansCleared, ExitsClean, OperationReturns |
| usb_link | buses of up to 2 devices of 6 kinds, 1 serial node, 3 platforms, 5 selectors, 3 settings of the environment, the code's 3 attempts and 3 messages, 2 replies unread, 1 fault | OneLink, FirstUsableWins, OpenKeepsPromise, ReadyMeansBooted, StrictMeansBooted, CallsReturn |
| serial_probed_rate | no fault | a violation, below |
| serial_linux_rate | no fault, standard rates only | a violation, below |
| serial_reopen | 1 fault | a violation, below |
| usb_poll | USB, 1 frame | a violation, below |
| usb_selector | Linux only, otherwise as usb_link | a violation, below |

Bounds. Two devices are needed for two drivers to give out the same internal
identifier; three channel handles for two on one device and one on another,
or for a handle to be closed and another opened later. A handler is one step
under the mutex, so a second thread adds nothing that this run could tell; what
threads have of their own, the error text, is left to the proofs, which are for
any number of them. Two faults are needed
for a fault inside a recovery; a third adds a level of nesting but no new pair
of frames. Two attempts show a retry; the code's three are used where one
fault leaves room. The handle counters stop at their bound, so a registry run
may stop and its deadlock check is off; the serial ones never do.

Eight bytes hold two frames, noise before a frame with a payload, or a corrupt
header with a frame's magic inside it, and chunks of one and two bytes cut each
of them at every place; a payload of two bytes may be a magic itself. The four
byte values are the two of the magic, which are oversized sizes, and the two
legal sizes. A magic whose beginning repeats inside it is not covered: the
code's has four different bytes. When the stream is full it can still be
cleared or read, so nothing stops.

In channel_io two frames for one channel with one of the other between them
take three frames, and a third is needed behind a read of two that fails. With
all channels disconnected and none left to connect nothing more is called, so
its deadlock check is off.

In uds_client two operations let an answer to the first arrive in the second,
and two channels let a channel find the other's mark. A request that an ECU
keeps and a frame that the adapter keeps are enough for an answer to be late or
out of order with another ECU's; a third response to one request would add
nothing a parser tells apart from two. Two filters and two VIN frames are the
least that have an order. An application may stop after its last operation, so
the deadlock check is off.

In usb_link two devices are one to pass by and one to take, in either order;
the kinds differ in each of the things the search looks at (ID, serial,
keyword, endpoints, whether it opens) and in what follows (claim, bootstrap).
The selectors are one of each kind, and two that name a device, one of which is
written as the Linux dispatcher looks for it. One fault is one device pulled at
any step, one transfer that fails or one message that is lost; replies that are
lost or do not come in time are no faults and may be as many as the attempts
allow. With two replies unread a late reply stands in front of the one that is
waited for, or comes with it in one read; a third only adds to what is behind. Bigger buses and more
faults are what the proofs are for.

Fairness. `FairSpec` of `ChannelIO` asks that a call that has begun is carried
on (`Step`: plain code, and waits that end when there is something to wait for)
and that deadlines pass. It asks for no frame, no error and no empty transfer:
a read must return without them. `Spec` of `FrameResync` has `WF_vars(Pass)`: the loop is plain code
with nothing to wait for. `ReaderSpec` of `DtcReader` asks that the thread of
the client runs on (`Progress`) and that a request's deadline passes; it asks
for no answer, and ECUs may refuse for ever. That the last read of a request
ends (`TimesOut`) it asks over a serial line only, where a read with no time
left returns; over USB it need not (see usb_poll), so `OperationReturns` is
claimed of the serial line alone. `Spec` of `PlatformTransport` asks that
a call is carried on: every transfer has a timeout, and `UsbMeets`, the bus, is
left out of it. `FairSpec` of `SerialSession` asks that a call that has begun is
carried on (`WF_vars(Step)`): it is ordinary code in the caller's thread, and
each of its waits has a timeout. It does not ask that calls are made, or that
the adapter answers. `CallsReturn` depends on the bound on faults: a device
that is lost for ever again keeps `writeBytes` recovering for ever.

Each property of a passing run has a mutant in `PROJECT.json`: an operator
just before the one it replaces, marked "Mutant", that a plausible slip in the
code would amount to and that breaks the property.

## Findings

* `bootstrapWithFallback` puts the port back to the configured rate after a
  success at another one, when the control-line mode is the preferred one
  (`src/src/platform/serial_transport.cpp:868`). README.md:169 announces the
  probing of other rates; a session found there is lost at once. Run
  serial_probed_rate. With an alternate mode the rate is kept.
* Off macOS a rate outside six standard ones becomes 9600, the default
  500000 included, with STATUS_NOERROR and `currentBaud_` as asked
  (`:289`). README.md:154. Run serial_linux_rate.
* The comment at `:475` has the node reopened when the first bootstrap closed
  the descriptor. When that happens in the post-bootstrap script, which is
  tolerated by default, the bootstrap reports success and nothing is
  reopened: open succeeds on a closed descriptor. Run serial_reopen.
* `Driver::read` passes the time it has left to the transport, 0 when it has
  none or less than a millisecond. For libusb 0 means no timeout
  (`src/src/platform/usb_vci.cpp:677`), so a read over USB, in particular one
  that has just dropped a frame of another channel, waits until the device
  sends something, with the registry mutex held; so does a poll. The UDS
  client counts on its short timeouts (`src/src/uds.cpp:181`). Run usb_poll.
* `README.md:104` has `--device vid:pid[:serial]` name a device. On Linux a
  selector that begins with a Mini-VCI's ID has every serial node tried first
  (`src/src/platform/linux_transport.cpp:55`), and the first that opens is kept,
  whatever its ID and serial. Run usb_selector.

### Seen while modelling

These are not runs, being no state the code gets wrong by its own standard, or
a matter of wording; a maintainer may want to know of them:

* The comment at `src/src/uds.cpp:109` has the functional ID 7DF flow-controlled
  by 7E8; no such filter is among the eight.
* `README.md:121` has the VIN read by 09 02 when 22 F1 90 fails, in the read and
  monitor modes; `runVinReadCycle` of `dtc_reader.cpp` sends 22 F1 90 only.
* A negative response of three bytes is shorter than the DTC parser looks at
  (`src/src/uds.cpp:272`): a read whose only answers are such responses succeeds
  with no codes. A late `7F 10` of the session request fails a clear, for all
  the comment at `:188`.
* An OBD VIN of which a frame is missing is returned as a success, and so is one
  made of the parts of two ECUs (`src/src/uds.cpp:390`).
* `README.md:165` has a write rejected while the adapter is not initialized;
  over USB it is, in strict mode only.
* On Windows a node's
  name falls to the discovery on the bus. A name whose part before the colon
  parses in half (`0584:zz`) changes the default ID for what follows.
* When the claim fails the handle stays open until the next close, and no other
  candidate is tried. `miniVciMode_` is not set then, so a write that follows
  skips the bootstrap, in strict mode too (`src/src/platform/usb_vci.cpp:656`). USB has no recovery of a device that was pulled.

## What is proved

`RegistryProofs` proves, for any set of threads, any bounds and any set of
rates, with no assumption beyond `BoundsAssumption` (the bounds are positive
naturals) and `ThreadsAssumption` (no thread is the free-mutex marker):

* `TypeCorrect`, `HandlesResolve`, `HandlesDoNotAlias`, `NoChannelLeaks`,
  `CountersStayAhead`: the five invariants that registry_handles checks;
* `StaleHandles` and `ErrorTexts`: two action properties. The second is
  `ErrorTextIsThreadLocal`, about threads that contend for the mutex, which no
  run checks.

The argument is the inductive invariant `IInv`, the conjunction of the five.
None of them is inductive alone: a connect keeps `NoAliasing` only because
the new internal identifier is past every one in use (`CountersAhead`), a
disconnect keeps `NoOrphanChannel` only because no other handle reached the
channel (`NoAliasing`), and nothing preserves the tables' types without
`BindingsResolve`. Each operator of `DriverTables` has a lemma that it keeps
the driver's own part of the invariant and the channels it had; each action
of `Registry` has a lemma that uses them; `NextIInv` collects these.

`RegistryRefinementProofs` proves from the same, and from `RatesAssumption`
(there is a baud rate), that `Registry` implements `PassThru`:

* `Refinement`: `Spec => ImplementsPassThru`, for any number of threads.

Initial states map to initial states. Every call maps to the call of the same
name: a refusal to a report, a delegated call to an update of the one channel
its handle names (`DelegateShown`, which needs `NoAliasing`), `Start` to an
identifier no channel of the device uses (`NextIsFree`, which needs
`CountersAhead`), and open, close, connect and disconnect to themselves.
`Enter` and `Acquire` map to stutters (`MutexStutters`).

`FrameResyncProofs` proves, under `FramingAssumption` (a magic that fits the
header, a size field inside it, natural sizes and bounds), for any byte
values, sizes and chunks and streams of any length:

* `TypeCorrect`: the types of `FrameResync`;
* `Bounded`: `BufferBounded`. `TypeOK` and `BufferBounded` are inductive
  together; the argument is one case for each way out of the loop. It rests on
  `LeastNatural`, since the magic that is taken is the first one;
* `ReturnsTheFrames`: `ChunkingIrrelevant`, the reads return the frames of the
  reference.

`ChunkingIrrelevant` speaks only of the moments at which a read has to wait. Its
invariant, `ChunkInv`, speaks of all, and of every stream that begins with what has
been received: the buffer is what follows a place `Base` of the stream; the frames
of the stream, whatever comes after it, are those delivered and those that begin
behind `Base`; and when a read waits, no frame behind `Base` is complete. Bytes that
are dropped can be no part of a later frame: that is what the loop must see to when it
keeps the last bytes of a buffer without a magic, and when it steps over a
corrupt header by one byte (`PassedOver`, `NoStartThere`).

`DtcReaderProofs` proves, for any ECUs and whatever each of them knows and
stores, any number of filters, VIN frames, channels and failures, from
`EcusAssumption` and `UdsBoundsAssumption`:

* `TypeCorrect`; `AsksForFiltersFirst`, `RetriesOnSilence`, `ReadsAreFresh`,
  `ClearsAreReal`, `MainExitsClean`: all invariants uds_client
  checks.

The types are inductive. Beside them `FilterInv` says how many filters of a
channel that is marked were asked for at each place of a request; `HeardInv`
that a functional request which was answered has responses and that the other one
begins in silence; `ServiceInv` which service
a request may have in which operation; `MeaningInv` that a frame with a code, or
a clear response, in the queue or collected, is of an operation that was not
quiet, or tells the truth; `ResultInv` carries this to what is returned. They
are shown for the steps of the client, and `CallersObey` that `DtcReader` calls
it no other way; `MainInv` says what `main` has open at each of its places.

`PlatformTransportProofs` proves, for any devices on the bus, selectors, known
IDs, nodes, attempts, messages, replies and faults, from `KindsAssumption`,
`UsbBoundsAssumption` and `PlatformAssumption`:

* `TypeCorrect`, `HoldsOneLink`, `FindsFirstUsable`, `KeepsPromise`,
  `ReadyIsBooted`, `StrictIsBooted`: all invariants usb_link checks.

`OneLink` needs what the place of a call says of handle and flags (`LinkInv`).
`ReadyMeansBooted` is not inductive, as late replies of an attempt may take the
place of those of the next one; `BootInv` is: every reply that is pending is to a
message the adapter has taken, and so is the one to the last message, which ends
the bootstrap; what is taken for the reply to the first message does not matter.
`SearchInv` says that a device which was
there all the time is in the list of every pass and its handle works, so that it is
rejected for what it is; no pass is left out but a second one for the same ID.
`AskedInv` says which selectors get an open as far as the nodes or the bus, and
`PromiseInv` of an open on its way what `OpenKeepsPromise` says of one that has
returned. `OpenKeepsPromise` lets a serial node stand for a selector that nodes
are tried for; what README.md promises beyond that fails in run usb_selector.

`SerialSessionProofs` proves, for any rates, control-line modes, attempts and
faults and any depth of bootstraps and recoveries inside each other, from
`SessionAssumption` (rates are not 0, modes are modes, bounds are naturals):

* `TypeCorrect`, `ReadyIsBooted` (`ReadyMeansBooted`), `PacketInSession`
  (`PacketOnlyInSession`) and `StrictIsBooted` (`StrictOpen`);
* `FallbackIsExhaustive` (`FallbackFindsAdapter`);
* `RateIsKept` (`ConfiguredRateKept`), for a port that does not refuse a rate
  (`~PortRefuses`).

A run reaches a few losses, and so a stack of a few recoveries; the proof has no
such bound. Its invariant says who may stand on whom on the stack (`Shaped`), and
of the flags (`FlagInv`) that an answer "ok" comes with the ready flag, that a
write which talks to an open descriptor is ready, and that without bootstrapping
nothing but a read runs. `PacketOnlyInSession` does not follow from the flag
that `write` looked at when it began: a recovery has reset it since. It follows
because the exchange is at the top of the stack again only after the recovery
on it returned, with "ok" or without a descriptor.

`FallbackFindsAdapter` is about a search without a fault. There no recovery runs,
and a bootstrap that fails was not answered. `SearchInv` says what a search
has behind it: each rate is still on the list of the running mode, or is the one
being tried, or cannot be the adapter's under this mode; each mode is still on its
list, or is the running one, or was gone through at every rate. So nothing is
left when both lists are empty. A write begins a search at the configured rate,
since a port that is not ready has not been left at another one.

`ConfiguredRateKept` holds with any number of losses. `RateInv` says of each
fallback on the stack, whatever runs above it, that the rate it goes back to is owed
to its caller: to open and write the configured rate; to a recovery that interrupted a
bootstrap whose second acknowledgement was heard, the adapter's; to one that
interrupted a read or a write, one of the two. The hypothesis is the setting of the run and is needed: if
tcsetattr fails when the fallback gives up, the port stays at the last rate it tried.

`ChannelIOProofs` proves, for any numbers of channels, frames, messages and
failures and for either transport, from `ChannelBounds` (they are naturals):

* `TypeCorrect`, `PollsDrain` (`PollDrainsBuffer`) and `WritesInOrder`
  (`WrittenInOrder`);
* `QueuesRefined`: `Spec => ImplementsChannelQueues`.

That a read stores no message past the end of the caller's array needs that the
loop looks at its count before each call of the transport, and that nothing but
a `Take` adds to it (`RoundHasRoom`). `WrittenInOrder` is not inductive: nothing
in it keeps a message that has arrived from being sent again for nothing.
`RetryIsPaidFor` is what is missing: when the next message has arrived already,
there was one more failure than there are repetitions.

The refinement is shown a step at a time: frames that reach the buffer, one that is
taken or skipped, a call that returns, the calls that begin and end, and the steps
the queues do not see. It needs that frames still on the wire are numbered past
all that were received and are for channels that were connected by then
(`WireIsNumbered`), and what `Picked` makes of a sequence that grows at its end or
loses its head.

`SequenceLemmas` has what these proofs keep needing: that a set of naturals has a
least element, induction for a set (`Induction`), that the function `Picked` is
defined by exists, and what it gives. The library's induction takes the predicate as
an operator, which no prover here can do; a set of the numbers that have the property
serves instead, in `PickedDefined` and, for the frames of a stream,
`FramesDefined`.

Only model-checked: the liveness properties (`CallsReturn`, `SerialReadReturns`,
`LoopEnds`, `OperationReturns`), since fairness and ENABLED are out of the prover's
reach, and the five violations.

## What is not modelled

* Packet codec (`packet.cpp`): sequential packing of bytes at fixed offsets,
  with no state. Compatibility names: each forwards to the entry point of the
  same name. `mvci_probe`: a tool that opens a serial port of its own and shares
  no code with the library. Trace tools, examples and tests are not part of it.
* In the serial transport: the contents of the receive buffer while tickles and
  keepalives read it (`ChannelIO` has only that they swallow frames) and across
  a recovery, a packet that is continued after a loss, the decoding of
  obfuscated frames, and which node a re-enumerated adapter is found under.
* In the UDS client: two threads on one channel, or in the set of channels at
  once, which is a data race; codes, VIN characters and frame layouts.
* In the USB transport: descriptors and endpoint addresses, a bus whose list
  cannot be read, and a flush that is kept busy by a device that never stops.
* Everywhere: strings, names and versions, and the wrap of the 32-bit counters
  (a process would have to open 2^32 - 1 handles).
