# VirtualCaptureStream in TLA+

VirtualCaptureStream carries a live capture from one process to another. In the
first process a DirectShow sink filter (`CVirtualStreamSink`) takes the samples
of a capture graph and writes them into Windows named pipes, one per pin; in the
second a source filter (`CVirtualStreamSource`) opens the pipes and looks like a
capture device. Both stand on the DirectShow base classes, which the repository
has in source (`src/libs/DirectShow/DSBaseClasses_VC8`, "the base classes" below).

This directory holds TLA+ models of the two filters, of their pins and of the base
classes that have states, threads or protocols of their own; TLC configurations
that check them on small instances; and proofs, for instances of every size, of
the safety properties that matter most.

## 1. Inventory

### The system's own code (`src/src`)

| component | state it keeps | operations |
|---|---|---|
| sink input pin, `VirtualStreamSinkInputPin.*` | connection, allocator, `m_writeBuffer`, `m_bWriteBuffering`, `m_hThread2`, `m_hPipe`, `m_bPipeServerRunning`, `m_bConnected` | `NotifyAllocator`, `Receive`, `EndOfStream`, `BeginFlush`/`EndFlush`, `BreakConnect`, `StopServer`, destructor; the threads `InstanceThread` (pipe server) and `InstanceWritePipeThread` (writer) |
| sink filter, `VirtualStreamSink.*` | `m_State`, `m_pinList`, `m_pAllocator` (one for all pins), the control pipe and its server thread | `Stop`, `Pause`, `Run`, `AddInputPin`, `SetStreamName`, `InitializePipe`, `PipeOutMediaTypes`, `StopServer`, destructor |
| source output pin, `VirtualStreamSourceOutputPin.*` | `m_hPipe`, `m_bConnected`, `m_bRunning`, `m_fFirstSampleDelivered`, the time base | `FillBuffer`, `ConnectToSinkPin`, `DisconnectPipe`, `Reset`, `Stop`, `OnThreadStartPlay`, `OnThreadDestroy` |
| source filter, `VirtualStreamSource.*` | `m_pinList` and `CSource`'s array of pins | `CreateOutputPins`, `Run`, `Stop`, `GetPin`, `FindPin` |
| property page, registration, trace file | none of interest | |

### The base classes

| component | where | what it keeps |
|---|---|---|
| worker of a source pin | `source.cpp`, `wxutil.cpp` | thread, two events, the command |
| base filter | `amfilter.cpp` | state, clock, graph and the graph's sink |
| pins and their connection | `amfilter.cpp` | the other pin, media type, allocator |
| enumerators of pins and types | `amfilter.cpp` | position, version, the pins given out |
| memory allocator and samples | `amfilter.cpp` | free list, waiting count and semaphore, commit state, reference counts |
| dynamic output pin | `amfilter.cpp` | state of blocking, users, four events |
| output queue | `outputq.cpp` | list of samples and packets, batch, flags of a flush |
| pull pin | `pullpin.cpp` | worker, outstanding requests, positions |
| renderer and quality control | `renbase.cpp` | the sample it holds, advise, end of stream, timer; averages |
| transforms | `transfrm.cpp`, `transip.cpp`, `vtrans.cpp` | two pins' types and allocators; frames skipped |
| commands and seeking | `ctlutil.cpp` | deferred commands, start, stop and rate |
| windows and their control | `winutil.cpp`, `winctrl.cpp` | window, palette, DCs; place, style, owner, rectangles |
| images and display formats | `winutil.cpp` | DIBs, bitmaps, palettes and their version; the display's format |
| lists | `wxlist.cpp` | chains of nodes, the cache of nodes |
| stream control | `strmctl.cpp` | plan of starts and stops, the event a sample waits for |
| reference clock and schedule | `refclock.cpp`, `schedule.cpp` | private time, list of advises, the advise thread |
| message threads | `wxutil.cpp`, `msgthrd.h` | queue, semaphore, waiting count |

### How they interact

```
 upstream thread ──Receive/EndOfStream──▶ sink pin ──m_writeBuffer──▶ writer thread
 application ──connect, state, flush────▶    │                            │ WriteFile: info, bytes
                                             └─server thread──▶ named pipe ◀┘
                                                                   │ ReadFile
 application ──Pause/Run/Stop──▶ CallWorker/Reply ──▶ source pin's worker ──Deliver──▶ downstream

 sink filter ──server thread──▶ control pipe ──catalogue──▶ source filter ──▶ its pins
```

`m_pinLock` serialises most calls on a sink pin. The server thread, `EndOfStream`
and `StopServer` take no lock, and two waits happen with it held: `BreakConnect`
waits for the writer, and `StopServer` called inside `Receive` for the server.
Source and sink share nothing but the pipes. Application and worker of a source
pin share two events and a handful of flags read and written without locks. The
base classes call each other through pins: a sample is got from an allocator,
passed through transforms or an output queue, perhaps held by stream control, and
rendered when the clock says so; control calls come from the application's thread
and must get through while all of these wait.

### What is hard here

Threads that are stopped by a flag, a wake-up and a wait of ten seconds that ends
in `TerminateThread`; a lock held across such a wait; a sample that is two
messages; a pipe either side may close at any moment; a flag (`m_bConnected`) that
two threads believe in; the two-event handshake of the worker; a catalogue that is
sent from a list the application changes; waiting counts that are kept under a
lock and waited for outside it; references given back after the unlock; flushes
that have to overtake the samples they flush; counters that wrap.
`PROJECT.json` lists the hazards one by one, each at its line, with the properties
that cover it.

## 2. Modules

Each component is a module of its own. `MC...` modules make the instances TLC
checks, `...Proofs` modules hold the theorems.

| module | what it is |
|---|---|
| `NamedPipe` | operators on one instance of a Windows message pipe, shared by pins and filters (external: written from the calls and error codes in `src/`) |
| `SampleChannel` | abstract specification: a FIFO channel that may lose samples |
| `SinkPin`, `SinkPinProofs` | one sink input pin with its five actors |
| `SourcePin`, `SourcePinProofs` | one source output pin: application, worker, downstream filter, the sink as environment |
| `SinkFilter`, `SinkFilterProofs` | pins, shared allocator, states, control pipe and catalogue |
| `SourceFilter` | the pins made from a catalogue, against a caller that looks for one |
| `FilterState` | `CBaseFilter`: `Stop`, `Pause`, `Run` with pins that may fail, clock and graph |
| `PinConnection` | `Connect`, `ReceiveConnection`, `Disconnect` on both sides, every call a derived class overrides may fail |
| `EnumPins`, `EnumMediaTypes` | the enumerators over lists that change |
| `MemAllocator` | `CBaseAllocator`, `CMemAllocator` and the reference counts of samples, with any number of threads |
| `DynamicPin` | blocking a pin that is in use, and changing its type |
| `OutputQueue`, `OutputQueueProofs` | `COutputQueue` with and without a thread, exact and other batches |
| `PullPin` | `CPullPin` over a reader that may hang, fail and cancel |
| `Renderer` | `CBaseRenderer`'s receive path, end of stream, flushes and states |
| `VideoQuality` | `CBaseVideoRenderer`'s decisions and statistics |
| `VideoTransform` | `CVideoTransformFilter`: locks, flushes, frames skipped up to a key frame |
| `TransInPlace` | the types and allocators a transform in place comes to use |
| `MediaSample` | a sample's properties, its copies in transforms, and its release |
| `CommandQueue` | `CCmdQueue`: deferred commands and the clock's advise |
| `Seeking` | `CSourceSeeking`, `CPosPassThru`, `CRendererPosPassThru` |
| `BaseWindow` | a window's thread, messages, palette and end |
| `ControlWindow`, `ControlVideo` | place, style and owner of a window; rectangles and the image of the video |
| `DrawImage`, `ImageDisplay` | DIBs, palettes and image allocator; which formats a display shows |
| `ObjectLists`, `BaseList` | lists of objects (abstract), and the chains of nodes that implement them |
| `StreamControl` | which samples a pin lets flow |
| `ReferenceClock` | the clock over a counter that wraps, its schedule and its thread |
| `MsgThread` | a thread with a queue of messages, and waits that let sent messages in |
| `MCSinkPin`, `MCSourcePin`, `MCOutputQueue` | instances of one component |
| `MCStreaming`, `MCBase`, `MCRendering`, `MCThreads` | instances of several components each; the first two and the last extend `MemAllocator`, `FilterState` and `SourceFilter` |
| `StreamingProofs` | theorems about `MCStreaming`: memory allocator, dynamic pin, renderer, pull pin |
| `ThreadsProofs` | theorems about `MCThreads`: source filter, transforms, window, stream control, clock, message thread |
| `RenderingProofs` | theorems about `MCRendering`: seeking, commands, samples, images, window, video, display, quality |
| `BaseProofs` | theorems about `MCBase`: base filter, connection, enumerators |

Two refinements are checked: `SinkPin` and `SourcePin` implement `SampleChannel`
(`InOrder` in both; also proved), and `BaseList` implements `ObjectLists`
(`ImplementsLists`, in the run `rendering`).

Operators whose comment begins with *Fault:* are not part of a specification.
Each is what an action would be with one plausible mistake in the code; put in
place of the action it makes a property fail, which shows that the property
looks at that action.

### SinkPin

| actor | code | variables |
|---|---|---|
| application thread | `ReceiveConnection`, `NotifyAllocator`, `Stop`/`Pause`/`Run`, flushing, `Disconnect` with `BreakConnect`, destructor | `pcApp`, `connected`, `allocator`, `filterActive`, `flushing` |
| streaming thread | `Receive`, `EndOfStream` | `upstream`, `buffer`, `writeBuffering`, `hThread2`, `runTimeError` |
| `StopServer`, on either | lines 336-372 | `pcStop`, `hPipe`, `serverRunning` |
| server thread | `InstanceThread` | `pcServer`, `bConnected` |
| writer threads | `InstanceWritePipeThread`, `GetNextWriteBufferSample` | `pcW`, `cur` |
| client | the source pin of the other process | `pipe` |

A call that runs under `m_pinLock` is one action. Where the holder waits for
another thread the wait is a state, and `lock` says who holds the lock meanwhile:
this is what makes `BreakConnect` against `GetNextWriteBufferSample` visible.
Code without a lock is split at every read or write of what another thread
touches. A sample is its number and whether it has bytes; it crosses the pipe as
an `info` and, if it has any, a `data` message. `sent`, `torn` and `nextId` are
history.

### SourcePin

The application thread goes through `Active` and `Inactive`; a `CallWorker` is
two actions, request and return. `Reply` is two actions as well, because its
order is the point of the comment at `wxutil.cpp:210`. The worker is a program
counter (`pcW`) through `ThreadProc`, `DoBufferProcessingLoop`, `FillBuffer` and
`ConnectToSinkPin`. `starved` stands for an allocator whose buffers are all
downstream.

The sink is the environment, and does what `SinkPin` allows it: it makes and
closes the pipe at any time, writes an info and its bytes, may begin a connection
with the bytes of a sample whose info went to an earlier client, and its writer
may be terminated between the two (`SinkTerminated`). `torn` records the last two.
`callsFail` says whether the calls on the media sample (`SetSyncPoint` and the
like) may fail; it is chosen at the start and never changes. A read that meets
bytes where it expects an info yields a nonsense info or fails with
`ERROR_MORE_DATA`. `SampleIntegrity` is promised while `Aligned`: no call failed
and no sample was torn. Everything else is promised without that.

### The two filters

`SinkFilter` keeps the order in which `Pause`, `Run` and the destructor stop the control
pipe's server, close its handle and make a new one; the server thread walks `m_pinList`
by index without a lock and writes a message for each connected pin and an empty one at
the end. `SetStreamName` runs on the application's thread in any state: it deletes every
second pin, connected or not, forgets the others, and makes a new one, and the server
comes upon the list in each step of that. What the server reads of a pin that was
deleted, or past the end of a list cut short, is any answer and any pin. A pin deleted
under its connection is `orphaned`: its peer keeps the connection, and the filter an
allocator of it. `SourceFilter` removes the pins it has (`CSource`'s array element by
element and then its count, without the lock), opens the control pipe, which may be
missing, busy or cut off, and makes a pin for each message, while another thread goes
through the array under the lock.

### The base classes

The unit of interleaving is the critical section: a section under a lock is one
action, code between two sections is split where another thread can see it. So in
`MemAllocator` a call of `GetBuffer` is counted under the lock and waits after it;
`Decommit` and the last `ReleaseBuffer` give the allocator's own reference back
after the unlock; `CMediaSample::Release` tests, and then clears or decrements. In
`OutputQueue` a caller holds the lock while the pin downstream blocks, or does not,
by the kind of queue. In `Renderer` `Stop` and `BeginFlush` poll for `Receive` with the
interface lock held. `PinConnection` is a sequence of calls each of which may fail,
since the undoing is the point; between two of them either filter may change its
state, and the input pin may be disconnected. In `Seeking` and `ControlWindow`, which take
no lock, each read of a pointer and each call of the system is an action.
`VideoQuality`, `ImageDisplay` and `ControlVideo` are arithmetic and case distinction:
their values come from small sets that straddle each limit in the code.

### Abstractions

- The waits of ten seconds in the pins and filters end only when the awaited
  thread is stuck: ten seconds are ample for a thread that can run.
- `TerminateThread` stops the thread. What it may leave behind in the heap or in
  a critical section of the C runtime is outside the model.
- Windows serialises calls on one synchronous handle, so a `WriteFile` issued
  while `ConnectNamedPipe` waits on the same handle would wait as well; in the
  model it fails, as it does when no client is connected.
- An uninitialised handle (`m_hThread2`) names no thread of the pin; the
  uninitialised `m_nWaitForKey` is any number up to a bound.
- The upstream filter keeps DirectShow's contract: it stops streaming before a
  disconnection and before it ends a flush, flushes come in pairs, a filter
  is deleted when its pins are disconnected. It may stream into a stopped sink:
  a graph stops the sink first.
- Names, pixels, palettes' colours and most media types are data that no property
  tells apart: they are numbers or members of small sets. Times are in whole units
  of the code's (milliseconds in `VideoQuality`, ticks in `ReferenceClock`), and
  quotients truncate as the code's do.
- Counts and references have the code's width only where it matters: the
  millisecond counters of `ReferenceClock` and `MsgThread` wrap (after three ticks), and
  `VideoQuality` cuts to 32 bits what the code computes in an `int` (`LongMax`).
- One thread of the application makes the calls on a filter, also those of
  `IVideoWindow`: `m_pinList` and a window's style are changed by one at a time. The user,
  the filter and its other threads come in between. A `push_back` that moves the vector
  while the server reads it is taken as one step.
- Where the code uses what is gone (a pin a rename deleted, a pin that `GetPin` found
  just before `RemovePin` took it, the peer that `ConnectedTo` read just before it was
  deleted, the reader of a pull pin that was disconnected although its thread could not be
  stopped), what it reads is any value, and a process that ends there takes no more steps.
- `VideoQuality` takes no frame to last for half an hour, and none to be weeks late; with
  such the code's 32-bit products would overflow (`renbase.cpp:2228-2241`).

## 3. Runs

| run | instance | shows |
|---|---|---|
| `sinkpin_safety` | 3 samples, 2 writer identities, 2 messages in the pipe | types; one writer; the server owns the pipe it uses; framing; nothing left after deletion; the pin implements `SampleChannel` |
| `sinkpin_live` | 2 samples, 1 writer identity, 1 message | `StopServer` and `Disconnect` return; a client that left does not lock out the next; queued samples are taken |
| `sourcepin` | 3 samples, 2 messages | types; bytes stay with their info; Stop leaves nothing behind and a deleted pin no handle; the pin implements `SampleChannel`; Pause and Stop return |
| `sinkfilter` | sink with 3 pins, 2 messages in the control pipe, renames in any state, with connected pins too | the allocator is that of a connection nobody broke; a catalogue read to its end is complete unless a rename cut the list short; `Pause`, `Run`, `SetStreamName` and the destructor return |
| `outputq` | 4 kinds of queue, batches of 2, up to 5 samples, up to 3 flushes | every sample once; order; nothing from before a flush after it; a flush gets through to a pin that blocks |
| `streaming` | pull pin with 3 readers that may refuse a flush, allocator with 2 threads and 2 buffers, dynamic pin with 2 callers and 2 users, one renderer | buffers are in one place; data without gaps; no lost wake-up; valid blocking; the end of the stream once; whoever waits is released |
| `base` | 2 enumerators over 2 pins, types up to 3, a connection with up to 2 failures and filters that change their state in the middle of it, a filter with 2 pins, 2 clocks and 2 graphs | enumerators miss nothing and repeat nothing; connections agree or leave nothing; references; pins follow the filter's state |
| `rendering` | nine components, see `MCRendering` | released once; images right; settings followed; lists kept |
| `threads` | source filter with 4 pins over catalogues of 2, and six components, see `MCThreads` | the source's lists agree and are those of a catalogue; order and freshness in the others; whoever waits is released |
| `sinkpin_listener`, `sourcepin_unfilled`, `enumpins_silent` | 1, 2, 1; 1, 1; as `base` | disagreements, see below |

### Components in one run

The runs `streaming`, `base`, `rendering` and `threads` check several components
that share no state in the model. A variable `part` says which of them takes the
steps of a behaviour; the others stay in one initial state. So every behaviour of
each component is explored and no product of two. Their invariants are
conjunctions of the components' own properties, each about a hazard of its own; in
the proofs and in the modules they stand alone. `CallsReturn` gathers what each part
waits for: `SomebodyWaits ~> ~SomebodyWaits`, in `streaming` for each of two things
a part may wait for. Deadlock is not checked in these runs, in `sinkfilter` and in
`outputq`: the components end (a deleted filter or queue, a destroyed window, a
counter at its bound), and then nothing is left to do. In the other runs it is
checked; there `Deleted` loops, so that a deleted pin is not a deadlock.

### Bounds

Two writer identities are what it takes to see a second writer; `SingleWriter` proves
that there is none, so that one does for `sinkpin_live`. Three samples
leave one queued, one in the writer's hands and one sent, and outnumber the pipe's
room; connections, disconnections, ends of stream, flushes, restarts of filter and
client are not bounded at all. A full pipe is reached with either capacity. A
catalogue is cut off or complete with two entries, and a third pin connects while
the server is at it; the source needs as many pins again as it removes. In
`outputq` two samples fill a batch, so that five make full and partial ones; two
flushes are one that interrupts and one that starts over. Two threads and two
buffers let one thread wait while the other returns, and both hold one sample;
what more of them could do is settled by the proofs. `MaxSemaphore` bounds the
wake-ups that `AM_GBF_NOWAIT` leaves behind, `MaxVersion`, `MaxRefs`, `MaxConnects`,
`MaxFailures`, `MaxSwitches`, `MaxCalls`, `MaxChanges` and
`MaxRuns` how often something unbounded is done; each is large enough for it to be
done, undone and done again, or to happen in the middle of another. The counters
of the clock and of message waits run through a cycle of three ticks and start one tick
before they wrap; in four ticks they wrap twice. A window's place has one axis there
(`Axes`), since no call relates the two; the theorems hold for any axes. Three nodes are
enough for both lists to be empty, single or longer, and for memory to run out.

### Fairness

- `SinkPin`: every thread that can take a step does (weak fairness per thread:
  Windows schedules them), a wait of ten seconds ends, and a client that has opened
  the pipe reads what is in it. Nothing is assumed of the application, the
  upstream filter, or a client's coming and going.
- `SourcePin`: the application finishes a call it has begun, the worker runs when
  it can, and `ConnectToSinkPin`'s loop ends (strong fairness: `WaitNamedPipe` has a
  limit). Downstream need not release anything. `LiveSinkSpec` adds a sink that
  goes on sending and closes the pipe when it is done: without it Stop does not
  return, since the worker is blocked in `ReadFile`.
- `SinkFilter`, `SourceFilter`: calls under way and server threads go on, a client
  reads what there is, a sink that has been opened writes; the maker of pins gets
  the lock between two callers of `FindPin`.
- `OutputQueue`: calls and the thread go on; a pin downstream that blocks is bound
  to come back only when it is flushed.
- `MemAllocator`: threads inside a call go on, and a filter gives each sample back in
  the end (strong fairness: it may pass it on first). `PullPin`: the threads run; the
  reader may hang and answers a flush only, which it may refuse (then nothing is
  promised). `DynamicPin`: the streaming thread does not use the pin for ever.
  `Renderer`: the clock and the timer fire.
- `VideoTransform`, `TransInPlace`, `BaseWindow` (in either way of destroying it),
  `StreamControl`, `ReferenceClock`, `MsgThread`: threads that can run do, other windows
  answer, time passes, the graph carries out the reconnections it was asked for.

Fairness of a part at rest asks for nothing: none of its fair actions is enabled in
its initial state, or the fairness names the part.

### Disagreements between code and comments

| run | the code | what is said of it |
|---|---|---|
| `sinkpin_listener` | `StopServer`'s `CreateFile` may succeed before the server thread has done a step; the thread then sets `m_bPipeServerRunning` after the stop (312), listens for another client and blocks until it is terminated | "releases the blocking pipe connection listener" (`VirtualStreamSinkInputPin.cpp:348`) |
| `sourcepin_unfilled` | without a sink, or with a broken pipe, `FillBuffer` returns `S_OK` and the empty sample is delivered; `m_bConnected` is never cleared after a broken pipe, so the pin does not reconnect | "Deliver a filled-in sample" (`amfilter.cpp:2661`) |
| `enumpins_silent` | `AddInputPin` and `SetStreamName` change the list of pins and tell no enumerator, which then ends without the new pin | "either override this virtual function to provide the version number, or more simply call IncrementPinVersion" (`amfilter.cpp:857-859`) |

### Other observations

Met while modelling; the models have the behaviour, and no property says otherwise.

- Sink pin: `Receive` queues the sample before it asks the base class, so samples
  are taken while the filter is stopped or flushed (`VirtualStreamSinkInputPin.cpp:258-264`);
  a flush leaves `m_writeBuffer` alone, and where the code means to clear it (117,
  288) it calls `empty()`, which only asks; the queue has no limit; what
  `CreateNamedPipe` returns when it fails (159) is not NULL and passes for a pipe.
- Source pin: the first-sample flag is set before it is asked, so that no sample
  is marked as a discontinuity; `Stop` waits for a worker that is blocked in
  `ReadFile` for as long as the sink is silent; each attempt to connect creates an
  event that is not closed (349).
- Output queue: with exact batches samples are queued without waking the thread
  (692), so that the assertion in `IsIdle` that the list of an idle queue is empty
  (792) can fail; `Reset` and `EndFlush` wait for one event (535, 711), so that a
  `Reset` leaves or takes the signal of a flush. `NothingStale` is therefore about
  queues without a thread and those that are not reset.
- Pull pin: where one request is left, only a failure of `CollectAndDeliver` stops
  the loop (511), so that the end of the stream is delivered also to a pin that has
  asked for nothing more; the other place (501) looks for both.
- Enumerators: a pin that has gone can be met after others were fetched, which the
  assertion in `CEnumPins::Next` (1128) excludes and which leaves their references
  behind; `CEnumMediaTypes::Next` ends at the first type that cannot be had (1377).
- Sink filter: `SetStreamName` deletes every second pin whatever its connection; the
  assertion of `~CBasePin` (amfilter.cpp, about 1600) that `m_Connected` is false can
  fail, and the pins it does not delete are forgotten with their threads.
- Connections: `AttemptConnection` ignores what `Disconnect` of the receiving pin answers
  (amfilter.cpp:1806). A filter that was started meanwhile refuses, and its pin stays
  connected to a pin that is not, though a failed `CompleteConnect` will "disconnect the
  other pin as well" (1975-1976). `ConnectedTo` looks and references
  without a lock, by contract (2191-2198).
- Transform in place: `GetAllocator` of the input pin, which only asks, sets the output
  pin's allocator to the one downstream (`transip.cpp:706-708`).
- Pull pin: `Seek` and `Disconnect` go on when `BeginFlush` of the reader is refused
  (257-260, 280-283); the worker is then still at it, and `Disconnect` releases
  the reader under it. `Contiguous` ends there.
- Command queue: `SetSyncSource` keeps `m_tCurrentAdvise` (2310-2320), so that another clock
  is not asked for a time that the old one had been asked for, although the comment
  says "set up a new advise"; `Postpone` has two critical sections, and a command
  that is invoked between them has lost the queue that `Insert` is then called on (2071-2072).
- Windows: `SetWindowPos` with `SWP_SHOWWINDOW` opens a window that was closed after
  `IsWindowVisible`, and a rectangle read before another call is written back after it
  (`winctrl.cpp:233-281`, 445-466). By default `MsgDestroy` is sent, and can then be handled
  within `RealizePalette`, which goes on with a window and a context that are gone (so that an
  `EXECUTE_ASSERT` on them can fail), and `DoneWithWindow` returns while the window's thread is
  still in it.
- Video: the scan line of 1 or 4 bits counts 0 bytes a pixel (`winctrl.cpp:1974`);
  `GetStaticImage` then says NOERROR and has copied nothing.
- Base filter: `Stop` ends its loop at a pin that has gone (521), `Run` keeps the new
  start time when its `Pause` fails (604), and a `Pause` or `Run` that fails half way
  leaves the pins before it in the new state; `PinsInStep` is therefore about pins
  that do not fail.

## 4. Proofs

All statements hold for every value of the constants that meets the assumptions
named; the prover checks every step.

| theorem | statement |
|---|---|
| `SinkPinProofs!Invariance`, `TypeCorrect`, `SingleWriter`, `PipeOwned`, `WellFramed`, `CleanDelete` | `IInv`, `TypeOK`, `AtMostOneWriter`, `ServerOwnsPipe`, `Framing`, `NoThreadAfterDelete` are invariants, for any set of writers, any number of samples, any pipe |
| `SinkPinProofs!Refinement` | `Spec => InOrder`: the sink pin implements `SampleChannel` |
| `SourcePinProofs!Invariance`, `TypeCorrect`, `StopIsQuiet`, `Integrity` | `IInv`, `TypeOK`, `QuietWhenStopped`, `SampleIntegrity` are invariants, for any number of samples, any pipe |
| `SourcePinProofs!Refinement` | `Spec => InOrder`: the source pin implements `SampleChannel` |
| `OutputQueueProofs!Invariance`, `NothingLost`, `Ordered`, `FlushedForGood` | `IInv`, `EachSampleOnce`, `InOrder`, `NothingStale`, for every kind of queue, batch size and bound |
| `StreamingProofs!BuffersInPlace`, `OwnerOfBuffers`, `WakeUps`, `OneSelfReference`, `ReusedMemory` | `EachBufferInOnePlace`, `BuffersOwned`, `NoLostWakeUp`, `SelfReference`, `ReuseIsComplete`, for any number of threads and buffers |
| `StreamingProofs!BuffersKept` | `BuffersAccounted`: the four of these that concern buffers and references, together |
| `SinkFilterProofs!Invariance`, `AllocatorHeld`, `CatalogueRead` | `IInv`, `AllocatorOfConnectedPin`, `CatalogueComplete`, for any number of pins and any pipe, with renames in any state: an allocator that is not of a connected pin is of one a rename deleted, and a catalogue may lack what a rename took from it |
| `ThreadsProofs!Invariance`, `ListsInStep`, `PinsAreCatalogue` | `IInv`, `ListsAgree`, `PinsOfCatalogue`, for any number of pins and any catalogue |
| `BaseProofs!PinsInStep`, `ReferencesKept` | `PinsFollowFilter`, `ReferencesCounted`, for any number of pins that do not fail, and any clocks and graphs |
| `BaseProofs!Connected` | `ConnectionAgreed`: a connection agrees or leaves nothing, for any types, lists of types, allocators and failures, while filters change their state; but for an input pin that was disconnected meanwhile, or refused to be as its filter was no longer stopped |
| `BaseProofs!GivenOnce`, `NeverTwice` | `EnumeratedOnce` where the filter counts its versions; that no pin is given twice and the filter's references, also where it does not |
| `StreamingProofs!TypeSafe`, `BlockStateSafe` | types and `BlockStateValid` of the dynamic pin, for any number of callers and users |
| `StreamingProofs!EndReportedOnce` | `CompleteOnce` of the renderer |
| `StreamingProofs!PulledInOrder` | `Contiguous` of the pull pin, for readers with any duration, alignment, buffer size and number of buffers, as long as they flush when asked |
| `ThreadsProofs!FramesDecodable`, `ClockKeepsTime`, `MessagesHandledInOrder` | of the video transform `ShowsDecodable` and `NothingStale`, for any countdown to a key frame; of the clock `TimeKept`, `ScheduleInOrder`, `SleepsToTheHead`, for any times, advises and width of the counter, over any number of wraps as long as the time is read within half a cycle of the last reading; of the message thread `MessagesInOrder`, `WaitsAsLongAsAsked`, for any posters and timeout |
| `ThreadsProofs!OrderIsKept` | `OrderKept`: those, and the safety properties of the transform in place, the window (whether its destruction is sent or posted) and stream control, for every value of the constants |
| `RenderingProofs!TakenIsReleasedOnce` | `ReleasedOnce`: `PeerLives` of seeking (once the source is referenced, and before unless it was disconnected meanwhile), `ReleasedOnce` of samples, `DIBsAccounted` and `PaletteInUse` of images, for any callers, sizes, formats and buffers |
| `RenderingProofs!SettingsAreFollowed` | `SettingsFollowed`: `WorkerFollows` and `PositionOfSample` of seeking, `EarliestIsAdvised` of the commands, `WindowAsAsked`, `QualityInRange`, for any positions, commands, places and frames, with clocks replaced and commands postponed at any time; a window is where and as it was asked for unless a rectangle or a state that had been read was no longer so when it was used |
| `RenderingProofs!ImagesAreRight` | `ImagesRight`: `AcceptedIsShown`, `ExplicitIsValid` and `MasksAreLeading` of the display, `ColoursCurrent` and `DrawnAlike` of the buffers, `ImageOfSource` and `EntriesOfPalette` of the video, `SamplesClean` and `OutputSaysTheSame` of samples, for any videos of 1 to 32 bits and rectangles, any formats and modes that meet `DisplayAssumption` |

Assumptions of the modules, which TLC evaluates on the instances: `WriterAssumption`
(identities differ from the two values of `hThread2` that name no writer),
`BoundsAssumption` (numbers are naturals, a pipe has room), `ConfigurationsAssumption`
(kinds of queues), `EnumeratorsAssumption` and `ConnectionAssumption` of `MCBase`
(numbers are naturals, there are finitely many enumerators, there is a media type and
the lists hold types), `ReadersAssumption` of `MCStreaming` (the allocator that the
reader decides on has buffers of whole aligned blocks; with others a sample may lie in
the last block, beyond the stop altogether) and `CallersAssumption` (the value that
stands for no thread is no caller). Of `MCThreads`: `TransformAssumption`,
`ControlAssumption` (a countdown and a last time there is), `CounterAssumption` (the
counter starts within its cycle), `ClockAssumption` (times asked for are not negative;
how often the clock is read is no assumption: `TimeKept` says from when on it is
`overdue`, which `refclock.cpp:237-242` supposes it never is), `TimeoutAssumption` (a
timeout is a `DWORD`, like the counter). Of `MCRendering`: `SeekingAssumption`,
`QueueAssumption`, `WindowAssumption`, `SampleAssumption`, `VideoAssumption`,
`ImageAssumption` and `QualityAssumption` say of which kind the numbers are (positions
are naturals; a video has some pixels, of 1, 4, 8, 16, 24 or 32 bits; no frame is meant
to last, or is late, for longer than an `int` holds). `DisplayAssumption` says something
of the environment: bit fields occur in modes of 16 and 32 bits, and modes of the same
depth have the masks a valid type shares with a shallower mode, as the modes of real
displays do. It is needed because `CheckVideoType` compares a type with the display's
format without the window's lock, while a change of mode rewrites it. `PaletteSizes`
constrains nothing: it is a fact about 2, 16 and 256 that TLC computes, since the
provers know no powers. The rest stands in the theorems: `NThreads \in Nat` and `Sizes`
(of the allocator), `N \in Nat` and `~ActiveFails` for `PinsInStep`, `NULL \notin
Clocks` for `ReferencesKept`, `Notifies` for `GivenOnce`. The last is what
`enumpins_silent` shows to be needed.

None of the properties is inductive. What carries them:

- Sink pin. `Lifecycle` and `OneWriter`: a writer exists only while `m_bWriteBuffering`
  is set, or while `BreakConnect` waits for it; then `Receive` finds no writer when it
  starts one, and the destructor, which does not look for writers, meets none.
  `StopInv`: `StopServer` runs once at a time; while it waits the handle is open, and
  when it closes the handle the server thread has ended. `OrderInv`: numbers ascend
  from those sent, through the one a writer holds, to those queued. `FramingInv`:
  while a writer is between its two messages the last message in the pipe is its
  own info, or there is none; an info without bytes at the end of the pipe has such
  a writer or `torn`.
- Source pin. `Handshake`: which commands and answers may be under way at each point
  of the application's thread, and where the worker can be meanwhile. `HandleInv`:
  who holds the client end of the pipe. `OrderInv`: what is read, and what is to be
  read, is in the order it was sent. `FramedInv`, while `Aligned`: in the pipe the
  bytes follow their info, and the next message is what the worker expects.
- Output queue. `Places`: who may hold samples where. `Accounted`: list, batch,
  packets being sent and what was released make up what was received, and nothing is
  in two of them. `Order`: list, batch and packets being sent ascend, each behind
  the other.
- Flushes of the output queue. `FlushPhases`: nothing is left of what came before
  (`AllReleased`) when the thread has said that the flush is complete, and from then
  until `EndFlush` has been passed on; `Sends` and `Fresh`: what is being sent is held
  by the queue, and everything from before the last flush is released. A `Reset`
  breaks the phases, which is why `NoResets` stands in the invariant and
  `NothingStale` is about `ResetsApart`.
- Allocator. `WaitersCounted`: `m_lWaiting` is zero whenever a waiter has reason to go
  on, and with the semaphore covers all who wait. `References` and `OneState`.
  `Counted`: `EachBufferInOnePlace` in numbers; `LastCleared`: a reference found to be
  the last stays the last until it is cleared, so that no two threads return a
  buffer; `AllBack`: buffers are made anew or freed only when all are on the free
  list; `Lives`: who keeps the allocator.
- Sink filter. `Shape`: what a client was told, and what is still in the pipe for it,
  is pins and at most one end, which is last. `Owed`: a pin that stayed connected
  was told already, is in the server thread's hands, or stands in the list from the
  thread's index on; no change of the list but a rename moves it to before the index, and
  a client that a rename came upon is owed nothing. `NewClient`:
  nothing in the pipe is from an earlier client.
- Source filter. `Removal`: where `CSource`'s array and count stand in each step of
  taking out a pin; `Coming`: the pins made, the message read and what is still in
  the pipe are together the sink's list; `Connection`: the handle is open in the
  calls that use it and nowhere else; `Enough`: no call outruns the names of pins.
- Threads. Video transform: `WaitGoesOn` counts the frames since references were lost
  against the countdown. Transform in place: where types or allocators disagree
  the graph has been asked to reconnect. Window: its two contexts live as long as
  it does; where its destruction is posted, a message that is being handled keeps it; where it
  is sent, only the innermost message has it for certain (`LastSelects`). Stream control needs
  no more than its types: the rule decides rightly in any plan. Clock: `TimeInv` (the last
  reading is that of the counter, and the time goes by it unless it was ever read too late),
  `ScheduleInv`, and `SleepInv`: what
  the clock was put forward by is known to its thread, or wakes it. Message thread:
  waiting count and semaphore together are one while the thread sleeps; `WaitsInv`: what
  was waited and what is left of it are what was asked for, over the wrap.
- Seeking. `Referenced`: every call that found the source holds one reference on it, and it
  lives as long as it is connected or referenced; `Told`:
  what the worker does not go by yet a caller is about to tell it.
- Commands. `Queues`: the lists hold the commands that are set and not being postponed,
  each on the list of its kind, in order; `Advised`: the time asked for last is pending
  until it is due, unless the clock it was asked of is gone, and is that of the earliest
  command unless that is due.
- A window's settings. `ApplicationSees`, `FilterSees`: a rectangle that was read is where the
  window is, until `overtaken`; `VisibleSeen`: what was read of a window's visibility is so.
- Samples. `Holding`: the count is that of the holders, and who read a 1 in `Release`
  is the last of them; `Saying`: a recycled sample is blank, which is why the next
  one says only what its input said.
- Images. `Palettes`: window and context know the palette there is or none; `Coloured`: a
  buffer is current by the version it was drawn with, and no version is ahead;
  `Counts`: in each step of making a buffer, bitmaps and mappings are those of the
  buffers made, or one more. Video: `VideoInv` keeps the source rectangle within the
  video, and the rest is arithmetic of padded scan lines and of bit fields. Display:
  `DisplayCheck`, what the check knows of the modes there were since it began.
- Quality. `Sums`: the square of a sum is at most the number times the sum of squares,
  so that the deviation is the root of something that is not negative.
- Base filter. `PinsTouched` and `LastStop`: what the last `Stop` has touched.
- Connection. `Points` and `Holders`: which side is connected, and has which type and
  allocator, at each of the calls; `AsFound`: the input pin is as it was found, unless one of
  the `mishaps` came in between; `Referenced`: each allocator's count is that of the
  pins that hold it; `StillToTry`: a type that suits both is still among the candidates.
- Enumerators. `TypesPassed`, `PinsSeen`: what lies before the position was given
  out, as long as the versions agree; `PinsReturned`: what was given out is in the
  cache, by which a pin met again after a change is known.
- Dynamic pin. `WaitsUnused`: the streaming thread does not count as a user while it
  waits to be unblocked, nor before it has looked again under the lock.
- Renderer. `SampleHeld`: between which calls there is a sample; `FlushForgets`: a
  flush leaves neither sample nor end; `EndRemembered`: what was
  reported is remembered, is an end that was received or an error, and no sample is
  left to come behind it.
- Pull pin. What the worker plays does not change while it plays, although the pin's times may
  when the reader has refused a flush (`refused`, after which only the buffers are
  accounted for). `Outstanding` and `Accounted`: each buffer is free, on its way or
  in one thread's hands, and who has asked for how many. `Flow`: what is on its way
  begins where the last delivery ended and ends where the thread will ask next, in
  whole blocks, so that only the last is cut at the stop.

Each proof has one step per action and, under it, one per conjunct the action can
disturb; the layers (types, control, order, framing) are proved one after the
other, each from the earlier ones. Lemmas about a queue that is appended to or cut
carry the arithmetic of the pipes and of the output queue; in `StreamingProofs`
`Tally` says what a thread's step does to the numbers of one buffer and `Turned` that
it changes no other. TLC checked each of these invariants on the instance before it
was proved.

Every invariant the runs check is stated by a theorem. Only model-checked: liveness (the prover
has no fairness), and `ListsKept`, the refinement of lists of objects by the chains of
nodes in `BaseList`. What a chain holds, and what an operation adds to it, is defined
by recursion over its length, and the induction theorems take an operator as a
parameter that no prover here instantiates; so its instance has three nodes, enough
for both lists to be empty, single or longer, and for memory to run out.

## 5. Plan

1. `VirtualStream`: `SinkPin` and `SourcePin` over one pipe with several connections,
   in place of the environment each has now: end-to-end order from `Receive` to
   `Deliver`. Both promise `SampleChannel`, so order composes; framing across
   connections does not follow from it.
2. `MemAllocator` under `SourcePin` in place of `committed` and `starved`, and
   `SinkFilter` with `SourceFilter` over one control pipe.
3. Proofs about the lists: `WellLinked` from the neighbours of each node instead of from
   the chains.
4. Time stamps: `m_rtStart` and the race of `Run`'s `Reset` with `FillBuffer`.

## 6. Not modelled

- The property page, registration, DLL entry and trace file: no state or protocol.
- COM plumbing, media types and debugging (`combase.cpp`, `mtype.cpp`, `amvideo.cpp`,
  `wxdebug.cpp`, `perflog.cpp`, `arithutil.cpp`):
  reference counts of objects used by one thread, conversions of data, logging.
- Base classes neither filter and none of the modelled classes uses (`pstream.cpp`,
  `videoctl.cpp`, `sysclock.cpp`, `ddmm.cpp`, `amextra.cpp`, `seekpt.cpp`): wrappers of one
  system call each.
- Of modelled components: the media type and stream capabilities a source pin
  proposes, time stamps, `IDispatch` shells, captions, cursors and dragging in
  windows, the drawing of pixels, `DynamicDisconnect` and the graph's part in
  reconnecting a dynamic pin.
- What the operating system does to a thread it terminates, and calls that fail for
  lack of memory where the code does not look.
