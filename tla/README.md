# Verification of FlowEngine (NexusCore)

TLA+ modules, TLC configurations and TLAPS proofs for the program of this
repository, a C++17 chat and file-transfer server over IOCP with an MFC client
(`README.md` of the repository). Paths below are relative to its root.

Much of the repository is declared and not yet written: the headers of the
server name its classes, fields and methods, and most of the method bodies are
missing (the `.cpp` files of `Common`, `Core`, `Networking` and `Server` include
a header and stop, or hold an empty function). Two rules follow from that.

- What has a body is translated from it: the pool, the client, the build file,
  the exceptions, `SendData`, the packet header, the six handlers' ids, the
  macros.
- Of what has none, only that is modelled which its declarations leave no choice
  about: who owns an object (`unique_ptr` or a plain pointer), which lock is
  private to which class, how wide a counter is, what a structure begins with,
  which bytes a packed member has. The step in which a missing method would do it
  is marked external in `PROJECT.json` ("which has no body"). Where the
  declarations leave a choice, the model either takes every branch, has it as a
  parameter, or leaves the part out; a module that does otherwise says so below.
  Where everything depends on the choice (the order in which a capture is
  stopped, the lock under which a handler runs) there is no property, and the
  hazard is listed in `PROJECT.json` with the reason.

## 1. Inventory

| Component | State it keeps | What there is of it | Modelled in |
|---|---|---|---|
| Memory pool (`Core/MemoryPool.h`) | queue of `unique_ptr<T>`, mutex, `max_size_` | bodies of all five operations | `MemoryPool`, `ObjectCache`, `MemoryPoolRefinement` |
| Build configuration (`CMakeLists.txt`) | the cache of a build tree | one configure run, section by section | `CMakeConfigure` |
| MFC client (`MFC_Client/`) | template, document, frame window and its children, files on disk | bodies of `InitInstance`, `OnCreate`, `PreCreateWindow`, `OnNewDocument`, `Serialize`, `OnAppAbout`, `OnDraw`, `GetDocument` | `MfcClient` |
| Thumbnail and search handlers (`MFC_ClientDoc.cpp`, under `SHARED_HANDLERS`) | a font and the caller's device context; a chunk of search content | bodies of `OnDrawThumbnail`, `InitializeSearchContent`, `SetSearchContent` | `SharedHandlers` |
| Session, sending (`Core/Session.h`) | `send_queue_` of `unique_ptr<SendData>`, each with a block | bodies of `SendData`'s constructor and destructor | `SendBuffers`, `MessageQueue`, `SendBuffersRefinement` |
| Session, receiving, and the wire protocol (`Core/Session.h`, `Common/Protocol.h`) | `recv_context_`, `packet_buffer_` | bodies of the constructors of `PerIoContext` and `PacketHeader`; sizes | `PacketStream`, `PacketChannel`, `PacketStreamRefinement` |
| Packet handlers (`Core/PacketHandler.h:283-358`) | `handlers_` under `handlers_mutex_` | bodies of six `GetPacketId`; ids of `Protocol.h` | `PacketDispatch` |
| Traffic analysis (`Core/PacketHandler.h:18-281`) | `PacketInfo`, `statistics_` under `stats_mutex_`, counters | layouts, types, `IsCapturing` | `PacketLayouts`, `PacketCapture`, `AtomicStatistics`, `PacketCaptureRefinement` |
| Statistics and the macros (`Core/Statistics.h`, `Common/Logger.h`) | one object of each class; counters, histograms | macros, what a histogram begins with | `Singletons` |
| Exceptions (`Common/Exception.h`) | a message | bodies of everything | `Exceptions` |
| SessionManager, RoomManager, FileTransferManager (`Core/Managers.h`) | a table of `unique_ptr` by id, a counter of ids | types of tables, locks and counters | `Managers`, `ObjectTables`, `ManagersRefinement` |
| ChatRoom, NexusServer, Config, Utils, the rest of Logger, NpcapUtils | fields are declared | none that changes state | no |
| Encryptor, AdminWebServer, client networking classes, `Networking.cpp`, `Core.cpp`, login dialog, tests | none | none | no: empty |

How the parts interact. Threads share a pool through its mutex and pass objects
around by `unique_ptr`; the pool sees a client only in the three calls, and the
standard library is its other neighbour: `make_unique` and `queue::push` may
throw while the mutex is held. `CMakeLists.txt` talks to its own earlier runs
through `CMakeCache.txt`, and to the user, who installs packages and sets
variables between runs. The MFC client is called back by its framework: the
code registers a template and asks for a command line to be processed, and the
framework creates the document, the frame (`OnCreate`) and the view, and calls
`OnNewDocument` and `Serialize`.

What is hard in it, and what correctness means:

- *Pool.* Interleaved calls; exceptions under the mutex; the instant between
  moving the front out (`:28`) and popping it (`:29`), when the queue holds a
  null; destruction of the object that did not fit, which must happen after the
  mutex is released. Correct means: each object has exactly one owner at each
  moment, the bound holds under concurrency, no thread sees the null, each call
  looks atomic, and each call returns.
- *Build configuration.* State carried by the cache from one run to the next,
  stale when what it was computed from changes. Correct means: a rerun changes
  nothing, a failure is not remembered, and what is found belongs together.
- *Client.* Failure at any step of startup, and objects (document, frame, view)
  whose lifetimes are tied by the framework; one document object for all files.
  Correct means: all there or none, nothing drawn without its document, and a new
  document never written over the file of the one before. In the search handler
  three calls may fail unseen. Correct means: what was emptied is not found again.
- *Sending.* The caller reuses its buffer at once; `new[]` and `push` may throw
  between two owners; `SendData` holds its block by a raw pointer. Correct means:
  each block has one owner and what was posted is what the socket gets, in order.
- *Receiving.* TCP does not keep where one send ended. Correct means: the packets
  parsed are those sent, whole and in order, no buffer overflows, none waits for
  ever, and the stream is given up only for a packet that cannot fit.
- *Dispatch.* Two handlers that claim one id would replace each other. Correct
  means: each keeps its place. (A handler may also be unregistered while a thread
  is in it; nothing written decides what happens then.)
- *Capture.* pcap uses its buffer again while callbacks hold pointers into it;
  statistics are many plain numbers under one mutex. Correct means: one packet at
  a time, statistics of one instant, and members laid over the fields they are
  named for.
- *Singletons.* First uses race, constructors may throw. Correct means: one
  object of each class, every count in it, extremes that were recorded, and an end
  to every use once no new one begins.
- *Exceptions.* Copies cut down to the base class and C strings cut at a zero
  byte. Correct means: neither the kind of an error nor its text is lost by it.
- *Managers.* Ids that come round, addresses used again, plain pointers that
  outlive the lock. Correct means: each object in its table, once, and an id that
  names one object.

`PROJECT.json` lists each hazard with its line and the properties that cover it.

## 2. Plan

Done: the pool, the build file, the client with its windows, drawing, documents
and handlers, both directions of a session, dispatch, capture, singletons,
exceptions and managers; abstract specifications of the five parts that promise
their users something simpler than what they do (pool, both directions of a
session, statistics, managers), each with its refinement; proofs, in eight modules,
of every invariant, action property and refinement that a passing run checks, and
of some more.

Next, as the code allows:

1. When their bodies exist: `PostSend`, `ParsePackets`, `DispatchPacket` and its
   lock, `StartCapture` and `StopCapture`, the managers' methods. Their models become translations, the external steps here
   become the specification to compare them with.
2. `ChatRoom` and `NexusServer`, once something says who leaves a room when a
   session goes.

## 3. The modules

### MemoryPool

One action per visible step of a call; `pc[t]` says where thread `t` is,
`local[t]` is the `unique_ptr` of its call (the local `obj` of `Acquire`, the
parameter of `Release`).

| Code | Actions |
|---|---|
| constructor `13-18` | `Build` (one object), `BuildThrows`, `BuildDone` |
| destructor `20` | `Destroy` |
| `Acquire` `22-31` | `CallAcquire`, `AcquireLock`, `AcquireTest`, then `AcquireMake` or `AcquireThrows`, or `AcquireMove` and `AcquirePop`; `AcquireReturn` |
| `Release` `33-41` | `CallRelease`, `ReleaseNull` (line 34 is false), or `ReleaseLock`, `ReleaseTest`, `ReleasePush` or `ReleaseThrows`, `ReleaseUnlock`, `ReleaseDrop` |
| `GetPoolSize` `43-46` | `CallSize`, `SizeLock`, `SizeRead`, `SizeReturn` |

Objects are heap addresses: `live` are the constructed ones, and an address is
free to be allocated again after its destruction. `content` is what an object
holds, so that reuse of stale contents is visible. `AllocFails` lets any
allocation fail; one fails in any case when no address is left. The repository
has no user of the pool, so clients are as free as `unique_ptr` lets them be:
`Use` (write to an owned object), `Drop` (destroy it), release it from any
thread, release null. They do not call the pool during or after its destruction,
which would be undefined behaviour.

`ObjectCache` is the promise: no lock, no program counters, a first-in first-out
sequence of idle objects and operations that happen at one instant (`Reuse`,
`New`, `GiveBack`, `Keep`, `Discard`, `Count`, ...). `MemoryPoolRefinement` maps
the pool to it: the null front is dropped from the queue, an object held by a
call counts as still returning, already handed out, or already gone, by the point
the call has reached. The mapping is a function of the state; no history
variable is needed.

### CMakeConfigure

`CMakeLists.txt` from top to bottom, one action per section (`Settings`,
`FindProtobuf`, `FindNpcap`, `AddParts`, `AddExtras`, `GlobalOptions`, `End`), with
fresh variables in each run (`run`) and the cache (`cache`) kept between runs.
Between runs the user installs and removes npcap in any directory, in whole or
in part, installs and removes Protobuf, and sets `NPCAP_ROOT` and
`BUILD_TESTING`. Three rules of CMake that the file depends on are part of the
actions: `set(... CACHE)` does not replace a cached value; `find_library`
searches only if no library is cached, so that it retries after a failure;
`add_subdirectory` hands over the options set before it, reports a missing
directory and goes on, whereas a missing required package ends the run.

### MfcClient

`InitInstance` with a command line (`Launch` to `UpdateWindow`) and the commands
of the menu. The framework's part is in the actions the code triggers:
`ProcessShellCommand` branches on the command line, `PreCreateWindow`,
`PreCreateView` and `OnCreate` are called back while the frame is made, `Abandon`
gives up the window, its view and the document together, `Load` is
`OnNewDocument` or `OnOpenDocument`. `Bar` is one `if` of `OnCreate`: it adds the
tool bar or the status bar, or returns -1. A document has a path and nothing
else, as in the code; its two `Serialize` branches are empty, so `Load` takes
nothing from the disk and `Serialize` writes an empty file. No code calls
`SetModifiedFlag`, so no command asks whether to save first.

`OnDraw` may come whenever there is a frame, while it is being made included, and
once inside `UpdateWindow`. `GetDocumentDies` and `AssertValidDies` are the
assertions of a debug build, with which a missing document ends the process
instead of being passed over (`Draws`).

`OnNewDocument` is used by `Load` and by `OnFileNew`: the base class takes the path
off the document object, which is used again. `named` remembers for the property
which file the document was opened from or last saved as since.

### SharedHandlers

`OnDrawThumbnail` step by step (`Begin`, `CreateFontIndirect`, `SelectFont`,
`RestoreFont`, `Return`), with a font that may not be made: `SelectObject` of no
font returns null and leaves what is selected, and `~CFont` cannot delete a font
that is selected. `SetSearchContent` removes the chunk or sets it; setting it may
fail at any of the three calls whose results lead to nothing, and then the chunk
of before, one without a text, or none is left (`PutChunk`).
`InitializeSearchContent` calls it with an empty string.

### SendBuffers

`SendData`'s constructor is `NewBlock` (`new char[len]`) and `CopyIn`
(`memcpy`), its destructor `Destruct`; `NewBlockThrows` is the constructor left by
an exception, which runs no destructor. Around it are the external steps:
`MakeUnique`, `Push`, `PushThrows`, `SendCompletes`, `Close`. The caller's buffer
is its own again once the call returned (`Fill`), which is why the copy is there.

`MessageQueue` is what all this is for: callers put values into a queue, with no
objects and no blocks. `SendBuffersRefinement` maps to it: a `SendData` in the
queue stands for the text in its block, and a call is settled at the instant its
object enters the queue or an exception ends it, when the message is still what
the caller's buffer holds.

### PacketStream

`Send` writes a header and a payload to the wire, `Receive` takes some of the
bytes there are, never more than `wsa_buffer.len` says, `Take` moves them into
`packet_buffer_`, `Deliver` hands out a whole packet, `Refuse` gives the stream
up, `PostRecv` posts the context again. `Header` converts the length to the bits
the field has. The parser is the most patient one the fields allow; a real one
may refuse more, but it cannot do with less than this one waits for. Sizes are
scaled: the header is two numbers, an id and a length, and the checksum, which
nothing computes, is left out.

`PacketChannel` knows packets only: what was sent is delivered whole and in order,
each packet after it was sent. It ends for good when the receiver refuses a
packet, which needs one that has no room, and it may garble what follows a packet
whose length its header cannot state, but never what came before.
`PacketStreamRefinement` maps `parsed` to what is delivered; the bytes, the two
buffers and the receives show to neither end.

### PacketDispatch

`Claims` is the id each `GetPacketId` returns and `PacketID` the enumeration of
`Protocol.h`. `RegisterHandler` takes an id beside the handler, as declared, and it
need not be the one the handler claims. A second handler for an id takes the place
of the first, which its `unique_ptr` destroys, or is refused: either would do for
the missing body. `wanted` are the handlers that were put under the id they claim
and have been neither taken away nor replaced on purpose by one that claims
another id. `handlers_mutex_` is not modelled: no written line takes it.

### PacketLayouts and PacketCapture

`PacketLayouts` holds the packed structures member by member (`EthernetHeader`,
`IpHeader`, `TcpHeader`, `UdpHeader`, `TcpFlags`), the bytes that a compiler gives
each member (`Covered`), and, for comparison and from the standards, where the
fields are (`Placed`). Both are counted from the beginning of a header. Where a
header begins in a packet (the transport's is moved by the length in
`version_ihl`, which `PacketInfo::ip_header_length` is for) and the conversion of
members of two and four bytes to the host's order are up to methods without a
body, and not modelled.

`PacketCapture` follows a packet: `Capture` puts it into pcap's buffer,
`AnalyzePacket` fills a `PacketInfo` through those structures, `ProcessPacket`,
`Count` and `End` count it under `stats_mutex_` field by field, `Callback` tells
the analyser's `active_connections_` and `current_stats_` (counters of 32 bits and
of 64). `GetStatistics` and `ResetStatistics` are other threads under the same
mutex. What a packet adds to each field the declarations do not say, so it is a
parameter, `Adds`. Left out are `dropped_packets`, which pcap counts, and starting
and stopping: the order in which `is_capturing_`, `should_stop_` and the thread
change would be a guess.

`AtomicStatistics` has no mutex and no field by itself: a packet is counted once,
before the next is captured, and counting, reading and resetting each happen at
one instant. `PacketCaptureRefinement` puts that instant where the mutex is taken:
what a field is mapped to is what it will hold once the running job has ended
(`Settled`), and a report to what it will say (`Told`).

### Singletons

A use of a macro (`Use`) calls `GetInstance`: `Once`, `Make` or `MakeThrows`, and
`GetInstance` are `std::call_once` with the `once_flag` each class declares. Then
the method runs: `Count` for the macros of `Logger.h`, counters and gauges,
`RecordValue` for histograms, which begin as `HistogramData` says (`max()` and
`lowest()` of `double`), `ResetAllStats`. Of a `double` the module has the order,
with infinities and a NaN that is neither less nor greater than anything
(`Less`); since a NaN tells whether the value is compared with the extreme or the
extreme with the value, `Recorded` takes both. Sums round, and are left out.

### Exceptions

`Message` is what a constructor stores, `what` and `GetMessage` the two ways to
read it, one of which ends at a zero byte (`CString`). A handler may wrap the
error it caught (`Wrap`), throw a copy of its base part (`ThrowCopy`), or be done
with it (`Handled`); a copy of the string may fail (`OutOfMemory`). `KindsIn` is
what the error should tell of the classes it was thrown as. Its initial states and
steps are called `ErrorInit` and `ErrorNext`, so that one module can hold the
proofs about both headers of `Common`.

### Managers

One module for the three managers, which differ in what they own, how wide their
ids are and where these begin (the records `SessionManager`, `RoomManager`,
`FileTransferManager`). `TakeId` and `Insert` are the two halves of a Create,
between which another thread may come: the counter is atomic, the table has a
lock of its own. `Find` gives out a plain pointer, `Remove` destroys the object
whoever has one. Addresses are allocated again, and ids come round.

`ObjectTables` is the promise: tables from ids to objects, each known by the number
of its creation, with neither addresses nor a counter. An id is free when a
creation takes it, unless the ids have come round; then, and only then, a creation
may find its id in use and replace the object there or give up its own.
`ManagersRefinement` maps an address in a table to the creation of the object that
lives there.

## 4. What TLC checks

| Run | Module | Shows |
|---|---|---|
| `pool` | `MemoryPool` | `OneOwner`, `NoNullWhenFree`, `SizeBound`, `DestroyedUnlocked`; `ImplementsCache`, the refinement; `CallsReturn` and `LockGivenBack` under fairness |
| `cmake_reruns` | `CMakeConfigure` | `RerunIsSame`, `InstalledIsFound`, `OneInstallationUnlessMoved` |
| `client_documents` | `MfcClient` | `WholeOrGone`, `ViewHasDocument`, `OnlyDdeCrashes`, `WritesOnlyNamed` |
| `client_dde` | `MfcClient` | violated: `WindowInitialised` |
| `shared_handlers` | `SharedHandlers` | `ContextGivenBack`, `NothingFromBefore` |
| `sendbuffers` | `SendBuffers` | `OneOwner`; `QueueOfValues`, the refinement |
| `stream_framing` | `PacketStream` | `ParsedAsSent`, `EveryPacketParsed` under fairness; `StreamIsChannel`, the refinement; its type invariant bounds both buffers |
| `dispatch_handlers` | `PacketDispatch` | `NoneReplaced` |
| `capture` | `PacketCapture` | `InfoIsOfOnePacket`, `MembersCoverFields`, `CountersAgree`, `CountedSinceReset`; `StatisticsAreAtomic`, the refinement |
| `singletons` | `Singletons` | `NothingMiscounted`, `ExtremesWereRecorded`, `UsesEnd` under fairness |
| `exceptions` | `Exceptions` | `ToldInFull` |
| `managers` | `Managers` | `OwnedOnce`, `IdNamesOne`; `TablesOfObjects`, the refinement |

What a refinement implies is not checked beside it: `InOrderUnchanged` of
`SendBuffers` and `RefusesOnlyTooLarge` of `PacketStream` are proved (section 5) and
in no run, and so are the type invariants of the pool and of the send buffers. The
one of the stream is checked, since it bounds both of its buffers.

*Bounds, and why they are enough.*

- Pool: two threads, since every hazard of the pool is a race of two (one inside
  the mutex, one outside), and three addresses, so that one is in the pool, one
  in a call and one with a client at the same time, and memory runs out;
  `initial_size` 1 with `max_size` 2 lets the pool be empty, partly filled, full
  and refusing. A constructor that fills the pool past `max_size` is left to the
  proofs, which have no such bounds.
- CMake: two installation directories, one the default, which is enough for a
  library to come from the wrong one; `Windows` and `Msvc` are true, because the
  npcap part is skipped elsewhere, and the source tree is complete.
- Client: three files, so that one is open, another was before it and a third is
  chosen to save to; a debug build, where the assertions are.
- Shared handlers: three handles, two contents, and failures of either.
- Send buffers: two threads, three objects and three blocks (one in a call, one
  in the queue, one free), two messages, three posts: enough for one message to
  overtake another.
- Stream: lengths of two bits, so that a packet buffer has four bytes: payloads
  of none, one and two fit, three can be stated and does not fit, five is cut to
  one. A receive buffer of three cuts headers as well as payloads. Three packets
  let one before and one after go wrong.
- Dispatch: all six handlers, under any of the ids they claim.
- Capture: two readers beside the capture thread; one packet of TCP, one of UDP,
  one that is no IP; five of them wrap a connection's counter of one bit and the
  totals of two. `MCAdds` is one way to count them; the proofs are for any.
- Singletons: two threads, an address for the object of each class, counters of
  two bits that wrap at both ends, finite values of either sign, both infinities
  and NaN, four calls.
- Exceptions: texts with and without a zero byte, three throws: one wraps what
  another wrapped.
- Managers: rooms, whose ids have one bit here, and sessions, with two; three
  addresses, five creations, so that both come round; each bit of an id stands for
  thirty-two.

*Fairness.* Three specifications assume some, all of it what a scheduler or a
network gives. The pool: a thread inside a call keeps taking steps
(`WF_vars(Step(t))`). Nothing is assumed of `std::mutex`, which does not queue its
waiters, nor of clients, who may never call. So a waiting thread may be overtaken
for ever while others go on calling, and the property says what the code does
guarantee: `CallsReturn`, once no new call is made every call in progress
returns, and `LockGivenBack`, the mutex is given back however the others call.
The stream: a worker handles what was received (`WF_vars(Serve)`) and bytes sent
arrive (`WF_vars(Arrive)`); nobody has to send. The singletons: a thread in a call
goes on (`WF_vars(Work(t))`); nobody has to call. `std::call_once` promises a
waiting thread no turn while others come and throw, so `UsesEnd` speaks, as
`CallsReturn` does, of what happens once no new use begins.

*Deadlock* is checked in the runs of `CMakeConfigure`, `MfcClient`,
`SharedHandlers`, `SendBuffers`, `PacketDispatch`, `PacketCapture` and
`Exceptions`. It is not in four runs whose behaviours really end: a destroyed
pool has nothing left to do, and the streams, singletons and managers stop where
the bound on packets, calls or objects is reached.

### The violation

`client_dde`: started with `/dde`, the command line opens no document, no window
is made, and `m_pMainWnd` is null at `MFC_Client.cpp:115`, where the comment above
says that the one window has been initialised. `OnlyDdeCrashes` says that nothing
else leads to such an end.

### Also seen

These follow from reading the code and are in no run:

- A build tree configured with one npcap and then pointed at another (`NPCAP_ROOT`
  changed) takes the headers from the new one and the libraries from the old one,
  since `find_library` (`CMakeLists.txt:30`, `:36`) does not look again.
  `OneInstallationUnlessMoved` is what holds.
- The "global" options of `CMakeLists.txt:85-96` come after every
  `add_subdirectory` and so apply to no target, and the directories named at
  `:57-72` are not in the repository.
- Opening a file and saving it empties it (`MFC_ClientDoc.cpp:57-67`).
- A payload of 65529 bytes or more has a length the header can state and never
  fits `packet_buffer_` (`Session.h:99`). `RefusesOnlyTooLarge` and `PacketChannel` make room for it.
- No handler claims `FILE_CHUNK_SEND` (`PacketHandler.h:354` is the last).
- A histogram of which every recorded value is NaN, or positive infinity, may
  report `max()` as its minimum (`Statistics.h:46`), a value nobody recorded, and
  one of negative infinities `lowest()` as its maximum (`:47`).
  `ExtremesWereRecorded` excepts histograms with a NaN and those without a finite
  value.
- A search content that cannot be set (`MFC_ClientDoc.cpp:112-116`) leaves the one
  before in its place, where a search still finds it. `NothingFromBefore` says how
  far back.
- A copy of a `PacketInfo` that a callback keeps points to bytes that are gone
  (`PacketHandler.h:106`). `InfoIsOfOnePacket` speaks of the callback only.
- A connection's counters (`PacketHandler.h:228`) are wrong beyond 4 GB.
  `CountersAgree` says they are wrong by whole wraps.
- `FindSession` and its like return plain pointers (`Managers.h:20`), which
  another thread's `RemoveSession` leaves pointing to nothing. `OwnedOnce` speaks
  of the tables only.

## 5. What TLAPS proves

Each theorem holds for every value of the constants that the module's ASSUME
allows: any sets of threads, addresses, files or roots, any sizes and bounds. The
assumptions say that null and the other markers are none of the values they are
told apart from, that sizes and widths are natural numbers, and that the clients
whose counters are added up are finitely many. Where a width is the exponent of a
power of two, the assumption also says what arithmetic gives and the provers do
not know: that the power is a positive number, and that twice the exponent is its
square.

| Theorems | Inductive invariant | Why it is needed |
|---|---|---|
| `MemoryPoolProofs`: `TypeCorrect`, `OwnershipCorrect`, `SizeBounded`, `NoNullSeen`, `NoDestructionUnderLock`, `MutualExclusion`, `PoolImplementsCache` | `TypeOK /\ Control /\ SizeBound /\ OneOwner /\ DeadIsFresh` | below |
| `CMakeConfigureProofs`: `TypeCorrect`, `RerunEndsSame`, `CompleteIsFound`, `OneInstallationFound` | `TypeOK /\ Outcome /\ CacheSettled /\ UnderRoot` | the outcome of a run is a function of what is installed and cached (`Outcome`), and a run leaves a cache that it would not change again (`CacheSettled`) |
| `MfcClientProofs`: `TypeCorrect`, `StartupWholeOrGone`, `ViewKeepsDocument`, `CrashesOnlyByDde`, `NothingElseWritten` | `TypeOK /\ Stages /\ PathIsNamed` | `Stages` says what exists at each step of the startup; a document with a path has it from where it was opened or last saved (`PathIsNamed`), so what Save writes to is that file |
| `MfcClientProofs`, for `SharedHandlers`: `ContextReturned`, `SearchForgets` | `Drawing /\ NothingFromBefore` | `Drawing` says who has which font at each step |
| `SendBuffersProofs`: `TypeCorrect`, `BlocksHaveOneOwner`, `SentAsPosted`, `SendBuffersImplementQueue` | `TypeOK /\ OneOwner /\ Written`, then `Copied /\ InOrder`; for the refinement also `Closed` | a block is written before its object enters the queue (`Written`), and is as the caller's buffer until then (`Copied`); `InOrder` is the property message by message; a session that was destroyed has no call and no queue (`Closed`) |
| `CommonProofs`, for `PacketStream`: `TypeCorrect`, `PacketsAsSent`, `RefusalsAreDue`, `StreamImplementsChannel` | `TypeOK`, `InStep`, `AsSent`, `RefusesOnlyTooLarge` | below |
| `CommonProofs`, for `Exceptions`: `KindsAreTold` | `ErrorInv` | a message is the kinds of the classes it was thrown as and then the text, whole or, after some wraps, cut at its zero byte |
| `PacketHandlerProofs`, for `PacketDispatch`: `PlaceIsKept` | types and `NoneReplaced` | `NoneReplaced` is inductive because no two handlers claim one id (`ClaimsDiffer`), once wanted handlers claim ids there are |
| `PacketHandlerProofs`, for `PacketCapture`: `InfoOfOne`, `CountsAreSinceReset`, `CountersKeepUp`, `StatisticsImplementAtomic`, `FieldsAreRight` | `Basics`, then `NoneMissed`, `Wraps` | below |
| `SingletonsProofs`: `NoneMiscounted`, `ExtremesAreReal` | `Types /\ OneMaker /\ OneObject /\ OfTheClass /\ AllCounted /\ AllRecorded` | below |
| `ManagersProofs`: `OwnershipCorrect`, `IdsNameOne`, `ManagersImplementTables` | `Typed /\ Live /\ Single /\ Present`, then `Numbered` and `Distinct` | an object that goes leaves no pointer behind in a table (`Live`) only because no table has it under two ids (`Single`); `Present` is the converse; `Numbered` gives the n-th Create the n-th id, in the counter, the calls, the tables and the client's memory; no two creations have one number (`Distinct`) |

*The pool.* None of its properties is inductive alone. `Control` says what the
position in a call implies: `Exclusion` (the holder of the mutex is the one
thread inside a critical section, which is what carries the result of a test to
the step that uses it), `LocalState` (where `obj` is null), `TestsHold` (the test
of line 24 still holds at 25 and 28, that of line 37 at 38), `NullAtFront` (the
queue has a null only between 28 and 29, and only at the front) and `Lifecycle`.
`TypeOK /\ Control` is preserved by itself, lemma by lemma (`TypeStep`,
`ExclusionStep`, `LocalStep`, ...), each with a step for every action that touches
what it speaks of; `BoundStep` and `OwnerStep` then use it. `DeadIsFresh` is
needed for the refinement: an address that is allocated again carries nothing
over.

*The pool's refinement.* Each action of the pool is shown to map to an action of the
cache or to a stutter (`BuildMaps`, `MakeMaps`, `MoveMaps`, `PushMaps`,
`DiscardMaps`, ...; `PopStutters`, `ReturnStutters`, `DropStutters`, ...) from the
invariant before and after the step.

*The stream.* `ParsedAsSent` speaks of whole packets and the state holds bytes in
three places. `InStep` joins them: in `packet_buffer_`, then the receive buffer,
then the wire, each packet sent and not yet parsed begins where those before it
end, as far as their lengths could be stated. `Receive`, `Take` and `PostRecv`
move bytes between the three and leave their concatenation alone; `Send` appends to
it; `Deliver` takes the first packet off it, and the length in its header is the
one that was stated because it is in step. That there is such a division is said
by a function from packets to the places where they begin (`Framed`); each step
gives the new function from the old one, so no induction over the packets is
needed. The refinement follows from the same invariant, before and after a step:
`Deliver` hands out the next packet sent or, behind one that is out of step,
something of which the channel promises nothing; `Refuse` needs a packet without
room; every other step but `Send` leaves both ends as they are.

*The exceptions.* `KindsIn` is a recursive function, and that a function satisfies
its equation takes an induction the provers do not have. So the invariant carries
it: for the classes of the error at hand there is such a function, and one more
class extends it by one value (`KindsOfMore`). That there is one only is shown with
the least index at which two would differ (`KindsUnique`).

*The send queue.* That a call which ends, in the queue or by an exception, changes
the abstract queue at one instant only needs what the other proofs have: the
block of a queued object is written and is what the caller still had (`Written`,
`Copied`), and what waits is the tail of what was accepted (`ValuesAre`).

*The capture.* `Basics` says who holds the mutex, that one packet is worked on and
that what is told is of it; `InfoOfOne` follows.
The statistics are of no instant between two fields of a job. What a field *will*
hold once the running job has ended (`Settled`) always is: beginning to count adds
the packet to all of it at once, beginning a reset clears it at once, and no other
step changes it. `NoneMissed` says that these values are the sums, of whatever
`Adds` gives, over the packets since the last reset. Sums over finite sets, which the
model writes with the community modules' folds, get their laws here (`SumWith`,
`SumWithout`, `SumSame`, and `AddedSum`, `SizeSum`, `FunctionSum` for the three
forms in the model); what induction would be used for is done with a set that is
smallest among the counterexamples (`SmallestSet`).
`StatisticsImplementAtomic` is about the same values: taking the mutex is the one
step of a job that changes any of them (`ProcessMaps`, `GetMaps`, `ResetMaps`), and
writing a field is a stutter (`FieldStutters`). `Wraps` says that each counter
is its sum but for whole wraps of its width (`ButFor`).

*The singletons.* `OneMaker` says that a `once_flag` at work has one thread that
makes the object, `OneObject` that a class has its object when the flag is done,
and no other class has that one; so a thread in a method is in the one object
(`OfTheClass`), and what its use adds is added where the next one looks
(`AllCounted`, modulo the counter's width). `AllRecorded` carries what a histogram
has of its values through one more of them (`MoreRecorded`): as long as none was
NaN its extremes bound them, each is the initial one or was recorded, and the
initial ones are beyond every finite value.

*The layouts.* `FieldsAreRight` adds up the members of each packed structure one
after the other (`OffsetSteps`, then `EthernetOffsets` to `UdpOffsets`) and compares
with where the standards put the fields (`NoneMisplaced`). `FlagByteIs` and
`FlagsSeen` give the flags back from the byte in which they were sent, for any set
of flags.

*The managers.* What `IdNamesOne` says of ids that a client kept, the refinement
says of the whole table: by `Numbered` an id in use belongs to a creation a whole
round ago, so that a creation that meets one comes after the ids came round; and
by `Distinct` each creation that ends is one of those that have begun and not
ended.

Only model-checked: liveness (`CallsReturn`, `LockGivenBack`, `EveryPacketParsed`,
`UsesEnd`), which is out of the prover's reach, and ENABLED with it.

## 6. What is not modelled, and why

- What is empty or declared only, and fixes too little: `ChatRoom`,
  `NexusServer`, `Config`, the utilities, the rest of `Logger`, `NpcapUtils.h`,
  `PacketBuilder`, `ServerLoadTester`, `Encryptor`, the administration server, the
  client's networking, the login dialog, the tests. There is no statement in them
  that changes state.
- What the methods without a body do beyond what the declarations force: how long
  `PostSend` keeps a lock, which error `ParsePackets` reports, in which order
  callbacks run, whether `DispatchPacket` keeps its lock while a handler runs, in
  which order `StopCapture` clears its flags and joins the thread, how the
  analyser finds a header and converts a field, which field an unsupported packet
  is counted in, how a histogram's sum rounds. A model of it would be a guess.
- Of the pool: alignment and size of `T`, a `T` whose constructor calls the pool
  (it would wait for itself; nothing in the repository does), and calls that
  overlap the destructor.
- Of the session: its login state and its room; of the transfers: chunks and the
  expiry of those that stopped.
- Of the client: the list of recent files (the code gives only its limit,
  `MFC_Client.cpp:87`), printing, docking, the restart manager, the edit and view
  menus and two instances at once, which are the framework's alone.
- Of the build: generators, what the subdirectories would contain, and the
  Visual Studio projects beside `CMakeLists.txt`.
