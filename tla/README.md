# TLA+ models of star_pushersvr and star_protocol

The repository holds three programs: **star_pushersvr**, a server that pushes
audio files and live sources to rtmp/rtsp urls at the request of HTTP clients;
**star_protocol**, a library that packs and unpacks the messages of broadcast
terminals; and **80press**, a Windows dialog that loads a server with simulated
terminals. The models cover the server, where the threads are, and the protocol
library, where the formats are.

`SVR` below is `src/star_pushersvr-develop/star_pushersvr`, `PROTO` is
`src/star_protocol-develop/src`.

## 1. Inventory

| Component | State | Operations | What is hard | What makes it correct |
|---|---|---|---|---|
| **Launcher and services** (`SVR/service`, `SVR/stream/streamMod.cpp`, `SVR/appConfig/ConfigMod.cpp`, `SVR/main.cpp`) | the list of services, opened or not | init, open, close, finit over the list | a service that fails half-way; close runs in the order of open, so the stream managers go before the HTTP server that uses them | what was opened is closed; nothing runs on what is closed |
| **StreamMng&lt;T&gt;** (`SVR/stream/streamMng.h`) | `m_streams` under `m_streamLock`, `m_stop`, the collector's thread | createStream, getStream, getAllStream, open, close, the collector `svr` | the collector joins workers with the map locked; shared pointers outlive map entries; close takes no lock | stopped streams stay for `streamReleaseTime`, then leave; requests are answered |
| **FileStream** (`SVR/stream/fileStream.cpp`) | `m_stop`, `m_thread`, `m_info`, one command slot, the play stack, the input and output | start, stop, pause, resume, jump, the worker `svr` | commands and stop arrive from other threads between two network calls; reconnection in the middle of anything | one stream pushes to a url; stop is final; every file of a cycle is played; pauses do not count as playing |
| **RealTimeStream** (`SVR/stream/realTimeStream.cpp`) | the same without commands and files | start, stop, `svr` | reconnection of both ends; early returns at start-up | as above |
| **HTTP handlers** (`SVR/httpServer`) | none of their own | start, stop, pause, resume, jump, query | run on httplib's pool, so on any number of streams and on one stream at once | a start replaces a stream; a stop is silent when asked to be |
| **MessageQueue** (`SVR/common/messageQueue.h`) | `m_msg`, `m_run`, mutex and condition variable | start, stop, size, pop, timed pop, push | notifications after the unlock; spurious wake-ups; time limits | no message lies while a thread sleeps; stop ends every pop |
| **HTTP client** (`SVR/httpClient`) | two clients, each a queue and a thread | push, close; `Module_Interface` | producers discard what the sender takes; size and push are two steps; shutdown | callbacks at most once and in order; close returns |
| **StreamInImp** (`SVR/stream/streamInImp.cpp`) | the FFmpeg input, a clock | open, readData, pause, resume, lastFrameDelay | pacing by wall clock with pauses | a file is read in real time |
| **StreamOut...** (`SVR/stream/streamOut*.cpp`) | a vendored pusher | open, writeData, close | time limits of the network | - |
| **Codec** (`SVR/codec`) | FFmpeg contexts, an object pool | open, decode, encode, parse | a pool shared by all workers | - |
| **AppConfig** (`SVR/appConfig`) | the JSON configuration | get..., reload | reload while others read | a missing parameter leaves the default |
| **star_protocol** (`PROTO`) | packages, messages, a product model | pack and unpack, slice and reassemble, acknowledge, TLV parsers | slices out of order, twice, of other messages; lengths at a boundary | what was packed is what is unpacked |
| **80press** (`src/80press`) | clients, a reactor, a memory pool, counters | connect, register, heartbeat | counters shared by threads | - |
| **Vendored** (`httplib.h`, `CURL`, `rtmp_pusher`, FFmpeg, ACE, jsoncpp, spdlog) | - | - | - | - |

How they interact: an HTTP thread looks a stream up in a manager, and calls
start, stop, or a command on it through a `shared_ptr`. start creates the worker
thread; stop sets `m_stop` and joins it. The worker hands callbacks to
`Module_Interface`, which queues them in one of the two HTTP clients, whose
thread sends them. The manager's collector takes stopped streams out of the map.
The Launcher opens and closes all of it.

## 2. Structure and plan

| Module | What it is | Uses |
|---|---|---|
| `StreamMng`, `MCStreamMng`, `StreamMng_proofs` | streams between managers, HTTP clients, workers and the collector | - |
| `FileStreamWorker`, `MC...`, `..._proofs` | a file stream's worker with the clients that command it | - |
| `AudioConvert` | decoder, encoder, parsers, buffers and pool of the codec | - |
| `FileConvert`, `MCFileConvert` | what listeners get of the files the worker plays | extends `FileStreamWorker`, `AudioConvert` |
| `Interface`, `MCInterface`, `Interface_proofs` | routes and handlers against streams that run, end and are collected | - |
| `RealTimeStreamWorker`, `MC...`, `..._proofs` | a realtime stream's worker with input and output | - |
| `MessageQueue`, `MCMessageQueue` | the queue below callbacks and play stacks | - |
| `HttpClient`, `MC...`, `..._proofs` | a callback client; the proofs are about the queue as well | instantiates `MessageQueue`, implements `CallbackChannel` |
| `CallbackChannel` | abstract: callbacks are sent in order, at most once | - |
| `Launcher`, `Launcher_proofs` | the process and all its threads, from main to its end | - |
| `Tlv` | lengths and fields of the protocol's coding | - |
| `ProductModel` | module data: properties between JSON and bytes | `Tlv` |
| `ModelJson` | how product and command models come out of their documents | `ProductModel` |
| `CmdParser` | the parsers of all commands | `ProductModel` |
| `TermPackage` | the octets of a package, its acknowledgement and device ids | `Tlv` |
| `TermHeader` | the packages of the message under way as octets | extends `TermMessage`, `TermPackage` |
| `TermMessage` | slicing and reassembly by several threads | implements `Transfer` |
| `TermProtocol_proofs` | theorems about `Tlv`, `TermPackage`, `TermMessage` and `TermHeader` | extends these |
| `Transfer` | abstract: a body arrives whole or not at all | - |
| `TermProtocol`, `MCTermProtocol` | a command from JSON to JSON over `TermMessage` | extends `TermHeader`, `CmdParser`, `ModelJson` |
| `MemoryPool` | the pool the load generator's clients lie in | - |
| `PressTest`, `PressTest_proofs` | the load generator with its threads and timers | extends `MemoryPool` |

The order of work was that of importance: the life cycle of streams, the queue, the
callbacks, the workers, the protocol, the process, the interface, the codec and the load
generator. Proofs are in `_proofs` modules, one for each component. `CmdParser`,
`ProductModel` and `ModelJson` recurse over nested data with RECURSIVE operators and
have none.

What is left, in order: seeking and the pause of a file's clock in `StreamInImp`; the
setters of `AppConfig`, which nothing calls; the answers the load generator counts.

## 3. The modules

### StreamMng

One manager `StreamMng<T>` with `T` chosen by `Kind` (the program has one manager of
each kind, and they share nothing). `m_streams` is a function from ids to objects,
`todo` what is left of the collector's loop. A thread of the HTTP pool or the collector
is at `pc`, with its request `req` and its `shared_ptr` `held`. The members of the
stream objects are functions over `Obj`, the storage a new object is constructed in: an
object lives (`allocated`) while the map or some `held` refers to it, and `Repoint`
destroys what nothing refers to, which terminates the process when the thread is still
joinable.

| Actions | Code |
|---|---|
| `Receive` `GetStream` `Forget` `CreateStream` `Respond` | the ends of `filestreamStartHandler`, `fileStreamStopHandler` and their realtime twins; `getStream`, `createStream` |
| `StopTest` `StopSet` `StopJoin` | `stop()`: `m_enableReportStop` and the test of `m_stop`; the assignment; the join |
| `StartRefused` `StartClear` `StartSpawn` | `start()` |
| `SvrBegin` ... `SvrClose` | `svr()`; `SvrFinish` is any reason of the worker's own to end |
| `CollectBegin` `CollectVisit` `CollectErase` `CollectEnd` | `StreamMng::svr`; its stop() is `StopTest`...`StopJoin` of the thread `Collector` |
| `CloseBegin` `CloseClear` | `StreamMng::close` |
| `Tick` | a second passes |

Time: `age` is `now - stopTime()`, cut off at `ReleaseTime + 1`; a `stopTime` never set
is "long ago". `due` is what the collector's own `now` says, which is read once for a
pass. `idle` is the true time since the worker gave up. `Prompt` assumes that a worker
needs less than `ReleaseTime` (10 s) from the end of its loop to `reportStop`, where
nothing blocks.

`Serial` says that the clients send the requests for one id one after the other. Without
it the program can be brought to terminate: two starts of one id replace each other's
running stream (the destructor of a joinable `std::thread`), and a realtime stream that
was created and not yet started is stopped by joining a thread that does not exist. The
properties checked under `Serial` say that nothing else goes wrong, with one exception
they name: a client's `stop` and the collector's can both pass the test of `m_stop`.
(Likewise a second client that stops a stream returns 0 at once, with the stream still
pushing.) Retention is proved without `Serial`.

### MessageQueue, HttpClient, CallbackChannel

`MessageQueue` has one step for each critical section of the mutex and one for each
notification. `call` is the operation a thread is in, `asleep` the wait set of the
condition variable; `pop` with a time limit may time out at any time it sleeps, and any
sleeper may wake for no reason.

`HttpClient` instantiates the queue for its producers and its worker and adds `push`
(size, discard, push), `threadfunc` and `close`. The queue has to be left in the state
in which `close()` finds it: nobody calls `MessageQueue::stop` in this program, so it is
the time limit of 3 s that lets `close()` return. `ImplementsChannel` maps the request
being sent and the queue to the pending callbacks of `CallbackChannel`.

### FileStreamWorker

One `FileStream` from the start of its worker to its end, with the clients that pause,
resume, stop and jump. `wpc` is where the worker is in `svr`, `pushFile`, `doCmd`,
`onPause` and `pushFrame` (`paused` tells the two loops apart), `hpc` where a client is
in the jump handler or in `stop`. A step goes from one access to shared state to the
next, so `size()` and `pop()` of the play stack are two steps, and a `pop()` of the
empty stack waits. Inputs are objects: `m_streamIn` of the worker, the one in the
command, and `m_streamIn` of the handler, which is one for all requests; `deleted` are
those freed while something still points to them.

| Actions | Code |
|---|---|
| `WInit` `WCycle` `WNext` `WTake` `WEnd` | `svr` |
| `WDrain` `WDrainPop` `WFill` | `createPlayStack` |
| `WOpen` `WLoop` `WCmd` `WRead` | `pushFile` with `checkDuration`, `getCmd` and `doCmd` |
| `WPauseLoop` `WPauseCmd` | `onPause` |
| `WPush` `WRetry` `WGiveUp` | `pushFrame` |
| `Pause` `Resume` `Stop` `Join` | `setCmd`, `stop` |
| `Jump` `JumpDrain` `JumpCount` `JumpPop` `JumpFill` `JumpTake` `JumpOpen` `JumpSet` | `filestreamJumpHandler::post`, `updatePlayStack`, `jump` |
| `WFault` `JumpFault` | undefined behaviour: an index out of range, no output, a deleted input; nothing happens after it |
| `Tick` | a second passes |

Jumps share the play stack and the input with the worker without a lock that covers more
than one call, and much of what the code does then is wrong. The properties therefore
say what holds as long as no jump has gone `astray`: `Strays` names the meetings (a jump
that is begun or waits in the slot while the worker is between two files, two jumps at a
time, an index beyond the list) and `JumpIsLost` the failures (the file cannot be
opened, another command replaces the jump) that put the stream into that state. Without
any one of them, save the overlap of two jumps (which in these runs only shows together
with the others), a run fails.

`PauseNotMissed` needs no such excuse. `lost` counts the seconds in which the stream is
paused or reconnecting; `m_pauseTime`, which is built from differences of a clock in two
places, is never below it when the stream plays.

### AudioConvert, FileConvert

`AudioConvert` is the code around FFmpeg: the set-up of decoder and encoder
(`OpenDecoder`, `initDecoder`, `initEncoder`, `UpdateCoder`), the buffers and the object
pool (`copy`, `append`, `release_obj`), the rounds in which the encoder takes frames
from its fifo (`Rounds`, `MakeCode`, `Encode`), the ADTS header written bit by bit
(`AAC_ADTS` and its fields) and both headers read again (`ParseAac`, `ParseMp3`). What
FFmpeg does is a constant: how many frames it holds back (`Latency`), how large its
packets are (`PacketBytes`) and which formats it refuses.

`FileConvert` joins it to the worker: `readData`, `pushFrame` and the outputs with their
clocks, `initStreamOut`, `checkFiles`, and the silence that `onPause` plays. A list and
a conversion fix what is done with a packet: the way of all packets through the codec is
a fold over them (`PlayFile`, `Played`), and not a sequence of actions, because no other
thread sees the codec. What becomes of a packet is part of the list too: `Fates` are the
attempts `pushFrame` makes to send it. The pusher takes it, is still connecting (an RTSP
output drops it then and its clock stands), or refuses it (an RTMP output has moved its
clock already, PCM has not); then the output is closed and opened again, which may fail,
until a frame is written or the attempts are over. `Try` does one attempt, `sent` keeps
what was handed to the pusher, `over` says that `pushFrame` gave up, and `left` counts
the encoder's packets that nobody sends or gives back after that. `PlaySilence` is the
loop of `onPause`, which goes on when a converted frame of silence could not be sent
(`Again`). `Heard` is what all these folds must satisfy for the file that the worker has
reached and for every order in which it can have got there; `HeardAsPlayed` asks it of
each file the worker pushes. It counts time by what was handed to the pusher: what RTSP
drops takes no time, and what RTMP refuses does.

### Interface

The HTTP server from a request to its answer, with the streams of both kinds as a query
can see them. `heap` is every stream ever created and none takes the place of another,
so that a pointer to a deleted one is recognised; `client` is what each thread of the
pool is doing.

| Actions | Code |
|---|---|
| `Receive` | `router`, `simpleHandler`, and the checks of parameters at the head of each handler |
| `FindForStart` `CreateStream` `StartFile` `StartRealtime` | `filestreamStartHandler`, `realtimeStreamStartHandler` with `start()` |
| `FindForStop` `Join` `Stopped` | both stop handlers with `stop()` |
| `Command` | the handlers of pause, resume and jump |
| `GetAllStream` `GetNext` `Read` | both query handlers; a step for each stream that is found and each that is read |
| `Undefined` | a query reads what was deleted or what `start()` is copying; the model ends there |
| `Begins` ... `ReportStop` | what the workers write to the info, with their reports |
| `Collect` `Reload` `Tick` | the collector, SIGHUP, a second |

Time passes while a query fetches and reads, so a stream that was not due when it was
found can be freed before it is read. Each entry of a query therefore has its `until`
(`KeptUntil`): `streamReleaseTime` after the stop time, or after the moment it was found
for a stream that runs.

### RealTimeStreamWorker

One `RealTimeStream` from the start of its worker to its end, with the thread that stops
it. `wpc` is where the worker is in `svr`, `pullAndpushFrame`, `pushFrame` and
`reconnectStreamIn`, whose caller is kept in `caller`. Each step is one operation of the
input or the output, or one look at `m_stop`, and may fail where the operation may.

| Actions | Code |
|---|---|
| `Start` `OpenIn` `OpenInFails` `OpenOut` `OpenOutFails` `InitCodec` `InitCodecFails` `Begin` | `svr` up to the loop, `initStream`, `initStreamOut` |
| `Loop` `Read` `WakeUp` `ReadFails` `Convert` `Progress` | `svr`, `pullAndpushFrame`, `StreamInImp::readData`, `audiotime` with its sleep |
| `ReconnectIn` `InputBack` `InputTried` | `reconnectStreamIn`, called by pull and by push |
| `Push` `PushFails` `RetryOut` `ReconnectOut` `ReconnectOutFails` | `pushFrame` |
| `End` `finiStream` | the end of `svr`, with the stop callback |
| `Stop` `Join` | `RealTimeStream::stop` |
| `Tick` | a second passes |

The position of the stream is modelled by what the code computes: `m_startPtsTime` is
the first time stamp, `audiotime` the distance from it. Time stamps come in any order.
`readData` sleeps until the clock has come that far (`wake`), but the microseconds to
sleep are cut to 32 bits (`SleepWord`), and the position is unsigned (`PositionWord`)
and shown as an int (`IntWord`): the words of the run are small ones. `odd` remembers
that a stamp was before the first one or too far ahead to wait for. `Read` passes over
any number of packets of other sub streams, so it ends only if the source lets it.
`m_streamReconnectTimes` may be 0: `reconnectStreamIn` then returns success without
having touched the caller's frame, which `frame = "none"` stands for.

### Launcher

`Program` is what main does in order, over the list of services, and `at` main's place
in it. The other threads of the process appear as far as they can meet a service's start
or end: the listener and the pool of the HTTP server, the collectors of both managers,
the streams' threads and the senders of both callback clients. The constructor and
destructor of a `std::thread` matter: deleting a stream whose thread is joinable
terminates the process.

| Actions | Code |
|---|---|
| `InitStream` `InitRest` `OpenStream` `OpenInterface` `OpenClient` | `Launcher::init`, `open` over the services |
| `Register` `SetSign` `OnlyUsage` `Interrupt` `Reload` `LeaveLoop` | signals and the main loop |
| `StopManager` `JoinCollector` `ClearStreams` | `StreamMng::close` of both managers |
| `CloseInterface` `Listen` `ListenerEnds` | `HttpServer::close`, `httpListen` |
| `QuitClient` `JoinSender` `DeleteClient` `CloseManage` | `HttpClientManage::close`, `HttpClient::close` |
| `FinitConfig` `FinitStream` `FinitInterface` `Exit` | `Launcher::finit` and the end of main |
| `Accept` `ReadConfig` `Create` `Get` `Start` `Stop` `Return` | a thread of the HTTP pool in a handler |
| `Collect` `GetClient` `Push` `StreamEnds` `Send` `SenderEnds` | the collectors, the streams' threads, the senders |

`Push` discards the oldest message of a full queue, and the request that `Send` makes
may fail, which `threadfunc` does not look at; neither leaves a trace in the process.
`lost` counts what the order of the services costs: callbacks that find no client and
callbacks that die with theirs (`Loss`). `proc` says how the process ended; the members
of `Faults` are undefined behaviour and `terminate`. `QuietIsSafe` says that these need
somebody still in the server.

### Tlv, ProductModel, CmdParser

`Tlv` has the lengths of one or two bytes and the fields of `protocolUtils.cpp`; numbers
are octets in network order. `ProductModel` turns the data of a module into bytes and
back (`property.cpp`, `productModelImp.cpp`): numbers, strings, byte strings,
enumerations, booleans, structures and arrays. A JSON object is a function from its
members' names, an empty one is `NoMembers`.

`CmdParser` holds the parsers of `cmdParser.cpp`. Most of its 3900 lines are one class
per command, with a member function for each parameter; the module states each class as
a table of its parameters, their T and coding, and four operators walk such a table
(`j2b` and `b2j` for the body and its acknowledgement). What differs from the common
form is a flag or an operator of its own: classes that do not pass over unknown
parameters (`skips`), the configuration commands, module data and the commands that are
passed through (`penetrate...`).

### TermMessage, Transfer, TermHeader, TermProtocol

`TermMessage` has the sender's `makePackages` as the operators `SliceCount`,
`SliceOffset`, `SliceEnd`, and the receiver's `initFromTermPackage` as steps of threads
that share one message: `Lock`, `Allocate`, `FillSliceMap`, `FindSlice`, `CopyBody`,
`RepeatedSlice`, `Return`. Any package may be received any number of times, in any
order, by any thread, or never. A package whose CRC is wrong is dropped like a lost one.
`ImplementsTransfer` maps the thread that is told 1 to the delivery of `Transfer`.

`TermPackage` is a package octet by octet: how `makePackages` writes the header, how the
accessors of `termPackageImp` read it, what `makeSliceAck` makes of it, and device ids
as text and as eight octets. `ModelJson` is how models come out of JSON, with each check
of `init` and what a failing one leaves behind; a document is a tree of records `[t,
v]`. `Modules` and `Commands`, which the parsers work with, are constants; `LoadsWhole`
says that the documents load to exactly these.

`TermHeader` puts the two together: `PackageOf` is the package a thread has received,
octet by octet, for a device, with or without serial number and customer, and
`PackagesTell` what its reader finds in it and in an acknowledgement of it. The length
and the signature of an acknowledgement are left out of it: both are wrong (section 5).
`TermHeader` stays apart from `TermProtocol`, whose parsers are recursive, so that it
can be proved about.

`TermProtocol` composes them all: `initFromJson` (parser, packages) at one end,
`getJsonMsg` at the other, with `Beyond` as what the heap holds behind the received
data, because some parsers look there. `ArrivesAsSent` lists what is known to get lost.

### PressTest, MemoryPool

The load generator: the user at the buttons, the worker thread of each test, and for
each client its senders, its timer and its exam timer at the reactor. The counts and
`g_flag` are globals that all clients share.

| Actions | Code |
|---|---|
| `Start` `StartThread` `Stop` `Exit` | the buttons of `CMy80PressTestDlg` |
| `OnSysCommand` | the system's menu, which closes the window at any time |
| `ReadSize` `Begin` `Begun` `NewRead` `New` | `ThreadWorker`: how many clients, and one from the pool |
| `InitList` `InitRequest` `InitTimers` `Push` | `CUdpClient::Init` |
| `BeginDrain` `Drain` `CloseStart` `CloseJoin` `CloseTimer` `Delete` `Finish` | the end of `ThreadWorker`, `CUdpClient::Close` |
| `Beat` `Beaten` `Tick` `TickEnds` | `TimerRoutine`, the reactor's `handle_timeout` |
| `Look` `Send` `SenderEnds` | `SendHartPacket` and its three twins |

`remove_timer_handler` removes the exam timer only of a client whose `reactor()` is set.
Nothing in the repository sets it; ACE may. `Knowing` are the clients for whom it does:
the timer of any other stays and calls a client that is deleted (`TickEnds`).

`MemoryPool` is `Alloc`, which gives the first free unit, and `FreeAlloc`, which never
gives one back: it leaves the loop over the lists only for an index other than 0.

## 4. The runs

| Run | Question | Bounds |
|---|---|---|
| `StreamMng_file` | One stream pushes, stop is final, stopped streams are kept, every request is answered | 1 id, 2 objects, 2 clients, `ReleaseTime` 1 |
| `StreamMng_realtime` | Safety of realtime streams | the same |
| `MessageQueue` | Stop ends pops, whatever the others call | 3 threads, 2 messages |
| `HttpClient` | Order, at most once, overrun, no lost wake-up; nothing stays in the queue | 2 producers, 2 callbacks each, queue of 2 |
| `FileStreamWorker_jumps` | One owner of the input, jumps go where they are asked to, the list goes on behind them | 2 files in sequence, 2 clients, 2 jumps, indexes 1 and 2 |
| `FileStreamWorker_time` | The list in random order, time off the air, the stream ends in time, what is played is heard | 2 files, 1 client, 1 jump, 1 reconnection, 1 second; 8 lists, 8 conversions, 2 outputs, at most 2 packets of a file, one of which meets trouble |
| `FileStreamWorker_stop` | *violation*: stop() never returns | 1 client, 1 jump |
| `RealTimeStreamWorker` | Frames, streams, errors, position and stop over reconnections | 0 to 2 reconnections, time stamps 0, 5, 6 in any order, 2 encoded frames, 2 seconds, words of 3, 8 and 20 |
| `Interface` | What queries show and where reports go, while streams come and go | 2 threads, 3 requests of 13 for files and 3 for realtime, 2 streams, 2 configurations, 2 seconds |
| `TermProtocol` | Commands survive coding, slicing, loss, repetition and reordering; headers and models | 2 threads, 44 messages of the test and at the limits, packages of 128 bytes, at most 3 |
| `PressTest` | Tests end, clients end as a whole, sharing is safe for one | 2 tests, 4 clients, 2 senders each, counts up to 1 |
| `Launcher` | Start and shut-down with all threads, the end after an interrupt | 2 handlers, 1 stream, a queue of 1, 2 callbacks |

The properties, run by run; each is stated in words above its definition.

* `StreamMng_file`: `ExclusivePush`, never two streams of one name that push;
  `FaultOnlyByStopRace`, the one race that faults; `StopIsFinal`, no push after a stop
  and no report where none is wanted; `KeptForReleaseTime`, how long a stopped stream is
  kept; `RequestAnswered`. `StreamMng_realtime` asks for `ExclusivePush` of streams
  whose start fails elsewhere.
* `MessageQueue`: `StopEndsPop`. `HttpClient`: `OverrunByProducersOnly`, how far a full
  queue is exceeded; `NoLostWakeup`; `ImplementsChannel`; `CallbackLeaves`.
* `FileStreamWorker_jumps`: `OneOwner` of the input; `JumpsThere`, what is played and
  what follows. `FileStreamWorker_time`: `PauseNotMissed`; `EndsInTime`;
  `HeardAsPlayed`.
* `RealTimeStreamWorker`: `FrameAlive` and `StreamsPresent`, what is used exists;
  `StopBound`, connections after a stop; `ErrorTold`; `PacedByClock`; `StopReturns`.
* `Interface`: `ShownAsAsked` and `StoppedTellsWhy`, what a query shows;
  `ReportsAsAsked`; `FreedOnlyWhenDue`, streams under a query; `QueryComplete`.
* `Launcher`: `QuietIsSafe`; `ClientsOutliveManagers`; `LostAtTheEdges`, the callbacks
  the order of the services costs; `InterruptEnds`.
* `TermProtocol`: `ReadsBack`, commands; `PackagesTell`, headers; `OneMeansWhole`,
  `ImplementsTransfer` and `AllArrivedCompletes`, slices; `LoadsWhole`, models.
* `PressTest`: `EndsCleanly`; `AloneIsSafe`; `StopEndsTest`.

Why the bounds are enough. Two stream objects are an old stream and its replacement, and
two clients and the collector are all pairs of threads that meet in one stream; streams
of different ids share only the lock, and the collector holds that for a whole pass.
`ReleaseTime` 1 separates "at once", "in time" and "over". Three threads at the queue
are two waiters and one that wakes them. Two producers and a queue of two are enough to
pass the size check together and to discard while the worker takes. Two files are one to
jump from and one to jump to, and a last one to jump to; two jumps of two clients are
the fewest that can share an input; a duration of one second separates "before" from
"over". `Inputs` is no limit: four objects are one more than there are pointers to them.
Two reconnections let the first fail and the second succeed and the other way round, and
0 is the configuration nobody checks; the time stamps start at zero or not, step by one
or by more than the run lasts, and go back; 5 seconds are more than a sleep of the run's
words can be. Three packages are a first, a middle and a last one, and two threads are
all pairs; the messages have lengths on both sides of 127, 128, 255, 256 and of the end
of a package, and one longer than the length field holds (`LengthLimit` stands for
65536). The files of `FileConvert` have a header of their own or not, more, fewer and as
many samples in a frame as the encoder's, equal and other rates and channels; the
conversions ask for rates the encoder has and has not, for rates with and without a
duration in the table, and for one FFmpeg refuses; two packets are one that starts a
file and one that follows, `Latency` 1 lets frames stay in the encoder, and a pool of
two has to grow; one packet in trouble has every fate of two attempts, before and behind
a packet that has none. Three requests are a start, what follows it and a query between
them; two streams of one id are an old one and its replacement. Two tests are one and
the one after it, two clients are the fewest that share. Two handlers are one that uses
what the other replaces; a second stream adds nothing to one that is created, replaced
or stopped at shutdown. A queue of one is full with the first of two callbacks, so that
the second discards it.

Deadlock is checked where the model cannot end. It can in `HttpClient` (the client is
closed or every producer has reported `MaxSubmit` times), `FileStreamWorker` (undefined
behaviour, or the worker waits for ever: section 5), `RealTimeStreamWorker` (the worker
has ended), `FileStreamWorker` with the codec likewise, `Interface` (all requests are
answered and no stream is left, or a query has read what is not there), `TermProtocol`
(every thread has been told), `PressTest` (the window is closed) and `Launcher` (the
process has ended).

Fairness. Threads are scheduled (weak fairness of their steps). `m_streamLock` is free
for at least the collector's second of sleep between two passes, so whoever waits gets
it (strong fairness of `GetStream` and `CreateStream`); in `Launcher` the same is said
of the collectors, whom requests that follow each other do not keep out for ever.
`m_sliceMapMutex` is held for a copy of at most a package (strong fairness of `Lock`).
In `PressTest` threads run and a timer's routine comes to its end. Of the operations of
input and output nothing is assumed in `RealTimeStreamWorker`: `StopReturns` says that
stop() returns unless one of them never does, that is, that no loop of the worker's own
holds it. In `FileStreamWorker` they return. That a stream ends by itself (`SvrFinish`)
is not assumed. A timed pop is over at a point in time that waking up does not move
(strong fairness of `TimeOut`). Nothing else is assumed of clients, signals, networks
and streams.

## 5. Findings

A jump to the last file while the worker is between `size()` and `pop()` leaves the
worker waiting for ever (`fileStream.cpp:282`): the client has been told "success",
nothing plays, and `stop()` never returns (`FileStreamWorker_stop`).

Seen while modelling, and kept visible in the models or named here:

* Streams. A realtime stream that fails to start never sets its stop time
  (`realTimeStream.cpp:504`), so it is collected within a second and its error cannot be
  queried. A second `stop()` returns 0 before the stream has stopped. A reconnection
  that fails in a pause deletes the output and the worker goes on to use it
  (`fileStream.cpp:723`); one that succeeds is counted twice in `m_pauseTime` (767,
  787). A jump beyond the list is not refused (`fileStreamJumpHandler.cpp:58`), and a
  pause right after a jump drops the jump. `~FileStream` sets `m_streamOut` to NULL
  where it means `m_streamIn` (`fileStream.cpp:58`).
* Realtime worker. A source that sends a time stamp before its first one, or one 2^32
  microseconds (71 minutes) or more ahead of the clock, makes the stream show a position
  that was never played: `streamInImp.cpp:460` assigns a negative difference to an
  unsigned number, and 456 cuts the time to sleep to 32 bits. For all other stamps
  `PacedByClock` holds and is proved. `reconnectStreamIn` keeps reopening after a
  success, and with `ReconnectTimes` 0, which the configuration does not refuse, it
  reports success and the worker uses a frame it has never set; `readData` passes over
  packets of other sub streams and looks only at an `m_stop` of the input that nothing
  sets, so that a source without sound can keep stop() waiting (`streamInImp.cpp:236`);
  a failed codec returns without `finiStream`; a decoding error leaks the frame; a stop
  during the output's reconnection is reported as "stream out reconnect failed";
  `playSeconds` starts again at 0 after a reconnection.
* Callbacks. `HttpClient::push` can exceed `MAXMSGSIZE` by one message less than there
  are reporting threads (`OverrunByProducersOnly` bounds it). A callback is lost without
  a trace when the queue is full, when its request fails, and when the process ends:
  `threadfunc` looks at `m_runing` before it looks at the queue (`HttpClient.cpp:56`).
* Process. A SIGINT between the registration of the handler and `m_ThreadSign = true` is
  lost. A service that fails to open makes main return 1 with the others open.
  `HttpServer::close` does nothing when the listener has not started yet. Services close
  in the order they were opened, so handlers that still run meet deleted managers.
  `ConfigMod::init` ignores the result of `load`.
* Interface. The realtime start handler reads `enableProcessCb` and then sets it to
  false. The query handler for files never increments its counter, so it shows the last
  file only. A query may read a stream that was freed or is just being started;
  `FreedOnlyWhenDue` says from when on the first can happen. A start with an empty list
  of files leaves an object in the map for ever. A jump that fails leaves its error in a
  stream that goes on; one without an index takes `curFileIndex` for a place in the
  list. `checkFiles` sets an error and its caller replaces it. `ab * 1000` can overflow.
* Configuration. `getIntParam` and `getBoolParam` only take JSON strings, and the latter
  returns 1 when all is well; `load` writes one byte behind a buffer that is full.
  Setters and change handlers have no caller.
* Outputs. `StreamOutRtsp::writeData` returns 0 for packets it drops while the pusher
  connects (103). `StreamOutRtmp::writeData` moves its clock before it pushes (143), so
  that a frame that is refused and sent again after a reconnection takes its time twice.
  When a frame is given up `pushFile` returns with the encoder's other packets unsent,
  and their objects never get back to the pool (`fileStream.cpp:685`).
* Codec and clock. For a file without an ADTS header of ours `readData` gives each
  packet the distance to the one before, and the first has none (`streamInImp.cpp:437`):
  the output's clock stands still for a frame at the start of every file that is passed
  on, and at every repetition of the silence of a pause. `GetAdtsDuration` has no
  duration for 32000, 24000, 16000, 12000, 8000 and 7350 Hz: AAC of those rates carries
  the duration 0, the output's time stamps stand still, and a file of such a rate is
  refused as no file (`fileStream.cpp:361`). `StreamInImp::open` takes one frame's
  duration for that of a whole AAC file (183). The encoder notes a frame's format before
  `avcodec_open2`: a format FFmpeg refuses fails once and then uses a fifo that is not
  there (`audioEncoder.cpp:224`). When the rate asked for is not supported the encoder
  takes the first it has, and headers and output go on telling the other. Samples in
  fifo and encoder are dropped when the format changes, and the encoder is never
  flushed. An unsupported codec is no error of `initDecoder` or `initEncoder`; all
  frames are then dropped in silence. Frames over 20480 bytes are not decoded. `ID()`
  writes the bit of `protection_absent`, `channel_configuration` keeps two bits of
  three, and a CRC in an ADTS header is left in the data. A failed decode leaks its
  frame (`fileStream.cpp:598`). `Mp3AudioParser` returns `false`, which is 0 and
  success, for a bad header. Lists of MP3 may change rate and channels; the output is
  told those of the first file.
* Protocol. `initFromTermPackage` erases a slice before it copies its bytes
  (`termMessageImp.cpp:127`) and `isComplete()` takes no lock, so a thread that only
  asks can find a message complete that has a hole; the one that is told 1 has the whole
  (`OneMeansWhole`, proved). `setTermConfigReq::b2j` takes the 0 of `dataB2J` for a
  failure and throws away every module it has read (`cmdParser.cpp:2499`), which the
  test's comparison would show (`test.cpp:120`). `makePackages` tests for more than 255
  packages, which 16 bits of length never need. `clear()` keeps `m_sliceMap`.
  `getTermConfigResp` loses the last byte of data above 127 bytes (2135). `dataB2J` is
  given 4 bytes more than are left (515, 758). `serverDiscoverResp` without `ipv6` is
  sent empty.
* Packages. `makeSliceAck` signs the package and then writes its length into it, in host
  order (`termPackageImp.cpp:365`): an acknowledgement never verifies and `length()`
  reads 8192 for 32, though what it names is right (`AcksTell`). It asks for 24 bytes of
  buffer and writes 32. `verify` calls `ver()` before it tests the size. Device ids
  dated in summer time lose a day. `devidCache` answers an alias with the text put in
  last. A message given an acknowledgement first creates one that is complete and
  uninitialised.
* Models. `commandModelRepo::init` writes its map without the mutex `getCommandModel`
  takes; `addProductModel` replaces a model without deleting it; indices are checked
  neither for being unique nor for their range.
* Load generator. Line 412 of the dialog tests `m_testing && m_exit`, though its comment
  says "running, or the thread has not stopped yet": a second worker can be started
  while the first runs. `PressTest` therefore runs with a user who waits (`Patient`).
  `g_flag` is never reset, so that closing one client ends the senders of all, and a
  later test sends no exam heartbeats. Two senders that take one tick make a count
  negative, and then they send for ever. Fewer than 160 ids are read beyond their end. A
  size of -1 makes `while(size--)` endless. `OnSysCommand` hands SC_CLOSE on, so that
  the window can be closed in the middle of a test (355). Whether the exam timer of a
  deleted client is removed depends on ACE setting `reactor()` (`ReactorSvr.cpp:73`).
  The pool never gets anything back.

## 6. Proofs

All theorems hold for any values of the constants that satisfy the modules' assumptions.

* `StreamMng_proofs`: `TypesCorrect`. `TypeOK` alone is not inductive: a client indexes
  the map with the id of its request, so `ClientsHaveRequests` goes with it.
  `RetentionHolds` and `FilesKept`: a stopped file stream stays in the map for more than
  `streamReleaseTime`, whatever the clients do. The inductive invariant `RetentionInv`
  has three more parts. `IdleSinceStopTime`: a worker's true idle time is at least as
  long as its stop time tells, so an expired one has been idle long enough.
  `CollectsOnlyDue`: while the collector is in stop() the entry still is in the map and
  due, because it holds `m_streamLock` and its reference keeps the object alive.
  `StartsFresh`: the object a client starts is one nobody started before; otherwise a
  start would revive a stream the collector is about to erase. The assumption `Kind =
  "file"` is necessary: the realtime manager violates the property. `OnePushes` and
  `OnlyStopRaceFaults`, for clients that serialise, any number of them and both kinds of
  stream, rest on `ExclusionInv` (`ExclusionHolds`): who holds an object, who has passed
  the test of its `m_stop`, who may join its thread, and that an object out of the map
  has stopped before another takes its id. It is needed because the collector and a
  client may stop the same object, and only that pair can. `StopFinal`: for file streams
  and prompt workers nothing pushes after `stop()` has returned and no callback follows
  a `stop(false)`. `SilenceInv` adds why the collector, which stops with a report, does
  not ask for it again: a worker that has not ended is not idle and a prompt one not for
  long, so its stream is not due.
* `HttpClient_proofs`: `OverrunBounded`, for any number of producers and any limit. The
  invariant `Bounded` counts the `Pushers`, the producers that have passed the check of
  the size and not yet pushed, together with the queue. `ClientIsChannel`: the client
  refines `CallbackChannel`. `ChannelInv` says that the request a producer is about to
  push is neither queued nor being sent nor sent (a producer's requests are numbered,
  and `Last` is the number it has pushed), and that no worker runs before `open`. With
  it each action is one of the channel: `Push` submits, `Discard` loses the oldest
  message that is not being sent, `Send` delivers or loses the oldest, everything else
  stutters; that the worker takes a message changes nothing, as `Waiting` has it first
  before and after. The queue below it: `NoWakeupLost`, for any finite set of producers
  and the worker, which may call anything in any order: there are never more messages
  than threads awake in `pop` or about to notify, while another sleeps. The invariant is
  inductive together with the types; the proof counts how each step changes the set of
  threads that are up. `StopIsHeard`: no thread sleeps in `pop` on a stopped queue that
  nobody will notify. `ClientUsesQueue` joins the two: each step of the client is a step
  of the queue (a producer calls only when it is in no call, and by `Bounded` pushes
  only within the queue's bound), so `ClientLosesNoWakeup`.
* `FileStreamWorker_proofs`, for any number of clients, files and inputs above 3.
  `TypesCorrect`. `PausesAreCounted`: `PausesCounted` adds what `PauseNotMissed` leaves
  out, the pause or reconnection that is under way, whose seconds are in no variable yet
  but the two clocks it was begun with. `InputsHaveOneOwner` and `JumpsAreThere` rest on
  one inductive invariant, `JumpInv`. Neither is inductive: that a jump goes where it
  should depends on the new input being nobody else's from the moment the handler makes
  it (`JumpersOwn`), on a jump being in the slot exactly when an input is (`SlotInv`),
  and on what the play stack holds at every place between emptying it and playing from
  it. For a list in sequence that is a run of ascending indexes, of the worker
  (`WorkerInSequence`) or of the handler (`InSequence`); for a random one it is that no
  file is twice on the stack and in the array that is still to be pushed, and that the
  file jumped to is on top (`AtRandom`), since `updatePlayStack` pushes it first and
  then all others. All of it holds while no jump is `astray`; once one is, nothing is
  claimed. The run `FileStreamWorker_jumps` has lists in sequence only, the theorem has
  both. `PlayedIsHeard`, for any lists that `checkFiles` takes, any conversions a
  request may ask for, any packets, `Latency` and size of the pool. The way of the
  packets is four folds in each other, of files, packets, what an encoder puts out and
  rounds of `encode`. The community modules define a fold by a recursive function over
  sets of indexes; the first lemmas (`FoldExists` to `SamplesAppend`) show that it is a
  sequence of states, each made of the one before, so that an invariant can go along it
  (`Upwards`). That invariant is `Good`. `Balanced`: the samples decoded are those in
  the fifo, in the encoder, given up when it was opened again, and in the packets that
  were pushed (`AllTried`: each by the attempts that are its fate), left over after one
  that was given up or, within a round, still to be pushed; `Changes` bounds those given
  up (`BalanceKept`). `OutOK`: the output's clock is the sum of the durations of what it
  has handed to the pusher since it was opened, and no more than a millisecond ahead of
  a time stamp; one attempt keeps it, whatever its end, and so do all of a fate.
  `PoolOK`: the pool is short of the objects that hold packets still to be pushed and of
  those left, and of no other. `Opened`: the encoder's header tells the rate and the
  number of channels that were asked for. Below it are the lemmas that a parser reads
  what the setters wrote (`HeaderTells`, `LengthTold`, `Mp3Told`) and that the table of
  durations agrees with the samples (`ClockOf`). A conversion that FFmpeg refuses keeps
  another invariant, `Muted`: no packet is made, and the fifo that is not there is the
  only fault. `FileConvertAssumption` names what is assumed: conversions as
  `filestreamStartHandler` takes them, rates of files of 25 and more, AAC frames of 1024
  samples, packets that fit the 13 bits of an ADTS length, and frames of PCM not so long
  that pieces of whole samples outlast them (at 22050 Hz, two seconds).
* `TermProtocol_proofs`: `LengthReadBack`, for every length below 16384.
  `PackageReadBack`, for any header and slice: what `makePackages` writes is what the
  accessors read; the lemmas say at which octet each part begins, with and without
  serial number and slice. `AckReadBack` says the same of `makeSliceAck`, for any
  package with a slice, but not its length and signature, and `DeviceIdReadBack` of
  device ids. With `PartFits` (every slice of a body that fits the length field fits a
  package, and its numbers their octets) they give `PackagesAlwaysTell`, `PackagesTell`
  for all packages of all messages; that a thread at "enter" holds a slice of the body
  comes from `IInv`. `WidthAssumption` names the widths: a package's body and its 32
  bytes of header and signature in 16 bits, a body in 16 bits and its slices in 8, which
  1024 bytes a package keep far below. `OneIsWhole` and `Implements`, for any number of
  threads, any body and any package size. The inductive invariant `IInv` says that a
  byte that is not yet right belongs to a slice that is still in `m_sliceMap` or is
  being copied by the thread in the mutex; the slices cover the body (the lemmas on
  `SliceOffset` and `SliceEnd`, by division), so when the map is empty and the mutex is
  free the data is the body.
* `RealTimeStreamWorker_proofs`: `NothingDangling`, `NothingMissing`, `StopIsBounded`,
  `ErrorsAreTold`, `NeverAhead`. `IInv` adds to the types where each label can be
  reached from: with which streams, in which frame, and with which bound on `tries`; a
  frame that was never set is only found where no attempt is to be made. `NeverAhead` is
  about any time stamps: a position that is not `odd` is that of a packet whose sleep
  was not cut, so `wake` lies no earlier than the position tells, and a stamp that is
  `odd` is never shown as one that is not.
* `Launcher_proofs`: `SafeWhenQuiet`, `ClientsLast`, `NoneLostToTheOrder`, for any
  number of handlers and streams and any limit of the queues. Callbacks are lost in
  service to full queues and failed requests; the last theorem says that none is lost
  because a client is not there. `IInv` ties every service's state to main's place in
  `Program`, and says that a stream in a map or in a handler's hands is alive.

* `Interface_proofs`, for any clients, ids, requests, lists of files, configurations and
  streams. `Inv` is the inductive invariant, proved part by part, each from the parts
  before it. `Types` ties a client's place to its request and to what it holds, and
  every map to the kinds and ids of its streams. `WritersApart` (requests that write are
  for different streams, see `Alone`) and `CopiesOwn` (what `start()` is about to copy
  to is the untouched stream in the map) say why nobody takes a stream out of the hands
  of the handler that fills it. `WorkersOK` says what the info tells at each place of
  the worker: "stopped" only after the stop time and the last error. On these rest the
  parts the theorems need. `InfosAsAsked`: an info is the default one or the requested
  one, never a mixture, whoever reads (`QueriesShowWhatWasAsked`; that the last file of
  the map is the last one asked for is a fact about finite sets of integers,
  `LastIsShown`). `ShownOK`: a status that was read as stopped stays so and the error no
  longer changes (`StoppedIsExplained`). `CallbacksAsAsked` (`CallbacksGoWhereAsked`).
  `EntriesKept`: what a query has found leaves the map only by a newer stream for its id
  or by the collector, which takes nothing before the `until` of the entry: `stopTime`
  is set once, to now, and before the status, so that a stream that ran when it was
  found stops no earlier than that (`OnlyDueStreamsAreFreed`). `FetchOK`: what was there
  all the time has been found or is still to be looked for (`QueriesFindAll`).
* `PressTest_proofs`, for any sizes, batches, clients, senders, blocks of the pool and
  tests, under one assumption, `Patient`: a test is started when the last one has ended.
  The dialog does not enforce that (section 5), and without it two workers may drain one
  list. `PressTypes` is its type invariant; `Inv` has a part for each thing the program
  relies on and does not test. `OneTest`: `m_testing` and `m_exit` tell whether a worker
  runs, and it is the one of the last start. `SizesOK`: a batch that is left has serial
  numbers; by the division in `Count`, size is more than what full batches before the
  last one need, so the countdown in `Rest` meets a negative size only when nothing is
  left. `ListOK`: a client that lives is in the list once or in the worker's hands,
  never both, and what is closed is the head of the list. `EndedOK`: `CloseJoin`,
  `CloseTimer` and `Delete` each find what the step before has ended; timers are started
  only for a client at hand. `AloneOK`: while clients come one at a time all ticks are
  the first one's, since `g_flag`, set when it is closed, ends the senders of those that
  follow. `SharesOK`: blocks are numbered as they come and give their units in order
  (`AllocOf`), and what the worker found in `NewRead` is still the pool in `New`. On
  these rest `ClientsEndCleanly` (with the exam timer of a client in `Knowing`; of a
  window closed by the system's menu it says nothing), `ClientAloneIsSafe`, `LoopsEnd`
  (the size of -1 that a test leaves is replaced before the next worker counts down from
  it), `NoDeletedClientIsUsed` and `DeletedForGood` (senders and heartbeats).

The inductive invariants were checked by TLC on the runs' constants, in both play modes
and with both kinds of stream, before they were proved.

Only model-checked: liveness everywhere (fairness and ENABLED are beyond the prover),
and the two properties of `TermProtocol` that rest on recursive operators, `ReadsBack`
and `LoadsWhole`.

## 7. What is not modelled

* The octets of the CRC: two signatures are equal when they were made of the same
  octets. Of base64 byte strings only that they are refused (`property.cpp:400`).
* Signal processing, demuxing and the network (FFmpeg, libcurl, httplib, the rtmp
  pusher, ACE), except as steps that succeed or fail. What a pusher does with what it
  was handed is not known: `HeardAsPlayed` ends there.
* Seeking and the clock of `StreamInImp` in a pause; `StreamOutFile`, which is for
  tests.
* `AppConfig`'s setters, `save` and change handlers, which nothing calls.
* Signals that arrive while no handler is registered: they end the process.
* Of 80press: the contents of messages and the answers, which set numbers nothing reads,
  the rows of the list, ACE's calls that run while a timer is removed, and the dialog
  `CPullStreamDialog`, `CThread` and `List_Node`, which nothing uses.
* Logging; generated and vendored files.
