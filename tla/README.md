# OvenMediaEngine in TLA+

A verification development of the core of OvenMediaEngine (OME): the path of a
stream through the server, and what the threads on that path may do to each
other. Paths below are relative to `src/projects/` of the repository; `docs/` is
its documentation directory.

## 1. The system

OME takes live streams from *providers*, passes them through the *media router*
to the *transcoder*, and from there through the media router again to
*publishers*, which serve the viewers.

    provider --AddStream/SendFrame--> MediaRouteApplication (inbound)
      --OnStreamCreated/Prepared/SendFrame--> TranscodeApplication
      --CreateStream/SendFrame--> MediaRouteApplication (outbound)
      --OnStreamCreated/Prepared/SendFrame--> pub::Application --> sessions

Everything is called directly, by the thread that has something to tell, and
packets change threads in queues. There is no supervisor: each component guards
its maps with a mutex of its own and gives it up before it calls the next one. The
hard behaviours of the server are the steps of two threads between two of these
locks.

### Inventory

| Component | State | Operations | Correct when | Here |
| --- | --- | --- | --- | --- |
| Managed queue (`modules/managed_queue`) | list of nodes, stop flag, one condition variable | Enqueue, Dequeue, Clear, Stop | no lost wake-up, bound and order hold | `ManagedQueue` |
| Push provider (`base/provider`, `base/provider/push_provider`, `providers/rtmp`) | channels by id, streams of an application, state of a stream | OnConnected, PublishChannel, JoinStream, AddStream, OnDisconnected, DeleteStream, ChannelTaskRunner, Terminate | one deletion per stream, the policy on duplicate names, nothing left behind | `PushProvider`, `StreamLife` |
| Media router application (`mediarouter`) | inbound and outbound streams, observers, indicator and packet queues, prepared/ready flags, stream taps | OnStreamCreated/Prepared/Deleted/Updated, OnPacketReceived, the two worker threads, mirroring | packets in order and delivered, a ready stream is announced once | `MediaRoute`, `PushProvider` |
| Transcoder application and stream (`transcoder`) | streams, their state, the preparation thread, buffered packets, links of codecs | OnStreamCreated/Prepared/Deleted/Updated, Push, PrepareAsync, Stop | prepared once, the deletion joins the preparation and leaves no output | `MediaRoute` (bypass) |
| Publisher application (`base/publisher/application.cpp`) | streams, application workers and queues | OnStreamCreated/Prepared/Deleted, OnSendFrame, WorkerThread | started once, stopped when deleted | `MediaRoute` |
| Publisher streams and sessions (`base/publisher/stream.cpp`) | stream workers with two queues and a semaphore, sessions | AddSession, RemoveSession, SendMessage, BroadcastPacket, WorkerThread, Stop | no session on a stopped stream, no lost wake-up | `LLHlsStream` |
| LL-HLS (`publishers/llhls`, `modules/containers/bmff/fmp4_packager`) | segments and parts of each track, chunklists, sessions, requests they hold, user data of a connection | OnMediaChunkUpdated, the request and close handlers, OnPlaylistUpdated, Stop | a held request is answered once its part is there | `LLHlsStream` |
| Pull provider (`base/provider/pull_provider`) | motors, streams, states and retries, names being pulled | PullStream, CreateStream, the motor threads, the collector, Resume, failover, DeleteStream | one stream per name, a motor has its streams, dead streams go | `PullProvider` |
| Orchestrator (`orchestrator`) | virtual hosts, applications and their idle timers, modules | CreateApplication with rollback, DeleteApplication, RequestPullStream, OnStreamCreated/Deleted | modules and lists agree, a failed creation leaves nothing, unused applications go | `Orchestrator` |
| Sockets (`base/ovsocket`) | sockets of a worker, dispatch queue, states | AddToEpoll, Send, Close, close callbacks | each connection gets its callbacks once, in order | only the order close/callback, in `PushProvider` |
| WebRTC (`providers/webrtc`, `publishers/webrtc`, `modules/rtc_signalling`) | sessions, signalling, channels | offer/answer, publish, stop | as the push provider, other order | hazard listed |
| SRT, MPEG-TS, RTSP, OVT, file providers | protocol sessions | parse and forward | as push and pull providers | not modelled |
| Scheduled, multiplex channels | schedules, tapped streams | load, switch, fall back | the item on air follows the schedule | not modelled |
| RTMP chunks (`modules/rtmp`, `rtmp_stream.cpp`) | parser state | handshake, commands, chunks | byte format | not modelled |
| HLS (TS), segment writer | segments, playlists | append, publish | playlist lists what exists | not modelled |
| OVT publisher, packetizer | packet buffers, sessions | packetise, describe | messages reassembled | not modelled |
| Push, file, SRT, thumbnail publishers | session controllers | start, stop, split | recorded state follows the API | not modelled |
| ICE, DTLS, SRTP, HTTP, RTP/RTCP, jitter buffer | protocol state | I/O | protocol conformance | not modelled (formats, external libraries) |
| Codecs, filters, bitstreams, containers | codec contexts | convert | format | not modelled (external libraries, no shared decisions) |
| Access control, origin map | webhooks, Redis client | admit, register | remote policy | not modelled (I/O) |
| Monitoring, alerts, API server, configuration | counters, settings | report, control | do not decide | their calls appear as `TerminateStream`, `SendEvent`, `ApiCall` |

### The hard behaviours

- A stream is ended by its socket worker (disconnection), the channel task runner
  (silence), another client of the same name, and the API through the orchestrator,
  at the same time.
- Names are checked, and streams added, under different locks.
- A channel's id is the file descriptor of its socket, which the kernel gives to the
  next connection before the close callback of the first one has run.
- The inbound stream is visible to the workers before its observers know it, and the
  creator and the worker both look whether the stream is ready to be announced.
- The transcoder prepares a stream on a thread of its own, which calls back into the
  media router, while packets arrive and the input is deleted.
- Publishers start a stream outside of the lock under which they found it.
- Producers and consumers of a managed queue wait on one condition variable.
- The collector resumes a pulled stream without its lock while a request or the API deletes
  or terminates it; a motor is found in a table and used after the table's lock is given up.
- An application is looked up, inserted, told to each module and observed in separate
  steps, and deleted in separate steps by the API, a rollback and a timer.
- An HTTP connection finds a session which another connection of the same player removes,
  or which Stop has just cleared; Stop joins the stream's worker under the lock
  that requests and the packaging thread wait for.
- A request for a part that does not exist yet is held, and must be told of the part
  whenever it comes: before, while or after the part is made.

`PROJECT.json` lists them all at their lines with the properties that watch them.

## 2. Modules

| Module | What it is |
| --- | --- |
| `ManagedQueue` | `ov::ManagedQueue` with any number of producers and consumers |
| `ManagedQueueProofs` | its theorems and their proofs |
| `PushProvider` | RTMP connections, the push provider, the application's streams, the media router's inbound streams and what the observers were told |
| `PushProviderProofs` | its theorems and their proofs |
| `StreamLife` | abstract: what an application promises about each input stream |
| `StreamLifeProofs` | the proof that `PushProvider` implements it |
| `MediaRoute` | one application: creator, preparation threads, inbound, outbound and publisher's workers |
| `MediaRouteProofs` | its theorems and their proofs |
| `PullProvider` | pull requests, the collector, motors and their threads, the API, the origin |
| `PullProviderProofs` | its theorems and their proofs |
| `Orchestrator` | applications of a virtual host: pull requests, the API, the idle timer, and the modules they tell |
| `OrchestratorProofs` | its theorems and their proofs |
| `ApplicationLife` | abstract: in which order the parts of the server take and give up an application |
| `ApplicationLifeProofs` | the proof that `Orchestrator` implements it |
| `LLHlsStream` | one LL-HLS stream: connections, sessions, the stream worker, the packaging thread, Stop |
| `LLHlsStreamProofs` | its theorems and their proofs |
| `MC*` | the instances for TLC; each `.cfg` gives the constants and the properties |

Operators named "Mutant: ..." in a comment are plausible bugs. They are not
part of the specifications: substituted for the definition that follows them, each makes
one property fail, which shows that the property can.

### ManagedQueue

State: `queue` is the linked list from `_front_node` to `_rear_node` (`_size` is its length);
`stopped` is `_stop`; `pc` says where each thread is in its call: `ready` (will get
the mutex), `waiting` (inside `wait_until`), `expired` (timed out and about to look a last
time). `exceedWait` and `delayed` are the two options, set before the threads run and
chosen by `Init`. A node is numbered in the order of creation, which is the order of
its `_start` stamp; `ripened` is the number up to which nodes are older than
`_buffering_delay`, and `Ripen` is the clock. `held` is the node of an unfinished Enqueue.

A call runs atomically under the mutex between two waits, so that `EnqueueInternal`
and `DequeueLocked` are one action each: push, drop, or block; take, give up or block.
`notify_all` makes every waiter ready; a woken thread looks again. `SpuriousWake` is what the
standard allows a condition variable. `Expire` stands for any timeout, including none,
as it is never fair. The code that skips messages is compiled out
(`SKIP_MESSAGE_ENABLED` is false) and is not in the model; the metrics decide nothing.

### PushProvider

A connection has a socket worker that runs its callbacks one after the other, so
`pc[c]` is where that worker is in the handler of connection `c`; `Runner` is the
channel task runner. `channels` is `PushProvider::_channels`, `streams` is
`Application::_streams`, `inbound` is `MediaRouteApplication::_inbound_streams`, and
`observed` is what the transcoder and the orchestrator have been told. Handlers are split at
each lock they take: `JoinStream` (the policy), `AddStream` (the first check in the media
router), `InsertStream` (under `_streams_guard`), `OnStreamCreated` (the second check),
`CreateInboundStream`, `NotifyStreamCreate`; and for the deletion `EraseChannel`
(`_channels_lock`), `Unlist` (`_streams_guard`, then Stop), `NotifyStreamDeleted`,
`DeleteInboundStream`.

`Init` chooses the policy, the names and the handles: two connections may share
either. A handle is given out by `Accept` when no other open socket has it, and
is free again as soon as the socket is closed. The two workers run in parallel: the
server's RTMP worker count is configurable (its default is 1, and then two RTMP connections do
not interleave, while two providers of one application still do). Handles and names are
never changed; a client that connects again is another member of `Connections`.

Data goes to the channel that the id names. That of the connection's own channel is `JoinStream`; an
id that still names the channel of a closed connection gives it to that one's stream (`StrayData`), which
makes nothing of it or stops. `OneDeleter` and `TypeOK` hold whatever handles are reused;
`MaintainsExisting`, `NoOrphan` and `KeepsStreamLife` speak of streams with a handle of their own. What an
id that is used twice does to its two connections is in the model, and no property forbids it, as the code
does not prevent it: `OnChannelCreated` keeps the old channel under the id (`emplace`), the new connection has
none, its data goes to the old stream; or a deletion of the old stream takes out the new channel by its id.

`StreamLife` is the abstract specification: per stream a life of *listed, routed, announced, unlisted,
withdrawn, gone*, each once and in that order, and nothing else. The refinement mapping `lives` reads it off the three
lists and `published`; it speaks of streams under the policy whose
handle nobody else has, since without either TLC finds streams that are orphaned (see the violations).

### MediaRoute

Threads: `Creator(s)` is the provider's thread that adds, feeds and deletes the stream;
`Preparer(s)` is `TranscoderStream::_prepare_thread`; `InWorker` and `OutWorker` are the worker
threads of the media router; the publisher's `ApplicationWorker` needs no place as its loop
is one step. `mutex` is `TranscodeApplication::_mutex`, the one lock that is
held while another thread is waited for. Other locks guard single steps.

| Actions | Code |
| --- | --- |
| `CreateInboundStream`, `OnStreamCreated`, `CheckPrepared`, `OnStreamPrepared`, `Launch`, `MarkPrepared` | creation: `MediaRouteApplication::OnStreamCreated`, `NotifyStreamPrepared`, `TranscoderStream::Prepare` |
| `RequestWebhook`, `CreateOutboundStream`, `Serve`, `CheckOutPrepared`, `FindStream`, `StartStream`, `MarkOutPrepared`, `PrepareInternal` | `PrepareAsync`, with what the output's notifications make the publisher do |
| `SendPacket`, `SendEvent`, `PopInbound`, `Push`, `SendBufferedPackets`, `PushPacket`, `BufferMediaPacketUntilReadyToPlay` | inbound packets |
| `PopOutbound` (with `Waits`, `Popped`), `OnSendFrame`, `PopStreamData` | outbound packets |
| `DeleteStream`, `OnStreamDeleted`, `JoinPrepareThread`, `StopServing`, `DeleteOutboundStream`, `EraseTranscoderStream`, `DeleteInboundStream` | deletion |

`Push` of the transcoder finds the stream prepared and takes what was buffered, then sends it and the
packet itself one by one, with `mutex` held all the while: each is a step, and the outbound worker
may run between them.

Abstractions. A packet is its number, an event is 0. The indicator queue of a worker and the packet
queue of each stream are one queue: a worker pops one of each. `Parse` is
the moment when the last track becomes known, by the signalling or by a packet. Each worker may drop
the packet it pops (no track, a failed normalisation, an alert), after what the packet says of its track
was taken. An outbound packet without duration waits in `stash` for the next one of its track, which
goes out in its place: `Init` chooses the streams whose packets have a duration (`timed`), as
the packets of a track all have one or none have; a track that mixes them would let one overtake
another, and is not modelled. A stream has one track and one output stream, which bypasses the codecs, and there is one publisher, which may refuse the stream.
`_is_stream_prepared` is a plain flag written and read by several threads; each
access is taken as atomic. `aborted` is
`std::terminate()`: assigning to a joinable `std::thread` ends the process, and
nothing happens after it. The deletion of a stream begins when its creation has returned, on the same
thread; one that begins while the creation still tells the observers is modelled in `PushProvider`, as far
as the provider and the media router go. A webhook, the creation of outputs, the preparation of decoders and the
start of a publisher's stream may fail. A packet may fall through `Push` when the
preparation ends between the reads of the state: it is dropped, as in the code.

### PullProvider

A stream is its id. Motors are objects, named by the stream they were made for; `listed` is
`PullApplication::_stream_motors`, which is by id modulo the configured count, so that a
motor can be used after another one has taken its entry. `pulling` is `_pulling_table` of
`pvd::PullProvider`; `armed` says which motor's epoll watches a socket. Each step of a thread ends where
the code gives up a lock: a deletion is `DeleteFindsMotor`, `DelStream`, `CountStreams`,
`StopMotor`, `EraseMotor`, `EraseStream`, `StopStream`.

`STOPPED` and `ERROR` are one state, as every reader treats them alike; connecting is a
step that ends stopped, terminated or playing. A motor that still runs when neither the table nor a
thread refers to it has been destroyed with its thread, which is `std::terminate`. `Fresh` says that the
collector's timeouts, which are seconds long, do not elapse between the insertion of a stream and the
return of the request. The origin may die at any moment and stays dead (`up`); `MaxStreams`
bounds the ids and `MaxRestarts` is the configured retry count.

### Orchestrator

An application is named by the thread that creates it, which makes it differ from another one of
the same name, as its id does in the code; each thread creates one at most. The modules are the
media router, the transcoder and one provider, registered in the order of `main.cpp`. A creation is `CheckName`,
`InsertApplication`, one `ModuleCreates` (or `ModuleRefuses`) per module, and
`ObserveRouter`, which is `GetApplication` and `RegisterObserverApp`; a deletion is `FindToDelete`,
`EraseApplication`, `UnobserveRouter` and one `ModuleDeletes` per module in reverse order.
A request pulls into the application it found, which may have been deleted since; its stream
reaches the orchestrator if that observes the application. The stream may end (`StreamEnds`) as soon as the
provider lists it, before the orchestrator has entered it into its map (`MapStream`) or stopped the idle
timer (`StopIdleTimer`); `cut` marks the applications that were told of a stream's deletion while they were
told of its creation. `left` is the application whose `OnStreamDeleted` runs for a stream. The provider is one that is enabled for the application and
available: `Provider::OnCreateApplication` answers success for the others as well and keeps nothing
(`provider.cpp:84-107`), so that they take no part in what is checked, and `CreatedEverywhere` speaks of
the modules that take applications. `raced` marks the
applications whose deletion began before their creation had ended, which the API can do and
nothing in the code prevents; `crashed` is the null dereference in
`MediaRouter::OnDeleteApplication`, and nothing happens after it.

`ApplicationLife` is the abstract specification of one application: the modules, numbered in their
order, and the orchestrator that observes it as the last one, take it one after the other; whole, or
refused by a module and then observed all the same, it is given up from the last one that has it to
the first; it never comes back. The refinement mapping is `Life(a)` and `Parts(a)`. One that is deleted
while it is created is *broken* from then on, and nothing is promised of it. The specification is
stated per application since one step of a thread can end the deletion of one and the hope of
another.

### LLHlsStream

Threads: each HTTP connection runs its requests one after the other and then its close handler
(`pc[c]`); the packaging thread (`chunk`); the stream's worker; and the thread that calls Stop (`stop`).
A session is named by the request that created it. `sessions` is `Stream::_sessions`,
`served` is `StreamWorker::_sessions`, both by session id; `user` is the user data of a connection,
`connected` the connections a session knows.

| Actions | Code |
| --- | --- |
| `WaitUntilStart`, `GetSession`, `AddSession`, `AddSessionToWorker`, `SendMessage` | the request handler of `LLHlsPublisher` and `Stream::AddSession`, `SendMessage` |
| `OnConnectionDisconnected`, `IsNoConnection`, `RemoveSession`, `RemoveSessionFromWorker` | its close handler and `Stream::RemoveSession` |
| `AppendMediaChunk`, `AppendPartialSegmentInfo`, `NotifyPlaylistUpdated` | the fMP4 storage, `LLHlsStream::OnMediaChunkUpdated`, `BroadcastPacket` |
| `OnMessageReceived`, `SendOutgoingData`, `Exit` | `StreamWorker::WorkerThread` and the handlers of `LLHlsSession` |
| `ClearTracks`, `StopWorkers`, `JoinWorkers`, `ClearSessions` | `LLHlsStream::Stop`, `pub::Stream::Stop` |

`Init` is a stream that is STARTED with one worker: the sessions of one id are always on the same worker, so a
second one adds none of the interleavings of interest. An enqueue and its notification are one step,
since the worker that comes between finds the same as a worker that comes later. Access control is
off; in origin mode each connection has an id of its own, which is `player[c] = c`. Parts
are numbered on from segment to segment, and segments are not deleted.

Reading the code for this module showed four behaviours that the model has and no property forbids.
The session of a connection whose user data has moved on to another session stays until Stop. A
closing connection removes a session by id, which may be one that another connection has just found
(`HeldIsReleased` speaks of sessions the worker has). A request that is queued or held when the
stream stops is never answered, as the result of `SendMessage` is ignored. A held request for a
playlist or a chunklist is answered *not found* if its part comes while another track has no segment
yet.

## 3. Runs

| Run | Instance | Shows |
| --- | --- | --- |
| `queue` | 2 producers, 2 consumers, threshold 1, 3 items | bound, order, no lost wake-up on either side, delivery, Stop |
| `queue_delay` (violation) | 1 producer, 1 consumer, 2 items | the last items of a delayed queue may stay |
| `push` | 2 connections, 2 names, 2 handles, stray data | one deleter, no orphans, the existing stream is kept, nothing left behind, the life of `StreamLife` |
| `push_overlap` (violation) | 2 connections, 1 name | a stream published and routed nowhere |
| `route` | 1 stream, 3 packets with or without duration, 1 event, buffer of 2 | order, single start, join before deletion, a ready stream is prepared and a ready output started |
| `route_stop` (violation) | 1 stream | a started stream that is deleted |
| `route_event` (violation) | 1 stream, 1 event | a stream marked as prepared that nobody prepares |
| `pull` | 2 requests, 1 or 2 names, 1 or 2 motor ids, 2 streams, 1 retry | one stream per name, a motor is there for its streams, requests return, streams of a dead origin go |
| `pull_deleted` (violation) | the same | a deleted stream that plays on |
| `orch` | 2 pull requests, 1 call of the API, 1 name, the timer | an application is in all modules or in none, no null route, the life of `ApplicationLife`; an unused one is removed, unless told of a stream's deletion during its creation |
| `orch_idle` (violation) | 2 pull requests, 1 name, the timer, no API | a deletion beside `OnStreamCreated` leaves an unused application that no timer removes |
| `hls` | 2 connections of one player, 1 track of 2 parts | held requests do not miss their part, are released and find it, no lost wake-up, Stop ends and leaves no session |

What a property says is in the comment above it. The violations are disagreements of the
code with what its comments or its documentation say; `PROJECT.json` quotes the line for each.

### Bounds, and why they are enough

- Queue: two of each side are needed for a notification to reach the wrong side or the wrong one of
  a side. A threshold of one gives a full queue at once; three items allow an urgent one to overtake
  and one to be left. `MaxItems` bounds only the history: it guards `Enqueue` and nothing else.
- Push provider: every race here is of two connections, or of a connection and the task runner, or
  of a connection and the API. Two handles and two names, assigned in every way, give equal and
  different ones. 383,768 states. Three connections (over 23 million states) are out of reach of a short run.
- Media route: the interleavings of one stream's five threads are the subject; three packets fill a
  buffer of two, overflow it and find the stream started; two buffered ones and one that comes can be
  sent in a wrong order; a packet that waits for its successor, that one, and a third that finds the
  output started are the cases of the stash; one event is enough to overtake. 243,362 states. Two
  streams, even with one packet each and a buffer of one, have over 14 million, which is out of reach of a
  short run; what one stream does to another is left to the proofs, which are for any number of them.
- Pull provider: each of two requests creates one stream at most, so two ids are enough for them;
  equal and different names, and one or two motor ids, give streams that share a motor, that use one
  id one after the other, and that have one each. One retry gives a stream that comes back and one
  that is terminated. 408,292 states.
- Orchestrator: two requests race for the creation, the API creates, deletes or replaces under the
  same name, and the timer deletes a third time; the sharing of names is the subject, so there is
  one. `BoundedSpec` of `MCOrchestrator` bounds the interleavings: the API makes its call when one
  of the two requests is over and its stream gone, while the other request, the timer and what the stream
  has left behind go on (`ApiCallsLater`). Nothing forces the API to call, so the bound takes no progress
  from anybody. 453,067 states. Without the bound the safety properties hold on
  3,662,553 states, too many for a short run, and the proofs are for any number of threads.
- LL-HLS: two connections that share a session id are what one of them needs to lose its session to
  the other; one track of two parts gives a request that comes before, between and after the parts,
  and a segment of one part makes the playlist ready between them. 565,707 states; a second track
  gives 2.2 million and a second request per connection over 23 million, which are out of reach of a
  short run. The requests are for the playlist or a chunklist; with requests for a part as well
  (1,448,087 states, five and a half minutes) the same properties hold.

`CHECK_DEADLOCK FALSE` is given for `MediaRoute`, where every stream ends deleted or the process ends, for
`PullProvider`, `Orchestrator` and `LLHlsStream`, where requests, calls and the origin come to their end. In the
other modules a state without a successor would be an error.

### Fairness, and why the code justifies it

- `ManagedQueue`: a thread that is ready gets the mutex, a worker calls Dequeue again when it
  returns, and time passes. Nobody need call Enqueue, Clear or Stop; no timeout need pass;
  no thread need wake up for no reason.
- `PushProvider`: a thread goes on with the handler it is in, a worker runs its pending
  callbacks, and closes a socket it was asked to close. No client need connect, publish or
  hang up, no channel need be silent, and the API need do nothing.
- `MediaRoute`: each thread goes on with its function, a free lock is taken, and a webhook answers or
  times out. No provider need send, nor delete its stream.
- `PullProvider`: a request and the collector go on with what they do, and the collector looks again. Once the origin
  is gone, no packet comes any more and the no-input timer elapses: `NoInput` is strongly fair then, as it is
  enabled at one point of each scan only. No motor event is assumed: a dead connection need
  not be noticed by its socket.
- `Orchestrator`: calls in progress go on, and the timer, a repeated task, looks again. Nobody need call the API, no
  stream need end.
- `LLHlsStream`: a begun handler, the worker, a part in progress and a begun Stop go on. Nobody need ask, hang up,
  make a part or stop the stream.

Fairness is weak but for `NoInput`. Where a lock is contended (`mutex`, the locks behind `MapFree`
and `WorkersFree`) weak fairness is enough for the properties checked: the holders are finitely many
and each releases it, or the lock is not taken again.

## 4. Proofs

`ManagedQueueProofs` proves five theorems for every finite or infinite set of producers and
consumers, every threshold above zero, and any number of items, from `QueueAssumption` alone:

| Theorem | Property | Argument |
| --- | --- | --- |
| `TypeCorrect` | `TypeOK` | inductive; a producer in a call holds its node |
| `QueueBounded` | `Bounded` | every push under `exceedWait` happens at `Len(queue) < Threshold` |
| `ConsumersAreWoken` | `ConsumerNotForgotten` | a consumer blocks only on an empty queue; the push that ends that tells all |
| `ProducersAreWoken` | `ProducerNotForgotten` | a producer blocks only on a full queue; the take that ends that tells all; Clear is the exception |
| `DeliveredInOrder` | `DeliveryOrder` | see below |

`DeliveryOrder` is not inductive: a push to the back keeps the order only if the new node is younger
than every node of the same producer in the queue and than the last one taken. The strengthening
adds that every node, in the queue or held, has a number up to `created`, and that the node a
producer holds is younger than all of its nodes in the queue and than `taken`: it is what the order
of calls (one call of a producer at a time) gives. The invariants build on `TypeCorrect`, and each
proof has one step per action.

`PushProviderProofs` proves four theorems for every set of connections, names and handles, from
`PushAssumption` alone (the task runner and `None` are no connections):

| Theorem | Property | Argument |
| --- | --- | --- |
| `TypeCorrect` | `TypeOK` | inductive with `HasApplication`: AddStream sets the application before it inserts the stream |
| `StreamHasOneDeleter` | `OneDeleter` | the erasure under `_streams_guard` decides; nobody inserts the stream again |
| `ExistingIsMaintained` | `MaintainsExisting` | only `Unlist` takes a stream out, and the thread that does is the stream's own or the task runner |
| `NoStreamIsOrphaned` | `NoOrphan` | the creation of a stream and its deletion do not overlap |

`OneDeleter` is not inductive: a thread could insert a stream that another one is deleting.
`InHandler` says that a worker is in a handler only while its connection is open and not published,
or gone and then in a deletion; `Inserted` that a stream which is listed or being deleted was
published or is being created. Together they make `InsertStream` happen once. `MaintainsExisting`
adds `ChannelId` (a channel is found by its own handle) and `OwnDeletion`. `NoOrphan` adds
`RunnerDeletesTimed` (the silence timer starts when publishing is over, so the task runner never
deletes a stream that is being created) and `CreatedStays`. Neither condition can be dropped: TLC
refutes `MaintainsExisting` and `NoOrphan` on the instance of `push` without the policy and with a
handle that is reused. Each strengthening was checked on the instance of `push` before it was
proved.

`StreamLifeProofs` proves `ImplementsStreamLife`: `PushProvider` implements `StreamLife` under
`lives` (property `KeepsStreamLife`). The mapping is a function of the three lists and of
`published`, so the proof needs to know in which combinations they occur: `PublishedLife` (what the
media router has was published or is about to be announced, what the observers know was published,
and they know every published stream that is in both lists) on top of the invariant of
`NoStreamIsOrphaned`. Each action then moves one stream one step along its life, or none.

`LLHlsStreamProofs` proves five theorems for every set of connections, tracks and wants and every
bound on requests and parts, from `LLHlsAssumption` alone:

| Theorem | Property | Argument |
| --- | --- | --- |
| `TypeCorrect` | `TypeOK` | inductive with `Asking` (a request in progress has been made) and `Making` (a part in progress has a track) |
| `WorkerIsWoken` | `NothingWaits` | `Notified`: the semaphore counts at least the messages and the events, or one event less while the worker is between the two queues |
| `StoppedHasNoSession` | `NoSessionLeft` | see below |
| `ReleasedRequestIsFound` | `ReleasedIsFound` | every event in the worker's queue is of a part that the chunklist has |
| `HeldRequestIsAwaited` | `HeldIsAwaited` | `JoinInv` and `ReadyInv`, see below |

`NoSessionLeft` speaks of the end, when all connections have closed. What is inductive is that each
session still listed after Stop has a connection that will remove it (`Keeps`): one that is about to
make it its user data, one whose user data it is and that the session knows, or one that is closing
and found it without connections. For that, a session must be new to everybody when it is entered:
`Fresh` says that nothing refers to a session before the request that creates it enters it, `OwnId`
that it is listed under its own id, so that its removal by id hits it and no other. `ServedGone` is
the worker's list, which nobody fills after the workers were joined.

`ReleasedIsFound` needs three invariants: `EventInv` (an event is of a listed part) rests on `PartInv`
(a part in progress is the next one of its track until it is listed, and then the last), and
`AskedInv` says that the worker has requests only that were sent, so that no other step ends the
wait of a request.

`HeldIsAwaited` is the safety half of `HeldIsReleased`: when a part is listed, whoever is held for
it has an event to come. Three things make it inductive. A request is held only before there is what
it waits for: `ReadyInv` (before the playlist is ready a track has no segment) makes this so for a
playlist or a chunklist of a stream with one track, which is where the property speaks of these two;
with more tracks the code holds requests for what their track has already, as said in section 2. A part
is announced after it is listed (`PartInv`). And no session comes to the worker
with requests that it has held before: `JoinInv` says that nobody uses a session until the
worker has it, which is what the lock of the session map around both insertions gives.

`MediaRouteProofs` proves five theorems for every set of streams, any number of packets and any size
of the buffer, from `RouteAssumption` and `NoneIsApart` (`None` is no stream):

| Theorem | Property | Argument |
| --- | --- | --- |
| `TypeCorrect` | `TypeOK` | inductive: a worker has a packet exactly while it is not idle; an overflow drops before it buffers |
| `NothingIsLeft` | `NothingLeft` | `LockInv` and `GoneInv`, see below |
| `PreparedOnce` | `OnePreparation` | `OnceInv`: of all that may prepare a stream, one has found the flag unset |
| `StartedIsNotRestarted` | `NotStartedTwice` | `StartInv`: the same for the output, between the preparation thread and the outbound worker |
| `OrderIsKept` | `InOrder` | `OrderInv`, see below |

`LockInv` says who holds `TranscodeApplication::_mutex`: the creator in the part of its deletion that
joins the preparation, or the inbound worker in `Push`. `GoneInv` follows the deletion: after the
join no preparation thread of the stream runs and none is launched, after `StopServing` the publisher
does not have the output, after `DeleteOutboundStream` the media router does not, and nobody is left
who could enter it again. `OrderInv` looks at the way of a packet as one sequence of eight stages:
the publisher's queue, what the outbound worker has in hand, the stash, the outbound queue, what
`SendBufferedPackets` has still to send, the packet in `PushPacket`, the buffer, and the inbound
queue. Along it the numbers of the packets of a stream increase, and all are below the next one that the
provider sends; a step moves a packet across one boundary, or drops it. That the buffer is sent
before the packet which finds the stream prepared, and that no other packet of the stream comes
between them, is what the lock gives.

`PullProviderProofs` proves four theorems for every set of requests and names, and any number of
streams, motors and restarts, from the assumptions on the constants in `PullProvider` (the counts are
positive, the collector is no request, `None` is nothing else):

| Theorem | Property | Argument |
| --- | --- | --- |
| `TypeCorrect` | `TypeOK` | inductive: a thread that deals with a stream or a motor has one, under the same motor id |
| `OneStreamPerName` | `OnePerName` | `PullInv`: a request holds its name in the table from the look at the streams to the end of its creation |
| `MotorIsKept` | `MotorSurvives` | `MotorInv`, see below |
| `StreamKeepsMotor` | `StreamHasMotor` | `MotorInv` |

The last two speak of streams that have a motor id of their own, as streams which share one can lose
their motor (a hazard, listed). For such a stream `MotorInv` says that one thread at most creates its
motor, that the motor's thread runs only while the table has the motor, that a thread which will
take the motor out of the table has stopped it before, and that a stream without a motor is being
attended to by a thread: it is being created, started again, or deleted.

`OrchestratorProofs` proves four theorems for every set of requests, administrators and names, from
`ThreadsDiffer` and `NoneIsApart`:

| Theorem | Property | Argument |
| --- | --- | --- |
| `TypeCorrect` | `TypeOK` | inductive with `Targets`: who deletes has an application, who tells has a module to tell, a stream that leaves has the application it leaves |
| `CreatedIsEverywhere` | `CreatedEverywhere` | `CreationInv` |
| `DeletedIsNowhere` | `DeletedEverywhere` | `DeletionInv` |
| `RouterHasWhatItDeletes` | `NoNullRoute` | `DeletionInv`: the media router has the application until the last step of its deletion |

`LifeInv` gives each application its life. `UnbornInv`: before its thread inserts it, nobody has it and
nobody deletes it. `CreationInv`: while the virtual host has it, the modules before the one that is told
next have it and no others; after the creation all have it, or its thread takes it back.
`DeletionInv`: once it is erased, exactly one thread tells the modules, those after the one that is told
next do not have it any more, and with the last one it is gone. The erasure under
the lock of the virtual host is what makes that thread the only one.

`ApplicationLifeProofs` proves `ImplementsApplicationLife`: `Orchestrator` implements
`ApplicationLife` for each application (property `KeepsApplicationLife`). On top of the invariant above
the proof needs that the orchestrator does not observe an application whose creation goes on
(`NotYet`), so that it is the last part to take it. Each action moves one application by one step of
its life, or none.

Each strengthening was checked with TLC, on the instance of the run and where it was feasible on a
larger one, before it was proved.

Only model-checked: the liveness properties (`StopReleasesConsumers`, `EventuallyDelivered`,
`LeavesNothingBehind`, `DeletionCompletes`, `ReadyIsPrepared`, `OutputIsStarted`,
`RequestAnswered`, `DeadOriginReleased`, `SettledIsRemoved`, `HeldIsReleased`, `StopCompletes`),
which need fairness and are out of the proof system's reach. Every other property of a passing run has
its theorem.

## 5. Plan

Done: the six components, each with proofs of all its safety properties, and the two abstract
specifications `StreamLife` and `ApplicationLife` with proofs of the refinements. Left, in this order:

1. That `PullProvider` and `MediaRoute` keep `StreamLife` as well, and the order in which WebRTC
   registers its channel, as a variant of `PushProvider`.
2. The dispatch queue and close path of the sockets, and the failure of `pub::Stream::Start`, whose
   workers stay behind because Stop returns early for a stream that is not STARTED.

## 6. Not modelled

Formats and protocols (RTMP chunks, HTTP, ICE, RTP, containers), codecs and filters, monitoring, the
web console and third-party code: they are I/O or computation over data on which none of the
properties depends. They are most of the repository's lines. Not modelled
either are stream updates (`OnStreamUpdated`) and mirroring.

Within the modelled parts:

- `PullProvider`: two overlapping calls of `StreamMotor::Stop`, the unlocked iteration of a motor's
  streams, Stop of a whole application, persistent streams, streams driven by an interval. A configured
  number of retries that is not positive, with which `Resume` terminates the stream without a try
  (`base/provider/pull_provider/stream.cpp:78`), is left out.
- `MediaRoute`: stream updates, mirroring, registration, tracks that mix packets with and without
  duration, several tracks, a deletion that begins during the creation.
- `Orchestrator`: virtual hosts, templates, the origin map, `Release`, modules and providers that a
  configuration disables. What a deletion during the creation leaves behind is flagged (`raced`) and
  excluded from the properties, not pursued.
- `LLHlsStream`: Start, deletion of old segments, DVR, dumps, access control, the text of the
  playlists. In the code `pub::Application::OnStreamDeleted` calls Stop of the stream with its own
  map locked; the model has one stream, so nobody else wants that map. Segments are numbered from
  zero: with the numbers taken from the clock of the server (`fmp4_storage.cpp:30`) the first event
  releases every held playlist. `GetPartial` answers *not found* for the part after the last one of a
  completed segment, and a packaging that is under way while Stop clears the tracks finds no storage,
  for which `CheckPlaylistReady` says yes; neither case is in the model, and the properties
  exclude the time after `ClearTracks`.
