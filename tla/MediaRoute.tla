----------------------------- MODULE MediaRoute -----------------------------
(***************************************************************************)
(* The path of a stream through one application: the provider creates it   *)
(* in MediaRouteApplication, the transcoder prepares it on a thread of its *)
(* own and creates an output stream, the publisher starts and serves that  *)
(* stream, and the deletion of the input takes everything down again.      *)
(* Packets go through the inbound worker, the transcoder, the outbound     *)
(* worker and the publisher's application worker.  Each stream has one     *)
(* output stream, which bypasses the codecs, and there is one publisher.   *)
(* A function is split at every lock it takes and at every check of a      *)
(* state that another thread may change before it is used.                 *)
(***************************************************************************)
EXTENDS Integers, Sequences, FiniteSets, SequencesExt

CONSTANTS Streams,      \* input streams
          MaxPackets,   \* packets that a provider sends on a stream
          MaxEvents,    \* streams on which the API sends an event
          MaxBuffer,    \* MAX_INITIAL_MEDIA_PACKET_BUFFER_SIZE
          None          \* no thread, or no stream

ASSUME RouteAssumption ==
    /\ None \notin Streams
    /\ MaxPackets \in Nat /\ MaxEvents \in Nat /\ MaxBuffer \in Nat \ {0}

VARIABLES
    pc,         \* where each thread is
    item,       \* the packet that a worker has popped
    mutex,      \* TranscodeApplication::_mutex: the thread that holds it
    sent,       \* how many packets the provider has sent on each stream
    events,     \* streams on which the API has sent an event
    inbound,    \* MediaRouteApplication::_inbound_streams
    ready,      \* inbound streams with all tracks parsed: IsStreamReady()
    prepared,   \* inbound streams marked by NotifyStreamPrepared
    inq,        \* the packets of the inbound streams, in the worker's order
    state,      \* TranscoderStream::_state
    buffer,     \* _initial_media_packet_buffer of each transcoder stream
    outbound,   \* MediaRouteApplication::_outbound_streams
    outReady,   \* outbound streams that are ready
    outPrepared,\* outbound streams marked by NotifyStreamPrepared
    outq,       \* the packets of the outbound streams
    stash,      \* _media_packet_stash of each outbound stream: a packet, or None
    timed,      \* streams whose packets have a duration; the choice of their provider
    served,     \* _streams of the publisher's application
    pub,        \* pub::Stream::_state
    appq,       \* the queue of the publisher's ApplicationWorker
    delivered,  \* the packets that the publisher has sent on, in order
    aborted     \* std::terminate() has been called

provider == <<inbound, ready, prepared, inq, sent, events>>
transcoder == <<mutex, state, buffer, aborted>>
router == <<outbound, outReady, outPrepared, outq, stash, timed>>
publisher == <<served, pub, appq, delivered>>
vars == <<pc, item, provider, transcoder, router, publisher>>

-----------------------------------------------------------------------------
(* Threads *)

Creator(s) == <<"creator", s>>     \* the provider's thread that runs the stream
Preparer(s) == <<"preparer", s>>   \* TranscoderStream::_prepare_thread
InWorker == <<"inbound", None>>    \* InboundWorkerThread
OutWorker == <<"outbound", None>>  \* OutboundWorkerThread

Creators == {Creator(s) : s \in Streams}
Preparers == {Preparer(s) : s \in Streams}
Workers == {InWorker, OutWorker}
Threads == Creators \cup Preparers \cup Workers

\* "ended": a preparation thread that has returned and has not been joined.
Steps == {"idle", "create", "announce", "check", "prepare", "launch", "mark", "live",
          "delete", "join", "unserve", "unlist", "finish", "unroute", "deleted",
          "send", "flush", "buffer",
          "webhook", "output", "serve", "notify", "find", "start", "flag", "decoders",
          "ended"}

Event == 0
Items == Streams \X (0..MaxPackets)

ASSUME NoneIsApart == None \notin Threads \cup Items

StreamOf(t) == IF t \in Workers THEN item[t][1] ELSE t[2]
Goto(t, step) == pc' = [pc EXCEPT ![t] = step]

\* What a thread does once NotifyStreamPrepared has returned, or is not needed.
AfterPrepared(t) == IF t \in Creators THEN "live" ELSE IF t \in Preparers THEN "decoders"
                    ELSE "send"

TypeOK ==
    /\ pc \in [Threads -> Steps]
    /\ item \in [Workers -> Items \cup {None}]
    /\ \A t \in Workers : pc[t] # "idle" <=> item[t] # None
    /\ mutex \in Threads \cup {None}
    /\ sent \in [Streams -> 0..MaxPackets]
    /\ \A S \in {events, inbound, ready, prepared, outbound, outReady, outPrepared,
                 served} : S \subseteq Streams
    /\ \A q \in {inq, outq, appq} : q \in Seq(Items)
    /\ timed \subseteq Streams /\ stash \in [Streams -> Items \cup {None}]
    /\ \A s \in Streams : stash[s] # None => stash[s][1] = s /\ s \notin timed
    /\ state \in [Streams -> {"CREATED", "PREPARING", "STARTED", "ERROR", "STOPPED"}]
    /\ buffer \in [Streams -> Seq(Items)] /\ \A s \in Streams : Len(buffer[s]) <= MaxBuffer
    /\ pub \in [Streams -> {"NONE", "CREATED", "STARTED", "ERROR", "STOPPED"}]
    /\ \A s \in Streams : s \in served => pub[s] # "NONE"
    /\ delivered \in [Streams -> Seq(Items)]
    /\ aborted \in BOOLEAN

Init ==
    /\ pc = [t \in Threads |-> IF t \in Creators THEN "create" ELSE "idle"]
    /\ item = [t \in Workers |-> None]
    /\ mutex = None /\ aborted = FALSE
    /\ sent = [s \in Streams |-> 0] /\ events = {}
    /\ inbound = {} /\ ready = {} /\ prepared = {} /\ inq = <<>>
    /\ state = [s \in Streams |-> "CREATED"] /\ buffer = [s \in Streams |-> <<>>]
    /\ outbound = {} /\ outReady = {} /\ outPrepared = {} /\ outq = <<>>
    /\ stash = [s \in Streams |-> None] /\ timed \in SUBSET Streams
    /\ served = {} /\ pub = [s \in Streams |-> "NONE"] /\ appq = <<>>
    /\ delivered = [s \in Streams |-> <<>>]

-----------------------------------------------------------------------------
(* MediaRouteApplication, the inbound side *)

\* Tracks may become complete by what the signalling or a packet says of them.
Parse(s, var) == var' \in {var, var \cup {s}}

CreateInboundStream(s) ==
    /\ pc[Creator(s)] = "create"
    /\ inbound' = inbound \cup {s}
    /\ Parse(s, ready)
    /\ Goto(Creator(s), "announce")
    /\ UNCHANGED <<item, prepared, inq, sent, events, transcoder, router, publisher>>

\* Mutant: the worker leaves the notification to the creation of the stream.
CheckAtCreation(t) ==
    /\ pc[t] = "check"
    /\ Goto(t, IF t \in Creators /\ StreamOf(t) \in ready \ prepared THEN "prepare"
               ELSE AfterPrepared(t))
    /\ UNCHANGED <<item, provider, transcoder, router, publisher>>

\* OnStreamCreated and InboundWorkerThread: is it time for NotifyStreamPrepared?
CheckPrepared(t) ==
    /\ pc[t] = "check"
    /\ Goto(t, IF StreamOf(t) \in ready \ prepared THEN "prepare" ELSE AfterPrepared(t))
    /\ UNCHANGED <<item, provider, transcoder, router, publisher>>

\* Mutant: the stream is not marked.
MarkNothing(t) ==
    /\ pc[t] = "mark"
    /\ Goto(t, AfterPrepared(t))
    /\ UNCHANGED <<item, provider, transcoder, router, publisher>>

\* The end of NotifyStreamPrepared.
MarkPrepared(t) ==
    /\ pc[t] = "mark"
    /\ prepared' = prepared \cup {StreamOf(t)}
    /\ Goto(t, AfterPrepared(t))
    /\ UNCHANGED <<item, inbound, ready, inq, sent, events, transcoder, router, publisher>>

\* An event is of high priority: it goes to the front of the queues.
Enqueue(q, s, n) == IF n = Event THEN <<<<s, n>>>> \o q ELSE Append(q, <<s, n>>)

SendPacket(s) ==
    /\ pc[Creator(s)] = "live" /\ sent[s] < MaxPackets
    /\ sent' = [sent EXCEPT ![s] = @ + 1]
    /\ inq' = Enqueue(inq, s, sent[s] + 1)
    /\ UNCHANGED <<pc, item, inbound, ready, prepared, events, transcoder, router, publisher>>

\* The API sends an event on a stream as soon as the provider's application has it;
\* OnPacketReceived takes it once the inbound stream is there.
SendEvent(s) ==
    /\ s \in inbound \ events /\ Cardinality(events) < MaxEvents
    /\ events' = events \cup {s}
    /\ inq' = Enqueue(inq, s, Event)
    /\ UNCHANGED <<pc, item, inbound, ready, prepared, sent, transcoder, router, publisher>>

\* PopAndNormalize takes from the packet what it says of its track, and drops a packet that
\* has no track, is all of that kind, cannot be normalised or is out of order.
PopInbound ==
    /\ pc[InWorker] = "idle" /\ inq # <<>>
    /\ inq' = Tail(inq)
    /\ Parse(Head(inq)[1], ready)
    /\ \/ item' = [item EXCEPT ![InWorker] = Head(inq)] /\ Goto(InWorker, "check")
       \/ UNCHANGED <<pc, item>>
    /\ UNCHANGED <<inbound, prepared, sent, events, transcoder, router, publisher>>

-----------------------------------------------------------------------------
(* TranscodeApplication and TranscoderStream *)

OnStreamCreated(s) ==
    /\ pc[Creator(s)] = "announce" /\ mutex = None
    /\ state' = [state EXCEPT ![s] = "PREPARING"]
    /\ Goto(Creator(s), "check")
    /\ UNCHANGED <<item, provider, mutex, buffer, aborted, router, publisher>>

\* OnStreamPrepared, to the check of the state in Prepare.
OnStreamPrepared(t) ==
    /\ pc[t] = "prepare" /\ mutex = None
    /\ IF state[StreamOf(t)] = "PREPARING" THEN mutex' = t /\ Goto(t, "launch")
       ELSE Goto(t, "mark") /\ UNCHANGED mutex
    /\ UNCHANGED <<item, provider, state, buffer, aborted, router, publisher>>

\* Prepare: _prepare_thread_running.exchange(true), then the thread is assigned to
\* _prepare_thread, which terminates the program if that one is joinable.
Launch(t) ==
    LET p == Preparer(StreamOf(t)) IN
    /\ pc[t] = "launch"
    /\ mutex' = None
    /\ pc' = [pc EXCEPT ![t] = "mark", ![p] = IF @ = "idle" THEN "webhook" ELSE @]
    /\ aborted' = (pc[p] = "ended")
    /\ UNCHANGED <<item, provider, state, buffer, router, publisher>>

\* SetState, and the end of PrepareAsync.
EndPrepare(s, newState) ==
    /\ state' = [state EXCEPT ![s] = newState]
    /\ Goto(Preparer(s), "ended")

RequestWebhook(s) ==
    /\ pc[Preparer(s)] = "webhook"
    /\ \/ Goto(Preparer(s), "output") /\ UNCHANGED state
       \/ EndPrepare(s, "ERROR")
    /\ UNCHANGED <<item, provider, mutex, buffer, aborted, router, publisher>>

\* CreateOutputStreams may make none.
CreateOutboundStream(s) ==
    /\ pc[Preparer(s)] = "output"
    /\ \/ /\ outbound' = outbound \cup {s}
          /\ Parse(s, outReady)
          /\ Goto(Preparer(s), "serve")
          /\ UNCHANGED state
       \/ EndPrepare(s, "ERROR") /\ UNCHANGED <<outbound, outReady>>
    /\ UNCHANGED <<item, provider, mutex, buffer, aborted, outPrepared, outq, stash, timed,
                   publisher>>

\* Mutant: the preparation needs the lock of the application.
PrepareInternalLocked(s) ==
    /\ pc[Preparer(s)] = "decoders" /\ mutex = None
    /\ \E newState \in {"STARTED", "ERROR"} : EndPrepare(s, newState)
    /\ UNCHANGED <<item, provider, mutex, buffer, aborted, router, publisher>>

PrepareInternal(s) ==
    /\ pc[Preparer(s)] = "decoders"
    /\ \E newState \in {"STARTED", "ERROR"} : EndPrepare(s, newState)
    /\ UNCHANGED <<item, provider, mutex, buffer, aborted, router, publisher>>

\* A worker is done with its packet.
Release(t) == item' = [item EXCEPT ![t] = None] /\ Goto(t, "idle")

\* OnSendFrame and Push, to the check of STARTED; a packet of a stream in ERROR, or
\* that the transcoder does not have, is dropped.
Push ==
    LET s == StreamOf(InWorker) IN
    /\ pc[InWorker] = "send" /\ mutex = None
    /\ \/ state[s] = "STARTED" /\ Goto(InWorker, "flush")
          /\ mutex' = InWorker /\ UNCHANGED item
       \/ state[s] = "PREPARING" /\ Goto(InWorker, "buffer")
          /\ mutex' = InWorker /\ UNCHANGED item
       \/ state[s] \in {"CREATED", "ERROR", "STOPPED"} /\ Release(InWorker) /\ UNCHANGED mutex
    /\ UNCHANGED <<provider, state, buffer, aborted, router, publisher>>

\* ProcessPacket of one packet: BypassPacket and SendFrame bring it to the outbound
\* stream, if there is one.
ProcessPacket(i) == outq' = IF i[1] \in outbound THEN Enqueue(outq, i[1], i[2]) ELSE outq

\* The packets that waited for the preparation go first ...
SendBufferedPackets ==
    LET s == StreamOf(InWorker) IN
    /\ pc[InWorker] = "flush" /\ buffer[s] # <<>>
    /\ ProcessPacket(Head(buffer[s]))
    /\ buffer' = [buffer EXCEPT ![s] = Tail(@)]
    /\ UNCHANGED <<pc, item, provider, mutex, state, aborted, outbound, outReady, outPrepared,
                   stash, timed, publisher>>

\* Mutant: the new packet goes before those that waited for the preparation.
PushOutOfOrder ==
    /\ pc[InWorker] = "flush"
    /\ ProcessPacket(item[InWorker])
    /\ mutex' = None
    /\ Release(InWorker)
    /\ UNCHANGED <<provider, state, buffer, aborted, outbound, outReady, outPrepared, stash,
                   timed, publisher>>

\* ... and the new one after them.
PushPacket ==
    /\ pc[InWorker] = "flush" /\ buffer[StreamOf(InWorker)] = <<>>
    /\ ProcessPacket(item[InWorker])
    /\ mutex' = None
    /\ Release(InWorker)
    /\ UNCHANGED <<provider, state, buffer, aborted, outbound, outReady, outPrepared, stash,
                   timed, publisher>>

\* Mutant: the buffer takes one packet more.
KeptOneMore(s) == IF Len(buffer[s]) > MaxBuffer THEN Tail(buffer[s]) ELSE buffer[s]

\* The oldest packet makes place for the new one.
Kept(s) == IF Len(buffer[s]) >= MaxBuffer THEN Tail(buffer[s]) ELSE buffer[s]

\* Push was not STARTED when it looked, and looks again: PREPARING, or none of its cases,
\* which lets the packet go although the stream may be STARTED by now.
BufferMediaPacketUntilReadyToPlay ==
    LET s == StreamOf(InWorker) IN
    /\ pc[InWorker] = "buffer"
    /\ mutex' = None
    /\ buffer' = IF state[s] = "PREPARING"
                 THEN [buffer EXCEPT ![s] = Append(Kept(s), item[InWorker])]
                 ELSE buffer
    /\ Release(InWorker)
    /\ UNCHANGED <<provider, state, aborted, router, publisher>>

-----------------------------------------------------------------------------
(* MediaRouteApplication, the outbound side, and the publisher *)

\* The publisher creates its stream, or rejects one it cannot serve.
Serve(s) ==
    /\ pc[Preparer(s)] = "serve"
    /\ \/ served' = served \cup {s} /\ pub' = [pub EXCEPT ![s] = "CREATED"]
       \/ UNCHANGED <<served, pub>>
    /\ Goto(Preparer(s), "notify")
    /\ UNCHANGED <<item, provider, transcoder, router, appq, delivered>>

\* Mutant: the worker leaves the notification to the creation of the output stream.
CheckOutAtCreation(t) ==
    /\ pc[t] = "notify"
    /\ Goto(t, IF t \in Preparers /\ StreamOf(t) \in outReady \ outPrepared THEN "find"
               ELSE AfterPrepared(t))
    /\ UNCHANGED <<item, provider, transcoder, router, publisher>>

\* OnStreamCreated and OutboundWorkerThread: is it time for NotifyStreamPrepared?
CheckOutPrepared(t) ==
    /\ pc[t] = "notify"
    /\ Goto(t, IF StreamOf(t) \in outReady \ outPrepared THEN "find" ELSE AfterPrepared(t))
    /\ UNCHANGED <<item, provider, transcoder, router, publisher>>

\* pub::Application::OnStreamPrepared looks the stream up under its lock, ...
FindStream(t) ==
    /\ pc[t] = "find"
    /\ Goto(t, IF StreamOf(t) \in served THEN "start" ELSE "flag")
    /\ UNCHANGED <<item, provider, transcoder, router, publisher>>

\* ... and starts it without: a stream that cannot start, or not any more, is in ERROR.
StartStream(t) ==
    LET s == StreamOf(t) IN
    /\ pc[t] = "start"
    /\ \/ pub[s] = "CREATED" /\ pub' = [pub EXCEPT ![s] = "STARTED"]
       \/ pub' = [pub EXCEPT ![s] = "ERROR"]
    /\ Goto(t, "flag")
    /\ UNCHANGED <<item, provider, transcoder, router, served, appq, delivered>>

\* Mutant: the outbound stream is not marked.
MarkNothingOut(t) ==
    /\ pc[t] = "flag"
    /\ Goto(t, AfterPrepared(t))
    /\ UNCHANGED <<item, provider, transcoder, router, publisher>>

MarkOutPrepared(t) ==
    /\ pc[t] = "flag"
    /\ outPrepared' = outPrepared \cup {StreamOf(t)}
    /\ Goto(t, AfterPrepared(t))
    /\ UNCHANGED <<item, provider, transcoder, outbound, outReady, outq, stash, timed,
                   publisher>>

\* PopAndNormalize: a packet without duration waits for the next one of its track, which
\* takes its place.  Of a stream there is one track; an event never waits.
Waits(i) == i[1] \notin timed /\ i[2] # Event
Popped(i) == IF Waits(i) THEN stash[i[1]] ELSE i

\* The worker skips the packets of an outbound stream that has been deleted; what
\* PopAndNormalize gives out it hands on, or has been dropped as in PopInbound.
PopOutbound ==
    LET i == Head(outq)  s == i[1] IN
    /\ pc[OutWorker] = "idle" /\ outq # <<>>
    /\ outq' = Tail(outq)
    /\ stash' = IF s \in outbound /\ Waits(i) THEN [stash EXCEPT ![s] = i] ELSE stash
    /\ \/ (s \notin outbound \/ Popped(i) = None) /\ UNCHANGED <<pc, item, outReady>>
       \/ /\ s \in outbound /\ Popped(i) # None
          /\ Parse(s, outReady)
          /\ \/ item' = [item EXCEPT ![OutWorker] = Popped(i)] /\ Goto(OutWorker, "notify")
             \/ UNCHANGED <<pc, item>>
    /\ UNCHANGED <<provider, transcoder, outbound, outPrepared, timed, publisher>>

OnSendFrame ==
    LET s == item[OutWorker][1] IN
    /\ pc[OutWorker] = "send"
    /\ appq' = IF s \in served THEN Append(appq, item[OutWorker]) ELSE appq
    /\ Release(OutWorker)
    /\ UNCHANGED <<provider, transcoder, router, served, pub, delivered>>

\* ApplicationWorker::WorkerThread
PopStreamData ==
    LET s == Head(appq)[1] IN
    /\ appq # <<>>
    /\ appq' = Tail(appq)
    /\ delivered' = IF pub[s] \in {"ERROR", "STOPPED"} THEN delivered
                    ELSE [delivered EXCEPT ![s] = Append(@, Head(appq))]
    /\ UNCHANGED <<pc, item, provider, transcoder, router, served, pub>>

-----------------------------------------------------------------------------
(* Deletion, on the thread of the provider *)

\* The provider deletes the stream once its creation has returned.
DeleteStream(s) ==
    /\ pc[Creator(s)] = "live"
    /\ Goto(Creator(s), "delete")
    /\ UNCHANGED <<item, provider, transcoder, router, publisher>>

\* TranscodeApplication::OnStreamDeleted
OnStreamDeleted(s) ==
    /\ pc[Creator(s)] = "delete" /\ mutex = None
    /\ mutex' = Creator(s)
    /\ Goto(Creator(s), "join")
    /\ UNCHANGED <<item, provider, state, buffer, aborted, router, publisher>>

\* Mutant: Stop does not wait for the preparation.
StopWithoutJoin(s) ==
    /\ pc[Creator(s)] = "join"
    /\ Goto(Creator(s), "unserve")
    /\ UNCHANGED <<item, provider, transcoder, router, publisher>>

\* TranscoderStream::Stop waits for the preparation thread.
JoinPrepareThread(s) ==
    /\ pc[Creator(s)] = "join" /\ pc[Preparer(s)] \in {"idle", "ended"}
    /\ pc' = [pc EXCEPT ![Creator(s)] = "unserve", ![Preparer(s)] = "idle"]
    /\ UNCHANGED <<item, provider, transcoder, router, publisher>>

\* pub::Application::OnStreamDeleted: Stop acts on a stream that is STARTED.
StopServing(s) ==
    /\ pc[Creator(s)] = "unserve"
    /\ served' = served \ {s}
    /\ pub' = IF s \in served /\ pub[s] = "STARTED" THEN [pub EXCEPT ![s] = "STOPPED"] ELSE pub
    /\ Goto(Creator(s), "unlist")
    /\ UNCHANGED <<item, provider, transcoder, router, appq, delivered>>

\* The outbound stream goes, with the packet that waits in it.
DeleteOutboundStream(s) ==
    /\ pc[Creator(s)] = "unlist"
    /\ outbound' = outbound \ {s}
    /\ stash' = [stash EXCEPT ![s] = None]
    /\ Goto(Creator(s), "finish")
    /\ UNCHANGED <<item, provider, transcoder, outReady, outPrepared, outq, timed, publisher>>

\* The transcoder's stream is STOPPED, erased, and destroyed with its buffer.
EraseTranscoderStream(s) ==
    /\ pc[Creator(s)] = "finish"
    /\ state' = [state EXCEPT ![s] = "STOPPED"]
    /\ buffer' = [buffer EXCEPT ![s] = <<>>]
    /\ mutex' = None
    /\ Goto(Creator(s), "unroute")
    /\ UNCHANGED <<item, provider, aborted, router, publisher>>

DeleteInboundStream(s) ==
    /\ pc[Creator(s)] = "unroute"
    /\ inbound' = inbound \ {s}
    /\ Goto(Creator(s), "deleted")
    /\ UNCHANGED <<item, ready, prepared, inq, sent, events, transcoder, router, publisher>>

-----------------------------------------------------------------------------
\* A stream is created, and taken down.
Create(s) == CreateInboundStream(s) \/ OnStreamCreated(s)
TakeDown(s) ==
    \/ OnStreamDeleted(s) \/ JoinPrepareThread(s) \/ StopServing(s)
    \/ DeleteOutboundStream(s) \/ EraseTranscoderStream(s) \/ DeleteInboundStream(s)

\* MediaRouteApplication::NotifyStreamPrepared, for an input and for an output stream.
NotifyInbound(t) == CheckPrepared(t) \/ OnStreamPrepared(t) \/ Launch(t) \/ MarkPrepared(t)
NotifyOutbound(t) == CheckOutPrepared(t) \/ FindStream(t) \/ StartStream(t) \/ MarkOutPrepared(t)

PrepareAsync(s) ==
    \/ RequestWebhook(s) \/ CreateOutboundStream(s) \/ Serve(s)
    \/ NotifyOutbound(Preparer(s)) \/ PrepareInternal(s)

InboundWorkerThread ==
    \/ PopInbound \/ NotifyInbound(InWorker) \/ Push \/ SendBufferedPackets \/ PushPacket
    \/ BufferMediaPacketUntilReadyToPlay

OutboundWorkerThread == PopOutbound \/ NotifyOutbound(OutWorker) \/ OnSendFrame

Next ==
    /\ ~aborted
    /\ \/ \E s \in Streams :
            \/ Create(s) \/ NotifyInbound(Creator(s)) \/ PrepareAsync(s)
            \/ SendPacket(s) \/ SendEvent(s) \/ DeleteStream(s) \/ TakeDown(s)
       \/ InboundWorkerThread \/ OutboundWorkerThread \/ PopStreamData

Spec == Init /\ [][Next]_vars

\* A thread goes on with the function it is in, a webhook answers or times out, and a
\* lock that is free is taken.  No provider need send, or delete its stream.
Fairness ==
    /\ \A s \in Streams :
         /\ WF_vars(~aborted /\ (Create(s) \/ NotifyInbound(Creator(s)) \/ TakeDown(s)))
         /\ WF_vars(~aborted /\ PrepareAsync(s))
    /\ WF_vars(~aborted /\ InboundWorkerThread)
    /\ WF_vars(~aborted /\ OutboundWorkerThread)
    /\ WF_vars(~aborted /\ PopStreamData)

FairSpec == Spec /\ Fairness

-----------------------------------------------------------------------------
(* Properties *)

\* The packet that a worker has, and the one that waits for its duration.
Held(t) == IF item[t] # None THEN <<item[t]>> ELSE <<>>
Stashed(s) == IF stash[s] # None THEN <<stash[s]>> ELSE <<>>

\* The way of a packet of s, from the publisher back to the provider.
Way(s) == <<delivered[s], appq, Held(OutWorker), Stashed(s), outq, buffer[s], Held(InWorker),
            inq>>

\* The i-th packet of one stage of a way is before the j-th of another.
Before(k, i, l, j) == k < l \/ (k = l /\ i < j)

\* Whatever the preparation makes wait, the packets of a stream stay in the order in
\* which they were sent and none is there twice; an event may overtake them.
InOrder ==
    \A s \in Streams : \A k, l \in DOMAIN Way(s) :
      \A i \in DOMAIN Way(s)[k], j \in DOMAIN Way(s)[l] :
        LET x == Way(s)[k][i]  y == Way(s)[l][j] IN
        Before(k, i, l, j) /\ x[1] = s /\ y[1] = s /\ x[2] # Event /\ y[2] # Event
          => x[2] < y[2]

\* The thread that prepares a stream has ended when the stream's outputs are deleted,
\* so that nothing of an input stream is created again behind its deletion.
NothingLeft ==
    \A s \in Streams :
      /\ pc[Creator(s)] \in {"unserve", "unlist", "finish", "unroute", "deleted"} =>
           pc[Preparer(s)] = "idle"
      /\ pc[Creator(s)] = "deleted" => s \notin inbound \cup outbound \cup served

\* A stream that the publisher serves is not started twice, whoever finds it ready: it
\* would be put in ERROR, and its packets dropped.
NotStartedTwice ==
    [][\A s \in Streams : pub[s] = "STARTED" => pub'[s] \in {"STARTED", "STOPPED"}]_vars

\* Only with an event sent on it while it is created is a stream prepared twice, which
\* may terminate the program (TranscoderStream::Prepare).
OnePreparation == aborted => events # {}

\* The deletion of a stream, which holds the application's lock while it waits for the
\* preparation, comes to its end.
DeletionCompletes ==
    \A s \in Streams : pc[Creator(s)] = "delete" ~> pc[Creator(s)] = "deleted" \/ aborted

\* A stream that its creation or a packet finds with its tracks known is prepared, unless
\* an event came in between.
ReadyIsPrepared ==
    \A s \in Streams, t \in Creators \cup {InWorker} :
      pc[t] = "check" /\ StreamOf(t) = s /\ s \in ready ~>
        state[s] \in {"STARTED", "ERROR", "STOPPED"} \/ s \in events \/ aborted

\* An output stream that its creation or a packet finds with its tracks known is started,
\* or fails to start, while the publisher serves it.
OutputIsStarted ==
    \A s \in Streams, t \in Preparers \cup {OutWorker} :
      pc[t] = "notify" /\ StreamOf(t) = s /\ s \in outReady \cap served ~>
        pub[s] # "CREATED" \/ s \notin served \/ aborted

\* Create stream --> Start stream --> Stop stream --> Delete stream: what the publisher
\* does not serve any more is not started.
DeletedIsStopped == \A s \in Streams : pub[s] = "STARTED" => s \in served

\* "Notify the Observer that the stream is parsed": the transcoder prepares a stream
\* that has been marked.
PreparedIsLaunched ==
    \A s \in Streams :
      s \in prepared /\ state[s] = "PREPARING" => pc[Preparer(s)] # "idle"
=============================================================================
