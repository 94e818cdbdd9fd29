---------------------------- MODULE PushProvider ----------------------------
(***************************************************************************)
(* How an RTMP connection becomes an inbound stream of an application, and *)
(* how it ends: pvd::PushProvider's channels, pvd::Application's streams,  *)
(* MediaRouteApplication's inbound streams, and what its observers (the    *)
(* transcoder, the orchestrator) have been told.  Each connection has a    *)
(* socket worker that runs its callbacks one after the other; the channel  *)
(* task runner deletes silent channels from a thread of its own, and the   *)
(* API terminates streams.  A handler is split into steps at every lock it *)
(* takes, since another thread may run in between.                         *)
(***************************************************************************)
EXTENDS Naturals

CONSTANTS Connections,  \* RTMP connections, each with its RtmpStream object
          Names,        \* stream names the clients publish under
          Handles,      \* native handles (file descriptors)
          None,         \* no connection
          Runner        \* the thread of ChannelTaskRunner

ASSUME PushAssumption == None \notin Connections /\ Runner \notin Connections

VARIABLES
    block,      \* <BlockDuplicateStreamName>
    name,       \* the stream name of each connection
    handle,     \* the native handle of each connection, which is its channel id
    sock,       \* where each connection is in its life
    channels,   \* PushProvider::_channels: channel id to stream
    pc,         \* where each thread is in the handler it runs
    target,     \* the stream that the thread is deleting
    snapshot,   \* ChannelTaskRunner's copy of _channels, what is left of it
    app,        \* streams with _application set: DoesBelongApplication()
    streams,    \* Application::_streams
    inbound,    \* MediaRouteApplication::_inbound_streams
    observed,   \* streams whose creation the observers know, not their deletion
    published,  \* _is_published
    timed,      \* streams whose _packet_silence_timer has been started
    stopped     \* streams in state STOPPED, which have asked their socket to close

config == <<block, name, handle>>
vars == <<config, sock, channels, pc, target, snapshot, app, streams, inbound,
          observed, published, timed, stopped>>

Threads == Connections \cup {Runner}

\* "accepted": the kernel has the connection; "open": OnConnected has run;
\* "closed": ::close() has given the handle back; "gone": OnDisconnected has run.
SocketStates == {"new", "accepted", "open", "closed", "gone"}

\* The next step of a thread.  "add" to "notify": JoinStream, AddStream and
\* OnStreamCreated; "erase" to "unroute": OnChannelDeleted, DeleteStream and
\* OnStreamDeleted; "scan": the loop of ChannelTaskRunner.
Steps == {"idle", "add", "insert", "create", "register", "notify",
          "erase", "unlist", "unnotify", "unroute", "scan"}

TypeOK ==
    /\ block \in BOOLEAN
    /\ name \in [Connections -> Names] /\ handle \in [Connections -> Handles]
    /\ sock \in [Connections -> SocketStates]
    /\ channels \in [Handles -> Connections \cup {None}]
    /\ pc \in [Threads -> Steps]
    /\ target \in [Threads -> Connections \cup {None}]
    /\ \A t \in Threads :
         pc[t] \in {"erase", "unlist", "unnotify", "unroute"} => target[t] # None
    /\ snapshot \subseteq Connections /\ app \subseteq Connections
    /\ streams \subseteq app /\ inbound \subseteq app /\ observed \subseteq app
    /\ published \subseteq app /\ timed \subseteq app /\ stopped \subseteq Connections

Init ==
    /\ block \in BOOLEAN
    /\ name \in [Connections -> Names] /\ handle \in [Connections -> Handles]
    /\ sock = [c \in Connections |-> "new"]
    /\ channels = [h \in Handles |-> None]
    /\ pc = [t \in Threads |-> "idle"]
    /\ target = [t \in Threads |-> None]
    /\ snapshot = {} /\ app = {} /\ streams = {} /\ inbound = {} /\ observed = {}
    /\ published = {} /\ timed = {} /\ stopped = {}

Goto(t, step) == pc' = [pc EXCEPT ![t] = step]
SameName(c, S) == {d \in S \ {c} : name[d] = name[c]}

-----------------------------------------------------------------------------
(* The socket *)

\* The kernel gives the connection a handle that no open socket has.
Accept(c) ==
    /\ sock[c] = "new"
    /\ \A d \in Connections : handle[d] = handle[c] => sock[d] \notin {"accepted", "open"}
    /\ sock' = [sock EXCEPT ![c] = "accepted"]
    /\ UNCHANGED <<config, channels, pc, target, snapshot, app, streams, inbound,
                   observed, published, timed, stopped>>

\* OnChannelCreated uses emplace: a channel that is still there under this id stays.
OnConnected(c) ==
    /\ sock[c] = "accepted"
    /\ sock' = [sock EXCEPT ![c] = "open"]
    /\ channels' = IF channels[handle[c]] = None THEN [channels EXCEPT ![handle[c]] = c]
                   ELSE channels
    /\ UNCHANGED <<config, pc, target, snapshot, app, streams, inbound, observed,
                   published, timed, stopped>>

\* The worker closes the handle, because the client has gone or because a thread that
\* stopped the stream asked for it; the close callback runs later.
Close(c) ==
    /\ sock[c] = "open" /\ pc[c] = "idle"
    /\ sock' = [sock EXCEPT ![c] = "closed"]
    /\ UNCHANGED <<config, channels, pc, target, snapshot, app, streams, inbound,
                   observed, published, timed, stopped>>

-----------------------------------------------------------------------------
(* Publishing *)

\* JoinStream returned false: PublishChannel starts the timer, PublishStream stops.
Reject(c) ==
    /\ app' = app \cup {c}
    /\ timed' = timed \cup {c}
    /\ stopped' = stopped \cup {c}
    /\ Goto(c, "idle")

\* Mutant: a stream with the same name is replaced whatever the policy.
JoinStreamAlwaysReplaces(c) ==
    /\ sock[c] = "open" /\ pc[c] = "idle" /\ channels[handle[c]] = c
    /\ c \notin published /\ c \notin stopped
    /\ \/ /\ SameName(c, streams) = {}
          /\ Goto(c, "add")
          /\ UNCHANGED target
       \/ \E d \in SameName(c, streams) :
            /\ target' = [target EXCEPT ![c] = d]
            /\ Goto(c, "unlist")
    /\ UNCHANGED <<config, sock, channels, snapshot, app, streams, inbound, observed,
                   published, timed, stopped>>

\* The data of the connection reached its channel, which is ready to be published:
\* RtmpApplication::JoinStream applies the policy on duplicate names.  Data goes to
\* whatever channel has the id; that of another connection is StrayData's.
JoinStream(c) ==
    /\ sock[c] = "open" /\ pc[c] = "idle" /\ channels[handle[c]] = c
    /\ c \notin published /\ c \notin stopped
    /\ \/ /\ SameName(c, streams) = {}
          /\ Goto(c, "add")
          /\ UNCHANGED <<target, app, timed, stopped>>
       \/ /\ block /\ SameName(c, streams) # {}
          /\ Reject(c)
          /\ UNCHANGED target
       \/ /\ ~block
          /\ \E d \in SameName(c, streams) : target' = [target EXCEPT ![c] = d]
          /\ Goto(c, "unlist")
          /\ UNCHANGED <<app, timed, stopped>>
    /\ UNCHANGED <<config, sock, channels, snapshot, streams, inbound, observed, published>>

\* Mutant: the stream is not given its application.
AddStreamWithoutApplication(c) ==
    /\ pc[c] = "add"
    /\ IF SameName(c, inbound) # {} THEN Reject(c)
       ELSE Goto(c, "insert") /\ UNCHANGED <<app, timed, stopped>>
    /\ UNCHANGED <<config, sock, channels, target, snapshot, streams, inbound, observed,
                   published>>

\* AddStream: SetApplication, then IsExistingInboundStream.
AddStream(c) ==
    /\ pc[c] = "add"
    /\ IF SameName(c, inbound) # {} THEN Reject(c)
       ELSE /\ app' = app \cup {c}
            /\ Goto(c, "insert")
            /\ UNCHANGED <<timed, stopped>>
    /\ UNCHANGED <<config, sock, channels, target, snapshot, streams, inbound, observed,
                   published>>

\* AddStream, under _streams_guard.
InsertStream(c) ==
    /\ pc[c] = "insert"
    /\ streams' = streams \cup {c}
    /\ Goto(c, "create")
    /\ UNCHANGED <<config, sock, channels, target, snapshot, app, inbound, observed,
                   published, timed, stopped>>

\* AddStream ignores what NotifyStreamCreated returns, and PublishChannel ends.
Published(c) ==
    /\ published' = published \cup {c}
    /\ timed' = timed \cup {c}
    /\ Goto(c, "idle")

\* MediaRouteApplication::OnStreamCreated looks for an inbound stream of that name.
OnStreamCreated(c) ==
    /\ pc[c] = "create"
    /\ IF SameName(c, inbound) # {} THEN Published(c)
       ELSE Goto(c, "register") /\ UNCHANGED <<published, timed>>
    /\ UNCHANGED <<config, sock, channels, target, snapshot, app, streams, inbound,
                   observed, stopped>>

CreateInboundStream(c) ==
    /\ pc[c] = "register"
    /\ inbound' = inbound \cup {c}
    /\ Goto(c, "notify")
    /\ UNCHANGED <<config, sock, channels, target, snapshot, app, streams, observed,
                   published, timed, stopped>>

NotifyStreamCreate(c) ==
    /\ pc[c] = "notify"
    /\ observed' = observed \cup {c}
    /\ Published(c)
    /\ UNCHANGED <<config, sock, channels, target, snapshot, app, streams, inbound, stopped>>

-----------------------------------------------------------------------------
(* Deletion.  A socket worker, or the channel task runner, runs these steps for  *)
(* target[t]; a worker in JoinStream goes on with AddStream when they are done.  *)

Done(t) ==
    Goto(t, IF t = Runner THEN "scan" ELSE IF sock[t] = "open" THEN "add" ELSE "idle")

\* The close callback.  It looks the channel up by the handle.
OnDisconnected(c) ==
    /\ sock[c] = "closed"
    /\ sock' = [sock EXCEPT ![c] = "gone"]
    /\ IF channels[handle[c]] = None THEN UNCHANGED <<target, pc>>
       ELSE /\ target' = [target EXCEPT ![c] = channels[handle[c]]]
            /\ Goto(c, "erase")
    /\ UNCHANGED <<config, channels, snapshot, app, streams, inbound, observed,
                   published, timed, stopped>>

\* Mutant: the stream is left to the application when its channel is deleted.
EraseChannelOnly(t) ==
    /\ pc[t] = "erase"
    /\ channels' = [channels EXCEPT ![handle[target[t]]] = None]
    /\ Done(t)
    /\ UNCHANGED <<config, sock, target, snapshot, app, streams, inbound, observed,
                   published, timed, stopped>>

\* OnChannelDeleted erases whatever has the id of the channel.
EraseChannel(t) ==
    /\ pc[t] = "erase"
    /\ IF channels[handle[target[t]]] # None /\ target[t] \in app THEN Goto(t, "unlist")
       ELSE Done(t)
    /\ channels' = [channels EXCEPT ![handle[target[t]]] = None]
    /\ UNCHANGED <<config, sock, target, snapshot, app, streams, inbound, observed,
                   published, timed, stopped>>

\* Mutant: the stream is not looked for under the lock that erases it.
UnlistUnchecked(t) ==
    /\ pc[t] = "unlist"
    /\ streams' = streams \ {target[t]}
    /\ stopped' = stopped \cup {target[t]}
    /\ Goto(t, "unnotify")
    /\ UNCHANGED <<config, sock, channels, target, snapshot, app, inbound, observed,
                   published, timed>>

\* DeleteStream erases under _streams_guard, then stops the stream.
Unlist(t) ==
    /\ pc[t] = "unlist"
    /\ IF target[t] \in streams
       THEN /\ streams' = streams \ {target[t]}
            /\ stopped' = stopped \cup {target[t]}
            /\ Goto(t, "unnotify")
       ELSE Done(t) /\ UNCHANGED <<streams, stopped>>
    /\ UNCHANGED <<config, sock, channels, target, snapshot, app, inbound, observed,
                   published, timed>>

\* Mutant: the stream leaves the media router first, and the observers are not told.
NotifyStreamDeletedToNobody(t) ==
    /\ pc[t] = "unnotify"
    /\ inbound' = inbound \ {target[t]}
    /\ Done(t)
    /\ UNCHANGED <<config, sock, channels, target, snapshot, app, streams, observed,
                   published, timed, stopped>>

NotifyStreamDeleted(t) ==
    /\ pc[t] = "unnotify"
    /\ observed' = observed \ {target[t]}
    /\ Goto(t, "unroute")
    /\ UNCHANGED <<config, sock, channels, target, snapshot, app, streams, inbound,
                   published, timed, stopped>>

\* Mutant: the inbound stream stays in the media router.
DeleteNothingInbound(t) ==
    /\ pc[t] = "unroute"
    /\ Done(t)
    /\ UNCHANGED <<config, sock, channels, target, snapshot, app, streams, inbound,
                   observed, published, timed, stopped>>

DeleteInboundStream(t) ==
    /\ pc[t] = "unroute"
    /\ inbound' = inbound \ {target[t]}
    /\ Done(t)
    /\ UNCHANGED <<config, sock, channels, target, snapshot, app, streams, observed,
                   published, timed, stopped>>

\* The API terminates a stream of the application: it stops, and its socket closes.
TerminateStream(c) ==
    /\ c \in streams \ stopped
    /\ stopped' = stopped \cup {c}
    /\ UNCHANGED <<config, sock, channels, pc, target, snapshot, app, streams, inbound,
                   observed, published, timed>>

\* The id of the connection still names the channel of one that has closed: the data goes
\* to that one's stream, which makes nothing of it, or fails to parse or to answer it
\* (its socket is closed) and stops.
StrayData(c) ==
    /\ sock[c] = "open" /\ pc[c] = "idle"
    /\ channels[handle[c]] \notin {c, None} \cup stopped
    /\ stopped' = stopped \cup {channels[handle[c]]}
    /\ UNCHANGED <<config, sock, channels, pc, target, snapshot, app, streams, inbound,
                   observed, published, timed>>

-----------------------------------------------------------------------------
(* ChannelTaskRunner *)

CopyChannels ==
    /\ pc[Runner] = "idle"
    /\ snapshot' = {channels[h] : h \in Handles} \ {None}
    /\ Goto(Runner, "scan")
    /\ UNCHANGED <<config, sock, channels, target, app, streams, inbound, observed,
                   published, timed, stopped>>

\* A channel of the copy has been silent for longer than its timeout.
TimeOut(c) ==
    /\ pc[Runner] = "scan" /\ c \in snapshot \cap timed
    /\ target' = [target EXCEPT ![Runner] = c]
    /\ snapshot' = snapshot \ {c}
    /\ Goto(Runner, "erase")
    /\ UNCHANGED <<config, sock, channels, app, streams, inbound, observed, published,
                   timed, stopped>>

Sleep ==
    /\ pc[Runner] = "scan"
    /\ snapshot' = {}
    /\ Goto(Runner, "idle")
    /\ UNCHANGED <<config, sock, channels, target, app, streams, inbound, observed,
                   published, timed, stopped>>

-----------------------------------------------------------------------------
Publish(c) ==
    \/ JoinStream(c) \/ AddStream(c) \/ InsertStream(c)
    \/ OnStreamCreated(c) \/ CreateInboundStream(c) \/ NotifyStreamCreate(c)

Delete(t) ==
    EraseChannel(t) \/ Unlist(t) \/ NotifyStreamDeleted(t) \/ DeleteInboundStream(t)

Next ==
    \/ \E c \in Connections :
         \/ Accept(c) \/ OnConnected(c) \/ Publish(c) \/ Close(c) \/ OnDisconnected(c)
         \/ TimeOut(c) \/ TerminateStream(c) \/ StrayData(c)
    \/ \E t \in Threads : Delete(t)
    \/ CopyChannels \/ Sleep

Spec == Init /\ [][Next]_vars

\* A thread goes on with the handler it is in; a worker runs the callbacks of its
\* sockets, and closes a socket it was asked to close.  No client need connect,
\* publish or hang up, and no channel need be silent.
Fairness ==
    /\ \A c \in Connections :
         /\ WF_vars(OnConnected(c)) /\ WF_vars(pc[c] # "idle" /\ Publish(c))
         /\ WF_vars(c \in stopped /\ Close(c)) /\ WF_vars(OnDisconnected(c))
    /\ \A t \in Threads : WF_vars(Delete(t))

FairSpec == Spec /\ Fairness

-----------------------------------------------------------------------------
(* Properties *)

Deletes(t, c) == pc[t] \in {"unnotify", "unroute"} /\ target[t] = c

\* However many threads delete a stream at once (its disconnection, its silence, a new
\* stream of the same name), one of them stops it and notifies the media router, and
\* the stream is no longer in the application by then (Application::DeleteStream).
OneDeleter ==
    \A t, u \in Threads, c \in Connections :
      Deletes(t, c) => c \notin streams /\ (Deletes(u, c) => t = u)

\* The kernel gives no other connection the handle of c.
OwnHandle(c) == \A d \in Connections \ {c} : handle[d] # handle[c]

\* Where duplicates are rejected and handles are not reused, the media router has a
\* stream only while the application has it or is deleting it, and the observers know
\* a stream only while the media router has it.
NoOrphan ==
    \A c \in Connections : block /\ OwnHandle(c) =>
      /\ c \in inbound => c \in streams \/ \E t \in Threads : Deletes(t, c)
      /\ c \in observed => c \in inbound

\* "Rejects the new stream inputted as overlap and maintains the existing stream": with
\* the policy on, nobody but its own worker, after the disconnection, and the task
\* runner takes a stream out of the application (RtmpApplication::JoinStream).
MaintainsExisting ==
    [][\A c \in Connections :
         block /\ OwnHandle(c) /\ c \in streams /\ c \notin streams' =>
           \/ sock[c] = "gone"
           \/ pc[Runner] = "unlist" /\ target[Runner] = c]_vars

\* Where duplicates are rejected and handles are not reused, a connection that is closed
\* or stopped leaves nothing behind in the application, the media router, the observers.
LeavesNothingBehind ==
    \A c \in Connections :
      block /\ OwnHandle(c) /\ (sock[c] = "closed" \/ c \in stopped)
        ~> c \notin streams \cup inbound \cup observed

\* Where a connection's stream is in its life. Nothing is said of a connection whose
\* stream may be replaced under the policy, or whose handle may be given to another.
Life(c) ==
    IF ~(block /\ OwnHandle(c)) THEN "none"
    ELSE IF c \in observed \ inbound THEN "lost"
    ELSE IF c \in observed THEN IF c \in streams THEN "announced" ELSE "unlisted"
    ELSE IF c \in inbound THEN IF c \in streams THEN "routed" ELSE "withdrawn"
    ELSE IF c \in streams THEN "listed"
    ELSE IF c \in published THEN "gone" ELSE "none"

lives == [c \in Connections |-> Life(c)]

Lives == INSTANCE StreamLife WITH Streams <- Connections, life <- lives

\* Whoever deletes a stream and whoever is refused in between, the observers hear of a
\* stream once, after the media router has it, and of its deletion once, before the
\* media router forgets it (Application::AddStream, DeleteStream).
KeepsStreamLife == Lives!Spec

AtRest == \A t \in Threads : pc[t] \in {"idle", "scan"}

\* A stream that was published is routed: it was accepted, or it would have been rejected.
PublishedIsRouted ==
    AtRest => \A c \in published \cap streams : c \in inbound
=============================================================================
