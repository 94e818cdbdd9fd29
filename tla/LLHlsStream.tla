----------------------------- MODULE LLHlsStream ----------------------------
(* One LL-HLS stream of a publisher, base/publisher/stream.cpp and             *)
(* publishers/llhls: the thread that packages its tracks, the worker that      *)
(* answers its sessions, the HTTP connections of its players, and the thread   *)
(* that stops it. A connection runs its requests one after the other and then  *)
(* its close handler.                                                          *)
(*                                                                             *)
(* A request may ask for a part of a track that does not exist yet. It is then *)
(* held by its session until the worker tells the session of the part. Parts   *)
(* of a track are numbered from 1 on; PartsPerSegment of them make a segment.  *)
EXTENDS Integers, Sequences

CONSTANTS
  Connections, Tracks, None,
  Players,           \* whose session id each connection sends
  Wants,             \* what a request may ask for
  MaxRequests,       \* bound on the requests of a connection
  Parts,             \* bound on the parts of each track
  PartsPerSegment

Requests == Connections \X (1..MaxRequests)

ASSUME LLHlsAssumption ==
  /\ {MaxRequests, PartsPerSegment} \subseteq Nat \ {0} /\ Parts \in [Tracks -> Nat]
  /\ None \notin Requests \cup Wants \cup Tracks
  /\ Wants \subseteq [kind : {"playlist"}]
       \cup [kind : {"chunklist", "part"}, track : Tracks, part : Nat \ {0}]
  /\ Players \subseteq [Connections -> Connections]
  /\ \A f \in Players : \A c \in Connections : f[f[c]] = f[c]

VARIABLES
  player,   \* the connection that was given the session id which a connection sends
  want, status, given, \* what a request asks for, its answer, the session that has it
  pc, made, use,       \* step of each connection, its requests, the session in use
  user, connected,     \* the user data of a connection, the connections of a session
  sessions, served,    \* Stream::_sessions and StreamWorker::_sessions
  worker, messages, packets, count, \* the stream worker, its two queues, its semaphore
  chunk, listed, ready, \* the part being made, the chunklists, _playlist_ready
  stop      \* the step of Stop

asked == <<player, want, status, given>>
conns == <<pc, made, use, user, connected>>
lists == <<sessions, served>>
queues == <<worker, messages, packets, count>>
tracks == <<chunk, listed, ready>>
vars == <<asked, conns, lists, queues, tracks, stop>>

\* A session is named by the request that created it.
Sessions == Requests

Statuses == {"new", "asked", "queued", "held", "over"}
Events == [track : Tracks, part : Nat]

AskedTypes ==
  /\ player \in Players /\ want \in [Requests -> Wants \cup {None}]
  /\ status \in [Requests -> Statuses] /\ given \in [Requests -> Sessions \cup {None}]

ConnectionTypes ==
  /\ pc \in [Connections -> {"idle", "find", "add", "join", "send", "closing", "erase",
                             "remove", "closed"}]
  /\ made \in [Connections -> 0..MaxRequests]
  /\ use \in [Connections -> Sessions \cup {None}]
  /\ user \in [Connections -> Sessions \cup {None}]
  /\ connected \in [Sessions -> SUBSET Connections]

\* Who adds, uses or removes a session has one.
InHandler ==
  \A c \in Connections : /\ pc[c] \in {"add", "join", "send"} => use[c] # None
                         /\ pc[c] \in {"closing", "erase", "remove"} => user[c] # None

ListTypes ==
  /\ sessions \in [Connections -> Sessions \cup {None}]
  /\ served \in [Connections -> Sessions \cup {None}]

QueueTypes ==
  /\ worker \in {"wait", "packet", "gone"}
  /\ messages \in Seq(Requests) /\ packets \in Seq(Events) /\ count \in Nat

TrackTypes ==
  /\ chunk \in [track : Tracks \cup {None}, part : Nat, step : {"idle", "first", "second"}]
  /\ listed \in [Tracks -> Nat] /\ ready \in BOOLEAN

TypeOK ==
  /\ AskedTypes /\ ConnectionTypes /\ InHandler /\ ListTypes /\ QueueTypes /\ TrackTypes
  /\ stop \in {"no", "cleared", "joining", "sessions", "stopped"}

Idle == [track |-> None, part |-> 0, step |-> "idle"]

\* The stream is STARTED and has its worker. The connections of a player send the session
\* id that one of them was given.
Init ==
  /\ player \in Players
  /\ want = [r \in Requests |-> None] /\ status = [r \in Requests |-> "new"]
  /\ given = [r \in Requests |-> None]
  /\ pc = [c \in Connections |-> "idle"] /\ made = [c \in Connections |-> 0]
  /\ use = [c \in Connections |-> None] /\ user = [c \in Connections |-> None]
  /\ connected = [s \in Sessions |-> {}]
  /\ sessions = [c \in Connections |-> None] /\ served = [c \in Connections |-> None]
  /\ worker = "wait" /\ messages = <<>> /\ packets = <<>> /\ count = 0
  /\ chunk = Idle /\ listed = [t \in Tracks |-> 0] /\ ready = FALSE
  /\ stop = "no"

Cleared == stop # "no"
Stopped == stop \in {"joining", "sessions", "stopped"}

\* Stop holds _stream_worker_lock while it joins the worker, and AddSession holds
\* _session_map_mutex while it waits for that lock.
WorkersFree == stop # "joining"
MapFree == \A c \in Connections : pc[c] # "join"

Goto(c, step) == pc' = [pc EXCEPT ![c] = step]
Current(c) == <<c, made[c]>>

\* The id under which a request looks for its session: a request for the playlist has the
\* id of its connection, another one sends the id that its player was given.
IdOf(r) == IF want[r].kind = "playlist" THEN r[1] ELSE player[r[1]]

-----------------------------------------------------------------------------
(* The request handler *)

\* The stream must be STARTED.
WaitUntilStart(c) ==
  LET r == <<c, made[c] + 1>> IN
  /\ pc[c] = "idle" /\ made[c] < MaxRequests
  /\ made' = [made EXCEPT ![c] = @ + 1]
  /\ \E w \in Wants : want' = [want EXCEPT ![r] = w]
  /\ status' = [status EXCEPT ![r] = IF Stopped THEN "over" ELSE "asked"]
  /\ IF Stopped THEN UNCHANGED pc ELSE Goto(c, "find")
  /\ UNCHANGED <<player, given, use, user, connected, lists, queues, tracks, stop>>

\* Mutant: a request for the playlist takes whatever its connection used last.
GetSessionOfUser(c) ==
  LET r == Current(c)
      found == IF want[r].kind = "playlist" THEN user[c] ELSE sessions[IdOf(r)] IN
  /\ pc[c] = "find" /\ MapFree
  /\ use' = [use EXCEPT ![c] = found] /\ Goto(c, "send")
  /\ UNCHANGED <<asked, made, user, connected, lists, queues, tracks, stop>>

\* A request for the playlist takes the session that its connection used last, any other
\* one the session of its id; who finds none creates one.
GetSession(c) ==
  LET r == Current(c)
      found == IF want[r].kind = "playlist" /\ user[c] # None THEN user[c]
                                                            ELSE sessions[IdOf(r)] IN
  /\ pc[c] = "find" /\ MapFree
  /\ IF found = None THEN use' = [use EXCEPT ![c] = r] /\ Goto(c, "add")
                     ELSE use' = [use EXCEPT ![c] = found] /\ Goto(c, "send")
  /\ UNCHANGED <<asked, made, user, connected, lists, queues, tracks, stop>>

\* Stream::AddSession enters it into the map of the stream ...
AddSession(c) ==
  /\ pc[c] = "add" /\ MapFree
  /\ sessions' = [sessions EXCEPT ![IdOf(use[c])] = use[c]]
  /\ Goto(c, "join")
  /\ UNCHANGED <<asked, made, use, user, connected, served, queues, tracks, stop>>

\* ... and, with the map locked, into that of the worker, unless that has gone.
AddSessionToWorker(c) ==
  /\ pc[c] = "join" /\ WorkersFree
  /\ served' = IF Stopped THEN served ELSE [served EXCEPT ![IdOf(use[c])] = use[c]]
  /\ Goto(c, "send")
  /\ UNCHANGED <<asked, made, use, user, connected, sessions, queues, tracks, stop>>

\* AddUserData and UpdateLastRequest, then Stream::SendMessage gives the request to the
\* worker and notifies it; the handler ignores that there is none.
SendMessage(c) ==
  /\ pc[c] = "send" /\ WorkersFree /\ Goto(c, "idle")
  /\ user' = [user EXCEPT ![c] = use[c]]
  /\ connected' = [connected EXCEPT ![use[c]] = @ \cup {c}]
  /\ use' = [use EXCEPT ![c] = None]
  /\ IF Stopped
       THEN /\ status' = [status EXCEPT ![Current(c)] = "over"]
            /\ UNCHANGED <<given, messages, count>>
       ELSE /\ status' = [status EXCEPT ![Current(c)] = "queued"]
            /\ given' = [given EXCEPT ![Current(c)] = use[c]]
            /\ messages' = Append(messages, Current(c)) /\ count' = count + 1
  /\ UNCHANGED <<player, want, made, lists, worker, packets, tracks, stop>>

-----------------------------------------------------------------------------
(* The close handler *)

\* It has the session of the user data only.
OnConnectionDisconnected(c) ==
  /\ pc[c] = "idle"
  /\ IF user[c] = None THEN Goto(c, "closed") /\ UNCHANGED connected
     ELSE connected' = [connected EXCEPT ![user[c]] = @ \ {c}] /\ Goto(c, "closing")
  /\ UNCHANGED <<asked, made, use, user, lists, queues, tracks, stop>>

IsNoConnection(c) ==
  /\ pc[c] = "closing"
  /\ Goto(c, IF connected[user[c]] = {} THEN "erase" ELSE "closed")
  /\ UNCHANGED <<asked, made, use, user, connected, lists, queues, tracks, stop>>

\* Mutant: RemoveSession looks for the worker before it erases the session.
RemoveSessionOfWorker(c) ==
  /\ pc[c] = "erase" /\ MapFree /\ WorkersFree
  /\ sessions' = IF Stopped THEN sessions ELSE [sessions EXCEPT ![IdOf(user[c])] = None]
  /\ Goto(c, IF Stopped \/ sessions[IdOf(user[c])] = None THEN "closed" ELSE "remove")
  /\ UNCHANGED <<asked, made, use, user, connected, served, queues, tracks, stop>>

\* Stream::RemoveSession erases whatever session has the id, under one lock ...
RemoveSession(c) ==
  /\ pc[c] = "erase" /\ MapFree
  /\ sessions' = [sessions EXCEPT ![IdOf(user[c])] = None]
  /\ Goto(c, IF sessions[IdOf(user[c])] = None THEN "closed" ELSE "remove")
  /\ UNCHANGED <<asked, made, use, user, connected, served, queues, tracks, stop>>

\* ... and the worker does so under another.
RemoveSessionFromWorker(c) ==
  /\ pc[c] = "remove" /\ WorkersFree
  /\ served' = [served EXCEPT ![IdOf(user[c])] = None]
  /\ Goto(c, "closed")
  /\ UNCHANGED <<asked, made, use, user, connected, sessions, queues, tracks, stop>>

-----------------------------------------------------------------------------
(* The thread that packages the tracks *)

\* The last part of a track in its storage; its chunklist follows.
Stored(t) == IF chunk.track = t THEN chunk.part ELSE listed[t]

\* CheckPlaylistReady: every track has completed a segment.
AllHaveSegments(stored) == \A t \in Tracks : stored[t] >= PartsPerSegment

\* A part is stored, and may complete its segment.
AppendMediaChunk(t) ==
  LET part == listed[t] + 1 IN
  /\ chunk.step = "idle" /\ ~Cleared /\ part <= Parts[t]
  /\ chunk' = [track |-> t, part |-> part, step |-> "first"]
  /\ ready' = (ready \/ (part % PartsPerSegment = 0
                           /\ AllHaveSegments([listed EXCEPT ![t] = part])))
  /\ UNCHANGED <<asked, conns, lists, queues, listed, stop>>

After(step) == IF step = "first" THEN [chunk EXCEPT !.step = "second"] ELSE Idle

\* The part is entered into the chunklist, unless Stop has cleared that.
AppendPartialSegmentInfo(step) ==
  /\ chunk.step = step
  /\ IF Cleared THEN chunk' = Idle /\ UNCHANGED listed
     ELSE chunk' = After(step) /\ listed' = [listed EXCEPT ![chunk.track] = chunk.part]
  /\ UNCHANGED <<asked, conns, lists, queues, ready, stop>>

\* BroadcastPacket tells the worker of it, if there is one.
NotifyPlaylistUpdated(step) ==
  /\ chunk.step = step /\ WorkersFree /\ chunk' = After(step)
  /\ IF Stopped THEN UNCHANGED <<packets, count>>
     ELSE /\ packets' = Append(packets, [track |-> chunk.track, part |-> chunk.part])
          /\ count' = count + 1
  /\ UNCHANGED <<asked, conns, lists, worker, messages, listed, ready, stop>>

\* Mutant: the worker is notified before the chunklist has the part.
OnMediaChunkUpdatedNotifyingFirst ==
  NotifyPlaylistUpdated("first") \/ AppendPartialSegmentInfo("second")

OnMediaChunkUpdated == AppendPartialSegmentInfo("first") \/ NotifyPlaylistUpdated("second")

-----------------------------------------------------------------------------
(* The stream worker *)

\* What GetMasterPlaylist, GetChunklist and GetPartial have for a request.
Result(r) ==
  LET w == want[r]
      gone == IF w.kind = "playlist" THEN Stopped ELSE Cleared
      there == CASE w.kind = "playlist" -> ready
                 [] w.kind = "chunklist" -> ready /\ w.part <= listed[w.track]
                 [] w.kind = "part" -> w.part <= Stored(w.track) IN
  IF gone THEN "NotFound" ELSE IF there THEN "Success" ELSE "Accepted"

\* Requests are answered; no session has them any more.
Answer(rs) ==
  /\ status' = [r \in Requests |-> IF r \in rs THEN "over" ELSE status[r]]
  /\ given' = [r \in Requests |-> IF r \in rs THEN None ELSE given[r]]

\* What is not there yet is held.
TakeMessage ==
  IF messages = <<>> THEN UNCHANGED <<status, given, messages>>
  ELSE LET r == Head(messages) IN
       /\ messages' = Tail(messages)
       /\ IF Result(r) # "Accepted" THEN Answer({r})
          ELSE status' = [status EXCEPT ![r] = "held"] /\ UNCHANGED given

\* Mutant: the event is a flag, which takes all notifications at once.
OnMessageReceivedByFlag ==
  /\ worker = "wait" /\ count > 0 /\ ~Stopped
  /\ count' = 0 /\ worker' = "packet" /\ TakeMessage
  /\ UNCHANGED <<player, want, conns, lists, packets, tracks, stop>>

\* The worker takes a notification, then one message at most ...
OnMessageReceived ==
  /\ worker = "wait" /\ count > 0 /\ ~Stopped
  /\ count' = count - 1 /\ worker' = "packet" /\ TakeMessage
  /\ UNCHANGED <<player, want, conns, lists, packets, tracks, stop>>

\* The event has come to what the request waits for.
Reaches(e, r) ==
  IF want[r].kind = "playlist" THEN e.part > PartsPerSegment
  ELSE want[r].track = e.track /\ want[r].part <= e.part

Attached(r) == \E c \in Connections : served[c] # None /\ served[c] = given[r]

\* ... then one event at most, for every session that it has: OnPlaylistUpdated answers
\* the requests that the event has come to, with an error if what they wait for is still
\* not there.
SendOutgoingData ==
  /\ worker = "packet" /\ ~Stopped /\ worker' = "wait"
  /\ IF packets = <<>> THEN UNCHANGED <<status, given, packets>>
     ELSE /\ packets' = Tail(packets)
          /\ Answer({r \in Requests :
               status[r] = "held" /\ Attached(r) /\ Reaches(Head(packets), r)})
  /\ UNCHANGED <<player, want, conns, lists, messages, count, tracks, stop>>

\* A worker that was told to stop takes nothing more from its queues.
Exit ==
  /\ Stopped /\ worker # "gone" /\ worker' = "gone"
  /\ UNCHANGED <<asked, conns, lists, messages, packets, count, tracks, stop>>

-----------------------------------------------------------------------------
(* Stop *)

\* LLHlsStream::Stop clears the packagers, storages and chunklists ...
ClearTracks ==
  /\ stop = "no" /\ stop' = "cleared"
  /\ UNCHANGED <<asked, conns, lists, queues, tracks>>

\* ... Stream::Stop locks the workers, sets STOPPED and the worker's flag ...
StopWorkers ==
  /\ stop = "cleared" /\ stop' = "joining"
  /\ UNCHANGED <<asked, conns, lists, queues, tracks>>

\* Mutant: the workers are unlocked after the sessions were cleared.
JoinWorkersWithMap ==
  /\ stop = "joining" /\ worker = "gone" /\ MapFree /\ stop' = "sessions"
  /\ served' = [c \in Connections |-> None]
  /\ UNCHANGED <<asked, conns, sessions, queues, tracks>>

\* ... joins the worker, which loses its sessions, and unlocks ...
JoinWorkers ==
  /\ stop = "joining" /\ worker = "gone" /\ stop' = "sessions"
  /\ served' = [c \in Connections |-> None]
  /\ UNCHANGED <<asked, conns, sessions, queues, tracks>>

\* ... and clears the map of the stream.
ClearSessions ==
  /\ stop = "sessions" /\ MapFree /\ stop' = "stopped"
  /\ sessions' = [c \in Connections |-> None]
  /\ UNCHANGED <<asked, conns, served, queues, tracks>>

-----------------------------------------------------------------------------
OnRequest(c) ==
  GetSession(c) \/ AddSession(c) \/ AddSessionToWorker(c) \/ SendMessage(c)

OnClose(c) == IsNoConnection(c) \/ RemoveSession(c) \/ RemoveSessionFromWorker(c)

WorkerThread == OnMessageReceived \/ SendOutgoingData \/ Exit

Stop == StopWorkers \/ JoinWorkers \/ ClearSessions

Next ==
  \/ \E c \in Connections : \/ WaitUntilStart(c) \/ OnRequest(c)
                            \/ OnConnectionDisconnected(c) \/ OnClose(c)
  \/ \E t \in Tracks : AppendMediaChunk(t)
  \/ OnMediaChunkUpdated \/ WorkerThread \/ ClearTracks \/ Stop

Spec == Init /\ [][Next]_vars

\* Every thread goes on with what it has begun. No client need ask for anything or hang
\* up, no part need be made and the stream need not be stopped.
FairSpec ==
  /\ Spec
  /\ \A c \in Connections : WF_vars(OnRequest(c)) /\ WF_vars(OnClose(c))
  /\ WF_vars(OnMediaChunkUpdated) /\ WF_vars(WorkerThread) /\ WF_vars(Stop)

-----------------------------------------------------------------------------
(* Properties *)

\* A stopped stream has no session once the connections have closed, although a request
\* that found the stream STARTED may add its session after Stop has cleared them: the
\* session refers to the stream and would keep it (Stream::Stop, stream.cpp:314).
NoSessionLeft ==
  stop = "stopped" /\ (\A c \in Connections : pc[c] = "closed") =>
    \A c \in Connections : sessions[c] = None /\ served[c] = None

\* What a request was held for is there when an event releases it, but before the playlist
\* is ready and after the tracks were cleared: the chunklist has the part before the worker
\* learns of it (LLHlsStream::OnMediaChunkUpdated, llhls_stream.cpp:1825).
ReleasedIsFound ==
  [][\A r \in Requests :
       status[r] = "held" /\ status'[r] # "held" =>
         Result(r) = "Success" \/ ~ready \/ Cleared]_vars

\* The worker never waits for a notification while one of its queues has something: it
\* takes up to one of each for every notification, and each was notified for itself
\* (StreamWorker::WorkerThread, stream.cpp:168).
NothingWaits ==
  worker = "wait" /\ count = 0 => messages = <<>> /\ packets = <<>>

Reached(r) ==
  IF want[r].kind = "playlist" THEN \E t \in Tracks : listed[t] > PartsPerSegment
  ELSE want[r].part <= listed[want[r].track]

\* The worker has still to learn of what the request waits for.
Pending(r) ==
  \/ chunk.step = "second" /\ Reaches(chunk, r)
  \/ \E i \in DOMAIN packets : Reaches(packets[i], r)

\* What the request waits for did not exist when it was held. A playlist or a chunklist
\* is also held when its own track has it already and another track has no segment yet.
HeldBefore(r) ==
  \/ want[r].kind = "part"
  \/ /\ \A t, u \in Tracks : t = u
     /\ want[r].kind = "chunklist" => want[r].part >= PartsPerSegment

\* Whenever a part is made, a request that is held for it has not missed it: as long as it
\* is held although the part is there, the worker has an event to come that will release
\* it (LLHlsSession::OnPlaylistUpdated, llhls_session.cpp:812).
HeldIsAwaited ==
  \A r \in Requests :
    status[r] = "held" /\ Attached(r) /\ ~Stopped /\ HeldBefore(r) /\ Reached(r) => Pending(r)

\* A request that is held before its part is listed is answered once it is: the wake-up
\* is not lost, whenever the request came (llhls_session.cpp:812). A session that the
\* worker does not have any more is not told.
HeldIsReleased ==
  \A r \in Requests :
    (status[r] = "held" /\ chunk.step # "idle" /\ Reaches(chunk, r) /\ ~Reached(r)) ~>
      (status[r] # "held" \/ ~Attached(r) \/ Cleared)

\* Stop ends, although it joins the worker under a lock that requests and the packaging
\* thread wait for (Stream::Stop, stream.cpp:281).
StopCompletes == (stop = "cleared") ~> (stop = "stopped")
=============================================================================
