-------------------------- MODULE LLHlsStreamProofs -------------------------
(* What is proved of LLHlsStream, for every set of connections, tracks and wants: its  *)
(* types, that the worker never sleeps beside something that it was told of, that a    *)
(* stopped stream is left without sessions, and that a request does not miss what it   *)
(* is held for, and is released to it.                                                 *)
EXTENDS LLHlsStream, TLAPS

\* A request in progress has been made, and a part in progress is one of a track.
Asking == \A c \in Connections : pc[c] \in {"find", "add", "join", "send"} => made[c] # 0

Making == chunk.step # "idle" => chunk.track \in Tracks

TypeInv == TypeOK /\ Asking /\ Making

LEMMA Request ==
  /\ \A c \in Connections, n \in 1..MaxRequests : <<c, n>> \in Requests /\ <<c, n>> # None
  /\ \A r \in Requests : r[1] \in Connections
BY LLHlsAssumption DEF Requests

LEMMA TypeInit == Init => TypeInv
<1> SUFFICES ASSUME Init PROVE TypeInv
  OBVIOUS
<1> USE DEF Init
<1>1. AskedTypes
  BY DEF AskedTypes, Statuses
<1>2. ConnectionTypes /\ InHandler
  BY LLHlsAssumption DEF ConnectionTypes, InHandler
<1>3. ListTypes /\ QueueTypes
  BY DEF ListTypes, QueueTypes
<1>4. TrackTypes
  BY DEF TrackTypes, Idle
<1>5. Asking /\ Making
  BY DEF Asking, Making, Idle
<1> QED
  BY <1>1, <1>2, <1>3, <1>4, <1>5 DEF TypeInv, TypeOK

\* The request of a connection that is answering one, and the id of a request.
LEMMA CurrentIsRequest ==
  ASSUME TypeInv, NEW c \in Connections, pc[c] \in {"find", "add", "join", "send"}
  PROVE  Current(c) \in Requests
<1>1. made[c] \in 1..MaxRequests
  BY DEF TypeInv, TypeOK, ConnectionTypes, Asking
<1> QED
  BY <1>1, Request DEF Current

LEMMA IdIsConnection ==
  ASSUME TypeInv, NEW r \in Requests
  PROVE  IdOf(r) \in Connections
BY Request, LLHlsAssumption DEF TypeInv, TypeOK, AskedTypes, IdOf

\* The steps of a connection.
LEMMA TypeConnection ==
  ASSUME TypeInv, NEW c \in Connections,
         \/ WaitUntilStart(c) \/ OnRequest(c) \/ OnConnectionDisconnected(c) \/ OnClose(c)
  PROVE  TypeInv'
<1> USE DEF Goto, Sessions, conns, lists, queues, tracks
<1>t. /\ AskedTypes /\ ConnectionTypes /\ InHandler /\ ListTypes /\ Asking /\ Making
      /\ QueueTypes /\ TrackTypes /\ stop \in {"no", "cleared", "joining", "sessions", "stopped"}
  BY DEF TypeInv, TypeOK
<1>1. CASE WaitUntilStart(c)
  <2>0. made[c] \in 0..MaxRequests /\ made[c] + 1 \in 1..MaxRequests
    BY <1>t, <1>1, LLHlsAssumption DEF WaitUntilStart, ConnectionTypes
  <2>1. AskedTypes'
    BY <1>t, <1>1 DEF WaitUntilStart, AskedTypes, Statuses
  <2>2. ConnectionTypes' /\ InHandler' /\ Asking'
    BY <1>t, <1>1, <2>0 DEF WaitUntilStart, ConnectionTypes, InHandler, Asking
  <2>3. ListTypes' /\ QueueTypes' /\ TrackTypes' /\ Making' /\ stop' = stop
    BY <1>t, <1>1 DEF WaitUntilStart, ListTypes, QueueTypes, TrackTypes, Making
  <2> QED
    BY <1>t, <2>1, <2>2, <2>3 DEF TypeInv, TypeOK
<1>2. CASE GetSession(c)
  <2>1. AskedTypes' /\ ListTypes' /\ QueueTypes' /\ TrackTypes' /\ Making' /\ stop' = stop
    BY <1>t, <1>2 DEF GetSession, asked, AskedTypes, ListTypes, QueueTypes, TrackTypes, Making
  <2>2. Current(c) \in Requests /\ Current(c) # None /\ IdOf(Current(c)) \in Connections
    BY <1>2, CurrentIsRequest, IdIsConnection, LLHlsAssumption DEF GetSession
  <2>3. ConnectionTypes' /\ InHandler' /\ Asking'
    BY <1>t, <1>2, <2>2 DEF GetSession, ConnectionTypes, InHandler, Asking, ListTypes
  <2> QED
    BY <1>t, <2>1, <2>3 DEF TypeInv, TypeOK
<1>3. CASE AddSession(c) \/ AddSessionToWorker(c)
  <2>1. AskedTypes' /\ QueueTypes' /\ TrackTypes' /\ Making' /\ stop' = stop
    BY <1>t, <1>3 DEF AddSession, AddSessionToWorker, asked, AskedTypes, QueueTypes,
                      TrackTypes, Making
  <2>2. ConnectionTypes' /\ InHandler' /\ Asking'
    BY <1>t, <1>3 DEF AddSession, AddSessionToWorker, ConnectionTypes, InHandler, Asking
  <2>3. use[c] \in Sessions
    BY <1>t, <1>3 DEF AddSession, AddSessionToWorker, ConnectionTypes, InHandler
  <2>4. ListTypes'
    BY <1>t, <1>3, <2>3 DEF AddSession, AddSessionToWorker, ListTypes
  <2> QED
    BY <1>t, <2>1, <2>2, <2>4 DEF TypeInv, TypeOK
<1>4. CASE SendMessage(c)
  <2>1. Current(c) \in Requests /\ use[c] \in Sessions
    BY <1>t, <1>4, CurrentIsRequest DEF SendMessage, ConnectionTypes, InHandler
  <2>2. AskedTypes'
    BY <1>t, <1>4, <2>1 DEF SendMessage, AskedTypes, Statuses
  <2>3. ConnectionTypes' /\ InHandler' /\ Asking'
    BY <1>t, <1>4, <2>1 DEF SendMessage, ConnectionTypes, InHandler, Asking
  <2>4. QueueTypes'
    <3>1. CASE Stopped
      BY <1>t, <1>4, <3>1 DEF SendMessage, QueueTypes
    <3>2. CASE ~Stopped
      <4>1. messages' = Append(messages, Current(c)) /\ count' = count + 1
        BY <1>4, <3>2 DEF SendMessage
      <4>2. messages' \in Seq(Requests) /\ count' \in Nat
        BY <1>t, <2>1, <4>1 DEF QueueTypes
      <4> QED
        BY <1>t, <1>4, <4>2 DEF SendMessage, QueueTypes
    <3> QED
      BY <3>1, <3>2
  <2>5. ListTypes' /\ TrackTypes' /\ Making' /\ stop' = stop
    BY <1>t, <1>4 DEF SendMessage, ListTypes, TrackTypes, Making
  <2> QED
    BY <1>t, <2>2, <2>3, <2>4, <2>5 DEF TypeInv, TypeOK
<1>5. CASE OnConnectionDisconnected(c) \/ OnClose(c)
  <2> USE DEF OnClose, OnConnectionDisconnected, IsNoConnection, RemoveSession,
              RemoveSessionFromWorker
  <2>1. AskedTypes' /\ QueueTypes' /\ TrackTypes' /\ Making' /\ stop' = stop
    BY <1>t, <1>5 DEF asked, AskedTypes, QueueTypes, TrackTypes, Making
  <2>2. ConnectionTypes' /\ InHandler' /\ Asking'
    BY <1>t, <1>5 DEF ConnectionTypes, InHandler, Asking
  <2>3. ListTypes'
    BY <1>t, <1>5 DEF ListTypes
  <2> QED
    BY <1>t, <2>1, <2>2, <2>3 DEF TypeInv, TypeOK
<1> QED
  BY <1>1, <1>2, <1>3, <1>4, <1>5 DEF OnRequest

\* The steps of the thread that packages.
LEMMA TypePackager ==
  ASSUME TypeInv, (\E t \in Tracks : AppendMediaChunk(t)) \/ OnMediaChunkUpdated
  PROVE  TypeInv'
<1>t. /\ AskedTypes /\ ConnectionTypes /\ InHandler /\ ListTypes /\ Asking /\ Making
      /\ QueueTypes /\ TrackTypes /\ stop \in {"no", "cleared", "joining", "sessions", "stopped"}
  BY DEF TypeInv, TypeOK
<1>1. /\ AskedTypes' /\ ConnectionTypes' /\ InHandler' /\ ListTypes' /\ Asking'
      /\ stop' = stop
  BY <1>t DEF AppendMediaChunk, OnMediaChunkUpdated, AppendPartialSegmentInfo,
              NotifyPlaylistUpdated, AskedTypes, ConnectionTypes, InHandler, ListTypes,
              Asking, asked, conns, lists
<1>2. ASSUME NEW t \in Tracks, AppendMediaChunk(t)
      PROVE  QueueTypes' /\ TrackTypes' /\ Making'
  BY <1>t, <1>2 DEF AppendMediaChunk, QueueTypes, TrackTypes, Making, queues
<1>3. ASSUME AppendPartialSegmentInfo("first")
      PROVE  QueueTypes' /\ TrackTypes' /\ Making'
  <2>1. chunk' \in {Idle, [track |-> chunk.track, part |-> chunk.part, step |-> "second"]}
    BY <1>t, <1>3 DEF AppendPartialSegmentInfo, After, TrackTypes
  <2>2. chunk.track \in Tracks /\ chunk.part \in Nat
    BY <1>t, <1>3 DEF AppendPartialSegmentInfo, TrackTypes, Making
  <2>3. TrackTypes' /\ Making'
    BY <1>t, <1>3, <2>1, <2>2 DEF AppendPartialSegmentInfo, TrackTypes, Making, Idle
  <2> QED
    BY <1>t, <1>3, <2>3 DEF AppendPartialSegmentInfo, QueueTypes, queues
<1>4. ASSUME NotifyPlaylistUpdated("second")
      PROVE  QueueTypes' /\ TrackTypes' /\ Making'
  <2>1. chunk' = Idle
    BY <1>4 DEF NotifyPlaylistUpdated, After
  <2>2. [track |-> chunk.track, part |-> chunk.part] \in Events
    BY <1>t, <1>4 DEF NotifyPlaylistUpdated, TrackTypes, Making, Events
  <2>3. QueueTypes'
    <3>1. CASE Stopped
      BY <1>t, <1>4, <3>1 DEF NotifyPlaylistUpdated, QueueTypes
    <3>2. CASE ~Stopped
      <4>1. /\ packets' = Append(packets, [track |-> chunk.track, part |-> chunk.part])
            /\ count' = count + 1
        BY <1>4, <3>2 DEF NotifyPlaylistUpdated
      <4>2. packets' \in Seq(Events) /\ count' \in Nat
        BY <1>t, <2>2, <4>1 DEF QueueTypes
      <4> QED
        BY <1>t, <1>4, <4>2 DEF NotifyPlaylistUpdated, QueueTypes
    <3> QED
      BY <3>1, <3>2
  <2> QED
    BY <1>t, <1>4, <2>1, <2>3 DEF NotifyPlaylistUpdated, TrackTypes, Making, Idle
<1> QED
  BY <1>t, <1>1, <1>2, <1>3, <1>4 DEF OnMediaChunkUpdated, TypeInv, TypeOK

\* The steps of the worker.
LEMMA TypeAnswer ==
  ASSUME TypeInv, NEW rs, Answer(rs)
  PROVE  status' \in [Requests -> Statuses] /\ given' \in [Requests -> Sessions \cup {None}]
BY DEF TypeInv, TypeOK, AskedTypes, Statuses, Answer

LEMMA TypeWorker ==
  ASSUME TypeInv, WorkerThread
  PROVE  TypeInv'
<1>t. /\ AskedTypes /\ ConnectionTypes /\ InHandler /\ ListTypes /\ Asking /\ Making
      /\ QueueTypes /\ TrackTypes /\ stop \in {"no", "cleared", "joining", "sessions", "stopped"}
  BY DEF TypeInv, TypeOK
<1>1. /\ ConnectionTypes' /\ InHandler' /\ ListTypes' /\ Asking' /\ TrackTypes' /\ Making'
      /\ stop' = stop
  BY <1>t DEF WorkerThread, OnMessageReceived, SendOutgoingData, Exit, ConnectionTypes,
              InHandler, ListTypes, Asking, TrackTypes, Making, conns, lists, tracks
<1>2. ASSUME OnMessageReceived
      PROVE  AskedTypes' /\ QueueTypes'
  <2>1. status' \in [Requests -> Statuses] /\ given' \in [Requests -> Sessions \cup {None}]
    <3>1. CASE messages = <<>>
      BY <1>t, <1>2, <3>1 DEF OnMessageReceived, TakeMessage, AskedTypes
    <3>2. CASE messages # <<>> /\ Result(Head(messages)) # "Accepted"
      BY <1>2, <3>2, TypeAnswer DEF OnMessageReceived, TakeMessage
    <3>3. CASE messages # <<>> /\ Result(Head(messages)) = "Accepted"
      BY <1>t, <1>2, <3>3 DEF OnMessageReceived, TakeMessage, AskedTypes, Statuses
    <3> QED
      BY <3>1, <3>2, <3>3
  <2>2. messages' \in Seq(Requests)
    <3>1. messages' = IF messages = <<>> THEN messages ELSE Tail(messages)
      BY <1>2 DEF OnMessageReceived, TakeMessage
    <3> QED
      BY <1>t, <3>1 DEF QueueTypes
  <2> QED
    BY <1>t, <1>2, <2>1, <2>2 DEF OnMessageReceived, AskedTypes, QueueTypes
<1>3. ASSUME SendOutgoingData
      PROVE  AskedTypes' /\ QueueTypes'
  <2>1. status' \in [Requests -> Statuses] /\ given' \in [Requests -> Sessions \cup {None}]
    BY <1>t, <1>3, TypeAnswer DEF SendOutgoingData, AskedTypes
  <2>2. packets' \in Seq(Events)
    <3>1. packets' = IF packets = <<>> THEN packets ELSE Tail(packets)
      BY <1>3 DEF SendOutgoingData
    <3> QED
      BY <1>t, <3>1 DEF QueueTypes
  <2> QED
    BY <1>t, <1>3, <2>1, <2>2 DEF SendOutgoingData, AskedTypes, QueueTypes
<1>4. ASSUME Exit
      PROVE  AskedTypes' /\ QueueTypes'
  BY <1>t, <1>4 DEF Exit, AskedTypes, QueueTypes, asked
<1> QED
  BY <1>t, <1>1, <1>2, <1>3, <1>4 DEF WorkerThread, TypeInv, TypeOK

\* The steps of Stop, and none.
LEMMA TypeStop ==
  ASSUME TypeInv, ClearTracks \/ Stop
  PROVE  TypeInv'
<1>t. /\ AskedTypes /\ ConnectionTypes /\ InHandler /\ ListTypes /\ Asking /\ Making
      /\ QueueTypes /\ TrackTypes /\ stop \in {"no", "cleared", "joining", "sessions", "stopped"}
  BY DEF TypeInv, TypeOK
<1> USE DEF Stop, ClearTracks, StopWorkers, JoinWorkers, ClearSessions
<1>0. UNCHANGED <<asked, conns, queues, tracks>>
  OBVIOUS
<1>1. AskedTypes' /\ ConnectionTypes' /\ InHandler' /\ Asking'
  BY <1>t, <1>0 DEF AskedTypes, ConnectionTypes, InHandler, Asking, asked, conns
<1>2. ListTypes'
  BY <1>t DEF ListTypes, lists
<1>3. QueueTypes' /\ TrackTypes' /\ Making'
  BY <1>t, <1>0 DEF QueueTypes, TrackTypes, Making, queues, tracks
<1>4. stop' \in {"no", "cleared", "joining", "sessions", "stopped"}
  OBVIOUS
<1> QED
  BY <1>1, <1>2, <1>3, <1>4 DEF TypeInv, TypeOK

LEMMA TypeStutter == TypeInv /\ UNCHANGED vars => TypeInv'
BY DEF TypeInv, TypeOK, AskedTypes, ConnectionTypes, InHandler, ListTypes, QueueTypes,
       TrackTypes, Asking, Making, vars, asked, conns, lists, queues, tracks

LEMMA TypeStep == TypeInv /\ [Next]_vars => TypeInv'
BY TypeConnection, TypePackager, TypeWorker, TypeStop, TypeStutter DEF Next

LEMMA TypeInvariant == Spec => []TypeInv
BY TypeInit, TypeStep, PTL DEF Spec

\* The variables keep their types, for every number of connections, requests, parts and
\* tracks: whoever adds a session or closes a connection has a session.
THEOREM TypeCorrect == Spec => []TypeOK
<1>1. TypeInv => TypeOK
  BY DEF TypeInv
<1> QED
  BY <1>1, TypeInvariant, PTL

-----------------------------------------------------------------------------
\* The semaphore has a notification for each message and for each event; one more event
\* is covered by the notification in progress.
Notified ==
  /\ worker \in {"wait", "packet"} => Len(messages) <= count
  /\ worker = "wait" => Len(packets) <= count
  /\ worker = "packet" => Len(packets) <= count + 1

LEMMA NotifiedStep == TypeInv /\ Notified /\ [Next]_vars => Notified'
<1> SUFFICES ASSUME TypeInv, Notified, [Next]_vars
             PROVE  Notified'
  OBVIOUS
<1> USE DEF Notified, asked, conns, lists, queues, tracks
<1>t. messages \in Seq(Requests) /\ packets \in Seq(Events)
        /\ count \in Nat /\ worker \in {"wait", "packet", "gone"}
  BY DEF TypeInv, TypeOK, QueueTypes
<1>1. ASSUME NEW c \in Connections, SendMessage(c)
      PROVE  Notified'
  <2>1. CASE Stopped
    BY <1>1, <2>1 DEF SendMessage
  <2>2. CASE ~Stopped
    <3>1. Len(messages') = Len(messages) + 1
      BY <1>1, <1>t, <2>2, CurrentIsRequest DEF SendMessage
    <3> QED
      BY <1>1, <1>t, <2>2, <3>1 DEF SendMessage
  <2> QED
    BY <2>1, <2>2
<1>2. ASSUME NotifyPlaylistUpdated("second")
      PROVE  Notified'
  <2>1. CASE Stopped
    BY <1>2, <2>1 DEF NotifyPlaylistUpdated
  <2>2. CASE ~Stopped
    <3>1. [track |-> chunk.track, part |-> chunk.part] \in Events
      BY <1>2 DEF NotifyPlaylistUpdated, TypeInv, TypeOK, TrackTypes, Making, Events
    <3>2. Len(packets') = Len(packets) + 1
      BY <1>2, <1>t, <2>2, <3>1 DEF NotifyPlaylistUpdated
    <3> QED
      BY <1>2, <1>t, <2>2, <3>2 DEF NotifyPlaylistUpdated
  <2> QED
    BY <2>1, <2>2
<1>3. CASE OnMessageReceived
  <2>1. Len(messages') <= count'
    BY <1>3, <1>t DEF OnMessageReceived, TakeMessage
  <2> QED
    BY <1>3, <1>t, <2>1 DEF OnMessageReceived
<1>4. CASE SendOutgoingData
  <2>1. Len(packets') <= count'
    BY <1>4, <1>t DEF SendOutgoingData
  <2> QED
    BY <1>4, <1>t, <2>1 DEF SendOutgoingData
<1>5. CASE Exit
  BY <1>5 DEF Exit
<1>6. ASSUME NEW c \in Connections,
             \/ WaitUntilStart(c) \/ GetSession(c) \/ AddSession(c) \/ AddSessionToWorker(c)
             \/ OnConnectionDisconnected(c) \/ OnClose(c)
      PROVE  Notified'
  BY <1>6 DEF WaitUntilStart, GetSession, AddSession, AddSessionToWorker,
              OnConnectionDisconnected, OnClose, IsNoConnection, RemoveSession,
              RemoveSessionFromWorker
<1>7. ASSUME \/ \E t \in Tracks : AppendMediaChunk(t)
             \/ AppendPartialSegmentInfo("first") \/ ClearTracks \/ Stop \/ UNCHANGED vars
      PROVE  Notified'
  BY <1>7 DEF AppendMediaChunk, AppendPartialSegmentInfo, ClearTracks, Stop, StopWorkers,
              JoinWorkers, ClearSessions, vars
<1> QED
  BY <1>1, <1>2, <1>3, <1>4, <1>5, <1>6, <1>7
     DEF Next, OnRequest, OnMediaChunkUpdated, WorkerThread

\* The worker never waits while one of its queues has something, for every number of
\* connections and tracks, though it takes a message and an event for one notification.
THEOREM WorkerIsWoken == Spec => []NothingWaits
<1>1. Init => Notified
  BY DEF Init, Notified
<1>2. TypeInv /\ Notified => NothingWaits
  BY DEF TypeInv, TypeOK, QueueTypes, Notified, NothingWaits
<1> QED
  BY <1>1, <1>2, NotifiedStep, TypeInvariant, PTL DEF Spec

-----------------------------------------------------------------------------
(* A stopped stream is left without sessions *)

\* A request whose session has not been entered yet is known to nobody else.
New(c, n) == n > made[c] \/ (n = made[c] /\ pc[c] \in {"find", "add"})

Unknown(c, n) ==
  /\ connected[<<c, n>>] = {}
  /\ \A d \in Connections : /\ user[d] # <<c, n>> /\ sessions[d] # <<c, n>>
                            /\ use[d] = <<c, n>> => d = c /\ pc[d] = "add"

Fresh == \A c \in Connections, n \in 1..MaxRequests : New(c, n) => Unknown(c, n)

AddsOwn == \A c \in Connections : pc[c] = "add" => use[c] = Current(c)

\* A session is listed under its id.
OwnId == \A i \in Connections : sessions[i] # None => IdOf(sessions[i]) = i

\* Who will still see to it that a session is removed.
Keeps(c, s) ==
  \/ pc[c] \in {"join", "send"} /\ use[c] = s
  \/ pc[c] = "idle" /\ user[c] = s /\ c \in connected[s]
  \/ pc[c] = "closing" /\ user[c] = s /\ connected[s] = {}
  \/ pc[c] = "erase" /\ user[c] = s

Kept ==
  stop = "stopped" =>
    \A i \in Connections :
      sessions[i] # None =>
        /\ \A d \in connected[sessions[i]] : user[d] = sessions[i] /\ pc[d] = "idle"
        /\ \E c \in Connections : Keeps(c, sessions[i])

ServedGone == stop \in {"sessions", "stopped"} => \A i \in Connections : served[i] = None

SessionInv == Fresh /\ AddsOwn /\ OwnId

LEMMA SessionInit == Init => SessionInv
<1> SUFFICES ASSUME Init PROVE SessionInv
  OBVIOUS
<1> USE Request DEF Init
<1>1. ASSUME NEW c \in Connections, NEW n \in 1..MaxRequests PROVE Unknown(c, n)
  <2>1. <<c, n>> \in Sessions /\ <<c, n>> # None
    BY DEF Sessions
  <2> QED
    BY <2>1 DEF Unknown
<1>2. AddsOwn /\ OwnId
  BY DEF AddsOwn, OwnId
<1> QED
  BY <1>1, <1>2 DEF SessionInv, Fresh

\* A step after which no request is newer, and that makes no new one known.
LEMMA FreshStep ==
  ASSUME Fresh,
         \A c \in Connections, n \in 1..MaxRequests :
           New(c, n)' => New(c, n) /\ (Unknown(c, n) => Unknown(c, n)')
  PROVE  Fresh'
BY DEF Fresh

LEMMA SessionStep == TypeInv /\ SessionInv /\ [Next]_vars => SessionInv'
<1> SUFFICES ASSUME TypeInv, SessionInv, [Next]_vars
             PROVE  SessionInv'
  OBVIOUS
<1>t. /\ AskedTypes /\ ConnectionTypes /\ InHandler /\ ListTypes /\ Asking
      /\ Fresh /\ AddsOwn /\ OwnId
  BY DEF TypeInv, TypeOK, SessionInv
<1> USE DEF Goto
<1>1. ASSUME NEW c \in Connections, WaitUntilStart(c)
      PROVE  SessionInv'
  <2>0. made[c] \in 0..MaxRequests /\ made[c] + 1 \in 1..MaxRequests
    BY <1>t, <1>1, LLHlsAssumption DEF WaitUntilStart, ConnectionTypes
  <2>1. New(c, made[c] + 1)
    BY <2>0 DEF New
  <2>2. Fresh'
    <3> SUFFICES ASSUME NEW d \in Connections, NEW n \in 1..MaxRequests, New(d, n)'
                 PROVE  New(d, n) /\ (Unknown(d, n) => Unknown(d, n)')
      BY <1>t, FreshStep
    <3>1. New(d, n)
      BY <1>t, <1>1, <2>0 DEF New, WaitUntilStart, ConnectionTypes
    <3>2. \A e \in Connections : pc[e] = "add" => pc'[e] = "add"
      BY <1>t, <1>1 DEF WaitUntilStart, ConnectionTypes
    <3> QED
      BY <1>1, <3>1, <3>2 DEF WaitUntilStart, lists, Unknown
  <2>3. AddsOwn'
    BY <1>t, <1>1, <2>0 DEF AddsOwn, WaitUntilStart, ConnectionTypes, Current
  <2>4. ASSUME NEW i \in Connections, sessions'[i] # None
        PROVE  IdOf(sessions[i])' = i
    <3>1. sessions'[i] = sessions[i] /\ sessions[i] \in Requests
      BY <1>t, <1>1, <2>4 DEF WaitUntilStart, lists, ListTypes, Sessions
    <3>2. sessions[i] # <<c, made[c] + 1>>
      BY <1>t, <2>0, <2>1 DEF Fresh, Unknown
    <3>3. want'[sessions[i]] = want[sessions[i]] /\ player' = player
      BY <1>t, <1>1, <3>1, <3>2 DEF WaitUntilStart, AskedTypes
    <3> QED
      BY <1>t, <2>4, <3>1, <3>3 DEF OwnId, IdOf
  <2> QED
    BY <2>2, <2>3, <2>4 DEF SessionInv, OwnId, WaitUntilStart
<1>2. ASSUME NEW c \in Connections, GetSession(c)
      PROVE  SessionInv'
  <2>c. Current(c) \in Requests /\ made[c] \in 1..MaxRequests
    BY <1>t, <1>2, CurrentIsRequest DEF GetSession, Asking, ConnectionTypes
  <2>0. IdOf(Current(c)) \in Connections
    BY <2>c, IdIsConnection
  <2>1. \/ use' = [use EXCEPT ![c] = Current(c)] /\ pc' = [pc EXCEPT ![c] = "add"]
        \/ /\ pc' = [pc EXCEPT ![c] = "send"]
           /\ \/ use' = [use EXCEPT ![c] = user[c]]
              \/ use' = [use EXCEPT ![c] = sessions[IdOf(Current(c))]]
    BY <1>2 DEF GetSession
  <2>2. /\ UNCHANGED <<made, user, connected, sessions, want, player>>
        /\ pc[c] = "find"
    BY <1>2 DEF GetSession, lists, asked
  <2>4. Fresh'
    <3> SUFFICES ASSUME NEW d \in Connections, NEW n \in 1..MaxRequests, New(d, n)'
                 PROVE  New(d, n) /\ (Unknown(d, n) => Unknown(d, n)')
      BY <1>t, FreshStep
    <3>1. New(d, n)
      BY <1>t, <2>1, <2>2 DEF New, ConnectionTypes
    <3>2. ASSUME Unknown(d, n), NEW e \in Connections, use'[e] = <<d, n>>
          PROVE  e = d /\ pc'[e] = "add"
      <4>1. CASE e # c
        BY <1>t, <2>1, <3>2, <4>1 DEF Unknown, ConnectionTypes
      <4>2. CASE e = c
        <5>1. user[c] # <<d, n>> /\ sessions[IdOf(Current(c))] # <<d, n>>
          BY <2>0, <3>2 DEF Unknown
        <5>2. use'[c] = Current(c) /\ pc'[c] = "add"
          BY <1>t, <2>1, <3>2, <4>2, <5>1 DEF ConnectionTypes
        <5> QED
          BY <3>2, <4>2, <5>2 DEF Current
      <4> QED
        BY <4>1, <4>2
    <3> QED
      BY <2>2, <3>1, <3>2 DEF Unknown
  <2>5. AddsOwn'
    BY <1>t, <2>1, <2>2 DEF AddsOwn, ConnectionTypes, Current
  <2>6. OwnId'
    BY <1>t, <2>2 DEF OwnId, IdOf
  <2> QED
    BY <2>4, <2>5, <2>6 DEF SessionInv
<1>3. ASSUME NEW c \in Connections, AddSession(c)
      PROVE  SessionInv'
  <2>1. use[c] = Current(c) /\ use[c] \in Requests /\ IdOf(use[c]) \in Connections
        /\ pc[c] = "add"
    BY <1>t, <1>3, CurrentIsRequest, IdIsConnection DEF AddSession, AddsOwn
  <2>2. UNCHANGED <<made, user, use, connected, want, player>>
    BY <1>3 DEF AddSession, asked
  <2>4. Fresh'
    <3> SUFFICES ASSUME NEW d \in Connections, NEW n \in 1..MaxRequests, New(d, n)'
                 PROVE  New(d, n) /\ (Unknown(d, n) => Unknown(d, n)')
      BY <1>t, FreshStep
    <3>1. New(d, n) /\ ~(d = c /\ n = made[c])
      BY <1>t, <1>3, <2>2 DEF AddSession, New, ConnectionTypes
    <3>2. <<d, n>> # use[c]
      BY <2>1, <3>1 DEF Current
    <3>3. \A e \in Connections : sessions'[e] \in {sessions[e], use[c]}
      BY <1>t, <1>3 DEF AddSession, ListTypes
    <3>4. \A e \in Connections \ {c} : pc'[e] = pc[e]
      BY <1>t, <1>3 DEF AddSession, ConnectionTypes
    <3>5. ASSUME Unknown(d, n), NEW e \in Connections
          PROVE  sessions'[e] # <<d, n>> /\ (use[e] = <<d, n>> => e = d /\ pc'[e] = "add")
      BY <3>2, <3>3, <3>4, <3>5 DEF Unknown
    <3> QED
      BY <2>2, <3>1, <3>5 DEF Unknown
  <2>5. AddsOwn'
    BY <1>t, <1>3, <2>2 DEF AddSession, AddsOwn, ConnectionTypes, Current
  <2>6. OwnId'
    BY <1>t, <1>3, <2>1, <2>2 DEF AddSession, OwnId, ListTypes, IdOf
  <2> QED
    BY <2>4, <2>5, <2>6 DEF SessionInv
<1>4. ASSUME NEW c \in Connections, AddSessionToWorker(c)
      PROVE  SessionInv'
  <2>1. pc' = [pc EXCEPT ![c] = "send"] /\ pc[c] = "join"
        /\ UNCHANGED <<made, user, use, connected, sessions, want, player>>
    BY <1>4 DEF AddSessionToWorker, asked
  <2>2. Fresh'
    <3> SUFFICES ASSUME NEW d \in Connections, NEW n \in 1..MaxRequests, New(d, n)'
                 PROVE  New(d, n) /\ (Unknown(d, n) => Unknown(d, n)')
      BY <1>t, FreshStep
    <3>1. New(d, n)
      BY <1>t, <2>1 DEF New, ConnectionTypes
    <3>2. \A e \in Connections : pc[e] = "add" => pc'[e] = "add"
      BY <1>t, <2>1 DEF ConnectionTypes
    <3> QED
      BY <2>1, <3>1, <3>2 DEF Unknown
  <2> QED
    BY <1>t, <2>1, <2>2 DEF SessionInv, AddsOwn, OwnId, IdOf, ConnectionTypes, Current
<1>5. ASSUME NEW c \in Connections, SendMessage(c)
      PROVE  SessionInv'
  <2>1. /\ pc' = [pc EXCEPT ![c] = "idle"] /\ pc[c] = "send"
        /\ user' = [user EXCEPT ![c] = use[c]] /\ use' = [use EXCEPT ![c] = None]
        /\ connected' = [connected EXCEPT ![use[c]] = @ \cup {c}]
        /\ UNCHANGED <<made, sessions, want, player>>
    BY <1>5 DEF SendMessage, lists
  <2>3. Fresh'
    <3> SUFFICES ASSUME NEW d \in Connections, NEW n \in 1..MaxRequests, New(d, n)'
                 PROVE  New(d, n) /\ (Unknown(d, n) => Unknown(d, n)')
      BY <1>t, FreshStep
    <3>1. New(d, n) /\ <<d, n>> \in Sessions /\ <<d, n>> # None
      BY <1>t, <2>1, Request DEF New, ConnectionTypes, Sessions
    <3>2. ASSUME Unknown(d, n) PROVE Unknown(d, n)'
      <4>1. use[c] # <<d, n>>
        BY <2>1, <3>2 DEF Unknown
      <4>2. connected'[<<d, n>>] = connected[<<d, n>>]
        BY <1>t, <2>1, <3>1, <4>1 DEF ConnectionTypes
      <4>3. \A e \in Connections : /\ user'[e] \in {user[e], use[c]}
                                   /\ use'[e] = <<d, n>> => use[e] = <<d, n>> /\ e # c
                                   /\ e # c => pc'[e] = pc[e]
        BY <1>t, <2>1, <3>1 DEF ConnectionTypes
      <4> QED
        BY <2>1, <3>2, <4>1, <4>2, <4>3 DEF Unknown
    <3> QED
      BY <3>1, <3>2
  <2> QED
    BY <1>t, <2>1, <2>3 DEF SessionInv, AddsOwn, OwnId, IdOf, ConnectionTypes, Current
<1>6. ASSUME NEW c \in Connections, OnConnectionDisconnected(c)
      PROVE  SessionInv'
  <2>1. /\ pc' \in {[pc EXCEPT ![c] = "closed"], [pc EXCEPT ![c] = "closing"]}
        /\ pc[c] = "idle" /\ UNCHANGED <<made, use, user, sessions, want, player>>
        /\ \/ connected' = connected
           \/ connected' = [connected EXCEPT ![user[c]] = @ \ {c}]
    BY <1>6 DEF OnConnectionDisconnected, lists, asked
  <2>2. \A s \in Sessions : connected'[s] \subseteq connected[s]
    BY <1>t, <2>1 DEF ConnectionTypes
  <2>3. Fresh'
    <3> SUFFICES ASSUME NEW d \in Connections, NEW n \in 1..MaxRequests, New(d, n)'
                 PROVE  New(d, n) /\ (Unknown(d, n) => Unknown(d, n)')
      BY <1>t, FreshStep
    <3>1. New(d, n) /\ <<d, n>> \in Sessions
      BY <1>t, <2>1, Request DEF New, ConnectionTypes, Sessions
    <3>2. \A e \in Connections : pc[e] = "add" => pc'[e] = "add"
      BY <1>t, <2>1 DEF ConnectionTypes
    <3> QED
      BY <2>1, <2>2, <3>1, <3>2 DEF Unknown
  <2> QED
    BY <1>t, <2>1, <2>3 DEF SessionInv, AddsOwn, OwnId, IdOf, ConnectionTypes, Current
<1>7. ASSUME NEW c \in Connections, OnClose(c)
      PROVE  SessionInv'
  <2>1. /\ UNCHANGED <<made, use, user, connected, want, player>>
        /\ pc[c] \in {"closing", "erase", "remove"}
        /\ \E step \in {"erase", "remove", "closed"} : pc' = [pc EXCEPT ![c] = step]
        /\ \/ sessions' = sessions
           \/ sessions' = [sessions EXCEPT ![IdOf(user[c])] = None]
    BY <1>7 DEF OnClose, IsNoConnection, RemoveSession, RemoveSessionFromWorker, asked, lists
  <2>2. \A i \in Connections : sessions'[i] \in {sessions[i], None}
    BY <1>t, <2>1 DEF ListTypes
  <2>3. Fresh'
    <3> SUFFICES ASSUME NEW d \in Connections, NEW n \in 1..MaxRequests, New(d, n)'
                 PROVE  New(d, n) /\ (Unknown(d, n) => Unknown(d, n)')
      BY <1>t, FreshStep
    <3>1. New(d, n) /\ <<d, n>> # None
      BY <1>t, <2>1, Request DEF New, ConnectionTypes
    <3>2. \A e \in Connections : pc[e] = "add" => pc'[e] = "add"
      BY <1>t, <2>1 DEF ConnectionTypes
    <3> QED
      BY <2>1, <2>2, <3>1, <3>2 DEF Unknown
  <2> QED
    BY <1>t, <2>1, <2>2, <2>3 DEF SessionInv, AddsOwn, OwnId, IdOf, ConnectionTypes, Current
<1>8. ASSUME NEW t \in Tracks, AppendMediaChunk(t)
      PROVE  SessionInv'
  BY <1>t, <1>8 DEF AppendMediaChunk, asked, conns, lists, SessionInv, Fresh, Unknown, New, AddsOwn,
                    OwnId, IdOf, Current
<1>9. CASE OnMediaChunkUpdated \/ WorkerThread \/ ClearTracks
  <2>1. UNCHANGED <<player, want, conns, lists>>
    BY <1>9 DEF OnMediaChunkUpdated, AppendPartialSegmentInfo, NotifyPlaylistUpdated, asked,
                WorkerThread, OnMessageReceived, SendOutgoingData, Exit, ClearTracks
  <2> QED
    BY <1>t, <2>1 DEF conns, lists, SessionInv, Fresh, Unknown, New, AddsOwn, OwnId, IdOf, Current
<1>10. CASE Stop
  <2>1. /\ UNCHANGED <<player, want, conns>>
        /\ sessions' = sessions \/ sessions' = [c \in Connections |-> None]
    BY <1>10 DEF Stop, StopWorkers, JoinWorkers, ClearSessions, asked, lists
  <2>2. \A i \in Connections : sessions'[i] \in {sessions[i], None}
    BY <2>1
  <2> QED
    BY <1>t, <2>1, <2>2, Request DEF conns, SessionInv, Fresh, Unknown, New, AddsOwn, OwnId, IdOf, Current
<1>11. CASE UNCHANGED vars
  BY <1>t, <1>11 DEF vars, asked, conns, lists, SessionInv, Fresh, Unknown, New, AddsOwn, OwnId, IdOf,
                     Current
<1> QED
  BY <1>1, <1>2, <1>3, <1>4, <1>5, <1>6, <1>7, <1>8, <1>9, <1>10, <1>11 DEF Next, OnRequest

LEMMA SessionInvariant == Spec => [](TypeInv /\ SessionInv)
<1>1. TypeInv /\ SessionInv /\ [Next]_vars => (TypeInv /\ SessionInv)'
  BY TypeStep, SessionStep
<1> QED
  BY <1>1, TypeInit, SessionInit, PTL DEF Spec

KeptInv == Kept /\ ServedGone

\* After Stop the steps of the connections decide what is left.
LEMMA KeptStep == TypeInv /\ SessionInv /\ KeptInv /\ [Next]_vars => KeptInv'
<1> SUFFICES ASSUME TypeInv, SessionInv, KeptInv, [Next]_vars
             PROVE  KeptInv'
  OBVIOUS
<1>t. /\ ConnectionTypes /\ InHandler /\ ListTypes /\ Asking /\ Kept /\ ServedGone
      /\ Fresh /\ AddsOwn /\ OwnId
      /\ stop \in {"no", "cleared", "joining", "sessions", "stopped"}
  BY DEF TypeInv, TypeOK, SessionInv, KeptInv
<1> USE DEF Goto
<1>1. ASSUME NEW c \in Connections, WaitUntilStart(c)
      PROVE  KeptInv'
  <2>1. /\ UNCHANGED <<use, user, connected, sessions, served, stop>>
        /\ stop = "stopped" => pc' = pc
    BY <1>1 DEF WaitUntilStart, lists, Stopped
  <2> QED
    BY <1>t, <2>1 DEF KeptInv, Kept, ServedGone, Keeps
<1>2. ASSUME NEW c \in Connections, GetSession(c)
      PROVE  KeptInv'
  <2>1. /\ UNCHANGED <<user, connected, sessions, served, stop>> /\ pc[c] = "find"
        /\ pc'[c] \in {"add", "send"}
        /\ \A d \in Connections \ {c} : pc'[d] = pc[d] /\ use'[d] = use[d]
    BY <1>t, <1>2 DEF GetSession, lists, ConnectionTypes
  <2>2. \A s : /\ \A d \in Connections : Keeps(d, s) => Keeps(d, s)'
    BY <2>1 DEF Keeps
  <2>3. \A d \in Connections : pc[d] = "idle" => pc'[d] = "idle"
    BY <2>1
  <2> QED
    BY <1>t, <2>1, <2>2, <2>3 DEF KeptInv, Kept, ServedGone, ConnectionTypes, ListTypes
<1>3. ASSUME NEW c \in Connections, AddSession(c)
      PROVE  KeptInv'
  <2>1. /\ UNCHANGED <<use, user, connected, served, stop>> /\ pc[c] = "add"
        /\ pc'[c] = "join" /\ \A d \in Connections \ {c} : pc'[d] = pc[d]
        /\ sessions' = [sessions EXCEPT ![IdOf(use[c])] = use[c]]
    BY <1>t, <1>3 DEF AddSession, ConnectionTypes
  <2>2. connected[use[c]] = {}
    <3>1. made[c] \in 1..MaxRequests /\ New(c, made[c])
      BY <1>t, <2>1 DEF ConnectionTypes, Asking, New
    <3>2. Unknown(c, made[c])
      BY <1>t, <3>1 DEF Fresh
    <3>3. use[c] = <<c, made[c]>>
      BY <1>t, <2>1 DEF AddsOwn, Current
    <3> QED
      BY <3>2, <3>3 DEF Unknown
  <2>3. ASSUME NEW i \in Connections, NEW s, s = sessions'[i], stop = "stopped", s # None
        PROVE  /\ \A d \in connected[s] : user[d] = s /\ pc'[d] = "idle"
               /\ \E d \in Connections : Keeps(d, s)'
    <3>1. CASE s = use[c]
      <4>1. Keeps(c, s)'
        BY <2>1, <3>1 DEF Keeps
      <4> QED
        BY <2>2, <3>1, <4>1
    <3>2. CASE s # use[c]
      <4>1. s = sessions[i] /\ s \in Sessions
        BY <1>t, <2>1, <2>3, <3>2 DEF ListTypes
      <4>2. connected[s] \subseteq Connections
        BY <1>t, <4>1 DEF ConnectionTypes
      <4>3. PICK k \in Connections : Keeps(k, s)
        BY <1>t, <2>3, <4>1 DEF Kept
      <4>4. \A d \in connected[s] : user[d] = s /\ pc[d] = "idle"
        BY <1>t, <2>3, <4>1 DEF Kept
      <4>5. Keeps(k, s)'
        BY <2>1, <4>3 DEF Keeps
      <4> QED
        BY <2>1, <4>2, <4>4, <4>5
    <3> QED
      BY <3>1, <3>2
  <2>4. Kept'
    BY <2>1, <2>3 DEF Kept, Keeps
  <2> QED
    BY <1>t, <2>1, <2>4 DEF KeptInv, ServedGone
<1>4. ASSUME NEW c \in Connections, AddSessionToWorker(c)
      PROVE  KeptInv'
  <2>1. /\ UNCHANGED <<use, user, connected, sessions, stop>> /\ pc[c] = "join"
        /\ pc'[c] = "send" /\ \A d \in Connections \ {c} : pc'[d] = pc[d]
        /\ stop \in {"sessions", "stopped"} => served' = served
    BY <1>t, <1>4 DEF AddSessionToWorker, Stopped, ConnectionTypes
  <2>2. \A s : \A d \in Connections : Keeps(d, s) => Keeps(d, s)'
    BY <2>1 DEF Keeps
  <2>3. \A d \in Connections : pc[d] = "idle" => pc'[d] = "idle"
    BY <2>1
  <2> QED
    BY <1>t, <2>1, <2>2, <2>3 DEF KeptInv, Kept, ServedGone, ConnectionTypes, ListTypes
<1>5. ASSUME NEW c \in Connections, SendMessage(c)
      PROVE  KeptInv'
  <2>1. /\ UNCHANGED <<sessions, served, stop>> /\ pc[c] = "send" /\ pc'[c] = "idle"
        /\ \A d \in Connections \ {c} :
             pc'[d] = pc[d] /\ use'[d] = use[d] /\ user'[d] = user[d]
        /\ user'[c] = use[c] /\ use[c] \in Sessions
        /\ connected' = [connected EXCEPT ![use[c]] = @ \cup {c}]
    BY <1>t, <1>5 DEF SendMessage, lists, ConnectionTypes, InHandler
  <2>2. connected'[use[c]] = connected[use[c]] \cup {c}
    BY <1>t, <2>1 DEF ConnectionTypes
  <2>3. \A s \in Sessions \ {use[c]} : connected'[s] = connected[s]
    BY <1>t, <2>1 DEF ConnectionTypes
  <2>4. ASSUME NEW s, s = use[c] PROVE Keeps(c, s)'
    BY <2>1, <2>2, <2>4 DEF Keeps
  <2>5. ASSUME NEW i \in Connections, NEW s, s = sessions[i], stop = "stopped", s # None
        PROVE  /\ \A d \in connected'[s] :
                    user'[d] = s /\ pc'[d] = "idle"
               /\ \E d \in Connections : Keeps(d, s)'
    <3>1. /\ s \in Sessions /\ connected[s] \subseteq Connections
          /\ \A d \in connected[s] : user[d] = s /\ pc[d] = "idle"
          /\ \E d \in Connections : Keeps(d, s)
      BY <1>t, <2>5 DEF Kept, ListTypes, ConnectionTypes
    <3>2. c \notin connected[s]
      BY <2>1, <3>1
    <3>3. CASE s = use[c]
      BY <2>1, <2>2, <2>4, <3>1, <3>2, <3>3
    <3>4. CASE s # use[c]
      <4>1. connected'[s] = connected[s]
        BY <2>3, <3>1, <3>4
      <4>2. PICK d \in Connections : Keeps(d, s)
        BY <3>1
      <4>3. d # c
        BY <2>1, <3>4, <4>2 DEF Keeps
      <4>4. Keeps(d, s)'
        BY <2>1, <4>1, <4>2, <4>3 DEF Keeps
      <4> QED
        BY <2>1, <3>1, <3>2, <4>1, <4>4
    <3> QED
      BY <3>3, <3>4
  <2>6. Kept'
    BY <2>1, <2>5 DEF Kept, Keeps
  <2> QED
    BY <1>t, <2>1, <2>6 DEF KeptInv, ServedGone, ListTypes
<1>6. ASSUME NEW c \in Connections, OnConnectionDisconnected(c)
      PROVE  KeptInv'
  <2>1. /\ UNCHANGED <<use, user, sessions, served, stop>> /\ pc[c] = "idle"
        /\ \A d \in Connections \ {c} : pc'[d] = pc[d]
        /\ IF user[c] = None THEN connected' = connected /\ pc'[c] = "closed"
           ELSE /\ connected' = [connected EXCEPT ![user[c]] = @ \ {c}]
                /\ pc'[c] = "closing"
    BY <1>t, <1>6 DEF OnConnectionDisconnected, lists, ConnectionTypes
  <2>2. ASSUME NEW i \in Connections, stop = "stopped", sessions[i] # None
        PROVE  /\ \A d \in connected'[sessions[i]] :
                    user[d] = sessions[i] /\ pc'[d] = "idle"
               /\ \E d \in Connections : Keeps(d, sessions[i])'
    <3>1. /\ sessions[i] \in Sessions /\ connected[sessions[i]] \subseteq Connections
          /\ \A d \in connected[sessions[i]] : user[d] = sessions[i] /\ pc[d] = "idle"
      BY <1>t, <2>2 DEF Kept, ListTypes, ConnectionTypes
    <3>2. PICK k \in Connections : Keeps(k, sessions[i])
      BY <1>t, <2>2 DEF Kept
    <3>3. CASE user[c] = sessions[i]
      <4>1. connected'[sessions[i]] = connected[sessions[i]] \ {c} /\ pc'[c] = "closing"
        BY <1>t, <2>1, <2>2, <3>1, <3>3 DEF ConnectionTypes
      <4>2. CASE connected'[sessions[i]] = {}
        <5>1. Keeps(c, sessions[i])'
          BY <2>1, <3>3, <4>1, <4>2 DEF Keeps
        <5> QED
          BY <4>2, <5>1
      <4>3. CASE connected'[sessions[i]] # {}
        <5>1. PICK d \in connected'[sessions[i]] : TRUE
          BY <4>3
        <5>2. d \in Connections /\ d # c /\ user[d] = sessions[i] /\ pc[d] = "idle"
          BY <3>1, <4>1, <5>1
        <5>3. Keeps(d, sessions[i])'
          BY <2>1, <5>1, <5>2 DEF Keeps
        <5> QED
          BY <2>1, <3>1, <4>1, <5>2, <5>3
      <4> QED
        BY <4>2, <4>3
    <3>4. CASE user[c] # sessions[i]
      <4>1. connected'[sessions[i]] = connected[sessions[i]]
        BY <1>t, <2>1, <3>1, <3>4 DEF ConnectionTypes
      <4>2. c \notin connected[sessions[i]]
        BY <3>1, <3>4
      <4>3. k # c
        BY <2>1, <3>2, <3>4 DEF Keeps
      <4>4. Keeps(k, sessions[i])'
        BY <2>1, <3>2, <4>1, <4>3 DEF Keeps
      <4> QED
        BY <2>1, <3>1, <4>1, <4>2, <4>4
    <3> QED
      BY <3>3, <3>4
  <2> QED
    BY <1>t, <2>1, <2>2 DEF KeptInv, Kept, ServedGone
<1>7. ASSUME NEW c \in Connections, IsNoConnection(c)
      PROVE  KeptInv'
  <2>1. /\ UNCHANGED <<use, user, connected, sessions, served, stop>> /\ pc[c] = "closing"
        /\ \A d \in Connections \ {c} : pc'[d] = pc[d]
        /\ pc'[c] = IF connected[user[c]] = {} THEN "erase" ELSE "closed"
    BY <1>t, <1>7 DEF IsNoConnection, lists, ConnectionTypes
  <2>2. \A s : \A d \in Connections : Keeps(d, s) => Keeps(d, s)'
    BY <2>1 DEF Keeps
  <2>3. \A d \in Connections : pc[d] = "idle" => pc'[d] = "idle"
    BY <2>1
  <2> QED
    BY <1>t, <2>1, <2>2, <2>3 DEF KeptInv, Kept, ServedGone, ConnectionTypes, ListTypes
<1>8. ASSUME NEW c \in Connections, RemoveSession(c)
      PROVE  KeptInv'
  <2>1. /\ UNCHANGED <<use, user, connected, served, stop>> /\ pc[c] = "erase"
        /\ \A d \in Connections \ {c} : pc'[d] = pc[d]
        /\ sessions' = [sessions EXCEPT ![IdOf(user[c])] = None]
        /\ user[c] \in Requests
    BY <1>t, <1>8 DEF RemoveSession, ConnectionTypes, InHandler, Sessions
  <2>2. IdOf(user[c]) \in Connections
    BY <2>1, IdIsConnection
  <2>3. ASSUME NEW i \in Connections, NEW s, s = sessions'[i], stop = "stopped", s # None
        PROVE  /\ \A d \in connected[s] : user[d] = s /\ pc'[d] = "idle"
               /\ \E d \in Connections : Keeps(d, s)'
    <3>1. s = sessions[i] /\ i # IdOf(user[c])
      BY <1>t, <2>1, <2>2, <2>3 DEF ListTypes
    <3>2. /\ connected[s] \subseteq Connections
          /\ \A d \in connected[s] : user[d] = s /\ pc[d] = "idle"
      BY <1>t, <2>3, <3>1 DEF Kept, ListTypes, ConnectionTypes
    <3>3. PICK k \in Connections : Keeps(k, s)
      BY <1>t, <2>3, <3>1 DEF Kept
    <3>4. user[c] # s
      BY <1>t, <2>3, <3>1 DEF OwnId
    <3>5. k # c
      BY <2>1, <3>3, <3>4 DEF Keeps
    <3>6. Keeps(k, s)'
      BY <2>1, <3>3, <3>5 DEF Keeps
    <3> QED
      BY <2>1, <3>1, <3>2, <3>6
  <2>4. Kept'
    BY <2>1, <2>3 DEF Kept, Keeps
  <2> QED
    BY <1>t, <2>1, <2>4 DEF KeptInv, ServedGone
<1>9. ASSUME NEW c \in Connections, RemoveSessionFromWorker(c)
      PROVE  KeptInv'
  <2>1. /\ UNCHANGED <<use, user, connected, sessions, stop>> /\ pc[c] = "remove"
        /\ \A d \in Connections \ {c} : pc'[d] = pc[d]
        /\ served' = [served EXCEPT ![IdOf(user[c])] = None]
    BY <1>t, <1>9 DEF RemoveSessionFromWorker, ConnectionTypes
  <2>2. \A s : \A d \in Connections : Keeps(d, s) => Keeps(d, s)'
    BY <2>1 DEF Keeps
  <2>3. \A d \in Connections : pc[d] = "idle" => pc'[d] = "idle"
    BY <2>1
  <2>4. \A i \in Connections : served'[i] \in {served[i], None}
    BY <1>t, <2>1 DEF ListTypes
  <2> QED
    BY <1>t, <2>1, <2>2, <2>3, <2>4 DEF KeptInv, Kept, ServedGone, ConnectionTypes, ListTypes
<1>10. ASSUME NEW t \in Tracks, AppendMediaChunk(t)
       PROVE  KeptInv'
  BY <1>t, <1>10 DEF AppendMediaChunk, conns, lists, KeptInv, Kept, ServedGone, Keeps
<1>11. CASE OnMediaChunkUpdated \/ WorkerThread
  <2>1. UNCHANGED <<conns, lists, stop>>
    BY <1>11 DEF OnMediaChunkUpdated, AppendPartialSegmentInfo, NotifyPlaylistUpdated,
                 WorkerThread, OnMessageReceived, SendOutgoingData, Exit
  <2> QED
    BY <1>t, <2>1 DEF conns, lists, KeptInv, Kept, ServedGone, Keeps
<1>12. CASE ClearTracks \/ StopWorkers
  <2>1. stop' \in {"cleared", "joining"}
    BY <1>12 DEF ClearTracks, StopWorkers
  <2> QED
    BY <2>1 DEF KeptInv, Kept, ServedGone
<1>13. CASE JoinWorkers
  BY <1>13 DEF JoinWorkers, KeptInv, Kept, ServedGone
<1>14. CASE ClearSessions
  BY <1>t, <1>14 DEF ClearSessions, KeptInv, Kept, ServedGone
<1>15. CASE UNCHANGED vars
  BY <1>t, <1>15 DEF vars, conns, lists, KeptInv, Kept, ServedGone, Keeps
<1> QED
  BY <1>1, <1>2, <1>3, <1>4, <1>5, <1>6, <1>7, <1>8, <1>9, <1>10, <1>11, <1>12, <1>13, <1>14,
     <1>15 DEF Next, OnRequest, OnClose, Stop

\* A stopped stream has no session once its connections have closed, for every number of
\* connections, requests and players that share sessions: while it has one, a connection
\* is left that will remove it.
THEOREM StoppedHasNoSession == Spec => []NoSessionLeft
<1>1. Init => KeptInv
  BY DEF Init, KeptInv, Kept, ServedGone
<1>2. TypeInv /\ KeptInv => NoSessionLeft
  BY DEF KeptInv, Kept, Keeps, ServedGone, NoSessionLeft
<1>3. TypeInv /\ SessionInv /\ KeptInv /\ [Next]_vars => KeptInv'
  BY KeptStep
<1> QED
  BY <1>1, <1>2, <1>3, SessionInvariant, PTL DEF Spec


-----------------------------------------------------------------------------
(* What a request was held for is there when it is released *)

\* The worker gets requests that were sent only, so that it holds none that is still to
\* come or is being handled.
AskedInv ==
  /\ \A c \in Connections :
       pc[c] \in {"find", "add", "join", "send"} => status[Current(c)] = "asked"
  /\ \A c \in Connections, n \in 1..MaxRequests : n > made[c] => status[<<c, n>>] = "new"
  /\ \A i \in 1..Len(messages) : status[messages[i]] \notin {"new", "asked"}
  /\ \A r \in Requests : status[r] # "new" => want[r] \in Wants

\* The part in progress is the next one of its track, then the last; the events are of
\* parts that the chunklists have.
PartInv ==
  /\ chunk.step = "idle" => chunk = Idle
  /\ chunk.step = "first" => chunk.part = listed[chunk.track] + 1
  /\ chunk.step = "second" => chunk.part = listed[chunk.track]

EventInv == \A i \in 1..Len(packets) : packets[i].part <= listed[packets[i].track]

\* Requests that are answered or held are not new.
LEMMA AskedKept ==
  ASSUME TypeInv, AskedInv, pc' = pc, made' = made, want' = want,
         \A r \in Requests : \/ status'[r] = status[r]
                             \/ status[r] \notin {"new", "asked"} /\ status'[r] \notin {"new", "asked"},
         \A i \in 1..Len(messages') : \E j \in 1..Len(messages) : messages'[i] = messages[j]
  PROVE  AskedInv'
<1>1. ASSUME NEW c \in Connections, pc[c] \in {"find", "add", "join", "send"}
      PROVE  status'[Current(c)'] = "asked"
  <2>1. Current(c) \in Requests /\ Current(c)' = Current(c)
    BY <1>1, CurrentIsRequest DEF Current
  <2> QED
    BY <1>1, <2>1 DEF AskedInv
<1>2. ASSUME NEW c \in Connections, NEW n \in 1..MaxRequests, n > made[c]
      PROVE  status'[<<c, n>>] = "new"
  BY <1>2, Request DEF AskedInv
<1>3. ASSUME NEW i \in 1..Len(messages') PROVE status'[messages'[i]] \notin {"new", "asked"}
  <2>1. PICK j \in 1..Len(messages) : messages'[i] = messages[j]
    OBVIOUS
  <2>2. messages[j] \in Requests
    BY DEF TypeInv, TypeOK, QueueTypes
  <2> QED
    BY <2>1, <2>2 DEF AskedInv
<1>4. ASSUME NEW r \in Requests, status'[r] # "new" PROVE want'[r] \in Wants
  BY <1>4 DEF AskedInv
<1> QED
  BY <1>1, <1>2, <1>3, <1>4 DEF AskedInv

LEMMA AskedConnection ==
  ASSUME TypeInv, AskedInv, NEW c \in Connections,
         \/ WaitUntilStart(c) \/ OnRequest(c) \/ OnConnectionDisconnected(c) \/ OnClose(c)
  PROVE  AskedInv'
<1> USE DEF Goto, lists, queues, tracks, conns
<1>t. /\ pc \in [Connections -> {"idle", "find", "add", "join", "send", "closing", "erase",
                                 "remove", "closed"}]
      /\ made \in [Connections -> 0..MaxRequests] /\ status \in [Requests -> Statuses]
      /\ messages \in Seq(Requests) /\ want \in [Requests -> Wants \cup {None}]
  BY DEF TypeInv, TypeOK, ConnectionTypes, AskedTypes, QueueTypes
<1>m. \A d \in Connections : made[d] \in Nat
  BY <1>t
<1>1. CASE WaitUntilStart(c)
  <2>1. PICK r : r = <<c, made[c] + 1>>
    OBVIOUS
  <2>2. made[c] + 1 \in 1..MaxRequests
    BY <1>t, <1>1, LLHlsAssumption DEF WaitUntilStart
  <2>3. /\ r \in Requests /\ status[r] = "new" /\ pc[c] = "idle"
        /\ made' = [made EXCEPT ![c] = @ + 1] /\ messages' = messages
        /\ status' = [status EXCEPT ![r] = IF Stopped THEN "over" ELSE "asked"]
        /\ IF Stopped THEN pc' = pc ELSE pc' = [pc EXCEPT ![c] = "find"]
    BY <1>1, <1>m, <2>1, <2>2, Request DEF WaitUntilStart, AskedInv
  <2>4. ASSUME NEW d \in Connections, pc'[d] \in {"find", "add", "join", "send"}
        PROVE  status'[Current(d)'] = "asked"
    <3>1. CASE d = c
      BY <1>t, <2>1, <2>3, <2>4, <3>1 DEF Current
    <3>2. CASE d # c
      <4>1. pc[d] \in {"find", "add", "join", "send"} /\ Current(d)' = Current(d)
        BY <1>t, <2>3, <2>4, <3>2 DEF Current
      <4>2. Current(d) # r /\ Current(d) \in Requests
        BY <2>1, <3>2, <4>1, CurrentIsRequest DEF Current
      <4> QED
        BY <1>t, <2>3, <4>1, <4>2 DEF AskedInv
    <3> QED
      BY <3>1, <3>2
  <2>5. ASSUME NEW d \in Connections, NEW n \in 1..MaxRequests, n > made'[d]
        PROVE  status'[<<d, n>>] = "new"
    <3>1. <<d, n>> # r /\ n > made[d]
      BY <1>t, <1>m, <2>1, <2>3, <2>5
    <3> QED
      BY <1>t, <2>3, <3>1, Request DEF AskedInv
  <2>6. ASSUME NEW i \in 1..Len(messages') PROVE status'[messages'[i]] \notin {"new", "asked"}
    BY <1>t, <2>3, <2>6 DEF AskedInv
  <2>7. ASSUME NEW q \in Requests, status'[q] # "new" PROVE want'[q] \in Wants
    <3>1. PICK w \in Wants : want' = [want EXCEPT ![r] = w]
      BY <1>1, <2>1 DEF WaitUntilStart
    <3>2. q # r => status'[q] = status[q]
      BY <1>t, <2>3
    <3> QED
      BY <1>t, <2>7, <3>1, <3>2 DEF AskedInv
  <2> QED
    BY <2>4, <2>5, <2>6, <2>7 DEF AskedInv
<1>2. CASE SendMessage(c)
  <2>1. PICK r \in Requests : r = Current(c)
    BY <1>2, CurrentIsRequest DEF SendMessage
  <2>2. /\ pc[c] = "send" /\ pc' = [pc EXCEPT ![c] = "idle"] /\ made' = made
        /\ \E step \in {"over", "queued"} : status' = [status EXCEPT ![r] = step]
        /\ messages' = messages \/ messages' = Append(messages, r)
    BY <1>2, <2>1 DEF SendMessage
  <2>3. status[r] = "asked" /\ r = <<c, made[c]>>
    BY <2>1, <2>2 DEF AskedInv, Current
  <2>4. ASSUME NEW d \in Connections, pc'[d] \in {"find", "add", "join", "send"}
        PROVE  status'[Current(d)'] = "asked"
    <3>1. d # c /\ pc[d] \in {"find", "add", "join", "send"} /\ Current(d)' = Current(d)
      BY <1>t, <2>2, <2>4 DEF Current
    <3>2. Current(d) # r /\ Current(d) \in Requests
      BY <2>3, <3>1, CurrentIsRequest DEF Current
    <3> QED
      BY <1>t, <2>2, <3>1, <3>2 DEF AskedInv
  <2>5. ASSUME NEW d \in Connections, NEW n \in 1..MaxRequests, n > made'[d]
        PROVE  status'[<<d, n>>] = "new"
    <3>1. <<d, n>> # r
      BY <1>m, <2>2, <2>3, <2>5
    <3> QED
      BY <1>t, <2>2, <2>5, <3>1, Request DEF AskedInv
  <2>6. ASSUME NEW i \in 1..Len(messages') PROVE status'[messages'[i]] \notin {"new", "asked"}
    <3>1. messages'[i] = r \/ \E j \in 1..Len(messages) : messages'[i] = messages[j]
      <4>1. CASE messages' = messages
        BY <2>6, <4>1
      <4>2. CASE messages' = Append(messages, r)
        <5>1. Len(messages') = Len(messages) + 1
          BY <1>t, <4>2
        <5>2. i \in 1..Len(messages) => messages'[i] = messages[i]
          BY <1>t, <4>2
        <5>3. i = Len(messages) + 1 => messages'[i] = r
          BY <1>t, <4>2
        <5> QED
          BY <1>t, <2>6, <5>1, <5>2, <5>3
      <4> QED
        BY <2>2, <4>1, <4>2
    <3>2. status'[r] \in {"over", "queued"}
      BY <1>t, <2>2
    <3>3. ASSUME NEW j \in 1..Len(messages) PROVE status'[messages[j]] \notin {"new", "asked"}
      <4>1. messages[j] \in Requests
        BY <1>t
      <4> QED
        BY <1>t, <2>2, <4>1 DEF AskedInv
    <3> QED
      BY <3>1, <3>2, <3>3
  <2>7. ASSUME NEW q \in Requests, status'[q] # "new" PROVE want'[q] \in Wants
    <3>1. want' = want /\ status[q] # "new"
      BY <1>2, <1>t, <2>1, <2>2, <2>3, <2>7 DEF SendMessage, AskedInv
    <3> QED
      BY <3>1 DEF AskedInv
  <2> QED
    BY <2>4, <2>5, <2>6, <2>7 DEF AskedInv
<1>3. CASE GetSession(c) \/ AddSession(c) \/ AddSessionToWorker(c)
           \/ OnConnectionDisconnected(c) \/ OnClose(c)
  <2>1. /\ UNCHANGED <<status, want, made, messages>>
        /\ \A d \in Connections :
             pc'[d] \in {"find", "add", "join", "send"} => pc[d] \in {"find", "add", "join", "send"}
    BY <1>3, <1>t DEF GetSession, AddSession, AddSessionToWorker, OnConnectionDisconnected, OnClose,
                      IsNoConnection, RemoveSession, RemoveSessionFromWorker, asked
  <2> QED
    BY <2>1 DEF AskedInv, Current
<1> QED
  BY <1>1, <1>2, <1>3 DEF OnRequest

LEMMA AskedStep == TypeInv /\ AskedInv /\ [Next]_vars => AskedInv'
<1> SUFFICES ASSUME TypeInv, AskedInv, [Next]_vars PROVE AskedInv'
  OBVIOUS
<1> USE DEF conns, queues
<1>t. status \in [Requests -> Statuses] /\ messages \in Seq(Requests)
  BY DEF TypeInv, TypeOK, AskedTypes, QueueTypes
<1>1. CASE OnMessageReceived
  <2>1. pc' = pc /\ made' = made /\ want' = want
    BY <1>1 DEF OnMessageReceived
  <2>2. CASE messages = <<>>
    BY <1>1, <2>1, <2>2, AskedKept DEF OnMessageReceived, TakeMessage
  <2>3. CASE messages # <<>>
    <3>1. PICK r \in Requests : r = messages[1] /\ 1 \in 1..Len(messages)
      BY <1>t, <2>3
    <3>2. messages' = Tail(messages) /\ status[r] \notin {"new", "asked"}
      BY <1>1, <2>3, <3>1 DEF OnMessageReceived, TakeMessage, AskedInv
    <3>3. ASSUME NEW i \in 1..Len(messages')
          PROVE  \E j \in 1..Len(messages) : messages'[i] = messages[j]
      <4>1. messages'[i] = messages[i + 1] /\ i + 1 \in 1..Len(messages)
        BY <1>t, <2>3, <3>2
      <4> QED
        BY <4>1
    <3>4. /\ status'[r] \in {"over", "held"}
          /\ \A q \in Requests : q # r => status'[q] = status[q]
      <4>1. Head(messages) = r
        BY <1>t, <2>3, <3>1
      <4> QED
        BY <1>1, <1>t, <2>3, <4>1 DEF OnMessageReceived, TakeMessage, Answer
    <3> QED
      BY <2>1, <3>2, <3>3, <3>4, AskedKept
  <2> QED
    BY <2>2, <2>3
<1>2. CASE SendOutgoingData
  <2>1. \A r \in Requests : \/ status'[r] = status[r]
                            \/ status[r] = "held" /\ status'[r] = "over"
    BY <1>2, <1>t DEF SendOutgoingData, Answer
  <2> QED
    BY <1>2, <2>1, AskedKept DEF SendOutgoingData
<1>3. CASE Exit \/ (\E t \in Tracks : AppendMediaChunk(t)) \/ OnMediaChunkUpdated
           \/ ClearTracks \/ Stop \/ UNCHANGED vars
  <2>1. UNCHANGED <<pc, made, want, status, messages>>
    BY <1>3 DEF Exit, AppendMediaChunk, OnMediaChunkUpdated, AppendPartialSegmentInfo,
                NotifyPlaylistUpdated, ClearTracks, Stop, StopWorkers, JoinWorkers,
                ClearSessions, asked, vars
  <2> QED
    BY <2>1, AskedKept
<1> QED
  BY <1>1, <1>2, <1>3, AskedConnection DEF Next, WorkerThread

LEMMA PartStep == TypeInv /\ PartInv /\ [Next]_vars => PartInv'
<1> SUFFICES ASSUME TypeInv, PartInv, [Next]_vars PROVE PartInv'
  OBVIOUS
<1> USE DEF tracks
<1>t. /\ chunk \in [track : Tracks \cup {None}, part : Nat, step : {"idle", "first", "second"}]
      /\ listed \in [Tracks -> Nat] /\ (chunk.step # "idle" => chunk.track \in Tracks)
  BY DEF TypeInv, TypeOK, TrackTypes, Making
<1>1. ASSUME NEW t \in Tracks, AppendMediaChunk(t) PROVE PartInv'
  BY <1>1 DEF AppendMediaChunk, PartInv
<1>2. CASE AppendPartialSegmentInfo("first")
  <2>1. CASE Cleared
    BY <1>2, <2>1 DEF AppendPartialSegmentInfo, PartInv, Idle
  <2>2. CASE ~Cleared
    <3>1. chunk' = [chunk EXCEPT !.step = "second"] /\ chunk.track \in Tracks
          /\ listed' = [listed EXCEPT ![chunk.track] = chunk.part]
      BY <1>t, <1>2, <2>2 DEF AppendPartialSegmentInfo, After
    <3> QED
      BY <1>t, <3>1 DEF PartInv
  <2> QED
    BY <2>1, <2>2
<1>3. CASE NotifyPlaylistUpdated("second")
  BY <1>3 DEF NotifyPlaylistUpdated, After, PartInv, Idle
<1>4. CASE (\E c \in Connections : WaitUntilStart(c) \/ OnRequest(c)
                                   \/ OnConnectionDisconnected(c) \/ OnClose(c))
           \/ WorkerThread \/ ClearTracks \/ Stop \/ UNCHANGED vars
  <2>1. UNCHANGED <<chunk, listed>>
    BY <1>4 DEF WaitUntilStart, OnRequest, GetSession, AddSession, AddSessionToWorker,
                SendMessage, OnConnectionDisconnected, OnClose, IsNoConnection,
                RemoveSession, RemoveSessionFromWorker, WorkerThread, OnMessageReceived,
                SendOutgoingData, Exit, ClearTracks, Stop, StopWorkers, JoinWorkers,
                ClearSessions, vars
  <2> QED
    BY <2>1 DEF PartInv
<1> QED
  BY <1>1, <1>2, <1>3, <1>4 DEF Next, OnMediaChunkUpdated

LEMMA EventStep == TypeInv /\ PartInv /\ EventInv /\ [Next]_vars => EventInv'
<1> SUFFICES ASSUME TypeInv, PartInv, EventInv, [Next]_vars PROVE EventInv'
  OBVIOUS
<1> USE DEF tracks, queues
<1>t. /\ chunk \in [track : Tracks \cup {None}, part : Nat, step : {"idle", "first", "second"}]
      /\ listed \in [Tracks -> Nat] /\ (chunk.step # "idle" => chunk.track \in Tracks)
      /\ packets \in Seq(Events)
  BY DEF TypeInv, TypeOK, TrackTypes, QueueTypes, Making
<1>e. \A i \in 1..Len(packets) : packets[i].track \in Tracks /\ packets[i].part \in Nat
  <2>1. ASSUME NEW i \in 1..Len(packets) PROVE packets[i] \in Events
    BY <1>t
  <2> QED
    BY <2>1 DEF Events
<1>1. CASE AppendPartialSegmentInfo("first")
  <2>1. CASE Cleared
    BY <1>1, <2>1 DEF AppendPartialSegmentInfo, EventInv
  <2>2. CASE ~Cleared
    <3>1. /\ chunk.track \in Tracks /\ packets' = packets
          /\ listed' = [listed EXCEPT ![chunk.track] = chunk.part]
          /\ chunk.part = listed[chunk.track] + 1
      BY <1>t, <1>1, <2>2 DEF AppendPartialSegmentInfo, PartInv
    <3>2. \A t \in Tracks : listed[t] \in Nat /\ listed[t] <= listed'[t] /\ listed'[t] \in Nat
      BY <1>t, <3>1
    <3> QED
      BY <1>e, <3>1, <3>2 DEF EventInv
  <2> QED
    BY <2>1, <2>2
<1>2. CASE NotifyPlaylistUpdated("second")
  <2>1. PICK e : e = [track |-> chunk.track, part |-> chunk.part]
    OBVIOUS
  <2>2. /\ e \in Events /\ e.part <= listed[e.track] /\ listed' = listed
        /\ packets' = packets \/ packets' = Append(packets, e)
    BY <1>t, <1>2, <2>1 DEF NotifyPlaylistUpdated, PartInv, Events
  <2>3. CASE packets' = packets
    BY <2>2, <2>3 DEF EventInv
  <2>4. CASE packets' = Append(packets, e)
    <3>1. Len(packets') = Len(packets) + 1 /\ packets'[Len(packets) + 1] = e
      BY <1>t, <2>4
    <3>2. \A i \in 1..Len(packets) : packets'[i] = packets[i]
      BY <1>t, <2>4
    <3>3. Len(packets) \in Nat
      BY <1>t
    <3>4. \A i \in 1..Len(packets') : i = Len(packets) + 1 \/ i \in 1..Len(packets)
      BY <3>1, <3>3
    <3> QED
      BY <2>2, <3>1, <3>2, <3>4 DEF EventInv
  <2> QED
    BY <2>2, <2>3, <2>4
<1>3. CASE SendOutgoingData
  <2>1. listed' = listed /\ packets' = IF packets = <<>> THEN packets ELSE Tail(packets)
    BY <1>3 DEF SendOutgoingData
  <2>2. ASSUME packets # <<>>, NEW i \in 1..Len(packets')
        PROVE  packets'[i] = packets[i + 1] /\ i + 1 \in 1..Len(packets)
    BY <1>t, <2>1, <2>2
  <2> QED
    BY <2>1, <2>2 DEF EventInv
<1>4. CASE (\E c \in Connections : WaitUntilStart(c) \/ OnRequest(c)
                                   \/ OnConnectionDisconnected(c) \/ OnClose(c))
           \/ (\E t \in Tracks : AppendMediaChunk(t))
           \/ OnMessageReceived \/ Exit \/ ClearTracks \/ Stop \/ UNCHANGED vars
  <2>1. UNCHANGED <<packets, listed>>
    BY <1>4 DEF WaitUntilStart, OnRequest, GetSession, AddSession, AddSessionToWorker,
                SendMessage, OnConnectionDisconnected, OnClose, IsNoConnection,
                RemoveSession, RemoveSessionFromWorker, AppendMediaChunk, OnMessageReceived,
                Exit, ClearTracks, Stop, StopWorkers, JoinWorkers, ClearSessions, vars
  <2> QED
    BY <2>1 DEF EventInv
<1> QED
  BY <1>1, <1>2, <1>3, <1>4 DEF Next, OnMediaChunkUpdated, WorkerThread

\* A part that is listed is stored.
LEMMA ListedIsStored ==
  ASSUME TypeInv, PartInv, NEW t \in Tracks
  PROVE  Stored(t) \in Nat /\ listed[t] \in Nat /\ listed[t] <= Stored(t)
<1>1. /\ chunk \in [track : Tracks \cup {None}, part : Nat, step : {"idle", "first", "second"}]
      /\ listed \in [Tracks -> Nat] /\ t # None
  BY LLHlsAssumption DEF TypeInv, TypeOK, TrackTypes
<1> QED
  BY <1>1 DEF PartInv, Stored, Idle

\* An event releases a request that is held only when there is what it was held for, once
\* the playlist is ready and unless Stop has cleared the tracks
\* (LLHlsSession::OnPlaylistUpdated after LLHlsStream::OnMediaChunkUpdated).
THEOREM ReleasedRequestIsFound == Spec => ReleasedIsFound
<1>1. Init => AskedInv /\ PartInv /\ EventInv
  <2> SUFFICES ASSUME Init PROVE AskedInv /\ PartInv /\ EventInv
    OBVIOUS
  <2> QED
    BY Request DEF Init, AskedInv, PartInv, EventInv, Idle
<1>2. ASSUME TypeInv, AskedInv, PartInv, EventInv, Next,
             NEW r \in Requests, status[r] = "held", status'[r] # "held"
      PROVE  Result(r) = "Success" \/ ~ready \/ Cleared
  <2>t. /\ status \in [Requests -> Statuses] /\ messages \in Seq(Requests)
        /\ packets \in Seq(Events) /\ want \in [Requests -> Wants \cup {None}]
    BY <1>2 DEF TypeInv, TypeOK, AskedTypes, QueueTypes
  <2>1. CASE OnMessageReceived
    <3>1. messages # <<>> /\ r = Head(messages) /\ Result(r) # "Accepted"
      BY <1>2, <2>t, <2>1 DEF OnMessageReceived, TakeMessage, Answer
    <3> QED
      BY <3>1 DEF Result, Stopped, Cleared
  <2>2. CASE SendOutgoingData
    <3>1. PICK e : packets # <<>> /\ e = Head(packets) /\ Reaches(e, r)
      BY <1>2, <2>t, <2>2 DEF SendOutgoingData, Answer
    <3>2. e.track \in Tracks /\ e.part \in Nat /\ e.part <= listed[e.track]
      <4>1. 1 \in 1..Len(packets) /\ e = packets[1] /\ e \in Events
        BY <2>t, <3>1
      <4> QED
        BY <1>2, <4>1 DEF Events, EventInv
    <3>3. Stored(e.track) \in Nat /\ listed[e.track] \in Nat /\ listed[e.track] <= Stored(e.track)
      BY <1>2, <3>2, ListedIsStored
    <3>4. ASSUME ready, ~Cleared PROVE Result(r) = "Success"
      <4>1. ~Stopped
        BY <3>4 DEF Stopped, Cleared
      <4>2. CASE want[r].kind = "playlist"
        BY <3>4, <4>1, <4>2 DEF Result
      <4>3. CASE want[r].kind # "playlist"
        <5>1. want[r].track = e.track /\ want[r].part <= e.part
          BY <3>1, <4>3 DEF Reaches
        <5>2. want[r].kind \in {"chunklist", "part"} /\ want[r].part \in Nat
          <6>1. want[r] \in Wants
            BY <1>2 DEF AskedInv
          <6> QED
            BY <4>3, <6>1, LLHlsAssumption
        <5>3. want[r].part <= listed[e.track] /\ want[r].part <= Stored(e.track)
          BY <3>2, <3>3, <5>1, <5>2
        <5> QED
          BY <3>4, <4>1, <5>1, <5>2, <5>3 DEF Result
      <4> QED
        BY <4>2, <4>3
    <3> QED
      BY <3>4
  <2>3. ASSUME NEW c \in Connections, WaitUntilStart(c) PROVE FALSE
    <3>1. PICK q : q = <<c, made[c] + 1>>
      OBVIOUS
    <3>2. made[c] \in Nat /\ made[c] + 1 \in 1..MaxRequests
      <4>1. made[c] \in 0..MaxRequests /\ MaxRequests \in Nat
        BY <1>2, LLHlsAssumption DEF TypeInv, TypeOK, ConnectionTypes
      <4> QED
        BY <2>3, <4>1 DEF WaitUntilStart
    <3>3. q \in Requests /\ status[q] = "new"
      BY <1>2, <3>1, <3>2, Request DEF AskedInv
    <3>4. q # r
      BY <1>2, <3>3
    <3>5. \E v : status' = [status EXCEPT ![q] = v]
      BY <2>3, <3>1 DEF WaitUntilStart
    <3> QED
      BY <1>2, <2>t, <3>4, <3>5
  <2>4. ASSUME NEW c \in Connections, SendMessage(c) PROVE FALSE
    <3>1. Current(c) \in Requests /\ status[Current(c)] = "asked"
      BY <1>2, <2>4, CurrentIsRequest DEF SendMessage, AskedInv
    <3>2. \E v : status' = [status EXCEPT ![Current(c)] = v]
      BY <2>4 DEF SendMessage
    <3> QED
      BY <1>2, <2>t, <3>1, <3>2
  <2>5. CASE (\E c \in Connections :
                \/ GetSession(c) \/ AddSession(c) \/ AddSessionToWorker(c)
                \/ OnConnectionDisconnected(c) \/ OnClose(c))
             \/ Exit \/ (\E t \in Tracks : AppendMediaChunk(t)) \/ OnMediaChunkUpdated
             \/ ClearTracks \/ Stop
    <3>1. status' = status
      BY <2>5 DEF GetSession, AddSession, AddSessionToWorker, OnConnectionDisconnected, OnClose,
                  IsNoConnection, RemoveSession, RemoveSessionFromWorker, Exit,
                  AppendMediaChunk, OnMediaChunkUpdated, AppendPartialSegmentInfo,
                  NotifyPlaylistUpdated, ClearTracks, Stop, StopWorkers, JoinWorkers,
                  ClearSessions, asked
    <3> QED
      BY <1>2, <3>1
  <2> QED
    BY <1>2, <2>1, <2>2, <2>3, <2>4, <2>5 DEF Next, OnRequest, WorkerThread
<1>3. TypeInv /\ AskedInv /\ PartInv /\ EventInv /\ [Next]_vars =>
        [\A r \in Requests :
           status[r] = "held" /\ status'[r] # "held" =>
             Result(r) = "Success" \/ ~ready \/ Cleared]_vars
  BY <1>2
<1> QED
  BY <1>1, <1>3, TypeInit, TypeStep, AskedStep, PartStep, EventStep, PTL DEF Spec, ReleasedIsFound

-----------------------------------------------------------------------------
(* A request has not missed what it is held for *)

\* Until the session that a request creates has been given to the worker, no request is
\* given to it: a session is told of every event from the first of its requests on.
Unjoined(c, n) == New(c, n) \/ (n = made[c] /\ pc[c] = "join")

NoRequestYet(c, n) ==
  /\ \A d \in Connections : user[d] # <<c, n>> /\ (pc[d] = "send" => use[d] # <<c, n>>)
  /\ \A r \in Requests : given[r] # <<c, n>>

Joined == \A c \in Connections, n \in 1..MaxRequests : Unjoined(c, n) => NoRequestYet(c, n)

JoinsOwn == \A c \in Connections : pc[c] = "join" => use[c] = Current(c)

JoinInv == Joined /\ JoinsOwn

LEMMA JoinInit == Init => JoinInv
<1> SUFFICES ASSUME Init PROVE JoinInv
  OBVIOUS
<1>1. ASSUME NEW c \in Connections, NEW n \in 1..MaxRequests PROVE NoRequestYet(c, n)
  <2>1. <<c, n>> # None
    BY Request
  <2> QED
    BY <2>1 DEF Init, NoRequestYet
<1> QED
  BY <1>1 DEF Init, JoinInv, Joined, JoinsOwn

LEMMA JoinStep == TypeInv /\ SessionInv /\ JoinInv /\ [Next]_vars => JoinInv'
<1> SUFFICES ASSUME TypeInv, SessionInv, JoinInv, [Next]_vars PROVE JoinInv'
  OBVIOUS
<1> USE DEF Goto
<1>t. /\ AskedTypes /\ ConnectionTypes /\ InHandler /\ ListTypes /\ Asking
      /\ Fresh /\ AddsOwn /\ Joined /\ JoinsOwn
  BY DEF TypeInv, TypeOK, SessionInv, JoinInv
<1>m. \A c \in Connections : made[c] \in Nat
  BY <1>t DEF ConnectionTypes
<1>1. ASSUME NEW c \in Connections, WaitUntilStart(c) PROVE JoinInv'
  <2>1. /\ pc[c] = "idle" /\ made' = [made EXCEPT ![c] = @ + 1]
        /\ pc' = pc \/ pc' = [pc EXCEPT ![c] = "find"]
        /\ UNCHANGED <<use, user, given>>
    BY <1>1 DEF WaitUntilStart
  <2>2. ASSUME NEW d \in Connections, NEW n \in 1..MaxRequests, Unjoined(d, n)'
        PROVE  Unjoined(d, n)
    BY <1>t, <1>m, <2>1, <2>2 DEF Unjoined, New, ConnectionTypes
  <2>3. \A d \in Connections : pc'[d] \in {"send", "join"} => pc'[d] = pc[d] /\ d # c
    BY <1>t, <2>1 DEF ConnectionTypes
  <2>4. Joined'
    BY <1>t, <2>1, <2>2, <2>3 DEF Joined, NoRequestYet
  <2>5. JoinsOwn'
    BY <1>t, <2>1, <2>3 DEF JoinsOwn, Current, ConnectionTypes
  <2> QED
    BY <2>4, <2>5 DEF JoinInv
<1>2. ASSUME NEW c \in Connections, GetSession(c) PROVE JoinInv'
  <2>1. /\ UNCHANGED <<made, user, given>> /\ pc[c] = "find" /\ MapFree
        /\ \/ pc' = [pc EXCEPT ![c] = "add"] /\ use' = [use EXCEPT ![c] = Current(c)]
           \/ /\ pc' = [pc EXCEPT ![c] = "send"]
              /\ \/ use' = [use EXCEPT ![c] = user[c]]
                 \/ use' = [use EXCEPT ![c] = sessions[IdOf(Current(c))]]
    BY <1>2 DEF GetSession, asked
  <2>2. IdOf(Current(c)) \in Connections
    BY <2>1, CurrentIsRequest, IdIsConnection
  <2>3. ASSUME NEW d \in Connections, NEW n \in 1..MaxRequests, Unjoined(d, n)'
        PROVE  NoRequestYet(d, n)'
    <3>1. New(d, n)
      BY <1>t, <2>1, <2>3 DEF Unjoined, New, ConnectionTypes, MapFree
    <3>2. NoRequestYet(d, n) /\ sessions[IdOf(Current(c))] # <<d, n>>
      BY <1>t, <2>2, <3>1 DEF Joined, Unjoined, Fresh, Unknown
    <3>3. ASSUME NEW e \in Connections, pc'[e] = "send" PROVE use'[e] # <<d, n>>
      BY <1>t, <2>1, <3>2, <3>3 DEF NoRequestYet, ConnectionTypes
    <3> QED
      BY <2>1, <3>2, <3>3 DEF NoRequestYet
  <2>4. JoinsOwn'
    BY <1>t, <2>1 DEF JoinsOwn, Current, ConnectionTypes
  <2> QED
    BY <2>3, <2>4 DEF JoinInv, Joined
<1>3. ASSUME NEW c \in Connections, AddSession(c) PROVE JoinInv'
  <2>1. /\ UNCHANGED <<made, use, user, given>> /\ pc[c] = "add"
        /\ pc' = [pc EXCEPT ![c] = "join"]
    BY <1>3 DEF AddSession, asked
  <2>2. ASSUME NEW d \in Connections, NEW n \in 1..MaxRequests, Unjoined(d, n)'
        PROVE  Unjoined(d, n)
    BY <1>t, <2>1, <2>2 DEF Unjoined, New, ConnectionTypes
  <2>3. \A d \in Connections : pc'[d] = "send" => pc[d] = "send"
    BY <1>t, <2>1 DEF ConnectionTypes
  <2>4. Joined'
    BY <1>t, <2>1, <2>2, <2>3 DEF Joined, NoRequestYet
  <2>5. JoinsOwn'
    BY <1>t, <2>1 DEF JoinsOwn, AddsOwn, Current, ConnectionTypes
  <2> QED
    BY <2>4, <2>5 DEF JoinInv
<1>4. ASSUME NEW c \in Connections, AddSessionToWorker(c) PROVE JoinInv'
  <2>1. /\ UNCHANGED <<made, use, user, given>> /\ pc[c] = "join"
        /\ pc' = [pc EXCEPT ![c] = "send"]
    BY <1>4 DEF AddSessionToWorker, asked
  <2>2. ASSUME NEW d \in Connections, NEW n \in 1..MaxRequests, Unjoined(d, n)'
        PROVE  Unjoined(d, n) /\ ~(d = c /\ n = made[c])
    BY <1>t, <1>m, <2>1, <2>2 DEF Unjoined, New, ConnectionTypes
  <2>3. use[c] = Current(c)
    BY <1>t, <2>1 DEF JoinsOwn
  <2>4. Joined'
    <3> SUFFICES ASSUME NEW d \in Connections, NEW n \in 1..MaxRequests, Unjoined(d, n)'
                 PROVE  NoRequestYet(d, n)'
      BY DEF Joined
    <3>1. NoRequestYet(d, n) /\ use[c] # <<d, n>>
      BY <1>t, <2>2, <2>3 DEF Joined, Current
    <3>2. \A e \in Connections : pc'[e] = "send" => pc[e] = "send" \/ e = c
      BY <1>t, <2>1 DEF ConnectionTypes
    <3> QED
      BY <2>1, <3>1, <3>2 DEF NoRequestYet
  <2>5. JoinsOwn'
    BY <1>t, <2>1 DEF JoinsOwn, Current, ConnectionTypes
  <2> QED
    BY <2>4, <2>5 DEF JoinInv
<1>5. ASSUME NEW c \in Connections, SendMessage(c) PROVE JoinInv'
  <2>1. /\ UNCHANGED made /\ pc[c] = "send" /\ pc' = [pc EXCEPT ![c] = "idle"]
        /\ user' = [user EXCEPT ![c] = use[c]] /\ use' = [use EXCEPT ![c] = None]
        /\ given' = given \/ given' = [given EXCEPT ![Current(c)] = use[c]]
    BY <1>5 DEF SendMessage
  <2>2. ASSUME NEW d \in Connections, NEW n \in 1..MaxRequests, Unjoined(d, n)'
        PROVE  NoRequestYet(d, n)'
    <3>1. Unjoined(d, n)
      BY <1>t, <2>1, <2>2 DEF Unjoined, New, ConnectionTypes
    <3>2. NoRequestYet(d, n) /\ use[c] # <<d, n>>
      BY <1>t, <2>1, <3>1 DEF Joined, NoRequestYet
    <3>3. \A r \in Requests : given'[r] \in {given[r], use[c]}
      BY <1>t, <2>1 DEF AskedTypes
    <3>4. \A e \in Connections : /\ user'[e] \in {user[e], use[c]}
                                 /\ pc'[e] = "send" => pc[e] = "send" /\ use'[e] = use[e]
      BY <1>t, <2>1 DEF ConnectionTypes
    <3> QED
      BY <3>2, <3>3, <3>4 DEF NoRequestYet
  <2>3. JoinsOwn'
    BY <1>t, <2>1 DEF JoinsOwn, Current, ConnectionTypes
  <2> QED
    BY <2>2, <2>3 DEF JoinInv, Joined
<1>6. ASSUME NEW c \in Connections, OnConnectionDisconnected(c) \/ OnClose(c) PROVE JoinInv'
  <2>1. /\ UNCHANGED <<made, use, user, given>>
        /\ pc[c] \in {"idle", "closing", "erase", "remove"}
        /\ \E step \in {"closing", "erase", "remove", "closed"} : pc' = [pc EXCEPT ![c] = step]
    BY <1>6 DEF OnConnectionDisconnected, OnClose, IsNoConnection, RemoveSession,
                RemoveSessionFromWorker, asked
  <2>2. ASSUME NEW d \in Connections, NEW n \in 1..MaxRequests, Unjoined(d, n)'
        PROVE  Unjoined(d, n)
    BY <1>t, <2>1, <2>2 DEF Unjoined, New, ConnectionTypes
  <2>3. \A d \in Connections : pc'[d] \in {"send", "join"} => pc'[d] = pc[d]
    BY <1>t, <2>1 DEF ConnectionTypes
  <2> QED
    BY <1>t, <2>1, <2>2, <2>3 DEF JoinInv, Joined, NoRequestYet, JoinsOwn, Current
<1>7. CASE WorkerThread
  <2>1. UNCHANGED <<made, pc, use, user>>
    BY <1>7 DEF WorkerThread, OnMessageReceived, SendOutgoingData, Exit, conns
  <2>2. \A r \in Requests : given'[r] \in {given[r], None}
    BY <1>7, <1>t DEF WorkerThread, OnMessageReceived, SendOutgoingData, Exit, TakeMessage,
                      Answer, asked
  <2>3. ASSUME NEW d \in Connections, NEW n \in 1..MaxRequests, Unjoined(d, n)'
        PROVE  NoRequestYet(d, n)'
    <3>1. NoRequestYet(d, n)
      BY <1>t, <2>1, <2>3 DEF Joined, Unjoined, New
    <3> QED
      BY <2>1, <2>2, <3>1, Request DEF NoRequestYet
  <2>4. JoinsOwn'
    BY <1>t, <2>1 DEF JoinsOwn, Current
  <2> QED
    BY <2>3, <2>4 DEF JoinInv, Joined
<1>8. CASE (\E t \in Tracks : AppendMediaChunk(t)) \/ OnMediaChunkUpdated
           \/ ClearTracks \/ Stop \/ UNCHANGED vars
  <2>1. UNCHANGED <<made, pc, use, user, given>>
    BY <1>8 DEF AppendMediaChunk, OnMediaChunkUpdated, AppendPartialSegmentInfo,
                NotifyPlaylistUpdated, ClearTracks, Stop, StopWorkers, JoinWorkers,
                ClearSessions, asked, conns, vars
  <2> QED
    BY <1>t, <2>1 DEF JoinInv, Joined, NoRequestYet, JoinsOwn, Current, Unjoined, New
<1> QED
  BY <1>1, <1>2, <1>3, <1>4, <1>5, <1>6, <1>7, <1>8 DEF Next, OnRequest

\* Before the playlist is ready a track has no segment.
ReadyInv ==
  ready \/ Tracks = {} \/ \E t \in Tracks : Stored(t) < PartsPerSegment

LEMMA ReadyStep == TypeInv /\ PartInv /\ ReadyInv /\ [Next]_vars => ReadyInv'
<1> SUFFICES ASSUME TypeInv, PartInv, ReadyInv, [Next]_vars PROVE ReadyInv'
  OBVIOUS
<1> USE DEF tracks
<1>t. /\ chunk \in [track : Tracks \cup {None}, part : Nat, step : {"idle", "first", "second"}]
      /\ listed \in [Tracks -> Nat] /\ (chunk.step # "idle" => chunk.track \in Tracks)
      /\ PartsPerSegment \in Nat \ {0} /\ None \notin Tracks
  BY LLHlsAssumption DEF TypeInv, TypeOK, TrackTypes, Making
<1>1. ASSUME NEW t \in Tracks, AppendMediaChunk(t) PROVE ReadyInv'
  <2>1. PICK part : part = listed[t] + 1 /\ part \in Nat
    BY <1>t
  <2>2. /\ chunk = Idle /\ listed' = listed
        /\ chunk' = [track |-> t, part |-> part, step |-> "first"]
        /\ ready' = (ready \/ (part % PartsPerSegment = 0
                               /\ AllHaveSegments([listed EXCEPT ![t] = part])))
    BY <1>1, <2>1 DEF AppendMediaChunk, PartInv
  <2>3. SUFFICES ASSUME ~ready, ~(\E u \in Tracks : Stored(u) < PartsPerSegment)'
                 PROVE  ready'
    BY <2>2 DEF ReadyInv
  <2>4. PICK u \in Tracks : Stored(u) < PartsPerSegment
    BY <1>1, <2>3 DEF ReadyInv
  <2>5. \A v \in Tracks : /\ Stored(v) = listed[v]
                         /\ Stored(v)' = IF v = t THEN part ELSE listed[v]
    BY <1>t, <2>2 DEF Stored, Idle
  <2>6. AllHaveSegments([listed EXCEPT ![t] = part])
    BY <1>t, <2>1, <2>3, <2>5 DEF AllHaveSegments
  <2>7. part = PartsPerSegment
    BY <1>t, <2>1, <2>3, <2>4, <2>5
  <2>8. part % PartsPerSegment = 0
    BY <1>t, <2>7
  <2> QED
    BY <2>2, <2>6, <2>8
<1>2. CASE OnMediaChunkUpdated
  <2>1. ready' = ready /\ \A u \in Tracks : Stored(u)' \in Nat /\ Stored(u)' <= Stored(u)
    <3>1. CASE AppendPartialSegmentInfo("first")
      <4>1. CASE Cleared
        <5>1. chunk' = Idle /\ listed' = listed /\ ready' = ready
              /\ chunk.part = listed[chunk.track] + 1
          BY <3>1, <4>1 DEF AppendPartialSegmentInfo, PartInv
        <5> QED
          BY <1>t, <5>1 DEF Stored, Idle
      <4>2. CASE ~Cleared
        <5>1. /\ chunk' = [chunk EXCEPT !.step = "second"] /\ ready' = ready
              /\ listed' = [listed EXCEPT ![chunk.track] = chunk.part]
          BY <3>1, <4>2 DEF AppendPartialSegmentInfo, After
        <5> QED
          BY <1>t, <5>1 DEF Stored
      <4> QED
        BY <4>1, <4>2
    <3>2. CASE NotifyPlaylistUpdated("second")
      <4>1. /\ chunk' = Idle /\ listed' = listed /\ ready' = ready
            /\ chunk.part = listed[chunk.track]
        BY <3>2 DEF NotifyPlaylistUpdated, After, PartInv
      <4> QED
        BY <1>t, <4>1 DEF Stored, Idle
    <3> QED
      BY <1>2, <3>1, <3>2 DEF OnMediaChunkUpdated
  <2>2. \A u \in Tracks : Stored(u) \in Nat
    BY ListedIsStored
  <2> QED
    BY <1>t, <2>1, <2>2 DEF ReadyInv
<1>3. CASE (\E c \in Connections : WaitUntilStart(c) \/ OnRequest(c)
                                   \/ OnConnectionDisconnected(c) \/ OnClose(c))
           \/ WorkerThread \/ ClearTracks \/ Stop \/ UNCHANGED vars
  <2>1. UNCHANGED <<chunk, listed, ready>>
    BY <1>3 DEF WaitUntilStart, OnRequest, GetSession, AddSession, AddSessionToWorker,
                SendMessage, OnConnectionDisconnected, OnClose, IsNoConnection,
                RemoveSession, RemoveSessionFromWorker, WorkerThread, OnMessageReceived,
                SendOutgoingData, Exit, ClearTracks, Stop, StopWorkers, JoinWorkers,
                ClearSessions, vars
  <2> QED
    BY <2>1 DEF ReadyInv, Stored
<1> QED
  BY <1>1, <1>2, <1>3 DEF Next

\* A request is held only before there is what it waits for.
LEMMA HeldIsAhead ==
  ASSUME TypeInv, PartInv, ReadyInv, NEW r \in Requests, want[r] \in Wants,
         Result(r) = "Accepted", HeldBefore(r)
  PROVE  ~Reached(r)
<1>t. /\ PartsPerSegment \in Nat \ {0}
      /\ \A t \in Tracks : Stored(t) \in Nat /\ listed[t] \in Nat /\ listed[t] <= Stored(t)
  BY ListedIsStored, LLHlsAssumption
<1>w. want[r].kind \in {"playlist", "chunklist", "part"}
      /\ (want[r].kind # "playlist" => want[r].track \in Tracks /\ want[r].part \in Nat)
  BY LLHlsAssumption
<1>1. CASE want[r].kind = "part"
  <2>1. ~(want[r].part <= Stored(want[r].track))
    BY <1>1 DEF Result
  <2> QED
    BY <1>t, <1>w, <1>1, <2>1 DEF Reached
<1>2. CASE want[r].kind = "chunklist"
  <2>1. ~ready \/ ~(want[r].part <= listed[want[r].track])
    BY <1>2 DEF Result
  <2>2. ASSUME ~ready PROVE ~(want[r].part <= listed[want[r].track])
    <3>1. Stored(want[r].track) < PartsPerSegment /\ want[r].part >= PartsPerSegment
      BY <1>w, <1>2, <2>2 DEF ReadyInv, HeldBefore
    <3> QED
      BY <1>t, <1>w, <1>2, <3>1
  <2> QED
    BY <1>2, <2>1, <2>2 DEF Reached
<1>3. CASE want[r].kind = "playlist"
  <2>1. ~ready
    BY <1>3 DEF Result
  <2>2. ASSUME NEW t \in Tracks PROVE ~(listed[t] > PartsPerSegment)
    <3>1. Stored(t) < PartsPerSegment
      BY <1>3, <2>1 DEF ReadyInv, HeldBefore
    <3> QED
      BY <1>t, <3>1
  <2> QED
    BY <1>3, <2>2 DEF Reached
<1> QED
  BY <1>w, <1>1, <1>2, <1>3

Waits(r) == status[r] = "held" /\ Attached(r) /\ ~Stopped

\* A step that brings no request to wait and no part keeps the events that are to come.
LEMMA AwaitKept ==
  ASSUME HeldIsAwaited, NEW r \in Requests, Waits(r), want'[r] = want[r],
         UNCHANGED <<chunk, listed, packets>>, HeldBefore(r)', Reached(r)'
  PROVE  Pending(r)'
<1>1. HeldBefore(r) /\ Reached(r)
  BY DEF HeldBefore, Reached
<1>2. Pending(r)
  BY <1>1 DEF HeldIsAwaited, Waits
<1> QED
  BY <1>2 DEF Pending, Reaches

\* A connection makes no request wait, nor gives a session that requests have to the worker.
LEMMA AwaitConnection ==
  ASSUME TypeInv, AskedInv, JoinInv, NEW c \in Connections,
         \/ WaitUntilStart(c) \/ OnRequest(c) \/ OnConnectionDisconnected(c) \/ OnClose(c),
         NEW r \in Requests, Waits(r)'
  PROVE  Waits(r) /\ want'[r] = want[r]
<1> USE DEF Waits, lists, asked
<1>t. /\ status \in [Requests -> Statuses] /\ given \in [Requests -> Sessions \cup {None}]
      /\ want \in [Requests -> Wants \cup {None}]
      /\ served \in [Connections -> Sessions \cup {None}]
  BY DEF TypeInv, TypeOK, AskedTypes, ListTypes
<1>1. CASE WaitUntilStart(c)
  <2>1. PICK q : q = <<c, made[c] + 1>>
    OBVIOUS
  <2>2. made[c] \in Nat /\ made[c] + 1 \in 1..MaxRequests
    <3>1. made[c] \in 0..MaxRequests /\ MaxRequests \in Nat
      BY LLHlsAssumption DEF TypeInv, TypeOK, ConnectionTypes
    <3> QED
      BY <1>1, <3>1 DEF WaitUntilStart
  <2>3. q \in Requests /\ status[q] = "new"
    BY <2>1, <2>2, Request DEF AskedInv
  <2>4. /\ status' = [status EXCEPT ![q] = IF Stopped THEN "over" ELSE "asked"]
        /\ \E w \in Wants : want' = [want EXCEPT ![q] = w]
        /\ UNCHANGED <<given, served, stop>>
    BY <1>1, <2>1 DEF WaitUntilStart
  <2>5. r # q
    BY <1>t, <2>3, <2>4
  <2> QED
    BY <1>t, <2>4, <2>5 DEF Attached, Stopped
<1>2. CASE SendMessage(c)
  <2>1. PICK q \in Requests : q = Current(c)
    BY <1>2, CurrentIsRequest DEF SendMessage
  <2>2. /\ \E v \in {"over", "queued"} : status' = [status EXCEPT ![q] = v]
        /\ \E v : given' = given \/ given' = [given EXCEPT ![q] = v]
        /\ UNCHANGED <<want, served, stop>>
    BY <1>2, <2>1 DEF SendMessage
  <2>3. r # q
    BY <1>t, <2>2
  <2> QED
    BY <1>t, <2>2, <2>3 DEF Attached, Stopped
<1>3. CASE AddSessionToWorker(c)
  <2>1. /\ UNCHANGED <<status, given, want, stop>> /\ pc[c] = "join"
        /\ served' = served \/ served' = [served EXCEPT ![IdOf(use[c])] = use[c]]
    BY <1>3 DEF AddSessionToWorker
  <2>2. use[c] = <<c, made[c]>> /\ made[c] \in 1..MaxRequests
    BY <2>1 DEF JoinInv, JoinsOwn, Current, TypeInv, TypeOK, ConnectionTypes, Asking
  <2>3. given[r] # use[c]
    BY <2>1, <2>2 DEF JoinInv, Joined, Unjoined, NoRequestYet
  <2>4. \A d \in Connections : served'[d] \in {served[d], use[c]}
    BY <1>t, <2>1
  <2> QED
    BY <2>1, <2>3, <2>4 DEF Attached, Stopped
<1>4. CASE \/ GetSession(c) \/ AddSession(c) \/ OnConnectionDisconnected(c) \/ OnClose(c)
  <2>1. /\ UNCHANGED <<status, given, want, stop>>
        /\ served' = served \/ served' = [served EXCEPT ![IdOf(user[c])] = None]
    BY <1>4 DEF GetSession, AddSession, OnConnectionDisconnected, OnClose, IsNoConnection,
                RemoveSession, RemoveSessionFromWorker
  <2>2. \A d \in Connections : served'[d] \in {served[d], None}
    BY <1>t, <2>1
  <2> QED
    BY <2>1, <2>2 DEF Attached, Stopped
<1> QED
  BY <1>1, <1>2, <1>3, <1>4 DEF OnRequest

\* A part is listed before the worker is told of it, and is in the worker's queue afterwards.
LEMMA AwaitPackager ==
  ASSUME TypeInv, AskedInv, PartInv, HeldIsAwaited, OnMediaChunkUpdated,
         NEW r \in Requests, Waits(r)', HeldBefore(r)', Reached(r)'
  PROVE  Pending(r)'
<1> USE DEF asked, lists, queues, tracks
<1>t. /\ chunk \in [track : Tracks \cup {None}, part : Nat, step : {"idle", "first", "second"}]
      /\ listed \in [Tracks -> Nat] /\ (chunk.step # "idle" => chunk.track \in Tracks)
      /\ packets \in Seq(Events)
  BY DEF TypeInv, TypeOK, TrackTypes, QueueTypes, Making
<1>1. Waits(r) /\ want' = want /\ HeldBefore(r)
  BY DEF OnMediaChunkUpdated, AppendPartialSegmentInfo, NotifyPlaylistUpdated, Waits, Attached,
         Stopped, HeldBefore
<1>2. want[r] \in Wants
  BY <1>1 DEF Waits, AskedInv
<1>w. want[r].kind # "playlist" => want[r].track \in Tracks /\ want[r].part \in Nat
  BY <1>2, LLHlsAssumption
<1>3. CASE AppendPartialSegmentInfo("first")
  <2>1. CASE Reached(r)
    <3>1. \E i \in DOMAIN packets : Reaches(packets[i], r)
      BY <1>1, <1>3, <2>1 DEF HeldIsAwaited, Waits, Pending, AppendPartialSegmentInfo
    <3> QED
      BY <1>1, <1>3, <3>1 DEF AppendPartialSegmentInfo, Pending, Reaches
  <2>2. CASE ~Reached(r)
    <3>1. ~Cleared
      BY <1>1, <1>3, <2>2 DEF AppendPartialSegmentInfo, Reached
    <3>2. /\ chunk' = [chunk EXCEPT !.step = "second"] /\ chunk.track \in Tracks
          /\ listed' = [listed EXCEPT ![chunk.track] = chunk.part]
      BY <1>t, <1>3, <3>1 DEF AppendPartialSegmentInfo, After
    <3>3. Reaches(chunk, r)
      BY <1>t, <1>1, <1>w, <2>2, <3>2 DEF Reached, Reaches
    <3> QED
      BY <1>t, <1>1, <3>2, <3>3 DEF Pending, Reaches
  <2> QED
    BY <2>1, <2>2
<1>4. CASE NotifyPlaylistUpdated("second")
  <2>1. PICK e \in Events : e = [track |-> chunk.track, part |-> chunk.part]
    BY <1>t, <1>4 DEF NotifyPlaylistUpdated, Events
  <2>2. packets' = Append(packets, e) /\ listed' = listed
    BY <1>1, <1>4, <2>1 DEF NotifyPlaylistUpdated, Waits
  <2>3. Pending(r)
    BY <1>1, <2>2 DEF HeldIsAwaited, Waits, Reached
  <2>4. /\ Len(packets) + 1 \in DOMAIN packets' /\ packets'[Len(packets) + 1] = e
        /\ \A i \in DOMAIN packets : i \in DOMAIN packets' /\ packets'[i] = packets[i]
    BY <1>t, <2>1, <2>2
  <2>5. \E i \in DOMAIN packets' : Reaches(packets'[i], r)
    <3>1. CASE chunk.step = "second" /\ Reaches(chunk, r)
      <4>1. Reaches(e, r)
        BY <2>1, <3>1 DEF Reaches
      <4> QED
        BY <2>4, <4>1
    <3>2. CASE \E i \in DOMAIN packets : Reaches(packets[i], r)
      BY <2>4, <3>2
    <3> QED
      BY <2>3, <3>1, <3>2 DEF Pending
  <2> QED
    BY <1>1, <2>5 DEF Pending, Reaches
<1> QED
  BY <1>3, <1>4 DEF OnMediaChunkUpdated

\* The worker holds what is not there yet, and an event that it takes releases what waits.
LEMMA AwaitWorker ==
  ASSUME TypeInv, AskedInv, PartInv, ReadyInv, HeldIsAwaited,
         OnMessageReceived \/ SendOutgoingData,
         NEW r \in Requests, Waits(r)', HeldBefore(r)', Reached(r)'
  PROVE  Pending(r)'
<1> USE DEF conns, lists, tracks
<1>t. /\ status \in [Requests -> Statuses] /\ messages \in Seq(Requests)
      /\ packets \in Seq(Events)
  BY DEF TypeInv, TypeOK, AskedTypes, QueueTypes
<1>1. /\ UNCHANGED <<want, chunk, listed, served, stop>> /\ HeldBefore(r) /\ Reached(r)
  BY DEF OnMessageReceived, SendOutgoingData, HeldBefore, Reached
<1>2. CASE OnMessageReceived
  <2>1. CASE status[r] = "held"
    <3>1. Waits(r)
      <4>1. given'[r] = given[r]
        BY <1>2, <1>t, <2>1 DEF OnMessageReceived, TakeMessage, Answer, Waits
      <4> QED
        BY <1>1, <2>1, <4>1 DEF Waits, Attached, Stopped
    <3> QED
      BY <1>1, <1>2, <3>1, AwaitKept DEF OnMessageReceived
  <2>2. CASE status[r] # "held"
    <3>1. messages # <<>> /\ r = Head(messages) /\ Result(r) = "Accepted"
      BY <1>2, <1>t, <2>2 DEF OnMessageReceived, TakeMessage, Answer, Waits
    <3>2. r = messages[1] /\ 1 \in 1..Len(messages)
      BY <1>t, <3>1
    <3>3. want[r] \in Wants
      BY <3>2 DEF AskedInv
    <3> QED
      BY <1>1, <3>1, <3>3, HeldIsAhead
  <2> QED
    BY <2>1, <2>2
<1>3. CASE SendOutgoingData
  <2>1. Waits(r)
    BY <1>1, <1>3, <1>t DEF SendOutgoingData, Answer, Waits, Attached, Stopped
  <2>2. CASE packets = <<>>
    BY <1>1, <1>3, <2>1, <2>2, AwaitKept DEF SendOutgoingData
  <2>3. CASE packets # <<>>
    <3>1. packets' = Tail(packets) /\ ~Reaches(Head(packets), r)
      BY <1>3, <1>t, <2>1, <2>3 DEF SendOutgoingData, Answer, Waits
    <3>2. Pending(r)
      BY <1>1, <2>1 DEF HeldIsAwaited, Waits
    <3>3. ASSUME NEW i \in DOMAIN packets, Reaches(packets[i], r)
          PROVE  \E j \in DOMAIN packets' : Reaches(packets'[j], r)
      <4>1. i # 1
        BY <1>t, <2>3, <3>1, <3>3
      <4>2. i - 1 \in DOMAIN packets' /\ packets'[i - 1] = packets[i]
        BY <1>t, <2>3, <3>1, <4>1
      <4> QED
        BY <3>3, <4>2
    <3> QED
      BY <1>1, <3>2, <3>3 DEF Pending, Reaches
  <2> QED
    BY <2>2, <2>3
<1> QED
  BY <1>2, <1>3

LEMMA AwaitStep ==
  TypeInv /\ AskedInv /\ PartInv /\ ReadyInv /\ JoinInv /\ HeldIsAwaited /\ [Next]_vars
    => HeldIsAwaited'
<1> SUFFICES ASSUME TypeInv, AskedInv, PartInv, ReadyInv, JoinInv, HeldIsAwaited, [Next]_vars,
                    NEW r \in Requests, Waits(r)', HeldBefore(r)', Reached(r)'
             PROVE  Pending(r)'
  BY DEF HeldIsAwaited, Waits
<1>1. ASSUME NEW c \in Connections,
             \/ WaitUntilStart(c) \/ OnRequest(c) \/ OnConnectionDisconnected(c) \/ OnClose(c)
      PROVE  Pending(r)'
  <2>1. UNCHANGED <<chunk, listed, packets>>
    BY <1>1 DEF WaitUntilStart, OnRequest, GetSession, AddSession, AddSessionToWorker,
                SendMessage, OnConnectionDisconnected, OnClose, IsNoConnection,
                RemoveSession, RemoveSessionFromWorker, queues, tracks
  <2> QED
    BY <1>1, <2>1, AwaitConnection, AwaitKept
<1>2. ASSUME NEW t \in Tracks, AppendMediaChunk(t) PROVE Pending(r)'
  <2>1. /\ Waits(r) /\ HeldBefore(r) /\ Reached(r) /\ chunk.step = "idle"
        /\ UNCHANGED <<want, packets>>
    BY <1>2 DEF AppendMediaChunk, Waits, Attached, Stopped, HeldBefore, Reached, asked, lists,
                queues
  <2> QED
    BY <2>1 DEF HeldIsAwaited, Waits, Pending, Reaches
<1>3. CASE Exit \/ ClearTracks \/ Stop \/ UNCHANGED vars
  <2>1. /\ UNCHANGED <<status, given, want, chunk, listed, packets>>
        /\ Stopped => Stopped'
        /\ \A d \in Connections : served'[d] = served[d] \/ served'[d] = None
    BY <1>3 DEF Exit, ClearTracks, Stop, StopWorkers, JoinWorkers, ClearSessions, Stopped, asked,
                lists, queues, tracks, vars
  <2>2. Waits(r)
    BY <2>1 DEF Waits, Attached
  <2> QED
    BY <2>1, <2>2, AwaitKept
<1> QED
  BY <1>1, <1>2, <1>3, AwaitPackager, AwaitWorker DEF Next, WorkerThread

\* Whenever a part is made, a request that is held for it has not missed it: the worker
\* takes what is not there yet only, a part that comes is announced after it is listed, and
\* a session is given to the worker before any of its requests (LLHlsSession::OnPlaylistUpdated).
THEOREM HeldRequestIsAwaited == Spec => []HeldIsAwaited
<1>1. Init => AskedInv /\ PartInv
  <2> SUFFICES ASSUME Init PROVE AskedInv /\ PartInv
    OBVIOUS
  <2> QED
    BY Request DEF Init, AskedInv, PartInv, Idle
<1>2. Init => ReadyInv /\ HeldIsAwaited
  <2> SUFFICES ASSUME Init PROVE ReadyInv /\ HeldIsAwaited
    OBVIOUS
  <2>1. ASSUME NEW t \in Tracks PROVE Stored(t) < PartsPerSegment
    BY LLHlsAssumption DEF Init, Stored, Idle
  <2> QED
    BY <2>1 DEF Init, ReadyInv, HeldIsAwaited
<1> QED
  BY <1>1, <1>2, JoinInit, JoinStep, AskedStep, PartStep, ReadyStep, AwaitStep,
     SessionInvariant, TypeInit, TypeStep, PTL DEF Spec
=============================================================================
