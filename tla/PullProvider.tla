---------------------------- MODULE PullProvider ----------------------------
(* Pull providers (base/provider/pull_provider): the requests that pull a      *)
(* stream from an origin, the collector thread of the application, and the     *)
(* stream motors, the threads that read the sockets of the streams.            *)
(*                                                                             *)
(* A stream is its id. Motors are objects: a motor is named by the stream it   *)
(* was made for, `listed` is the application's table. A thread is a request    *)
(* or the collector; pc is its next step in PullStream, CreateStream,          *)
(* ResumeStream or DeleteStream. STOPPED and ERROR are one state ("stopped"):  *)
(* every reader treats them alike. The states a connection passes through are  *)
(* not visible: it is stopped, then playing.                                   *)
EXTENDS Naturals, FiniteSets, FiniteSetsExt

CONSTANTS Requests, Names, Wants, MaxStreams, MotorCounts, MaxRestarts, Collector, None

ASSUME CountsArePositive == MaxStreams \in Nat \ {0} /\ MotorCounts \subseteq Nat \ {0}
ASSUME WantsAreNames == Wants \subseteq [Requests -> Names]
ASSUME RestartsAreNatural == MaxRestarts \in Nat
ASSUME CollectorIsNoRequest == Collector \notin Requests
ASSUME NoneIsApart == None \notin Requests /\ None \notin 1..MaxStreams

VARIABLES
  motorCount, \* MAX_APPLICATION_STREAM_MOTOR_COUNT
  want,       \* the name each request asks for
  pulling,    \* _pulling_table: the request that pulls a name
  issued,     \* IssueUniqueStreamId: the ids given so far
  name,       \* the name of each stream
  streams,    \* Application::_streams
  state,      \* Stream::_state
  restarts,   \* PullStream::_restart_count
  connected,  \* streams whose socket is open
  armed,      \* the motor whose epoll watches the socket
  held,       \* StreamMotor::_streams
  running,    \* motors whose thread runs
  listed,     \* PullApplication::_stream_motors
  pc, target, motor,  \* step, stream and motor of each thread
  snapshot,   \* the collector's copy of the streams
  up          \* the origin answers

vars == <<motorCount, want, pulling, issued, name, streams, state, restarts, connected,
          armed, held, running, listed, pc, target, motor, snapshot, up>>
request == <<motorCount, want, pulling, issued, name>>
stream == <<streams, state, restarts, connected>>
motors == <<armed, held, running, listed>>

Streams == 1..MaxStreams
Threads == Requests \cup {Collector}
GetStreamMotorId(s) == s % motorCount
MotorOf(s) == listed[GetStreamMotorId(s)]

Steps == {"idle", "scan", "resume", "resumed", "lock", "find", "create", "add",
          "findMotor", "makeMotor", "join", "arm", "unlock", "done",
          "delFind", "delStream", "count", "stopMotor", "eraseMotor", "erase", "stop"}
Deleting == {"delFind", "delStream", "count", "stopMotor", "eraseMotor", "erase", "stop"}

TypeOK ==
  /\ motorCount \in MotorCounts
  /\ want \in [Requests -> Names] /\ pulling \in [Names -> Requests \cup {None}]
  /\ issued \in 0..MaxStreams /\ name \in [Streams -> Names \cup {None}]
  /\ streams \subseteq 1..issued /\ connected \subseteq 1..issued
  /\ state \in [Streams -> {"new", "playing", "stopped", "terminated"}]
  /\ restarts \in [Streams -> Nat]
  /\ armed \in [Streams -> Streams \cup {None}] /\ held \in [Streams -> SUBSET Streams]
  /\ running \subseteq Streams
  /\ listed \in [0..(motorCount - 1) -> Streams \cup {None}]
  /\ pc \in [Threads -> Steps] /\ target \in [Threads -> Streams \cup {None}]
  /\ motor \in [Threads -> Streams \cup {None}]
  /\ snapshot \subseteq Streams /\ up \in BOOLEAN

Init ==
  /\ motorCount \in MotorCounts
  /\ want \in Wants /\ pulling = [n \in Names |-> None]
  /\ issued = 0 /\ name = [s \in Streams |-> None]
  /\ streams = {} /\ connected = {} /\ state = [s \in Streams |-> "new"]
  /\ restarts = [s \in Streams |-> 0]
  /\ armed = [s \in Streams |-> None] /\ held = [m \in Streams |-> {}]
  /\ running = {} /\ listed = [i \in 0..(motorCount - 1) |-> None]
  /\ pc = [t \in Threads |-> IF t = Collector THEN "idle" ELSE "lock"]
  /\ target = [t \in Threads |-> None] /\ motor = [t \in Threads |-> None]
  /\ snapshot = {} /\ up = TRUE

Goto(t, step) == pc' = [pc EXCEPT ![t] = step]
Uses(t, m) == motor' = [motor EXCEPT ![t] = m]
\* ResumeStream and DeleteStream return to the loop of the collector, or to PullStream.
Return(t, step) ==
  /\ Goto(t, IF t = Collector THEN "scan" ELSE step)
  /\ motor' = [motor EXCEPT ![t] = None] /\ target' = [target EXCEPT ![t] = None]

\* PullStream::Stop of the streams S, under their lock: the socket is closed, which
\* takes it out of the epoll, and the state becomes STOPPED, whatever it was.
Stop(S) ==
  /\ state' = [s \in Streams |-> IF s \in S THEN "stopped" ELSE state[s]]
  /\ connected' = connected \ S
  /\ armed' = [s \in Streams |-> IF s \in S THEN None ELSE armed[s]]

-----------------------------------------------------------------------------
(* A pull request *)

\* Mutant: the table is not asked whether the name is being pulled.
LockPullStreamAlways(r) ==
  /\ pc[r] = "lock"
  /\ pulling' = [pulling EXCEPT ![want[r]] = r]
  /\ Goto(r, "find")
  /\ UNCHANGED <<motorCount, want, issued, name, stream, motors, target, motor,
                 snapshot, up>>

\* The first request for a name enters the table; the others wait for its item, and look
\* again when it has gone.
LockPullStreamIfNeeded(r) ==
  /\ pc[r] = "lock" /\ pulling[want[r]] = None
  /\ pulling' = [pulling EXCEPT ![want[r]] = r]
  /\ Goto(r, "find")
  /\ UNCHANGED <<motorCount, want, issued, name, stream, motors, target, motor,
                 snapshot, up>>

UnlockPullStreamIfNeeded(r) ==
  /\ pc[r] = "unlock"
  /\ pulling' = [pulling EXCEPT ![want[r]] = None]
  /\ Return(r, "done")
  /\ UNCHANGED <<motorCount, want, issued, name, stream, motors, snapshot, up>>

\* A stream of that name is returned, unless it is stopped: then it is deleted first.
FindStream(r) ==
  LET same == {s \in streams : name[s] = want[r]} IN
  /\ pc[r] = "find"
  /\ \/ same = {} /\ Goto(r, "create") /\ UNCHANGED target
     \/ \E s \in same :
          /\ target' = [target EXCEPT ![r] = s]
          /\ Goto(r, IF state[s] = "stopped" THEN "delFind" ELSE "unlock")
  /\ UNCHANGED <<request, stream, motors, motor, snapshot, up>>

\* Mutant: an origin that does not answer leaves the name locked.
StartStreamKeepsLock(r) ==
  /\ pc[r] = "create" /\ issued < MaxStreams
  /\ issued' = issued + 1
  /\ name' = [name EXCEPT ![issued'] = want[r]]
  /\ \/ /\ up
        /\ state' = [state EXCEPT ![issued'] = "playing"]
        /\ connected' = connected \cup {issued'}
        /\ target' = [target EXCEPT ![r] = issued']
        /\ Goto(r, "add")
     \/ /\ state' = [state EXCEPT ![issued'] = "terminated"]
        /\ Goto(r, "done")
        /\ UNCHANGED <<connected, target>>
  /\ UNCHANGED <<motorCount, want, pulling, streams, restarts, motors, motor,
                 snapshot, up>>

\* Mutant: the id is taken before it is issued.
StartStreamOldId(r) ==
  /\ pc[r] = "create" /\ issued < MaxStreams
  /\ issued' = issued + 1
  /\ name' = [name EXCEPT ![issued] = want[r]]
  /\ \/ /\ up
        /\ state' = [state EXCEPT ![issued] = "playing"]
        /\ connected' = connected \cup {issued}
        /\ target' = [target EXCEPT ![r] = issued]
        /\ Goto(r, "add")
     \/ /\ state' = [state EXCEPT ![issued] = "terminated"]
        /\ Goto(r, "unlock")
        /\ UNCHANGED <<connected, target>>
  /\ UNCHANGED <<motorCount, want, pulling, streams, restarts, motors, motor,
                 snapshot, up>>

\* PullStream::Start tries every url as often as the retry count says; the stream is
\* unknown to the other threads until it is added.
StartStream(r) ==
  /\ pc[r] = "create" /\ issued < MaxStreams
  /\ issued' = issued + 1
  /\ name' = [name EXCEPT ![issued'] = want[r]]
  /\ \/ /\ up
        /\ state' = [state EXCEPT ![issued'] = "playing"]
        /\ connected' = connected \cup {issued'}
        /\ target' = [target EXCEPT ![r] = issued']
        /\ Goto(r, "add")
     \/ /\ state' = [state EXCEPT ![issued'] = "terminated"]
        /\ Goto(r, "unlock")
        /\ UNCHANGED <<connected, target>>
  /\ UNCHANGED <<motorCount, want, pulling, streams, restarts, motors, motor,
                 snapshot, up>>

\* Application::AddStream: the media router may have a stream of that name from another
\* provider; the new stream is dropped then.
AddStream(r) ==
  /\ pc[r] = "add"
  /\ \/ /\ streams' = streams \cup {target[r]}
        /\ Goto(r, "findMotor")
        /\ UNCHANGED connected
     \/ /\ connected' = connected \ {target[r]}
        /\ Goto(r, "unlock")
        /\ UNCHANGED streams
  /\ UNCHANGED <<request, state, restarts, motors, target, motor, snapshot, up>>

\* GetStreamMotorInternal for CreateStream and for ResumeStream.
FindMotor(t) ==
  /\ pc[t] \in {"findMotor", "resumed"}
  /\ \/ MotorOf(target[t]) # None /\ Uses(t, MotorOf(target[t])) /\ Goto(t, "join")
          /\ UNCHANGED target
     \/ MotorOf(target[t]) = None /\ pc[t] = "findMotor" /\ Goto(t, "makeMotor")
          /\ UNCHANGED <<target, motor>>
     \/ MotorOf(target[t]) = None /\ pc[t] = "resumed" /\ Return(t, "unlock")
  /\ UNCHANGED <<request, stream, motors, snapshot, up>>

\* The thread of the new motor runs; emplace leaves a motor that was listed meanwhile.
CreateStreamMotorInternal(t) ==
  LET m == target[t] IN
  /\ pc[t] = "makeMotor"
  /\ running' = running \cup {m}
  /\ listed' = IF MotorOf(m) = None THEN [listed EXCEPT ![GetStreamMotorId(m)] = m]
               ELSE listed
  /\ Uses(t, m)
  /\ Goto(t, "join")
  /\ UNCHANGED <<request, stream, armed, held, target, snapshot, up>>

\* StreamMotor::AddStream and UpdateStream up to the unlock.
JoinMotor(t) ==
  /\ pc[t] = "join"
  /\ held' = [held EXCEPT ![motor[t]] = @ \cup {target[t]}]
  /\ Goto(t, "arm")
  /\ UNCHANGED <<request, stream, armed, running, listed, target, motor, snapshot, up>>

\* AddStreamToEpoll fails when the socket or the epoll has been closed: the stream
\* leaves the motor and is stopped (DelStream).
AddStreamToEpoll(t) ==
  /\ pc[t] = "arm"
  /\ \/ /\ target[t] \in connected /\ motor[t] \in running
        /\ armed' = [armed EXCEPT ![target[t]] = motor[t]]
        /\ UNCHANGED <<state, connected, held>>
     \/ /\ ~(target[t] \in connected /\ motor[t] \in running)
        /\ held' = [held EXCEPT ![motor[t]] = @ \ {target[t]}]
        /\ Stop({target[t]} \cap held[motor[t]])
  /\ Return(t, "unlock")
  /\ UNCHANGED <<request, streams, restarts, running, listed, snapshot, up>>

-----------------------------------------------------------------------------
(* The collector *)

Collect ==
  /\ pc[Collector] = "idle"
  /\ snapshot' = streams
  /\ Goto(Collector, "scan")
  /\ UNCHANGED <<request, stream, motors, target, motor, up>>

EndOfScan ==
  /\ pc[Collector] = "scan" /\ snapshot = {}
  /\ Goto(Collector, "idle")
  /\ UNCHANGED <<request, stream, motors, target, motor, snapshot, up>>

\* A request has added s and not yet returned it. The timeouts of the collector, seconds
\* long, do not elapse before it has.
Fresh(s) ==
  \E r \in Requests : target[r] = s /\ pc[r] \in {"findMotor", "makeMotor", "join", "arm"}

\* The next stream of the copy. A stopped one is retried, a terminated one deleted; of
\* the others, one that nobody watches is deleted and one of which the primary url
\* answers again is stopped and resumed there.
Scan ==
  LET s == Min(snapshot) IN
  /\ pc[Collector] = "scan" /\ snapshot # {}
  /\ snapshot' = snapshot \ {s}
  /\ \/ /\ state[s] = "stopped" /\ Goto(Collector, "resume")
        /\ UNCHANGED <<state, connected, armed>>
     \/ /\ state[s] = "terminated" \/ (state[s] = "playing" /\ ~Fresh(s))
        /\ Goto(Collector, "delFind")
        /\ UNCHANGED <<state, connected, armed>>
     \/ /\ state[s] = "playing" /\ ~Fresh(s) /\ up
        /\ Stop({s}) /\ Goto(Collector, "resume")
     \/ state[s] = "playing" /\ UNCHANGED <<pc, state, connected, armed>>
  /\ target' = [target EXCEPT ![Collector] = IF pc' = pc THEN None ELSE s]
  /\ UNCHANGED <<request, streams, restarts, held, running, listed, motor, up>>

\* No packet came for longer than NoInputFailoverTimeout: the stream is stopped, and
\* resumed by a later scan.
NoInput ==
  LET s == Min(snapshot) IN
  /\ pc[Collector] = "scan" /\ snapshot # {}
  /\ state[s] = "playing" /\ ~Fresh(s)
  /\ Stop({s})
  /\ snapshot' = snapshot \ {s}
  /\ UNCHANGED <<request, streams, restarts, held, running, listed, pc, target, motor, up>>

\* Mutant: a failed retry is not counted.
ResumeUncounted ==
  LET s == target[Collector] IN
  /\ pc[Collector] = "resume"
  /\ \/ /\ up
        /\ state' = [state EXCEPT ![s] = "playing"]
        /\ connected' = connected \cup {s}
        /\ restarts' = [restarts EXCEPT ![s] = 0]
        /\ Goto(Collector, "resumed")
        /\ UNCHANGED <<armed, target, motor>>
     \/ /\ restarts' = restarts
        /\ state' = [state EXCEPT ![s] =
                       IF restarts[s] + 1 > MaxRestarts THEN "terminated" ELSE "stopped"]
        /\ connected' = connected \ {s}
        /\ armed' = [armed EXCEPT ![s] = None]
        /\ Return(Collector, "scan")
  /\ UNCHANGED <<request, streams, held, running, listed, snapshot, up>>

\* PullStream::Resume, without the stream's lock: whatever another thread made of the
\* state while the collector was connecting is overwritten.
Resume ==
  LET s == target[Collector] IN
  /\ pc[Collector] = "resume"
  /\ \/ /\ up
        /\ state' = [state EXCEPT ![s] = "playing"]
        /\ connected' = connected \cup {s}
        /\ restarts' = [restarts EXCEPT ![s] = 0]
        /\ Goto(Collector, "resumed")
        /\ UNCHANGED <<armed, target, motor>>
     \/ /\ restarts' = [restarts EXCEPT ![s] = @ + 1]
        /\ state' = [state EXCEPT ![s] =
                       IF restarts[s] + 1 > MaxRestarts THEN "terminated" ELSE "stopped"]
        /\ connected' = connected \ {s}
        /\ armed' = [armed EXCEPT ![s] = None]
        /\ Return(Collector, "scan")
  /\ UNCHANGED <<request, streams, held, running, listed, snapshot, up>>

-----------------------------------------------------------------------------
(* PullApplication::DeleteStream, by a request or by the collector *)

\* DeleteStreamMotorInternal: the motor that is listed now.
DeleteFindsMotor(t) ==
  /\ pc[t] = "delFind"
  /\ Uses(t, MotorOf(target[t]))
  /\ Goto(t, IF MotorOf(target[t]) = None THEN "erase" ELSE "delStream")
  /\ UNCHANGED <<request, stream, motors, target, snapshot, up>>

\* StreamMotor::DelStream
DelStream(t) ==
  /\ pc[t] = "delStream"
  /\ held' = [held EXCEPT ![motor[t]] = @ \ {target[t]}]
  /\ Stop({target[t]} \cap held[motor[t]])
  /\ Goto(t, "count")
  /\ UNCHANGED <<request, streams, restarts, running, listed, target, motor, snapshot, up>>

\* GetStreamCount() == 0
CountStreams(t) ==
  /\ pc[t] = "count"
  /\ \/ held[motor[t]] = {} /\ Goto(t, "stopMotor") /\ UNCHANGED motor
     \/ held[motor[t]] # {} /\ Goto(t, "erase") /\ Uses(t, None)
  /\ UNCHANGED <<request, stream, motors, target, snapshot, up>>

\* Mutant: the motor is erased while its thread runs.
StopMotorKeepsThread(t) ==
  /\ pc[t] = "stopMotor"
  /\ running' = running
  /\ Stop(held[motor[t]])
  /\ held' = [held EXCEPT ![motor[t]] = {}]
  /\ Goto(t, "eraseMotor")
  /\ UNCHANGED <<request, streams, restarts, listed, target, motor, snapshot, up>>

\* StreamMotor::Stop: the thread ends, the epoll is closed, and the streams that the
\* motor has by now are stopped.
StopMotor(t) ==
  /\ pc[t] = "stopMotor"
  /\ running' = running \ {motor[t]}
  /\ Stop(held[motor[t]])
  /\ held' = [held EXCEPT ![motor[t]] = {}]
  /\ Goto(t, "eraseMotor")
  /\ UNCHANGED <<request, streams, restarts, listed, target, motor, snapshot, up>>

\* The entry is erased by the motor's id, whatever motor is listed by then.
EraseMotor(t) ==
  /\ pc[t] = "eraseMotor"
  /\ listed' = [listed EXCEPT ![GetStreamMotorId(target[t])] = None]
  /\ Uses(t, None)
  /\ Goto(t, "erase")
  /\ UNCHANGED <<request, stream, armed, held, running, target, snapshot, up>>

\* Mutant: the motor gives the stream up, the application keeps it.
EraseStreamFromMotorOnly(t) ==
  /\ pc[t] = "erase"
  /\ Return(t, "create")
  /\ UNCHANGED <<request, stream, motors, snapshot, up>>

\* Application::DeleteStream erases the stream under the lock; a thread that does not
\* find it stops here.
EraseStream(t) ==
  /\ pc[t] = "erase"
  /\ streams' = streams \ {target[t]}
  /\ IF target[t] \in streams THEN Goto(t, "stop") /\ UNCHANGED <<target, motor>>
     ELSE Return(t, "create")
  /\ UNCHANGED <<request, state, restarts, connected, motors, snapshot, up>>

StopStream(t) ==
  /\ pc[t] = "stop"
  /\ Stop({target[t]})
  /\ Return(t, "create")
  /\ UNCHANGED <<request, streams, restarts, held, running, listed, snapshot, up>>

-----------------------------------------------------------------------------
(* The threads of the motors, the API and the origin *)

\* The socket of a stream is readable, in error or closed by the origin: a stream that is
\* not playing leaves the epoll, one that fails is stopped too.
MotorEvent(m) ==
  /\ m \in running
  /\ \E s \in held[m] :
       /\ armed[s] = m
       /\ \/ Stop({s})
          \/ /\ state[s] # "playing"
             /\ armed' = [armed EXCEPT ![s] = None]
             /\ UNCHANGED <<state, connected>>
  /\ UNCHANGED <<request, streams, restarts, held, running, listed, pc, target, motor,
                 snapshot, up>>

\* Stream::Terminate, which the orchestrator calls for the API.
Terminate(s) ==
  /\ s \in streams /\ state[s] # "terminated"
  /\ state' = [state EXCEPT ![s] = "terminated"]
  /\ UNCHANGED <<request, streams, restarts, connected, motors, pc, target, motor,
                 snapshot, up>>

\* The origin goes away and does not come back.
OriginDies ==
  /\ up
  /\ up' = FALSE
  /\ UNCHANGED <<request, stream, motors, pc, target, motor, snapshot>>

\* A motor that runs while neither the table nor a thread refers to it has been
\* destroyed with its thread: std::terminate ends the server.
Abandoned(m) == m \in running /\ MotorOf(m) # m /\ \A t \in Threads : motor[t] # m
Aborted == \E m \in running : Abandoned(m)

PullStream(r) ==
  \/ LockPullStreamIfNeeded(r) \/ FindStream(r) \/ StartStream(r) \/ AddStream(r)
  \/ CreateStreamMotorInternal(r) \/ UnlockPullStreamIfNeeded(r)

WhiteElephantStreamCollector == Collect \/ EndOfScan \/ Scan \/ NoInput \/ Resume

MotorStep(t) == FindMotor(t) \/ JoinMotor(t) \/ AddStreamToEpoll(t)

DeleteStream(t) ==
  \/ DeleteFindsMotor(t) \/ DelStream(t) \/ CountStreams(t) \/ StopMotor(t)
  \/ EraseMotor(t) \/ EraseStream(t) \/ StopStream(t)

Next ==
  /\ ~Aborted
  /\ \/ \E r \in Requests : PullStream(r)
     \/ WhiteElephantStreamCollector
     \/ \E t \in Threads : MotorStep(t) \/ DeleteStream(t)
     \/ \E m \in running : MotorEvent(m)
     \/ \E s \in Streams : Terminate(s)
     \/ OriginDies

Spec == Init /\ [][Next]_vars

\* Every thread goes on. Once the origin is gone no packet comes, so that the timer of a
\* stream that plays elapses: NoInput cannot be passed over for ever.
Fairness ==
  /\ \A r \in Requests : WF_vars(~Aborted /\ PullStream(r))
  /\ WF_vars(~Aborted /\ WhiteElephantStreamCollector)
  /\ \A t \in Threads : WF_vars(~Aborted /\ (MotorStep(t) \/ DeleteStream(t)))
  /\ SF_vars(~Aborted /\ ~up /\ NoInput)

FairSpec == Spec /\ Fairness

-----------------------------------------------------------------------------
(* Properties *)

\* No other stream has the motor id of s.
OwnMotor(s) == \A u \in (1..issued) \ {s} : GetStreamMotorId(u) # GetStreamMotorId(s)

\* Some thread is creating, resuming or deleting s.
Busy(s) ==
  \E t \in Threads :
    target[t] = s /\ pc[t] \in Deleting \cup {"add", "findMotor", "makeMotor", "join",
                                              "arm", "resume", "resumed"}

\* However many clients ask for a stream at once, the application has one stream of a
\* name: LockPullStreamIfNeeded admits one request, which looks for the name first.
OnePerName == \A s, u \in streams : name[s] = name[u] => s = u

\* A stream that shares its motor id with no other never loses a motor whose thread runs.
MotorSurvives == \A m \in running : OwnMotor(m) => ~Abandoned(m)

\* A stream that the application does not have any more, and that no thread is dealing
\* with, does not play on in a motor ("remove immediately", PullProvider::PullStream).
DeletedDoesNotPlay ==
  \A s \in 1..issued :
    ~Aborted /\ ~Busy(s) /\ s \notin streams =>
      \A m \in running : ~(s \in held[m] /\ state[s] = "playing")

\* A stream of the application that shares its motor id with no other has its motor,
\* whatever is deleted meanwhile: ResumeStream says "Something wrong" where there is none.
StreamHasMotor ==
  \A s \in streams : ~Aborted /\ OwnMotor(s) /\ ~Busy(s) => MotorOf(s) # None

\* Every request is answered, however many ask for the same name.
RequestAnswered == \A r \in Requests : <>(pc[r] = "done" \/ Aborted)

\* When the origin does not answer any more, the retries end and every stream leaves the
\* application, though Stop overwrites TERMINATED (PullStream::Resume, Stream::Stop).
DeadOriginReleased == ~up ~> (streams = {} \/ Aborted)
=============================================================================
