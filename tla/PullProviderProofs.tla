-------------------------- MODULE PullProviderProofs --------------------------
(* What is proved of PullProvider, for every set of requests and names and any  *)
(* number of streams, motors and restarts: its types, that the application has  *)
(* one stream of a name, and that a stream with a motor id of its own keeps the *)
(* motor, and the motor the stream.                                             *)
EXTENDS PullProvider, WellFoundedInduction, TLAPS

\* The steps at which a thread deals with a stream, and those at which it has a motor.
Targeting == {"add", "findMotor", "makeMotor", "join", "arm", "resume", "resumed"} \cup Deleting
Holding == {"join", "arm", "delStream", "count", "stopMotor", "eraseMotor"}

RequestSteps == {"lock", "find", "create", "add", "findMotor", "makeMotor", "join", "arm",
                 "unlock", "done"} \cup Deleting
CollectorSteps == {"idle", "scan", "resume", "resumed", "join", "arm"} \cup Deleting

\* GetStreamMotorId, as a function.
MotorId == [s \in Nat |-> GetStreamMotorId(s)]

\* Whoever deals with a stream knows one that has its id, and a motor is known under the
\* motor id of its stream.
Control ==
  /\ pc \in [Threads -> Steps] /\ target \in [Threads -> Streams \cup {None}]
  /\ motor \in [Threads -> Streams \cup {None}]
  /\ \A t \in Threads :
       /\ target[t] # None => target[t] \in 1..issued
       /\ pc[t] \in Targeting => target[t] # None
       /\ motor[t] # None <=> pc[t] \in Holding
       /\ motor[t] # None => /\ motor[t] \in 1..issued
                             /\ MotorId[motor[t]] = MotorId[target[t]]
  /\ \A r \in Requests : pc[r] \in RequestSteps
  /\ pc[Collector] \in CollectorSteps

Data ==
  /\ motorCount \in MotorCounts
  /\ want \in [Requests -> Names] /\ pulling \in [Names -> Requests \cup {None}]
  /\ issued \in 0..MaxStreams /\ name \in [Streams -> Names \cup {None}]
  /\ streams \subseteq 1..issued /\ connected \subseteq 1..issued
  /\ state \in [Streams -> {"new", "playing", "stopped", "terminated"}]
  /\ restarts \in [Streams -> Nat]
  /\ armed \in [Streams -> Streams \cup {None}] /\ held \in [Streams -> SUBSET Streams]
  /\ running \subseteq 1..issued /\ snapshot \subseteq 1..issued /\ up \in BOOLEAN
  /\ listed \in [0..(motorCount - 1) -> Streams \cup {None}]
  /\ \A i \in 0..(motorCount - 1) :
       listed[i] # None => listed[i] \in 1..issued /\ MotorId[listed[i]] = i

TypeInv == Control /\ Data

-----------------------------------------------------------------------------
(* Facts *)

LEMMA MinIsMember ==
  ASSUME NEW S \in SUBSET Nat, S # {}
  PROVE  Min(S) \in S
<1>1. PICK R : R = OpToRel(<, Nat)
  OBVIOUS
<1>2. \A x, y \in Nat : <<x, y>> \in R <=> x < y
  BY <1>1 DEF OpToRel
<1>3. IsWellFoundedOn(R, Nat)
  BY <1>1, NatLessThanWellFounded
<1>4. PICK x \in S : \A y \in S : ~(<<y, x>> \in R)
  BY <1>3, WFMin, Zenon
<1>5. ASSUME NEW y \in S PROVE x <= y
  <2>1. x \in Nat /\ y \in Nat /\ ~(<<y, x>> \in R)
    BY <1>4
  <2>2. ~(y < x)
    BY <1>2, <2>1, Zenon
  <2> QED
    BY <2>1, <2>2
<1> QED
  BY <1>5 DEF Min

LEMMA Facts ==
  /\ MaxStreams \in Nat \ {0} /\ MaxRestarts \in Nat /\ None \notin Streams
  /\ Collector \notin Requests /\ None \notin Requests
  /\ Requests \subseteq Threads /\ Collector \in Threads /\ Threads = Requests \cup {Collector}
  /\ Wants \subseteq [Requests -> Names] /\ Streams = 1..MaxStreams
BY CountsArePositive, WantsAreNames, RestartsAreNatural, CollectorIsNoRequest, NoneIsApart
DEF Threads, Streams

LEMMA IdFacts ==
  ASSUME motorCount \in MotorCounts
  PROVE  \A s \in Nat : /\ MotorId[s] \in 0..(motorCount - 1)
                        /\ GetStreamMotorId(s) = MotorId[s] /\ MotorOf(s) = listed[MotorId[s]]
<1>1. motorCount \in Nat \ {0}
  BY CountsArePositive
<1>2. ASSUME NEW s \in Nat PROVE GetStreamMotorId(s) \in 0..(motorCount - 1)
  BY <1>1 DEF GetStreamMotorId
<1> QED
  BY <1>2 DEF MotorId, MotorOf

\* The configuration and what a request asks for do not change.
LEMMA ConfigStep ==
  ASSUME [Next]_vars
  PROVE  motorCount' = motorCount /\ want' = want /\ MotorId' = MotorId
<1> USE DEF request
<1>1. ASSUME NEW r \in Requests, PullStream(r) PROVE motorCount' = motorCount /\ want' = want
  BY <1>1
  DEF PullStream, LockPullStreamIfNeeded, FindStream, StartStream, AddStream,
      CreateStreamMotorInternal, UnlockPullStreamIfNeeded
<1>2. ASSUME WhiteElephantStreamCollector PROVE motorCount' = motorCount /\ want' = want
  BY <1>2 DEF WhiteElephantStreamCollector, Collect, EndOfScan, Scan, NoInput, Resume
<1>3. ASSUME NEW t \in Threads, MotorStep(t) PROVE motorCount' = motorCount /\ want' = want
  BY <1>3 DEF MotorStep, FindMotor, JoinMotor, AddStreamToEpoll
<1>4. ASSUME NEW t \in Threads, DeleteStream(t) PROVE motorCount' = motorCount /\ want' = want
  BY <1>4
  DEF DeleteStream, DeleteFindsMotor, DelStream, CountStreams, StopMotor, EraseMotor,
      EraseStream, StopStream
<1>5. ASSUME NEW m \in running, MotorEvent(m) PROVE motorCount' = motorCount /\ want' = want
  BY <1>5 DEF MotorEvent
<1>6. ASSUME NEW s \in Streams, Terminate(s) PROVE motorCount' = motorCount /\ want' = want
  BY <1>6 DEF Terminate
<1>7. ASSUME OriginDies \/ UNCHANGED vars PROVE motorCount' = motorCount /\ want' = want
  BY <1>7 DEF OriginDies, vars
<1>8. motorCount' = motorCount /\ want' = want
  BY <1>1, <1>2, <1>3, <1>4, <1>5, <1>6, <1>7 DEF Next
<1>9. MotorId' = MotorId
  BY <1>8 DEF MotorId, GetStreamMotorId
<1> QED
  BY <1>8, <1>9

-----------------------------------------------------------------------------
(* The inductive invariant *)

Pulling(r) == pc[r] \notin {"lock", "done"}

\* A request that pulls a name holds its item in the table, ...
LockInv == \A r \in Requests : Pulling(r) => pulling[want[r]] = r

\* ... so that nobody adds a stream of the name while it creates or deletes one.
Named(r) ==
  /\ pc[r] \in {"create", "add", "stop"} => \A u \in streams : name[u] # want[r]
  /\ pc[r] \in Deleting \ {"stop"} =>
       \A u \in streams : name[u] = want[r] => u = target[r]
  /\ pc[r] = "add" => name[target[r]] = want[r]

PullInv == LockInv /\ (\A r \in Requests : Named(r)) /\ OnePerName

\* One request creates a stream, and no motor of its id is there until it has made one.
Creating == {"add", "findMotor", "makeMotor"}
Creates(r, s) == pc[r] \in Creating /\ target[r] = s
OneCreator == \A r, q \in Requests, s \in Streams : Creates(r, s) /\ Creates(q, s) => r = q

\* Who is going to give a stream a motor, or is taking it away.
Attends(t, s) ==
  target[t] = s /\ pc[t] \in {"findMotor", "makeMotor"} \cup (Deleting \ {"stop"})

Own(s) == \A u \in 1..issued : u # s => MotorId[u] # MotorId[s]
Has(s) == listed[MotorId[s]]

\* The motor of a stream that shares its motor id with no other: its thread runs only
\* while the table has it, which is before it is erased and after the stream is created.
OwnInv(s) ==
  /\ s \in running => Has(s) = s
  /\ \A r \in Requests :
       Creates(r, s) => Has(s) = None /\ s \notin running /\ \A t \in Threads : motor[t] # s
  /\ \A t \in Threads : pc[t] = "eraseMotor" /\ target[t] = s => s \notin running
  /\ s \in streams /\ Has(s) = None => \E t \in Threads : Attends(t, s)

MotorInv == OneCreator /\ \A s \in 1..issued : Own(s) => OwnInv(s)

-----------------------------------------------------------------------------
(* Types *)

LEMMA TypeInit == Init => TypeInv
<1> SUFFICES ASSUME Init PROVE TypeInv
  OBVIOUS
<1> USE Facts DEF Init
<1>1. Data
  BY DEF Data
<1>2. Control
  BY DEF Control, Targeting, Holding, RequestSteps, CollectorSteps, Deleting, Steps
<1> QED
  BY <1>1, <1>2 DEF TypeInv

LEMMA TypeParts == TypeInv => TypeOK
BY Facts DEF TypeInv, Control, Data, TypeOK

Moved(t, step, s, m) ==
  /\ pc' \in [Threads -> Steps] /\ target' \in [Threads -> Streams \cup {None}]
  /\ motor' \in [Threads -> Streams \cup {None}]
  /\ pc'[t] = step /\ target'[t] = s /\ motor'[t] = m
  /\ \A u \in Threads :
       u # t => pc'[u] = pc[u] /\ target'[u] = target[u] /\ motor'[u] = motor[u]

LEMMA Moving ==
  ASSUME TypeInv, NEW t \in Threads, NEW step \in Steps, Goto(t, step),
         NEW s \in Streams \cup {None}, NEW m \in Streams \cup {None},
         \/ target' = [target EXCEPT ![t] = s]
         \/ target' = target /\ target[t] = s,
         \/ motor' = [motor EXCEPT ![t] = m]
         \/ motor' = motor /\ motor[t] = m
  PROVE  Moved(t, step, s, m)
<1>1. /\ pc \in [Threads -> Steps] /\ target \in [Threads -> Streams \cup {None}]
      /\ motor \in [Threads -> Streams \cup {None}]
  BY DEF TypeInv, Control
<1>2. pc' \in [Threads -> Steps] /\ pc'[t] = step /\ \A u \in Threads : u # t => pc'[u] = pc[u]
  BY <1>1 DEF Goto
<1>3. /\ target' \in [Threads -> Streams \cup {None}] /\ target'[t] = s
      /\ \A u \in Threads : u # t => target'[u] = target[u]
  BY <1>1
<1>4. /\ motor' \in [Threads -> Streams \cup {None}] /\ motor'[t] = m
      /\ \A u \in Threads : u # t => motor'[u] = motor[u]
  BY <1>1
<1> QED
  BY <1>2, <1>3, <1>4 DEF Moved

LEMMA Returning ==
  ASSUME TypeInv, NEW t \in Threads, NEW step \in Steps, Return(t, step)
  PROVE  Moved(t, IF t = Collector THEN "scan" ELSE step, None, None)
BY Moving DEF Return, Steps

\* A step at which a thread may be.
Places(t, step) ==
  /\ t \in Requests => step \in RequestSteps
  /\ t = Collector => step \in CollectorSteps

LEMMA ControlMoves ==
  ASSUME TypeInv, NEW t \in Threads, NEW step, NEW s, NEW m, Moved(t, step, s, m),
         Places(t, step), issued' \in Nat, issued <= issued', MotorId' = MotorId,
         s # None => s \in 1..issued', step \in Targeting => s # None,
         m # None <=> step \in Holding,
         m # None => m \in 1..issued /\ MotorId[m] = MotorId[s]
  PROVE  Control'
<1> USE Facts DEF Moved
<1>2. \A i \in 1..issued : i \in 1..issued'
  BY DEF TypeInv, Data
<1>5. ASSUME NEW u \in Threads
      PROVE  /\ target'[u] # None => target'[u] \in 1..issued'
             /\ pc'[u] \in Targeting => target'[u] # None
             /\ motor'[u] # None <=> pc'[u] \in Holding
             /\ motor'[u] # None => /\ motor'[u] \in 1..issued'
                                    /\ MotorId'[motor'[u]] = MotorId'[target'[u]]
  <2>1. CASE u = t
    BY <1>2, <2>1
  <2>2. CASE u # t
    BY <1>2, <2>2 DEF TypeInv, Control
  <2> QED
    BY <2>1, <2>2
<1>6. (\A r \in Requests : pc'[r] \in RequestSteps) /\ pc'[Collector] \in CollectorSteps
  BY DEF TypeInv, Control, Places
<1> QED
  BY <1>5, <1>6 DEF Control

\* What the steps of a thread do to it.
LEMMA PullMoves ==
  ASSUME TypeInv, NEW r \in Requests
  PROVE  /\ LockPullStreamIfNeeded(r) => pc[r] = "lock" /\ Moved(r, "find", target[r], motor[r])
         /\ UnlockPullStreamIfNeeded(r) => pc[r] = "unlock" /\ Moved(r, "done", None, None)
         /\ FindStream(r) =>
              /\ pc[r] = "find"
              /\ \/ (\A s \in streams : name[s] # want[r]) /\ Moved(r, "create", target[r], motor[r])
                 \/ \E s \in streams : /\ name[s] = want[r]
                                       /\ \/ Moved(r, "delFind", s, motor[r])
                                          \/ Moved(r, "unlock", s, motor[r])
         /\ StartStream(r) =>
              /\ pc[r] = "create" /\ issued' = issued + 1 /\ issued' \in Streams
              /\ name' = [name EXCEPT ![issued'] = want[r]]
              /\ \/ Moved(r, "add", issued', motor[r])
                 \/ Moved(r, "unlock", target[r], motor[r])
         /\ AddStream(r) =>
              /\ pc[r] = "add" /\ target[r] \in 1..issued
              /\ \/ Moved(r, "findMotor", target[r], motor[r]) /\ streams' = streams \cup {target[r]}
                 \/ Moved(r, "unlock", target[r], motor[r]) /\ streams' = streams
         /\ CreateStreamMotorInternal(r) =>
              pc[r] = "makeMotor" /\ target[r] \in 1..issued /\ Moved(r, "join", target[r], target[r])
<1> USE Facts DEF Steps
<1>t. /\ r \in Threads /\ r # Collector
      /\ target[r] \in Streams \cup {None} /\ motor[r] \in Streams \cup {None}
  BY DEF TypeInv, Control
<1>1. ASSUME LockPullStreamIfNeeded(r) PROVE Moved(r, "find", target[r], motor[r])
  BY <1>1, <1>t, Moving DEF LockPullStreamIfNeeded
<1>2. ASSUME UnlockPullStreamIfNeeded(r) PROVE Moved(r, "done", None, None)
  BY <1>2, <1>t, Returning DEF UnlockPullStreamIfNeeded
<1>3. ASSUME FindStream(r)
      PROVE  \/ (\A s \in streams : name[s] # want[r]) /\ Moved(r, "create", target[r], motor[r])
             \/ \E s \in streams : /\ name[s] = want[r]
                                   /\ \/ Moved(r, "delFind", s, motor[r])
                                      \/ Moved(r, "unlock", s, motor[r])
  <2>1. CASE {s \in streams : name[s] = want[r]} = {}
    BY <1>3, <1>t, <2>1, Moving DEF FindStream
  <2>2. CASE {s \in streams : name[s] = want[r]} # {}
    <3>1. PICK s \in streams :
            /\ name[s] = want[r] /\ target' = [target EXCEPT ![r] = s] /\ motor' = motor
            /\ Goto(r, IF state[s] = "stopped" THEN "delFind" ELSE "unlock")
      BY <1>3, <2>2 DEF FindStream
    <3>2. s \in Streams
      BY DEF TypeInv, Data
    <3> QED
      BY <1>t, <3>1, <3>2, Moving
  <2> QED
    BY <2>1, <2>2
<1>4. ASSUME StartStream(r)
      PROVE  /\ issued' = issued + 1 /\ issued' \in Streams
             /\ \/ Moved(r, "add", issued', motor[r])
                \/ Moved(r, "unlock", target[r], motor[r])
  <2>1. issued' = issued + 1 /\ issued' \in Streams
    BY <1>4 DEF StartStream, TypeInv, Data
  <2> QED
    BY <1>4, <1>t, <2>1, Moving DEF StartStream
<1>5. ASSUME AddStream(r) PROVE target[r] \in 1..issued
  BY <1>5, <1>t DEF AddStream, TypeInv, Control, Targeting
<1>6. ASSUME AddStream(r)
      PROVE  \/ Moved(r, "findMotor", target[r], motor[r]) /\ streams' = streams \cup {target[r]}
             \/ Moved(r, "unlock", target[r], motor[r]) /\ streams' = streams
  BY <1>6, <1>t, Moving DEF AddStream
<1>7. ASSUME CreateStreamMotorInternal(r)
      PROVE  target[r] \in 1..issued /\ Moved(r, "join", target[r], target[r])
  <2>1. target[r] \in 1..issued /\ target[r] \in Streams
    BY <1>7, <1>t DEF CreateStreamMotorInternal, TypeInv, Control, Targeting
  <2> QED
    BY <1>7, <1>t, <2>1, Moving DEF CreateStreamMotorInternal, Uses
<1> QED
  BY <1>1, <1>2, <1>3, <1>4, <1>5, <1>6, <1>7
  DEF LockPullStreamIfNeeded, UnlockPullStreamIfNeeded, FindStream, StartStream, AddStream,
      CreateStreamMotorInternal

LEMMA MotorMoves ==
  ASSUME TypeInv, NEW t \in Threads
  PROVE  /\ FindMotor(t) =>
              /\ pc[t] \in {"findMotor", "resumed"} /\ target[t] \in 1..issued
              /\ \/ Has(target[t]) # None /\ Moved(t, "join", target[t], Has(target[t]))
                 \/ /\ Has(target[t]) = None /\ pc[t] = "findMotor"
                    /\ Moved(t, "makeMotor", target[t], motor[t])
                 \/ /\ Has(target[t]) = None /\ pc[t] = "resumed" /\ t = Collector
                    /\ Moved(t, "scan", None, None)
         /\ JoinMotor(t) => pc[t] = "join" /\ Moved(t, "arm", target[t], motor[t])
         /\ AddStreamToEpoll(t) =>
              pc[t] = "arm" /\ Moved(t, IF t = Collector THEN "scan" ELSE "unlock", None, None)
<1> USE Facts DEF Steps
<1>t. target[t] \in Streams \cup {None} /\ motor[t] \in Streams \cup {None}
  BY DEF TypeInv, Control
<1>1. ASSUME FindMotor(t)
      PROVE  /\ pc[t] \in {"findMotor", "resumed"} /\ target[t] \in 1..issued
             /\ pc[t] = "resumed" => t = Collector
  BY <1>1, <1>t
  DEF FindMotor, TypeInv, Control, Targeting, RequestSteps, CollectorSteps, Deleting
<1>2. ASSUME FindMotor(t)
      PROVE  \/ Has(target[t]) # None /\ Moved(t, "join", target[t], Has(target[t]))
             \/ /\ Has(target[t]) = None /\ pc[t] = "findMotor"
                /\ Moved(t, "makeMotor", target[t], motor[t])
             \/ /\ Has(target[t]) = None /\ pc[t] = "resumed"
                /\ Moved(t, IF t = Collector THEN "scan" ELSE "unlock", None, None)
  <2>1. /\ MotorOf(target[t]) = Has(target[t]) /\ Has(target[t]) \in Streams \cup {None}
    BY <1>1, <1>2, IdFacts DEF TypeInv, Data, Has
  <2>2. CASE Has(target[t]) # None
    BY <1>2, <1>t, <2>1, <2>2, Moving DEF FindMotor, Uses
  <2>3. CASE Has(target[t]) = None /\ pc[t] = "findMotor"
    BY <1>2, <1>t, <2>1, <2>3, Moving DEF FindMotor
  <2>4. CASE Has(target[t]) = None /\ pc[t] = "resumed"
    BY <1>2, <1>t, <2>1, <2>4, Returning DEF FindMotor
  <2> QED
    BY <1>1, <1>2, <2>2, <2>3, <2>4
<1>3. ASSUME JoinMotor(t) PROVE Moved(t, "arm", target[t], motor[t])
  BY <1>3, <1>t, Moving DEF JoinMotor
<1>4. ASSUME AddStreamToEpoll(t)
      PROVE  Moved(t, IF t = Collector THEN "scan" ELSE "unlock", None, None)
  BY <1>4, <1>t, Returning DEF AddStreamToEpoll
<1> QED
  BY <1>1, <1>2, <1>3, <1>4 DEF JoinMotor, AddStreamToEpoll

LEMMA DeleteMoves ==
  ASSUME TypeInv, NEW t \in Threads
  PROVE  /\ DeleteFindsMotor(t) =>
              /\ pc[t] = "delFind" /\ target[t] \in 1..issued
              /\ Moved(t, IF Has(target[t]) = None THEN "erase" ELSE "delStream", target[t],
                       Has(target[t]))
         /\ DelStream(t) => pc[t] = "delStream" /\ Moved(t, "count", target[t], motor[t])
         /\ CountStreams(t) =>
              /\ pc[t] = "count"
              /\ \/ Moved(t, "stopMotor", target[t], motor[t])
                 \/ Moved(t, "erase", target[t], None)
         /\ StopMotor(t) => pc[t] = "stopMotor" /\ Moved(t, "eraseMotor", target[t], motor[t])
         /\ EraseMotor(t) => pc[t] = "eraseMotor" /\ Moved(t, "erase", target[t], None)
         /\ EraseStream(t) =>
              /\ pc[t] = "erase"
              /\ \/ target[t] \in streams /\ Moved(t, "stop", target[t], motor[t])
                 \/ /\ target[t] \notin streams
                    /\ Moved(t, IF t = Collector THEN "scan" ELSE "create", None, None)
         /\ StopStream(t) =>
              pc[t] = "stop" /\ Moved(t, IF t = Collector THEN "scan" ELSE "create", None, None)
<1> USE Facts DEF Steps
<1>t. target[t] \in Streams \cup {None} /\ motor[t] \in Streams \cup {None}
  BY DEF TypeInv, Control
<1>1. ASSUME DeleteFindsMotor(t)
      PROVE  /\ target[t] \in 1..issued
             /\ Moved(t, IF Has(target[t]) = None THEN "erase" ELSE "delStream", target[t],
                      Has(target[t]))
  <2>1. target[t] \in 1..issued
    BY <1>1 DEF DeleteFindsMotor, TypeInv, Control, Targeting, Deleting
  <2>2. /\ MotorOf(target[t]) = Has(target[t]) /\ Has(target[t]) \in Streams \cup {None}
    BY <2>1, IdFacts DEF TypeInv, Data, Has
  <2> QED
    BY <1>1, <1>t, <2>1, <2>2, Moving DEF DeleteFindsMotor, Uses
<1>2. ASSUME DelStream(t) PROVE Moved(t, "count", target[t], motor[t])
  BY <1>2, <1>t, Moving DEF DelStream
<1>3. ASSUME CountStreams(t)
      PROVE  Moved(t, "stopMotor", target[t], motor[t]) \/ Moved(t, "erase", target[t], None)
  BY <1>3, <1>t, Moving DEF CountStreams, Uses
<1>4. ASSUME StopMotor(t) PROVE Moved(t, "eraseMotor", target[t], motor[t])
  BY <1>4, <1>t, Moving DEF StopMotor
<1>5. ASSUME EraseMotor(t) PROVE Moved(t, "erase", target[t], None)
  BY <1>5, <1>t, Moving DEF EraseMotor, Uses
<1>6. ASSUME EraseStream(t), target[t] \in streams PROVE Moved(t, "stop", target[t], motor[t])
  BY <1>6, <1>t, Moving DEF EraseStream
<1>7. ASSUME EraseStream(t), target[t] \notin streams
      PROVE  Moved(t, IF t = Collector THEN "scan" ELSE "create", None, None)
  BY <1>7, Returning DEF EraseStream
<1>8. ASSUME StopStream(t) PROVE Moved(t, IF t = Collector THEN "scan" ELSE "create", None, None)
  BY <1>8, Returning DEF StopStream
<1> QED
  BY <1>1, <1>2, <1>3, <1>4, <1>5, <1>6, <1>7, <1>8
  DEF DeleteFindsMotor, DelStream, CountStreams, StopMotor, EraseMotor, EraseStream, StopStream

LEMMA CollectorMoves ==
  ASSUME TypeInv
  PROVE  /\ Collect => pc[Collector] = "idle" /\ Moved(Collector, "scan", target[Collector], motor[Collector])
         /\ EndOfScan =>
              pc[Collector] = "scan" /\ Moved(Collector, "idle", target[Collector], motor[Collector])
         /\ Scan =>
              /\ pc[Collector] = "scan"
              /\ \/ Moved(Collector, "scan", None, motor[Collector])
                 \/ \E s \in 1..issued, step \in {"resume", "delFind"} :
                      Moved(Collector, step, s, motor[Collector])
         /\ NoInput => pc' = pc /\ target' = target /\ motor' = motor
         /\ Resume =>
              /\ pc[Collector] = "resume" /\ target[Collector] \in 1..issued
              /\ \/ Moved(Collector, "resumed", target[Collector], motor[Collector])
                 \/ Moved(Collector, "scan", None, None)
<1> USE Facts
<1>s. {"scan", "idle", "resume", "resumed", "delFind"} \subseteq Steps
  BY DEF Steps
<1>t. target[Collector] \in Streams \cup {None} /\ motor[Collector] \in Streams \cup {None}
  BY DEF TypeInv, Control
<1>1. ASSUME Collect PROVE Moved(Collector, "scan", target[Collector], motor[Collector])
  BY <1>s, <1>1, <1>t, Moving DEF Collect
<1>2. ASSUME EndOfScan PROVE Moved(Collector, "idle", target[Collector], motor[Collector])
  BY <1>s, <1>2, <1>t, Moving DEF EndOfScan
<1>3. ASSUME Scan
      PROVE  \/ Moved(Collector, "scan", None, motor[Collector])
             \/ \E s \in 1..issued, step \in {"resume", "delFind"} :
                  Moved(Collector, step, s, motor[Collector])
  <2>1. PICK s : s = Min(snapshot)
    OBVIOUS
  <2>2. s \in 1..issued /\ s \in Streams
    <3>1. snapshot \subseteq 1..issued /\ snapshot # {} /\ issued \in 0..MaxStreams
      BY <1>3 DEF Scan, TypeInv, Data
    <3>2. snapshot \in SUBSET Nat
      BY <3>1
    <3>3. s \in snapshot
      BY <2>1, <3>1, <3>2, MinIsMember
    <3> QED
      BY <3>1, <3>3
  <2>3. /\ pc[Collector] = "scan" /\ pc \in [Threads -> Steps] /\ motor' = motor
        /\ target' = [target EXCEPT ![Collector] = IF pc' = pc THEN None ELSE s]
        /\ Goto(Collector, "resume") \/ Goto(Collector, "delFind") \/ pc' = pc
    BY <1>3, <2>1 DEF Scan, TypeInv, Control
  <2>4. CASE pc' = pc
    <3>1. Goto(Collector, "scan")
      BY <2>3, <2>4 DEF Goto
    <3> QED
      BY <1>s, <1>t, <2>3, <2>4, <3>1, Moving
  <2>5. ASSUME NEW step \in {"resume", "delFind"}, Goto(Collector, step)
        PROVE  Moved(Collector, step, s, motor[Collector])
    <3>1. pc' # pc
      BY <2>3, <2>5 DEF Goto
    <3>2. target' = [target EXCEPT ![Collector] = s]
      BY <2>3, <3>1
    <3>3. step \in Steps
      BY <1>s, <2>5
    <3> QED
      BY <1>t, <2>2, <2>3, <2>5, <3>2, <3>3, Moving
  <2> QED
    BY <2>2, <2>3, <2>4, <2>5
<1>4. ASSUME Resume
      PROVE  /\ target[Collector] \in 1..issued
             /\ \/ Moved(Collector, "resumed", target[Collector], motor[Collector])
                \/ Moved(Collector, "scan", None, None)
  <2>1. target[Collector] \in 1..issued
    BY <1>4 DEF Resume, TypeInv, Control, Targeting
  <2>2. \/ Goto(Collector, "resumed") /\ target' = target /\ motor' = motor
        \/ Return(Collector, "scan")
    BY <1>4 DEF Resume
  <2> QED
    BY <1>s, <1>t, <2>1, <2>2, Moving, Returning
<1> QED
  BY <1>1, <1>2, <1>3, <1>4 DEF Collect, EndOfScan, Scan, NoInput, Resume

\* A thread goes on without a motor, ...
LEMMA GoesOn ==
  ASSUME TypeInv, [Next]_vars, NEW t \in Threads, NEW s, NEW step, Moved(t, step, s, None),
         Places(t, step), step \notin Holding, issued' \in {issued, issued + 1},
         \/ s = None /\ step \notin Targeting
         \/ s \in Streams /\ s \in 1..issued'
  PROVE  Control'
<1>1. issued' \in Nat /\ issued <= issued' /\ MotorId' = MotorId
  BY ConfigStep, Facts DEF TypeInv, Data
<1>2. (s # None => s \in 1..issued') /\ (step \in Targeting => s # None)
  BY Facts
<1> QED
  BY <1>1, <1>2, ControlMoves

\* ... or with one.
LEMMA GoesOnHolding ==
  ASSUME TypeInv, [Next]_vars, NEW t \in Threads, NEW s \in 1..issued, NEW m \in 1..issued,
         NEW step \in Holding, Moved(t, step, s, m), Places(t, step), issued' = issued,
         MotorId[m] = MotorId[s]
  PROVE  Control'
<1>1. issued' \in Nat /\ issued <= issued' /\ MotorId' = MotorId /\ s \in 1..issued'
  BY ConfigStep, Facts DEF TypeInv, Data
<1>2. s # None /\ m # None
  BY Facts DEF TypeInv, Data
<1> QED
  BY <1>1, <1>2, ControlMoves

\* The stream and the motor of a thread.
LEMMA HasWhat ==
  ASSUME TypeInv
  PROVE  /\ \A t \in Threads :
              /\ pc[t] \in Targeting => target[t] \in 1..issued /\ target[t] \in Streams
              /\ pc[t] \notin Holding => motor[t] = None
              /\ pc[t] \in Holding => /\ motor[t] \in 1..issued /\ target[t] \in 1..issued
                                      /\ MotorId[motor[t]] = MotorId[target[t]]
              /\ target[t] # None => target[t] \in Streams /\ target[t] \in 1..issued
         /\ \A s \in 1..issued :
              Has(s) # None => Has(s) \in 1..issued /\ MotorId[Has(s)] = MotorId[s]
         /\ 1..issued \subseteq Nat /\ 1..issued \subseteq Streams
<1>1. Holding \subseteq Targeting
  BY DEF Holding, Targeting, Deleting
<1>2. 1..issued \subseteq Nat /\ 1..issued \subseteq Streams
  BY Facts DEF TypeInv, Data
<1>3. \A t \in Threads :
        /\ pc[t] \in Targeting => target[t] \in 1..issued /\ target[t] \in Streams
        /\ pc[t] \notin Holding => motor[t] = None
        /\ pc[t] \in Holding => /\ motor[t] \in 1..issued /\ target[t] \in 1..issued
                                /\ MotorId[motor[t]] = MotorId[target[t]]
        /\ target[t] # None => target[t] \in Streams /\ target[t] \in 1..issued
  BY <1>1, <1>2 DEF TypeInv, Control
<1>4. ASSUME NEW s \in 1..issued, Has(s) # None
      PROVE  Has(s) \in 1..issued /\ MotorId[Has(s)] = MotorId[s]
  <2>1. MotorId[s] \in 0..(motorCount - 1)
    BY <1>2, IdFacts DEF TypeInv, Data
  <2> QED
    BY <1>4, <2>1 DEF TypeInv, Data, Has
<1> QED
  BY <1>2, <1>3, <1>4

LEMMA ControlStep == TypeInv /\ [Next]_vars => Control'
<1> SUFFICES ASSUME TypeInv, [Next]_vars PROVE Control'
  OBVIOUS
<1> USE Facts DEF request
<1>r. ASSUME NEW r \in Requests, PullStream(r) PROVE Control'
  <2> USE DEF Places, Holding, Targeting, Deleting, RequestSteps
  <2>h. r \in Threads /\ r # Collector
    OBVIOUS
  <2>1. CASE LockPullStreamIfNeeded(r)
    BY <2>1, <2>h, PullMoves, HasWhat, GoesOn DEF LockPullStreamIfNeeded
  <2>2. CASE UnlockPullStreamIfNeeded(r)
    BY <2>2, <2>h, PullMoves, GoesOn DEF UnlockPullStreamIfNeeded
  <2>3. CASE FindStream(r)
    <3>1. pc[r] = "find" /\ motor[r] = None /\ issued' = issued
      BY <2>3, <2>h, HasWhat DEF FindStream
    <3>2. CASE Moved(r, "create", target[r], motor[r])
      BY <2>h, <3>1, <3>2, HasWhat, GoesOn
    <3>3. ASSUME NEW s \in streams, Moved(r, "delFind", s, motor[r]) \/ Moved(r, "unlock", s, motor[r])
          PROVE  Control'
      <4>1. s \in Streams /\ s \in 1..issued'
        BY <3>1, <3>3, HasWhat DEF TypeInv, Data
      <4> QED
        BY <2>h, <3>1, <3>3, <4>1, GoesOn
    <3> QED
      BY <2>3, <3>2, <3>3, PullMoves
  <2>4. CASE StartStream(r)
    <3>1. pc[r] = "create" /\ motor[r] = None /\ issued' = issued + 1 /\ issued' \in Streams
      BY <2>4, <2>h, HasWhat, PullMoves
    <3>2. issued' \in 1..issued' /\ 1..issued \subseteq 1..issued'
      BY <3>1 DEF TypeInv, Data
    <3>3. CASE Moved(r, "add", issued', motor[r])
      BY <2>h, <3>1, <3>2, <3>3, GoesOn
    <3>4. CASE Moved(r, "unlock", target[r], motor[r])
      BY <2>h, <3>1, <3>2, <3>4, HasWhat, GoesOn
    <3> QED
      BY <2>4, <3>3, <3>4, PullMoves
  <2>5. CASE AddStream(r)
    <3>1. pc[r] = "add" /\ motor[r] = None /\ issued' = issued /\ target[r] \in Streams
          /\ target[r] \in 1..issued'
      BY <2>5, <2>h, HasWhat DEF AddStream
    <3> QED
      BY <2>5, <2>h, <3>1, PullMoves, GoesOn
  <2>6. CASE CreateStreamMotorInternal(r)
    BY <2>6, <2>h, PullMoves, GoesOnHolding DEF CreateStreamMotorInternal
  <2> QED
    BY <1>r, <2>1, <2>2, <2>3, <2>4, <2>5, <2>6 DEF PullStream
<1>m. ASSUME NEW t \in Threads, MotorStep(t) PROVE Control'
  <2> USE DEF Places, Holding, Targeting, Deleting, RequestSteps, CollectorSteps
  <2>1. CASE FindMotor(t)
    <3>1. /\ issued' = issued /\ motor[t] = None /\ target[t] \in 1..issued /\ target[t] \in Streams
          /\ pc[t] \in {"findMotor", "resumed"}
      BY <2>1, HasWhat, MotorMoves DEF FindMotor
    <3>2. CASE Has(target[t]) # None /\ Moved(t, "join", target[t], Has(target[t]))
      BY <3>1, <3>2, HasWhat, GoesOnHolding
    <3>3. CASE pc[t] = "findMotor" /\ Moved(t, "makeMotor", target[t], motor[t])
      <4>1. t \in Requests
        BY <3>3 DEF TypeInv, Control
      <4> QED
        BY <3>1, <3>3, <4>1, GoesOn
    <3>4. CASE t = Collector /\ Moved(t, "scan", None, None)
      BY <3>1, <3>4, GoesOn
    <3> QED
      BY <2>1, <3>2, <3>3, <3>4, MotorMoves
  <2>2. CASE JoinMotor(t)
    BY <2>2, HasWhat, MotorMoves, GoesOnHolding DEF JoinMotor
  <2>3. CASE AddStreamToEpoll(t)
    BY <2>3, MotorMoves, GoesOn DEF AddStreamToEpoll
  <2> QED
    BY <1>m, <2>1, <2>2, <2>3 DEF MotorStep
<1>d. ASSUME NEW t \in Threads, DeleteStream(t) PROVE Control'
  <2> USE DEF Places, Holding, Targeting, Deleting, RequestSteps, CollectorSteps
  <2>i. issued' = issued
    BY <1>d
    DEF DeleteStream, DeleteFindsMotor, DelStream, CountStreams, StopMotor, EraseMotor,
        EraseStream, StopStream
  <2>1. CASE DeleteFindsMotor(t)
    <3>1. target[t] \in 1..issued /\ target[t] \in Streams
      BY <2>1, HasWhat, DeleteMoves
    <3>2. CASE Has(target[t]) = None
      BY <2>1, <2>i, <3>1, <3>2, DeleteMoves, GoesOn
    <3>3. CASE Has(target[t]) # None
      BY <2>1, <2>i, <3>1, <3>3, HasWhat, DeleteMoves, GoesOnHolding
    <3> QED
      BY <3>2, <3>3
  <2>2. CASE DelStream(t)
    BY <2>2, <2>i, HasWhat, DeleteMoves, GoesOnHolding
  <2>3. CASE CountStreams(t)
    BY <2>3, <2>i, HasWhat, DeleteMoves, GoesOn, GoesOnHolding
  <2>4. CASE StopMotor(t)
    BY <2>4, <2>i, HasWhat, DeleteMoves, GoesOnHolding
  <2>5. CASE EraseMotor(t)
    BY <2>5, <2>i, HasWhat, DeleteMoves, GoesOn
  <2>6. CASE EraseStream(t)
    <3>1. motor[t] = None /\ target[t] \in Streams /\ target[t] \in 1..issued'
      BY <2>6, <2>i, HasWhat, DeleteMoves
    <3> QED
      BY <2>6, <2>i, <3>1, DeleteMoves, GoesOn
  <2>7. CASE StopStream(t)
    BY <2>7, <2>i, DeleteMoves, GoesOn
  <2> QED
    BY <1>d, <2>1, <2>2, <2>3, <2>4, <2>5, <2>6, <2>7 DEF DeleteStream
<1>u. ASSUME UNCHANGED <<pc, target, motor>>, issued' = issued PROVE Control'
  BY <1>u, ConfigStep DEF TypeInv, Control
<1>w. ASSUME WhiteElephantStreamCollector PROVE Control'
  <2> USE DEF Places, Holding, Targeting, Deleting, CollectorSteps
  <2>i. issued' = issued
    BY <1>w DEF WhiteElephantStreamCollector, Collect, EndOfScan, Scan, NoInput, Resume
  <2>1. CASE Collect
    BY <2>1, <2>i, HasWhat, CollectorMoves, GoesOn
  <2>2. CASE EndOfScan
    BY <2>2, <2>i, HasWhat, CollectorMoves, GoesOn
  <2>3. CASE Scan
    <3>1. motor[Collector] = None /\ \A s \in 1..issued : s \in Streams
      BY <2>3, HasWhat, CollectorMoves
    <3>2. CASE Moved(Collector, "scan", None, motor[Collector])
      BY <2>i, <3>1, <3>2, GoesOn
    <3>3. ASSUME NEW s \in 1..issued, NEW step \in {"resume", "delFind"},
                 Moved(Collector, step, s, motor[Collector])
          PROVE  Control'
      BY <2>i, <3>1, <3>3, GoesOn
    <3> QED
      BY <2>3, <3>2, <3>3, CollectorMoves
  <2>4. CASE NoInput
    BY <1>u, <2>4, <2>i, CollectorMoves
  <2>5. CASE Resume
    BY <2>5, <2>i, HasWhat, CollectorMoves, GoesOn
  <2> QED
    BY <1>w, <2>1, <2>2, <2>3, <2>4, <2>5 DEF WhiteElephantStreamCollector
<1>o. ASSUME (\E m \in running : MotorEvent(m)) \/ (\E s \in Streams : Terminate(s))
             \/ OriginDies \/ UNCHANGED vars
      PROVE  UNCHANGED <<pc, target, motor>> /\ issued' = issued
  BY <1>o DEF MotorEvent, Terminate, OriginDies, vars
<1> QED
  BY <1>r, <1>m, <1>d, <1>u, <1>w, <1>o DEF Next

LEMMA StopType ==
  ASSUME TypeInv, NEW S, Stop(S)
  PROVE  /\ state' \in [Streams -> {"new", "playing", "stopped", "terminated"}]
         /\ connected' \subseteq 1..issued /\ armed' \in [Streams -> Streams \cup {None}]
BY DEF TypeInv, Data, Stop

\* The table after a motor has entered it, or left.
LEMMA ListedType ==
  ASSUME TypeInv, NEW s \in 1..issued, NEW m \in {s, None},
         listed' = [listed EXCEPT ![GetStreamMotorId(s)] = m]
  PROVE  /\ listed' \in [0..(motorCount - 1) -> Streams \cup {None}]
         /\ \A i \in 0..(motorCount - 1) :
              listed'[i] # None => listed'[i] \in 1..issued /\ MotorId[listed'[i]] = i
<1>1. /\ s \in Nat /\ s \in Streams /\ motorCount \in MotorCounts
      /\ listed \in [0..(motorCount - 1) -> Streams \cup {None}]
      /\ \A i \in 0..(motorCount - 1) :
           listed[i] # None => listed[i] \in 1..issued /\ MotorId[listed[i]] = i
  BY HasWhat DEF TypeInv, Data
<1>2. MotorId[s] \in 0..(motorCount - 1) /\ listed' = [listed EXCEPT ![MotorId[s]] = m]
  BY <1>1, IdFacts
<1>3. PICK D, i : D = 0..(motorCount - 1) /\ i = MotorId[s]
  OBVIOUS
<1>4. i \in D /\ m \in Streams \cup {None} /\ listed \in [D -> Streams \cup {None}]
  BY <1>1, <1>2, <1>3
<1>5. listed' \in [D -> Streams \cup {None}]
  BY <1>2, <1>3, <1>4
<1>6. listed'[i] = m /\ \A j \in D : j # i => listed'[j] = listed[j]
  BY <1>2, <1>3, <1>4
<1> QED
  BY <1>1, <1>3, <1>5, <1>6

LEMMA DataStep == TypeInv /\ [Next]_vars => Data'
<1> SUFFICES ASSUME TypeInv, [Next]_vars PROVE Data'
  OBVIOUS
<1> USE Facts DEF request, stream, motors
<1>c. MotorId' = MotorId /\ motorCount' = motorCount /\ want' = want
  BY ConfigStep
<1>t. Data
  BY DEF TypeInv
<1>r. ASSUME NEW r \in Requests, PullStream(r) PROVE Data'
  <2>1. CASE LockPullStreamIfNeeded(r)
    BY <1>c, <1>t, <2>1 DEF LockPullStreamIfNeeded, Data
  <2>2. CASE UnlockPullStreamIfNeeded(r)
    BY <1>c, <1>t, <2>2 DEF UnlockPullStreamIfNeeded, Data
  <2>3. CASE FindStream(r)
    BY <1>c, <1>t, <2>3 DEF FindStream, Data
  <2>4. CASE StartStream(r)
    <3>1. issued' = issued + 1 /\ issued' \in Streams /\ issued \in Nat
      BY <1>t, <2>4, PullMoves DEF Data
    <3>2. 1..issued \subseteq 1..issued' /\ issued' \in 1..issued' /\ issued' \in 0..MaxStreams
      BY <3>1
    <3>3. name' \in [Streams -> Names \cup {None}]
      BY <1>t, <2>4, <3>1 DEF StartStream, Data
    <3>4. /\ state' \in [Streams -> {"new", "playing", "stopped", "terminated"}]
          /\ connected' \subseteq 1..issued'
      BY <1>t, <2>4, <3>1, <3>2 DEF StartStream, Data
    <3>5. /\ streams' = streams /\ running' = running /\ snapshot' = snapshot /\ listed' = listed
          /\ UNCHANGED <<pulling, restarts, armed, held, up>>
      BY <2>4 DEF StartStream
    <3>6. \A i \in 0..(motorCount - 1) :
            listed'[i] # None => listed'[i] \in 1..issued' /\ MotorId'[listed'[i]] = i
      BY <1>c, <1>t, <3>2, <3>5 DEF Data
    <3> QED
      BY <1>c, <1>t, <3>2, <3>3, <3>4, <3>5, <3>6 DEF Data
  <2>5. CASE AddStream(r)
    <3>1. target[r] \in 1..issued
      BY <2>5, PullMoves
    <3> QED
      BY <1>c, <1>t, <2>5, <3>1 DEF AddStream, Data
  <2>6. CASE CreateStreamMotorInternal(r)
    <3>1. target[r] \in 1..issued
      BY <2>6, PullMoves
    <3>2. /\ listed' \in [0..(motorCount - 1) -> Streams \cup {None}]
          /\ \A i \in 0..(motorCount - 1) :
               listed'[i] # None => listed'[i] \in 1..issued /\ MotorId[listed'[i]] = i
      <4>1. CASE MotorOf(target[r]) = None
        BY <2>6, <3>1, <4>1, ListedType DEF CreateStreamMotorInternal
      <4>2. CASE MotorOf(target[r]) # None
        BY <1>t, <2>6, <4>2 DEF CreateStreamMotorInternal, Data
      <4> QED
        BY <4>1, <4>2
    <3> QED
      BY <1>c, <1>t, <2>6, <3>1, <3>2 DEF CreateStreamMotorInternal, Data
  <2> QED
    BY <1>r, <2>1, <2>2, <2>3, <2>4, <2>5, <2>6 DEF PullStream
<1>m. ASSUME NEW t \in Threads, MotorStep(t) PROVE Data'
  <2>1. CASE FindMotor(t)
    BY <1>c, <1>t, <2>1 DEF FindMotor, Data
  <2>2. CASE JoinMotor(t)
    <3>1. motor[t] \in Streams /\ target[t] \in Streams
      BY <2>2, HasWhat, MotorMoves DEF Holding
    <3>2. held' \in [Streams -> SUBSET Streams]
      BY <1>t, <2>2, <3>1 DEF JoinMotor, Data
    <3> QED
      BY <1>c, <1>t, <2>2, <3>2 DEF JoinMotor, Data
  <2>3. CASE AddStreamToEpoll(t)
    <3>1. motor[t] \in Streams /\ target[t] \in Streams
      BY <2>3, HasWhat, MotorMoves DEF Holding
    <3>2. /\ held' \in [Streams -> SUBSET Streams]
          /\ state' \in [Streams -> {"new", "playing", "stopped", "terminated"}]
          /\ connected' \subseteq 1..issued /\ armed' \in [Streams -> Streams \cup {None}]
      <4>1. CASE target[t] \in connected /\ motor[t] \in running
        BY <1>t, <2>3, <3>1, <4>1 DEF AddStreamToEpoll, Data
      <4>2. CASE ~(target[t] \in connected /\ motor[t] \in running)
        <5>1. /\ held' = [held EXCEPT ![motor[t]] = @ \ {target[t]}]
              /\ \E S : Stop(S)
          BY <2>3, <4>2 DEF AddStreamToEpoll
        <5>2. held' \in [Streams -> SUBSET Streams]
          BY <1>t, <3>1, <5>1 DEF Data
        <5> QED
          BY <5>1, <5>2, StopType
      <4> QED
        BY <4>1, <4>2
    <3> QED
      BY <1>c, <1>t, <2>3, <3>2 DEF AddStreamToEpoll, Data
  <2> QED
    BY <1>m, <2>1, <2>2, <2>3 DEF MotorStep
<1>d. ASSUME NEW t \in Threads, DeleteStream(t) PROVE Data'
  <2>1. CASE DeleteFindsMotor(t)
    BY <1>c, <1>t, <2>1 DEF DeleteFindsMotor, Data
  <2>2. CASE DelStream(t)
    BY <1>c, <1>t, <2>2, StopType DEF DelStream, Data
  <2>3. CASE CountStreams(t)
    BY <1>c, <1>t, <2>3 DEF CountStreams, Data
  <2>4. CASE StopMotor(t)
    BY <1>c, <1>t, <2>4, StopType DEF StopMotor, Data
  <2>5. CASE EraseMotor(t)
    <3>1. target[t] \in 1..issued
      BY <2>5, HasWhat, DeleteMoves DEF Holding
    <3> QED
      BY <1>c, <1>t, <2>5, <3>1, ListedType DEF EraseMotor, Data
  <2>6. CASE EraseStream(t)
    BY <1>c, <1>t, <2>6 DEF EraseStream, Data
  <2>7. CASE StopStream(t)
    BY <1>c, <1>t, <2>7, StopType DEF StopStream, Data
  <2> QED
    BY <1>d, <2>1, <2>2, <2>3, <2>4, <2>5, <2>6, <2>7 DEF DeleteStream
<1>w. ASSUME WhiteElephantStreamCollector PROVE Data'
  <2>1. CASE Collect
    BY <1>c, <1>t, <2>1 DEF Collect, Data
  <2>2. CASE EndOfScan
    BY <1>c, <1>t, <2>2 DEF EndOfScan, Data
  <2>3. CASE Scan
    <3>1. /\ state' \in [Streams -> {"new", "playing", "stopped", "terminated"}]
          /\ connected' \subseteq 1..issued /\ armed' \in [Streams -> Streams \cup {None}]
      BY <1>t, <2>3, StopType DEF Scan, Data
    <3> QED
      BY <1>c, <1>t, <2>3, <3>1 DEF Scan, Data
  <2>4. CASE NoInput
    BY <1>c, <1>t, <2>4, StopType DEF NoInput, Data
  <2>5. CASE Resume
    <3>1. target[Collector] \in 1..issued /\ target[Collector] \in Streams
      BY <1>t, <2>5, CollectorMoves, HasWhat
    <3>t. /\ restarts \in [Streams -> Nat] /\ connected \subseteq 1..issued
          /\ state \in [Streams -> {"new", "playing", "stopped", "terminated"}]
          /\ armed \in [Streams -> Streams \cup {None}]
      BY <1>t DEF Data
    <3>s. PICK s \in Streams : s = target[Collector] /\ s \in 1..issued
      BY <3>1
    <3>r. /\ \/ restarts' = [restarts EXCEPT ![s] = 0]
             \/ restarts' = [restarts EXCEPT ![s] = @ + 1]
          /\ \E x \in {"playing", "stopped", "terminated"} : state' = [state EXCEPT ![s] = x]
          /\ connected' = connected \cup {s} \/ connected' = connected \ {s}
          /\ armed' = armed \/ armed' = [armed EXCEPT ![s] = None]
      BY <2>5, <3>s DEF Resume
    <3>2. restarts' \in [Streams -> Nat]
      BY <3>t, <3>r
    <3>3. /\ state' \in [Streams -> {"new", "playing", "stopped", "terminated"}]
          /\ connected' \subseteq 1..issued /\ armed' \in [Streams -> Streams \cup {None}]
      <4>1. state' \in [Streams -> {"new", "playing", "stopped", "terminated"}]
        BY <3>t, <3>r
      <4>2. connected' \subseteq 1..issued
        <5>1. connected' = connected \cup {s} \/ connected' = connected \ {s}
          BY <3>r
        <5> QED
          BY <3>t, <3>s, <5>1
      <4>3. armed' \in [Streams -> Streams \cup {None}]
        BY <3>t, <3>r
      <4> QED
        BY <4>1, <4>2, <4>3
    <3> QED
      BY <1>c, <1>t, <2>5, <3>2, <3>3 DEF Resume, Data
  <2> QED
    BY <1>w, <2>1, <2>2, <2>3, <2>4, <2>5 DEF WhiteElephantStreamCollector
<1>1. ASSUME NEW m \in running, MotorEvent(m) PROVE Data'
  <2>1. /\ state' \in [Streams -> {"new", "playing", "stopped", "terminated"}]
        /\ connected' \subseteq 1..issued /\ armed' \in [Streams -> Streams \cup {None}]
    BY <1>t, <1>1, StopType DEF MotorEvent, Data
  <2> QED
    BY <1>c, <1>t, <1>1, <2>1 DEF MotorEvent, Data
<1>2. ASSUME NEW s \in Streams, Terminate(s) PROVE Data'
  BY <1>c, <1>t, <1>2 DEF Terminate, Data
<1>3. ASSUME OriginDies PROVE Data'
  BY <1>c, <1>t, <1>3 DEF OriginDies, Data
<1>4. ASSUME UNCHANGED vars PROVE Data'
  BY <1>c, <1>t, <1>4 DEF vars, Data
<1> QED
  BY <1>r, <1>m, <1>d, <1>w, <1>1, <1>2, <1>3, <1>4 DEF Next

LEMMA TypeStep == TypeInv /\ [Next]_vars => TypeInv'
BY ControlStep, DataStep DEF TypeInv

\* Every variable keeps its type, and a thread has the stream and the motor that its step
\* deals with (PullApplication, PullProvider).
THEOREM TypeCorrect == Spec => []TypeOK
BY TypeInit, TypeStep, TypeParts, PTL DEF Spec

-----------------------------------------------------------------------------
(* One stream of a name *)

LEMMA OnePulls ==
  ASSUME LockInv, NEW r \in Requests, NEW q \in Requests, Pulling(r), Pulling(q), want[r] = want[q]
  PROVE  r = q
BY DEF LockInv

LEMMA NamedKept ==
  ASSUME TypeInv, NEW r \in Requests, Named(r), pc'[r] = pc[r], target'[r] = target[r],
         want' = want, streams' \subseteq streams, name' = name
  PROVE  Named(r)'
BY DEF Named

\* A thread goes on and adds no stream.
LEMMA PullFrame ==
  ASSUME TypeInv, PullInv, NEW t \in Threads, NEW step, NEW s, NEW m, Moved(t, step, s, m),
         want' = want, streams' \subseteq streams, name' = name, pulling' = pulling,
         t \in Requests => Named(t)' /\ Pulling(t)
  PROVE  PullInv'
<1>1. ASSUME NEW r \in Requests, r # t PROVE Named(r)'
  BY <1>1, NamedKept, Facts DEF Moved, PullInv
<1>2. ASSUME NEW r \in Requests, Pulling(r)' PROVE Pulling(r)
  BY <1>2, Facts DEF Moved, Pulling
<1>3. LockInv'
  BY <1>2 DEF LockInv, PullInv
<1>4. OnePerName'
  BY DEF OnePerName, PullInv
<1> QED
  BY <1>1, <1>3, <1>4 DEF PullInv

LEMMA PullStep == TypeInv /\ PullInv /\ [Next]_vars => PullInv'
<1> SUFFICES ASSUME TypeInv, PullInv, [Next]_vars PROVE PullInv'
  OBVIOUS
<1> USE Facts DEF request, stream, motors
<1>c. want' = want
  BY ConfigStep
<1>i. LockInv /\ (\A r \in Requests : Named(r)) /\ OnePerName
  BY DEF PullInv
<1>u. ASSUME UNCHANGED <<pc, target, pulling, streams, name>> PROVE PullInv'
  <2>1. ASSUME NEW r \in Requests PROVE Named(r)' /\ (Pulling(r)' => Pulling(r))
    BY <1>c, <1>i, <1>u, <2>1, NamedKept DEF Pulling
  <2>2. LockInv' /\ OnePerName'
    BY <1>c, <1>i, <1>u, <2>1 DEF LockInv, OnePerName
  <2> QED
    BY <2>1, <2>2 DEF PullInv
<1>r. ASSUME NEW r \in Requests, PullStream(r) PROVE PullInv'
  <2>h. r \in Threads
    OBVIOUS
  <2>1. CASE LockPullStreamIfNeeded(r)
    <3>1. /\ pulling[want[r]] = None /\ pulling' = [pulling EXCEPT ![want[r]] = r]
          /\ streams' = streams /\ name' = name
          /\ pc'[r] = "find" /\ \A q \in Requests : q # r => pc'[q] = pc[q] /\ target'[q] = target[q]
      BY <2>1, PullMoves DEF LockPullStreamIfNeeded, Moved
    <3>2. ASSUME NEW q \in Requests, Pulling(q)' PROVE pulling'[want[q]] = q
      <4>1. want[r] \in Names /\ want[q] \in Names /\ pulling \in [Names -> Requests \cup {None}]
        BY DEF TypeInv, Data
      <4>2. CASE q = r
        BY <3>1, <4>1, <4>2
      <4>3. CASE q # r
        <5>1. pulling[want[q]] = q
          BY <1>i, <3>1, <3>2, <4>3 DEF LockInv, Pulling
        <5> QED
          BY <3>1, <4>1, <5>1
      <4> QED
        BY <4>2, <4>3
    <3>3. ASSUME NEW q \in Requests PROVE Named(q)'
      <4>1. CASE q = r
        BY <3>1, <4>1 DEF Named, Deleting
      <4>2. CASE q # r
        BY <1>c, <1>i, <3>1, <4>2, NamedKept
      <4> QED
        BY <4>1, <4>2
    <3>4. LockInv' /\ OnePerName'
      BY <1>c, <1>i, <3>1, <3>2 DEF LockInv, OnePerName
    <3> QED
      BY <3>3, <3>4 DEF PullInv
  <2>2. CASE UnlockPullStreamIfNeeded(r)
    <3>1. /\ pulling' = [pulling EXCEPT ![want[r]] = None]
          /\ streams' = streams /\ name' = name /\ pc[r] = "unlock"
          /\ pc'[r] = "done" /\ \A q \in Requests : q # r => pc'[q] = pc[q] /\ target'[q] = target[q]
      BY <2>2, PullMoves DEF UnlockPullStreamIfNeeded, Moved
    <3>2. ASSUME NEW q \in Requests, Pulling(q)' PROVE pulling'[want[q]] = q
      <4>1. want[r] \in Names /\ want[q] \in Names /\ pulling \in [Names -> Requests \cup {None}]
        BY DEF TypeInv, Data
      <4>2. q # r /\ Pulling(q) /\ Pulling(r)
        BY <3>1, <3>2 DEF Pulling
      <4>3. want[q] # want[r] /\ pulling[want[q]] = q
        BY <1>i, <4>2, OnePulls DEF LockInv
      <4> QED
        BY <3>1, <4>1, <4>3
    <3>3. ASSUME NEW q \in Requests PROVE Named(q)'
      <4>1. CASE q = r
        BY <3>1, <4>1 DEF Named, Deleting
      <4>2. CASE q # r
        BY <1>c, <1>i, <3>1, <4>2, NamedKept
      <4> QED
        BY <4>1, <4>2
    <3>4. LockInv' /\ OnePerName'
      BY <1>c, <1>i, <3>1, <3>2 DEF LockInv, OnePerName
    <3> QED
      BY <3>3, <3>4 DEF PullInv
  <2>3. CASE FindStream(r)
    <3>1. pc[r] = "find" /\ streams' = streams /\ name' = name /\ pulling' = pulling
      BY <2>3 DEF FindStream
    <3>2. CASE (\A s \in streams : name[s] # want[r]) /\ Moved(r, "create", target[r], motor[r])
      <4>1. Named(r)' /\ Pulling(r)
        BY <1>c, <3>1, <3>2 DEF Named, Pulling, Moved, Deleting
      <4> QED
        BY <1>c, <2>h, <3>1, <3>2, <4>1, PullFrame
    <3>3. ASSUME NEW s \in streams, name[s] = want[r], NEW step \in {"delFind", "unlock"},
                 Moved(r, step, s, motor[r])
          PROVE  PullInv'
      <4>1. \A u \in streams : name[u] = want[r] => u = s
        BY <1>i, <3>3 DEF OnePerName
      <4>2. Named(r)' /\ Pulling(r)
        BY <1>c, <3>1, <3>3, <4>1 DEF Named, Pulling, Moved, Deleting
      <4> QED
        BY <1>c, <2>h, <3>1, <3>3, <4>2, PullFrame
    <3> QED
      BY <2>3, <3>2, <3>3, PullMoves
  <2>4. CASE StartStream(r)
    <3>1. /\ pc[r] = "create" /\ streams' = streams /\ pulling' = pulling
          /\ name' = [name EXCEPT ![issued + 1] = want[r]] /\ issued' = issued + 1
          /\ issued + 1 \in Streams
      BY <2>4, PullMoves DEF StartStream
    <3>2. PICK step, s :
             /\ Moved(r, step, s, motor[r])
             /\ step = "unlock" \/ (step = "add" /\ s = issued')
      BY <2>4, PullMoves
    <3>3. name'[issued'] = want[r] /\ \A u \in 1..issued : name'[u] = name[u]
      BY <3>1 DEF TypeInv, Data
    <3>4. \A u \in streams : name'[u] = name[u] /\ name[u] # want[r]
      BY <1>i, <3>1, <3>3 DEF TypeInv, Data, Named
    <3>5. Named(r)' /\ Pulling(r)
      BY <1>c, <3>1, <3>2, <3>3, <3>4 DEF Named, Pulling, Moved, Deleting
    <3>6. ASSUME NEW q \in Requests, q # r PROVE Named(q)'
      <4>1. pc'[q] = pc[q] /\ target'[q] = target[q]
        BY <3>2, <3>6 DEF Moved
      <4>2. pc[q] = "add" => target[q] \in 1..issued
        BY HasWhat DEF Targeting
      <4> QED
        BY <1>c, <1>i, <3>1, <3>3, <3>4, <4>1, <4>2 DEF Named
    <3>7. \A q \in Requests : Pulling(q)' => Pulling(q)
      BY <3>2, <3>5 DEF Pulling, Moved
    <3>8. LockInv' /\ OnePerName'
      BY <1>c, <1>i, <3>1, <3>4, <3>7 DEF LockInv, OnePerName
    <3> QED
      BY <3>5, <3>6, <3>8 DEF PullInv
  <2>5. CASE AddStream(r)
    <3>1. pc[r] = "add" /\ name' = name /\ pulling' = pulling /\ Pulling(r)
      BY <2>5 DEF AddStream, Pulling
    <3>2. CASE Moved(r, "unlock", target[r], motor[r]) /\ streams' = streams
      <4>1. Named(r)'
        BY <3>2 DEF Named, Moved, Deleting
      <4> QED
        BY <1>c, <2>h, <3>1, <3>2, <4>1, PullFrame
    <3>3. CASE Moved(r, "findMotor", target[r], motor[r]) /\ streams' = streams \cup {target[r]}
      <4>1. /\ name[target[r]] = want[r] /\ \A u \in streams : name[u] # want[r]
            /\ pc'[r] = "findMotor"
            /\ \A q \in Requests : q # r => pc'[q] = pc[q] /\ target'[q] = target[q]
        BY <1>i, <3>1, <3>3 DEF Named, Moved
      <4>2. ASSUME NEW q \in Requests PROVE Named(q)'
        <5>1. CASE q = r
          BY <4>1, <5>1 DEF Named, Deleting
        <5>2. CASE q # r /\ Pulling(q)
          <6>1. want[q] # want[r]
            BY <1>i, <3>1, <5>2, OnePulls
          <6> QED
            BY <1>c, <1>i, <3>1, <3>3, <4>1, <5>2, <6>1 DEF Named
        <5>3. CASE q # r /\ ~Pulling(q)
          BY <4>1, <5>3 DEF Named, Pulling, Deleting
        <5> QED
          BY <5>1, <5>2, <5>3
      <4>3. \A q \in Requests : Pulling(q)' => Pulling(q)
        BY <3>1, <4>1 DEF Pulling
      <4>4. LockInv' /\ OnePerName'
        BY <1>c, <1>i, <3>1, <3>3, <4>1, <4>3 DEF LockInv, OnePerName
      <4> QED
        BY <4>2, <4>4 DEF PullInv
    <3> QED
      BY <2>5, <3>2, <3>3, PullMoves
  <2>6. CASE CreateStreamMotorInternal(r)
    <3>1. /\ Moved(r, "join", target[r], target[r]) /\ pc[r] = "makeMotor"
          /\ streams' = streams /\ name' = name /\ pulling' = pulling
      BY <2>6, PullMoves DEF CreateStreamMotorInternal
    <3>2. Named(r)' /\ Pulling(r)
      BY <3>1 DEF Named, Pulling, Moved, Deleting
    <3> QED
      BY <1>c, <2>h, <3>1, <3>2, PullFrame
  <2> QED
    BY <1>r, <2>1, <2>2, <2>3, <2>4, <2>5, <2>6 DEF PullStream
<1>m. ASSUME NEW t \in Threads, MotorStep(t) PROVE PullInv'
  <2>1. streams' = streams /\ name' = name /\ pulling' = pulling
    BY <1>m DEF MotorStep, FindMotor, JoinMotor, AddStreamToEpoll
  <2>2. pc[t] \in {"findMotor", "resumed", "join", "arm"}
    BY <1>m DEF MotorStep, FindMotor, JoinMotor, AddStreamToEpoll
  <2>4. PICK step, s, m :
          step \in {"join", "makeMotor", "scan", "arm", "unlock"} /\ Moved(t, step, s, m)
    BY <1>m, MotorMoves DEF MotorStep
  <2>5. t \in Requests => Named(t)' /\ Pulling(t)
    BY <2>2, <2>4 DEF Named, Pulling, Moved, Deleting
  <2> QED
    BY <1>c, <2>1, <2>4, <2>5, PullFrame
<1>d. ASSUME NEW t \in Threads, DeleteStream(t) PROVE PullInv'
  <2>1. name' = name /\ pulling' = pulling /\ streams' \subseteq streams /\ pc[t] \in Deleting
    BY <1>d
    DEF DeleteStream, DeleteFindsMotor, DelStream, CountStreams, StopMotor, EraseMotor,
        EraseStream, StopStream, Deleting
  <2>2. CASE EraseStream(t)
    <3>1. streams' = streams \ {target[t]} /\ pc[t] = "erase"
      BY <2>2 DEF EraseStream
    <3>2. PICK step, s, m :
            /\ Moved(t, step, s, m)
            /\ step = "stop" \/ step = IF t = Collector THEN "scan" ELSE "create"
      BY <2>2, DeleteMoves
    <3>3. t \in Requests => Named(t)' /\ Pulling(t)
      BY <1>c, <1>i, <2>1, <3>1, <3>2 DEF Named, Pulling, Moved, Deleting
    <3> QED
      BY <1>c, <2>1, <3>2, <3>3, PullFrame
  <2>3. CASE StopStream(t)
    <3>1. /\ Moved(t, IF t = Collector THEN "scan" ELSE "create", None, None)
          /\ streams' = streams /\ pc[t] = "stop"
      BY <2>3, DeleteMoves DEF StopStream
    <3>2. t \in Requests => Named(t)' /\ Pulling(t)
      BY <1>c, <1>i, <2>1, <3>1 DEF Named, Pulling, Moved, Deleting
    <3> QED
      BY <1>c, <2>1, <3>1, <3>2, PullFrame
  <2>4. CASE ~EraseStream(t) /\ ~StopStream(t)
    <3>1. PICK step, m : step \in Deleting \ {"stop"} /\ Moved(t, step, target[t], m)
      BY <1>d, <2>4, DeleteMoves DEF DeleteStream, Deleting
    <3>2. pc[t] # "stop" /\ streams' = streams
      BY <1>d, <2>4
      DEF DeleteStream, DeleteFindsMotor, DelStream, CountStreams, StopMotor, EraseMotor
    <3>3. t \in Requests => Named(t)' /\ Pulling(t)
      BY <1>c, <1>i, <2>1, <3>1, <3>2 DEF Named, Pulling, Moved, Deleting
    <3> QED
      BY <1>c, <2>1, <3>1, <3>3, PullFrame
  <2> QED
    BY <2>2, <2>3, <2>4
<1>w. ASSUME WhiteElephantStreamCollector PROVE PullInv'
  <2>1. name' = name /\ pulling' = pulling /\ streams' = streams
    BY <1>w DEF WhiteElephantStreamCollector, Collect, EndOfScan, Scan, NoInput, Resume
  <2>2. CASE NoInput
    BY <1>u, <2>1, <2>2, CollectorMoves
  <2>3. CASE ~NoInput
    <3>1. \E step, s, m : Moved(Collector, step, s, m)
      BY <1>w, <2>3, CollectorMoves DEF WhiteElephantStreamCollector
    <3> QED
      BY <1>c, <2>1, <3>1, PullFrame
  <2> QED
    BY <2>2, <2>3
<1>o. ASSUME (\E m \in running : MotorEvent(m)) \/ (\E s \in Streams : Terminate(s))
             \/ OriginDies \/ UNCHANGED vars
      PROVE  UNCHANGED <<pc, target, pulling, streams, name>>
  BY <1>o DEF MotorEvent, Terminate, OriginDies, vars
<1> QED
  BY <1>r, <1>m, <1>d, <1>u, <1>w, <1>o DEF Next

\* However many clients ask for a stream at once, the application has one stream of a
\* name (LockPullStreamIfNeeded, PullStream).
THEOREM OneStreamPerName == Spec => []OnePerName
<1>1. Init => PullInv
  <2> SUFFICES ASSUME Init PROVE PullInv
    OBVIOUS
  <2>1. streams = {} /\ \A r \in Requests : pc[r] = "lock"
    BY Facts DEF Init
  <2> QED
    BY <2>1 DEF PullInv, LockInv, Pulling, Named, OnePerName
<1>2. TypeInv /\ PullInv /\ [Next]_vars => (TypeInv /\ PullInv)'
  BY TypeStep, PullStep
<1>3. PullInv => OnePerName
  BY DEF PullInv
<1> QED
  BY <1>1, <1>2, <1>3, TypeInit, PTL DEF Spec

-----------------------------------------------------------------------------
(* The motor of a stream *)

LEMMA OneCreatorStep == TypeInv /\ OneCreator /\ [Next]_vars => OneCreator'
<1> SUFFICES ASSUME TypeInv, OneCreator, [Next]_vars PROVE OneCreator'
  OBVIOUS
<1> USE Facts DEF request, stream, motors
<1>k. ASSUME \A r \in Requests, s \in Streams : Creates(r, s)' => Creates(r, s)
      PROVE  OneCreator'
  BY <1>k DEF OneCreator
<1>f. ASSUME NEW t \in Threads, NEW step, NEW x, NEW m, Moved(t, step, x, m),
             t \in Requests /\ step \in Creating => pc[t] \in Creating /\ x = target[t]
      PROVE  OneCreator'
  <2>1. ASSUME NEW r \in Requests, NEW s \in Streams, Creates(r, s)' PROVE Creates(r, s)
    BY <1>f, <2>1 DEF Creates, Moved
  <2> QED
    BY <1>k, <2>1
<1>r. ASSUME NEW r \in Requests, PullStream(r) PROVE OneCreator'
  <2>1. CASE StartStream(r)
    <3>1. PICK step, x :
            /\ Moved(r, step, x, motor[r])
            /\ step \in Creating => x = issued + 1
      BY <2>1, PullMoves DEF Creating
    <3>2. ASSUME NEW q \in Requests, NEW s \in Streams, Creates(q, s)', q # r
          PROVE  Creates(q, s) /\ s \in 1..issued
      BY <3>1, <3>2, HasWhat DEF Creates, Moved, Creating, Targeting
    <3>3. issued + 1 \notin 1..issued
      BY DEF TypeInv, Data
    <3>4. \A s \in Streams : Creates(r, s)' => s = issued + 1
      BY <3>1 DEF Creates, Moved
    <3> QED
      BY <3>2, <3>3, <3>4 DEF OneCreator
  <2>2. CASE ~StartStream(r)
    <3>1. PICK step, x, m :
            /\ Moved(r, step, x, m)
            /\ step \in Creating => pc[r] \in Creating /\ x = target[r]
      BY <1>r, <2>2, PullMoves DEF PullStream, Creating
    <3> QED
      BY <1>f, <3>1
  <2> QED
    BY <2>1, <2>2
<1>m. ASSUME NEW t \in Threads, MotorStep(t) PROVE OneCreator'
  <2>1. PICK step, x, m :
          /\ Moved(t, step, x, m)
          /\ step \in Creating => pc[t] \in Creating /\ x = target[t]
    BY <1>m, MotorMoves DEF MotorStep, Creating
  <2> QED
    BY <1>f, <2>1
<1>d. ASSUME NEW t \in Threads, DeleteStream(t) PROVE OneCreator'
  <2>1. PICK step, x, m : Moved(t, step, x, m) /\ step \notin Creating
    BY <1>d, DeleteMoves DEF DeleteStream, Creating
  <2> QED
    BY <1>f, <2>1
<1>w. ASSUME WhiteElephantStreamCollector PROVE OneCreator'
  <2>1. CASE NoInput
    BY <1>k, <2>1, CollectorMoves DEF Creates
  <2>2. CASE ~NoInput
    <3>1. PICK step, x, m : Moved(Collector, step, x, m)
      BY <1>w, <2>2, CollectorMoves DEF WhiteElephantStreamCollector
    <3> QED
      BY <1>f, <3>1
  <2> QED
    BY <2>1, <2>2
<1>o. ASSUME (\E m \in running : MotorEvent(m)) \/ (\E s \in Streams : Terminate(s))
             \/ OriginDies \/ UNCHANGED vars
      PROVE  UNCHANGED <<pc, target>>
  BY <1>o DEF MotorEvent, Terminate, OriginDies, vars
<1> QED
  BY <1>k, <1>r, <1>m, <1>d, <1>w, <1>o DEF Next, Creates

\* A thread moves on and leaves the motor of s alone, or takes from the table one that
\* does not run.
LEMMA OwnFrame ==
  ASSUME TypeInv, NEW s \in 1..issued, OwnInv(s),
         NEW t \in Threads, NEW step, NEW x, NEW m, Moved(t, step, x, m),
         s \in running' => s \in running,
         \/ Has(s)' = Has(s)
         \/ Has(s)' = None /\ s \notin running /\ Attends(t, s)',
         (step \in Creating /\ x = s /\ t \in Requests) => Creates(t, s),
         m = s => motor[t] = s \/ Has(s) # None,
         step = "eraseMotor" /\ x = s => s \notin running',
         s \in streams' => \/ Attends(t, s)'
                           \/ s \in streams /\ ~Attends(t, s)
                           \/ Has(s)' # None
  PROVE  OwnInv(s)'
<1> USE DEF Moved
<1>1. s \in running' => Has(s)' = s
  BY DEF OwnInv
<1>2. ASSUME NEW r \in Requests, Creates(r, s)'
      PROVE  Has(s)' = None /\ s \notin running' /\ \A u \in Threads : motor'[u] # s
  <2>1. Creates(r, s)
    <3>1. CASE r = t
      <4>1. step \in Creating /\ x = s /\ t \in Requests
        BY <1>2, <3>1 DEF Creates
      <4> QED
        BY <3>1, <4>1
    <3>2. CASE r # t
      BY <1>2, <3>2, Facts DEF Creates
    <3> QED
      BY <3>1, <3>2
  <2>2. Has(s) = None /\ s \notin running /\ \A u \in Threads : motor[u] # s
    BY <2>1 DEF OwnInv
  <2> QED
    BY <2>2
<1>3. ASSUME NEW u \in Threads, pc'[u] = "eraseMotor", target'[u] = s PROVE s \notin running'
  BY <1>3 DEF OwnInv
<1>4. ASSUME s \in streams', Has(s)' = None PROVE \E u \in Threads : Attends(u, s)'
  <2>1. CASE s \in streams /\ ~Attends(t, s) /\ Has(s) = None
    <3>1. PICK u \in Threads : Attends(u, s)
      BY <2>1 DEF OwnInv
    <3>2. u # t
      BY <2>1, <3>1
    <3>3. Attends(u, s)'
      BY <3>1, <3>2 DEF Attends
    <3> QED
      BY <3>3
  <2> QED
    BY <1>4, <2>1
<1> QED
  BY <1>1, <1>2, <1>3, <1>4 DEF OwnInv

\* A stream whose motor nobody touches: the thread neither begins nor ends to attend to it.
LEMMA OwnQuiet ==
  ASSUME TypeInv, NEW s \in 1..issued, OwnInv(s), MotorId' = MotorId,
         NEW t \in Threads, NEW step, NEW x, Moved(t, step, x, motor[t]),
         UNCHANGED <<running, listed, streams>>,
         step \in Creating /\ x = s => pc[t] \in Creating /\ target[t] = s,
         step # "eraseMotor",
         Attends(t, s) => Attends(t, s)'
  PROVE  OwnInv(s)'
<1>1. Has(s)' = Has(s)
  BY DEF Has
<1>2. (step \in Creating /\ x = s /\ t \in Requests) => Creates(t, s)
  BY DEF Creates
<1> QED
  BY <1>1, <1>2, OwnFrame

\* Only one stream has the motor id of s.
LEMMA OwnIs ==
  ASSUME TypeInv, NEW s \in 1..issued, Own(s), NEW x \in 1..issued,
         MotorId[x] = MotorId[s]
  PROVE  x = s
BY DEF Own

\* The motor of x leaves the table or enters it.
LEMMA HasElse ==
  ASSUME TypeInv, MotorId' = MotorId, NEW s \in 1..issued, NEW x \in 1..issued, NEW m,
         listed' = [listed EXCEPT ![GetStreamMotorId(x)] = m]
  PROVE  Has(s)' = IF MotorId[s] = MotorId[x] THEN m ELSE Has(s)
<1>1. /\ GetStreamMotorId(x) = MotorId[x]
      /\ MotorId[x] \in 0..(motorCount - 1) /\ MotorId[s] \in 0..(motorCount - 1)
  BY IdFacts, HasWhat DEF TypeInv, Data
<1>2. listed \in [0..(motorCount - 1) -> Streams \cup {None}]
  BY DEF TypeInv, Data
<1>3. PICK D, i, j : D = 0..(motorCount - 1) /\ i = MotorId[x] /\ j = MotorId[s]
  OBVIOUS
<1>4. i \in D /\ j \in D /\ listed \in [D -> Streams \cup {None}] /\ listed' = [listed EXCEPT ![i] = m]
  BY <1>1, <1>2, <1>3
<1>5. listed'[j] = IF j = i THEN m ELSE listed[j]
  BY <1>4
<1> QED
  BY <1>3, <1>5 DEF Has

\* A request makes the motor of s.
LEMMA OwnMade ==
  ASSUME TypeInv, OneCreator, MotorId' = MotorId, NEW s \in 1..issued, Own(s), OwnInv(s),
         NEW r \in Requests, CreateStreamMotorInternal(r), target[r] = s
  PROVE  OwnInv(s)'
<1> USE Facts
<1>1. /\ pc[r] = "makeMotor" /\ Moved(r, "join", s, s) /\ s \in Streams /\ s # None
      /\ r \in Threads
  BY PullMoves, HasWhat
<1>2. Creates(r, s)
  BY <1>1 DEF Creates, Creating
<1>3. Has(s) = None /\ s \notin running /\ \A t \in Threads : motor[t] # s
  BY <1>2 DEF OwnInv
<1>4. Has(s)' = s
  <2>1. MotorOf(s) = Has(s)
    BY IdFacts, HasWhat DEF TypeInv, Data, Has
  <2>2. listed' = [listed EXCEPT ![GetStreamMotorId(s)] = s]
    BY <1>3, <2>1 DEF CreateStreamMotorInternal
  <2> QED
    BY <2>2, HasElse
<1>5. ASSUME NEW q \in Requests, Creates(q, s)' PROVE FALSE
  <2>1. q # r
    BY <1>1, <1>5 DEF Creates, Creating, Moved
  <2>2. Creates(q, s)
    BY <1>1, <1>5, <2>1 DEF Creates, Moved
  <2> QED
    BY <1>1, <1>2, <2>1, <2>2 DEF OneCreator
<1>6. ASSUME NEW t \in Threads, pc'[t] = "eraseMotor", target'[t] = s PROVE FALSE
  <2>1. t # r /\ pc[t] = "eraseMotor" /\ target[t] = s
    BY <1>1, <1>6 DEF Moved
  <2>2. motor[t] \in 1..issued /\ MotorId[motor[t]] = MotorId[s]
    BY <2>1, HasWhat DEF Holding
  <2>3. motor[t] = s
    BY <2>2, OwnIs
  <2> QED
    BY <1>3, <2>3
<1> QED
  BY <1>1, <1>4, <1>5, <1>6 DEF OwnInv

LEMMA OwnPull ==
  ASSUME TypeInv, OneCreator, MotorId' = MotorId, NEW s \in 1..issued, Own(s), OwnInv(s),
         NEW r \in Requests, PullStream(r)
  PROVE  OwnInv(s)'
<1> USE Facts DEF request, stream, motors
<1>1. CASE LockPullStreamIfNeeded(r)
  <2>1. UNCHANGED <<running, listed, streams>> /\ pc[r] = "lock" /\ Moved(r, "find", target[r], motor[r])
    BY <1>1, PullMoves DEF LockPullStreamIfNeeded
  <2>2. ~Attends(r, s)
    BY <2>1 DEF Attends, Deleting
  <2> QED
    BY <2>1, <2>2, OwnQuiet DEF Creating
<1>2. CASE UnlockPullStreamIfNeeded(r)
  <2>1. UNCHANGED <<running, listed, streams>> /\ pc[r] = "unlock" /\ Moved(r, "done", None, None)
    BY <1>2, PullMoves DEF UnlockPullStreamIfNeeded
  <2>2. ~Attends(r, s) /\ motor[r] = None
    BY <2>1, HasWhat DEF Attends, Deleting, Holding
  <2> QED
    BY <2>1, <2>2, OwnQuiet DEF Creating
<1>3. CASE FindStream(r)
  <2>1. PICK step, x :
          /\ step \in {"create", "delFind", "unlock"} /\ Moved(r, step, x, motor[r])
          /\ UNCHANGED <<running, listed, streams>> /\ pc[r] = "find"
    BY <1>3, PullMoves DEF FindStream
  <2>2. ~Attends(r, s)
    BY <2>1 DEF Attends, Deleting
  <2> QED
    BY <2>1, <2>2, OwnQuiet DEF Creating
<1>4. CASE StartStream(r)
  <2>1. UNCHANGED <<running, listed, streams>> /\ pc[r] = "create"
    BY <1>4, PullMoves DEF StartStream
  <2>2. ~Attends(r, s)
    BY <2>1 DEF Attends, Deleting
  <2>3. issued' # s
    BY <1>4 DEF StartStream, TypeInv, Data
  <2>4. CASE Moved(r, "add", issued', motor[r])
    BY <2>1, <2>2, <2>3, <2>4, OwnQuiet
  <2>5. CASE Moved(r, "unlock", target[r], motor[r])
    BY <2>1, <2>2, <2>5, OwnQuiet DEF Creating
  <2> QED
    BY <1>4, <2>4, <2>5, PullMoves
<1>5. CASE AddStream(r)
  <2>1. UNCHANGED <<running, listed>> /\ pc[r] = "add"
    BY <1>5 DEF AddStream
  <2>2. ~Attends(r, s) /\ Has(s)' = Has(s)
    BY <2>1 DEF Attends, Deleting, Has
  <2>3. CASE Moved(r, "findMotor", target[r], motor[r]) /\ streams' = streams \cup {target[r]}
    <3>1. target[r] = s => Creates(r, s) /\ Attends(r, s)'
      BY <2>1, <2>3 DEF Creates, Creating, Attends, Moved
    <3>2. s \in streams' => Attends(r, s)' \/ (s \in streams /\ ~Attends(r, s))
      BY <2>2, <2>3, <3>1
    <3> QED
      BY <2>1, <2>2, <2>3, <3>1, <3>2, OwnFrame
  <2>4. CASE Moved(r, "unlock", target[r], motor[r]) /\ streams' = streams
    BY <2>1, <2>2, <2>4, OwnQuiet DEF Creating
  <2> QED
    BY <1>5, <2>3, <2>4, PullMoves
<1>6. CASE CreateStreamMotorInternal(r)
  <2>1. CASE target[r] = s
    BY <1>6, <2>1, OwnMade
  <2>2. CASE target[r] # s
    <3>1. PICK x \in 1..issued : x = target[r]
      BY <1>6, PullMoves
    <3>2. Moved(r, "join", x, x) /\ x # s /\ streams' = streams /\ running' = running \cup {x}
      BY <1>6, <2>2, <3>1, PullMoves DEF CreateStreamMotorInternal
    <3>3. MotorId[x] # MotorId[s]
      BY <3>2, OwnIs
    <3>4. Has(s)' = Has(s)
      <4>1. listed' = [listed EXCEPT ![GetStreamMotorId(x)] = x] \/ listed' = listed
        BY <1>6, <3>1 DEF CreateStreamMotorInternal
      <4> QED
        BY <3>3, <4>1, HasElse DEF Has
    <3>5. ~Attends(r, s)
      BY <2>2 DEF Attends
    <3> QED
      BY <3>2, <3>4, <3>5, OwnFrame DEF Creating
  <2> QED
    BY <2>1, <2>2
<1> QED
  BY <1>1, <1>2, <1>3, <1>4, <1>5, <1>6 DEF PullStream

LEMMA OwnMotorStep ==
  ASSUME TypeInv, MotorId' = MotorId, NEW s \in 1..issued, Own(s), OwnInv(s),
         NEW t \in Threads, MotorStep(t)
  PROVE  OwnInv(s)'
<1> USE Facts DEF request, stream, motors
<1>q. UNCHANGED <<running, listed, streams>> /\ Has(s)' = Has(s)
  BY DEF MotorStep, FindMotor, JoinMotor, AddStreamToEpoll, Has
<1>1. CASE FindMotor(t)
  <2>1. PICK x \in 1..issued : x = target[t]
    BY <1>1, MotorMoves
  <2>2. CASE Has(x) # None /\ Moved(t, "join", x, Has(x))
    <3>1. Has(x) = s => Has(s) # None
      BY <2>2, HasWhat DEF Has
    <3>2. Attends(t, s) => Has(s) # None
      BY <2>1, <2>2 DEF Attends
    <3> QED
      BY <1>q, <2>2, <3>1, <3>2, OwnFrame DEF Creating
  <2>3. CASE pc[t] = "findMotor" /\ Moved(t, "makeMotor", x, motor[t])
    <3>1. Attends(t, s) => Attends(t, s)'
      BY <2>1, <2>3 DEF Attends, Moved
    <3> QED
      BY <1>q, <2>1, <2>3, <3>1, OwnQuiet DEF Creating
  <2>4. CASE pc[t] = "resumed" /\ t = Collector /\ Moved(t, "scan", None, None)
    <3>1. ~Attends(t, s) /\ motor[t] = None
      BY <2>4, HasWhat DEF Attends, Deleting, Holding
    <3> QED
      BY <1>q, <2>4, <3>1, OwnQuiet DEF Creating
  <2> QED
    BY <1>1, <2>1, <2>2, <2>3, <2>4, MotorMoves
<1>2. CASE JoinMotor(t)
  <2>1. pc[t] = "join" /\ Moved(t, "arm", target[t], motor[t])
    BY <1>2, MotorMoves
  <2>2. ~Attends(t, s)
    BY <2>1 DEF Attends, Deleting
  <2> QED
    BY <1>q, <2>1, <2>2, OwnQuiet DEF Creating
<1>3. CASE AddStreamToEpoll(t)
  <2>1. PICK step \in {"scan", "unlock"} : pc[t] = "arm" /\ Moved(t, step, None, None)
    BY <1>3, MotorMoves
  <2>2. ~Attends(t, s)
    BY <2>1 DEF Attends, Deleting
  <2>3. s # None
    BY HasWhat
  <2> QED
    BY <1>q, <2>1, <2>2, <2>3, OwnFrame DEF Creating
<1> QED
  BY <1>1, <1>2, <1>3 DEF MotorStep

LEMMA OwnCollector ==
  ASSUME TypeInv, MotorId' = MotorId, NEW s \in 1..issued, OwnInv(s),
         Collect \/ EndOfScan \/ Scan \/ Resume
  PROVE  OwnInv(s)'
<1> USE Facts DEF request, stream, motors
<1>q. UNCHANGED <<running, listed, streams>>
  BY DEF Collect, EndOfScan, Scan, Resume
<1>1. pc[Collector] \in {"idle", "scan", "resume"}
  BY DEF Collect, EndOfScan, Scan, Resume
<1>2. motor[Collector] = None /\ ~Attends(Collector, s)
  BY <1>1, HasWhat DEF Attends, Deleting, Holding
<1>3. PICK step, x :
        /\ step \in {"idle", "scan", "resume", "delFind", "resumed"}
        /\ Moved(Collector, step, x, None)
  BY <1>2, CollectorMoves
<1> QED
  BY <1>q, <1>2, <1>3, OwnQuiet DEF Creating

LEMMA OwnDelete ==
  ASSUME TypeInv, MotorId' = MotorId, NEW s \in 1..issued, Own(s), OwnInv(s),
         NEW t \in Threads, DeleteStream(t)
  PROVE  OwnInv(s)'
<1> USE Facts DEF request, stream, motors
<1>s. s # None
  BY HasWhat
<1>1. CASE DeleteFindsMotor(t)
  <2>1. PICK x \in 1..issued : x = target[t]
    BY <1>1, DeleteMoves
  <2>2. /\ pc[t] = "delFind" /\ UNCHANGED <<running, listed, streams>>
        /\ Moved(t, IF Has(x) = None THEN "erase" ELSE "delStream", x, Has(x))
    BY <1>1, <2>1, DeleteMoves DEF DeleteFindsMotor
  <2>3. Has(s)' = Has(s) /\ (Has(x) = s => Has(s) # None)
    BY <1>s, <2>2, HasWhat DEF Has
  <2>4. x = s => Attends(t, s)'
    BY <2>2 DEF Attends, Deleting, Moved
  <2>5. x # s => ~Attends(t, s)
    BY <2>1 DEF Attends
  <2> QED
    BY <2>2, <2>3, <2>4, <2>5, OwnFrame DEF Creating
<1>2. CASE DelStream(t) \/ CountStreams(t)
  <2>1. PICK step, m :
          /\ step \in {"count", "stopMotor", "erase"} /\ Moved(t, step, target[t], m)
          /\ m = motor[t] \/ m = None
          /\ pc[t] \in {"delStream", "count"} /\ UNCHANGED <<running, listed, streams>>
    BY <1>2, DeleteMoves DEF DelStream, CountStreams
  <2>2. Has(s)' = Has(s) /\ (Attends(t, s) => Attends(t, s)')
    BY <2>1 DEF Has, Attends, Deleting, Moved
  <2> QED
    BY <1>s, <2>1, <2>2, OwnFrame DEF Creating
<1>3. CASE StopMotor(t)
  <2>1. /\ pc[t] = "stopMotor" /\ Moved(t, "eraseMotor", target[t], motor[t])
        /\ running' = running \ {motor[t]} /\ UNCHANGED <<listed, streams>>
    BY <1>3, DeleteMoves DEF StopMotor
  <2>2. target[t] = s => s \notin running'
    <3>1. motor[t] \in 1..issued /\ (target[t] = s => MotorId[motor[t]] = MotorId[s])
      BY <2>1, HasWhat DEF Holding
    <3> QED
      BY <2>1, <3>1, OwnIs
  <2>3. Has(s)' = Has(s) /\ (Attends(t, s) => Attends(t, s)')
    BY <2>1 DEF Has, Attends, Deleting, Moved
  <2> QED
    BY <2>1, <2>2, <2>3, OwnFrame DEF Creating
<1>4. CASE EraseMotor(t)
  <2>1. /\ pc[t] = "eraseMotor" /\ Moved(t, "erase", target[t], None)
        /\ UNCHANGED <<running, streams>>
        /\ listed' = [listed EXCEPT ![GetStreamMotorId(target[t])] = None]
    BY <1>4, DeleteMoves DEF EraseMotor
  <2>2. PICK x \in 1..issued : x = target[t]
    BY <2>1, HasWhat DEF Holding
  <2>3. Has(s)' = IF MotorId[s] = MotorId[x] THEN None ELSE Has(s)
    BY <2>1, <2>2, HasElse
  <2>4. x = s => Attends(t, s)' /\ s \notin running
    BY <2>1, <2>2 DEF Attends, Deleting, Moved, OwnInv
  <2>5. MotorId[s] = MotorId[x] => x = s
    BY OwnIs
  <2>6. x # s => ~Attends(t, s)
    BY <2>2 DEF Attends
  <2> QED
    BY <1>s, <2>1, <2>2, <2>3, <2>4, <2>5, <2>6, OwnFrame DEF Creating
<1>5. CASE EraseStream(t)
  <2>1. /\ pc[t] = "erase" /\ UNCHANGED <<running, listed>> /\ streams' = streams \ {target[t]}
        /\ motor[t] = None
    BY <1>5, HasWhat DEF EraseStream, Holding
  <2>2. PICK step, x :
          step \in {"stop", "scan", "create"} /\ Moved(t, step, x, None)
    BY <1>5, <2>1, DeleteMoves
  <2>3. Has(s)' = Has(s) /\ (s \in streams' => s \in streams /\ ~Attends(t, s))
    BY <2>1 DEF Has, Attends
  <2> QED
    BY <1>s, <2>1, <2>2, <2>3, OwnFrame DEF Creating
<1>6. CASE StopStream(t)
  <2>1. /\ pc[t] = "stop" /\ UNCHANGED <<running, listed, streams>>
        /\ motor[t] = None
    BY <1>6, HasWhat DEF StopStream, Holding
  <2>2. PICK step : step \in {"scan", "create"} /\ Moved(t, step, None, None)
    BY <1>6, <2>1, DeleteMoves
  <2>3. ~Attends(t, s)
    BY <2>1 DEF Attends, Deleting
  <2> QED
    BY <2>1, <2>2, <2>3, OwnQuiet DEF Creating
<1> QED
  BY <1>1, <1>2, <1>3, <1>4, <1>5, <1>6 DEF DeleteStream

\* A stream that has just been issued has no motor, and nobody but its request knows it.
LEMMA OwnNew ==
  ASSUME TypeInv, MotorId' = MotorId, NEW r \in Requests, StartStream(r),
         NEW s, s = issued + 1, Own(s)'
  PROVE  OwnInv(s)'
<1> USE Facts DEF request, stream, motors
<1>1. /\ issued \in Nat /\ s \in Streams /\ s \notin 1..issued /\ issued' = s
      /\ s \notin running /\ s \notin streams
      /\ UNCHANGED <<running, listed, streams, motor>>
  BY DEF StartStream, TypeInv, Data
<1>2. Has(s)' = None
  <2>1. Has(s)' = Has(s) /\ MotorId[s] \in 0..(motorCount - 1)
    BY <1>1, IdFacts DEF Has, TypeInv, Data
  <2>2. Has(s) # None => Has(s) \in 1..issued /\ MotorId[Has(s)] = MotorId[s]
    BY <2>1 DEF Has, TypeInv, Data
  <2>3. ASSUME NEW x \in 1..issued PROVE MotorId[x] # MotorId[s]
    <3>1. x \in 1..issued' /\ x # s
      BY <1>1
    <3> QED
      BY <3>1 DEF Own
  <2> QED
    BY <2>1, <2>2, <2>3
<1>3. \A t \in Threads : motor[t] # s
  BY <1>1, HasWhat
<1>4. ASSUME NEW t \in Threads, pc'[t] = "eraseMotor", target'[t] = s PROVE FALSE
  <2>1. t # r
    BY <1>4, PullMoves DEF Moved
  <2>2. pc[t] = "eraseMotor" /\ target[t] = s
    BY <1>4, <2>1, PullMoves DEF Moved
  <2> QED
    BY <1>1, <2>2, HasWhat DEF Holding
<1> QED
  BY <1>1, <1>2, <1>3, <1>4 DEF OwnInv

LEMMA MotorInvStep == TypeInv /\ MotorInv /\ [Next]_vars => MotorInv'
<1> SUFFICES ASSUME TypeInv, MotorInv, [Next]_vars PROVE MotorInv'
  OBVIOUS
<1> USE Facts DEF request, stream, motors
<1>c. MotorId' = MotorId
  BY ConfigStep
<1>i. OneCreator /\ \A s \in 1..issued : Own(s) => OwnInv(s)
  BY DEF MotorInv
<1>1. OneCreator'
  BY <1>i, OneCreatorStep
<1>2. ASSUME NEW s \in 1..issued, Own(s), UNCHANGED <<pc, target, motor, listed, running, streams>>
      PROVE  OwnInv(s)'
  <2>1. OwnInv(s)
    BY <1>i, <1>2
  <2> QED
    BY <1>c, <1>2, <2>1 DEF OwnInv, Has, Creates, Attends
<1>3. ASSUME NEW s \in 1..issued, Own(s) PROVE OwnInv(s)'
  <2>1. ASSUME NEW r \in Requests, PullStream(r) PROVE OwnInv(s)'
    BY <1>c, <1>i, <1>3, <2>1, OwnPull
  <2>2. ASSUME WhiteElephantStreamCollector PROVE OwnInv(s)'
    <3>1. CASE NoInput
      BY <1>2, <1>3, <3>1 DEF NoInput
    <3>2. CASE Collect \/ EndOfScan \/ Scan \/ Resume
      BY <1>c, <1>i, <1>3, <3>2, OwnCollector
    <3> QED
      BY <2>2, <3>1, <3>2 DEF WhiteElephantStreamCollector
  <2>3. ASSUME NEW t \in Threads, MotorStep(t) PROVE OwnInv(s)'
    BY <1>c, <1>i, <1>3, <2>3, OwnMotorStep
  <2>4. ASSUME NEW t \in Threads, DeleteStream(t) PROVE OwnInv(s)'
    BY <1>c, <1>i, <1>3, <2>4, OwnDelete
  <2>5. ASSUME (\E m \in running : MotorEvent(m)) \/ (\E u \in Streams : Terminate(u))
               \/ OriginDies \/ UNCHANGED vars
        PROVE  OwnInv(s)'
    <3>1. UNCHANGED <<pc, target, motor, listed, running, streams>>
      BY <2>5 DEF MotorEvent, Terminate, OriginDies, vars
    <3> QED
      BY <1>2, <1>3, <3>1
  <2> QED
    BY <2>1, <2>2, <2>3, <2>4, <2>5 DEF Next
<1>4. ASSUME NEW s \in 1..issued', Own(s)' PROVE OwnInv(s)'
  <2>1. CASE issued' = issued
    BY <1>3, <1>4, <1>c, <2>1 DEF Own
  <2>2. CASE issued' # issued
    <3>1. PICK r \in Requests : StartStream(r)
      <4>1. ASSUME NEW r \in Requests, PullStream(r) PROVE StartStream(r)
        BY <2>2, <4>1 DEF PullStream, LockPullStreamIfNeeded, FindStream, AddStream,
                          CreateStreamMotorInternal, UnlockPullStreamIfNeeded
      <4>2. ~WhiteElephantStreamCollector
        BY <2>2 DEF WhiteElephantStreamCollector, Collect, EndOfScan, Scan, NoInput, Resume
      <4>3. ASSUME NEW t \in Threads, MotorStep(t) PROVE FALSE
        BY <2>2, <4>3 DEF MotorStep, FindMotor, JoinMotor, AddStreamToEpoll
      <4>4. ASSUME NEW t \in Threads, DeleteStream(t) PROVE FALSE
        BY <2>2, <4>4 DEF DeleteStream, DeleteFindsMotor, DelStream, CountStreams, StopMotor,
                          EraseMotor, EraseStream, StopStream
      <4>5. ~((\E m \in running : MotorEvent(m)) \/ (\E u \in Streams : Terminate(u))
              \/ OriginDies \/ UNCHANGED vars)
        BY <2>2 DEF MotorEvent, Terminate, OriginDies, vars
      <4> QED
        BY <4>1, <4>2, <4>3, <4>4, <4>5 DEF Next
    <3>2. issued \in Nat /\ issued' = issued + 1
      BY <3>1 DEF StartStream, TypeInv, Data
    <3>3. CASE s = issued + 1
      BY <1>4, <1>c, <3>1, <3>3, OwnNew
    <3>4. CASE s # issued + 1
      <4>1. s \in 1..issued /\ 1..issued \subseteq 1..issued'
        BY <3>2, <3>4
      <4>2. Own(s)
        BY <1>4, <1>c, <4>1 DEF Own
      <4> QED
        BY <1>3, <4>1, <4>2
    <3> QED
      BY <3>3, <3>4
  <2> QED
    BY <2>1, <2>2
<1> QED
  BY <1>1, <1>4 DEF MotorInv

LEMMA MotorInit == Init => MotorInv
<1> SUFFICES ASSUME Init PROVE MotorInv
  OBVIOUS
<1>1. issued = 0 /\ \A r \in Requests : pc[r] = "lock"
  BY Facts DEF Init
<1> QED
  BY <1>1 DEF MotorInv, OneCreator, Creates, Creating

LEMMA OwnMotorIsOwn ==
  ASSUME TypeInv, NEW s \in 1..issued, OwnMotor(s)
  PROVE  Own(s) /\ MotorOf(s) = Has(s) /\ s # None
<1>1. motorCount \in MotorCounts /\ 1..issued \subseteq Nat /\ s # None
  BY HasWhat, Facts DEF TypeInv, Data
<1>2. \A u \in 1..issued : GetStreamMotorId(u) = MotorId[u]
  BY <1>1, IdFacts
<1> QED
  BY <1>1, <1>2, IdFacts DEF OwnMotor, Own, Has

\* A motor that serves a stream with a motor id of its own is never destroyed while its
\* thread runs: whoever erases it from the table has stopped it (DeleteStreamMotorInternal).
THEOREM MotorIsKept == Spec => []MotorSurvives
<1>1. TypeInv /\ MotorInv => MotorSurvives
  <2> SUFFICES ASSUME TypeInv, MotorInv, NEW m \in running, OwnMotor(m)
               PROVE  MotorOf(m) = m
    BY DEF MotorSurvives, Abandoned
  <2>1. m \in 1..issued
    BY DEF TypeInv, Data
  <2> QED
    BY <2>1, OwnMotorIsOwn DEF MotorInv, OwnInv
<1>2. TypeInv /\ MotorInv /\ [Next]_vars => (TypeInv /\ MotorInv)'
  BY TypeStep, MotorInvStep
<1> QED
  BY <1>1, <1>2, TypeInit, MotorInit, PTL DEF Spec

\* A stream of the application with a motor id of its own has its motor, unless a thread
\* is creating or deleting the stream (CreateStream, ResumeStream, DeleteStream).
THEOREM StreamKeepsMotor == Spec => []StreamHasMotor
<1>1. TypeInv /\ MotorInv => StreamHasMotor
  <2> SUFFICES ASSUME TypeInv, MotorInv, NEW s \in streams, OwnMotor(s), ~Busy(s)
               PROVE  MotorOf(s) # None
    BY DEF StreamHasMotor
  <2>1. s \in 1..issued
    BY DEF TypeInv, Data
  <2>2. OwnInv(s) /\ MotorOf(s) = Has(s)
    BY <2>1, OwnMotorIsOwn DEF MotorInv
  <2>3. \A t \in Threads : ~Attends(t, s)
    BY DEF Attends, Busy
  <2> QED
    BY <2>2, <2>3 DEF OwnInv
<1>2. TypeInv /\ MotorInv /\ [Next]_vars => (TypeInv /\ MotorInv)'
  BY TypeStep, MotorInvStep
<1> QED
  BY <1>1, <1>2, TypeInit, MotorInit, PTL DEF Spec
===============================================================================
