------------------------- MODULE OrchestratorProofs -------------------------
(* What is proved of Orchestrator, for every set of requests, administrators   *)
(* and names: its types, and that an application which nobody creates or       *)
(* deletes at the moment is in every module or in none.                        *)
EXTENDS Orchestrator, TLAPS

\* Who deletes has an application to delete, who tells the modules has the next one to
\* tell, and a stream that leaves has the application that it leaves.
Targets ==
  /\ \A t \in Threads : pc[t] \in Deleting => target[t] \in Apps
  /\ \A t \in Threads : pc[t] \in {"notify", "tell"} => told[t] # 0
  /\ \A r \in Pullers : leaving[r] \in {"erased", "last"} => left[r] \in Apps

TypeInv == TypeOK /\ Targets

\* The modules before the k-th.
Below(k) == {Modules[j] : j \in 1..(k - 1)}

LEMMA ModuleFacts ==
  /\ Len(Modules) = 3 /\ DOMAIN Modules = 1..3
  /\ Modules[1] = "mediarouter" /\ Modules[2] = "transcoder" /\ Modules[3] = "provider"
  /\ {Modules[k] : k \in DOMAIN Modules} = {"mediarouter", "transcoder", "provider"}
  /\ Below(1) = {} /\ Below(2) = {"mediarouter"} /\ Below(3) = {"mediarouter", "transcoder"}
  /\ Below(4) = {"mediarouter", "transcoder", "provider"}
<1>1. /\ Len(Modules) = 3 /\ DOMAIN Modules = 1..3
      /\ Modules[1] = "mediarouter" /\ Modules[2] = "transcoder" /\ Modules[3] = "provider"
  BY DEF Modules
<1>2. /\ 1..0 = {} /\ 1..1 = {1} /\ 1..2 = {1, 2} /\ 1..3 = {1, 2, 3}
  OBVIOUS
<1>3. Below(1) = {} /\ Below(2) = {Modules[1]}
  BY <1>2 DEF Below
<1>4. Below(3) = {Modules[1], Modules[2]}
  BY <1>2 DEF Below
<1>5. Below(4) = {Modules[1], Modules[2], Modules[3]}
  BY <1>2 DEF Below
<1>6. {Modules[k] : k \in DOMAIN Modules} = {Modules[1], Modules[2], Modules[3]}
  BY <1>1, <1>2
<1> QED
  BY <1>1, <1>3, <1>4, <1>5, <1>6

LEMMA ThreadFacts ==
  /\ Threads = Pullers \cup Admins \cup {Timer} /\ Apps = Pullers \cup Admins
  /\ Timer \notin Apps /\ Pullers \cap Admins = {} /\ None \notin Threads
BY ThreadsDiffer, NoneIsApart DEF Threads, Apps

-----------------------------------------------------------------------------
(* Types *)

LEMMA TypeInit == Init => TypeInv
<1> SUFFICES ASSUME Init PROVE TypeInv
  OBVIOUS
<1> USE ModuleFacts, ThreadFacts DEF Init
<1>1. /\ apps \subseteq Apps /\ idle \subseteq Apps /\ observed \subseteq Apps
      /\ raced \subseteq Apps /\ crashed \in BOOLEAN /\ cut \subseteq Apps
      /\ want \in [Threads -> Names \cup {None}]
  OBVIOUS
<1>2. has \in [Apps -> SUBSET {Modules[k] : k \in DOMAIN Modules}]
  OBVIOUS
<1>3. /\ live \in [Pullers -> Apps \cup {None}] /\ left \in [Pullers -> Apps \cup {None}]
      /\ known \in [Apps -> SUBSET Pullers]
      /\ leaving \in [Pullers -> {"no", "erased", "last"}]
      /\ \A r \in Pullers : leaving[r] = "no"
  OBVIOUS
<1>4. /\ pc \in [Threads -> Creating \cup Deleting \cup Requesting]
      /\ target \in [Threads -> Apps \cup {None}] /\ told \in [Threads -> 0..Len(Modules)]
      /\ \A t \in Threads : pc[t] = "call"
  BY DEF Requesting
<1>5. Targets
  BY <1>3, <1>4 DEF Targets, Deleting
<1> QED
  BY <1>1, <1>2, <1>3, <1>4, <1>5 DEF TypeInv, TypeOK

-----------------------------------------------------------------------------
(* How the steps of a thread change its program counter *)

ControlTypes ==
  /\ pc \in [Threads -> Creating \cup Deleting \cup Requesting]
  /\ target \in [Threads -> Apps \cup {None}] /\ told \in [Threads -> 0..Len(Modules)]

Moved(t, step, a, k) ==
  /\ ControlTypes' /\ pc'[t] = step /\ target'[t] = a /\ told'[t] = k
  /\ \A u \in Threads \ {t} : pc'[u] = pc[u] /\ target'[u] = target[u] /\ told'[u] = told[u]

LEMMA MoveMoves ==
  ASSUME TypeInv, NEW t \in Threads, NEW step \in Creating \cup Deleting \cup Requesting,
         NEW a \in Apps \cup {None}, Move(t, step, a)
  PROVE  Moved(t, step, a, 0)
<1>1. ControlTypes
  BY DEF TypeInv, TypeOK, ControlTypes
<1>2. 0 \in 0..Len(Modules)
  BY ModuleFacts
<1> QED
  BY <1>1, <1>2 DEF Move, Goto, Takes, Tells, ControlTypes, Moved

LEMMA TellMoves ==
  ASSUME TypeInv, NEW t \in Threads, NEW step \in Creating \cup Deleting \cup Requesting,
         Goto(t, step) \/ (step = pc[t] /\ UNCHANGED pc),
         NEW k \in 0..Len(Modules), Tells(t, k), UNCHANGED target
  PROVE  Moved(t, step, target[t], k)
<1>1. ControlTypes
  BY DEF TypeInv, TypeOK, ControlTypes
<1>2. pc' \in [Threads -> Creating \cup Deleting \cup Requesting] /\ pc'[t] = step
      /\ \A u \in Threads \ {t} : pc'[u] = pc[u]
  BY <1>1 DEF Goto, ControlTypes
<1>3. told' \in [Threads -> 0..Len(Modules)] /\ told'[t] = k
      /\ \A u \in Threads \ {t} : told'[u] = told[u]
  BY <1>1 DEF Tells, ControlTypes
<1> QED
  BY <1>1, <1>2, <1>3 DEF ControlTypes, Moved

LEMMA Steps ==
  /\ \A step \in {"call", "check", "found", "pull", "add", "map", "use", "done", "insert",
                  "notify", "observe", "refused", "find", "erase", "unobserve", "tell"} :
       step \in Creating \cup Deleting \cup Requesting
  /\ Deleting = {"find", "erase", "unobserve", "tell"}
BY DEF Creating, Deleting, Requesting

LEMMA ReturnMoves ==
  ASSUME TypeInv, NEW t \in Threads, Return(t)
  PROVE  Moved(t, IF t = Timer THEN "call" ELSE "done", None, 0)
BY Steps, MoveMoves DEF Return

\* The next step of a request ends it, or goes on with it, or tries to create.
LEMMA RequestMoves ==
  ASSUME TypeInv, NEW r \in Pullers, Request(r)
  PROVE  /\ pc[r] \in {"call", "found", "pull", "add", "map", "use"}
         /\ \E step \in {"pull", "check", "done", "add", "map", "use"},
               a \in Apps \cup {None}, k \in 0..Len(Modules) :
              Moved(r, step, a, k) /\ (step = "check" => pc[r] = "call")
<1> USE ModuleFacts, ThreadFacts, Steps
<1>1. r \in Threads /\ target[r] \in Apps \cup {None} /\ told[r] \in 0..Len(Modules)
  BY DEF TypeInv, TypeOK
<1>2. Return(r) => Moved(r, "done", None, 0)
  BY <1>1, ReturnMoves
<1>3. CASE FindApplication(r)
  <2>1. Named(want[r]) \subseteq Apps
    BY DEF TypeInv, TypeOK, Named
  <2>2. CASE \E a \in Named(want[r]) : Move(r, "pull", a)
    BY <1>1, <1>3, <2>1, <2>2, MoveMoves DEF FindApplication
  <2>3. CASE pc[r] = "call" /\ Move(r, "check", None)
    BY <1>1, <2>3, MoveMoves
  <2>4. CASE pc[r] = "found" /\ Return(r)
    BY <1>2, <2>4
  <2> QED
    BY <1>3, <2>2, <2>3, <2>4 DEF FindApplication
<1>4. CASE PullStream(r)
  <2>1. CASE Goto(r, "add") /\ UNCHANGED <<target, told>>
    <3>1. Tells(r, told[r])
      BY <2>1 DEF TypeInv, TypeOK, Tells
    <3>2. Moved(r, "add", target[r], told[r])
      BY <1>1, <2>1, <3>1, TellMoves
    <3> QED
      BY <1>1, <1>4, <3>2 DEF PullStream
  <2> QED
    BY <1>2, <1>4, <2>1 DEF PullStream
<1>5. CASE AddStream(r)
  <2>1. pc[r] = "add" /\ (Move(r, "map", target[r]) \/ Return(r))
    BY <1>5 DEF AddStream
  <2> QED
    BY <1>1, <1>2, <2>1, MoveMoves
<1>6. CASE MapStream(r)
  <2>1. pc[r] = "map" /\ Move(r, "use", target[r])
    BY <1>6 DEF MapStream
  <2> QED
    BY <1>1, <2>1, MoveMoves
<1>7. CASE StopIdleTimer(r)
  BY <1>2, <1>7 DEF StopIdleTimer
<1> QED
  BY <1>3, <1>4, <1>5, <1>6, <1>7 DEF Request

Ended(t) == Moved(t, IF t = Timer THEN "call" ELSE "done", None, 0)

\* The steps of a creation.
LEMMA CreateMoves ==
  ASSUME TypeInv, NEW t \in Apps
  PROVE  /\ CheckName(t) => pc[t] = "check" /\ (Ended(t) \/ Moved(t, "insert", t, 0))
         /\ InsertApplication(t) => pc[t] = "insert" /\ Moved(t, "notify", target[t], 1)
         /\ ModuleCreates(t) =>
              /\ pc[t] = "notify"
              /\ IF told[t] = 3 THEN Moved(t, "observe", target[t], 0)
                                ELSE Moved(t, "notify", target[t], told[t] + 1)
         /\ ModuleRefuses(t) => pc[t] = "notify" /\ Moved(t, "refused", t, 0)
         /\ ObserveRouter(t) =>
              /\ pc[t] \in {"observe", "refused"}
              /\ IF pc[t] = "observe" /\ t \in apps
                   THEN Moved(t, "found", None, 0) \/ Ended(t) ELSE Moved(t, "find", t, 0)
<1> USE ModuleFacts, ThreadFacts, Steps
<1>1. t \in Threads /\ target[t] \in Apps \cup {None} /\ told[t] \in 0..3
  BY DEF TypeInv, TypeOK
<1>2. Return(t) => Ended(t)
  BY <1>1, ReturnMoves DEF Ended
<1>3. ASSUME CheckName(t) PROVE pc[t] = "check" /\ (Ended(t) \/ Moved(t, "insert", t, 0))
  <2>1. pc[t] = "check" /\ (Return(t) \/ Move(t, "insert", t))
    BY <1>3 DEF CheckName
  <2> QED
    BY <1>1, <1>2, <2>1, MoveMoves
<1>4. ASSUME InsertApplication(t) PROVE pc[t] = "insert" /\ Moved(t, "notify", target[t], 1)
  <2>1. pc[t] = "insert" /\ Goto(t, "notify") /\ Tells(t, 1) /\ UNCHANGED target
    BY <1>4 DEF InsertApplication
  <2> QED
    BY <1>1, <2>1, TellMoves
<1>5. ASSUME ModuleCreates(t)
      PROVE  /\ pc[t] = "notify"
             /\ IF told[t] = 3 THEN Moved(t, "observe", target[t], 0)
                               ELSE Moved(t, "notify", target[t], told[t] + 1)
  <2>1. /\ pc[t] = "notify" /\ UNCHANGED target
        /\ IF told[t] = 3 THEN Goto(t, "observe") /\ Tells(t, 0)
                          ELSE Tells(t, told[t] + 1) /\ UNCHANGED pc
    BY <1>5 DEF ModuleCreates
  <2>2. CASE told[t] = 3
    BY <1>1, <2>1, <2>2, TellMoves
  <2>3. CASE told[t] # 3
    BY <1>1, <2>1, <2>3, TellMoves
  <2> QED
    BY <2>1, <2>2, <2>3
<1>6. ASSUME ModuleRefuses(t) PROVE pc[t] = "notify" /\ Moved(t, "refused", t, 0)
  <2>1. pc[t] = "notify" /\ Move(t, "refused", t)
    BY <1>6 DEF ModuleRefuses
  <2> QED
    BY <1>1, <2>1, MoveMoves
<1>7. ASSUME ObserveRouter(t)
      PROVE  /\ pc[t] \in {"observe", "refused"}
             /\ IF pc[t] = "observe" /\ t \in apps
                  THEN Moved(t, "found", None, 0) \/ Ended(t) ELSE Moved(t, "find", t, 0)
  <2>1. /\ pc[t] \in {"observe", "refused"}
        /\ IF pc[t] = "observe" /\ t \in apps
             THEN Move(t, "found", None) \/ Return(t) ELSE Move(t, "find", t)
    BY <1>7 DEF ObserveRouter
  <2>2. (Move(t, "found", None) => Moved(t, "found", None, 0))
        /\ (Move(t, "find", t) => Moved(t, "find", t, 0))
    BY <1>1, MoveMoves
  <2> QED
    BY <1>2, <2>1, <2>2
<1> QED
  BY <1>3, <1>4, <1>5, <1>6, <1>7

\* The steps of a deletion.
LEMMA DeleteMoves ==
  ASSUME TypeInv, NEW t \in Threads
  PROVE  /\ FindToDelete(t) =>
              /\ pc[t] = "find" /\ target[t] \in Apps
              /\ IF target[t] \in apps THEN Moved(t, "erase", target[t], 0) ELSE Ended(t)
         /\ EraseApplication(t) =>
              /\ pc[t] = "erase" /\ target[t] \in Apps
              /\ IF target[t] \in apps THEN Moved(t, "unobserve", target[t], 0) ELSE Ended(t)
         /\ UnobserveRouter(t) =>
              pc[t] = "unobserve" /\ target[t] \in Apps /\ Moved(t, "tell", target[t], 3)
         /\ ModuleDeletes(t) =>
              /\ pc[t] = "tell" /\ target[t] \in Apps /\ told[t] \in 1..3
              /\ IF told[t] = 1
                   THEN \/ t # Timer /\ Moved(t, "found", None, 0)
                        \/ target[t] # t /\ Moved(t, "check", None, 0)
                        \/ Ended(t)
                   ELSE Moved(t, "tell", target[t], told[t] - 1)
<1> USE ModuleFacts, ThreadFacts, Steps
<1>1. /\ target[t] \in Apps \cup {None} /\ told[t] \in 0..3
      /\ pc[t] \in Deleting => target[t] \in Apps
      /\ pc[t] = "tell" => told[t] \in 1..3
  <2>1. told[t] \in 0..3 /\ (pc[t] = "tell" => told[t] # 0)
    BY DEF TypeInv, TypeOK, Targets
  <2> QED
    BY <2>1 DEF TypeInv, TypeOK, Targets
<1>2. Return(t) => Ended(t)
  BY ReturnMoves DEF Ended
<1>3. ASSUME FindToDelete(t)
      PROVE  /\ pc[t] = "find" /\ target[t] \in Apps
             /\ IF target[t] \in apps THEN Moved(t, "erase", target[t], 0) ELSE Ended(t)
  <2>1. /\ pc[t] = "find"
        /\ IF target[t] \in apps THEN Move(t, "erase", target[t]) ELSE Return(t)
    BY <1>3 DEF FindToDelete
  <2> QED
    BY <1>1, <1>2, <2>1, MoveMoves
<1>4. ASSUME EraseApplication(t)
      PROVE  /\ pc[t] = "erase" /\ target[t] \in Apps
             /\ IF target[t] \in apps THEN Moved(t, "unobserve", target[t], 0) ELSE Ended(t)
  <2>1. /\ pc[t] = "erase"
        /\ IF target[t] \in apps THEN Move(t, "unobserve", target[t]) ELSE Return(t)
    BY <1>4 DEF EraseApplication
  <2> QED
    BY <1>1, <1>2, <2>1, MoveMoves
<1>5. ASSUME UnobserveRouter(t)
      PROVE  pc[t] = "unobserve" /\ target[t] \in Apps /\ Moved(t, "tell", target[t], 3)
  <2>1. pc[t] = "unobserve" /\ Goto(t, "tell") /\ Tells(t, 3) /\ UNCHANGED target
    BY <1>5 DEF UnobserveRouter
  <2> QED
    BY <1>1, <2>1, TellMoves
<1>6. ASSUME ModuleDeletes(t)
      PROVE  /\ pc[t] = "tell" /\ target[t] \in Apps /\ told[t] \in 1..3
             /\ IF told[t] = 1
                  THEN \/ t # Timer /\ Moved(t, "found", None, 0)
                       \/ target[t] # t /\ Moved(t, "check", None, 0)
                       \/ Ended(t)
                  ELSE Moved(t, "tell", target[t], told[t] - 1)
  <2>1. /\ pc[t] = "tell"
        /\ IF told[t] = 1 THEN Deleted(t)
                          ELSE Tells(t, told[t] - 1) /\ UNCHANGED <<pc, target>>
    BY <1>6 DEF ModuleDeletes
  <2>2. CASE told[t] = 1
    <3>1. \/ t \in Pullers /\ Move(t, "found", None)
          \/ target[t] # t /\ Move(t, "check", None)
          \/ Return(t)
      BY <2>1, <2>2 DEF Deleted
    <3>2. (Move(t, "found", None) => Moved(t, "found", None, 0))
          /\ (Move(t, "check", None) => Moved(t, "check", None, 0))
      BY MoveMoves
    <3> QED
      BY <1>1, <1>2, <2>1, <2>2, <3>1, <3>2
  <2>3. CASE told[t] # 1
    <3>1. told[t] - 1 \in 0..3
      BY <1>1, <2>1, <2>3
    <3> QED
      BY <1>1, <2>1, <2>3, <3>1, TellMoves
  <2> QED
    BY <2>2, <2>3
<1> QED
  BY <1>3, <1>4, <1>5, <1>6

\* An administrator calls, or the timer fires.
LEMMA CallMoves ==
  ASSUME TypeInv
  PROVE  /\ \A t \in Admins : ApiCall(t) =>
              pc[t] = "call" /\ (Moved(t, "check", None, 0) \/ \E a \in apps : Moved(t, "find", a, 0))
         /\ TimerFires => pc[Timer] = "call" /\ \E a \in apps : Moved(Timer, "find", a, 0)
<1> USE ThreadFacts, Steps
<1>1. apps \subseteq Apps
  BY DEF TypeInv, TypeOK
<1>2. ASSUME NEW t \in Admins, ApiCall(t)
      PROVE  pc[t] = "call" /\ (Moved(t, "check", None, 0) \/ \E a \in apps : Moved(t, "find", a, 0))
  <2>1. pc[t] = "call" /\ (Move(t, "check", None) \/ \E a \in apps : Move(t, "find", a))
    BY <1>2 DEF ApiCall
  <2>2. (Move(t, "check", None) => Moved(t, "check", None, 0))
        /\ \A a \in apps : Move(t, "find", a) => Moved(t, "find", a, 0)
    BY <1>1, MoveMoves
  <2> QED
    BY <2>1, <2>2
<1>3. ASSUME TimerFires
      PROVE  pc[Timer] = "call" /\ \E a \in apps : Moved(Timer, "find", a, 0)
  <2>1. pc[Timer] = "call" /\ \E a \in apps : Move(Timer, "find", a)
    BY <1>3 DEF TimerFires
  <2> QED
    BY <1>1, <2>1, MoveMoves
<1> QED
  BY <1>2, <1>3

-----------------------------------------------------------------------------
\* What a thread does keeps the targets.
LEMMA TargetsStep ==
  ASSUME TypeInv, NEW t \in Threads, NEW step, NEW a, NEW k,
         Moved(t, step, a, k), step \in Deleting => a \in Apps,
         step \in {"notify", "tell"} => k # 0, UNCHANGED <<leaving, left>>
  PROVE  Targets'
<1>1. \A u \in Threads : pc'[u] \in Deleting => target'[u] \in Apps
  BY DEF TypeInv, Targets, Moved
<1>2. \A u \in Threads : pc'[u] \in {"notify", "tell"} => told'[u] # 0
  BY DEF TypeInv, Targets, Moved
<1>3. \A r \in Pullers : leaving'[r] \in {"erased", "last"} => left'[r] \in Apps
  BY DEF TypeInv, Targets
<1> QED
  BY <1>1, <1>2, <1>3 DEF Targets

LEMMA TypeStep == TypeInv /\ [Next]_vars => TypeInv'
<1> SUFFICES ASSUME TypeInv, [Next]_vars PROVE TypeInv'
  OBVIOUS
<1> USE ThreadFacts, Steps
<1>t. TypeOK /\ Targets
  BY DEF TypeInv
<1>c. ControlTypes' <=> /\ pc' \in [Threads -> Creating \cup Deleting \cup Requesting]
                        /\ target' \in [Threads -> Apps \cup {None}]
                        /\ told' \in [Threads -> 0..Len(Modules)]
  BY DEF ControlTypes
<1>1. ASSUME NEW r \in Pullers, Request(r) PROVE TypeInv'
  <2>1. PICK step \in {"pull", "check", "done", "add", "map", "use"},
             a \in Apps \cup {None}, k \in 0..Len(Modules) : Moved(r, step, a, k)
    BY <1>1, RequestMoves
  <2>2. r \in Threads
    OBVIOUS
  <2>3. /\ UNCHANGED <<want, apps, has, observed, leaving, left, cut, raced, crashed>>
        /\ idle' \subseteq idle
        /\ known' \in {known, [known EXCEPT ![target[r]] = @ \cup {r}]}
        /\ live' \in {live, [live EXCEPT ![r] = target[r]]}
    BY <1>1 DEF Request, FindApplication, PullStream, AddStream, MapStream, StopIdleTimer, streams
  <2>4. live' \in [Pullers -> Apps \cup {None}] /\ known' \in [Apps -> SUBSET Pullers]
    <3>1. /\ target[r] \in Apps \cup {None} /\ live \in [Pullers -> Apps \cup {None}]
          /\ known \in [Apps -> SUBSET Pullers]
      BY <1>t, <2>2 DEF TypeOK
    <3> QED
      BY <2>3, <3>1
  <2>5. TypeOK'
    BY <1>t, <1>c, <2>1, <2>3, <2>4 DEF TypeOK, Moved
  <2>6. Targets'
    BY <2>1, <2>2, <2>3, <2>4, TargetsStep
  <2> QED
    BY <2>5, <2>6 DEF TypeInv
<1>3. ASSUME NEW r \in Pullers, StreamEnds(r) PROVE TypeInv'
  <2>1. /\ live' = [live EXCEPT ![r] = None]
        /\ \/ UNCHANGED <<known, leaving, left>>
           \/ /\ known' = [known EXCEPT ![live[r]] = @ \ {r}]
              /\ leaving' = [leaving EXCEPT ![r] = "erased"]
              /\ left' = [left EXCEPT ![r] = live[r]]
        /\ cut' \subseteq cut \cup {live[r]}
        /\ UNCHANGED <<want, apps, idle, has, observed, pc, target, told, raced, crashed>>
    BY <1>3 DEF StreamEnds, control
  <2>2. live[r] \in Apps
    BY <1>t, <1>3 DEF StreamEnds, TypeOK
  <2>3. /\ live' \in [Pullers -> Apps \cup {None}] /\ left' \in [Pullers -> Apps \cup {None}]
        /\ leaving' \in [Pullers -> {"no", "erased", "last"}]
        /\ known' \in [Apps -> SUBSET Pullers] /\ cut' \subseteq Apps
    <3>1. /\ live \in [Pullers -> Apps \cup {None}] /\ left \in [Pullers -> Apps \cup {None}]
          /\ leaving \in [Pullers -> {"no", "erased", "last"}]
          /\ known \in [Apps -> SUBSET Pullers] /\ cut \subseteq Apps
      BY <1>t DEF TypeOK
    <3> QED
      BY <2>1, <2>2, <3>1
  <2>4. TypeOK'
    BY <1>t, <2>1, <2>3 DEF TypeOK
  <2>5. Targets'
    BY <1>t, <2>1, <2>2 DEF TypeOK, Targets
  <2> QED
    BY <2>4, <2>5 DEF TypeInv
<1>4. ASSUME NEW r \in Pullers, StreamDeleted(r) PROVE TypeInv'
  <2>1. /\ leaving[r] \in {"erased", "last"} /\ left[r] \in Apps
        /\ \/ leaving' = [leaving EXCEPT ![r] = "last"] /\ UNCHANGED left
           \/ leaving' = [leaving EXCEPT ![r] = "no"] /\ left' = [left EXCEPT ![r] = None]
        /\ idle' \in {idle, idle \cup {left[r]}}
        /\ UNCHANGED <<want, apps, has, observed, live, known, cut, pc, target, told, raced,
                       crashed>>
    BY <1>t, <1>4 DEF StreamDeleted, LookWhetherLast, StartIdleTimer, Gone, Targets, control
  <2>2. TypeOK'
    BY <1>t, <2>1 DEF TypeOK
  <2>3. Targets'
    BY <1>t, <2>1 DEF TypeOK, Targets
  <2> QED
    BY <2>2, <2>3 DEF TypeInv
<1>5. ASSUME NEW t \in Apps, Create(t) PROVE TypeInv'
  <2>1. t \in Threads /\ ControlTypes' /\ Targets'
    <3>1. t \in Threads /\ UNCHANGED <<live, leaving, left>>
      BY <1>5 DEF Create, CheckName, InsertApplication, ModuleCreates, ModuleRefuses,
                  ObserveRouter, streams
    <3>2. told[t] \in 0..Len(Modules)
      BY <1>t, <3>1 DEF TypeOK
    <3>3. Ended(t) \/ Moved(t, "insert", t, 0) \/ Moved(t, "notify", target[t], 1)
            \/ Moved(t, "observe", target[t], 0) \/ Moved(t, "notify", target[t], told[t] + 1)
            \/ Moved(t, "refused", t, 0) \/ Moved(t, "found", None, 0) \/ Moved(t, "find", t, 0)
      BY <1>5, CreateMoves DEF Create
    <3>4. told[t] + 1 # 0
      BY <3>2, ModuleFacts
    <3>5. Targets'
      BY <3>1, <3>3, <3>4, TargetsStep DEF Ended
    <3>6. ControlTypes'
      BY <3>3 DEF Moved, Ended
    <3> QED
      BY <3>1, <3>5, <3>6
  <2>2. /\ UNCHANGED <<want, live, known, leaving, left, cut, raced, crashed>>
        /\ apps' \subseteq apps \cup {t} /\ idle' \subseteq idle \cup {t}
        /\ observed' \subseteq observed \cup {t}
    BY <1>5 DEF Create, CheckName, InsertApplication, ModuleCreates, ModuleRefuses,
                ObserveRouter, streams
  <2>3. has' \in [Apps -> SUBSET {Modules[j] : j \in DOMAIN Modules}]
    <3>1. CASE ModuleCreates(t)
      <4>1. told[t] \in 1..3
        BY <1>t, <2>1, <3>1, ModuleFacts DEF ModuleCreates, TypeOK, Targets
      <4>2. Modules[told[t]] \in {Modules[j] : j \in DOMAIN Modules}
        BY <4>1, ModuleFacts
      <4> QED
        BY <1>t, <3>1, <4>2 DEF ModuleCreates, TypeOK
    <3>2. CASE ModuleRefuses(t)
      <4>1. "transcoder" \in {Modules[j] : j \in DOMAIN Modules}
        BY ModuleFacts
      <4> QED
        BY <1>t, <3>2, <4>1 DEF ModuleRefuses, TypeOK
    <3>3. CASE CheckName(t) \/ InsertApplication(t) \/ ObserveRouter(t)
      BY <1>t, <3>3 DEF CheckName, InsertApplication, ObserveRouter, TypeOK
    <3> QED
      BY <1>5, <3>1, <3>2, <3>3 DEF Create
  <2> QED
    BY <1>t, <1>c, <2>1, <2>2, <2>3 DEF TypeInv, TypeOK
<1>6. ASSUME NEW t \in Threads, Delete(t) PROVE TypeInv'
  <2>1. /\ UNCHANGED <<want, known, leaving, left, cut>>
        /\ apps' \subseteq apps /\ idle' \subseteq idle /\ observed' \subseteq observed
        /\ raced' \subseteq raced \cup apps
    BY <1>6 DEF Delete, FindToDelete, EraseApplication, UnobserveRouter, ModuleDeletes, streams
  <2>b. crashed' \in BOOLEAN
    <3>1. crashed' = crashed \/ ModuleDeletes(t)
      BY <1>6 DEF Delete, FindToDelete, EraseApplication, UnobserveRouter
    <3>2. ModuleDeletes(t) => crashed' \in BOOLEAN
      BY Zenon DEF ModuleDeletes
    <3> QED
      BY <1>t, <3>1, <3>2 DEF TypeOK
  <2>2. has' \in [Apps -> SUBSET {Modules[j] : j \in DOMAIN Modules}]
    <3>1. \/ has' = has
          \/ \E m \in {Modules[told[t]]} : has' = [has EXCEPT ![target[t]] = @ \ {m}]
      BY <1>6 DEF Delete, FindToDelete, EraseApplication, UnobserveRouter, ModuleDeletes
    <3>2. has \in [Apps -> SUBSET {Modules[j] : j \in DOMAIN Modules}]
      BY <1>t DEF TypeOK
    <3> QED
      BY <3>1, <3>2
  <2>3. live' \in [Pullers -> Apps \cup {None}]
    <3>1. \/ live' = live
          \/ live' = [r \in Pullers |-> IF live[r] = target[t] THEN None ELSE live[r]]
      BY <1>6 DEF Delete, FindToDelete, EraseApplication, UnobserveRouter, ModuleDeletes, streams
    <3> QED
      BY <1>t, <3>1 DEF TypeOK
  <2>4. \/ Ended(t) \/ Moved(t, "found", None, 0) \/ Moved(t, "check", None, 0)
        \/ /\ target[t] \in Apps
           /\ \/ Moved(t, "erase", target[t], 0) \/ Moved(t, "unobserve", target[t], 0)
              \/ Moved(t, "tell", target[t], 3)
              \/ told[t] \in 2..3 /\ Moved(t, "tell", target[t], told[t] - 1)
    <3>1. CASE FindToDelete(t) \/ EraseApplication(t)
      BY <3>1, DeleteMoves
    <3>2. CASE UnobserveRouter(t)
      BY <3>2, DeleteMoves
    <3>3. CASE ModuleDeletes(t)
      <4>1. told[t] \in 1..3 => told[t] = 1 \/ told[t] \in 2..3
        OBVIOUS
      <4> QED
        BY <3>3, <4>1, DeleteMoves
    <3> QED
      BY <1>6, <3>1, <3>2, <3>3 DEF Delete
  <2>5. told[t] \in 2..3 => told[t] - 1 # 0
    OBVIOUS
  <2>6. Targets'
    BY <2>1, <2>4, <2>5, TargetsStep DEF Ended
  <2>7. ControlTypes'
    BY <2>4 DEF Moved, Ended
  <2> QED
    BY <1>t, <1>c, <2>1, <2>b, <2>2, <2>3, <2>6, <2>7 DEF TypeInv, TypeOK
<1>7. ASSUME NEW t \in Threads, (t \in Admins /\ ApiCall(t)) \/ (t = Timer /\ TimerFires)
      PROVE  TypeInv'
  <2>1. /\ pc[t] = "call"
        /\ Moved(t, "check", None, 0) \/ \E a \in Apps : Moved(t, "find", a, 0)
    BY <1>t, <1>7, CallMoves DEF TypeOK
  <2>2. UNCHANGED <<apps, idle, has, observed, live, known, leaving, left, cut, raced, crashed>>
    BY <1>7 DEF ApiCall, TimerFires, streams
  <2>3. want' \in [Threads -> Names \cup {None}]
    <3>1. CASE ApiCall(t)
      <4>1. \E n \in Names \cup {None} : want' \in {want, [want EXCEPT ![t] = n]}
        BY <1>t, <3>1 DEF ApiCall, TypeOK
      <4>2. want \in [Threads -> Names \cup {None}]
        BY <1>t DEF TypeOK
      <4> QED
        BY <4>1, <4>2
    <3> QED
      BY <1>t, <1>7, <3>1 DEF TimerFires, TypeOK
  <2>4. Targets'
    BY <2>1, <2>2, TargetsStep
  <2>5. ControlTypes'
    BY <2>1 DEF Moved
  <2> QED
    BY <1>t, <1>c, <2>2, <2>3, <2>4, <2>5 DEF TypeInv, TypeOK
<1>8. CASE UNCHANGED vars
  BY <1>t, <1>8 DEF vars, streams, control, TypeInv, TypeOK, Targets
<1> QED
  BY <1>1, <1>3, <1>4, <1>5, <1>6, <1>7, <1>8 DEF Next

\* The variables keep their types: who deletes an application has one, whoever called.
THEOREM TypeCorrect == Spec => []TypeOK
<1>1. TypeInv => TypeOK
  BY DEF TypeInv
<1> QED
  BY <1>1, TypeInit, TypeStep, PTL DEF Spec

-----------------------------------------------------------------------------
(* The invariant of creation and deletion *)

AllModules == {Modules[k] : k \in DOMAIN Modules}
Clean(a) == has[a] = {} /\ a \notin observed
Built(a) == has[a] = AllModules /\ a \in observed

\* The thread of an application is telling the modules of it, or takes the creation back.
Building(a) == pc[a] \in {"notify", "observe", "refused"}
RollingBack(a) == pc[a] \in {"find", "erase"} /\ target[a] = a

\* A thread has erased an application and tells the others of it.
Cleaning(t, a) == pc[t] \in {"unobserve", "tell"} /\ target[t] = a

UnbornInv(a) ==
  Unborn(a) => /\ a \notin apps \cup raced /\ Clean(a)
               /\ \A t \in Threads : pc[t] \in Deleting => target[t] # a

\* While the virtual host has an application, its creation alone decides which modules
\* have it.
CreationInv(a) ==
  /\ Building(a) => a \in apps \cup raced
  /\ a \in apps => Building(a) \/ RollingBack(a) \/ Built(a)
  /\ a \in apps /\ pc[a] = "notify" => has[a] = Below(told[a])
  /\ a \in apps /\ pc[a] = "observe" => has[a] = AllModules
  /\ a \in apps /\ pc[a] # "notify" => Routed(a)

\* One thread takes it from the modules, the last one first, so that the media router has
\* it until the end.
DeletionInv(a) ==
  /\ \A t \in Threads :
       Cleaning(t, a) =>
         /\ a \notin apps /\ \A u \in Threads : Cleaning(u, a) => u = t
         /\ pc[t] = "tell" => a \notin observed
         /\ a \notin raced => Routed(a)
         /\ a \notin raced /\ pc[t] = "tell" => has[a] \subseteq Below(told[t] + 1)
  /\ a \notin apps \cup raced => Clean(a) \/ \E t \in Threads : Cleaning(t, a)

LifeInv == \A a \in Apps : UnbornInv(a) /\ CreationInv(a) /\ DeletionInv(a)

LEMMA LifeInit == Init => LifeInv
<1> SUFFICES ASSUME Init, NEW a \in Apps
             PROVE  UnbornInv(a) /\ CreationInv(a) /\ DeletionInv(a)
  BY DEF LifeInv
<1>1. /\ \A t \in Threads : pc[t] = "call"
      /\ a \in Threads /\ apps = {} /\ raced = {} /\ has[a] = {} /\ observed = {}
  BY ThreadFacts DEF Init
<1>2. UnbornInv(a)
  BY <1>1 DEF UnbornInv, Clean, Deleting
<1>3. CreationInv(a)
  BY <1>1 DEF CreationInv, Building
<1>4. DeletionInv(a)
  BY <1>1 DEF DeletionInv, Cleaning, Clean
<1> QED
  BY <1>2, <1>3, <1>4

\* A thread that neither creates nor deletes.
Quiet(t) == pc[t] \notin {"notify", "observe", "refused"} \cup Deleting

\* A step of a thread that neither creates nor deletes, before or after, breaks nothing.
LEMMA QuietStep ==
  ASSUME LifeInv, UNCHANGED <<apps, has, observed, raced>>,
         \A t \in Threads :
           \/ pc'[t] = pc[t] /\ target'[t] = target[t] /\ told'[t] = told[t]
           \/ /\ Quiet(t) /\ Quiet(t)'
              /\ pc'[t] \in {"call", "check", "insert"} => pc[t] \in {"call", "check", "insert"}
  PROVE  LifeInv'
<1> SUFFICES ASSUME NEW a \in Apps PROVE (UnbornInv(a) /\ CreationInv(a) /\ DeletionInv(a))'
  BY DEF LifeInv
<1>1. UnbornInv(a) /\ CreationInv(a) /\ DeletionInv(a) /\ a \in Threads
  BY ThreadFacts DEF LifeInv
<1>2. /\ Unborn(a)' => Unborn(a)
      /\ Building(a)' <=> Building(a)
      /\ RollingBack(a)' <=> RollingBack(a)
      /\ pc'[a] = "notify" => pc[a] = "notify" /\ told'[a] = told[a]
      /\ pc[a] = "notify" => pc'[a] = "notify" /\ told'[a] = told[a]
      /\ pc[a] = "observe" <=> pc'[a] = "observe"
  BY <1>1, Steps DEF Quiet, Unborn, Building, RollingBack
<1>3. \A t \in Threads : /\ Cleaning(t, a)' <=> Cleaning(t, a)
                         /\ pc'[t] \in Deleting => pc[t] \in Deleting /\ target'[t] = target[t]
                         /\ pc'[t] = "tell" => pc[t] = "tell" /\ told'[t] = told[t]
  BY Steps DEF Quiet, Cleaning
<1>4. /\ Clean(a)' <=> Clean(a)
      /\ Built(a)' <=> Built(a)
      /\ Routed(a)' <=> Routed(a)
  BY DEF Clean, Built, Routed
<1>5. UnbornInv(a)'
  BY <1>1, <1>2, <1>3, <1>4 DEF UnbornInv
<1>6. CreationInv(a)'
  BY <1>1, <1>2, <1>4 DEF CreationInv
<1>7. DeletionInv(a)'
  BY <1>1, <1>3, <1>4 DEF DeletionInv
<1> QED
  BY <1>5, <1>6, <1>7

LEMMA EraseKeepsLife ==
  ASSUME TypeInv, LifeInv, NEW t \in Threads, EraseApplication(t), target[t] \in apps
  PROVE  LifeInv'
<1> USE ThreadFacts, Steps
<1> DEFINE a == target[t]
<1>1. /\ pc[t] = "erase" /\ a \in Apps /\ pc'[t] = "unobserve" /\ target'[t] = a
      /\ \A u \in Threads \ {t} : pc'[u] = pc[u] /\ target'[u] = target[u] /\ told'[u] = told[u]
  BY DeleteMoves DEF Moved
<1>2. /\ apps' = apps \ {a} /\ has' = has /\ observed' = observed
      /\ raced' = IF pc[a] \in Creating THEN raced \cup {a} ELSE raced
  BY DEF EraseApplication
<1> HIDE DEF a
<1>3. a \in Threads /\ a \in apps /\ target[t] = a
  BY <1>1 DEF a
<1> SUFFICES ASSUME NEW b \in Apps PROVE (UnbornInv(b) /\ CreationInv(b) /\ DeletionInv(b))'
  BY DEF LifeInv
<1>4. UnbornInv(b) /\ CreationInv(b) /\ DeletionInv(b) /\ b \in Threads
  BY DEF LifeInv
<1>5. (Clean(b)' <=> Clean(b)) /\ (Built(b)' <=> Built(b)) /\ (Routed(b)' <=> Routed(b))
  BY <1>2 DEF Clean, Built, Routed
<1>6. ~ Unborn(a) /\ \A u \in Threads : ~ Cleaning(u, a)
  BY <1>1, <1>3 DEF LifeInv, UnbornInv, DeletionInv
<1>7. UnbornInv(b)'
  <2>1. Unborn(b)' => Unborn(b) /\ b # a
    BY <1>1, <1>3, <1>4, <1>6 DEF Unborn
  <2> QED
    BY <1>1, <1>2, <1>3, <1>4, <1>5, <2>1 DEF UnbornInv
<1>8. CreationInv(b)'
  <2>1. CASE b = a
    BY <1>1, <1>2, <1>3, <2>1 DEF CreationInv, Building, Creating
  <2>2. CASE b # a
    BY <1>1, <1>2, <1>3, <1>4, <1>5, <2>2 DEF CreationInv, Building, RollingBack
  <2> QED
    BY <2>1, <2>2
<1>9. DeletionInv(b)'
  <2>1. CASE b = a
    <3>1. \A u \in Threads : Cleaning(u, b)' <=> u = t
      BY <1>1, <1>3, <1>6, <2>1 DEF Cleaning
    <3>2. a \notin raced' => Routed(a)
      BY <1>2, <1>3, <1>4, <2>1 DEF CreationInv, Creating
    <3> QED
      BY <1>1, <1>2, <1>5, <2>1, <3>1, <3>2 DEF DeletionInv
  <2>2. CASE b # a
    <3>1. \A u \in Threads : /\ Cleaning(u, b)' <=> Cleaning(u, b)
                             /\ Cleaning(u, b) => pc'[u] = pc[u] /\ told'[u] = told[u]
      BY <1>1, <1>3, <2>2 DEF Cleaning
    <3> QED
      BY <1>2, <1>4, <1>5, <2>2, <3>1 DEF DeletionInv
  <2> QED
    BY <2>1, <2>2
<1> QED
  BY <1>7, <1>8, <1>9

LEMMA FindKeepsLife ==
  ASSUME TypeInv, LifeInv, NEW t \in Threads, FindToDelete(t) \/ (EraseApplication(t) /\ target[t] \notin apps)
  PROVE  LifeInv'
<1> USE ThreadFacts, Steps
<1> DEFINE a == target[t]
<1>1. /\ pc[t] \in {"find", "erase"} /\ a \in Apps
      /\ \/ a \in apps /\ pc'[t] = "erase" /\ target'[t] = a
         \/ a \notin apps /\ pc'[t] \in {"call", "done"} /\ (pc'[t] = "call" => t = Timer)
      /\ \A u \in Threads \ {t} : pc'[u] = pc[u] /\ target'[u] = target[u] /\ told'[u] = told[u]
  BY DeleteMoves DEF Moved, Ended
<1>2. UNCHANGED <<apps, has, observed, raced>>
  BY <1>1 DEF FindToDelete, EraseApplication
<1> HIDE DEF a
<1>3. a \in Threads /\ target[t] = a
  BY <1>1 DEF a
<1> SUFFICES ASSUME NEW b \in Apps PROVE (UnbornInv(b) /\ CreationInv(b) /\ DeletionInv(b))'
  BY DEF LifeInv
<1>4. UnbornInv(b) /\ CreationInv(b) /\ DeletionInv(b) /\ b \in Threads
  BY DEF LifeInv
<1>5. (Clean(b)' <=> Clean(b)) /\ (Built(b)' <=> Built(b)) /\ (Routed(b)' <=> Routed(b))
  BY <1>2 DEF Clean, Built, Routed
<1>6. /\ Unborn(b)' => Unborn(b)
      /\ Building(b)' <=> Building(b)
      /\ pc'[b] = "notify" => pc[b] = "notify" /\ told'[b] = told[b]
      /\ pc'[b] = "observe" <=> pc[b] = "observe"
      /\ pc'[b] = "notify" <=> pc[b] = "notify"
      /\ b \in apps /\ RollingBack(b) => RollingBack(b)' \/ Built(b)
  <2>1. CASE b = t
    <3>1. b \in apps /\ a # b => FALSE
      BY <1>1, <1>3, <1>4, <2>1 DEF UnbornInv, Unborn
    <3> QED
      BY <1>1, <1>3, <2>1, <3>1 DEF Unborn, Building, RollingBack
  <2>2. CASE b # t
    BY <1>1, <1>4, <2>2 DEF Unborn, Building, RollingBack
  <2> QED
    BY <2>1, <2>2
<1>7. \A u \in Threads : /\ Cleaning(u, b)' <=> Cleaning(u, b)
                         /\ Cleaning(u, b) => pc'[u] = pc[u] /\ told'[u] = told[u]
                         /\ pc'[u] \in Deleting => pc[u] \in Deleting /\ target'[u] = target[u]
  BY <1>1, <1>3 DEF Cleaning
<1>8. UnbornInv(b)'
  BY <1>2, <1>4, <1>5, <1>6, <1>7 DEF UnbornInv
<1>9. CreationInv(b)'
  BY <1>2, <1>4, <1>5, <1>6 DEF CreationInv
<1>10. DeletionInv(b)'
  BY <1>2, <1>4, <1>5, <1>7 DEF DeletionInv
<1> QED
  BY <1>8, <1>9, <1>10

LEMMA UnobserveKeepsLife ==
  ASSUME TypeInv, LifeInv, NEW t \in Threads, UnobserveRouter(t)
  PROVE  LifeInv'
<1> USE ThreadFacts, Steps
<1> DEFINE a == target[t]
<1>1. /\ pc[t] = "unobserve" /\ a \in Apps /\ pc'[t] = "tell" /\ target'[t] = a /\ told'[t] = 3
      /\ \A u \in Threads \ {t} : pc'[u] = pc[u] /\ target'[u] = target[u] /\ told'[u] = told[u]
  BY DeleteMoves DEF Moved
<1>2. UNCHANGED <<apps, has, raced>> /\ observed' = observed \ {a}
  BY DEF UnobserveRouter
<1> HIDE DEF a
<1>3. a \in Threads /\ target[t] = a
  BY <1>1 DEF a
<1> SUFFICES ASSUME NEW b \in Apps PROVE (UnbornInv(b) /\ CreationInv(b) /\ DeletionInv(b))'
  BY DEF LifeInv
<1>4. UnbornInv(b) /\ CreationInv(b) /\ DeletionInv(b) /\ b \in Threads
  BY DEF LifeInv
<1>5. /\ Clean(b) => Clean(b)'
      /\ b # a => (Built(b)' <=> Built(b))
      /\ Routed(b)' <=> Routed(b)
  BY <1>2 DEF Clean, Built, Routed
<1>6. a \notin apps
  BY <1>1, <1>3 DEF LifeInv, DeletionInv, Cleaning
<1>7. /\ Unborn(b)' <=> Unborn(b)
      /\ Building(b)' <=> Building(b)
      /\ RollingBack(b)' <=> RollingBack(b)
      /\ pc'[b] = "notify" => pc[b] = "notify" /\ told'[b] = told[b]
      /\ pc'[b] = "observe" <=> pc[b] = "observe"
      /\ pc'[b] = "notify" <=> pc[b] = "notify"
  BY <1>1, <1>3, <1>4 DEF Unborn, Building, RollingBack
<1>8. \A u \in Threads : /\ Cleaning(u, b)' <=> Cleaning(u, b)
                         /\ pc'[u] \in Deleting <=> pc[u] \in Deleting
                         /\ target'[u] = target[u]
                         /\ u # t => pc'[u] = pc[u] /\ told'[u] = told[u]
  BY <1>1, <1>3 DEF Cleaning
<1>9. UnbornInv(b)'
  BY <1>2, <1>4, <1>5, <1>7, <1>8 DEF UnbornInv
<1>10. CreationInv(b)'
  BY <1>2, <1>4, <1>5, <1>6, <1>7 DEF CreationInv
<1>11. DeletionInv(b)'
  <2>1. ASSUME NEW u \in Threads, Cleaning(u, b)'
        PROVE  /\ b \notin apps' /\ \A v \in Threads : Cleaning(v, b)' => v = u
               /\ pc'[u] = "tell" => b \notin observed'
               /\ b \notin raced' => Routed(b)'
               /\ b \notin raced' /\ pc'[u] = "tell" => has'[b] \subseteq Below(told'[u] + 1)
    <3>1. /\ Cleaning(u, b)
          /\ b \notin apps /\ \A v \in Threads : Cleaning(v, b) => v = u
          /\ pc[u] = "tell" => b \notin observed
          /\ b \notin raced => Routed(b)
          /\ b \notin raced /\ pc[u] = "tell" => has[b] \subseteq Below(told[u] + 1)
      BY <1>4, <1>8, <2>1 DEF DeletionInv
    <3>2. CASE u = t
      <4>1. b = a /\ told'[u] + 1 = 4
        BY <1>1, <1>3, <3>1, <3>2 DEF Cleaning
      <4>2. has[b] \subseteq Below(4)
        BY ModuleFacts DEF TypeInv, TypeOK
      <4> QED
        BY <1>2, <1>5, <1>8, <3>1, <4>1, <4>2
    <3>3. CASE u # t
      BY <1>2, <1>5, <1>8, <3>1, <3>3
    <3> QED
      BY <3>2, <3>3
  <2>2. b \notin apps' \cup raced' => Clean(b)' \/ \E u \in Threads : Cleaning(u, b)'
    BY <1>2, <1>4, <1>5, <1>8 DEF DeletionInv
  <2> QED
    BY <2>1, <2>2 DEF DeletionInv
<1> QED
  BY <1>9, <1>10, <1>11

\* The media router keeps an application that was not deleted during its creation to the
\* end, so that the provider can give it up and nothing of it stays.
LEMMA ModuleDeletesKeepsLife ==
  ASSUME TypeInv, LifeInv, NEW t \in Threads, ModuleDeletes(t)
  PROVE  LifeInv' /\ (crashed' => target[t] \in raced)
<1> USE ThreadFacts, Steps
<1>0. PICK a \in Apps, k \in 1..3 : a = target[t] /\ k = told[t]
  BY DeleteMoves
<1>1. /\ pc[t] = "tell" /\ a \in Apps /\ k \in 1..3
      /\ \/ k = 1 /\ pc'[t] \in {"found", "check", "done", "call"}
            /\ (pc'[t] = "check" => a # t) /\ (pc'[t] = "call" => t = Timer)
         \/ k # 1 /\ pc'[t] = "tell" /\ target'[t] = a /\ told'[t] = k - 1
      /\ \A u \in Threads \ {t} : pc'[u] = pc[u] /\ target'[u] = target[u] /\ told'[u] = told[u]
  BY <1>0, DeleteMoves DEF Moved, Ended
<1>2. /\ UNCHANGED <<apps, observed, raced>>
      /\ crashed' = (Modules[k] = "mediarouter" /\ ~ Routed(a))
      /\ has' = IF Modules[k] = "provider" /\ ~ Routed(a) THEN has
                ELSE [has EXCEPT ![a] = @ \ {Modules[k]}]
  BY <1>0 DEF ModuleDeletes
<1>3. a \in Threads /\ target[t] = a /\ told[t] = k
  BY <1>0
<1>h. has \in [Apps -> SUBSET {"mediarouter", "transcoder", "provider"}]
  BY ModuleFacts DEF TypeInv, TypeOK
<1>4. /\ a \notin apps \cup observed
      /\ \A u \in Threads : Cleaning(u, a) <=> u = t
      /\ a \notin raced => Routed(a) /\ has[a] \subseteq Below(k + 1)
      /\ ~ Unborn(a)
  <2>1. Cleaning(t, a) /\ pc[t] \in Deleting
    BY <1>1, <1>3 DEF Cleaning
  <2> QED
    BY <1>1, <1>3, <2>1 DEF LifeInv, DeletionInv, UnbornInv
<1>5. crashed' => a \in raced
  BY <1>2, <1>4
<1>6. /\ a \notin raced /\ k = 1 => has'[a] = {}
      /\ a \notin raced /\ k # 1 => Routed(a)' /\ has'[a] \subseteq Below(k)
  <2>1. a \notin raced => has'[a] = has[a] \ {Modules[k]}
    BY <1>1, <1>2, <1>4, <1>h
  <2>2. CASE k = 1
    BY <1>4, <2>1, <2>2, ModuleFacts
  <2>3. ASSUME k = 2, a \notin raced PROVE Routed(a)' /\ has'[a] \subseteq Below(k)
    <3>1. /\ k + 1 = 3 /\ Below(3) = {"mediarouter", "transcoder"}
          /\ Below(k) = {"mediarouter"} /\ Modules[k] = "transcoder"
      BY <2>3, ModuleFacts
    <3>2. "mediarouter" \in has[a] /\ has[a] \subseteq {"mediarouter", "transcoder"}
      BY <1>4, <2>3, <3>1 DEF Routed
    <3> QED
      BY <2>1, <2>3, <3>1, <3>2 DEF Routed
  <2>4. ASSUME k = 3, a \notin raced PROVE Routed(a)' /\ has'[a] \subseteq Below(k)
    <3>1. Below(k) = {"mediarouter", "transcoder"} /\ Modules[k] = "provider"
      BY <2>4, ModuleFacts
    <3>2. "mediarouter" \in has[a] /\ has[a] \subseteq {"mediarouter", "transcoder", "provider"}
      BY <1>3, <1>4, <1>1, <1>h, <2>4 DEF Routed
    <3> QED
      BY <2>1, <2>4, <3>1, <3>2 DEF Routed
  <2> QED
    BY <1>1, <2>2, <2>3, <2>4
<1> SUFFICES ASSUME NEW b \in Apps PROVE (UnbornInv(b) /\ CreationInv(b) /\ DeletionInv(b))'
  BY <1>3, <1>5 DEF LifeInv
<1>7. UnbornInv(b) /\ CreationInv(b) /\ DeletionInv(b) /\ b \in Threads
  BY DEF LifeInv
<1>8. b # a => /\ has'[b] = has[b]
               /\ Clean(b)' <=> Clean(b)
               /\ Built(b)' <=> Built(b)
               /\ Routed(b)' <=> Routed(b)
  BY <1>2, <1>h DEF Clean, Built, Routed
<1>9. UnbornInv(b)'
  <2>1. Unborn(b)' => Unborn(b) /\ b # a
    BY <1>1, <1>3, <1>4, <1>7 DEF Unborn
  <2>2. \A u \in Threads : pc'[u] \in Deleting => pc[u] \in Deleting /\ target'[u] = target[u]
    BY <1>1, <1>3
  <2> QED
    BY <1>2, <1>7, <1>8, <2>1, <2>2 DEF UnbornInv
<1>10. CreationInv(b)'
  <2>1. /\ Building(b)' => Building(b)
        /\ Building(b) => Building(b)'
        /\ RollingBack(b) => RollingBack(b)'
        /\ pc'[b] = "notify" => pc[b] = "notify" /\ told'[b] = told[b]
        /\ pc'[b] = "observe" => pc[b] = "observe"
        /\ pc[b] = "notify" => pc'[b] = "notify"
    BY <1>1, <1>3, <1>7 DEF Building, RollingBack
  <2>2. CASE b = a
    BY <1>2, <1>4, <1>7, <2>1, <2>2 DEF CreationInv
  <2>3. CASE b # a
    BY <1>2, <1>7, <1>8, <2>1, <2>3 DEF CreationInv
  <2> QED
    BY <2>2, <2>3
<1>11. DeletionInv(b)'
  <2>1. CASE b = a
    <3>1. \A u \in Threads : Cleaning(u, b)' => u = t /\ k # 1 /\ pc'[t] = "tell" /\ told'[t] + 1 = k
      <4>1. k # 1 => (k - 1) + 1 = k
        BY <1>1
      <4> QED
        BY <1>1, <1>4, <2>1, <4>1 DEF Cleaning
    <3>2. k # 1 => Cleaning(t, b)'
      BY <1>1, <2>1 DEF Cleaning
    <3>3. k = 1 /\ a \notin raced => Clean(b)'
      BY <1>2, <1>4, <1>6, <2>1 DEF Clean
    <3>4. ASSUME NEW u \in Threads, Cleaning(u, b)'
          PROVE  /\ b \notin apps' /\ \A v \in Threads : Cleaning(v, b)' => v = u
                 /\ pc'[u] = "tell" => b \notin observed'
                 /\ b \notin raced' => Routed(b)'
                 /\ b \notin raced' /\ pc'[u] = "tell" => has'[b] \subseteq Below(told'[u] + 1)
      <4>1. u = t /\ k # 1 /\ told'[u] + 1 = k
        BY <3>1, <3>4
      <4>2. b \notin raced => Routed(b)' /\ has'[b] \subseteq Below(told'[u] + 1)
        BY <1>6, <2>1, <4>1
      <4> QED
        BY <1>2, <1>4, <2>1, <3>1, <4>1, <4>2
    <3>5. b \notin apps' \cup raced' => Clean(b)' \/ \E u \in Threads : Cleaning(u, b)'
      BY <1>2, <2>1, <3>2, <3>3
    <3> QED
      BY <3>4, <3>5 DEF DeletionInv
  <2>2. CASE b # a
    <3>1. \A u \in Threads : /\ Cleaning(u, b)' <=> Cleaning(u, b)
                             /\ Cleaning(u, b) => pc'[u] = pc[u] /\ told'[u] = told[u]
      BY <1>1, <1>3, <2>2 DEF Cleaning
    <3> QED
      BY <1>2, <1>7, <1>8, <2>2, <3>1 DEF DeletionInv
  <2> QED
    BY <2>1, <2>2
<1> QED
  BY <1>9, <1>10, <1>11

\* An administrator or the timer sets out to delete an application of the virtual host.
LEMMA CallKeepsLife ==
  ASSUME TypeInv, LifeInv, NEW t \in Threads, NEW a \in apps, Moved(t, "find", a, 0),
         pc[t] = "call", UNCHANGED <<apps, has, observed, raced>>
  PROVE  LifeInv'
<1> USE ThreadFacts, Steps
<1>1. /\ pc'[t] = "find" /\ target'[t] = a
      /\ \A u \in Threads \ {t} : pc'[u] = pc[u] /\ target'[u] = target[u] /\ told'[u] = told[u]
  BY DEF Moved
<1> SUFFICES ASSUME NEW b \in Apps PROVE (UnbornInv(b) /\ CreationInv(b) /\ DeletionInv(b))'
  BY DEF LifeInv
<1>2. UnbornInv(b) /\ CreationInv(b) /\ DeletionInv(b) /\ b \in Threads
  BY DEF LifeInv
<1>3. (Clean(b)' <=> Clean(b)) /\ (Built(b)' <=> Built(b)) /\ (Routed(b)' <=> Routed(b))
  BY DEF Clean, Built, Routed
<1>4. /\ Unborn(b)' => Unborn(b)
      /\ Building(b)' <=> Building(b)
      /\ RollingBack(b) => RollingBack(b)'
      /\ pc'[b] = "notify" => pc[b] = "notify" /\ told'[b] = told[b]
      /\ pc'[b] = "observe" <=> pc[b] = "observe"
      /\ pc'[b] = "notify" <=> pc[b] = "notify"
  BY <1>1, <1>2 DEF Unborn, Building, RollingBack
<1>5. \A u \in Threads :
        /\ Cleaning(u, b)' <=> Cleaning(u, b)
        /\ Cleaning(u, b) => pc'[u] = pc[u] /\ told'[u] = told[u]
        /\ pc'[u] \in Deleting => (pc[u] \in Deleting /\ target'[u] = target[u]) \/ target'[u] = a
  BY <1>1 DEF Cleaning
<1>6. UnbornInv(b)'
  BY <1>2, <1>3, <1>4, <1>5 DEF UnbornInv
<1>7. CreationInv(b)'
  BY <1>2, <1>3, <1>4 DEF CreationInv
<1>8. DeletionInv(b)'
  BY <1>2, <1>3, <1>5 DEF DeletionInv
<1> QED
  BY <1>6, <1>7, <1>8

\* The steps by which a thread creates its own application concern that one alone.
LEMMA CreateFrame ==
  ASSUME LifeInv, NEW t \in Apps,
         ~ Cleaning(t, t), ~ Cleaning(t, t)',
         pc[t] \notin Deleting, pc'[t] \notin Deleting \/ target'[t] = t,
         \A u \in Threads \ {t} : pc'[u] = pc[u] /\ target'[u] = target[u] /\ told'[u] = told[u],
         raced' = raced, NEW b \in Apps \ {t},
         b \in apps' <=> b \in apps, has'[b] = has[b], b \in observed' <=> b \in observed
  PROVE  (UnbornInv(b) /\ CreationInv(b) /\ DeletionInv(b))'
<1> USE ThreadFacts, Steps
<1>1. UnbornInv(b) /\ CreationInv(b) /\ DeletionInv(b) /\ b \in Threads
  BY DEF LifeInv
<1>2. (Clean(b)' <=> Clean(b)) /\ (Built(b)' <=> Built(b)) /\ (Routed(b)' <=> Routed(b))
  BY DEF Clean, Built, Routed
<1>3. /\ Unborn(b)' <=> Unborn(b)
      /\ Building(b)' <=> Building(b)
      /\ RollingBack(b) <=> RollingBack(b)'
      /\ pc'[b] = pc[b] /\ told'[b] = told[b]
  BY <1>1 DEF Unborn, Building, RollingBack
<1>4. \A u \in Threads : /\ Cleaning(u, b)' <=> Cleaning(u, b)
                         /\ Cleaning(u, b) => pc'[u] = pc[u] /\ told'[u] = told[u]
                         /\ pc'[u] \in Deleting /\ target'[u] = b =>
                              pc[u] \in Deleting /\ target[u] = b
  BY DEF Cleaning
<1>5. UnbornInv(b)'
  BY <1>1, <1>2, <1>3, <1>4 DEF UnbornInv
<1>6. CreationInv(b)'
  BY <1>1, <1>2, <1>3 DEF CreationInv
<1>7. DeletionInv(b)'
  BY <1>1, <1>2, <1>4 DEF DeletionInv
<1> QED
  BY <1>5, <1>6, <1>7

LEMMA InsertKeepsLife ==
  ASSUME TypeInv, LifeInv, NEW t \in Apps, InsertApplication(t)
  PROVE  LifeInv'
<1> USE ThreadFacts, Steps
<1>1. /\ t \in Threads /\ pc[t] = "insert" /\ pc'[t] = "notify" /\ told'[t] = 1
      /\ \A u \in Threads \ {t} : pc'[u] = pc[u] /\ target'[u] = target[u] /\ told'[u] = told[u]
  BY CreateMoves DEF Moved
<1>2. apps' = apps \cup {t} /\ has' = has /\ observed' = observed /\ raced' = raced
  BY DEF InsertApplication
<1>3. \A b \in Apps \ {t} : (UnbornInv(b) /\ CreationInv(b) /\ DeletionInv(b))'
  BY <1>1, <1>2, CreateFrame DEF Cleaning
<1>4. /\ t \notin raced /\ has[t] = {}
      /\ \A u \in Threads : pc[u] \in Deleting => target[u] # t
  BY <1>1 DEF LifeInv, UnbornInv, Unborn, Clean
<1>5. UnbornInv(t)'
  BY <1>1 DEF UnbornInv, Unborn
<1>6. CreationInv(t)'
  BY <1>1, <1>2, <1>4, ModuleFacts DEF CreationInv, Building
<1>7. DeletionInv(t)'
  <2>1. \A u \in Threads : ~ Cleaning(u, t)'
    BY <1>1, <1>4 DEF Cleaning
  <2> QED
    BY <1>2, <2>1 DEF DeletionInv
<1> QED
  BY <1>3, <1>5, <1>6, <1>7 DEF LifeInv

\* Whoever deletes an application whose creation goes on has it among the raced ones.
LEMMA BuildingFacts ==
  ASSUME TypeInv, LifeInv, NEW t \in Apps, Building(t)
  PROVE  /\ t \notin apps => t \in raced
         /\ \A u \in Threads : Cleaning(u, t) =>
              /\ t \notin apps /\ t \in raced
              /\ \A v \in Threads : Cleaning(v, t) => v = u
              /\ pc[u] = "tell" => t \notin observed
         /\ t \in apps /\ pc[t] # "notify" => Routed(t)
         /\ t \in apps /\ pc[t] = "notify" => has[t] = Below(told[t])
<1>1. CreationInv(t) /\ DeletionInv(t)
  BY DEF LifeInv
<1>2. t \notin apps => t \in raced
  BY <1>1 DEF CreationInv
<1>3. \A u \in Threads : Cleaning(u, t) =>
        /\ t \notin apps
        /\ \A v \in Threads : Cleaning(v, t) => v = u
        /\ pc[u] = "tell" => t \notin observed
  BY <1>1 DEF DeletionInv
<1> QED
  BY <1>1, <1>2, <1>3 DEF CreationInv

\* As the creation goes on, nothing changes for who deletes the application.
LEMMA DeletionFrame ==
  ASSUME TypeInv, LifeInv, NEW t \in Apps, Building(t), pc'[t] \notin {"unobserve", "tell"},
         \A u \in Threads \ {t} : pc'[u] = pc[u] /\ target'[u] = target[u] /\ told'[u] = told[u],
         apps' = apps, raced' = raced, t \notin apps => (t \in observed' => t \in observed)
  PROVE  DeletionInv(t)'
<1>1. t \in Threads /\ pc[t] \notin {"unobserve", "tell"}
  BY ThreadFacts DEF Building
<1>2. \A u \in Threads : /\ Cleaning(u, t)' <=> Cleaning(u, t)
                         /\ Cleaning(u, t) => pc'[u] = pc[u]
  BY <1>1 DEF Cleaning
<1> QED
  BY <1>2, BuildingFacts DEF DeletionInv

LEMMA ModuleCreatesKeepsLife ==
  ASSUME TypeInv, LifeInv, NEW t \in Apps, ModuleCreates(t)
  PROVE  LifeInv'
<1> USE ThreadFacts, Steps
<1>0. PICK k \in 1..3 : k = told[t]
  <2>1. told[t] \in 0..3 /\ pc[t] = "notify"
    BY ModuleFacts DEF TypeInv, TypeOK, ModuleCreates
  <2> QED
    BY <2>1 DEF TypeInv, Targets
<1>1. /\ t \in Threads /\ pc[t] = "notify" /\ Building(t)
      /\ IF k = 3 THEN pc'[t] = "observe" ELSE pc'[t] = "notify" /\ told'[t] = k + 1
      /\ \A u \in Threads \ {t} : pc'[u] = pc[u] /\ target'[u] = target[u] /\ told'[u] = told[u]
  BY <1>0, CreateMoves DEF Moved, Building, ModuleCreates
<1>2. /\ apps' = apps /\ observed' = observed /\ raced' = raced
      /\ has' = [has EXCEPT ![t] = @ \cup {Modules[k]}]
  BY <1>0 DEF ModuleCreates
<1>3. has'[t] = has[t] \cup {Modules[k]} /\ \A b \in Apps \ {t} : has'[b] = has[b]
  BY <1>2 DEF TypeInv, TypeOK
<1>4. \A b \in Apps \ {t} : (UnbornInv(b) /\ CreationInv(b) /\ DeletionInv(b))'
  BY <1>1, <1>2, <1>3, CreateFrame DEF Cleaning
<1>5. UnbornInv(t)'
  BY <1>1 DEF UnbornInv, Unborn
<1>6. CreationInv(t)'
  <2>1. t \in apps => has'[t] = Below(k + 1) /\ Routed(t)'
    <3>1. t \in apps => has'[t] = Below(k) \cup {Modules[k]}
      BY <1>0, <1>1, <1>3, BuildingFacts
    <3>2. Below(k) \cup {Modules[k]} = Below(k + 1) /\ "mediarouter" \in Below(k + 1)
      <4>1. CASE k = 1
        BY <4>1, ModuleFacts
      <4>2. CASE k = 2
        BY <4>2, ModuleFacts
      <4>3. CASE k = 3
        BY <4>3, ModuleFacts
      <4> QED
        BY <4>1, <4>2, <4>3
    <3> QED
      BY <3>1, <3>2 DEF Routed
  <2>2. Below(3 + 1) = AllModules
    BY ModuleFacts DEF AllModules
  <2>3. t \in apps' \cup raced'
    BY <1>1, <1>2, BuildingFacts
  <2> QED
    BY <1>1, <1>2, <2>1, <2>2, <2>3 DEF CreationInv, Building
<1>7. DeletionInv(t)'
  BY <1>1, <1>2, DeletionFrame
<1> QED
  BY <1>4, <1>5, <1>6, <1>7 DEF LifeInv

LEMMA ModuleRefusesKeepsLife ==
  ASSUME TypeInv, LifeInv, NEW t \in Apps, ModuleRefuses(t)
  PROVE  LifeInv'
<1> USE ThreadFacts, Steps
<1>0. PICK k \in 1..3 : k = told[t]
  <2>1. told[t] \in 0..3 /\ pc[t] = "notify"
    BY ModuleFacts DEF TypeInv, TypeOK, ModuleRefuses
  <2> QED
    BY <2>1 DEF TypeInv, Targets
<1>1. /\ t \in Threads /\ pc[t] = "notify" /\ Building(t) /\ pc'[t] = "refused"
      /\ \A u \in Threads \ {t} : pc'[u] = pc[u] /\ target'[u] = target[u] /\ told'[u] = told[u]
  BY CreateMoves DEF Moved, Building
<1>2. /\ apps' = apps /\ observed' = observed /\ raced' = raced
      /\ Modules[k] \in {"transcoder", "provider"}
      /\ has' = has \/ has' = [has EXCEPT ![t] = @ \cup {"transcoder"}]
  BY <1>0 DEF ModuleRefuses
<1>3. has[t] \subseteq has'[t] /\ \A b \in Apps \ {t} : has'[b] = has[b]
  BY <1>2 DEF TypeInv, TypeOK
<1>4. \A b \in Apps \ {t} : (UnbornInv(b) /\ CreationInv(b) /\ DeletionInv(b))'
  BY <1>1, <1>2, <1>3, CreateFrame DEF Cleaning
<1>5. UnbornInv(t)'
  BY <1>1 DEF UnbornInv, Unborn
<1>6. CreationInv(t)'
  <2>1. "mediarouter" \in Below(k)
    <3>1. k = 2 \/ k = 3
      BY <1>2, ModuleFacts
    <3> QED
      BY <3>1, ModuleFacts
  <2>2. t \in apps => Routed(t)'
    BY <1>0, <1>1, <1>3, <2>1, BuildingFacts DEF Routed
  <2>3. t \in apps' \cup raced'
    BY <1>1, <1>2, BuildingFacts
  <2> QED
    BY <1>1, <1>2, <2>2, <2>3 DEF CreationInv, Building
<1>7. DeletionInv(t)'
  BY <1>1, <1>2, DeletionFrame
<1> QED
  BY <1>4, <1>5, <1>6, <1>7 DEF LifeInv

LEMMA ObserveKeepsLife ==
  ASSUME TypeInv, LifeInv, NEW t \in Apps, ObserveRouter(t)
  PROVE  LifeInv'
<1> USE ThreadFacts, Steps
<1>1. /\ t \in Threads /\ pc[t] \in {"observe", "refused"} /\ Building(t)
      /\ IF pc[t] = "observe" /\ t \in apps
           THEN pc'[t] \in {"found", "done"} ELSE pc'[t] = "find" /\ target'[t] = t
      /\ \A u \in Threads \ {t} : pc'[u] = pc[u] /\ target'[u] = target[u] /\ told'[u] = told[u]
  BY CreateMoves DEF Moved, Ended, Building
<1>2. /\ apps' = apps /\ has' = has /\ raced' = raced
      /\ observed' = IF t \in apps /\ Routed(t) THEN observed \cup {t} ELSE observed
  BY DEF ObserveRouter
<1>3. t \in apps => Routed(t) /\ t \in observed'
  BY <1>1, <1>2, BuildingFacts
<1>4. \A b \in Apps \ {t} : (UnbornInv(b) /\ CreationInv(b) /\ DeletionInv(b))'
  BY <1>1, <1>2, CreateFrame DEF Cleaning
<1>5. UnbornInv(t)'
  BY <1>1 DEF UnbornInv, Unborn
<1>6. CreationInv(t)'
  <2>1. t \in apps /\ pc[t] = "observe" => Built(t)'
    BY <1>2, <1>3 DEF LifeInv, CreationInv, Built
  <2>2. ~ Building(t)' /\ pc'[t] # "notify" /\ pc'[t] # "observe"
    BY <1>1 DEF Building
  <2>3. t \in apps /\ pc[t] # "observe" => RollingBack(t)'
    BY <1>1 DEF RollingBack
  <2>4. t \in apps => Routed(t)'
    BY <1>2, <1>3 DEF Routed
  <2> QED
    BY <1>2, <2>1, <2>2, <2>3, <2>4 DEF CreationInv
<1>7. DeletionInv(t)'
  BY <1>1, <1>2, DeletionFrame
<1> QED
  BY <1>4, <1>5, <1>6, <1>7 DEF LifeInv

-----------------------------------------------------------------------------
\* The invariant says what the properties promise of an application at rest.
LEMMA LifeImplies == TypeInv /\ LifeInv => CreatedEverywhere /\ DeletedEverywhere
<1> SUFFICES ASSUME TypeInv, LifeInv PROVE CreatedEverywhere /\ DeletedEverywhere
  OBVIOUS
<1> USE ThreadFacts, Steps
<1>1. ASSUME NEW a \in apps, AtRest(a) PROVE has[a] = AllModules /\ a \in observed
  <2>1. a \in Apps /\ a \in Threads
    BY DEF TypeInv, TypeOK
  <2>2. ~ Building(a) /\ ~ RollingBack(a)
    BY <1>1, <2>1 DEF AtRest, Building, RollingBack, Creating
  <2> QED
    BY <2>1, <2>2 DEF LifeInv, CreationInv, Built
<1>2. ASSUME NEW a \in Apps \ (apps \cup raced), AtRest(a) PROVE has[a] = {} /\ a \notin observed
  <2>1. \A t \in Threads : ~ Cleaning(t, a)
    BY <1>2 DEF AtRest, Cleaning
  <2> QED
    BY <2>1 DEF LifeInv, DeletionInv, Clean
<1> QED
  BY <1>1, <1>2 DEF CreatedEverywhere, DeletedEverywhere, AllModules

IInv == TypeInv /\ LifeInv /\ NoNullRoute

LEMMA LifeStep == IInv /\ [Next]_vars => IInv'
<1> SUFFICES ASSUME IInv, [Next]_vars PROVE LifeInv' /\ NoNullRoute'
  BY TypeStep DEF IInv
<1> USE ThreadFacts, Steps DEF IInv
<1>1. ASSUME NEW r \in Pullers, Request(r) PROVE LifeInv' /\ NoNullRoute'
  <2>1. PICK step \in {"pull", "check", "done", "add", "map", "use"},
             a \in Apps \cup {None}, k \in 0..Len(Modules) :
               Moved(r, step, a, k) /\ (step = "check" => pc[r] = "call")
    BY <1>1, RequestMoves
  <2>2. pc[r] \in {"call", "found", "pull", "add", "map", "use"}
    BY <1>1, RequestMoves
  <2>3. UNCHANGED <<apps, has, observed, raced, crashed>>
    BY <1>1 DEF Request, FindApplication, PullStream, AddStream, MapStream, StopIdleTimer
  <2>4. LifeInv'
    BY <2>1, <2>2, <2>3, QuietStep DEF Moved, Quiet
  <2> QED
    BY <2>3, <2>4 DEF NoNullRoute
<1>3. ASSUME \/ UNCHANGED vars
             \/ \E r \in Pullers : StreamEnds(r) \/ StreamDeleted(r)
      PROVE  LifeInv' /\ NoNullRoute'
  <2>1. UNCHANGED <<apps, has, observed, raced, crashed, pc, target, told>>
    BY <1>3 DEF StreamEnds, StreamDeleted, LookWhetherLast, StartIdleTimer, vars, control
  <2>2. LifeInv'
    BY <2>1, QuietStep
  <2> QED
    BY <2>1, <2>2 DEF NoNullRoute
<1>4. ASSUME NEW t \in Apps, Create(t) PROVE LifeInv' /\ NoNullRoute'
  <2>1. CASE CheckName(t)
    <3>1. /\ pc[t] = "check" /\ pc'[t] \in {"done", "insert"} /\ t \in Threads
          /\ \A u \in Threads \ {t} : pc'[u] = pc[u] /\ target'[u] = target[u] /\ told'[u] = told[u]
      BY <2>1, CreateMoves DEF Moved, Ended
    <3>2. UNCHANGED <<apps, has, observed, raced>>
      BY <2>1 DEF CheckName
    <3> QED
      BY <2>1, <3>1, <3>2, QuietStep DEF Quiet, CheckName, NoNullRoute
  <2>2. CASE InsertApplication(t)
    BY <2>2, InsertKeepsLife DEF InsertApplication, NoNullRoute
  <2>3. CASE ModuleCreates(t)
    BY <2>3, ModuleCreatesKeepsLife DEF ModuleCreates, NoNullRoute
  <2>4. CASE ModuleRefuses(t)
    BY <2>4, ModuleRefusesKeepsLife DEF ModuleRefuses, NoNullRoute
  <2>5. CASE ObserveRouter(t)
    BY <2>5, ObserveKeepsLife DEF ObserveRouter, NoNullRoute
  <2> QED
    BY <1>4, <2>1, <2>2, <2>3, <2>4, <2>5 DEF Create
<1>5. ASSUME NEW t \in Threads, Delete(t) PROVE LifeInv' /\ NoNullRoute'
  <2>1. CASE FindToDelete(t)
    BY <2>1, FindKeepsLife DEF FindToDelete, NoNullRoute
  <2>2. CASE EraseApplication(t)
    <3>1. LifeInv'
      BY <2>2, FindKeepsLife, EraseKeepsLife
    <3>2. crashed' = crashed /\ raced \subseteq raced'
      BY <2>2 DEF EraseApplication
    <3> QED
      BY <3>1, <3>2 DEF NoNullRoute
  <2>3. CASE UnobserveRouter(t)
    BY <2>3, UnobserveKeepsLife DEF UnobserveRouter, NoNullRoute
  <2>4. CASE ModuleDeletes(t)
    BY <2>4, ModuleDeletesKeepsLife DEF ModuleDeletes, NoNullRoute
  <2> QED
    BY <1>5, <2>1, <2>2, <2>3, <2>4 DEF Delete
<1>6. ASSUME NEW t \in Threads, (t \in Admins /\ ApiCall(t)) \/ (t = Timer /\ TimerFires)
      PROVE  LifeInv' /\ NoNullRoute'
  <2>1. UNCHANGED <<apps, has, observed, raced, crashed>>
    BY <1>6 DEF ApiCall, TimerFires
  <2>2. /\ pc[t] = "call"
        /\ Moved(t, "check", None, 0) \/ \E a \in apps : Moved(t, "find", a, 0)
    BY <1>6, CallMoves
  <2>3. CASE Moved(t, "check", None, 0)
    <3>1. LifeInv'
      BY <2>1, <2>2, <2>3, QuietStep DEF Moved, Quiet
    <3> QED
      BY <2>1, <3>1 DEF NoNullRoute
  <2>4. CASE \E a \in apps : Moved(t, "find", a, 0)
    BY <2>1, <2>2, <2>4, CallKeepsLife DEF NoNullRoute
  <2> QED
    BY <2>2, <2>3, <2>4
<1> QED
  BY <1>1, <1>3, <1>4, <1>5, <1>6 DEF Next

LEMMA IInvariant == Spec => []IInv
<1>1. Init => IInv
  BY TypeInit, LifeInit DEF IInv, NoNullRoute, Init
<1> QED
  BY <1>1, LifeStep, PTL DEF Spec

\* An application of the virtual host that nobody creates or deletes at the moment exists in
\* every module and is observed (CreateApplication, orchestrator.cpp:1306).
THEOREM CreatedIsEverywhere == Spec => []CreatedEverywhere
<1>1. IInv => CreatedEverywhere
  BY LifeImplies DEF IInv
<1> QED
  BY <1>1, IInvariant, PTL

\* An application that was deleted after its creation is left in no module, however many
\* threads deleted it at once (DeleteApplication, orchestrator.cpp:249).
THEOREM DeletedIsNowhere == Spec => []DeletedEverywhere
<1>1. IInv => DeletedEverywhere
  BY LifeImplies DEF IInv
<1> QED
  BY <1>1, IInvariant, PTL

\* The media router is told to delete an application that it does not have only when the
\* deletion began during the creation (mediarouter.cpp:98).
THEOREM RouterHasWhatItDeletes == Spec => []NoNullRoute
<1>1. IInv => NoNullRoute
  BY DEF IInv
<1> QED
  BY <1>1, IInvariant, PTL
=============================================================================
