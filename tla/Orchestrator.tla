---------------------------- MODULE Orchestrator ----------------------------
(* The orchestrator (orchestrator/): applications of one virtual host, created *)
(* by requests that pull a stream into a dynamic application and by the API,   *)
(* deleted by the API, by the roll back of a creation and by the timer that    *)
(* removes dynamic applications nobody uses, and the modules that are told.    *)
(*                                                                             *)
(* A thread is a puller (one request), an administrator (one call of the API)  *)
(* or the timer; pc is its next step. A thread creates at most one application *)
(* and gives it its identity, and a stream is the puller that asked for it.    *)
(* The modules are the media router, the transcoder and one provider, in the   *)
(* order in which main.cpp registers them.                                     *)
EXTENDS Naturals, Sequences

CONSTANTS Pullers, Admins, Names, Timer, None

ASSUME ThreadsDiffer == Pullers \cap Admins = {} /\ Timer \notin Pullers \cup Admins
ASSUME NoneIsApart == None \notin Pullers \cup Admins \cup {Timer} \cup Names

VARIABLES
  want,     \* the name a thread asks for; None for an administrator that only deletes
  apps,     \* VirtualHost::_app_map
  idle,     \* applications whose idle timer runs
  has,      \* the modules that have each application
  observed, \* applications for which the orchestrator observes the media router
  live,     \* the application of the provider that each stream is in
  known,    \* the streams in _provider_stream_map of each application
  leaving,  \* the step of Application::OnStreamDeleted for each stream
  left,     \* the application whose OnStreamDeleted that is
  pc, target, told, \* step and application of each thread, the module it tells next
  cut,      \* applications told of a stream's deletion while they were told of its creation
  raced,    \* applications whose deletion began before their creation had ended
  crashed   \* the media router was told to delete an application it does not have

Apps == Pullers \cup Admins
Threads == Apps \cup {Timer}
Modules == <<"mediarouter", "transcoder", "provider">>

streams == <<live, known, leaving, left, cut>>
control == <<pc, target, told>>
vars == <<want, apps, idle, has, observed, streams, control, raced, crashed>>

Creating == {"insert", "notify", "observe", "refused"}
Deleting == {"find", "erase", "unobserve", "tell"}
Requesting == {"call", "check", "found", "pull", "add", "map", "use", "done"}

TypeOK ==
  /\ want \in [Threads -> Names \cup {None}]
  /\ apps \subseteq Apps /\ idle \subseteq Apps /\ observed \subseteq Apps
  /\ has \in [Apps -> SUBSET {Modules[k] : k \in DOMAIN Modules}]
  /\ live \in [Pullers -> Apps \cup {None}] /\ left \in [Pullers -> Apps \cup {None}]
  /\ known \in [Apps -> SUBSET Pullers] /\ cut \subseteq Apps
  /\ leaving \in [Pullers -> {"no", "erased", "last"}]
  /\ pc \in [Threads -> Creating \cup Deleting \cup Requesting]
  /\ target \in [Threads -> Apps \cup {None}]
  /\ told \in [Threads -> 0..Len(Modules)]
  /\ raced \subseteq Apps /\ crashed \in BOOLEAN

Init ==
  /\ want \in {w \in [Threads -> Names \cup {None}] :
                 \A t \in Threads : t \in Pullers <=> w[t] # None}
  /\ apps = {} /\ idle = {} /\ observed = {} /\ has = [a \in Apps |-> {}]
  /\ live = [r \in Pullers |-> None] /\ left = [r \in Pullers |-> None]
  /\ known = [a \in Apps |-> {}] /\ cut = {}
  /\ leaving = [r \in Pullers |-> "no"]
  /\ pc = [t \in Threads |-> "call"] /\ target = [t \in Threads |-> None]
  /\ told = [t \in Threads |-> 0] /\ raced = {} /\ crashed = FALSE

Goto(t, step) == pc' = [pc EXCEPT ![t] = step]
Takes(t, a) == target' = [target EXCEPT ![t] = a]
Tells(t, k) == told' = [told EXCEPT ![t] = k]
Move(t, step, a) == Goto(t, step) /\ Takes(t, a) /\ Tells(t, 0)

\* The call is over; the timer looks again.
Return(t) == Move(t, IF t = Timer THEN "call" ELSE "done", None)

Named(n) == {a \in apps : want[a] = n}

-----------------------------------------------------------------------------
(* A request that pulls a stream *)

\* GetApplicationInfo, before and after the creation.
FindApplication(r) ==
  /\ r \in Pullers /\ pc[r] \in {"call", "found"}
  /\ \/ \E a \in Named(want[r]) : Move(r, "pull", a)
     \/ Named(want[r]) = {} /\ pc[r] = "call" /\ Move(r, "check", None)
     \/ Named(want[r]) = {} /\ pc[r] = "found" /\ Return(r)
  /\ UNCHANGED <<want, apps, idle, has, observed, streams, raced, crashed>>

\* PullStream finds the application of the provider, or fails ...
PullStream(r) ==
  /\ pc[r] = "pull"
  /\ \/ "provider" \in has[target[r]] /\ Goto(r, "add") /\ UNCHANGED <<target, told>>
     \/ Return(r)
  /\ UNCHANGED <<want, apps, idle, has, observed, streams, raced, crashed>>

\* ... and adds the stream to it, even if it has been deleted in the meantime. The
\* media router tells the orchestrator if that observes the application.
AddStream(r) ==
  /\ pc[r] = "add"
  /\ live' = [live EXCEPT ![r] = target[r]]
  /\ IF target[r] \in observed THEN Move(r, "map", target[r]) ELSE Return(r)
  /\ UNCHANGED <<want, apps, idle, has, observed, known, leaving, left, cut, raced,
                 crashed>>

\* Application::OnStreamCreated enters the stream into the map ...
MapStream(r) ==
  /\ pc[r] = "map"
  /\ known' = [known EXCEPT ![target[r]] = @ \cup {r}]
  /\ Move(r, "use", target[r])
  /\ UNCHANGED <<want, apps, idle, has, observed, live, leaving, left, cut, raced, crashed>>

\* ... and stops the idle timer.
StopIdleTimer(r) ==
  /\ pc[r] = "use"
  /\ idle' = idle \ {target[r]}
  /\ Return(r)
  /\ UNCHANGED <<want, apps, has, observed, streams, raced, crashed>>

\* The stream ends, and may do so as soon as the provider lists it: the provider deletes
\* it, and Application::OnStreamDeleted, if the orchestrator observes the application,
\* erases it from the map, whether it is there yet or not.
StreamEnds(r) ==
  /\ live[r] # None
  /\ live' = [live EXCEPT ![r] = None]
  /\ IF live[r] \in observed
       THEN /\ known' = [known EXCEPT ![live[r]] = @ \ {r}]
            /\ leaving' = [leaving EXCEPT ![r] = "erased"]
            /\ left' = [left EXCEPT ![r] = live[r]]
       ELSE UNCHANGED <<known, leaving, left>>
  /\ cut' = IF live[r] \in observed /\ pc[r] \in {"map", "use"} THEN cut \cup {live[r]} ELSE cut
  /\ UNCHANGED <<want, apps, idle, has, observed, control, raced, crashed>>

\* OnStreamDeleted has returned.
Gone(r) == leaving' = [leaving EXCEPT ![r] = "no"] /\ left' = [left EXCEPT ![r] = None]

\* The map is looked at without its lock ...
LookWhetherLast(r) ==
  /\ leaving[r] = "erased"
  /\ IF known[left[r]] = {} THEN leaving' = [leaving EXCEPT ![r] = "last"] /\ UNCHANGED left
                            ELSE Gone(r)
  /\ UNCHANGED <<want, apps, idle, has, observed, live, known, cut, control, raced, crashed>>

\* ... and the idle timer starts.
StartIdleTimer(r) ==
  /\ leaving[r] = "last"
  /\ idle' = idle \cup {left[r]}
  /\ Gone(r)
  /\ UNCHANGED <<want, apps, has, observed, live, known, cut, control, raced, crashed>>

-----------------------------------------------------------------------------
(* CreateApplication *)

\* The name is looked up under one lock ...
CheckName(t) ==
  /\ pc[t] = "check"
  /\ IF Named(want[t]) # {} THEN Return(t) ELSE Move(t, "insert", t)
  /\ UNCHANGED <<want, apps, idle, has, observed, streams, raced, crashed>>

\* Mutant: the constructor of the application does not start the idle timer.
InsertApplicationWithoutTimer(t) ==
  /\ pc[t] = "insert"
  /\ apps' = apps \cup {t} /\ UNCHANGED idle
  /\ Goto(t, "notify") /\ Tells(t, 1) /\ UNCHANGED target
  /\ UNCHANGED <<want, has, observed, streams, raced, crashed>>

\* ... and the application inserted under another; its idle timer runs from now on.
InsertApplication(t) ==
  /\ pc[t] = "insert"
  /\ apps' = apps \cup {t} /\ idle' = idle \cup {t}
  /\ Goto(t, "notify") /\ Tells(t, 1) /\ UNCHANGED target
  /\ UNCHANGED <<want, has, observed, streams, raced, crashed>>

Routed(a) == "mediarouter" \in has[a]

\* OnCreateApplication of the next module. The transcoder and the provider register
\* with the media router. The provider is one that is enabled for the application and
\* available: the others answer that they have succeeded, keep nothing and register
\* nothing, and have no part in the life of the application.
ModuleCreates(t) ==
  LET k == told[t] IN
  /\ pc[t] = "notify" /\ k > 0
  /\ k = 1 \/ Routed(t)
  /\ has' = [has EXCEPT ![t] = @ \cup {Modules[k]}]
  /\ IF k = Len(Modules) THEN Goto(t, "observe") /\ Tells(t, 0)
                         ELSE Tells(t, k + 1) /\ UNCHANGED pc
  /\ UNCHANGED <<want, apps, idle, observed, streams, target, raced, crashed>>

\* The transcoder refuses a configuration and keeps nothing; it keeps the application
\* when only the registration fails, which the provider does not.
ModuleRefuses(t) ==
  /\ pc[t] = "notify"
  /\ \/ Modules[told[t]] = "transcoder" /\ UNCHANGED has
     \/ /\ Modules[told[t]] = "transcoder" /\ ~Routed(t)
        /\ has' = [has EXCEPT ![t] = @ \cup {"transcoder"}]
     \/ Modules[told[t]] = "provider" /\ ~Routed(t) /\ UNCHANGED has
  /\ Move(t, "refused", t)
  /\ UNCHANGED <<want, apps, idle, observed, streams, raced, crashed>>

\* Mutant: CreateApplication reports success although a module has refused.
ObserveRouterWithoutRollback(t) ==
  /\ pc[t] \in {"observe", "refused"}
  /\ observed' = IF t \in apps /\ Routed(t) THEN observed \cup {t} ELSE observed
  /\ IF t \in apps
       THEN IF t \in Pullers THEN Move(t, "found", None) ELSE Return(t)
       ELSE Move(t, "find", t)
  /\ UNCHANGED <<want, apps, idle, has, streams, raced, crashed>>

\* RegisterObserverApp in either case, then the end of the creation or the roll back.
ObserveRouter(t) ==
  /\ pc[t] \in {"observe", "refused"}
  /\ observed' = IF t \in apps /\ Routed(t) THEN observed \cup {t} ELSE observed
  /\ IF pc[t] = "observe" /\ t \in apps
       THEN IF t \in Pullers THEN Move(t, "found", None) ELSE Return(t)
       ELSE Move(t, "find", t)
  /\ UNCHANGED <<want, apps, idle, has, streams, raced, crashed>>

-----------------------------------------------------------------------------
(* DeleteApplication *)

\* The API creates an application, deletes one or replaces one under its name.
ApiCall(t) ==
  /\ t \in Admins /\ pc[t] = "call"
  /\ \/ \E n \in Names : want' = [want EXCEPT ![t] = n] /\ Move(t, "check", None)
     \/ \E a \in apps :
          /\ want' \in {want, [want EXCEPT ![t] = want[a]]}
          /\ Move(t, "find", a)
  /\ UNCHANGED <<apps, idle, has, observed, streams, raced, crashed>>

\* DeleteUnusedDynamicApplications finds one whose timer has run for a minute: its
\* creation ended long ago.
TimerFires ==
  /\ pc[Timer] = "call"
  /\ \E a \in apps \cap idle \cap Pullers :
       pc[a] \notin Creating /\ Move(Timer, "find", a)
  /\ UNCHANGED <<want, apps, idle, has, observed, streams, raced, crashed>>

\* The virtual host has the application ...
FindToDelete(t) ==
  /\ pc[t] = "find"
  /\ IF target[t] \in apps THEN Move(t, "erase", target[t]) ELSE Return(t)
  /\ UNCHANGED <<want, apps, idle, has, observed, streams, raced, crashed>>

\* Mutant: VirtualHost::DeleteApplication answers true when there is nothing to erase.
EraseApplicationOrNot(t) ==
  /\ pc[t] = "erase"
  /\ Move(t, "unobserve", target[t])
  /\ apps' = apps \ {target[t]} /\ idle' = idle \ {target[t]}
  /\ raced' = IF target[t] \in apps /\ pc[target[t]] \in Creating
                THEN raced \cup {target[t]} ELSE raced
  /\ UNCHANGED <<want, has, observed, streams, crashed>>

\* ... and VirtualHost::DeleteApplication says whether it was this thread that erased it.
EraseApplication(t) ==
  /\ pc[t] = "erase"
  /\ IF target[t] \in apps THEN Move(t, "unobserve", target[t]) ELSE Return(t)
  /\ apps' = apps \ {target[t]} /\ idle' = idle \ {target[t]}
  /\ raced' = IF target[t] \in apps /\ pc[target[t]] \in Creating
                THEN raced \cup {target[t]} ELSE raced
  /\ UNCHANGED <<want, has, observed, streams, crashed>>

\* Mutant: the modules are counted from one past the last.
UnobserveRouterOffByOne(t) ==
  /\ pc[t] = "unobserve"
  /\ observed' = observed \ {target[t]}
  /\ Goto(t, "tell") /\ Tells(t, Len(Modules) + 1) /\ UNCHANGED target
  /\ UNCHANGED <<want, apps, idle, has, streams, raced, crashed>>

\* UnregisterObserverApp; then the modules are told from the last to the first.
UnobserveRouter(t) ==
  /\ pc[t] = "unobserve"
  /\ observed' = observed \ {target[t]}
  /\ Goto(t, "tell") /\ Tells(t, Len(Modules)) /\ UNCHANGED target
  /\ UNCHANGED <<want, apps, idle, has, streams, raced, crashed>>

\* Result::Succeeded: a request goes on after its roll back as after a creation, and the
\* API creates what replaces the application.
Deleted(t) ==
  IF t \in Pullers THEN Move(t, "found", None)
  ELSE IF want[t] # None /\ target[t] # t THEN Move(t, "check", None)
  ELSE Return(t)

\* Mutant: DeleteApplication stops at the first module that answers with an error.
ModuleDeletesOrStops(t) ==
  LET a == target[t] k == told[t] m == Modules[told[t]] IN
  /\ pc[t] = "tell"
  /\ crashed' = (m = "mediarouter" /\ ~Routed(a))
  /\ has' = [has EXCEPT ![a] = @ \ {m}]
  /\ live' = IF m = "provider"
               THEN [r \in Pullers |-> IF live[r] = a THEN None ELSE live[r]] ELSE live
  /\ IF k = 1 \/ (m = "transcoder" /\ m \notin has[a])
       THEN Deleted(t) ELSE Tells(t, k - 1) /\ UNCHANGED <<pc, target>>
  /\ UNCHANGED <<want, apps, idle, observed, known, leaving, left, cut, raced>>

\* Mutant: DeleteApplication tells the modules from the first to the last.
ModuleDeletesInOrder(t) ==
  LET a == target[t] k == told[t] m == Modules[Len(Modules) + 1 - k]
      kept == m = "provider" /\ ~Routed(a) IN
  /\ pc[t] = "tell"
  /\ crashed' = (m = "mediarouter" /\ ~Routed(a))
  /\ has' = IF kept THEN has ELSE [has EXCEPT ![a] = @ \ {m}]
  /\ live' = IF m = "provider" /\ m \in has[a] /\ ~kept
               THEN [r \in Pullers |-> IF live[r] = a THEN None ELSE live[r]] ELSE live
  /\ IF k = 1 THEN Deleted(t) ELSE Tells(t, k - 1) /\ UNCHANGED <<pc, target>>
  /\ UNCHANGED <<want, apps, idle, observed, known, leaving, left, cut, raced>>

\* OnDeleteApplication of the next module, in reverse order; what it answers is ignored.
\* The provider keeps an application that it cannot unregister, and ends the streams of
\* the one it deletes; the media router stops the application without a look.
ModuleDeletes(t) ==
  LET a == target[t] k == told[t] m == Modules[told[t]]
      kept == m = "provider" /\ ~Routed(a) IN
  /\ pc[t] = "tell"
  /\ crashed' = (m = "mediarouter" /\ ~Routed(a))
  /\ has' = IF kept THEN has ELSE [has EXCEPT ![a] = @ \ {m}]
  /\ live' = IF m = "provider" /\ m \in has[a] /\ ~kept
               THEN [r \in Pullers |-> IF live[r] = a THEN None ELSE live[r]] ELSE live
  /\ IF k = 1 THEN Deleted(t) ELSE Tells(t, k - 1) /\ UNCHANGED <<pc, target>>
  /\ UNCHANGED <<want, apps, idle, observed, known, leaving, left, cut, raced>>

-----------------------------------------------------------------------------
Request(r) ==
  \/ FindApplication(r) \/ PullStream(r) \/ AddStream(r) \/ MapStream(r)
  \/ StopIdleTimer(r)

Create(t) ==
  \/ CheckName(t) \/ InsertApplication(t) \/ ModuleCreates(t) \/ ModuleRefuses(t)
  \/ ObserveRouter(t)

Delete(t) ==
  \/ FindToDelete(t) \/ EraseApplication(t) \/ UnobserveRouter(t) \/ ModuleDeletes(t)

StreamDeleted(r) == LookWhetherLast(r) \/ StartIdleTimer(r)

Next ==
  /\ ~crashed
  /\ \/ \E t \in Apps : Create(t) \/ Delete(t)
     \/ \E t \in Admins : ApiCall(t)
     \/ \E r \in Pullers : Request(r) \/ StreamEnds(r) \/ StreamDeleted(r)
     \/ TimerFires \/ Delete(Timer)

Spec == Init /\ [][Next]_vars

\* What a thread does of its own accord: nobody need call the API.
Proceed(t) ==
  \/ t \in Pullers /\ Request(t)
  \/ t \in Apps /\ Create(t)
  \/ Delete(t)
  \/ t = Timer /\ TimerFires

\* Every thread that is in a call goes on, an event that has begun ends, and the timer
\* looks again and again. No stream has to end.
Fairness ==
  /\ \A t \in Threads : WF_vars(~crashed /\ Proceed(t))
  /\ \A r \in Pullers : WF_vars(~crashed /\ StreamDeleted(r))

FairSpec == Spec /\ Fairness

-----------------------------------------------------------------------------
(* Properties *)

\* No thread creates or deletes the application.
AtRest(a) ==
  /\ pc[a] \notin Creating
  /\ \A t \in Threads : target[t] = a => pc[t] \notin Deleting

\* An application of the virtual host that nobody creates or deletes at the moment exists
\* in every module and is observed, whatever a module refused and whoever deleted an
\* application of the same name (CreateApplication, orchestrator.cpp:1306).
CreatedEverywhere ==
  \A a \in apps : AtRest(a) => /\ has[a] = {Modules[k] : k \in DOMAIN Modules}
                               /\ a \in observed

\* An application that was deleted, by the API, the timer or the roll back of its
\* creation, is left in no module, unless its deletion began while its creation was
\* telling the modules (DeleteApplication, orchestrator.cpp:249).
DeletedEverywhere ==
  \A a \in Apps \ (apps \cup raced) : AtRest(a) => has[a] = {} /\ a \notin observed

\* The media router is never told to delete an application it does not have, which would
\* be a null dereference (mediarouter.cpp:98), by however many threads delete it at once;
\* only a deletion during the creation may do so.
NoNullRoute == crashed => raced # {}

\* The thread of an application has not inserted it yet, if it ever will.
Unborn(a) == pc[a] \in {"call", "check", "insert"} \/ (pc[a] \in Deleting /\ target[a] # a)

\* Where an application is in its life, and the parts of the server that have it: the
\* modules by their numbers, then the orchestrator that observes it.
Life(a) ==
  IF a \in raced THEN "broken"
  ELSE IF Unborn(a) THEN "none"
  ELSE IF a \in apps
    THEN IF pc[a] \in {"notify", "observe"} THEN "growing"
         ELSE IF pc[a] = "refused" THEN "refused"
         ELSE IF pc[a] \in Deleting THEN "failed" ELSE "whole"
  ELSE IF has[a] = {} /\ a \notin observed THEN "gone" ELSE "leaving"

Observer == Len(Modules) + 1
Parts(a) ==
  IF a \in raced THEN {}
  ELSE {k \in DOMAIN Modules : Modules[k] \in has[a]}
         \cup (IF a \in observed THEN {Observer} ELSE {})

Lives(a) == INSTANCE ApplicationLife WITH Last <- Observer, life <- Life(a), held <- Parts(a)

\* Whatever a module refuses and however many threads delete an application at once, the
\* modules hear of it in their order, each once, and of its deletion in the reverse order,
\* each once, unless the deletion began during the creation (CreateApplication and
\* DeleteApplication, orchestrator.cpp:1354).
KeepsApplicationLife ==
  /\ \A a \in Apps : Lives(a)!Init
  /\ [][\A a \in Apps : [Lives(a)!Next]_<<Life(a), Parts(a)>>]_vars

\* A stream is, or is on its way to be, in the application.
Used(a) ==
  \E r \in Pullers : live[r] = a \/ (target[r] = a /\ pc[r] \in Requesting \ {"done"})

\* A dynamic application without a stream does not stay: whatever streams came and went
\* beside the idle timer, the timer removes the application, unless that was told of a
\* stream's deletion while it was told of its creation (DeleteUnusedDynamicApplications,
\* orchestrator.cpp:52).
SettledIsRemoved ==
  \A a \in Pullers :
    (a \in apps /\ ~Used(a)) ~>
      (a \notin apps \/ Used(a) \/ crashed \/ a \in cut)

\* "Delete dynamic application if there are no streams": one that no stream uses and none
\* is on its way to is removed (DeleteUnusedDynamicApplications, orchestrator.cpp:54).
UnusedIsRemoved ==
  \A a \in Pullers : (a \in apps /\ ~Used(a)) ~> (a \notin apps \/ Used(a) \/ crashed)
=============================================================================
