----------------------- MODULE ApplicationLifeProofs -----------------------
(* Orchestrator implements ApplicationLife for every application, with any     *)
(* number of requests, administrators and names: the refinement mapping is     *)
(* Life and Parts, functions of what the virtual host and the modules have and *)
(* of the step of the thread that creates the application.                     *)
EXTENDS OrchestratorProofs

\* What the abstract specification allows an application to do in a step.
StepsLife(a) == [Lives(a)!Next]_<<Life(a), Parts(a)>>

Becomes(a, from, to) == Life(a) = from /\ Life(a)' = to

\* The actions of ApplicationLife under the mapping.
LEMMA LifeActions ==
  ASSUME NEW a \in Apps
  PROVE  /\ Life(a)' = Life(a) /\ Parts(a)' = Parts(a) => StepsLife(a)
         /\ Becomes(a, "none", "growing") /\ Parts(a)' = Parts(a) => StepsLife(a)
         /\ Becomes(a, "none", "gone") /\ Parts(a)' = Parts(a) => StepsLife(a)
         /\ \A k \in 1..4 :
              /\ Becomes(a, "growing", IF k = 4 THEN "whole" ELSE "growing")
              /\ Parts(a) = 1..(k - 1) /\ Parts(a)' = 1..k
              => StepsLife(a)
         /\ Becomes(a, "growing", "refused") /\ Parts(a)' = Parts(a) => StepsLife(a)
         /\ Becomes(a, "refused", "failed") /\ Parts(a)' = Parts(a) \cup {4} => StepsLife(a)
         /\ Becomes(a, "whole", "leaving") /\ Parts(a)' = Parts(a) => StepsLife(a)
         /\ Becomes(a, "failed", "leaving") /\ Parts(a)' = Parts(a) => StepsLife(a)
         /\ \A k \in Parts(a) :
              /\ \A j \in Parts(a) : j <= k
              /\ Parts(a)' = Parts(a) \ {k}
              /\ Becomes(a, "leaving", IF Parts(a)' = {} THEN "gone" ELSE "leaving")
              => StepsLife(a)
         /\ Becomes(a, "growing", "broken") /\ Parts(a)' = {} => StepsLife(a)
         /\ Becomes(a, "refused", "broken") /\ Parts(a)' = {} => StepsLife(a)
<1>1. Observer = 4
  BY ModuleFacts DEF Observer
<1>2. StepsLife(a) <=> Lives(a)!Next \/ (Life(a)' = Life(a) /\ Parts(a)' = Parts(a))
  BY DEF StepsLife
<1> QED
  BY <1>1, <1>2
  DEF Becomes, Lives!Next, Lives!Begin, Lives!Forgo, Lives!Join, Lives!Refuse, Lives!Observe,
      Lives!Leave, Lives!Quit, Lives!Break

-----------------------------------------------------------------------------
(* The mapping *)

\* The orchestrator observes an application when its creation ends and not before.
NotYet == \A a \in Apps : Building(a) /\ a \notin raced => a \notin observed

LEMMA LifeIs ==
  ASSUME NEW a \in Apps
  PROVE  /\ a \in raced <=> Life(a) = "broken"
         /\ a \notin raced =>
              /\ Unborn(a) <=> Life(a) = "none"
              /\ ~Unborn(a) /\ a \in apps =>
                   Life(a) = IF pc[a] \in {"notify", "observe"} THEN "growing"
                             ELSE IF pc[a] = "refused" THEN "refused"
                             ELSE IF pc[a] \in Deleting THEN "failed" ELSE "whole"
              /\ ~Unborn(a) /\ a \notin apps => Life(a) = IF Clean(a) THEN "gone" ELSE "leaving"
BY DEF Life, Clean

\* The parts by their numbers.
Numbered(a) ==
  /\ a \in raced => Parts(a) = {}
  /\ a \notin raced =>
       /\ Parts(a) \subseteq 1..4
       /\ 1 \in Parts(a) <=> "mediarouter" \in has[a]
       /\ 2 \in Parts(a) <=> "transcoder" \in has[a]
       /\ 3 \in Parts(a) <=> "provider" \in has[a]
       /\ 4 \in Parts(a) <=> a \in observed
       /\ Parts(a) = {} <=> Clean(a)

LEMMA PartsAre == TypeInv => \A a \in Apps : Numbered(a)
<1> SUFFICES ASSUME TypeInv, NEW a \in Apps PROVE Numbered(a)
  OBVIOUS
<1>1. has[a] \subseteq {"mediarouter", "transcoder", "provider"}
  BY ModuleFacts DEF TypeInv, TypeOK
<1>2. Observer = 4
  BY ModuleFacts DEF Observer
<1>3. a \in raced => Parts(a) = {}
  BY DEF Parts
<1>4. ASSUME a \notin raced
      PROVE  /\ Parts(a) \subseteq 1..4
             /\ \A k \in 1..3 : k \in Parts(a) <=> Modules[k] \in has[a]
             /\ 4 \in Parts(a) <=> a \in observed
  <2>1. Parts(a) = {k \in 1..3 : Modules[k] \in has[a]} \cup (IF a \in observed THEN {4} ELSE {})
    BY <1>2, <1>4, ModuleFacts DEF Parts
  <2> QED
    BY <2>1
<1>5. ASSUME a \notin raced PROVE Parts(a) = {} <=> Clean(a)
  <2>1. Clean(a) => Parts(a) = {}
    <3>1. Clean(a) => \A k \in 1..3 : k \notin Parts(a)
      BY <1>4, <1>5 DEF Clean
    <3>2. Clean(a) => 4 \notin Parts(a)
      BY <1>4, <1>5 DEF Clean
    <3>3. \A k \in 1..4 : k \in 1..3 \/ k = 4
      OBVIOUS
    <3> QED
      BY <1>4, <1>5, <3>1, <3>2, <3>3
  <2>2. Parts(a) = {} => Clean(a)
    <3>1. Parts(a) = {} => \A k \in 1..3 : Modules[k] \notin has[a]
      BY <1>4, <1>5
    <3>2. Parts(a) = {} => has[a] = {}
      BY <1>1, <3>1, ModuleFacts
    <3> QED
      BY <1>4, <1>5, <3>2 DEF Clean
  <2> QED
    BY <2>1, <2>2
<1> QED
  BY <1>3, <1>4, <1>5, ModuleFacts DEF Numbered

\* The modules before the k-th have it and nobody else.
Prefix(a, k) ==
  a \notin raced /\ a \notin observed /\ has[a] = Below(k) => Parts(a) = 1..(k - 1)

LEMMA PrefixParts == TypeInv => \A a \in Apps, k \in 1..4 : Prefix(a, k)
<1> SUFFICES ASSUME TypeInv, NEW a \in Apps, a \notin raced, a \notin observed,
                    NEW k \in 1..4, has[a] = Below(k)
             PROVE  Parts(a) = 1..(k - 1)
  BY DEF Prefix
<1>0. Numbered(a)
  BY PartsAre
<1>1. 1..0 = {} /\ 1..1 = {1} /\ 1..2 = {1, 2} /\ 1..3 = {1, 2, 3} /\ 1..4 = {1, 2, 3, 4}
  OBVIOUS
<1>2. Parts(a) \subseteq {1, 2, 3, 4} /\ 4 \notin Parts(a)
  BY <1>0, <1>1 DEF Numbered
<1>3. CASE k = 1
  BY <1>1, <1>2, <1>3, <1>0, ModuleFacts DEF Numbered
<1>4. CASE k = 2
  BY <1>1, <1>2, <1>4, <1>0, ModuleFacts DEF Numbered
<1>5. CASE k = 3
  BY <1>1, <1>2, <1>5, <1>0, ModuleFacts DEF Numbered
<1>6. CASE k = 4
  BY <1>1, <1>2, <1>6, <1>0, ModuleFacts DEF Numbered
<1> QED
  BY <1>3, <1>4, <1>5, <1>6

\* The same of the next state.
LEMMA PartsNext ==
  TypeInv' => /\ \A a \in Apps : Numbered(a)'
              /\ \A a \in Apps, k \in 1..4 : Prefix(a, k)'
<1>1. TypeInv => (\A a \in Apps : Numbered(a)) /\ (\A a \in Apps, k \in 1..4 : Prefix(a, k))
  BY PartsAre, PrefixParts
<1>2. TypeInv' => ((\A a \in Apps : Numbered(a)) /\ (\A a \in Apps, k \in 1..4 : Prefix(a, k)))'
  BY <1>1, PTL
<1> QED
  BY <1>2

LEMMA SameParts ==
  ASSUME NEW a \in Apps, a \in raced' <=> a \in raced, a \in observed' <=> a \in observed,
         has'[a] = has[a]
  PROVE  Parts(a)' = Parts(a)
BY DEF Parts, Observer, Modules

-----------------------------------------------------------------------------
(* Steps that do not concern an application *)

\* Its thread goes on without creating it, or ends without having created it.
LEMMA ElsewhereSteps ==
  ASSUME TypeInv, LifeInv, TypeInv', NEW a \in Apps,
         a \in raced' <=> a \in raced, a \in observed' <=> a \in observed,
         a \in apps' <=> a \in apps, has'[a] = has[a],
         Unborn(a)' => Unborn(a),
         a \in apps => /\ pc'[a] \in {"notify", "observe"} <=> pc[a] \in {"notify", "observe"}
                       /\ pc'[a] = "refused" <=> pc[a] = "refused"
                       /\ pc'[a] \in Deleting <=> pc[a] \in Deleting
  PROVE  StepsLife(a)
<1>1. Parts(a)' = Parts(a) /\ (Clean(a)' <=> Clean(a))
  BY SameParts DEF Clean
<1>2. UnbornInv(a)
  BY DEF LifeInv
<1>3. CASE Unborn(a) /\ ~Unborn(a)' /\ a \notin raced
  <2>1. Life(a) = "none" /\ Clean(a) /\ a \notin apps
    BY <1>2, <1>3, LifeIs DEF UnbornInv
  <2>2. Life(a)' = "gone"
    BY <1>1, <1>3, <2>1 DEF Life, Clean
  <2> QED
    BY <1>1, <2>1, <2>2, LifeActions DEF Becomes
<1>4. CASE ~(Unborn(a) /\ ~Unborn(a)' /\ a \notin raced)
  <2>1. Life(a)' = Life(a)
    BY <1>1, <1>4 DEF Life, Clean
  <2> QED
    BY <1>1, <2>1, LifeActions
<1> QED
  BY <1>3, <1>4

\* The step of another thread that leaves the application alone.
LEMMA OthersStep ==
  ASSUME TypeInv, LifeInv, TypeInv', NEW t \in Threads, NEW a \in Apps \ {t},
         pc'[a] = pc[a], target'[a] = target[a],
         a \in raced' <=> a \in raced, a \in observed' <=> a \in observed,
         a \in apps' <=> a \in apps, has'[a] = has[a]
  PROVE  StepsLife(a)
<1>1. Unborn(a)' <=> Unborn(a)
  BY DEF Unborn
<1> QED
  BY <1>1, ElsewhereSteps

-----------------------------------------------------------------------------
(* Creation *)

LEMMA InsertSteps ==
  ASSUME TypeInv, LifeInv, TypeInv', NEW t \in Apps, InsertApplication(t), NEW a \in Apps
  PROVE  StepsLife(a)
<1> USE ThreadFacts, Steps
<1>1. /\ t \in Threads /\ pc[t] = "insert" /\ pc'[t] = "notify"
      /\ \A u \in Threads \ {t} : pc'[u] = pc[u] /\ target'[u] = target[u]
  BY CreateMoves DEF Moved
<1>2. apps' = apps \cup {t} /\ has' = has /\ observed' = observed /\ raced' = raced
  BY DEF InsertApplication
<1>3. CASE a # t
  BY <1>1, <1>2, <1>3, OthersStep
<1>4. CASE a = t
  <2>1. Unborn(t) /\ t \notin raced
    BY <1>1 DEF LifeInv, UnbornInv, Unborn
  <2>2. Life(t) = "none"
    BY <2>1 DEF Life
  <2>3. Life(t)' = "growing"
    BY <1>1, <1>2, <2>1 DEF Life, Unborn
  <2>4. Parts(t)' = Parts(t)
    BY <1>2, SameParts
  <2> QED
    BY <1>4, <2>2, <2>3, <2>4, LifeActions DEF Becomes
<1> QED
  BY <1>3, <1>4

LEMMA ModuleCreatesSteps ==
  ASSUME TypeInv, LifeInv, TypeInv', NotYet, NEW t \in Apps, ModuleCreates(t), NEW a \in Apps
  PROVE  StepsLife(a)
<1> USE ThreadFacts, Steps
<1>0. PICK k \in 1..3 : k = told[t]
  <2>1. told[t] \in 0..3 /\ pc[t] = "notify"
    BY ModuleFacts DEF TypeInv, TypeOK, ModuleCreates
  <2> QED
    BY <2>1 DEF TypeInv, Targets
<1>1. /\ t \in Threads /\ pc[t] = "notify" /\ pc'[t] \in {"notify", "observe"} /\ Building(t)
      /\ \A u \in Threads \ {t} : pc'[u] = pc[u] /\ target'[u] = target[u]
  BY CreateMoves DEF Moved, Building
<1>2. /\ apps' = apps /\ observed' = observed /\ raced' = raced
      /\ has'[t] = has[t] \cup {Modules[k]} /\ \A b \in Apps \ {t} : has'[b] = has[b]
  BY <1>0 DEF ModuleCreates, TypeInv, TypeOK
<1>3. CASE a # t
  BY <1>1, <1>2, <1>3, OthersStep
<1>4. CASE a = t /\ t \in raced
  <2>1. Life(t) = "broken" /\ Life(t)' = "broken" /\ Parts(t) = {} /\ Parts(t)' = {}
    BY <1>2, <1>4 DEF Life, Parts
  <2> QED
    BY <1>4, <2>1, LifeActions
<1>5. CASE a = t /\ t \notin raced
  <2>1. t \in apps /\ t \notin observed /\ has[t] = Below(k)
    BY <1>0, <1>1, <1>5, BuildingFacts DEF NotYet
  <2>2. Life(t) = "growing" /\ Life(t)' = "growing"
    BY <1>1, <1>2, <1>5, <2>1 DEF Life, Unborn
  <2>3. Below(k) \cup {Modules[k]} = Below(k + 1)
    <3>1. CASE k = 1
      BY <3>1, ModuleFacts
    <3>2. CASE k = 2
      BY <3>2, ModuleFacts
    <3>3. CASE k = 3
      BY <3>3, ModuleFacts
    <3> QED
      BY <3>1, <3>2, <3>3
  <2>4. k \in 1..4 /\ k # 4 /\ k + 1 \in 1..4 /\ (k + 1) - 1 = k
    OBVIOUS
  <2>5. Parts(t) = 1..(k - 1)
    BY <1>5, <2>1, <2>4, PrefixParts DEF Prefix
  <2>6. Parts(t)' = 1..k
    <3>1. t \notin raced' /\ t \notin observed' /\ has'[t] = Below(k + 1)'
      BY <1>2, <1>5, <2>1, <2>3 DEF Below, Modules
    <3>2. Prefix(t, k + 1)'
      BY <2>4, PartsNext
    <3> QED
      BY <2>4, <3>1, <3>2 DEF Prefix
  <2> QED
    BY <1>5, <2>2, <2>4, <2>5, <2>6, LifeActions DEF Becomes
<1> QED
  BY <1>3, <1>4, <1>5

LEMMA ModuleRefusesSteps ==
  ASSUME TypeInv, LifeInv, TypeInv', NEW t \in Apps, ModuleRefuses(t), NEW a \in Apps
  PROVE  StepsLife(a)
<1> USE ThreadFacts, Steps
<1>1. /\ t \in Threads /\ pc[t] = "notify" /\ pc'[t] = "refused" /\ Building(t)
      /\ \A u \in Threads \ {t} : pc'[u] = pc[u] /\ target'[u] = target[u]
  BY CreateMoves DEF Moved, Building
<1>2. /\ apps' = apps /\ observed' = observed /\ raced' = raced
      /\ \A b \in Apps \ {t} : has'[b] = has[b]
      /\ Modules[told[t]] # "mediarouter"
      /\ Routed(t) => has'[t] = has[t]
  BY DEF ModuleRefuses, TypeInv, TypeOK
<1>3. CASE a # t
  BY <1>1, <1>2, <1>3, OthersStep
<1>4. CASE a = t /\ t \in raced
  <2>1. Life(t) = "broken" /\ Life(t)' = "broken" /\ Parts(t) = {} /\ Parts(t)' = {}
    BY <1>2, <1>4 DEF Life, Parts
  <2> QED
    BY <1>4, <2>1, LifeActions
<1>5. CASE a = t /\ t \notin raced
  <2>1. t \in apps /\ has[t] = Below(told[t]) /\ told[t] \in 2..3
    <3>1. t \in apps /\ has[t] = Below(told[t])
      BY <1>1, <1>5, BuildingFacts
    <3>2. told[t] \in 0..3 /\ told[t] # 0 /\ told[t] # 1
      BY <1>1, <1>2, ModuleFacts DEF TypeInv, TypeOK, Targets
    <3>3. \A k \in 0..3 : k # 0 /\ k # 1 => k \in 2..3
      OBVIOUS
    <3> QED
      BY <3>1, <3>2, <3>3
  <2>2. Routed(t)
    <3>1. told[t] = 2 \/ told[t] = 3
      BY <2>1
    <3> QED
      BY <2>1, <3>1, ModuleFacts DEF Routed
  <2>3. Life(t) = "growing" /\ Life(t)' = "refused"
    BY <1>1, <1>2, <1>5, <2>1 DEF Life, Unborn
  <2>4. Parts(t)' = Parts(t)
    BY <1>2, <2>2, SameParts
  <2> QED
    BY <1>5, <2>3, <2>4, LifeActions DEF Becomes
<1> QED
  BY <1>3, <1>4, <1>5

\* The orchestrator is the last part.
LEMMA PartsObserved ==
  ASSUME NEW a \in Apps, a \notin raced, a \notin raced', a \in observed', has'[a] = has[a]
  PROVE  Parts(a)' = Parts(a) \cup {4}
BY ModuleFacts DEF Parts, Observer, Modules

LEMMA ObserveSteps ==
  ASSUME TypeInv, LifeInv, TypeInv', NotYet, NEW t \in Apps, ObserveRouter(t), NEW a \in Apps
  PROVE  StepsLife(a)
<1> USE ThreadFacts, Steps
<1>1. /\ t \in Threads /\ pc[t] \in {"observe", "refused"} /\ Building(t)
      /\ IF pc[t] = "observe" /\ t \in apps
           THEN pc'[t] \in {"found", "done"} ELSE pc'[t] = "find" /\ target'[t] = t
      /\ \A u \in Threads \ {t} : pc'[u] = pc[u] /\ target'[u] = target[u]
  BY CreateMoves DEF Moved, Ended, Building
<1>2. /\ apps' = apps /\ has' = has /\ raced' = raced
      /\ observed' = IF t \in apps /\ Routed(t) THEN observed \cup {t} ELSE observed
  BY DEF ObserveRouter
<1>3. CASE a # t
  BY <1>1, <1>2, <1>3, OthersStep
<1>4. CASE a = t /\ t \in raced
  <2>1. Life(t) = "broken" /\ Life(t)' = "broken" /\ Parts(t) = {} /\ Parts(t)' = {}
    BY <1>2, <1>4 DEF Life, Parts
  <2> QED
    BY <1>4, <2>1, LifeActions
<1>5. ASSUME a = t, t \notin raced
      PROVE  /\ t \in apps /\ Routed(t) /\ t \notin observed /\ t \in observed'
             /\ Parts(t)' = Parts(t) \cup {4}
  <2>1. t \in apps /\ Routed(t) /\ t \notin observed
    BY <1>1, <1>5, BuildingFacts DEF NotYet
  <2>2. t \in observed'
    BY <1>2, <2>1
  <2> QED
    BY <1>2, <1>5, <2>1, <2>2, PartsObserved
<1>6. CASE a = t /\ t \notin raced /\ pc[t] = "observe"
  <2>1. Life(t) = "growing" /\ Life(t)' = "whole"
    BY <1>1, <1>2, <1>5, <1>6 DEF Life, Unborn
  <2>2. has[t] = Below(4)
    BY <1>5, <1>6, ModuleFacts DEF LifeInv, CreationInv, AllModules
  <2>3. 4 \in 1..4 /\ 4 - 1 = 3 /\ 1..3 \cup {4} = 1..4
    OBVIOUS
  <2>4. Parts(t) = 1..(4 - 1)
    BY <1>5, <1>6, <2>2, <2>3, PrefixParts DEF Prefix
  <2>5. Parts(t)' = 1..4
    BY <1>5, <1>6, <2>3, <2>4
  <2>6. \E k \in {4} : k \in 1..4 /\ Becomes(t, "growing", IF k = 4 THEN "whole" ELSE "growing")
                   /\ Parts(t) = 1..(k - 1) /\ Parts(t)' = 1..k
    BY <2>1, <2>3, <2>4, <2>5 DEF Becomes
  <2> QED
    BY <1>6, <2>6, LifeActions
<1>7. CASE a = t /\ t \notin raced /\ pc[t] = "refused"
  <2>1. Life(t) = "refused" /\ Life(t)' = "failed"
    BY <1>1, <1>2, <1>5, <1>7 DEF Life, Unborn, Deleting
  <2> QED
    BY <1>5, <1>7, <2>1, LifeActions DEF Becomes
<1> QED
  BY <1>1, <1>3, <1>4, <1>6, <1>7

-----------------------------------------------------------------------------
(* Deletion *)

LEMMA EraseSteps ==
  ASSUME TypeInv, LifeInv, TypeInv', NEW t \in Threads, EraseApplication(t), target[t] \in apps,
         NEW a \in Apps
  PROVE  StepsLife(a)
<1> USE ThreadFacts, Steps
<1>1. PICK b \in Apps : b = target[t]
  BY DeleteMoves
<1>2. /\ pc[t] = "erase" /\ pc'[t] = "unobserve" /\ target'[t] = b
      /\ \A u \in Threads \ {t} : pc'[u] = pc[u] /\ target'[u] = target[u]
  BY <1>1, DeleteMoves DEF Moved
<1>3. /\ b \in apps /\ apps' = apps \ {b} /\ has' = has /\ observed' = observed
      /\ raced' = IF pc[b] \in Creating THEN raced \cup {b} ELSE raced
  BY <1>1 DEF EraseApplication
<1>4. CASE a # b
  <2>1. CASE a = t
    <3>1. Unborn(a) /\ Unborn(a)'
      BY <1>1, <1>2, <1>4, <2>1 DEF Unborn
    <3>2. a \notin apps
      BY <3>1 DEF LifeInv, UnbornInv
    <3> QED
      BY <1>3, <1>4, <3>1, <3>2, ElsewhereSteps
  <2>2. CASE a # t
    BY <1>2, <1>3, <1>4, <2>2, OthersStep
  <2> QED
    BY <2>1, <2>2
<1>5. ~Unborn(b) /\ (b \notin raced => Building(b) \/ Routed(b))
  BY <1>3 DEF LifeInv, UnbornInv, CreationInv, Building
<1>6. CASE a = b /\ b \in raced
  <2>1. Life(b) = "broken" /\ Life(b)' = "broken" /\ Parts(b) = {} /\ Parts(b)' = {}
    BY <1>3, <1>6 DEF Life, Parts
  <2> QED
    BY <1>6, <2>1, LifeActions
<1>7. CASE a = b /\ b \notin raced /\ pc[b] \in Creating
  <2>1. Life(b)' = "broken" /\ Parts(b)' = {}
    BY <1>3, <1>7 DEF Life, Parts
  <2>2. Life(b) \in {"growing", "refused"}
    BY <1>3, <1>5, <1>7 DEF Life, Unborn, Creating
  <2> QED
    BY <1>7, <2>1, <2>2, LifeActions DEF Becomes
<1>8. CASE a = b /\ b \notin raced /\ pc[b] \notin Creating
  <2>1. Life(b) \in {"whole", "failed"}
    BY <1>3, <1>5, <1>8 DEF Life, Creating
  <2>2. Routed(b) /\ b \notin raced'
    BY <1>3, <1>5, <1>8 DEF Building, Creating
  <2>3. ~Unborn(b)'
    BY <1>1, <1>2, <1>3, <1>5 DEF Unborn
  <2>4. Life(b)' = "leaving"
    BY <1>3, <2>2, <2>3 DEF Life, Routed
  <2>5. Parts(b)' = Parts(b)
    BY <1>3, <1>8, <2>2, SameParts
  <2> QED
    BY <1>8, <2>1, <2>4, <2>5, LifeActions DEF Becomes
<1> QED
  BY <1>4, <1>6, <1>7, <1>8

\* The last part that has it gives it up, or a part that does not have it is told.
LEMMA GivesUp ==
  ASSUME TypeInv, TypeInv', NEW a \in Apps, a \notin raced, a \notin raced',
         a \notin apps, a \notin apps', ~Unborn(a), ~Unborn(a)',
         NEW k \in 1..4, Parts(a) \subseteq 1..k, Parts(a)' = Parts(a) \ {k}, Routed(a)
  PROVE  StepsLife(a)
<1>1. Numbered(a) /\ Numbered(a)'
  BY PartsAre, PartsNext
<1>2. 1 \in Parts(a) /\ Life(a) = "leaving"
  BY <1>1, LifeIs DEF Numbered, Routed, Clean
<1>3. Life(a)' = IF Parts(a)' = {} THEN "gone" ELSE "leaving"
  BY <1>1 DEF Numbered, Life, Clean
<1>4. CASE k \in Parts(a)
  <2>1. \A j \in Parts(a) : j <= k
    OBVIOUS
  <2> QED
    BY <1>2, <1>3, <1>4, <2>1, LifeActions DEF Becomes
<1>5. CASE k \notin Parts(a)
  <2>1. Parts(a)' = Parts(a)
    BY <1>5
  <2> QED
    BY <1>2, <1>3, <2>1, LifeActions
<1> QED
  BY <1>4, <1>5

LEMMA UnobserveSteps ==
  ASSUME TypeInv, LifeInv, TypeInv', NEW t \in Threads, UnobserveRouter(t), NEW a \in Apps
  PROVE  StepsLife(a)
<1> USE ThreadFacts, Steps
<1>1. PICK b \in Apps : b = target[t]
  BY DeleteMoves
<1>2. /\ pc[t] = "unobserve" /\ pc'[t] = "tell" /\ target'[t] = b /\ target[t] = b
      /\ \A u \in Threads \ {t} : pc'[u] = pc[u] /\ target'[u] = target[u]
  BY <1>1, DeleteMoves DEF Moved
<1>3. UNCHANGED <<apps, has, raced>> /\ observed' = observed \ {b}
  BY <1>1 DEF UnobserveRouter
<1>4. CASE a # b
  <2>1. CASE a = t
    <3>1. Unborn(a) /\ Unborn(a)'
      BY <1>2, <1>4, <2>1 DEF Unborn
    <3>2. a \notin apps
      BY <3>1 DEF LifeInv, UnbornInv
    <3> QED
      BY <1>3, <1>4, <3>1, <3>2, ElsewhereSteps
  <2>2. CASE a # t
    BY <1>2, <1>3, <1>4, <2>2, OthersStep
  <2> QED
    BY <2>1, <2>2
<1>5. CASE a = b /\ b \in raced
  <2>1. Life(b) = "broken" /\ Life(b)' = "broken" /\ Parts(b) = {} /\ Parts(b)' = {}
    BY <1>3, <1>5 DEF Life, Parts
  <2> QED
    BY <1>5, <2>1, LifeActions
<1>6. CASE a = b /\ b \notin raced
  <2>1. b \notin apps /\ Routed(b) /\ ~Unborn(b)
    <3>1. Cleaning(t, b) /\ pc[t] \in Deleting
      BY <1>2 DEF Cleaning
    <3> QED
      BY <1>2, <1>6, <3>1 DEF LifeInv, DeletionInv, UnbornInv
  <2>2. ~Unborn(b)'
    BY <1>2, <2>1 DEF Unborn
  <2>3. Parts(b) \subseteq 1..4
    BY <1>6, PartsAre DEF Numbered
  <2>4. Parts(b)' = Parts(b) \ {4}
    <3>1. DOMAIN Modules = 1..3 /\ Observer = 4
      BY ModuleFacts DEF Observer
    <3>2. 4 \notin 1..3
      OBVIOUS
    <3>3. Parts(b) = {k \in 1..3 : Modules[k] \in has[b]} \cup (IF b \in observed THEN {4} ELSE {})
      BY <1>6, <3>1 DEF Parts
    <3>4. Parts(b)' = {k \in 1..3 : Modules[k] \in has[b]}
      BY <1>3, <1>6, <3>1 DEF Parts, Observer, Modules
    <3> QED
      BY <3>2, <3>3, <3>4
  <2>5. 4 \in 1..4
    OBVIOUS
  <2> QED
    BY <1>3, <1>6, <2>1, <2>2, <2>3, <2>4, <2>5, GivesUp
<1> QED
  BY <1>4, <1>5, <1>6

LEMMA ModuleDeletesSteps ==
  ASSUME TypeInv, LifeInv, TypeInv', NEW t \in Threads, ModuleDeletes(t), NEW a \in Apps
  PROVE  StepsLife(a)
<1> USE ThreadFacts, Steps
<1>0. PICK b \in Apps, k \in 1..3 : b = target[t] /\ k = told[t]
  BY DeleteMoves
<1>1. /\ pc[t] = "tell" /\ target[t] = b /\ told[t] = k
      /\ \/ pc'[t] \in {"found", "check", "done", "call"}
            /\ (pc'[t] = "check" => b # t) /\ (pc'[t] = "call" => t = Timer)
         \/ pc'[t] = "tell" /\ target'[t] = b
      /\ \A u \in Threads \ {t} : pc'[u] = pc[u] /\ target'[u] = target[u]
  BY <1>0, DeleteMoves DEF Moved, Ended
<1>2. /\ UNCHANGED <<apps, observed, raced>>
      /\ has' = IF Modules[k] = "provider" /\ ~ Routed(b) THEN has
                ELSE [has EXCEPT ![b] = @ \ {Modules[k]}]
  BY <1>0 DEF ModuleDeletes
<1>3. has \in [Apps -> SUBSET {"mediarouter", "transcoder", "provider"}]
  BY ModuleFacts DEF TypeInv, TypeOK
<1>4. CASE a # b
  <2>1. has'[a] = has[a]
    BY <1>2, <1>3, <1>4
  <2>2. CASE a = t
    <3>1. Unborn(a)
      BY <1>1, <1>4, <2>2 DEF Unborn
    <3>2. a \notin apps
      BY <3>1 DEF LifeInv, UnbornInv
    <3> QED
      BY <1>2, <2>1, <3>1, <3>2, ElsewhereSteps
  <2>3. CASE a # t
    BY <1>1, <1>2, <1>4, <2>1, <2>3, OthersStep
  <2> QED
    BY <2>2, <2>3
<1>5. CASE a = b /\ b \in raced
  <2>1. Life(b) = "broken" /\ Life(b)' = "broken" /\ Parts(b) = {} /\ Parts(b)' = {}
    BY <1>2, <1>5 DEF Life, Parts
  <2> QED
    BY <1>5, <2>1, LifeActions
<1>6. CASE a = b /\ b \notin raced
  <2>1. /\ b \notin apps /\ Routed(b) /\ ~Unborn(b) /\ b \notin observed
        /\ has[b] \subseteq Below(k + 1)
    <3>1. Cleaning(t, b) /\ pc[t] \in Deleting
      BY <1>1 DEF Cleaning
    <3> QED
      BY <1>1, <1>6, <3>1 DEF LifeInv, DeletionInv, UnbornInv
  <2>2. ~Unborn(b)'
    BY <1>1, <2>1 DEF Unborn
  <2>3. has'[b] = has[b] \ {Modules[k]}
    BY <1>2, <1>3, <2>1
  <2>4. DOMAIN Modules = 1..3 /\ Observer = 4
    BY ModuleFacts DEF Observer
  <2>5. Parts(b) = {j \in 1..3 : Modules[j] \in has[b]}
    BY <1>6, <2>1, <2>4 DEF Parts
  <2>6. Parts(b)' = {j \in 1..3 : Modules[j] \in has[b] \ {Modules[k]}}
    BY <1>2, <1>6, <2>1, <2>3, <2>4 DEF Parts, Observer, Modules
  <2>7. \A i, j \in 1..3 : Modules[i] = Modules[j] => i = j
    BY ModuleFacts
  <2>8. Parts(b)' = Parts(b) \ {k}
    BY <2>5, <2>6, <2>7
  <2>9. Parts(b) \subseteq 1..k
    <3>1. \A j \in 1..3 : Modules[j] \in Below(k + 1) => j <= k
      <4>1. ASSUME NEW j \in 1..3, Modules[j] \in Below(k + 1) PROVE j <= k
        <5>1. PICK i \in 1..((k + 1) - 1) : Modules[j] = Modules[i]
          BY <4>1 DEF Below
        <5>2. i \in 1..3 /\ i <= k
          BY <5>1
        <5> QED
          BY <2>7, <5>1, <5>2
      <4> QED
        BY <4>1
    <3> QED
      BY <2>1, <2>5, <3>1
  <2>10. k \in 1..4
    OBVIOUS
  <2> QED
    BY <1>2, <1>6, <2>1, <2>2, <2>8, <2>9, <2>10, GivesUp
<1> QED
  BY <1>4, <1>5, <1>6

-----------------------------------------------------------------------------
(* Steps of threads that neither create nor delete *)

LEMMA QuietSteps ==
  ASSUME TypeInv, LifeInv, TypeInv', UNCHANGED <<apps, has, observed, raced>>,
         NEW t \in Threads, \A u \in Threads \ {t} : pc'[u] = pc[u] /\ target'[u] = target[u],
         \/ pc[t] \in {"call", "check"}
         \/ pc[t] \in {"found", "pull", "add", "map", "use", "done"} /\ pc'[t] \in Requesting \ {"call", "check"}
         \/ /\ pc[t] \in Deleting
            /\ \/ pc'[t] \in Deleting /\ target'[t] = target[t] /\ target[t] \in apps
               \/ target[t] \notin apps /\ pc'[t] \in {"call", "done"} /\ (pc'[t] = "call" => t = Timer),
         NEW a \in Apps
  PROVE  StepsLife(a)
<1> USE ThreadFacts, Steps
<1>1. CASE a # t
  BY <1>1, OthersStep
<1>2. CASE a = t
  <2>1. Unborn(a)' => Unborn(a)
    BY <1>2 DEF Unborn, Requesting
  <2>2. a \in apps => ~Unborn(a)
    BY DEF LifeInv, UnbornInv
  <2>3. a \in apps => /\ pc'[a] \in {"notify", "observe"} <=> pc[a] \in {"notify", "observe"}
                      /\ pc'[a] = "refused" <=> pc[a] = "refused"
                      /\ pc'[a] \in Deleting <=> pc[a] \in Deleting
    BY <1>2, <2>2 DEF Unborn, Requesting
  <2> QED
    BY <2>1, <2>3, ElsewhereSteps
<1> QED
  BY <1>1, <1>2

-----------------------------------------------------------------------------
(* The refinement *)

LEMMA NotYetFrame ==
  ASSUME NotYet, raced \subseteq raced', observed' \subseteq observed,
         \A a \in Apps : Building(a)' => Building(a)
  PROVE  NotYet'
BY DEF NotYet

LEMMA LifeStepsOf ==
  ASSUME IInv, NotYet, [Next]_vars
  PROVE  NotYet' /\ \A a \in Apps : StepsLife(a)
<1> USE ThreadFacts, Steps DEF IInv
<1>t. TypeInv'
  BY TypeStep
<1>q. ASSUME UNCHANGED <<apps, has, observed, raced>>, NEW t \in Threads,
             pc[t] \in {"call", "check"} \cup Requesting,
             pc'[t] \notin {"notify", "observe", "refused"},
             pc[t] \in {"call", "check"} \/ pc'[t] \in Requesting \ {"call", "check"},
             \A u \in Threads \ {t} : pc'[u] = pc[u] /\ target'[u] = target[u]
      PROVE  NotYet' /\ \A a \in Apps : StepsLife(a)
  <2>1. NotYet'
    BY <1>q, NotYetFrame DEF Building
  <2>2. \A a \in Apps : StepsLife(a)
    BY <1>t, <1>q, QuietSteps DEF Requesting
  <2> QED
    BY <2>1, <2>2
<1>1. ASSUME NEW r \in Pullers, Request(r) PROVE NotYet' /\ \A a \in Apps : StepsLife(a)
  <2>1. PICK step \in {"pull", "check", "done", "add", "map", "use"},
             a \in Apps \cup {None}, k \in 0..Len(Modules) :
               Moved(r, step, a, k) /\ (step = "check" => pc[r] = "call")
    BY <1>1, RequestMoves
  <2>2. pc[r] \in {"call", "found", "pull", "add", "map", "use"} /\ r \in Threads
    BY <1>1, RequestMoves
  <2>3. UNCHANGED <<apps, has, observed, raced>>
    BY <1>1 DEF Request, FindApplication, PullStream, AddStream, MapStream, StopIdleTimer
  <2>4. /\ pc'[r] \in {"pull", "check", "done", "add", "map", "use"}
        /\ pc'[r] = "check" => pc[r] = "call"
        /\ \A u \in Threads \ {r} : pc'[u] = pc[u] /\ target'[u] = target[u]
    BY <2>1 DEF Moved
  <2>5. pc[r] \in Requesting /\ pc'[r] \notin {"notify", "observe", "refused"}
        /\ (pc[r] = "call" \/ pc'[r] \in Requesting \ {"call", "check"})
    BY <2>2, <2>4 DEF Requesting
  <2> QED
    BY <1>q, <2>2, <2>3, <2>4, <2>5
<1>3. ASSUME UNCHANGED vars \/ \E r \in Pullers : StreamEnds(r) \/ StreamDeleted(r)
      PROVE  NotYet' /\ \A a \in Apps : StepsLife(a)
  <2>1. UNCHANGED <<apps, has, observed, raced, pc, target>>
    BY <1>3 DEF StreamEnds, StreamDeleted, LookWhetherLast, StartIdleTimer, vars, control
  <2>2. \A a \in Apps : Unborn(a)' <=> Unborn(a)
    BY <2>1 DEF Unborn
  <2> QED
    BY <1>t, <2>1, <2>2, ElsewhereSteps, NotYetFrame DEF Building
<1>4. ASSUME NEW t \in Apps, Create(t) PROVE NotYet' /\ \A a \in Apps : StepsLife(a)
  <2>1. CASE CheckName(t)
    <3>1. /\ pc[t] = "check" /\ pc'[t] \in {"done", "insert"} /\ t \in Threads
          /\ \A u \in Threads \ {t} : pc'[u] = pc[u] /\ target'[u] = target[u]
      BY <2>1, CreateMoves DEF Moved, Ended
    <3>2. UNCHANGED <<apps, has, observed, raced>>
      BY <2>1 DEF CheckName
    <3> QED
      BY <1>q, <3>1, <3>2
  <2>2. CASE InsertApplication(t)
    <3>1. /\ pc[t] = "insert" /\ \A u \in Threads \ {t} : pc'[u] = pc[u]
          /\ raced' = raced /\ observed' = observed
      BY <2>2, CreateMoves DEF Moved, InsertApplication
    <3>2. t \notin observed
      BY <3>1 DEF LifeInv, UnbornInv, Unborn, Clean
    <3>3. NotYet'
      BY <3>1, <3>2 DEF NotYet, Building
    <3> QED
      BY <1>t, <2>2, <3>3, InsertSteps
  <2>3. CASE ModuleCreates(t) \/ ModuleRefuses(t)
    <3>1. /\ pc[t] = "notify" /\ \A u \in Threads \ {t} : pc'[u] = pc[u]
          /\ raced' = raced /\ observed' = observed
      BY <2>3, CreateMoves DEF Moved, ModuleCreates, ModuleRefuses
    <3>2. NotYet'
      BY <3>1, NotYetFrame DEF Building
    <3> QED
      BY <1>t, <2>3, <3>2, ModuleCreatesSteps, ModuleRefusesSteps
  <2>4. CASE ObserveRouter(t)
    <3>1. /\ pc'[t] \in {"found", "done", "find"} /\ \A u \in Threads \ {t} : pc'[u] = pc[u]
          /\ raced' = raced /\ observed' \subseteq observed \cup {t}
      BY <2>4, CreateMoves DEF Moved, Ended, ObserveRouter
    <3>2. NotYet'
      BY <3>1 DEF NotYet, Building
    <3> QED
      BY <1>t, <2>4, <3>2, ObserveSteps
  <2> QED
    BY <1>4, <2>1, <2>2, <2>3, <2>4 DEF Create
<1>5. ASSUME NEW t \in Threads, Delete(t) PROVE NotYet' /\ \A a \in Apps : StepsLife(a)
  <2>1. NotYet'
    <3>1. pc[t] \in Deleting /\ raced \subseteq raced' /\ observed' \subseteq observed
      BY <1>5 DEF Delete, FindToDelete, EraseApplication, UnobserveRouter, ModuleDeletes
    <3>2. /\ pc'[t] \in Deleting \cup {"call", "done", "found", "check"}
          /\ \A u \in Threads \ {t} : pc'[u] = pc[u]
      BY <1>5, DeleteMoves DEF Delete, Moved, Ended
    <3> QED
      BY <3>1, <3>2, NotYetFrame DEF Building
  <2>2. CASE FindToDelete(t) \/ (EraseApplication(t) /\ target[t] \notin apps)
    <3>1. /\ pc[t] \in {"find", "erase"}
          /\ \/ target[t] \in apps /\ pc'[t] = "erase" /\ target'[t] = target[t]
             \/ target[t] \notin apps /\ pc'[t] \in {"call", "done"} /\ (pc'[t] = "call" => t = Timer)
          /\ \A u \in Threads \ {t} : pc'[u] = pc[u] /\ target'[u] = target[u]
      BY <2>2, DeleteMoves DEF Moved, Ended
    <3>2. UNCHANGED <<apps, has, observed, raced>>
      BY <2>2, <3>1 DEF FindToDelete, EraseApplication
    <3> QED
      BY <1>t, <2>1, <3>1, <3>2, QuietSteps
  <2>3. CASE EraseApplication(t) /\ target[t] \in apps
    BY <1>t, <2>1, <2>3, EraseSteps
  <2>4. CASE UnobserveRouter(t)
    BY <1>t, <2>1, <2>4, UnobserveSteps
  <2>5. CASE ModuleDeletes(t)
    BY <1>t, <2>1, <2>5, ModuleDeletesSteps
  <2> QED
    BY <1>5, <2>2, <2>3, <2>4, <2>5 DEF Delete
<1>6. ASSUME NEW t \in Threads, (t \in Admins /\ ApiCall(t)) \/ (t = Timer /\ TimerFires)
      PROVE  NotYet' /\ \A a \in Apps : StepsLife(a)
  <2>1. UNCHANGED <<apps, has, observed, raced>>
    BY <1>6 DEF ApiCall, TimerFires
  <2>2. /\ pc[t] = "call" /\ pc'[t] \in {"check", "find"}
        /\ \A u \in Threads \ {t} : pc'[u] = pc[u] /\ target'[u] = target[u]
    BY <1>6, CallMoves DEF Moved
  <2> QED
    BY <1>q, <2>1, <2>2
<1> QED
  BY <1>1, <1>3, <1>4, <1>5, <1>6 DEF Next

\* Whatever a module refuses and however many threads delete an application at once, the
\* modules hear of it in their order, each once, and of its deletion in the reverse order,
\* each once, unless the deletion began during the creation (CreateApplication and
\* DeleteApplication, orchestrator.cpp:1354).
THEOREM ImplementsApplicationLife == Spec => KeepsApplicationLife
<1>1. Init => NotYet /\ \A a \in Apps : Lives(a)!Init
  <2> SUFFICES ASSUME Init, NEW a \in Apps PROVE a \notin observed /\ Lives(a)!Init
    BY DEF NotYet
  <2>1. /\ a \in Threads /\ pc[a] = "call" /\ raced = {} /\ observed = {} /\ has[a] = {}
    BY ThreadFacts DEF Init
  <2>2. Life(a) = "none" /\ Parts(a) = {}
    BY <2>1 DEF Life, Parts, Unborn
  <2> QED
    BY <2>1, <2>2 DEF Lives!Init
<1>2. IInv /\ NotYet /\ [Next]_vars =>
        NotYet' /\ \A a \in Apps : [Lives(a)!Next]_<<Life(a), Parts(a)>>
  BY LifeStepsOf DEF StepsLife
<1>3. IInv /\ NotYet /\ [Next]_vars =>
        [\A a \in Apps : [Lives(a)!Next]_<<Life(a), Parts(a)>>]_vars
  BY <1>2
<1>4. IInv /\ NotYet /\ [Next]_vars => NotYet'
  BY <1>2
<1> QED
  BY <1>1, <1>3, <1>4, IInvariant, PTL DEF Spec, KeepsApplicationLife
=============================================================================
