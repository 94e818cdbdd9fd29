------------------------- MODULE PushProviderProofs -------------------------
(* Proofs about PushProvider for every set of connections, names, handles:   *)
(* types, that one thread deletes a stream, and what the policy on duplicate *)
(* names promises where handles are not reused.                              *)
EXTENDS PushProvider, TLAPS

Deleting == {"erase", "unlist", "unnotify", "unroute"}

\* A stream that AddStream has taken has its application.
HasApplication ==
  \A c \in Connections :
    pc[c] \in {"insert", "create", "register", "notify"} => c \in app

TypeInv == TypeOK /\ HasApplication

\* A worker is in a handler of its connection only before the connection is published
\* or after it has gone, and then it deletes.
InHandler ==
  \A c \in Connections : pc[c] # "idle" =>
    \/ sock[c] = "open" /\ c \notin published
    \/ sock[c] = "gone" /\ pc[c] \in Deleting

\* A stream of the application, or one that is being deleted, was inserted, and its
\* own worker cannot insert it again.
Inserted ==
  \A c \in Connections :
    c \in streams \/ (\E t \in Threads : Deletes(t, c)) =>
      c \in published \/ pc[c] \in {"create", "register", "notify"}

DeleterInv == InHandler /\ Inserted /\ OneDeleter

\* A channel is found by the handle of its connection.
ChannelId == \A h \in Handles : channels[h] # None => handle[channels[h]] = h

\* With the policy on and handles that are not reused, the worker that deletes a
\* stream is its own, after the disconnection.
OwnDeletion ==
  block => \A t \in Connections : pc[t] \in Deleting =>
    /\ sock[t] = "gone"
    /\ OwnHandle(target[t]) => target[t] = t

ExistingInv == ChannelId /\ OwnDeletion

\* The task runner deletes only streams whose timer runs, and a worker starts the
\* timer when it is done with publishing.
RunnerDeletesTimed ==
  /\ pc[Runner] \in Deleting => target[Runner] \in timed
  /\ block => \A c \in timed :
       /\ c \in published \cup stopped
       /\ pc[c] \notin {"add", "insert", "create", "register", "notify"}

\* A stream that is being created stays where it has been put, and the observers
\* no longer know a stream whose inbound stream is about to be deleted.
CreatedStays ==
  \A c \in Connections : block /\ OwnHandle(c) =>
    /\ pc[c] \in {"create", "register", "notify"} => c \in streams
    /\ pc[c] = "notify" => c \in inbound
    /\ \A t \in Threads : pc[t] = "unroute" /\ target[t] = c => c \notin observed

OrphanInv == RunnerDeletesTimed /\ CreatedStays /\ NoOrphan

-----------------------------------------------------------------------------
(* Types *)

LEMMA ThreadsNotNone ==
  Runner \in Threads /\ Connections \subseteq Threads /\ Runner \notin Connections
  /\ None \notin Connections
BY PushAssumption DEF Threads

\* A thread that is done with a deletion is at one of three steps.
LEMMA DoneType ==
  ASSUME TypeOK, NEW t \in Threads, Done(t)
  PROVE  /\ pc' \in [Threads -> Steps]
         /\ pc'[t] \in {"scan", "add", "idle"}
         /\ \A u \in Threads \ {t} : pc'[u] = pc[u]
BY DEF TypeOK, Done, Goto, Steps

LEMMA TypeStep == TypeInv /\ [Next]_vars => TypeInv'
<1> SUFFICES ASSUME TypeInv, [Next]_vars PROVE TypeInv'
  OBVIOUS
<1> USE ThreadsNotNone DEF TypeInv, TypeOK, HasApplication, Goto, Steps, config
<1>1. ASSUME NEW c \in Connections, Accept(c) PROVE TypeInv'
  BY <1>1 DEF Accept, SocketStates
<1>2. ASSUME NEW c \in Connections, OnConnected(c) PROVE TypeInv'
  BY <1>2 DEF OnConnected, SocketStates
<1>3. ASSUME NEW c \in Connections, Close(c) PROVE TypeInv'
  BY <1>3 DEF Close, SocketStates
<1>4. ASSUME NEW c \in Connections, JoinStream(c) PROVE TypeInv'
  BY <1>4 DEF JoinStream, Reject, SameName
<1>5. ASSUME NEW c \in Connections, AddStream(c) PROVE TypeInv'
  BY <1>5 DEF AddStream, Reject
<1>6. ASSUME NEW c \in Connections, InsertStream(c) PROVE TypeInv'
  BY <1>6 DEF InsertStream
<1>7. ASSUME NEW c \in Connections, OnStreamCreated(c) PROVE TypeInv'
  BY <1>7 DEF OnStreamCreated, Published
<1>8. ASSUME NEW c \in Connections, CreateInboundStream(c) PROVE TypeInv'
  BY <1>8 DEF CreateInboundStream
<1>9. ASSUME NEW c \in Connections, NotifyStreamCreate(c) PROVE TypeInv'
  BY <1>9 DEF NotifyStreamCreate, Published
<1>10. ASSUME NEW c \in Connections, OnDisconnected(c) PROVE TypeInv'
  BY <1>10 DEF OnDisconnected, SocketStates
<1>11. ASSUME NEW c \in Connections, TimeOut(c) PROVE TypeInv'
  BY <1>11 DEF TimeOut
<1>12. ASSUME NEW c \in Connections, TerminateStream(c) \/ StrayData(c) PROVE TypeInv'
  BY <1>12 DEF TerminateStream, StrayData
<1>13. ASSUME NEW t \in Threads, EraseChannel(t) PROVE TypeInv'
  BY <1>13, DoneType DEF EraseChannel
<1>14. ASSUME NEW t \in Threads, Unlist(t) PROVE TypeInv'
  BY <1>14, DoneType DEF Unlist
<1>15. ASSUME NEW t \in Threads, NotifyStreamDeleted(t) PROVE TypeInv'
  BY <1>15 DEF NotifyStreamDeleted
<1>16. ASSUME NEW t \in Threads, DeleteInboundStream(t) PROVE TypeInv'
  BY <1>16, DoneType DEF DeleteInboundStream
<1>17. CASE CopyChannels
  BY <1>17 DEF CopyChannels
<1>18. CASE Sleep
  BY <1>18 DEF Sleep
<1>19. CASE UNCHANGED vars
  BY <1>19 DEF vars
<1> QED
  BY <1>1, <1>2, <1>3, <1>4, <1>5, <1>6, <1>7, <1>8, <1>9, <1>10, <1>11, <1>12,
     <1>13, <1>14, <1>15, <1>16, <1>17, <1>18, <1>19 DEF Next, Publish, Delete

\* Types: every variable stays within its set, and a thread that deletes has a target
\* (all handlers of PushProvider and Application).
THEOREM TypeCorrect == Spec => []TypeOK
<1>1. Init => TypeInv
  BY DEF Init, TypeInv, TypeOK, HasApplication, Steps, SocketStates, Threads
<1>2. TypeInv => TypeOK
  BY DEF TypeInv
<1> QED BY <1>1, <1>2, TypeStep, PTL DEF Spec

-----------------------------------------------------------------------------
(* One deleter *)

\* Steps that leave alone what the invariant is about preserve it.
LEMMA DeleterFrame ==
  ASSUME DeleterInv, UNCHANGED <<sock, published, streams, pc, target>>
  PROVE  DeleterInv'
BY DEF DeleterInv, InHandler, Inserted, OneDeleter, Deletes

\* A thread that is done with a deletion deletes nothing, and goes on in the handler
\* of its connection only while that is open.
LEMMA DeleterDone ==
  ASSUME TypeInv, DeleterInv, NEW t \in Threads, pc[t] \in Deleting, Done(t),
         UNCHANGED <<sock, published, streams, target>>
  PROVE  DeleterInv'
<1>1. pc'[t] \in {"scan", "add", "idle"} /\ \A u \in Threads \ {t} : pc'[u] = pc[u]
  BY DoneType DEF TypeInv
<1>2. t \in Connections => pc'[t] = IF sock[t] = "open" THEN "add" ELSE "idle"
  BY PushAssumption DEF Done, Goto, TypeInv, TypeOK, Threads
<1>3. InHandler'
  BY <1>1, <1>2, ThreadsNotNone DEF DeleterInv, InHandler, Deleting
<1>4. \A u \in Threads, c \in Connections : Deletes(u, c)' => Deletes(u, c)
  BY <1>1 DEF Deletes
<1>5. \A c \in Connections :
        pc[c] \in {"create", "register", "notify"} => pc'[c] = pc[c]
  BY <1>1, ThreadsNotNone DEF Deleting
<1>6. Inserted'
  BY <1>4, <1>5, ThreadsNotNone DEF DeleterInv, Inserted
<1>7. OneDeleter'
  BY <1>4 DEF DeleterInv, OneDeleter
<1> QED BY <1>3, <1>6, <1>7 DEF DeleterInv

LEMMA DeleterStep == TypeInv /\ DeleterInv /\ [Next]_vars => DeleterInv'
<1> SUFFICES ASSUME TypeInv, DeleterInv, [Next]_vars PROVE DeleterInv'
  OBVIOUS
<1> USE ThreadsNotNone
<1> USE DEF TypeInv, TypeOK, DeleterInv, InHandler, Inserted, OneDeleter, Deletes,
            Goto, Deleting
<1>1. ASSUME NEW c \in Connections, Accept(c) PROVE DeleterInv'
  BY <1>1 DEF Accept
<1>2. ASSUME NEW c \in Connections, OnConnected(c) PROVE DeleterInv'
  BY <1>2 DEF OnConnected
<1>3. ASSUME NEW c \in Connections, Close(c) PROVE DeleterInv'
  BY <1>3 DEF Close
<1>4. ASSUME NEW c \in Connections, JoinStream(c) PROVE DeleterInv'
  BY <1>4 DEF JoinStream, Reject
<1>5. ASSUME NEW c \in Connections, AddStream(c) PROVE DeleterInv'
  BY <1>5 DEF AddStream, Reject
<1>6. ASSUME NEW c \in Connections, InsertStream(c) PROVE DeleterInv'
  BY <1>6 DEF InsertStream
<1>7. ASSUME NEW c \in Connections, OnStreamCreated(c) PROVE DeleterInv'
  BY <1>7 DEF OnStreamCreated, Published
<1>8. ASSUME NEW c \in Connections, CreateInboundStream(c) PROVE DeleterInv'
  BY <1>8 DEF CreateInboundStream
<1>9. ASSUME NEW c \in Connections, NotifyStreamCreate(c) PROVE DeleterInv'
  BY <1>9 DEF NotifyStreamCreate, Published
<1>10. ASSUME NEW c \in Connections, OnDisconnected(c) PROVE DeleterInv'
  BY <1>10 DEF OnDisconnected
<1>11. ASSUME NEW c \in Connections, TimeOut(c) PROVE DeleterInv'
  BY <1>11 DEF TimeOut
<1>12. ASSUME NEW c \in Connections, TerminateStream(c) \/ StrayData(c) PROVE DeleterInv'
  BY <1>12, DeleterFrame DEF TerminateStream, StrayData
<1>13. ASSUME NEW t \in Threads, EraseChannel(t) PROVE DeleterInv'
  <2>1. CASE Done(t)
    BY <1>13, <2>1, DeleterDone DEF EraseChannel
  <2>2. CASE Goto(t, "unlist")
    BY <1>13, <2>2 DEF EraseChannel
  <2> QED BY <1>13, <2>1, <2>2 DEF EraseChannel
<1>14. ASSUME NEW t \in Threads, Unlist(t) PROVE DeleterInv'
  <2>1. CASE target[t] \in streams
    BY <1>14, <2>1 DEF Unlist
  <2>2. CASE target[t] \notin streams
    BY <1>14, <2>2, DeleterDone DEF Unlist
  <2> QED BY <2>1, <2>2
<1>15. ASSUME NEW t \in Threads, NotifyStreamDeleted(t) PROVE DeleterInv'
  BY <1>15 DEF NotifyStreamDeleted
<1>16. ASSUME NEW t \in Threads, DeleteInboundStream(t) PROVE DeleterInv'
  BY <1>16, DeleterDone DEF DeleteInboundStream
<1>17. CASE CopyChannels
  BY <1>17 DEF CopyChannels
<1>18. CASE Sleep
  BY <1>18 DEF Sleep
<1>19. CASE UNCHANGED vars
  BY <1>19, DeleterFrame DEF vars
<1> QED
  BY <1>1, <1>2, <1>3, <1>4, <1>5, <1>6, <1>7, <1>8, <1>9, <1>10, <1>11, <1>12,
     <1>13, <1>14, <1>15, <1>16, <1>17, <1>18, <1>19 DEF Next, Publish, Delete

LEMMA DeleterInit == Init => TypeInv /\ DeleterInv
BY DEF Init, TypeInv, TypeOK, HasApplication, Steps, SocketStates, Threads,
       DeleterInv, InHandler, Inserted, OneDeleter, Deletes

\* However many threads delete a stream at once, one of them stops it and notifies the
\* media router, after the stream has left the application (Application::DeleteStream).
THEOREM StreamHasOneDeleter == Spec => []OneDeleter
<1>1. TypeInv /\ DeleterInv => OneDeleter
  BY DEF DeleterInv
<1> QED BY <1>1, DeleterInit, TypeStep, DeleterStep, PTL DEF Spec

-----------------------------------------------------------------------------
(* The existing stream is kept *)

\* The invariants that a step is proved from, up to here and in the next part.
ExistingHyp == TypeInv /\ DeleterInv /\ ExistingInv

\* The policy, the names and the handles never change, nor does who shares a handle.
LEMMA ConfigStays ==
  ASSUME [Next]_vars
  PROVE  UNCHANGED <<block, name, handle>> /\ \A c : OwnHandle(c)' = OwnHandle(c)
<1>1. UNCHANGED <<block, name, handle>>
  BY DEF Next, Publish, Delete, config, vars, Accept, OnConnected, Close, JoinStream,
         AddStream, InsertStream, OnStreamCreated, CreateInboundStream,
         NotifyStreamCreate, OnDisconnected, TimeOut, TerminateStream, StrayData, EraseChannel,
         Unlist, NotifyStreamDeleted, DeleteInboundStream, CopyChannels, Sleep
<1> QED BY <1>1 DEF OwnHandle

\* A thread that is done, or goes on, with a deletion keeps its target.
LEMMA ExistingDelete ==
  ASSUME ExistingHyp, [Next]_vars, NEW t \in Threads, pc[t] \in Deleting,
         pc'[t] \in Steps, \A u \in Threads \ {t} : pc'[u] = pc[u],
         UNCHANGED <<sock, target>>
  PROVE  OwnDeletion'
BY ConfigStays, ThreadsNotNone DEF ExistingHyp, ExistingInv, OwnDeletion

LEMMA ExistingStep == ExistingHyp /\ [Next]_vars => ExistingInv'
<1> SUFFICES ASSUME ExistingHyp, [Next]_vars PROVE ExistingInv'
  OBVIOUS
<1> USE ThreadsNotNone, ConfigStays
<1> USE DEF ExistingHyp, TypeInv, TypeOK, ExistingInv, ChannelId, OwnDeletion, Goto,
            Deleting
<1>0. \A c \in Connections : pc[c] # "idle" => sock[c] \in {"open", "gone"}
  BY DEF DeleterInv, InHandler
<1>1. ASSUME NEW c \in Connections, Accept(c) PROVE ExistingInv'
  BY <1>0, <1>1 DEF Accept
<1>2. ASSUME NEW c \in Connections, OnConnected(c) PROVE ExistingInv'
  BY <1>0, <1>2 DEF OnConnected
<1>3. ASSUME NEW c \in Connections, Close(c) PROVE ExistingInv'
  BY <1>3 DEF Close
<1>4. ASSUME NEW c \in Connections, JoinStream(c) PROVE ExistingInv'
  BY <1>4 DEF JoinStream, Reject
<1>5. ASSUME NEW c \in Connections, AddStream(c) PROVE ExistingInv'
  BY <1>5 DEF AddStream, Reject
<1>6. ASSUME NEW c \in Connections, InsertStream(c) PROVE ExistingInv'
  BY <1>6 DEF InsertStream
<1>7. ASSUME NEW c \in Connections, OnStreamCreated(c) PROVE ExistingInv'
  BY <1>7 DEF OnStreamCreated, Published
<1>8. ASSUME NEW c \in Connections, CreateInboundStream(c) PROVE ExistingInv'
  BY <1>8 DEF CreateInboundStream
<1>9. ASSUME NEW c \in Connections, NotifyStreamCreate(c) PROVE ExistingInv'
  BY <1>9 DEF NotifyStreamCreate, Published
<1>10. ASSUME NEW c \in Connections, OnDisconnected(c) PROVE ExistingInv'
  <2>1. ChannelId'
    BY <1>10 DEF OnDisconnected
  <2>2. ASSUME NEW d \in Connections, channels[handle[c]] = d, OwnHandle(d) PROVE d = c
    BY <2>2 DEF OwnHandle
  <2>3. \A t \in Connections \ {c} : pc'[t] = pc[t] /\ target'[t] = target[t]
    BY <1>10 DEF OnDisconnected
  <2>4. sock'[c] = "gone" /\ \A t \in Connections \ {c} : sock'[t] = sock[t]
    BY <1>10 DEF OnDisconnected
  <2>5. pc'[c] \in Deleting =>
          target'[c] = channels[handle[c]] /\ channels[handle[c]] \in Connections
    <3>1. pc[c] = "idle"
      BY <1>10, <1>0 DEF OnDisconnected
    <3> QED BY <1>10, <3>1 DEF OnDisconnected
  <2>6. ASSUME block, NEW t \in Connections, pc'[t] \in Deleting
        PROVE  sock'[t] = "gone" /\ (OwnHandle(target'[t]) => target'[t] = t)
    BY <2>2, <2>3, <2>4, <2>5, <2>6
  <2>7. OwnDeletion'
    BY <2>6
  <2> QED BY <2>1, <2>7
<1>11. ASSUME NEW c \in Connections, TimeOut(c) PROVE ExistingInv'
  BY <1>11 DEF TimeOut
<1>12. ASSUME NEW c \in Connections, TerminateStream(c) \/ StrayData(c) PROVE ExistingInv'
  BY <1>12 DEF TerminateStream, StrayData
<1>13. ASSUME NEW t \in Threads, EraseChannel(t) PROVE ExistingInv'
  <2>1. pc'[t] \in Steps /\ \A u \in Threads \ {t} : pc'[u] = pc[u]
    BY <1>13, DoneType DEF EraseChannel, Steps
  <2> QED BY <1>13, <2>1, ExistingDelete DEF EraseChannel
<1>14. ASSUME NEW t \in Threads, Unlist(t) PROVE ExistingInv'
  <2>1. pc'[t] \in Steps /\ \A u \in Threads \ {t} : pc'[u] = pc[u]
    BY <1>14, DoneType DEF Unlist, Steps
  <2> QED BY <1>14, <2>1, ExistingDelete DEF Unlist
<1>15. ASSUME NEW t \in Threads, NotifyStreamDeleted(t) PROVE ExistingInv'
  BY <1>15, ExistingDelete DEF NotifyStreamDeleted, Steps
<1>16. ASSUME NEW t \in Threads, DeleteInboundStream(t) PROVE ExistingInv'
  <2>1. pc'[t] \in Steps /\ \A u \in Threads \ {t} : pc'[u] = pc[u]
    BY <1>16, DoneType DEF DeleteInboundStream
  <2> QED BY <1>16, <2>1, ExistingDelete DEF DeleteInboundStream
<1>17. CASE CopyChannels
  BY <1>17 DEF CopyChannels
<1>18. CASE Sleep
  BY <1>18 DEF Sleep
<1>19. CASE UNCHANGED vars
  BY <1>19 DEF vars
<1> QED
  BY <1>1, <1>2, <1>3, <1>4, <1>5, <1>6, <1>7, <1>8, <1>9, <1>10, <1>11, <1>12,
     <1>13, <1>14, <1>15, <1>16, <1>17, <1>18, <1>19 DEF Next, Publish, Delete

LEMMA ExistingInit == Init => ExistingHyp
BY DeleterInit, ThreadsNotNone DEF Init, ExistingHyp, ExistingInv, ChannelId, OwnDeletion, Deleting

\* Only Unlist takes a stream out of the application.
LEMMA LeavesByUnlist ==
  ASSUME [Next]_vars, NEW c \in Connections, c \in streams, c \notin streams'
  PROVE  \E t \in Threads : pc[t] = "unlist" /\ target[t] = c
BY DEF Next, Publish, Delete, vars, Accept, OnConnected, Close, JoinStream,
       AddStream, InsertStream, OnStreamCreated, CreateInboundStream,
       NotifyStreamCreate, OnDisconnected, TimeOut, TerminateStream, StrayData, EraseChannel,
       Unlist, NotifyStreamDeleted, DeleteInboundStream, CopyChannels, Sleep

\* With the policy on and handles that are not reused, only the stream's own worker,
\* after the disconnection, and the task runner take a stream out of the application:
\* a new stream of the same name does not (RtmpApplication::JoinStream).
THEOREM ExistingIsMaintained == Spec => MaintainsExisting
<1>1. ExistingHyp /\ [Next]_vars =>
        [\A c \in Connections :
           block /\ OwnHandle(c) /\ c \in streams /\ c \notin streams' =>
             \/ sock[c] = "gone"
             \/ pc[Runner] = "unlist" /\ target[Runner] = c]_vars
  <2> SUFFICES ASSUME ExistingHyp, [Next]_vars, NEW c \in Connections,
                      block, OwnHandle(c), c \in streams, c \notin streams'
               PROVE  \/ sock[c] = "gone"
                      \/ pc[Runner] = "unlist" /\ target[Runner] = c
    OBVIOUS
  <2>1. PICK t \in Threads : pc[t] = "unlist" /\ target[t] = c
    BY LeavesByUnlist
  <2>2. CASE t = Runner
    BY <2>1, <2>2
  <2>3. CASE t \in Connections
    BY <2>1, <2>3 DEF ExistingHyp, ExistingInv, OwnDeletion, Deleting
  <2> QED BY <2>2, <2>3 DEF Threads
<1>2. ExistingHyp /\ [Next]_vars => ExistingHyp'
  BY TypeStep, DeleterStep, ExistingStep DEF ExistingHyp
<1> QED BY <1>1, <1>2, ExistingInit, PTL DEF Spec, MaintainsExisting

-----------------------------------------------------------------------------
(* No orphan *)

\* All invariants of the module.
OrphanHyp == ExistingHyp /\ OrphanInv

\* With the policy on, a worker that is done with a deletion goes on with nothing.
LEMMA DoneIdle ==
  ASSUME ExistingHyp, NEW t \in Threads, pc[t] \in Deleting, Done(t)
  PROVE  /\ \A u \in Threads \ {t} : pc'[u] = pc[u]
         /\ t = Runner => pc'[t] = "scan"
         /\ block /\ t \in Connections => pc'[t] = "idle"
         /\ pc'[t] \in {"scan", "add", "idle"}
<1>1. \A u \in Threads \ {t} : pc'[u] = pc[u]
  BY DoneType DEF ExistingHyp, TypeInv
<1>2. pc'[t] = IF t = Runner THEN "scan" ELSE IF sock[t] = "open" THEN "add" ELSE "idle"
  BY DEF Done, Goto, ExistingHyp, TypeInv, TypeOK
<1>3. block /\ t \in Connections => sock[t] = "gone"
  BY DEF ExistingHyp, ExistingInv, OwnDeletion
<1> QED BY <1>1, <1>2, <1>3, ThreadsNotNone

\* Whoever deletes a stream while its handle is its own, no worker is creating it.
LEMMA DeletedNotCreated ==
  ASSUME OrphanHyp, block, NEW c \in Connections, OwnHandle(c),
         NEW t \in Threads, pc[t] \in Deleting, target[t] = c
  PROVE  pc[c] \notin {"add", "insert", "create", "register", "notify"}
<1>1. CASE t = Runner
  BY <1>1 DEF OrphanHyp, OrphanInv, RunnerDeletesTimed
<1>2. CASE t \in Connections
  BY <1>2 DEF OrphanHyp, ExistingHyp, ExistingInv, OwnDeletion, Deleting
<1> QED BY <1>1, <1>2 DEF Threads

\* The task runner's part of the invariant.
LEMMA RunnerStep == OrphanHyp /\ [Next]_vars => RunnerDeletesTimed'
<1> SUFFICES ASSUME OrphanHyp, [Next]_vars PROVE RunnerDeletesTimed'
  OBVIOUS
<1> USE ThreadsNotNone, ConfigStays
<1> USE DEF OrphanHyp, ExistingHyp, TypeInv, TypeOK, OrphanInv, RunnerDeletesTimed,
            Goto, Deleting
<1>1. ASSUME NEW c \in Connections,
             Accept(c) \/ OnConnected(c) \/ Close(c) \/ TerminateStream(c) \/ StrayData(c)
      PROVE  RunnerDeletesTimed'
  BY <1>1 DEF Accept, OnConnected, Close, TerminateStream, StrayData
<1>2. ASSUME NEW c \in Connections, JoinStream(c) PROVE RunnerDeletesTimed'
  BY <1>2 DEF JoinStream, Reject
<1>3. ASSUME NEW c \in Connections, AddStream(c) PROVE RunnerDeletesTimed'
  BY <1>3 DEF AddStream, Reject
<1>4. ASSUME NEW c \in Connections, InsertStream(c) \/ CreateInboundStream(c)
      PROVE  RunnerDeletesTimed'
  BY <1>4 DEF InsertStream, CreateInboundStream
<1>5. ASSUME NEW c \in Connections, OnStreamCreated(c) PROVE RunnerDeletesTimed'
  BY <1>5 DEF OnStreamCreated, Published
<1>6. ASSUME NEW c \in Connections, NotifyStreamCreate(c) PROVE RunnerDeletesTimed'
  BY <1>6 DEF NotifyStreamCreate, Published
<1>7. ASSUME NEW c \in Connections, OnDisconnected(c) PROVE RunnerDeletesTimed'
  BY <1>7 DEF OnDisconnected
<1>8. ASSUME NEW c \in Connections, TimeOut(c) PROVE RunnerDeletesTimed'
  BY <1>8 DEF TimeOut
<1>9. ASSUME NEW t \in Threads, EraseChannel(t) PROVE RunnerDeletesTimed'
  BY <1>9, DoneIdle DEF EraseChannel
<1>10. ASSUME NEW t \in Threads, Unlist(t) PROVE RunnerDeletesTimed'
  BY <1>10, DoneIdle DEF Unlist
<1>11. ASSUME NEW t \in Threads, NotifyStreamDeleted(t) PROVE RunnerDeletesTimed'
  BY <1>11 DEF NotifyStreamDeleted
<1>12. ASSUME NEW t \in Threads, DeleteInboundStream(t) PROVE RunnerDeletesTimed'
  BY <1>12, DoneIdle DEF DeleteInboundStream
<1>13. CASE CopyChannels \/ Sleep
  BY <1>13 DEF CopyChannels, Sleep
<1>14. CASE UNCHANGED vars
  BY <1>14 DEF vars
<1> QED
  BY <1>1, <1>2, <1>3, <1>4, <1>5, <1>6, <1>7, <1>8, <1>9, <1>10, <1>11, <1>12,
     <1>13, <1>14 DEF Next, Publish, Delete

\* A step that starts no creation and announces no deletion, of a thread t that takes
\* at most the stream d away, where d is not being created.
LEMMA CreatedFrame ==
  ASSUME CreatedStays, [Next]_vars, NEW t \in Threads, NEW d,
         \A u \in Threads \ {t} : pc'[u] = pc[u],
         pc'[t] \notin {"create", "register", "notify", "unroute"},
         \A u \in Threads : pc'[u] = "unroute" => target'[u] = target[u],
         observed' \subseteq observed,
         streams \ {d} \subseteq streams', inbound \ {d} \subseteq inbound',
         block /\ d \in Connections /\ OwnHandle(d) =>
           pc[d] \notin {"create", "register", "notify"}
  PROVE  CreatedStays'
<1> SUFFICES ASSUME NEW c \in Connections, block, OwnHandle(c)
             PROVE  /\ pc'[c] \in {"create", "register", "notify"} => c \in streams'
                    /\ pc'[c] = "notify" => c \in inbound'
                    /\ \A u \in Threads :
                         pc'[u] = "unroute" /\ target'[u] = c => c \notin observed'
  BY ConfigStays DEF CreatedStays
<1>1. pc'[c] \in {"create", "register", "notify"} => pc'[c] = pc[c] /\ c # d
  BY ThreadsNotNone
<1>2. ASSUME NEW u \in Threads, pc'[u] = "unroute", target'[u] = c PROVE c \notin observed'
  <2>1. pc[u] = "unroute" /\ target[u] = c
    BY <1>2
  <2> QED BY <2>1 DEF CreatedStays
<1> QED BY <1>1, <1>2 DEF CreatedStays

\* The part about streams that are being created.
LEMMA CreatedStep == OrphanHyp /\ [Next]_vars => CreatedStays'
<1> SUFFICES ASSUME OrphanHyp, [Next]_vars PROVE CreatedStays'
  OBVIOUS
<1> USE ThreadsNotNone, ConfigStays
<1>t. TypeOK /\ CreatedStays
  BY DEF OrphanHyp, ExistingHyp, TypeInv, OrphanInv
<1>h. ExistingHyp
  BY DEF OrphanHyp
<1> USE <1>t DEF TypeOK, CreatedStays, Goto, Deleting
<1>1. ASSUME NEW c \in Connections,
             Accept(c) \/ OnConnected(c) \/ Close(c) \/ TerminateStream(c) \/ StrayData(c)
      PROVE  CreatedStays'
  BY <1>1 DEF Accept, OnConnected, Close, TerminateStream, StrayData
<1>2. ASSUME NEW c \in Connections, JoinStream(c) PROVE CreatedStays'
  <2>1. /\ pc'[c] \in {"add", "idle", "unlist"}
        /\ \A u \in Threads \ {c} : pc'[u] = pc[u] /\ target'[u] = target[u]
    BY <1>2 DEF JoinStream, Reject
  <2>2. UNCHANGED <<streams, inbound, observed>>
    BY <1>2 DEF JoinStream
  <2> QED BY <2>1, <2>2, CreatedFrame
<1>3. ASSUME NEW c \in Connections, AddStream(c) PROVE CreatedStays'
  BY <1>3 DEF AddStream, Reject
<1>4. ASSUME NEW c \in Connections, InsertStream(c) \/ CreateInboundStream(c)
      PROVE  CreatedStays'
  <2>1. CASE InsertStream(c)
    BY <2>1 DEF InsertStream
  <2>2. CASE CreateInboundStream(c)
    BY <2>2 DEF CreateInboundStream
  <2> QED BY <1>4, <2>1, <2>2
<1>5. ASSUME NEW c \in Connections, OnStreamCreated(c) PROVE CreatedStays'
  BY <1>5 DEF OnStreamCreated, Published
<1>6. ASSUME NEW c \in Connections, NotifyStreamCreate(c) PROVE CreatedStays'
  <2>1. ASSUME block, OwnHandle(c), NEW t \in Threads, pc[t] = "unroute"
        PROVE  target[t] # c
    BY <1>6, <2>1, DeletedNotCreated DEF NotifyStreamCreate
  <2> QED BY <1>6, <2>1 DEF NotifyStreamCreate, Published
<1>7. ASSUME NEW c \in Connections, OnDisconnected(c) PROVE CreatedStays'
  <2>1. pc[c] = "idle"
    BY <1>7 DEF OnDisconnected, ExistingHyp, OrphanHyp, DeleterInv, InHandler
  <2>2. /\ pc'[c] \in {"idle", "erase"}
        /\ \A u \in Threads \ {c} : pc'[u] = pc[u] /\ target'[u] = target[u]
    BY <1>7, <2>1 DEF OnDisconnected
  <2>3. UNCHANGED <<streams, inbound, observed>>
    BY <1>7 DEF OnDisconnected
  <2> QED BY <2>2, <2>3, CreatedFrame
<1>8. ASSUME NEW c \in Connections, TimeOut(c) PROVE CreatedStays'
  BY <1>8 DEF TimeOut
<1>9. ASSUME NEW t \in Threads, EraseChannel(t) PROVE CreatedStays'
  <2>1. /\ pc'[t] \in {"scan", "add", "idle", "unlist"}
        /\ \A u \in Threads \ {t} : pc'[u] = pc[u]
    BY <1>h, <1>9, DoneIdle DEF EraseChannel
  <2>2. UNCHANGED <<target, streams, inbound, observed>>
    BY <1>9 DEF EraseChannel
  <2> QED BY <2>1, <2>2, CreatedFrame
<1>10. ASSUME NEW t \in Threads, Unlist(t) PROVE CreatedStays'
  <2>1. ASSUME NEW c \in Connections, block, OwnHandle(c), target[t] = c
        PROVE  pc[c] \notin {"create", "register", "notify"}
    BY <1>10, <2>1, DeletedNotCreated DEF Unlist
  <2>2. /\ pc'[t] \in {"scan", "add", "idle", "unnotify"}
        /\ \A u \in Threads \ {t} : pc'[u] = pc[u]
    BY <1>h, <1>10, DoneIdle DEF Unlist
  <2>3. UNCHANGED <<target, inbound, observed>> /\ streams \ {target[t]} \subseteq streams'
    BY <1>10 DEF Unlist
  <2> QED BY <2>1, <2>2, <2>3, CreatedFrame
<1>11. ASSUME NEW t \in Threads, NotifyStreamDeleted(t) PROVE CreatedStays'
  BY <1>11 DEF NotifyStreamDeleted
<1>12. ASSUME NEW t \in Threads, DeleteInboundStream(t) PROVE CreatedStays'
  <2>1. ASSUME NEW c \in Connections, block, OwnHandle(c), target[t] = c
        PROVE  pc[c] \notin {"create", "register", "notify"}
    BY <1>12, <2>1, DeletedNotCreated DEF DeleteInboundStream
  <2>2. /\ pc'[t] \in {"scan", "add", "idle"}
        /\ \A u \in Threads \ {t} : pc'[u] = pc[u]
    BY <1>h, <1>12, DoneIdle DEF DeleteInboundStream
  <2>3. UNCHANGED <<target, streams, observed>> /\ inbound \ {target[t]} \subseteq inbound'
    BY <1>12 DEF DeleteInboundStream
  <2> QED BY <2>1, <2>2, <2>3, CreatedFrame
<1>13. CASE CopyChannels \/ Sleep
  <2>1. /\ pc'[Runner] \in {"scan", "idle"}
        /\ \A u \in Threads \ {Runner} : pc'[u] = pc[u]
    BY <1>13 DEF CopyChannels, Sleep
  <2>2. UNCHANGED <<target, streams, inbound, observed>>
    BY <1>13 DEF CopyChannels, Sleep
  <2> QED BY <2>1, <2>2, CreatedFrame
<1>14. CASE UNCHANGED vars
  BY <1>14 DEF vars
<1> QED
  BY <1>1, <1>2, <1>3, <1>4, <1>5, <1>6, <1>7, <1>8, <1>9, <1>10, <1>11, <1>12,
     <1>13, <1>14 DEF Next, Publish, Delete

\* What the media router and the observers know.
LEMMA OrphanStep == OrphanHyp /\ [Next]_vars => NoOrphan'
<1> SUFFICES ASSUME OrphanHyp, [Next]_vars PROVE NoOrphan'
  OBVIOUS
<1> USE ThreadsNotNone, ConfigStays
<1>t. TypeOK /\ CreatedStays /\ NoOrphan
  BY DEF OrphanHyp, ExistingHyp, TypeInv, OrphanInv
<1>h. ExistingHyp
  BY DEF OrphanHyp
<1> USE <1>t DEF TypeOK, NoOrphan, Deletes, Goto
<1>1. ASSUME NEW c \in Connections,
             Accept(c) \/ OnConnected(c) \/ Close(c) \/ TerminateStream(c) \/ StrayData(c)
      PROVE  NoOrphan'
  BY <1>1 DEF Accept, OnConnected, Close, TerminateStream, StrayData
<1>2. ASSUME NEW c \in Connections, JoinStream(c) PROVE NoOrphan'
  BY <1>2 DEF JoinStream, Reject
<1>3. ASSUME NEW c \in Connections, AddStream(c) PROVE NoOrphan'
  BY <1>3 DEF AddStream, Reject
<1>4. ASSUME NEW c \in Connections, InsertStream(c) PROVE NoOrphan'
  BY <1>4 DEF InsertStream
<1>5. ASSUME NEW c \in Connections, OnStreamCreated(c) PROVE NoOrphan'
  BY <1>5 DEF OnStreamCreated, Published
<1>6. ASSUME NEW c \in Connections, CreateInboundStream(c) PROVE NoOrphan'
  BY <1>6 DEF CreateInboundStream, CreatedStays
<1>7. ASSUME NEW c \in Connections, NotifyStreamCreate(c) PROVE NoOrphan'
  BY <1>7 DEF NotifyStreamCreate, Published, CreatedStays
<1>8. ASSUME NEW c \in Connections, OnDisconnected(c) PROVE NoOrphan'
  <2>1. pc[c] = "idle"
    BY <1>8 DEF OnDisconnected, ExistingHyp, OrphanHyp, DeleterInv, InHandler
  <2> QED BY <1>8, <2>1 DEF OnDisconnected
<1>9. ASSUME NEW c \in Connections, TimeOut(c) PROVE NoOrphan'
  BY <1>9 DEF TimeOut
<1>10. ASSUME NEW t \in Threads, EraseChannel(t) PROVE NoOrphan'
  <2>1. \A u \in Threads, c \in Connections : Deletes(u, c) => Deletes(u, c)'
    BY <1>h, <1>10, DoneIdle DEF EraseChannel, Deleting
  <2> QED BY <1>10, <2>1 DEF EraseChannel
<1>11. ASSUME NEW t \in Threads, Unlist(t) PROVE NoOrphan'
  <2>1. \A u \in Threads, c \in Connections : Deletes(u, c) => Deletes(u, c)'
    BY <1>h, <1>11, DoneIdle DEF Unlist, Deleting
  <2>2. target[t] \in streams => pc'[t] = "unnotify"
    BY <1>11 DEF Unlist
  <2>3. /\ UNCHANGED <<inbound, observed, target>>
        /\ \A c \in streams : c \in streams' \/ (c = target[t] /\ target[t] \in streams)
    BY <1>11 DEF Unlist
  <2> SUFFICES ASSUME NEW c \in Connections, block, OwnHandle(c), c \in inbound
               PROVE  c \in streams' \/ \E u \in Threads : Deletes(u, c)'
    BY <2>3
  <2>4. CASE c \in streams
    <3>1. CASE c = target[t]
      BY <2>2, <2>3, <2>4, <3>1
    <3>2. CASE c # target[t]
      BY <2>3, <2>4, <3>2
    <3> QED BY <3>1, <3>2
  <2>5. CASE \E u \in Threads : Deletes(u, c)
    BY <2>1, <2>5
  <2> QED BY <2>4, <2>5
<1>12. ASSUME NEW t \in Threads, NotifyStreamDeleted(t) PROVE NoOrphan'
  BY <1>12 DEF NotifyStreamDeleted
<1>13. ASSUME NEW t \in Threads, DeleteInboundStream(t) PROVE NoOrphan'
  <2>1. \A u \in Threads, c \in Connections \ {target[t]} :
          Deletes(u, c) => Deletes(u, c)'
    BY <1>h, <1>13, DoneIdle DEF DeleteInboundStream, Deleting
  <2> QED BY <1>13, <2>1 DEF DeleteInboundStream, CreatedStays
<1>14. CASE CopyChannels \/ Sleep
  BY <1>14 DEF CopyChannels, Sleep
<1>15. CASE UNCHANGED vars
  BY <1>15 DEF vars
<1> QED
  BY <1>1, <1>2, <1>3, <1>4, <1>5, <1>6, <1>7, <1>8, <1>9, <1>10, <1>11, <1>12,
     <1>13, <1>14, <1>15 DEF Next, Publish, Delete

\* Where duplicates are rejected and handles are not reused, the media router has a
\* stream only while the application has it or is deleting it, and the observers know
\* only streams of the media router (Application and MediaRouteApplication).
THEOREM NoStreamIsOrphaned == Spec => []NoOrphan
<1>1. Init => OrphanHyp
  BY ExistingInit, ThreadsNotNone
  DEF Init, OrphanHyp, OrphanInv, RunnerDeletesTimed, CreatedStays, NoOrphan, Deleting
<1>2. OrphanHyp /\ [Next]_vars => OrphanHyp'
  BY TypeStep, DeleterStep, ExistingStep, RunnerStep, CreatedStep, OrphanStep
  DEF OrphanHyp, ExistingHyp, OrphanInv
<1>3. OrphanHyp => NoOrphan
  BY DEF OrphanHyp, OrphanInv
<1> QED BY <1>1, <1>2, <1>3, PTL DEF Spec
=============================================================================
