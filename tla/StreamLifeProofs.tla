-------------------------- MODULE StreamLifeProofs --------------------------
(* PushProvider implements StreamLife for every set of connections, names and  *)
(* handles: the refinement mapping is lives, a function of the lists that have *)
(* each stream.                                                                *)
EXTENDS PushProviderProofs

\* A stream that the media router has was published, or is about to be announced; one
\* that the observers know was published; and they know every stream that was
\* published while the media router and the application have it.
PublishedLife ==
  \A c \in Connections :
    /\ c \in inbound => c \in published \/ pc[c] = "notify"
    /\ c \in observed => c \in published
    /\ c \in published \cap inbound \cap streams => c \in observed

LifeHyp == OrphanHyp /\ PublishedLife

-----------------------------------------------------------------------------
(* The invariant *)

\* Steps that leave alone what the invariant is about, and no handler at "notify".
LEMMA PublishedFrame ==
  ASSUME PublishedLife, UNCHANGED <<published, inbound, observed, streams>>,
         \A c \in Connections : pc[c] = "notify" => pc'[c] = "notify"
  PROVE  PublishedLife'
BY DEF PublishedLife

LEMMA PublishedStep == LifeHyp /\ [Next]_vars => PublishedLife'
<1> SUFFICES ASSUME LifeHyp, [Next]_vars PROVE PublishedLife'
  OBVIOUS
<1> USE ThreadsNotNone
<1>t. TypeOK /\ PublishedLife /\ InHandler /\ OneDeleter /\ ExistingHyp
  BY DEF LifeHyp, OrphanHyp, ExistingHyp, TypeInv, DeleterInv
<1>i. \A c \in Connections :
        pc[c] \in {"insert", "create", "register", "notify"} => c \notin published
  BY <1>t DEF InHandler, Deleting
<1> USE <1>t DEF TypeOK, Goto
<1>1. ASSUME NEW c \in Connections,
             Accept(c) \/ OnConnected(c) \/ Close(c) \/ TerminateStream(c) \/ StrayData(c)
      PROVE  PublishedLife'
  BY <1>1, PublishedFrame DEF Accept, OnConnected, Close, TerminateStream, StrayData
<1>2. ASSUME NEW c \in Connections, JoinStream(c) PROVE PublishedLife'
  BY <1>2, PublishedFrame DEF JoinStream, Reject
<1>3. ASSUME NEW c \in Connections, AddStream(c) PROVE PublishedLife'
  BY <1>3, PublishedFrame DEF AddStream, Reject
<1>4. ASSUME NEW c \in Connections, InsertStream(c) PROVE PublishedLife'
  BY <1>4, <1>i DEF InsertStream, PublishedLife
<1>5. ASSUME NEW c \in Connections, OnStreamCreated(c) PROVE PublishedLife'
  BY <1>5, <1>i DEF OnStreamCreated, Published, PublishedLife
<1>6. ASSUME NEW c \in Connections, CreateInboundStream(c) PROVE PublishedLife'
  BY <1>6, <1>i DEF CreateInboundStream, PublishedLife
<1>7. ASSUME NEW c \in Connections, NotifyStreamCreate(c) PROVE PublishedLife'
  BY <1>7 DEF NotifyStreamCreate, Published, PublishedLife
<1>8. ASSUME NEW c \in Connections, OnDisconnected(c) PROVE PublishedLife'
  <2>1. pc[c] # "notify"
    BY <1>8 DEF OnDisconnected, InHandler, Deleting
  <2> QED BY <1>8, <2>1, PublishedFrame DEF OnDisconnected
<1>9. ASSUME NEW c \in Connections, TimeOut(c) PROVE PublishedLife'
  BY <1>9, PublishedFrame DEF TimeOut
<1>10. ASSUME NEW t \in Threads, EraseChannel(t) PROVE PublishedLife'
  <2>1. pc[t] # "notify" /\ \A u \in Threads \ {t} : pc'[u] = pc[u]
    BY <1>10, DoneIdle DEF EraseChannel, Deleting
  <2> QED BY <1>10, <2>1, PublishedFrame DEF EraseChannel
<1>11. ASSUME NEW t \in Threads, Unlist(t) PROVE PublishedLife'
  <2>1. pc[t] # "notify" /\ \A u \in Threads \ {t} : pc'[u] = pc[u]
    BY <1>11, DoneIdle DEF Unlist, Deleting
  <2>2. streams' \subseteq streams /\ UNCHANGED <<published, inbound, observed>>
    BY <1>11 DEF Unlist
  <2> QED BY <2>1, <2>2 DEF PublishedLife
<1>12. ASSUME NEW t \in Threads, NotifyStreamDeleted(t) PROVE PublishedLife'
  <2>1. target[t] \notin streams
    BY <1>12 DEF NotifyStreamDeleted, OneDeleter, Deletes
  <2> QED BY <1>12, <2>1 DEF NotifyStreamDeleted, PublishedLife
<1>13. ASSUME NEW t \in Threads, DeleteInboundStream(t) PROVE PublishedLife'
  <2>1. pc[t] # "notify" /\ \A u \in Threads \ {t} : pc'[u] = pc[u]
    BY <1>13, DoneIdle DEF DeleteInboundStream, Deleting
  <2>2. inbound' \subseteq inbound /\ UNCHANGED <<published, streams, observed>>
    BY <1>13 DEF DeleteInboundStream
  <2> QED BY <2>1, <2>2 DEF PublishedLife
<1>14. CASE CopyChannels \/ Sleep
  BY <1>14, PublishedFrame DEF CopyChannels, Sleep
<1>15. CASE UNCHANGED vars
  BY <1>15, PublishedFrame DEF vars
<1> QED
  BY <1>1, <1>2, <1>3, <1>4, <1>5, <1>6, <1>7, <1>8, <1>9, <1>10, <1>11, <1>12,
     <1>13, <1>14, <1>15 DEF Next, Publish, Delete

LEMMA LifeInductive == /\ Init => LifeHyp
                       /\ LifeHyp /\ [Next]_vars => LifeHyp'
<1>1. Init => LifeHyp
  BY ExistingInit, ThreadsNotNone
  DEF Init, LifeHyp, PublishedLife, OrphanHyp, OrphanInv, RunnerDeletesTimed,
      CreatedStays, NoOrphan, Deleting
<1>2. LifeHyp /\ [Next]_vars => LifeHyp'
  BY PublishedStep, TypeStep, DeleterStep, ExistingStep, RunnerStep, CreatedStep,
     OrphanStep
  DEF LifeHyp, OrphanHyp, ExistingHyp, OrphanInv
<1> QED BY <1>1, <1>2

-----------------------------------------------------------------------------
(* The steps *)

\* What leaves a stream where it was in its life.
LEMMA LifeStays ==
  ASSUME [Next]_vars, NEW c \in Connections,
         c \in streams' <=> c \in streams, c \in inbound' <=> c \in inbound,
         c \in observed' <=> c \in observed,
         c \in streams \/ (c \in published' <=> c \in published)
  PROVE  Life(c)' = Life(c)
BY ConfigStays DEF Life

LEMMA LivesStay ==
  ASSUME [Next]_vars, UNCHANGED <<streams, inbound, observed>>,
         \A c \in Connections : c \in streams \/ (c \in published' <=> c \in published)
                                \/ ~block \/ ~OwnHandle(c)
  PROVE  UNCHANGED lives
<1>1. ASSUME NEW c \in Connections PROVE Life(c)' = Life(c)
  <2>1. CASE block /\ OwnHandle(c)
    BY <2>1, LifeStays
  <2>2. CASE ~(block /\ OwnHandle(c))
    BY <2>2, ConfigStays DEF Life
  <2> QED BY <2>1, <2>2
<1> QED BY <1>1 DEF lives

\* One stream is somewhere else in its life.
LEMMA OneLife ==
  ASSUME NEW c \in Connections, \A d \in Connections \ {c} : Life(d)' = Life(d),
         NEW from, NEW to, Life(c) = from, Life(c)' = to
  PROVE  Lives!Comes(c, from, to)
BY DEF lives, Lives!Comes

LEMMA LifeStep == LifeHyp /\ [Next]_vars => [Lives!Next]_lives
<1> SUFFICES ASSUME LifeHyp, [Next]_vars PROVE [Lives!Next]_lives
  OBVIOUS
<1> USE ThreadsNotNone
<1>t. /\ TypeOK /\ PublishedLife /\ InHandler /\ Inserted /\ OneDeleter /\ CreatedStays
      /\ NoOrphan /\ ExistingHyp /\ OrphanHyp
  BY DEF LifeHyp, OrphanHyp, OrphanInv, ExistingHyp, TypeInv, DeleterInv
<1>i. \A c \in Connections :
        pc[c] \in {"insert", "create", "register", "notify"} => c \notin published
  BY <1>t DEF InHandler, Deleting
<1>c. \A c \in Connections : block /\ OwnHandle(c) =>
        (c \in inbound => c \in streams \/ \E t \in Threads : Deletes(t, c))
        /\ (c \in observed => c \in inbound)
  BY <1>t DEF NoOrphan
<1>u. \A c \in Connections : ~(block /\ OwnHandle(c)) => Life(c) = "none" /\ Life(c)' = "none"
  BY ConfigStays DEF Life
<1> USE DEF Goto
<1>1. ASSUME NEW c \in Connections,
             \/ Accept(c) \/ OnConnected(c) \/ Close(c) \/ TerminateStream(c) \/ StrayData(c)
             \/ JoinStream(c) \/ AddStream(c) \/ OnDisconnected(c) \/ TimeOut(c)
      PROVE  UNCHANGED lives
  BY <1>1, LivesStay DEF Accept, OnConnected, Close, TerminateStream, StrayData, JoinStream,
     Reject, AddStream, OnDisconnected, TimeOut
<1>2. ASSUME NEW c \in Connections, InsertStream(c) PROVE [Lives!Next]_lives
  <2>1. /\ pc[c] = "insert" /\ streams' = streams \cup {c}
        /\ UNCHANGED <<inbound, observed, published>>
    BY <1>2 DEF InsertStream
  <2>2. \A d \in Connections \ {c} : Life(d)' = Life(d)
    BY <2>1, LifeStays
  <2>3. CASE block /\ OwnHandle(c)
    <3>1. c \notin published /\ c \notin streams /\ c \notin inbound /\ c \notin observed
      BY <1>t, <1>i, <2>1 DEF Inserted, PublishedLife
    <3>2. Life(c) = "none" /\ Life(c)' = "listed"
      BY <2>1, <2>3, <3>1, ConfigStays DEF Life
    <3> QED BY <2>2, <3>2, OneLife DEF Lives!Next, Lives!List
  <2>4. CASE ~(block /\ OwnHandle(c))
    BY <1>u, <2>2, <2>4 DEF lives
  <2> QED BY <2>3, <2>4
<1>3. ASSUME NEW c \in Connections, OnStreamCreated(c) PROVE UNCHANGED lives
  <2>1. block /\ OwnHandle(c) => c \in streams
    BY <1>t, <1>3 DEF OnStreamCreated, CreatedStays
  <2>2. UNCHANGED <<streams, inbound, observed>> /\ published' \in {published, published \cup {c}}
    BY <1>3 DEF OnStreamCreated, Published
  <2> QED BY <2>1, <2>2, LivesStay
<1>4. ASSUME NEW c \in Connections, CreateInboundStream(c) PROVE [Lives!Next]_lives
  <2>1. /\ pc[c] = "register" /\ inbound' = inbound \cup {c}
        /\ UNCHANGED <<streams, observed, published>>
    BY <1>4 DEF CreateInboundStream
  <2>2. \A d \in Connections \ {c} : Life(d)' = Life(d)
    BY <2>1, LifeStays
  <2>3. CASE block /\ OwnHandle(c)
    <3>1. c \in streams /\ c \notin inbound /\ c \notin observed
      BY <1>t, <1>i, <2>1, <2>3 DEF CreatedStays, PublishedLife
    <3>2. Life(c) = "listed" /\ Life(c)' = "routed"
      BY <2>1, <2>3, <3>1, ConfigStays DEF Life
    <3> QED BY <2>2, <3>2, OneLife DEF Lives!Next, Lives!Route
  <2>4. CASE ~(block /\ OwnHandle(c))
    BY <1>u, <2>2, <2>4 DEF lives
  <2> QED BY <2>3, <2>4
<1>5. ASSUME NEW c \in Connections, NotifyStreamCreate(c) PROVE [Lives!Next]_lives
  <2>1. /\ pc[c] = "notify" /\ observed' = observed \cup {c}
        /\ published' = published \cup {c} /\ UNCHANGED <<streams, inbound>>
    BY <1>5 DEF NotifyStreamCreate, Published
  <2>2. \A d \in Connections \ {c} : Life(d)' = Life(d)
    BY <2>1, LifeStays
  <2>3. CASE block /\ OwnHandle(c)
    <3>1. c \in streams /\ c \in inbound /\ c \notin observed
      BY <1>t, <1>i, <2>1, <2>3 DEF CreatedStays, PublishedLife
    <3>2. Life(c) = "routed" /\ Life(c)' = "announced"
      BY <2>1, <2>3, <3>1, ConfigStays DEF Life
    <3> QED BY <2>2, <3>2, OneLife DEF Lives!Next, Lives!Announce
  <2>4. CASE ~(block /\ OwnHandle(c))
    BY <1>u, <2>2, <2>4 DEF lives
  <2> QED BY <2>3, <2>4
<1>6. ASSUME NEW t \in Threads, EraseChannel(t) PROVE UNCHANGED lives
  BY <1>6, LivesStay DEF EraseChannel
<1>7. ASSUME NEW t \in Threads, Unlist(t) PROVE [Lives!Next]_lives
  <2>1. PICK c \in Connections :
        /\ pc[t] = "unlist" /\ target[t] = c
        /\ streams' = streams \ {c} /\ UNCHANGED <<inbound, observed, published>>
    BY <1>7, <1>t DEF Unlist, TypeOK
  <2>2. \A d \in Connections \ {c} : Life(d)' = Life(d)
    BY <2>1, LifeStays
  <2>3. CASE c \notin streams
    <3>1. Life(c)' = Life(c)
      BY <2>1, <2>3, LifeStays
    <3> QED BY <2>2, <3>1 DEF lives
  <2>4. CASE ~(block /\ OwnHandle(c))
    BY <1>u, <2>1, <2>2, <2>4 DEF lives
  <2>5. CASE c \in streams /\ block /\ OwnHandle(c)
    <3>1. c \in published
      BY <1>t, <2>1, <2>5, DeletedNotCreated DEF Inserted, Deleting
    <3>2. CASE c \in inbound
      <4>1. c \in observed
        BY <1>t, <2>5, <3>1, <3>2 DEF PublishedLife
      <4>2. Life(c) = "announced" /\ Life(c)' = "unlisted"
        BY <2>1, <2>5, <3>2, <4>1, ConfigStays DEF Life
      <4> QED BY <2>1, <2>2, <4>2, OneLife DEF Lives!Next, Lives!Unlist
    <3>3. CASE c \notin inbound
      <4>1. Life(c) = "listed" /\ Life(c)' = "gone"
        BY <1>c, <2>1, <2>5, <3>1, <3>3, ConfigStays DEF Life
      <4> QED BY <2>1, <2>2, <4>1, OneLife DEF Lives!Next, Lives!Drop
    <3> QED BY <3>2, <3>3
  <2> QED BY <2>3, <2>4, <2>5
<1>8. ASSUME NEW t \in Threads, NotifyStreamDeleted(t) PROVE [Lives!Next]_lives
  <2>1. PICK c \in Connections :
        /\ pc[t] = "unnotify" /\ target[t] = c
        /\ observed' = observed \ {c} /\ UNCHANGED <<inbound, streams, published>>
    BY <1>8, <1>t DEF NotifyStreamDeleted, TypeOK
  <2>2. \A d \in Connections \ {c} : Life(d)' = Life(d)
    BY <2>1, LifeStays
  <2>3. CASE c \notin observed
    <3>1. Life(c)' = Life(c)
      BY <2>1, <2>3, LifeStays
    <3> QED BY <2>2, <3>1 DEF lives
  <2>4. CASE ~(block /\ OwnHandle(c))
    BY <1>u, <2>1, <2>2, <2>4 DEF lives
  <2>5. CASE c \in observed /\ block /\ OwnHandle(c)
    <3>1. c \notin streams
      BY <1>t, <2>1 DEF OneDeleter, Deletes
    <3>2. Life(c) = "unlisted" /\ Life(c)' = "withdrawn"
      BY <1>c, <2>1, <2>5, <3>1, ConfigStays DEF Life
    <3> QED BY <2>1, <2>2, <3>2, OneLife DEF Lives!Next, Lives!Withdraw
  <2> QED BY <2>3, <2>4, <2>5
<1>9. ASSUME NEW t \in Threads, DeleteInboundStream(t) PROVE [Lives!Next]_lives
  <2>1. PICK c \in Connections :
        /\ pc[t] = "unroute" /\ target[t] = c
        /\ inbound' = inbound \ {c} /\ UNCHANGED <<observed, streams, published>>
    BY <1>9, <1>t DEF DeleteInboundStream, TypeOK
  <2>2. \A d \in Connections \ {c} : Life(d)' = Life(d)
    BY <2>1, LifeStays
  <2>3. CASE c \notin inbound
    <3>1. Life(c)' = Life(c)
      BY <2>1, <2>3, LifeStays
    <3> QED BY <2>2, <3>1 DEF lives
  <2>4. CASE ~(block /\ OwnHandle(c))
    BY <1>u, <2>1, <2>2, <2>4 DEF lives
  <2>5. CASE c \in inbound /\ block /\ OwnHandle(c)
    <3>1. c \notin streams /\ c \notin observed
      BY <1>t, <2>1, <2>5 DEF OneDeleter, Deletes, CreatedStays
    <3>2. c \in published
      BY <1>t, <2>1, <2>5, DeletedNotCreated DEF PublishedLife, Deleting
    <3>3. Life(c) = "withdrawn" /\ Life(c)' = "gone"
      BY <2>1, <2>5, <3>1, <3>2, ConfigStays DEF Life
    <3> QED BY <2>1, <2>2, <3>3, OneLife DEF Lives!Next, Lives!Unroute
  <2> QED BY <2>3, <2>4, <2>5
<1>10. CASE CopyChannels \/ Sleep
  BY <1>10, LivesStay DEF CopyChannels, Sleep
<1>11. CASE UNCHANGED vars
  BY <1>11, LivesStay DEF vars
<1> QED
  BY <1>1, <1>2, <1>3, <1>4, <1>5, <1>6, <1>7, <1>8, <1>9, <1>10, <1>11
  DEF Next, Publish, Delete

\* Where duplicates are rejected and handles are not reused, every stream lives as
\* StreamLife says: the observers hear of it once, after the media router has it, and of
\* its deletion once, before the media router forgets it (Application::AddStream,
\* Application::DeleteStream, MediaRouteApplication).
THEOREM ImplementsStreamLife == Spec => KeepsStreamLife
<1>1. Init => Lives!Init
  BY DEF Init, Life, lives, Lives!Init
<1> QED BY <1>1, LifeInductive, LifeStep, PTL DEF Spec, KeepsStreamLife, Lives!Spec
=============================================================================
