-------------------------- MODULE MediaRouteProofs --------------------------
(* What is proved of MediaRoute, for every set of streams and any number of    *)
(* packets, events and places in the buffer: its types, the join before the    *)
(* deletion, the single preparation and the single start of a stream, and the  *)
(* order of its packets.                                                       *)
EXTENDS MediaRoute, SequenceTheorems, TLAPS

\* The steps of each thread.
CreatorSteps == {"create", "announce", "check", "prepare", "launch", "mark", "live", "delete",
                 "join", "unserve", "unlist", "finish", "unroute", "deleted"}
PreparerSteps == {"idle", "webhook", "output", "serve", "notify", "find", "start", "flag",
                  "decoders", "ended"}
InSteps == {"idle", "check", "prepare", "launch", "mark", "send", "flush", "buffer"}
OutSteps == {"idle", "notify", "find", "start", "flag", "send"}

Places ==
  /\ \A s \in Streams : pc[Creator(s)] \in CreatorSteps /\ pc[Preparer(s)] \in PreparerSteps
  /\ pc[InWorker] \in InSteps /\ pc[OutWorker] \in OutSteps

Control ==
  /\ pc \in [Threads -> Steps] /\ Places
  /\ item \in [Workers -> Items \cup {None}]
  /\ \A t \in Workers : pc[t] # "idle" <=> item[t] # None
  /\ mutex \in Threads \cup {None}

Data ==
  /\ sent \in [Streams -> 0..MaxPackets]
  /\ events \subseteq Streams /\ inbound \subseteq Streams /\ ready \subseteq Streams
  /\ prepared \subseteq Streams /\ outbound \subseteq Streams /\ outReady \subseteq Streams
  /\ outPrepared \subseteq Streams /\ served \subseteq Streams
  /\ timed \subseteq Streams /\ stash \in [Streams -> Items \cup {None}]
  /\ \A s \in Streams : stash[s] # None => stash[s][1] = s /\ s \notin timed
  /\ inq \in Seq(Items) /\ outq \in Seq(Items) /\ appq \in Seq(Items)
  /\ state \in [Streams -> {"CREATED", "PREPARING", "STARTED", "ERROR", "STOPPED"}]
  /\ buffer \in [Streams -> Seq(Items)] /\ \A s \in Streams : Len(buffer[s]) <= MaxBuffer
  /\ pub \in [Streams -> {"NONE", "CREATED", "STARTED", "ERROR", "STOPPED"}]
  /\ \A s \in Streams : s \in served => pub[s] # "NONE"
  /\ delivered \in [Streams -> Seq(Items)]
  /\ aborted \in BOOLEAN

TypeInv == Control /\ Data

LEMMA TypeParts == TypeInv => TypeOK
BY DEF TypeInv, TypeOK, Control, Data

LEMMA ThreadFacts ==
  /\ InWorker \in Threads /\ OutWorker \in Threads /\ InWorker # OutWorker
  /\ Workers = {InWorker, OutWorker}
  /\ \A s \in Streams :
       /\ Creator(s) \in Threads /\ Creator(s) \notin Preparers \cup Workers
       /\ Creator(s) \in Creators /\ Creator(s)[2] = s
       /\ Preparer(s) \in Threads /\ Preparer(s) \notin Creators \cup Workers
       /\ Preparer(s) \in Preparers /\ Preparer(s)[2] = s
  /\ \A r, s \in Streams :
       /\ Creator(r) = Creator(s) => r = s
       /\ Preparer(r) = Preparer(s) => r = s
       /\ Creator(r) # Preparer(s)
  /\ \A t \in Threads : t \in Workers \/ \E s \in Streams : t \in {Creator(s), Preparer(s)}
  /\ None \notin Threads /\ None \notin Items
  /\ InWorker \notin Creators \cup Preparers /\ OutWorker \notin Creators \cup Preparers
<1> USE DEF Creator, Preparer, InWorker, OutWorker, Creators, Preparers, Workers
<1>1. /\ InWorker # OutWorker
      /\ InWorker \notin Creators \cup Preparers /\ OutWorker \notin Creators \cup Preparers
  OBVIOUS
<1>2. \A s \in Streams :
        /\ Creator(s) \notin Preparers \cup Workers /\ Creator(s) \in Creators
        /\ Creator(s)[2] = s
        /\ Preparer(s) \notin Creators \cup Workers /\ Preparer(s) \in Preparers
        /\ Preparer(s)[2] = s
  OBVIOUS
<1>3. \A r, s \in Streams :
        /\ Creator(r) = Creator(s) => r = s
        /\ Preparer(r) = Preparer(s) => r = s
        /\ Creator(r) # Preparer(s)
  OBVIOUS
<1>4. \A t \in Threads : t \in Workers \/ \E s \in Streams : t \in {Creator(s), Preparer(s)}
  BY DEF Threads
<1> QED
  BY <1>1, <1>2, <1>3, <1>4, NoneIsApart DEF Threads

LEMMA StepFacts ==
  /\ CreatorSteps \subseteq Steps /\ PreparerSteps \subseteq Steps
  /\ InSteps \subseteq Steps /\ OutSteps \subseteq Steps
BY DEF CreatorSteps, PreparerSteps, InSteps, OutSteps, Steps

\* The stream that a thread is at.
LEMMA StreamFacts ==
  ASSUME TypeInv
  PROVE  /\ \A t \in Workers : pc[t] # "idle" => item[t] \in Items /\ StreamOf(t) \in Streams
                                                 /\ StreamOf(t) = item[t][1]
         /\ \A s \in Streams : StreamOf(Creator(s)) = s /\ StreamOf(Preparer(s)) = s
BY ThreadFacts DEF TypeInv, Control, StreamOf, Items

Moved(t, step) == pc'[t] = step /\ \A u \in Threads \ {t} : pc'[u] = pc[u]

LEMMA GotoMoves ==
  ASSUME TypeInv, NEW t \in Threads, NEW step \in Steps, Goto(t, step)
  PROVE  Moved(t, step) /\ pc' \in [Threads -> Steps]
BY DEF TypeInv, Control, Goto, Moved

\* A thread goes on with what it has.
LEMMA ControlMoves ==
  ASSUME TypeInv, NEW t \in Threads, NEW step, Goto(t, step),
         \/ \E s \in Streams : \/ t = Creator(s) /\ step \in CreatorSteps
                               \/ t = Preparer(s) /\ step \in PreparerSteps
         \/ t = InWorker /\ pc[t] # "idle" /\ step \in InSteps \ {"idle"}
         \/ t = OutWorker /\ pc[t] # "idle" /\ step \in OutSteps \ {"idle"},
         item' = item, mutex' \in Threads \cup {None}
  PROVE  Control' /\ Moved(t, step)
<1> USE ThreadFacts
<1>1. Moved(t, step) /\ pc' \in [Threads -> Steps]
  BY StepFacts, GotoMoves
<1>2. Places'
  BY <1>1 DEF TypeInv, Control, Places, Moved
<1>3. \A u \in Workers : pc'[u] # "idle" <=> item'[u] # None
  BY <1>1 DEF TypeInv, Control, Moved
<1> QED
  BY <1>1, <1>2, <1>3 DEF TypeInv, Control

LEMMA ControlReleases ==
  ASSUME TypeInv, NEW t \in Workers, Release(t), mutex' \in Threads \cup {None}
  PROVE  Control' /\ Moved(t, "idle") /\ item'[t] = None /\ \A u \in Workers \ {t} : item'[u] = item[u]
<1> USE ThreadFacts
<1>1. Moved(t, "idle") /\ pc' \in [Threads -> Steps]
  BY GotoMoves DEF Release, Steps
<1>2. /\ item'[t] = None /\ \A u \in Workers \ {t} : item'[u] = item[u]
      /\ item' \in [Workers -> Items \cup {None}]
  BY DEF TypeInv, Control, Release
<1>3. Places'
  BY <1>1 DEF TypeInv, Control, Places, Moved, InSteps, OutSteps
<1>4. \A u \in Workers : pc'[u] # "idle" <=> item'[u] # None
  BY <1>1, <1>2 DEF TypeInv, Control, Moved
<1> QED
  BY <1>1, <1>2, <1>3, <1>4 DEF TypeInv, Control

\* A worker takes a packet.
LEMMA ControlTakes ==
  ASSUME TypeInv, NEW t \in Workers, NEW i \in Items, NEW step,
         item' = [item EXCEPT ![t] = i], Goto(t, step),
         \/ t = InWorker /\ step \in InSteps \ {"idle"}
         \/ t = OutWorker /\ step \in OutSteps \ {"idle"},
         mutex' = mutex
  PROVE  Control' /\ Moved(t, step) /\ item'[t] = i /\ \A u \in Workers \ {t} : item'[u] = item[u]
<1> USE ThreadFacts
<1>1. Moved(t, step) /\ pc' \in [Threads -> Steps]
  BY StepFacts, GotoMoves
<1>2. /\ item'[t] = i /\ \A u \in Workers \ {t} : item'[u] = item[u]
      /\ item' \in [Workers -> Items \cup {None}]
  BY DEF TypeInv, Control
<1>3. Places'
  BY <1>1 DEF TypeInv, Control, Places, Moved
<1>4. \A u \in Workers : pc'[u] # "idle" <=> item'[u] # None
  BY <1>1, <1>2 DEF TypeInv, Control, Moved
<1> QED
  BY <1>1, <1>2, <1>3, <1>4 DEF TypeInv, Control

-----------------------------------------------------------------------------
(* Where the threads go *)

LEMMA CreatorMoves ==
  ASSUME TypeInv, NEW s \in Streams
  PROVE  /\ CreateInboundStream(s) =>
              pc[Creator(s)] = "create" /\ Control' /\ Moved(Creator(s), "announce")
         /\ OnStreamCreated(s) =>
              pc[Creator(s)] = "announce" /\ Control' /\ Moved(Creator(s), "check")
         /\ DeleteStream(s) => pc[Creator(s)] = "live" /\ Control' /\ Moved(Creator(s), "delete")
         /\ OnStreamDeleted(s) =>
              pc[Creator(s)] = "delete" /\ Control' /\ Moved(Creator(s), "join")
         /\ StopServing(s) =>
              pc[Creator(s)] = "unserve" /\ Control' /\ Moved(Creator(s), "unlist")
         /\ DeleteOutboundStream(s) =>
              pc[Creator(s)] = "unlist" /\ Control' /\ Moved(Creator(s), "finish")
         /\ EraseTranscoderStream(s) =>
              pc[Creator(s)] = "finish" /\ Control' /\ Moved(Creator(s), "unroute")
         /\ DeleteInboundStream(s) =>
              pc[Creator(s)] = "unroute" /\ Control' /\ Moved(Creator(s), "deleted")
<1> USE ThreadFacts DEF transcoder
<1>m. mutex \in Threads \cup {None} /\ Creator(s) \in Threads
  BY DEF TypeInv, Control
<1>1. ASSUME NEW step \in CreatorSteps, Goto(Creator(s), step), item' = item,
             mutex' \in {mutex, None, Creator(s)}
      PROVE  Control' /\ Moved(Creator(s), step)
  BY <1>m, <1>1, ControlMoves
<1>2. {"announce", "check", "delete", "join", "unlist", "finish", "unroute", "deleted"}
        \subseteq CreatorSteps
  BY DEF CreatorSteps
<1>3. CreateInboundStream(s) =>
        pc[Creator(s)] = "create" /\ Control' /\ Moved(Creator(s), "announce")
  BY <1>1, <1>2 DEF CreateInboundStream
<1>4. OnStreamCreated(s) =>
        pc[Creator(s)] = "announce" /\ Control' /\ Moved(Creator(s), "check")
  BY <1>1, <1>2 DEF OnStreamCreated
<1>5. DeleteStream(s) => pc[Creator(s)] = "live" /\ Control' /\ Moved(Creator(s), "delete")
  BY <1>1, <1>2 DEF DeleteStream
<1>6. OnStreamDeleted(s) =>
        pc[Creator(s)] = "delete" /\ Control' /\ Moved(Creator(s), "join")
  BY <1>1, <1>2 DEF OnStreamDeleted
<1>7. StopServing(s) =>
        pc[Creator(s)] = "unserve" /\ Control' /\ Moved(Creator(s), "unlist")
  BY <1>1, <1>2 DEF StopServing
<1>8. DeleteOutboundStream(s) =>
        pc[Creator(s)] = "unlist" /\ Control' /\ Moved(Creator(s), "finish")
  BY <1>1, <1>2 DEF DeleteOutboundStream
<1>9. EraseTranscoderStream(s) =>
        pc[Creator(s)] = "finish" /\ Control' /\ Moved(Creator(s), "unroute")
  BY <1>1, <1>2 DEF EraseTranscoderStream
<1>10. DeleteInboundStream(s) =>
        pc[Creator(s)] = "unroute" /\ Control' /\ Moved(Creator(s), "deleted")
  BY <1>1, <1>2 DEF DeleteInboundStream
<1> QED
  BY <1>3, <1>4, <1>5, <1>6, <1>7, <1>8, <1>9, <1>10

\* The deletion of a stream joins the thread that prepares it.
LEMMA JoinMoves ==
  ASSUME TypeInv, NEW s \in Streams, JoinPrepareThread(s)
  PROVE  /\ pc[Creator(s)] = "join" /\ pc[Preparer(s)] \in {"idle", "ended"} /\ Control'
         /\ pc'[Creator(s)] = "unserve" /\ pc'[Preparer(s)] = "idle"
         /\ \A t \in Threads \ {Creator(s), Preparer(s)} : pc'[t] = pc[t]
<1> USE ThreadFacts
<1>1. /\ pc[Creator(s)] = "join" /\ pc[Preparer(s)] \in {"idle", "ended"}
      /\ pc' = [pc EXCEPT ![Creator(s)] = "unserve", ![Preparer(s)] = "idle"]
      /\ item' = item /\ mutex' = mutex
  BY DEF JoinPrepareThread, transcoder
<1>2. /\ pc' \in [Threads -> Steps]
      /\ pc'[Creator(s)] = "unserve" /\ pc'[Preparer(s)] = "idle"
      /\ \A t \in Threads \ {Creator(s), Preparer(s)} : pc'[t] = pc[t]
  BY <1>1 DEF TypeInv, Control, Steps
<1>3. Places'
  BY <1>2 DEF TypeInv, Control, Places, CreatorSteps, PreparerSteps
<1>4. Control'
  BY <1>1, <1>2, <1>3 DEF TypeInv, Control
<1> QED
  BY <1>1, <1>2, <1>4

\* A creation or the inbound worker notifies the observers of an input stream.
Notifiers == Creators \cup {InWorker}

LEMMA NotifierFacts ==
  ASSUME TypeInv, NEW t \in Notifiers, pc[t] # "idle"
  PROVE  /\ t \in Threads /\ StreamOf(t) \in Streams
         /\ t \in Creators => t = Creator(StreamOf(t)) /\ AfterPrepared(t) = "live"
         /\ t \notin Creators => /\ t = InWorker /\ StreamOf(t) = item[InWorker][1]
                                 /\ item[InWorker] \in Items /\ AfterPrepared(t) = "send"
<1> USE ThreadFacts
<1>1. CASE t = InWorker
  BY <1>1, StreamFacts DEF AfterPrepared
<1>2. CASE t \in Creators
  <2>1. PICK s \in Streams : t = Creator(s)
    BY <1>2 DEF Creators
  <2> QED
    BY <1>2, <2>1, StreamFacts DEF AfterPrepared
<1> QED
  BY <1>1, <1>2 DEF Notifiers

LEMMA NotifyMoves ==
  ASSUME TypeInv, NEW t \in Notifiers
  PROVE  /\ CheckPrepared(t) =>
              /\ pc[t] = "check" /\ Control'
              /\ \/ StreamOf(t) \notin prepared /\ Moved(t, "prepare")
                 \/ Moved(t, AfterPrepared(t))
         /\ OnStreamPrepared(t) =>
              /\ pc[t] = "prepare" /\ Control' /\ mutex = None
              /\ \/ state[StreamOf(t)] = "PREPARING" /\ Moved(t, "launch") /\ mutex' = t
                 \/ Moved(t, "mark") /\ mutex' = mutex
         /\ MarkPrepared(t) => pc[t] = "mark" /\ Control' /\ Moved(t, AfterPrepared(t))
<1> USE ThreadFacts DEF transcoder
<1>m. mutex \in Threads \cup {None}
  BY DEF TypeInv, Control
<1>1. ASSUME NEW step \in {"prepare", "launch", "mark", AfterPrepared(t)}, pc[t] # "idle",
             Goto(t, step), item' = item, mutex' \in {mutex, None, t}
      PROVE  Control' /\ Moved(t, step)
  <2>1. t \in Threads /\ (t = InWorker \/ \E s \in Streams : t = Creator(s))
    BY <1>1, NotifierFacts
  <2>2. t \in Creators => step \in CreatorSteps
    BY <1>1, NotifierFacts DEF CreatorSteps
  <2>3. t \notin Creators => step \in InSteps \ {"idle"}
    BY <1>1, NotifierFacts DEF InSteps
  <2> QED
    BY <1>m, <1>1, <2>1, <2>2, <2>3, ControlMoves
<1>2. ASSUME CheckPrepared(t)
      PROVE  /\ pc[t] = "check" /\ Control'
             /\ \/ StreamOf(t) \notin prepared /\ Moved(t, "prepare")
                \/ Moved(t, AfterPrepared(t))
  <2>1. /\ pc[t] = "check" /\ item' = item /\ mutex' = mutex
        /\ \/ StreamOf(t) \notin prepared /\ Goto(t, "prepare")
           \/ Goto(t, AfterPrepared(t))
    BY <1>2 DEF CheckPrepared
  <2> QED
    BY <1>1, <2>1
<1>3. ASSUME OnStreamPrepared(t)
      PROVE  /\ pc[t] = "prepare" /\ Control' /\ mutex = None
             /\ \/ state[StreamOf(t)] = "PREPARING" /\ Moved(t, "launch") /\ mutex' = t
                \/ Moved(t, "mark") /\ mutex' = mutex
  <2>1. /\ pc[t] = "prepare" /\ item' = item /\ mutex = None
        /\ \/ state[StreamOf(t)] = "PREPARING" /\ Goto(t, "launch") /\ mutex' = t
           \/ Goto(t, "mark") /\ mutex' = mutex
    BY <1>3 DEF OnStreamPrepared
  <2> QED
    BY <1>1, <2>1
<1>4. ASSUME MarkPrepared(t)
      PROVE  pc[t] = "mark" /\ Control' /\ Moved(t, AfterPrepared(t))
  <2>1. pc[t] = "mark" /\ item' = item /\ mutex' = mutex /\ Goto(t, AfterPrepared(t))
    BY <1>4 DEF MarkPrepared
  <2> QED
    BY <1>1, <2>1
<1> QED
  BY <1>2, <1>3, <1>4

\* The thread that prepares a stream starts, if it is not running.
LEMMA LaunchMoves ==
  ASSUME TypeInv, NEW t \in Notifiers, Launch(t), NEW s \in Streams, s = StreamOf(t)
  PROVE  /\ pc[t] = "launch" /\ Control' /\ pc'[t] = "mark" /\ mutex' = None
         /\ pc'[Preparer(s)] = IF pc[Preparer(s)] = "idle" THEN "webhook" ELSE pc[Preparer(s)]
         /\ \A u \in Threads \ {t, Preparer(s)} : pc'[u] = pc[u]
<1> USE ThreadFacts
<1>1. /\ pc[t] = "launch" /\ item' = item /\ mutex' = None
      /\ pc' = [pc EXCEPT ![t] = "mark",
                          ![Preparer(s)] = IF @ = "idle" THEN "webhook" ELSE @]
  BY DEF Launch
<1>2. t \in Threads /\ t # Preparer(s) /\ (t = InWorker \/ \E r \in Streams : t = Creator(r))
  BY <1>1, NotifierFacts
<1>3. /\ pc' \in [Threads -> Steps] /\ pc'[t] = "mark"
      /\ pc'[Preparer(s)] = IF pc[Preparer(s)] = "idle" THEN "webhook" ELSE pc[Preparer(s)]
      /\ \A u \in Threads \ {t, Preparer(s)} : pc'[u] = pc[u]
  BY <1>1, <1>2 DEF TypeInv, Control, Steps
<1>4. Places'
  BY <1>2, <1>3 DEF TypeInv, Control, Places, CreatorSteps, PreparerSteps, InSteps
<1>5. \A u \in Workers : pc'[u] # "idle" <=> item'[u] # None
  BY <1>1, <1>3 DEF TypeInv, Control
<1> QED
  BY <1>1, <1>3, <1>4, <1>5 DEF TypeInv, Control

\* The inbound worker takes a packet, and gives it to the transcoder.
LEMMA InboundMoves ==
  ASSUME TypeInv
  PROVE  /\ PopInbound =>
              /\ pc[InWorker] = "idle" /\ inq # <<>> /\ Head(inq) \in Items
              /\ Control' /\ item'[OutWorker] = item[OutWorker]
              /\ \/ Moved(InWorker, "check") /\ item'[InWorker] = Head(inq)
                 \/ pc' = pc /\ item' = item
         /\ Push =>
              /\ pc[InWorker] = "send" /\ mutex = None /\ Control'
              /\ item'[OutWorker] = item[OutWorker]
              /\ \/ /\ state[StreamOf(InWorker)] = "STARTED" /\ Moved(InWorker, "flush")
                    /\ mutex' = InWorker /\ item' = item
                 \/ Moved(InWorker, "buffer") /\ mutex' = InWorker /\ item' = item
                 \/ Moved(InWorker, "idle") /\ mutex' = mutex /\ item'[InWorker] = None
         /\ SendBufferedPackets => pc[InWorker] = "flush" /\ Control'
         /\ PushPacket \/ BufferMediaPacketUntilReadyToPlay =>
              /\ pc[InWorker] \in {"flush", "buffer"} /\ Control' /\ mutex' = None
              /\ Moved(InWorker, "idle")
              /\ item'[InWorker] = None /\ item'[OutWorker] = item[OutWorker]
<1> USE ThreadFacts
<1>m. mutex \in Threads \cup {None} /\ {"check", "flush", "buffer"} \subseteq InSteps \ {"idle"}
  BY DEF TypeInv, Control, InSteps
<1>1. ASSUME PopInbound
      PROVE  /\ pc[InWorker] = "idle" /\ inq # <<>> /\ Head(inq) \in Items
             /\ Control' /\ item'[OutWorker] = item[OutWorker]
             /\ \/ Moved(InWorker, "check") /\ item'[InWorker] = Head(inq)
                \/ pc' = pc /\ item' = item
  <2>1. /\ pc[InWorker] = "idle" /\ inq # <<>> /\ mutex' = mutex
        /\ \/ item' = [item EXCEPT ![InWorker] = Head(inq)] /\ Goto(InWorker, "check")
           \/ pc' = pc /\ item' = item
    BY <1>1 DEF PopInbound, transcoder
  <2>2. Head(inq) \in Items
    BY <2>1, HeadTailProperties DEF TypeInv, Data
  <2>3. CASE pc' = pc /\ item' = item
    BY <2>1, <2>2, <2>3 DEF TypeInv, Control, Places
  <2>4. CASE item' = [item EXCEPT ![InWorker] = Head(inq)] /\ Goto(InWorker, "check")
    BY <1>m, <2>1, <2>2, <2>4, ControlTakes
  <2> QED
    BY <2>1, <2>3, <2>4
<1>2. ASSUME Push
      PROVE  /\ pc[InWorker] = "send" /\ mutex = None /\ Control'
             /\ item'[OutWorker] = item[OutWorker]
             /\ \/ /\ state[StreamOf(InWorker)] = "STARTED" /\ Moved(InWorker, "flush")
                   /\ mutex' = InWorker /\ item' = item
                \/ Moved(InWorker, "buffer") /\ mutex' = InWorker /\ item' = item
                \/ Moved(InWorker, "idle") /\ mutex' = mutex /\ item'[InWorker] = None
  <2>1. /\ pc[InWorker] = "send" /\ mutex = None
        /\ \/ /\ state[StreamOf(InWorker)] = "STARTED" /\ Goto(InWorker, "flush")
              /\ mutex' = InWorker /\ item' = item
           \/ Goto(InWorker, "buffer") /\ mutex' = InWorker /\ item' = item
           \/ Release(InWorker) /\ mutex' = mutex
    BY <1>2 DEF Push
  <2> QED
    BY <1>m, <2>1, ControlMoves, ControlReleases
<1>3. ASSUME SendBufferedPackets PROVE pc[InWorker] = "flush" /\ Control'
  BY <1>3 DEF SendBufferedPackets, TypeInv, Control, Places
<1>4. ASSUME PushPacket \/ BufferMediaPacketUntilReadyToPlay
      PROVE  /\ pc[InWorker] \in {"flush", "buffer"} /\ Control' /\ mutex' = None
             /\ Moved(InWorker, "idle")
             /\ item'[InWorker] = None /\ item'[OutWorker] = item[OutWorker]
  <2>1. pc[InWorker] \in {"flush", "buffer"} /\ Release(InWorker) /\ mutex' = None
    BY <1>4 DEF PushPacket, BufferMediaPacketUntilReadyToPlay
  <2> QED
    BY <2>1, ControlReleases
<1> QED
  BY <1>1, <1>2, <1>3, <1>4

\* The preparation and the outbound worker notify the publisher of an output stream.
Starters == Preparers \cup {OutWorker}

LEMMA StarterFacts ==
  ASSUME TypeInv, NEW t \in Starters, pc[t] # "idle"
  PROVE  /\ t \in Threads /\ StreamOf(t) \in Streams
         /\ t \in Preparers => t = Preparer(StreamOf(t)) /\ AfterPrepared(t) = "decoders"
         /\ t \notin Preparers => /\ t = OutWorker /\ StreamOf(t) = item[OutWorker][1]
                                  /\ item[OutWorker] \in Items /\ AfterPrepared(t) = "send"
<1> USE ThreadFacts
<1>1. CASE t = OutWorker
  BY <1>1, StreamFacts DEF AfterPrepared
<1>2. CASE t \in Preparers
  <2>1. PICK s \in Streams : t = Preparer(s)
    BY <1>2 DEF Preparers
  <2> QED
    BY <1>2, <2>1, StreamFacts DEF AfterPrepared
<1> QED
  BY <1>1, <1>2 DEF Starters

LEMMA StartMoves ==
  ASSUME TypeInv, NEW t \in Starters
  PROVE  /\ CheckOutPrepared(t) =>
              /\ pc[t] = "notify" /\ Control'
              /\ \/ StreamOf(t) \notin outPrepared /\ Moved(t, "find")
                 \/ Moved(t, AfterPrepared(t))
         /\ FindStream(t) =>
              /\ pc[t] = "find" /\ Control'
              /\ \/ StreamOf(t) \in served /\ Moved(t, "start")
                 \/ Moved(t, "flag")
         /\ StartStream(t) => pc[t] = "start" /\ Control' /\ Moved(t, "flag")
         /\ MarkOutPrepared(t) => pc[t] = "flag" /\ Control' /\ Moved(t, AfterPrepared(t))
<1> USE ThreadFacts DEF transcoder
<1>m. mutex \in Threads \cup {None}
  BY DEF TypeInv, Control
<1>1. ASSUME NEW step \in {"find", "start", "flag", AfterPrepared(t)}, pc[t] # "idle",
             Goto(t, step), item' = item, mutex' = mutex
      PROVE  Control' /\ Moved(t, step)
  <2>1. t \in Threads /\ (t = OutWorker \/ \E s \in Streams : t = Preparer(s))
    BY <1>1, StarterFacts
  <2>2. t \in Preparers => step \in PreparerSteps
    BY <1>1, StarterFacts DEF PreparerSteps
  <2>3. t \notin Preparers => step \in OutSteps \ {"idle"}
    BY <1>1, StarterFacts DEF OutSteps
  <2> QED
    BY <1>m, <1>1, <2>1, <2>2, <2>3, ControlMoves
<1>2. ASSUME CheckOutPrepared(t)
      PROVE  /\ pc[t] = "notify" /\ Control'
             /\ \/ StreamOf(t) \notin outPrepared /\ Moved(t, "find")
                \/ Moved(t, AfterPrepared(t))
  <2>1. /\ pc[t] = "notify" /\ item' = item /\ mutex' = mutex
        /\ \/ StreamOf(t) \notin outPrepared /\ Goto(t, "find")
           \/ Goto(t, AfterPrepared(t))
    BY <1>2 DEF CheckOutPrepared
  <2> QED
    BY <1>1, <2>1
<1>3. ASSUME FindStream(t)
      PROVE  /\ pc[t] = "find" /\ Control'
             /\ \/ StreamOf(t) \in served /\ Moved(t, "start")
                \/ Moved(t, "flag")
  <2>1. /\ pc[t] = "find" /\ item' = item /\ mutex' = mutex
        /\ \/ StreamOf(t) \in served /\ Goto(t, "start")
           \/ Goto(t, "flag")
    BY <1>3 DEF FindStream
  <2> QED
    BY <1>1, <2>1
<1>4. StartStream(t) => pc[t] = "start" /\ Control' /\ Moved(t, "flag")
  BY <1>1 DEF StartStream
<1>5. MarkOutPrepared(t) => pc[t] = "flag" /\ Control' /\ Moved(t, AfterPrepared(t))
  BY <1>1 DEF MarkOutPrepared
<1> QED
  BY <1>2, <1>3, <1>4, <1>5

LEMMA PrepareMoves ==
  ASSUME TypeInv, NEW s \in Streams
  PROVE  /\ RequestWebhook(s) =>
              /\ pc[Preparer(s)] = "webhook" /\ Control'
              /\ \/ Moved(Preparer(s), "output") /\ state' = state
                 \/ Moved(Preparer(s), "ended") /\ state' = [state EXCEPT ![s] = "ERROR"]
         /\ CreateOutboundStream(s) =>
              /\ pc[Preparer(s)] = "output" /\ Control'
              /\ \/ Moved(Preparer(s), "serve") /\ state' = state
                 \/ /\ Moved(Preparer(s), "ended") /\ state' = [state EXCEPT ![s] = "ERROR"]
                    /\ outbound' = outbound
         /\ Serve(s) => pc[Preparer(s)] = "serve" /\ Control' /\ Moved(Preparer(s), "notify")
         /\ PrepareInternal(s) =>
              /\ pc[Preparer(s)] = "decoders" /\ Control' /\ Moved(Preparer(s), "ended")
              /\ \E new \in {"STARTED", "ERROR"} : state' = [state EXCEPT ![s] = new]
<1> USE ThreadFacts
<1>m. mutex \in Threads \cup {None}
  BY DEF TypeInv, Control
<1>1. ASSUME NEW step \in {"output", "serve", "notify", "ended"}, Goto(Preparer(s), step),
             item' = item, mutex' = mutex
      PROVE  Control' /\ Moved(Preparer(s), step)
  BY <1>m, <1>1, ControlMoves DEF PreparerSteps
<1>2. ASSUME RequestWebhook(s)
      PROVE  /\ pc[Preparer(s)] = "webhook" /\ Control'
             /\ \/ Moved(Preparer(s), "output") /\ state' = state
                \/ Moved(Preparer(s), "ended") /\ state' = [state EXCEPT ![s] = "ERROR"]
  BY <1>1, <1>2 DEF RequestWebhook, EndPrepare
<1>3. ASSUME CreateOutboundStream(s)
      PROVE  /\ pc[Preparer(s)] = "output" /\ Control'
             /\ \/ Moved(Preparer(s), "serve") /\ state' = state
                \/ /\ Moved(Preparer(s), "ended") /\ state' = [state EXCEPT ![s] = "ERROR"]
                   /\ outbound' = outbound
  BY <1>1, <1>3 DEF CreateOutboundStream, EndPrepare
<1>4. Serve(s) => pc[Preparer(s)] = "serve" /\ Control' /\ Moved(Preparer(s), "notify")
  BY <1>1 DEF Serve, transcoder
<1>5. ASSUME PrepareInternal(s)
      PROVE  /\ pc[Preparer(s)] = "decoders" /\ Control' /\ Moved(Preparer(s), "ended")
             /\ \E new \in {"STARTED", "ERROR"} : state' = [state EXCEPT ![s] = new]
  <2>1. /\ pc[Preparer(s)] = "decoders" /\ item' = item /\ mutex' = mutex
        /\ \E new \in {"STARTED", "ERROR"} : EndPrepare(s, new)
    BY <1>5 DEF PrepareInternal
  <2> QED
    BY <1>1, <2>1 DEF EndPrepare
<1> QED
  BY <1>2, <1>3, <1>4, <1>5

LEMMA OutboundMoves ==
  ASSUME TypeInv
  PROVE  /\ PopOutbound =>
              /\ pc[OutWorker] = "idle" /\ outq # <<>> /\ Head(outq) \in Items /\ Control'
              /\ item'[InWorker] = item[InWorker]
              /\ \/ pc' = pc /\ item' = item
                 \/ /\ Moved(OutWorker, "notify") /\ item'[OutWorker] = Popped(Head(outq))
                    /\ Popped(Head(outq)) \in Items /\ Popped(Head(outq))[1] = Head(outq)[1]
         /\ OnSendFrame =>
              /\ pc[OutWorker] = "send" /\ Control' /\ Moved(OutWorker, "idle")
              /\ item'[OutWorker] = None /\ item'[InWorker] = item[InWorker]
<1> USE ThreadFacts
<1>1. ASSUME PopOutbound
      PROVE  /\ pc[OutWorker] = "idle" /\ outq # <<>> /\ Head(outq) \in Items /\ Control'
             /\ item'[InWorker] = item[InWorker]
             /\ \/ pc' = pc /\ item' = item
                \/ /\ Moved(OutWorker, "notify") /\ item'[OutWorker] = Popped(Head(outq))
                   /\ Popped(Head(outq)) \in Items /\ Popped(Head(outq))[1] = Head(outq)[1]
  <2>1. /\ pc[OutWorker] = "idle" /\ outq # <<>> /\ mutex' = mutex
        /\ \/ pc' = pc /\ item' = item
           \/ /\ Popped(Head(outq)) # None /\ Goto(OutWorker, "notify")
              /\ item' = [item EXCEPT ![OutWorker] = Popped(Head(outq))]
    BY <1>1 DEF PopOutbound, transcoder
  <2>2. Head(outq) \in Items
    BY <2>1, HeadTailProperties DEF TypeInv, Data
  <2>3. CASE pc' = pc /\ item' = item
    BY <2>1, <2>2, <2>3 DEF TypeInv, Control, Places
  <2>4. CASE /\ Popped(Head(outq)) # None /\ Goto(OutWorker, "notify")
             /\ item' = [item EXCEPT ![OutWorker] = Popped(Head(outq))]
    <3>1. "notify" \in OutSteps \ {"idle"}
      BY DEF OutSteps
    <3>2. Popped(Head(outq)) \in Items /\ Popped(Head(outq))[1] = Head(outq)[1]
      BY <2>2, <2>4 DEF Popped, TypeInv, Data, Items
    <3>3. Control' /\ Moved(OutWorker, "notify") /\ item'[OutWorker] = Popped(Head(outq))
      BY <2>1, <2>4, <3>1, <3>2, ControlTakes
    <3>4. item'[InWorker] = item[InWorker]
      BY <2>4 DEF TypeInv, Control
    <3> QED
      BY <2>1, <2>2, <3>2, <3>3, <3>4
  <2> QED
    BY <2>1, <2>3, <2>4
<1>2. ASSUME OnSendFrame
      PROVE  /\ pc[OutWorker] = "send" /\ Control' /\ Moved(OutWorker, "idle")
             /\ item'[OutWorker] = None /\ item'[InWorker] = item[InWorker]
  <2>1. pc[OutWorker] = "send" /\ Release(OutWorker) /\ mutex' = mutex
    BY <1>2 DEF OnSendFrame, transcoder
  <2>2. mutex \in Threads \cup {None}
    BY DEF TypeInv, Control
  <2> QED
    BY <2>1, <2>2, ControlReleases
<1> QED
  BY <1>1, <1>2

-----------------------------------------------------------------------------
(* Types *)

LEMMA TypeInit == Init => TypeInv
<1> SUFFICES ASSUME Init PROVE TypeInv
  OBVIOUS
<1> USE ThreadFacts DEF Init
<1>1. Control
  <2>1. \A s \in Streams : pc[Creator(s)] = "create" /\ pc[Preparer(s)] = "idle"
    OBVIOUS
  <2>2. pc[InWorker] = "idle" /\ pc[OutWorker] = "idle"
    OBVIOUS
  <2>3. Places
    BY <2>1, <2>2 DEF Places, CreatorSteps, PreparerSteps, InSteps, OutSteps
  <2>4. pc \in [Threads -> Steps]
    BY DEF Steps
  <2>5. \A t \in Workers : pc[t] = "idle" /\ item[t] = None
    BY <2>2
  <2> QED
    BY <2>3, <2>4, <2>5 DEF Control
<1>2. Data
  <2>1. <<>> \in Seq(Items) /\ Len(<<>>) <= MaxBuffer
    BY EmptySeq, RouteAssumption
  <2>2. 0 \in 0..MaxPackets
    BY RouteAssumption
  <2> QED
    BY <2>1, <2>2 DEF Data
<1> QED
  BY <1>1, <1>2 DEF TypeInv

LEMMA EnqueueType ==
  ASSUME NEW q \in Seq(Items), NEW s \in Streams, NEW n \in 0..MaxPackets
  PROVE  Enqueue(q, s, n) \in Seq(Items)
<1>1. <<s, n>> \in Items
  BY DEF Items
<1> QED
  BY <1>1, ConcatProperties, AppendProperties DEF Enqueue

LEMMA ProcessType ==
  ASSUME TypeInv, NEW i \in Items, ProcessPacket(i)
  PROVE  outq' \in Seq(Items)
<1>1. i[1] \in Streams /\ i[2] \in 0..MaxPackets
  BY DEF Items
<1> QED
  BY <1>1, EnqueueType DEF ProcessPacket, TypeInv, Data

\* The place of the new packet in the buffer.
LEMMA KeptType ==
  ASSUME TypeInv, NEW s \in Streams, NEW i \in Items
  PROVE  /\ Kept(s) \in Seq(Items) /\ Append(Kept(s), i) \in Seq(Items)
         /\ Len(Append(Kept(s), i)) <= MaxBuffer
<1>1. buffer[s] \in Seq(Items) /\ Len(buffer[s]) <= MaxBuffer /\ MaxBuffer \in Nat \ {0}
  BY RouteAssumption DEF TypeInv, Data
<1>2. CASE Len(buffer[s]) >= MaxBuffer
  <2>1. buffer[s] # <<>>
    BY <1>1, <1>2
  <2>2. Kept(s) \in Seq(Items) /\ Len(Kept(s)) = Len(buffer[s]) - 1
    BY <1>1, <1>2, <2>1, HeadTailProperties DEF Kept
  <2> QED
    BY <1>1, <2>2, AppendProperties
<1>3. CASE Len(buffer[s]) < MaxBuffer
  <2>1. Kept(s) = buffer[s]
    BY <1>1, <1>3 DEF Kept
  <2> QED
    BY <1>1, <1>3, <2>1, AppendProperties
<1> QED
  BY <1>1, <1>2, <1>3, LenProperties

LEMMA TypeStep == TypeInv /\ [Next]_vars => TypeInv'
<1> SUFFICES ASSUME TypeInv, [Next]_vars PROVE TypeInv'
  OBVIOUS
<1> USE DEF provider, transcoder, router, publisher
<1>t. Control /\ Data
  BY DEF TypeInv
<1>c. ASSUME NEW s \in Streams, Create(s) \/ DeleteStream(s) \/ TakeDown(s) PROVE TypeInv'
  <2>1. Control'
    BY <1>c, CreatorMoves, JoinMoves DEF Create, TakeDown
  <2>2. Data'
    <3>1. CASE CreateInboundStream(s)
      BY <1>t, <3>1 DEF CreateInboundStream, Parse, Data
    <3>2. CASE OnStreamCreated(s)
      BY <1>t, <3>2 DEF OnStreamCreated, Data
    <3>3. CASE DeleteStream(s) \/ OnStreamDeleted(s) \/ JoinPrepareThread(s)
      BY <1>t, <3>3 DEF DeleteStream, OnStreamDeleted, JoinPrepareThread, Data
    <3>4. CASE StopServing(s)
      BY <1>t, <3>4 DEF StopServing, Data
    <3>5. CASE DeleteOutboundStream(s)
      BY <1>t, <3>5 DEF DeleteOutboundStream, Data
    <3>6. CASE EraseTranscoderStream(s)
      <4>1. <<>> \in Seq(Items) /\ Len(<<>>) <= MaxBuffer
        BY EmptySeq, RouteAssumption
      <4> QED
        BY <1>t, <3>6, <4>1 DEF EraseTranscoderStream, Data
    <3>7. CASE DeleteInboundStream(s)
      BY <1>t, <3>7 DEF DeleteInboundStream, Data
    <3> QED
      BY <1>c, <3>1, <3>2, <3>3, <3>4, <3>5, <3>6, <3>7 DEF Create, TakeDown
  <2> QED
    BY <2>1, <2>2 DEF TypeInv
<1>n. ASSUME NEW t \in Notifiers, NotifyInbound(t) PROVE TypeInv'
  <2>1. pc[t] # "idle"
    BY <1>n DEF NotifyInbound, CheckPrepared, OnStreamPrepared, Launch, MarkPrepared
  <2>2. StreamOf(t) \in Streams
    BY <2>1, NotifierFacts
  <2>3. Control'
    BY <1>n, <2>2, NotifyMoves, LaunchMoves DEF NotifyInbound
  <2>4. Data'
    <3>1. CASE CheckPrepared(t) \/ OnStreamPrepared(t)
      BY <1>t, <3>1 DEF CheckPrepared, OnStreamPrepared, Data
    <3>2. CASE Launch(t)
      <4>1. aborted' \in BOOLEAN
        BY <3>2 DEF Launch
      <4> QED
        BY <1>t, <3>2, <4>1 DEF Launch, Data
    <3>3. CASE MarkPrepared(t)
      BY <1>t, <2>2, <3>3 DEF MarkPrepared, Data
    <3> QED
      BY <1>n, <3>1, <3>2, <3>3 DEF NotifyInbound
  <2> QED
    BY <2>3, <2>4 DEF TypeInv
<1>o. ASSUME NEW t \in Starters, NotifyOutbound(t) PROVE TypeInv'
  <2>1. pc[t] # "idle"
    BY <1>o DEF NotifyOutbound, CheckOutPrepared, FindStream, StartStream, MarkOutPrepared
  <2>2. StreamOf(t) \in Streams
    BY <2>1, StarterFacts
  <2>3. Control'
    BY <1>o, StartMoves DEF NotifyOutbound
  <2>4. Data'
    <3>1. CASE CheckOutPrepared(t) \/ FindStream(t)
      BY <1>t, <3>1 DEF CheckOutPrepared, FindStream, Data
    <3>2. CASE StartStream(t)
      BY <1>t, <2>2, <3>2 DEF StartStream, Data
    <3>3. CASE MarkOutPrepared(t)
      BY <1>t, <2>2, <3>3 DEF MarkOutPrepared, Data
    <3> QED
      BY <1>o, <3>1, <3>2, <3>3 DEF NotifyOutbound
  <2> QED
    BY <2>3, <2>4 DEF TypeInv
<1>p. ASSUME NEW s \in Streams,
             RequestWebhook(s) \/ CreateOutboundStream(s) \/ Serve(s) \/ PrepareInternal(s)
      PROVE  TypeInv'
  <2>1. Control'
    BY <1>p, PrepareMoves
  <2>2. Data'
    <3>1. CASE RequestWebhook(s)
      BY <1>t, <3>1 DEF RequestWebhook, EndPrepare, Data
    <3>2. CASE CreateOutboundStream(s)
      BY <1>t, <3>2 DEF CreateOutboundStream, EndPrepare, Parse, Data
    <3>3. CASE Serve(s)
      BY <1>t, <3>3 DEF Serve, Data
    <3>4. CASE PrepareInternal(s)
      BY <1>t, <3>4 DEF PrepareInternal, EndPrepare, Data
    <3> QED
      BY <1>p, <3>1, <3>2, <3>3, <3>4
  <2> QED
    BY <2>1, <2>2 DEF TypeInv
<1>s. ASSUME NEW s \in Streams, SendPacket(s) \/ SendEvent(s) PROVE TypeInv'
  <2>1. Control'
    BY <1>t, <1>s DEF SendPacket, SendEvent, Control, Places
  <2>2. CASE SendPacket(s)
    <3>1. sent[s] + 1 \in 0..MaxPackets /\ sent' = [sent EXCEPT ![s] = sent[s] + 1]
          /\ inq' = Enqueue(inq, s, sent[s] + 1)
      BY <1>t, <2>2, RouteAssumption DEF SendPacket, Data
    <3>2. inq' \in Seq(Items)
      BY <1>t, <3>1, EnqueueType DEF Data
    <3>3. Data'
      BY <1>t, <2>2, <3>1, <3>2 DEF SendPacket, Data
    <3> QED
      BY <2>1, <3>3 DEF TypeInv
  <2>3. CASE SendEvent(s)
    <3>1. inq' \in Seq(Items)
      BY <1>t, <2>3, EnqueueType, RouteAssumption DEF SendEvent, Event, Data
    <3>2. Data'
      BY <1>t, <2>3, <3>1 DEF SendEvent, Data
    <3> QED
      BY <2>1, <3>2 DEF TypeInv
  <2> QED
    BY <1>s, <2>2, <2>3
<1>i. ASSUME PopInbound \/ Push \/ SendBufferedPackets \/ PushPacket
               \/ BufferMediaPacketUntilReadyToPlay
      PROVE  TypeInv'
  <2>1. Control'
    BY <1>i, InboundMoves
  <2>2. CASE PopInbound
    <3>1. Tail(inq) \in Seq(Items) /\ Head(inq)[1] \in Streams
      BY <1>t, <2>2, InboundMoves, HeadTailProperties DEF Data, Items
    <3>2. Data'
      BY <1>t, <2>2, <3>1 DEF PopInbound, Parse, Data
    <3> QED
      BY <2>1, <3>2 DEF TypeInv
  <2>3. CASE Push
    <3>1. Data'
      BY <1>t, <2>3 DEF Push, Data
    <3> QED
      BY <2>1, <3>1 DEF TypeInv
  <2>w. PushPacket \/ BufferMediaPacketUntilReadyToPlay \/ SendBufferedPackets =>
          StreamOf(InWorker) \in Streams /\ item[InWorker] \in Items
    BY StreamFacts, ThreadFacts DEF SendBufferedPackets, PushPacket, BufferMediaPacketUntilReadyToPlay
  <2>4. CASE SendBufferedPackets
    <3>1. PICK s \in Streams : s = StreamOf(InWorker)
      BY <2>w, <2>4
    <3>2. /\ buffer[s] \in Seq(Items) /\ buffer[s] # <<>> /\ ProcessPacket(Head(buffer[s]))
          /\ buffer' = [buffer EXCEPT ![s] = Tail(buffer[s])] /\ Len(buffer[s]) <= MaxBuffer
      BY <1>t, <2>4, <3>1 DEF SendBufferedPackets, Data
    <3>3. /\ Head(buffer[s]) \in Items /\ Tail(buffer[s]) \in Seq(Items)
          /\ Len(Tail(buffer[s])) <= MaxBuffer
      BY <3>2, RouteAssumption, HeadTailProperties
    <3>4. outq' \in Seq(Items)
      BY <3>2, <3>3, ProcessType
    <3>5. buffer' \in [Streams -> Seq(Items)] /\ \A r \in Streams : Len(buffer'[r]) <= MaxBuffer
      BY <1>t, <3>2, <3>3 DEF Data
    <3>6. Data'
      BY <1>t, <2>4, <3>4, <3>5 DEF SendBufferedPackets, Data
    <3> QED
      BY <2>1, <3>6 DEF TypeInv
  <2>5. CASE PushPacket
    <3>1. outq' \in Seq(Items)
      BY <2>w, <2>5, ProcessType DEF PushPacket
    <3>2. Data'
      BY <1>t, <2>5, <3>1 DEF PushPacket, Data
    <3> QED
      BY <2>1, <3>2 DEF TypeInv
  <2>6. CASE BufferMediaPacketUntilReadyToPlay
    <3>1. PICK s \in Streams, i \in Items : s = StreamOf(InWorker) /\ i = item[InWorker]
      BY <2>w, <2>6
    <3>2. buffer' = buffer \/ buffer' = [buffer EXCEPT ![s] = Append(Kept(s), i)]
      BY <2>6, <3>1 DEF BufferMediaPacketUntilReadyToPlay
    <3>k. Append(Kept(s), i) \in Seq(Items) /\ Len(Append(Kept(s), i)) <= MaxBuffer
      BY KeptType
    <3>3. buffer' \in [Streams -> Seq(Items)] /\ \A r \in Streams : Len(buffer'[r]) <= MaxBuffer
      <4>1. CASE buffer' = buffer
        BY <1>t, <4>1 DEF Data
      <4>2. CASE buffer' = [buffer EXCEPT ![s] = Append(Kept(s), i)]
        <5>1. PICK b \in Seq(Items) : b = Append(Kept(s), i)
          BY <3>k
        <5>2. buffer' = [buffer EXCEPT ![s] = b] /\ Len(b) <= MaxBuffer
          BY <3>k, <4>2, <5>1
        <5> QED
          BY <1>t, <5>2 DEF Data
      <4> QED
        BY <3>2, <4>1, <4>2
    <3>4. Data'
      BY <1>t, <2>6, <3>3 DEF BufferMediaPacketUntilReadyToPlay, Data
    <3> QED
      BY <2>1, <3>4 DEF TypeInv
  <2> QED
    BY <1>i, <2>2, <2>3, <2>4, <2>5, <2>6
<1>u. ASSUME PopOutbound \/ OnSendFrame PROVE TypeInv'
  <2>1. Control'
    BY <1>u, OutboundMoves
  <2>2. CASE PopOutbound
    <3>1. PICK i \in Items : i = Head(outq)
      BY <2>2, OutboundMoves
    <3>2. Tail(outq) \in Seq(Items) /\ i[1] \in Streams /\ i # None
      BY <1>t, <2>2, <3>1, OutboundMoves, HeadTailProperties, ThreadFacts DEF Data, Items
    <3>3. \/ stash' = stash
          \/ stash' = [stash EXCEPT ![i[1]] = i] /\ i[1] \notin timed
      BY <2>2, <3>1 DEF PopOutbound, Waits
    <3>4. /\ stash' \in [Streams -> Items \cup {None}]
          /\ \A s \in Streams : stash'[s] # None => stash'[s][1] = s /\ s \notin timed'
      <4>1. timed' = timed /\ stash \in [Streams -> Items \cup {None}]
            /\ \A s \in Streams : stash[s] # None => stash[s][1] = s /\ s \notin timed
        BY <1>t, <2>2 DEF PopOutbound, Data
      <4>2. CASE stash' = stash
        BY <4>1, <4>2
      <4>3. CASE stash' = [stash EXCEPT ![i[1]] = i] /\ i[1] \notin timed
        BY <3>1, <3>2, <4>1, <4>3
      <4> QED
        BY <3>3, <4>2, <4>3
    <3>5. Data'
      BY <1>t, <2>2, <3>1, <3>2, <3>4 DEF PopOutbound, Parse, Data
    <3> QED
      BY <2>1, <3>5 DEF TypeInv
  <2>3. CASE OnSendFrame
    <3>1. item[OutWorker] \in Items
      BY <2>3, StreamFacts, ThreadFacts DEF OnSendFrame
    <3>2. appq' \in Seq(Items)
      BY <1>t, <2>3, <3>1, AppendProperties DEF OnSendFrame, Data
    <3>3. Data'
      BY <1>t, <2>3, <3>2 DEF OnSendFrame, Data
    <3> QED
      BY <2>1, <3>3 DEF TypeInv
  <2> QED
    BY <1>u, <2>2, <2>3
<1>d. CASE PopStreamData
  <2>1. Control'
    BY <1>t, <1>d DEF PopStreamData, Control, Places
  <2>2. PICK s, i : s = Head(appq)[1] /\ i = Head(appq)
    OBVIOUS
  <2>i. s \in Streams /\ i \in Items /\ Tail(appq) \in Seq(Items)
    BY <1>t, <1>d, <2>2, HeadTailProperties DEF PopStreamData, Data, Items
  <2>a. appq' = Tail(appq) /\ (delivered' = delivered
          \/ delivered' = [delivered EXCEPT ![s] = Append(delivered[s], i)])
    BY <1>d, <2>2 DEF PopStreamData
  <2>b. Append(delivered[s], i) \in Seq(Items)
    BY <1>t, <2>i, AppendProperties DEF Data
  <2>3. delivered' \in [Streams -> Seq(Items)]
    BY <1>t, <2>a, <2>b DEF Data
  <2>4. Data'
    BY <1>t, <1>d, <2>i, <2>a, <2>3 DEF PopStreamData, Data
  <2> QED
    BY <2>1, <2>4 DEF TypeInv
<1>v. CASE UNCHANGED vars
  BY <1>t, <1>v DEF vars, TypeInv, Control, Data, Places
<1>z. /\ \A s \in Streams : Creator(s) \in Notifiers /\ Preparer(s) \in Starters
      /\ InWorker \in Notifiers /\ OutWorker \in Starters
  BY ThreadFacts DEF Notifiers, Starters
<1> QED
  BY <1>c, <1>n, <1>o, <1>p, <1>s, <1>i, <1>u, <1>d, <1>v, <1>z
  DEF Next, PrepareAsync, InboundWorkerThread, OutboundWorkerThread

\* The variables keep their types; the buffer never holds more than its limit.
THEOREM TypeCorrect == Spec => []TypeOK
BY TypeInit, TypeStep, TypeParts, PTL DEF Spec

-----------------------------------------------------------------------------
(* What the other threads see of a step *)

LEMMA Apart ==
  ASSUME NEW step
  PROVE  /\ \A s \in Streams : Moved(Creator(s), step) =>
              /\ pc'[Creator(s)] = step
              /\ \A r \in Streams \ {s} : pc'[Creator(r)] = pc[Creator(r)]
              /\ \A r \in Streams : pc'[Preparer(r)] = pc[Preparer(r)]
              /\ pc'[InWorker] = pc[InWorker] /\ pc'[OutWorker] = pc[OutWorker]
         /\ \A s \in Streams : Moved(Preparer(s), step) =>
              /\ pc'[Preparer(s)] = step
              /\ \A r \in Streams \ {s} : pc'[Preparer(r)] = pc[Preparer(r)]
              /\ \A r \in Streams : pc'[Creator(r)] = pc[Creator(r)]
              /\ pc'[InWorker] = pc[InWorker] /\ pc'[OutWorker] = pc[OutWorker]
         /\ \A t \in Workers : Moved(t, step) =>
              /\ pc'[t] = step /\ \A u \in Workers \ {t} : pc'[u] = pc[u]
              /\ \A r \in Streams :
                   pc'[Creator(r)] = pc[Creator(r)] /\ pc'[Preparer(r)] = pc[Preparer(r)]
BY ThreadFacts DEF Moved

\* A step of the thread that creates and deletes s, and what it leaves alone.
LEMMA CreatorFrame ==
  ASSUME TypeInv, NEW s \in Streams, Create(s) \/ DeleteStream(s) \/ TakeDown(s)
  PROVE  /\ item' = item /\ pc'[InWorker] = pc[InWorker] /\ pc'[OutWorker] = pc[OutWorker]
         /\ <<prepared, inq, events, outPrepared, outq>>' =
            <<prepared, inq, events, outPrepared, outq>>
         /\ appq' = appq /\ delivered' = delivered /\ aborted' = aborted /\ sent' = sent
         /\ \A r \in Streams \ {s} :
              /\ pc'[Creator(r)] = pc[Creator(r)] /\ pc'[Preparer(r)] = pc[Preparer(r)]
              /\ state'[r] = state[r] /\ pub'[r] = pub[r] /\ buffer'[r] = buffer[r]
              /\ (r \in served' <=> r \in served) /\ (r \in outbound' <=> r \in outbound)
              /\ (r \in inbound' <=> r \in inbound)
<1> USE DEF provider, transcoder, router, publisher
<1>t. /\ state \in [Streams -> {"CREATED", "PREPARING", "STARTED", "ERROR", "STOPPED"}]
      /\ pub \in [Streams -> {"NONE", "CREATED", "STARTED", "ERROR", "STOPPED"}]
      /\ buffer \in [Streams -> Seq(Items)]
  BY DEF TypeInv, Data
<1>1. /\ item' = item
      /\ <<prepared, inq, events, outPrepared, outq>>' =
         <<prepared, inq, events, outPrepared, outq>>
      /\ appq' = appq /\ delivered' = delivered /\ aborted' = aborted /\ sent' = sent
  BY DEF Create, TakeDown, CreateInboundStream, OnStreamCreated, DeleteStream, OnStreamDeleted,
         JoinPrepareThread, StopServing, DeleteOutboundStream, EraseTranscoderStream,
         DeleteInboundStream
<1>2. /\ pc'[InWorker] = pc[InWorker] /\ pc'[OutWorker] = pc[OutWorker]
      /\ \A r \in Streams \ {s} :
           pc'[Creator(r)] = pc[Creator(r)] /\ pc'[Preparer(r)] = pc[Preparer(r)]
  <2>1. CASE JoinPrepareThread(s)
    BY <2>1, JoinMoves, ThreadFacts
  <2>2. CASE \E step \in CreatorSteps : Moved(Creator(s), step)
    BY <2>2, Apart
  <2>3. CASE ~JoinPrepareThread(s)
    BY <2>2, <2>3, CreatorMoves DEF Create, TakeDown, CreatorSteps
  <2> QED
    BY <2>1, <2>3
<1>3. \A r \in Streams \ {s} :
        state'[r] = state[r] /\ pub'[r] = pub[r] /\ buffer'[r] = buffer[r]
  <2>1. state' = state \/ \E x \in {"PREPARING", "STOPPED"} : state' = [state EXCEPT ![s] = x]
    BY DEF Create, TakeDown, CreateInboundStream, OnStreamCreated, DeleteStream,
           OnStreamDeleted, JoinPrepareThread, StopServing, DeleteOutboundStream,
           EraseTranscoderStream, DeleteInboundStream
  <2>2. pub' = pub \/ pub' = [pub EXCEPT ![s] = "STOPPED"]
    BY DEF Create, TakeDown, CreateInboundStream, OnStreamCreated, DeleteStream,
           OnStreamDeleted, JoinPrepareThread, StopServing, DeleteOutboundStream,
           EraseTranscoderStream, DeleteInboundStream
  <2>3. buffer' = buffer \/ buffer' = [buffer EXCEPT ![s] = <<>>]
    BY DEF Create, TakeDown, CreateInboundStream, OnStreamCreated, DeleteStream,
           OnStreamDeleted, JoinPrepareThread, StopServing, DeleteOutboundStream,
           EraseTranscoderStream, DeleteInboundStream
  <2> QED
    BY <1>t, <2>1, <2>2, <2>3
<1>4. /\ served' \in {served, served \ {s}} /\ outbound' \in {outbound, outbound \ {s}}
      /\ inbound' \in {inbound, inbound \ {s}, inbound \cup {s}}
  BY DEF Create, TakeDown, CreateInboundStream, OnStreamCreated, DeleteStream, OnStreamDeleted,
         JoinPrepareThread, StopServing, DeleteOutboundStream, EraseTranscoderStream,
         DeleteInboundStream
<1> QED
  BY <1>1, <1>2, <1>3, <1>4

\* A step of the thread that prepares s.
LEMMA PreparerFrame ==
  ASSUME TypeInv, NEW s \in Streams, PrepareAsync(s)
  PROVE  /\ pc[Preparer(s)] \notin {"idle", "ended"} /\ pc'[Preparer(s)] # "idle"
         /\ item' = item /\ pc'[InWorker] = pc[InWorker] /\ pc'[OutWorker] = pc[OutWorker]
         /\ <<inbound, prepared, inq, events, outq, stash, buffer>>' =
            <<inbound, prepared, inq, events, outq, stash, buffer>>
         /\ appq' = appq /\ delivered' = delivered /\ aborted' = aborted /\ sent' = sent
         /\ \A r \in Streams : pc'[Creator(r)] = pc[Creator(r)]
         /\ \A r \in Streams \ {s} :
              /\ pc'[Preparer(r)] = pc[Preparer(r)]
              /\ state'[r] = state[r] /\ pub'[r] = pub[r]
              /\ (r \in served' <=> r \in served) /\ (r \in outbound' <=> r \in outbound)
              /\ (r \in outPrepared' <=> r \in outPrepared)
<1> USE DEF provider, transcoder, router, publisher
<1>t. /\ state \in [Streams -> {"CREATED", "PREPARING", "STARTED", "ERROR", "STOPPED"}]
      /\ pub \in [Streams -> {"NONE", "CREATED", "STARTED", "ERROR", "STOPPED"}]
  BY DEF TypeInv, Data
<1>s. Preparer(s) \in Starters /\ StreamOf(Preparer(s)) = s
  BY ThreadFacts, StreamFacts DEF Starters
<1>1. /\ pc[Preparer(s)] \notin {"idle", "ended"} /\ item' = item
      /\ <<inbound, prepared, inq, events, outq, stash, buffer>>' =
         <<inbound, prepared, inq, events, outq, stash, buffer>>
      /\ appq' = appq /\ delivered' = delivered /\ aborted' = aborted /\ sent' = sent
  BY DEF PrepareAsync, NotifyOutbound, RequestWebhook, CreateOutboundStream, Serve,
         PrepareInternal, CheckOutPrepared, FindStream, StartStream, MarkOutPrepared
<1>2. \E step \in PreparerSteps \ {"idle"} : Moved(Preparer(s), step)
  <2>1. AfterPrepared(Preparer(s)) = "decoders"
    BY <1>1, <1>s, StarterFacts, ThreadFacts
  <2>2. NotifyOutbound(Preparer(s)) =>
          \E step \in {"find", "start", "flag", "decoders"} : Moved(Preparer(s), step)
    BY <1>s, <2>1, StartMoves DEF NotifyOutbound
  <2> QED
    BY <2>2, PrepareMoves DEF PrepareAsync, PreparerSteps
<1>3. state' = state \/ \E x \in {"STARTED", "ERROR"} : state' = [state EXCEPT ![s] = x]
  BY DEF PrepareAsync, NotifyOutbound, RequestWebhook, CreateOutboundStream, Serve,
         PrepareInternal, CheckOutPrepared, FindStream, StartStream, MarkOutPrepared, EndPrepare
<1>4. pub' = pub \/ \E x \in {"CREATED", "STARTED", "ERROR"} : pub' = [pub EXCEPT ![s] = x]
  BY <1>s DEF PrepareAsync, NotifyOutbound, RequestWebhook, CreateOutboundStream, Serve,
         PrepareInternal, CheckOutPrepared, FindStream, StartStream, MarkOutPrepared
<1>5. /\ served' \in {served, served \cup {s}} /\ outbound' \in {outbound, outbound \cup {s}}
      /\ outPrepared' \in {outPrepared, outPrepared \cup {s}}
  BY <1>s DEF PrepareAsync, NotifyOutbound, RequestWebhook, CreateOutboundStream, Serve,
         PrepareInternal, CheckOutPrepared, FindStream, StartStream, MarkOutPrepared
<1>6. \A r \in Streams \ {s} : state'[r] = state[r] /\ pub'[r] = pub[r]
  BY <1>t, <1>3, <1>4
<1> QED
  BY <1>1, <1>2, <1>5, <1>6, Apart

\* A step of the inbound worker, or of a creation, that notifies the observers.
LEMMA NotifyFrame ==
  ASSUME TypeInv, NEW t \in Notifiers, NotifyInbound(t)
  PROVE  /\ pc[t] # "idle" /\ StreamOf(t) \in Streams /\ item' = item
         /\ <<inbound, inq, events, state, buffer>>' = <<inbound, inq, events, state, buffer>>
         /\ <<outbound, outPrepared, outq, stash>>' = <<outbound, outPrepared, outq, stash>>
         /\ served' = served /\ pub' = pub /\ appq' = appq /\ delivered' = delivered
         /\ sent' = sent
         /\ ~Launch(t) => aborted' = aborted
         /\ ~MarkPrepared(t) => prepared' = prepared
         /\ pc'[OutWorker] = pc[OutWorker]
         /\ \A s \in Streams : t # Creator(s) => pc'[Creator(s)] = pc[Creator(s)]
         /\ t # InWorker => pc'[InWorker] = pc[InWorker]
         /\ \A s \in Streams : ~Launch(t) \/ StreamOf(t) # s => pc'[Preparer(s)] = pc[Preparer(s)]
<1> USE ThreadFacts DEF provider, transcoder, router, publisher
<1>1. /\ pc[t] # "idle" /\ item' = item
      /\ <<inbound, inq, events, state, buffer>>' = <<inbound, inq, events, state, buffer>>
      /\ <<outbound, outPrepared, outq, stash>>' = <<outbound, outPrepared, outq, stash>>
      /\ served' = served /\ pub' = pub /\ appq' = appq /\ delivered' = delivered
      /\ sent' = sent
      /\ ~Launch(t) => aborted' = aborted
      /\ ~MarkPrepared(t) => prepared' = prepared
  BY DEF NotifyInbound, CheckPrepared, OnStreamPrepared, Launch, MarkPrepared
<1>2. PICK s \in Streams : s = StreamOf(t)
  BY <1>1, NotifierFacts
<1>3. t \in Threads /\ (t = InWorker \/ t = Creator(s))
  BY <1>1, <1>2, NotifierFacts
<1>4. CASE Launch(t)
  BY <1>1, <1>2, <1>3, <1>4, LaunchMoves
<1>5. CASE ~Launch(t)
  <2>1. \A u \in Threads \ {t} : pc'[u] = pc[u]
    BY <1>5, NotifyMoves DEF NotifyInbound, Moved
  <2> QED
    BY <1>1, <1>2, <1>3, <1>5, <2>1
<1> QED
  BY <1>4, <1>5

\* A step of the outbound worker.
LEMMA OutboundFrame ==
  ASSUME TypeInv, OutboundWorkerThread
  PROVE  /\ item'[InWorker] = item[InWorker] /\ pc'[InWorker] = pc[InWorker]
         /\ \A s \in Streams :
              pc'[Creator(s)] = pc[Creator(s)] /\ pc'[Preparer(s)] = pc[Preparer(s)]
<1>1. CASE PopOutbound \/ OnSendFrame
  BY <1>1, OutboundMoves, Apart, ThreadFacts
<1>2. CASE NotifyOutbound(OutWorker)
  <2>1. item' = item /\ OutWorker \in Starters
    BY <1>2 DEF NotifyOutbound, CheckOutPrepared, FindStream, StartStream, MarkOutPrepared,
                Starters
  <2>2. \E step : Moved(OutWorker, step)
    BY <1>2, <2>1, StartMoves DEF NotifyOutbound
  <2> QED
    BY <2>1, <2>2, Apart, ThreadFacts
<1> QED
  BY <1>1, <1>2 DEF OutboundWorkerThread

-----------------------------------------------------------------------------
(* The lock of the transcoder's application *)

LockSteps == {"launch", "flush", "buffer", "join", "unserve", "unlist", "finish"}

LockInv == \A t \in Threads : pc[t] \in LockSteps => mutex = t

\* A thread takes the lock, keeps it, gives it back, or leaves it alone.
LEMMA LockKept ==
  ASSUME TypeInv, LockInv, NEW t \in Threads, NEW step, Moved(t, step),
         \/ step \in LockSteps /\ mutex \in {None, t} /\ mutex' = t
         \/ step \notin LockSteps /\ (mutex' = mutex \/ pc[t] \in LockSteps)
  PROVE  LockInv'
BY ThreadFacts DEF TypeInv, Control, LockInv, Moved

LEMMA LockSame ==
  ASSUME TypeInv, LockInv, mutex' = mutex,
         \A t \in Threads : pc'[t] \in LockSteps => pc[t] \in LockSteps
  PROVE  LockInv'
BY DEF LockInv

LEMMA LockStep == TypeInv /\ LockInv /\ [Next]_vars => LockInv'
<1> SUFFICES ASSUME TypeInv, LockInv, [Next]_vars PROVE LockInv'
  OBVIOUS
<1> USE ThreadFacts DEF transcoder, LockSteps
<1>c. ASSUME NEW s \in Streams, Create(s) \/ DeleteStream(s) PROVE LockInv'
  BY <1>c, CreatorMoves, LockKept
  DEF Create, CreateInboundStream, OnStreamCreated, DeleteStream
<1>k. ASSUME NEW s \in Streams, TakeDown(s) PROVE LockInv'
  <2>1. CASE OnStreamDeleted(s)
    BY <2>1, CreatorMoves, LockKept DEF OnStreamDeleted
  <2>2. CASE JoinPrepareThread(s)
    <3>1. mutex = Creator(s)
      BY <2>2, JoinMoves DEF LockInv
    <3> QED
      BY <2>2, <3>1, JoinMoves DEF LockInv, JoinPrepareThread
  <2>3. CASE StopServing(s) \/ DeleteOutboundStream(s)
    <3>1. mutex = Creator(s)
      BY <2>3, CreatorMoves DEF LockInv
    <3> QED
      BY <2>3, <3>1, CreatorMoves, LockKept DEF StopServing, DeleteOutboundStream
  <2>4. CASE EraseTranscoderStream(s)
    BY <2>4, CreatorMoves, LockKept DEF EraseTranscoderStream
  <2>5. CASE DeleteInboundStream(s)
    BY <2>5, CreatorMoves, LockKept DEF DeleteInboundStream
  <2> QED
    BY <1>k, <2>1, <2>2, <2>3, <2>4, <2>5 DEF TakeDown
<1>n. ASSUME NEW t \in Notifiers, NotifyInbound(t) PROVE LockInv'
  <2>1. pc[t] # "idle"
    BY <1>n DEF NotifyInbound, CheckPrepared, OnStreamPrepared, Launch, MarkPrepared
  <2>2. t \in Threads /\ StreamOf(t) \in Streams /\ AfterPrepared(t) \in {"live", "send"}
    BY <2>1, NotifierFacts
  <2>3. CASE CheckPrepared(t) \/ MarkPrepared(t)
    BY <2>2, <2>3, NotifyMoves, LockKept DEF CheckPrepared, MarkPrepared
  <2>4. CASE OnStreamPrepared(t)
    BY <2>2, <2>4, NotifyMoves, LockKept
  <2>5. CASE Launch(t)
    <3>1. PICK s \in Streams : s = StreamOf(t)
      BY <2>2
    <3>2. mutex = t
      BY <2>2, <2>5 DEF Launch, LockInv
    <3>3. /\ pc'[t] = "mark" /\ pc'[Preparer(s)] \in {"webhook", pc[Preparer(s)]}
          /\ \A u \in Threads \ {t, Preparer(s)} : pc'[u] = pc[u]
      BY <2>5, <3>1, LaunchMoves
    <3>4. pc[Preparer(s)] \notin LockSteps
      BY DEF TypeInv, Control, Places, PreparerSteps
    <3> QED
      BY <2>2, <3>2, <3>3, <3>4 DEF LockInv
  <2> QED
    BY <1>n, <2>3, <2>4, <2>5 DEF NotifyInbound
<1>o. ASSUME NEW t \in Starters, NotifyOutbound(t) PROVE LockInv'
  <2>1. pc[t] # "idle"
    BY <1>o DEF NotifyOutbound, CheckOutPrepared, FindStream, StartStream, MarkOutPrepared
  <2>2. t \in Threads /\ AfterPrepared(t) \in {"decoders", "send"}
    BY <2>1, StarterFacts
  <2>3. mutex' = mutex
    BY <1>o DEF NotifyOutbound, CheckOutPrepared, FindStream, StartStream, MarkOutPrepared
  <2> QED
    BY <1>o, <2>2, <2>3, StartMoves, LockKept DEF NotifyOutbound
<1>p. ASSUME NEW s \in Streams,
             RequestWebhook(s) \/ CreateOutboundStream(s) \/ Serve(s) \/ PrepareInternal(s)
      PROVE  LockInv'
  <2>1. mutex' = mutex
    BY <1>p DEF RequestWebhook, CreateOutboundStream, Serve, PrepareInternal
  <2> QED
    BY <1>p, <2>1, PrepareMoves, LockKept
<1>i. ASSUME PopInbound \/ Push PROVE LockInv'
  <2>1. CASE PopInbound
    <3>1. mutex' = mutex
      BY <2>1 DEF PopInbound
    <3> QED
      BY <2>1, <3>1, InboundMoves, LockKept, LockSame
  <2> QED
    BY <1>i, <2>1, InboundMoves, LockKept
<1>j. ASSUME PushPacket \/ BufferMediaPacketUntilReadyToPlay PROVE LockInv'
  BY <1>j, InboundMoves, LockKept
<1>u. ASSUME PopOutbound \/ OnSendFrame PROVE LockInv'
  <2>1. mutex' = mutex
    BY <1>u DEF PopOutbound, OnSendFrame
  <2> QED
    BY <1>u, <2>1, OutboundMoves, LockKept, LockSame
<1>d. ASSUME NEW s \in Streams, SendPacket(s) \/ SendEvent(s) PROVE LockInv'
  BY <1>d, LockSame DEF SendPacket, SendEvent
<1>e. SendBufferedPackets \/ PopStreamData \/ UNCHANGED vars => LockInv'
  BY LockSame DEF SendBufferedPackets, PopStreamData, vars
<1>z. /\ \A s \in Streams : Creator(s) \in Notifiers /\ Preparer(s) \in Starters
      /\ InWorker \in Notifiers /\ OutWorker \in Starters
  BY DEF Notifiers, Starters
<1> QED
  BY <1>c, <1>k, <1>n, <1>o, <1>p, <1>i, <1>j, <1>u, <1>d, <1>e, <1>z
  DEF Next, PrepareAsync, InboundWorkerThread, OutboundWorkerThread

-----------------------------------------------------------------------------
(* The deletion of a stream *)

\* The steps behind the join.
GoneSteps == {"unserve", "unlist", "finish", "unroute", "deleted"}

\* A worker has a packet of s.
At(w, s) == pc[w] # "idle" /\ item[w][1] = s

\* What the deletion of s has left when it comes to each step; a worker that is about to
\* launch the preparation of s keeps it out with the lock.
Gone(s) ==
  /\ pc[Creator(s)] \in GoneSteps => pc[Preparer(s)] = "idle"
  /\ pc[Creator(s)] \in {"unroute", "deleted"} => state[s] = "STOPPED"
  /\ pc[Creator(s)] \in {"unlist", "finish", "unroute", "deleted"} => s \notin served
  /\ pc[Creator(s)] \in {"finish", "unroute", "deleted"} => s \notin outbound
  /\ pc[Creator(s)] = "deleted" => s \notin inbound
  /\ pc[InWorker] = "launch" /\ At(InWorker, s) => pc[Creator(s)] \notin {"unroute", "deleted"}

GoneInv == \A s \in Streams : Gone(s)

LEMMA GoneParts == GoneInv => NothingLeft
BY DEF GoneInv, Gone, NothingLeft, GoneSteps

\* A step that leaves the deletion alone, and adds nothing to what it has taken down.
LEMMA GoneKept ==
  ASSUME NEW s \in Streams, Gone(s), pc'[Creator(s)] = pc[Creator(s)],
         \/ pc[Creator(s)] \notin GoneSteps
         \/ /\ pc'[Preparer(s)] = pc[Preparer(s)] /\ state'[s] = state[s]
            /\ s \in served' => s \in served
            /\ s \in outbound' => s \in outbound
            /\ s \in inbound' => s \in inbound,
         pc'[InWorker] = "launch" => pc[InWorker] = "launch" /\ item'[InWorker] = item[InWorker]
  PROVE  Gone(s)'
BY DEF Gone, At, GoneSteps

LEMMA NotGone ==
  ASSUME NEW s \in Streams, pc'[Creator(s)] \notin GoneSteps
  PROVE  Gone(s)'
BY DEF Gone, GoneSteps

LEMMA GoneStep == TypeInv /\ LockInv /\ GoneInv /\ [Next]_vars => GoneInv'
<1> SUFFICES ASSUME TypeInv, LockInv, GoneInv, [Next]_vars, NEW r \in Streams PROVE Gone(r)'
  BY DEF GoneInv
<1> USE ThreadFacts DEF provider, transcoder, router, publisher
<1>g. Gone(r)
  BY DEF GoneInv
<1>c. ASSUME NEW s \in Streams, Create(s) \/ DeleteStream(s) \/ TakeDown(s) PROVE Gone(r)'
  <2>f. item' = item /\ pc'[InWorker] = pc[InWorker]
    BY <1>c, CreatorFrame
  <2>1. CASE r # s
    BY <1>c, <1>g, <2>1, CreatorFrame, GoneKept
  <2>2. CASE r = s /\ (Create(s) \/ DeleteStream(s) \/ OnStreamDeleted(s))
    BY <2>2, CreatorMoves, Apart, NotGone DEF Create, GoneSteps
  <2>3. CASE r = s /\ JoinPrepareThread(s)
    BY <2>3, JoinMoves DEF Gone
  <2>4. CASE r = s /\ StopServing(s)
    BY <1>g, <2>4, CreatorMoves, Apart DEF StopServing, Gone, GoneSteps
  <2>5. CASE r = s /\ DeleteOutboundStream(s)
    BY <1>g, <2>5, CreatorMoves, Apart DEF DeleteOutboundStream, Gone, GoneSteps
  <2>6. CASE r = s /\ EraseTranscoderStream(s)
    <3>1. pc[InWorker] # "launch"
      BY <2>6, CreatorMoves DEF LockInv, LockSteps
    <3>2. state'[s] = "STOPPED" /\ served' = served /\ outbound' = outbound
      BY <2>6 DEF EraseTranscoderStream, TypeInv, Data
    <3>3. /\ pc[Creator(s)] = "finish" /\ pc'[Creator(s)] = "unroute"
          /\ pc'[Preparer(s)] = pc[Preparer(s)]
      BY <2>6, CreatorMoves, Apart
    <3> QED
      BY <1>g, <2>6, <2>f, <3>1, <3>2, <3>3 DEF Gone, GoneSteps
  <2>7. CASE r = s /\ DeleteInboundStream(s)
    BY <1>g, <2>f, <2>7, CreatorMoves, Apart DEF DeleteInboundStream, Gone, GoneSteps, At
  <2> QED
    BY <1>c, <2>1, <2>2, <2>3, <2>4, <2>5, <2>6, <2>7 DEF TakeDown
<1>n. ASSUME NEW t \in Notifiers, NotifyInbound(t) PROVE Gone(r)'
  <2>f. /\ item' = item /\ state' = state /\ served' = served /\ outbound' = outbound
        /\ inbound' = inbound /\ pc[t] # "idle"
    BY <1>n, NotifyFrame
  <2>1. PICK s \in Streams : s = StreamOf(t)
    BY <1>n, NotifyFrame
  <2>2. CASE t = Creator(s)
    <3>1. /\ r # s => /\ pc'[Creator(r)] = pc[Creator(r)] /\ pc'[Preparer(r)] = pc[Preparer(r)]
          /\ pc'[InWorker] = pc[InWorker]
      BY <1>n, <2>1, <2>2, NotifyFrame
    <3>2. r = s => pc'[Creator(r)] \notin GoneSteps
      <4>1. AfterPrepared(t) = "live"
        BY <2>2, <2>f, NotifierFacts
      <4> QED
        BY <1>n, <2>1, <2>2, <4>1, NotifyMoves, LaunchMoves DEF Moved, NotifyInbound, GoneSteps
    <3> QED
      BY <1>g, <2>f, <3>1, <3>2, GoneKept, NotGone
  <2>3. CASE t = InWorker
    <3>1. AfterPrepared(t) = "send" /\ At(t, s)
      BY <2>f, <2>1, <2>3, NotifierFacts DEF At
    <3>2. CASE CheckPrepared(t) \/ MarkPrepared(t)
      BY <1>g, <2>f, <2>3, <3>1, <3>2, NotifyMoves, Apart, GoneKept
    <3>3. CASE OnStreamPrepared(t)
      <4>1. pc'[InWorker] = "launch" => state[s] = "PREPARING"
        BY <2>1, <2>3, <3>3, NotifyMoves, Apart
      <4>2. /\ pc'[Creator(r)] = pc[Creator(r)] /\ pc'[Preparer(r)] = pc[Preparer(r)]
            /\ item'[InWorker][1] = s
        BY <2>f, <2>3, <3>1, <3>3, NotifyMoves, Apart DEF At
      <4> QED
        BY <1>g, <2>f, <4>1, <4>2 DEF Gone, At
    <3>4. CASE Launch(t)
      <4>1. mutex = InWorker
        BY <2>3, <3>4 DEF Launch, LockInv, LockSteps
      <4>2. pc[Creator(s)] \notin {"unserve", "unlist", "finish"}
        BY <4>1 DEF LockInv, LockSteps
      <4>3. pc[Creator(s)] \notin GoneSteps
        BY <2>3, <3>1, <3>4, <4>2 DEF Launch, GoneInv, Gone, GoneSteps
      <4>4. /\ pc'[Creator(r)] = pc[Creator(r)] /\ pc'[InWorker] = "mark"
            /\ r # s => pc'[Preparer(r)] = pc[Preparer(r)]
        BY <2>1, <2>3, <3>4, LaunchMoves
      <4> QED
        BY <1>g, <2>f, <4>3, <4>4, GoneKept
    <3> QED
      BY <1>n, <3>2, <3>3, <3>4 DEF NotifyInbound
  <2> QED
    BY <2>f, <2>1, <2>2, <2>3, NotifierFacts
<1>p. ASSUME NEW s \in Streams, PrepareAsync(s) PROVE Gone(r)'
  <2>1. pc[Creator(s)] \notin GoneSteps
    BY <1>p, PreparerFrame DEF GoneInv, Gone
  <2> QED
    BY <1>p, <1>g, <2>1, PreparerFrame, GoneKept
<1>i. ASSUME PopInbound \/ Push \/ PushPacket \/ BufferMediaPacketUntilReadyToPlay
      PROVE  Gone(r)'
  <2>1. /\ state' = state /\ served' = served /\ outbound' = outbound /\ inbound' = inbound
    BY <1>i DEF PopInbound, Push, PushPacket, BufferMediaPacketUntilReadyToPlay
  <2> QED
    BY <1>i, <1>g, <2>1, InboundMoves, Apart, GoneKept
<1>u. ASSUME OutboundWorkerThread PROVE Gone(r)'
  <2>1. /\ state' = state /\ served' = served /\ outbound' = outbound /\ inbound' = inbound
    BY <1>u DEF OutboundWorkerThread, PopOutbound, OnSendFrame, NotifyOutbound,
                CheckOutPrepared, FindStream, StartStream, MarkOutPrepared
  <2>2. /\ pc'[Creator(r)] = pc[Creator(r)] /\ pc'[Preparer(r)] = pc[Preparer(r)]
        /\ pc'[InWorker] = pc[InWorker] /\ item'[InWorker] = item[InWorker]
    BY <1>u, OutboundFrame
  <2> QED
    BY <1>g, <2>1, <2>2, GoneKept
<1>d. ASSUME NEW s \in Streams, SendPacket(s) \/ SendEvent(s) PROVE Gone(r)'
  BY <1>d, <1>g, GoneKept DEF SendPacket, SendEvent
<1>e. SendBufferedPackets \/ PopStreamData \/ UNCHANGED vars => Gone(r)'
  BY <1>g, GoneKept DEF SendBufferedPackets, PopStreamData, vars
<1>z. InWorker \in Notifiers /\ \A s \in Streams : Creator(s) \in Notifiers
  BY DEF Notifiers
<1> QED
  BY <1>c, <1>n, <1>p, <1>i, <1>u, <1>d, <1>e, <1>z DEF Next, InboundWorkerThread

LEMMA InitControl == Init => LockInv /\ GoneInv
<1> SUFFICES ASSUME Init PROVE LockInv /\ GoneInv
  OBVIOUS
<1>1. \A t \in Threads : pc[t] \in {"create", "idle"}
  BY DEF Init
<1>2. \A s \in Streams : pc[Creator(s)] \notin GoneSteps
  BY <1>1, ThreadFacts DEF GoneSteps
<1>3. pc[InWorker] # "launch"
  BY <1>1, ThreadFacts
<1> QED
  BY <1>1, <1>2, <1>3 DEF LockInv, LockSteps, GoneInv, Gone, GoneSteps

\* Nothing of an input stream is left, or created again, behind its deletion.
THEOREM NothingIsLeft == Spec => []NothingLeft
<1>1. TypeInv /\ LockInv /\ GoneInv /\ [Next]_vars => (TypeInv /\ LockInv /\ GoneInv)'
  BY TypeStep, LockStep, GoneStep
<1> QED
  BY <1>1, TypeInit, InitControl, GoneParts, PTL DEF Spec

-----------------------------------------------------------------------------
(* The preparation of a stream *)

\* The steps before the creation of s is done with the preparation.
EarlySteps == {"create", "announce", "check", "prepare", "launch", "mark"}

NoneQueued(s) == \A i \in 1..Len(inq) : inq[i][1] # s

\* Who may launch the preparation of s, as long as no event was sent: its creation, which
\* no packet of s meets, and then the worker, until one of them has marked s.
Once(s) ==
  /\ pc[Creator(s)] \in EarlySteps => ~At(InWorker, s) /\ NoneQueued(s)
  /\ pc[Creator(s)] \in {"prepare", "launch"} => s \notin prepared
  /\ pc[InWorker] \in {"prepare", "launch"} /\ At(InWorker, s) => s \notin prepared
  /\ pc[Preparer(s)] # "idle" => \/ s \in prepared \/ pc[Creator(s)] = "mark"
                                 \/ pc[InWorker] = "mark" /\ At(InWorker, s)

OnceInv == events = {} => ~aborted /\ \A s \in Streams : Once(s)

LEMMA OnceParts == OnceInv => OnePreparation
BY DEF OnceInv, OnePreparation

LEMMA OnceKept ==
  ASSUME NEW s \in Streams, Once(s), pc'[Creator(s)] = pc[Creator(s)],
         pc'[Preparer(s)] # "idle" => pc[Preparer(s)] # "idle",
         pc'[InWorker] = pc[InWorker], item'[InWorker] = item[InWorker], inq' = inq,
         s \in prepared' <=> s \in prepared
  PROVE  Once(s)'
BY DEF Once, At, NoneQueued

\* A step of the worker on another stream.
LEMMA OnceOther ==
  ASSUME NEW s \in Streams, Once(s), pc'[Creator(s)] = pc[Creator(s)],
         pc'[Preparer(s)] # "idle" => pc[Preparer(s)] # "idle",
         ~At(InWorker, s), ~At(InWorker, s)', inq' = inq,
         s \in prepared' <=> s \in prepared
  PROVE  Once(s)'
BY DEF Once, NoneQueued

LEMMA OnceStep == TypeInv /\ OnceInv /\ [Next]_vars => OnceInv'
<1> SUFFICES ASSUME TypeInv, OnceInv, [Next]_vars, events' = {}
             PROVE  ~aborted' /\ \A s \in Streams : Once(s)'
  BY DEF OnceInv
<1> USE ThreadFacts DEF provider, transcoder, router, publisher
<1>g. events' = events => ~aborted /\ \A s \in Streams : Once(s)
  BY DEF OnceInv
<1>c. ASSUME NEW s \in Streams, Create(s) \/ DeleteStream(s) \/ TakeDown(s)
      PROVE  ~aborted' /\ \A r \in Streams : Once(r)'
  <2>f. /\ item' = item /\ pc'[InWorker] = pc[InWorker] /\ prepared' = prepared
        /\ inq' = inq /\ events' = events /\ aborted' = aborted
    BY <1>c, CreatorFrame
  <2>1. ASSUME NEW r \in Streams, r # s PROVE Once(r)'
    BY <1>c, <1>g, <2>1, <2>f, CreatorFrame, OnceKept
  <2>2. CASE Create(s)
    <3>1. /\ pc[Creator(s)] \in {"create", "announce"} /\ pc'[Creator(s)] \in {"announce", "check"}
          /\ pc'[Preparer(s)] = pc[Preparer(s)]
      <4>1. \/ pc[Creator(s)] = "create" /\ Moved(Creator(s), "announce")
            \/ pc[Creator(s)] = "announce" /\ Moved(Creator(s), "check")
        BY <2>2, CreatorMoves DEF Create
      <4> QED
        BY <4>1, Apart
    <3>c. (At(InWorker, s)' <=> At(InWorker, s)) /\ (NoneQueued(s)' <=> NoneQueued(s))
      BY <2>f DEF At, NoneQueued
    <3>2. Once(s)'
      BY <1>g, <2>f, <3>1, <3>c DEF Once, EarlySteps
    <3> QED
      BY <1>g, <2>1, <2>f, <3>2
  <2>3. CASE DeleteStream(s) \/ TakeDown(s)
    <3>1. /\ pc'[Creator(s)] \notin EarlySteps /\ pc[Creator(s)] # "mark"
          /\ pc'[Preparer(s)] # "idle" => pc[Preparer(s)] # "idle"
      BY <2>3, CreatorMoves, JoinMoves, Apart DEF TakeDown, EarlySteps
    <3>2. Once(s)'
      BY <1>g, <2>f, <3>1 DEF Once, At, EarlySteps
    <3> QED
      BY <1>g, <2>1, <2>f, <3>2
  <2> QED
    BY <1>c, <2>2, <2>3
<1>n. ASSUME NEW t \in Notifiers, NotifyInbound(t)
      PROVE  ~aborted' /\ \A r \in Streams : Once(r)'
  <2>f. /\ item' = item /\ inq' = inq /\ events' = events /\ pc[t] # "idle"
        /\ ~Launch(t) => aborted' = aborted
        /\ ~MarkPrepared(t) => prepared' = prepared
    BY <1>n, NotifyFrame
  <2>g. ~aborted /\ \A r \in Streams : Once(r)
    BY <1>g, <2>f
  <2>1. PICK s \in Streams : s = StreamOf(t)
    BY <1>n, NotifyFrame
  <2>2. /\ t = Creator(s) \/ (t = InWorker /\ At(InWorker, s))
        /\ t = Creator(s) => AfterPrepared(t) = "live"
        /\ t = InWorker => AfterPrepared(t) = "send"
    BY <2>f, <2>1, NotifierFacts DEF At
  <2>3. \* The creation and the worker do not meet.
        /\ t = Creator(s) => ~At(InWorker, s)
        /\ t = InWorker => pc[Creator(s)] \notin EarlySteps
    BY <1>n, <2>g, <2>2
    DEF NotifyInbound, CheckPrepared, OnStreamPrepared, Launch, MarkPrepared, Once, EarlySteps
  <2>m. NoneQueued(s)' <=> NoneQueued(s)
    BY <2>f DEF NoneQueued
  <2>4. ASSUME NEW r \in Streams, r # s, r \in prepared' <=> r \in prepared PROVE Once(r)'
    <3>1. pc'[Creator(r)] = pc[Creator(r)] /\ pc'[Preparer(r)] = pc[Preparer(r)]
      BY <1>n, <2>1, <2>2, <2>4, NotifyFrame
    <3>2. CASE t = InWorker
      <4>1. ~At(InWorker, r) /\ ~At(InWorker, r)'
        BY <2>f, <2>2, <2>4, <3>2 DEF At
      <4> QED
        BY <2>f, <2>g, <2>4, <3>1, <4>1, OnceOther
    <3>3. CASE t # InWorker
      BY <1>n, <2>f, <2>g, <2>4, <3>1, <3>3, NotifyFrame, OnceKept
    <3> QED
      BY <3>2, <3>3
  <2>5. \* So the worker, or the creation, of s is the one that goes on.
        ASSUME NEW step, pc'[t] = step, step # "idle",
               pc[t] \in {"check", "prepare", "launch", "mark"},
               step = "live" => t = Creator(s), step = "send" => t = InWorker,
               step \in {"prepare", "launch", "mark", "live", "send"},
               step \in {"prepare", "launch"} => s \notin prepared',
               pc[t] = "mark" => s \in prepared',
               prepared \subseteq prepared',
               pc'[Preparer(s)] # "idle" => pc[Preparer(s)] # "idle" \/ step = "mark"
        PROVE  Once(s)'
    <3>1. CASE t = Creator(s)
      <4>1. pc'[InWorker] = pc[InWorker] /\ ~At(InWorker, s)'
        BY <1>n, <2>f, <2>3, <3>1, NotifyFrame DEF At
      <4> QED
        BY <2>g, <2>m, <2>3, <2>5, <3>1, <4>1 DEF Once, EarlySteps
    <3>2. CASE t = InWorker
      <4>1. pc'[Creator(s)] = pc[Creator(s)] /\ pc[Creator(s)] \notin EarlySteps /\ At(InWorker, s)'
        BY <1>n, <2>f, <2>2, <2>3, <2>5, <3>2, NotifyFrame DEF At
      <4> QED
        BY <2>g, <2>5, <3>2, <4>1 DEF Once, EarlySteps
    <3> QED
      BY <2>2, <3>1, <3>2
  <2>6. pc[t] \in {"prepare", "launch"} => s \notin prepared
    BY <2>g, <2>2 DEF Once
  <2>7. CASE CheckPrepared(t)
    <3>1. /\ pc[t] = "check"
          /\ \/ StreamOf(t) \notin prepared /\ pc'[t] = "prepare"
             \/ pc'[t] = AfterPrepared(t)
      BY <2>7, NotifyMoves DEF Moved
    <3>2. prepared' = prepared /\ aborted' = aborted /\ pc'[Preparer(s)] = pc[Preparer(s)]
      BY <1>n, <2>7, <3>1, NotifyFrame DEF Launch, MarkPrepared
    <3>3. Once(s)'
      BY <2>1, <2>2, <2>5, <3>1, <3>2
    <3> QED
      BY <2>g, <2>4, <3>2, <3>3
  <2>8. CASE OnStreamPrepared(t)
    <3>1. pc[t] = "prepare" /\ pc'[t] \in {"launch", "mark"}
      BY <2>8, NotifyMoves DEF Moved
    <3>2. prepared' = prepared /\ aborted' = aborted /\ pc'[Preparer(s)] = pc[Preparer(s)]
      BY <1>n, <2>8, <3>1, NotifyFrame DEF Launch, MarkPrepared
    <3>3. Once(s)'
      BY <2>5, <2>6, <3>1, <3>2
    <3> QED
      BY <2>g, <2>4, <3>2, <3>3
  <2>9. CASE Launch(t)
    <3>1. pc[t] = "launch" /\ pc'[t] = "mark"
      BY <2>1, <2>9, LaunchMoves
    <3>2. pc[Preparer(s)] = "idle"
      BY <2>g, <2>2, <2>3, <2>6, <3>1 DEF Once, EarlySteps
    <3>3. ~aborted' /\ prepared' = prepared
      BY <2>1, <2>9, <3>2 DEF Launch
    <3>4. Once(s)'
      BY <2>5, <3>1, <3>3
    <3> QED
      BY <2>g, <2>4, <3>3, <3>4
  <2>10. CASE MarkPrepared(t)
    <3>1. /\ pc[t] = "mark" /\ pc'[t] = AfterPrepared(t) /\ prepared' = prepared \cup {s}
      BY <2>1, <2>10, NotifyMoves DEF MarkPrepared, Moved
    <3>2. aborted' = aborted /\ pc'[Preparer(s)] = pc[Preparer(s)]
      BY <1>n, <2>10, <3>1, NotifyFrame DEF Launch
    <3>3. Once(s)'
      BY <2>2, <2>5, <3>1, <3>2
    <3> QED
      BY <2>g, <2>4, <3>1, <3>2, <3>3
  <2> QED
    BY <1>n, <2>7, <2>8, <2>9, <2>10 DEF NotifyInbound
<1>p. ASSUME NEW s \in Streams, PrepareAsync(s) PROVE ~aborted' /\ \A r \in Streams : Once(r)'
  BY <1>p, <1>g, PreparerFrame, OnceKept
<1>s. ASSUME NEW s \in Streams, SendPacket(s) PROVE ~aborted' /\ \A r \in Streams : Once(r)'
  <2>1. /\ pc[Creator(s)] = "live" /\ pc' = pc /\ item' = item /\ prepared' = prepared
        /\ events' = events /\ aborted' = aborted
        /\ inq' = Append(inq, <<s, sent[s] + 1>>)
    BY <1>s DEF SendPacket, Enqueue, Event, TypeInv, Data
  <2>2. /\ inq \in Seq(Items) /\ <<s, sent[s] + 1>> \in Items
    BY <1>s, RouteAssumption DEF SendPacket, TypeInv, Data, Items
  <2>3. \A i \in 1..Len(inq') : (i \in 1..Len(inq) /\ inq'[i] = inq[i]) \/ inq'[i] = <<s, sent[s] + 1>>
    BY <2>1, <2>2, AppendProperties
  <2>4. ASSUME NEW r \in Streams PROVE Once(r)'
    BY <1>g, <2>1, <2>3 DEF Once, At, EarlySteps, NoneQueued
  <2> QED
    BY <1>g, <2>1, <2>4
<1>e. ASSUME NEW s \in Streams, SendEvent(s) PROVE FALSE
  BY <1>e DEF SendEvent
<1>i. ASSUME PopInbound PROVE ~aborted' /\ \A r \in Streams : Once(r)'
  <2>1. /\ prepared' = prepared /\ events' = events /\ aborted' = aborted /\ inq' = Tail(inq)
        /\ pc[InWorker] = "idle" /\ inq # <<>> /\ inq \in Seq(Items)
        /\ \/ item'[InWorker] = Head(inq) /\ pc'[InWorker] = "check"
           \/ pc'[InWorker] = "idle"
    BY <1>i, InboundMoves, Apart DEF PopInbound, TypeInv, Data, Moved
  <2>2. /\ 1 \in 1..Len(inq) /\ Head(inq) = inq[1]
        /\ \A i \in 1..Len(inq') : i + 1 \in 1..Len(inq) /\ inq'[i] = inq[i + 1]
    BY <2>1, HeadTailProperties
  <2>3. \A r \in Streams : pc'[Creator(r)] = pc[Creator(r)] /\ pc'[Preparer(r)] = pc[Preparer(r)]
    BY <1>i, InboundMoves, Apart
  <2>4. ASSUME NEW r \in Streams PROVE Once(r)'
    BY <1>g, <2>1, <2>2, <2>3 DEF Once, At, EarlySteps, NoneQueued
  <2> QED
    BY <1>g, <2>1, <2>4
<1>j. ASSUME Push \/ PushPacket \/ BufferMediaPacketUntilReadyToPlay
      PROVE  ~aborted' /\ \A r \in Streams : Once(r)'
  <2>1. /\ prepared' = prepared /\ events' = events /\ aborted' = aborted /\ inq' = inq
        /\ pc[InWorker] # "mark" /\ pc[InWorker] # "idle"
    BY <1>j DEF Push, PushPacket, BufferMediaPacketUntilReadyToPlay
  <2>2. /\ pc'[InWorker] \in {"flush", "buffer", "idle"}
        /\ pc'[InWorker] = "idle" \/ item'[InWorker] = item[InWorker]
        /\ \A r \in Streams : pc'[Creator(r)] = pc[Creator(r)] /\ pc'[Preparer(r)] = pc[Preparer(r)]
    BY <1>j, InboundMoves, Apart
  <2> QED
    BY <1>g, <2>1, <2>2 DEF Once, At, EarlySteps, NoneQueued
<1>u. ASSUME OutboundWorkerThread PROVE ~aborted' /\ \A r \in Streams : Once(r)'
  <2>1. /\ prepared' = prepared /\ events' = events /\ aborted' = aborted /\ inq' = inq
    BY <1>u DEF OutboundWorkerThread, PopOutbound, OnSendFrame, NotifyOutbound,
                CheckOutPrepared, FindStream, StartStream, MarkOutPrepared
  <2> QED
    BY <1>u, <1>g, <2>1, OutboundFrame, OnceKept
<1>v. SendBufferedPackets \/ PopStreamData \/ UNCHANGED vars =>
        ~aborted' /\ \A r \in Streams : Once(r)'
  BY <1>g, OnceKept DEF SendBufferedPackets, PopStreamData, vars
<1>z. InWorker \in Notifiers /\ \A s \in Streams : Creator(s) \in Notifiers
  BY DEF Notifiers
<1> QED
  BY <1>c, <1>n, <1>p, <1>s, <1>e, <1>i, <1>j, <1>u, <1>v, <1>z DEF Next, InboundWorkerThread

\* As long as no event is sent, no stream is prepared twice, and the program goes on.
THEOREM PreparedOnce == Spec => []OnePreparation
<1>1. Init => OnceInv
  <2> SUFFICES ASSUME Init PROVE OnceInv
    OBVIOUS
  <2>1. \A s \in Streams : pc[Creator(s)] = "create" /\ pc[Preparer(s)] = "idle"
    BY ThreadFacts DEF Init
  <2>2. pc[InWorker] = "idle" /\ inq = <<>> /\ ~aborted
    BY ThreadFacts DEF Init
  <2> QED
    BY <2>1, <2>2 DEF OnceInv, Once, At, NoneQueued
<1>2. TypeInv /\ OnceInv /\ [Next]_vars => (TypeInv /\ OnceInv)'
  BY TypeStep, OnceStep
<1> QED
  BY <1>1, <1>2, TypeInit, OnceParts, PTL DEF Spec

-----------------------------------------------------------------------------
(* The start of a stream *)

\* The preparation of s is over.
Past(s) == pc[Preparer(s)] = "ended" \/ pc[Creator(s)] \in GoneSteps

\* No packet of s has come to the outbound side.
NoneOut(s) ==
  /\ ~At(OutWorker, s)
  /\ \A i \in 1..Len(outq) : outq[i][1] # s

\* The inbound worker sends the packets of s on.
Flushing(s) == pc[InWorker] = "flush" /\ At(InWorker, s)

StartingSteps == {"find", "start", "flag"}

\* The preparation of s and the outbound worker start s one after the other, and the one
\* that starts it marks it before the other one looks.
Start(s) ==
  /\ ~Past(s) => NoneOut(s) /\ ~Flushing(s) /\ state[s] # "STARTED"
  /\ pc[Preparer(s)] \in StartingSteps => s \notin outPrepared
  /\ pc[OutWorker] \in StartingSteps /\ At(OutWorker, s) => s \notin outPrepared
  /\ pub[s] = "STARTED" => \/ s \in outPrepared \/ pc[Preparer(s)] = "flag"
                           \/ pc[OutWorker] = "flag" /\ At(OutWorker, s)
  /\ pc[Preparer(s)] \in {"idle", "webhook", "output", "serve"} /\ ~Past(s) => pub[s] = "NONE"

\* The packets that wait for the preparation of s are packets of s.
Sorted(s) == \A i \in 1..Len(buffer[s]) : buffer[s][i][1] = s

StartInv == \A s \in Streams : Start(s) /\ Sorted(s)

StartedOnce(s) == pub[s] = "STARTED" => pub'[s] \in {"STARTED", "STOPPED"}

LEMMA PastStep ==
  ASSUME TypeInv, [Next]_vars, NEW r \in Streams, Past(r)
  PROVE  Past(r)'
<1> USE ThreadFacts
<1>c. ASSUME NEW s \in Streams, Create(s) \/ DeleteStream(s) \/ TakeDown(s) PROVE Past(r)'
  <2>1. CASE r # s
    BY <1>c, <2>1, CreatorFrame DEF Past
  <2>2. CASE r = s /\ JoinPrepareThread(s)
    BY <2>2, JoinMoves DEF Past, GoneSteps
  <2>3. CASE r = s /\ (Create(s) \/ DeleteStream(s) \/ OnStreamDeleted(s))
    BY <2>3, CreatorMoves, Apart DEF Create, Past, GoneSteps
  <2>4. CASE /\ r = s
             /\ \/ StopServing(s) \/ DeleteOutboundStream(s) \/ EraseTranscoderStream(s)
                \/ DeleteInboundStream(s)
    BY <2>4, CreatorMoves DEF Moved, Past, GoneSteps
  <2> QED
    BY <1>c, <2>1, <2>2, <2>3, <2>4 DEF TakeDown
<1>n. ASSUME NEW t \in Notifiers, NotifyInbound(t) PROVE Past(r)'
  <2>1. t = Creator(r) => pc[Creator(r)] \notin GoneSteps
    BY <1>n
    DEF NotifyInbound, CheckPrepared, OnStreamPrepared, Launch, MarkPrepared, GoneSteps
  <2>2. pc[Preparer(r)] = "ended" => pc'[Preparer(r)] = "ended"
    BY <1>n, NotifyFrame, LaunchMoves
  <2> QED
    BY <1>n, <2>1, <2>2, NotifyFrame DEF Past
<1>p. ASSUME NEW s \in Streams, PrepareAsync(s) PROVE Past(r)'
  BY <1>p, PreparerFrame DEF Past
<1>i. ASSUME PopInbound \/ Push \/ PushPacket \/ BufferMediaPacketUntilReadyToPlay
      PROVE  Past(r)'
  BY <1>i, InboundMoves, Apart DEF Past
<1>u. ASSUME OutboundWorkerThread PROVE Past(r)'
  BY <1>u, OutboundFrame DEF Past
<1>v. ASSUME NEW s \in Streams, SendPacket(s) \/ SendEvent(s) PROVE Past(r)'
  BY <1>v DEF SendPacket, SendEvent, Past
<1>w. SendBufferedPackets \/ PopStreamData \/ UNCHANGED vars => Past(r)'
  BY DEF SendBufferedPackets, PopStreamData, vars, Past
<1>z. InWorker \in Notifiers /\ \A s \in Streams : Creator(s) \in Notifiers
  BY DEF Notifiers
<1> QED
  BY <1>c, <1>n, <1>p, <1>i, <1>u, <1>v, <1>w, <1>z DEF Next, InboundWorkerThread

LEMMA StartKept ==
  ASSUME NEW s \in Streams, Start(s), Past(s) => Past(s)',
         ~Past(s) /\ NoneOut(s) => NoneOut(s)', ~Past(s) /\ Flushing(s)' => Flushing(s),
         state'[s] = "STARTED" => state[s] = "STARTED",
         pc'[Preparer(s)] = pc[Preparer(s)],
         pc'[OutWorker] = pc[OutWorker], item'[OutWorker] = item[OutWorker],
         s \in outPrepared' <=> s \in outPrepared, pub'[s] = pub[s]
  PROVE  Start(s)' /\ StartedOnce(s)
<1>1. At(OutWorker, s)' <=> At(OutWorker, s)
  BY DEF At
<1> QED
  BY <1>1 DEF Start, StartedOnce

\* The preparation and the outbound worker do not meet at s.
LEMMA Alone ==
  ASSUME GoneInv, StartInv, NEW s \in Streams
  PROVE  /\ pc[Preparer(s)] \notin {"idle", "ended"} => ~Past(s) /\ NoneOut(s) /\ ~At(OutWorker, s)
         /\ At(OutWorker, s) => Past(s) /\ pc[Preparer(s)] \in {"idle", "ended"}
<1>1. Gone(s) /\ Start(s)
  BY DEF GoneInv, StartInv
<1> QED
  BY <1>1 DEF Gone, Start, Past, NoneOut

LEMMA CreatorStarts ==
  ASSUME TypeInv, GoneInv, StartInv, [Next]_vars, NEW r \in Streams, NEW s \in Streams,
         Create(s) \/ DeleteStream(s) \/ TakeDown(s)
  PROVE  Start(r)' /\ StartedOnce(r)
<1> USE ThreadFacts DEF provider, transcoder, router, publisher
<1>g. Start(r) /\ (Past(r) => Past(r)')
  BY PastStep DEF StartInv
<1>f. /\ item' = item /\ pc'[InWorker] = pc[InWorker] /\ pc'[OutWorker] = pc[OutWorker]
      /\ outPrepared' = outPrepared /\ outq' = outq
  BY CreatorFrame
<1>n. (NoneOut(r) => NoneOut(r)') /\ (Flushing(r)' => Flushing(r))
  BY <1>f DEF NoneOut, Flushing, At
<1>1. CASE r # s
  BY <1>g, <1>f, <1>n, <1>1, CreatorFrame, StartKept
<1>2. CASE r = s /\ JoinPrepareThread(s)
  <2>1. /\ pc'[Preparer(s)] = "idle" /\ pc[Preparer(s)] \in {"idle", "ended"}
        /\ pub' = pub /\ Past(s)'
    BY <1>2, JoinMoves DEF JoinPrepareThread, Past, GoneSteps
  <2>2. At(OutWorker, s)' <=> At(OutWorker, s)
    BY <1>f DEF At
  <2>3. Start(s) /\ pub'[s] = pub[s] /\ (s \in outPrepared' <=> s \in outPrepared)
    BY <1>g, <1>f, <1>2, <2>1
  <2>4. \/ s \in outPrepared'
        \/ pc'[OutWorker] = "flag" /\ At(OutWorker, s)'
        \/ pub'[s] # "STARTED"
    BY <1>f, <2>1, <2>2, <2>3 DEF Start
  <2>5. pc'[OutWorker] \in StartingSteps /\ At(OutWorker, s)' => s \notin outPrepared'
    BY <1>f, <2>2, <2>3 DEF Start
  <2>6. Start(s)'
    BY <2>1, <2>4, <2>5 DEF Start, StartingSteps
  <2> QED
    BY <1>2, <2>3, <2>6 DEF StartedOnce
<1>3. CASE r = s /\ StopServing(s)
  <2>1. /\ pc[Creator(s)] = "unserve" /\ pc'[Creator(s)] = "unlist"
        /\ pc'[Preparer(s)] = pc[Preparer(s)]
    BY <1>3, CreatorMoves, Apart
  <2>p. pub'[s] \in {pub[s], "STOPPED"}
    BY <1>3 DEF StopServing, TypeInv, Data
  <2>2. At(OutWorker, s)' <=> At(OutWorker, s)
    BY <1>f DEF At
  <2>3. Past(s)'
    BY <2>1 DEF Past, GoneSteps
  <2> QED
    BY <1>g, <1>f, <1>3, <2>1, <2>p, <2>2, <2>3 DEF Start, StartedOnce
<1>4. CASE r = s /\ ~JoinPrepareThread(s) /\ ~StopServing(s)
  <2>1. pub' = pub /\ (state'[s] = "STARTED" => state[s] = "STARTED")
    BY <1>4 DEF Create, TakeDown, CreateInboundStream, OnStreamCreated, DeleteStream,
                OnStreamDeleted, DeleteOutboundStream, EraseTranscoderStream,
                DeleteInboundStream, TypeInv, Data
  <2>2. pc'[Preparer(s)] = pc[Preparer(s)]
    <3>1. \E step \in CreatorSteps : Moved(Creator(s), step)
      BY <1>4, CreatorMoves DEF Create, TakeDown, CreatorSteps
    <3> QED
      BY <3>1, Apart
  <2> QED
    BY <1>g, <1>f, <1>n, <1>4, <2>1, <2>2, StartKept
<1> QED
  BY <1>1, <1>2, <1>3, <1>4

LEMMA NotifierStarts ==
  ASSUME TypeInv, GoneInv, StartInv, [Next]_vars, NEW r \in Streams, NEW t \in Notifiers,
         NotifyInbound(t)
  PROVE  Start(r)' /\ StartedOnce(r)
<1> USE ThreadFacts
<1>g. Start(r) /\ (Past(r) => Past(r)')
  BY PastStep DEF StartInv
<1>f. /\ item' = item /\ pc'[OutWorker] = pc[OutWorker] /\ pub' = pub /\ state' = state
      /\ outPrepared' = outPrepared /\ outq' = outq /\ pc[t] # "idle"
      /\ t # InWorker => pc'[InWorker] = pc[InWorker]
  BY NotifyFrame
<1>1. pc'[InWorker] = "flush" => pc[InWorker] = "flush"
  <2>1. CASE t = InWorker
    <3>1. AfterPrepared(t) = "send"
      BY <1>f, <2>1, NotifierFacts
    <3>2. StreamOf(t) \in Streams
      BY NotifyFrame
    <3> QED
      BY <2>1, <3>1, <3>2, NotifyMoves, LaunchMoves DEF NotifyInbound, Moved
  <2> QED
    BY <1>f, <2>1
<1>n. (NoneOut(r) => NoneOut(r)') /\ (Flushing(r)' => Flushing(r))
  BY <1>f, <1>1 DEF NoneOut, Flushing, At
<1>2. CASE pc'[Preparer(r)] = pc[Preparer(r)]
  BY <1>g, <1>f, <1>n, <1>2, StartKept
<1>3. CASE pc'[Preparer(r)] # pc[Preparer(r)]
  <2>1. pc[Preparer(r)] = "idle" /\ pc'[Preparer(r)] = "webhook"
    <3>1. Launch(t) /\ StreamOf(t) = r
      BY <1>3, NotifyFrame
    <3> QED
      BY <1>3, <3>1, LaunchMoves
  <2>2. At(OutWorker, r)' <=> At(OutWorker, r)
    BY <1>f DEF At
  <2> QED
    BY <1>g, <1>f, <1>n, <2>1, <2>2 DEF Start, StartedOnce, StartingSteps
<1> QED
  BY <1>2, <1>3

LEMMA PreparerStarts ==
  ASSUME TypeInv, GoneInv, StartInv, [Next]_vars, NEW r \in Streams, NEW s \in Streams,
         PrepareAsync(s)
  PROVE  Start(r)' /\ StartedOnce(r)
<1> USE ThreadFacts DEF provider, transcoder, router, publisher
<1>g. Start(r) /\ (Past(r) => Past(r)')
  BY PastStep DEF StartInv
<1>f. /\ item' = item /\ pc'[OutWorker] = pc[OutWorker] /\ pc'[InWorker] = pc[InWorker]
      /\ outq' = outq
  BY PreparerFrame
<1>n. (NoneOut(r)' <=> NoneOut(r)) /\ (Flushing(r)' <=> Flushing(r))
  BY <1>f DEF NoneOut, Flushing, At
<1>1. CASE r # s
  BY <1>g, <1>f, <1>n, <1>1, PreparerFrame, StartKept
<1>2. CASE r = s
  <2>g. Start(s)
    BY <1>g, <1>2
  <2>a. ~Past(s) /\ NoneOut(s) /\ ~At(OutWorker, s)
    BY PreparerFrame, Alone
  <2>b. NoneOut(s)' /\ ~Flushing(s)' /\ ~At(OutWorker, s)'
    BY <1>f, <1>n, <1>2, <2>g, <2>a DEF Start, At
  <2>t. /\ StreamOf(Preparer(s)) = s /\ Preparer(s) \in Starters /\ state[s] # "STARTED"
        /\ pub \in [Streams -> {"NONE", "CREATED", "STARTED", "ERROR", "STOPPED"}]
    BY <2>g, <2>a, StreamFacts DEF Starters, Start, TypeInv, Data
  <2>d. AfterPrepared(Preparer(s)) = "decoders"
    BY DEF AfterPrepared
  <2>s. ASSUME state'[s] # "STARTED" \/ pc'[Preparer(s)] = "ended",
               pc'[Preparer(s)] \in StartingSteps => s \notin outPrepared',
               pub'[s] = "STARTED" => s \in outPrepared' \/ pc'[Preparer(s)] = "flag",
               \/ pc'[Preparer(s)] \in {"output", "serve"} /\ pub'[s] = "NONE"
               \/ pc'[Preparer(s)] \in {"notify", "find", "start", "flag", "decoders", "ended"}
        PROVE  Start(s)'
    BY <2>b, <2>s DEF Start, Past
  <2>1. CASE RequestWebhook(s) \/ CreateOutboundStream(s)
    <3>1. pc[Preparer(s)] \in {"webhook", "output"} /\ pub' = pub
      BY <2>1 DEF RequestWebhook, CreateOutboundStream
    <3>2. /\ pc'[Preparer(s)] \in {"output", "serve", "ended"}
          /\ pc'[Preparer(s)] # "ended" => state' = state
      BY <2>1, PrepareMoves, Apart
    <3>3. pub[s] = "NONE"
      BY <2>g, <2>a, <3>1 DEF Start
    <3> QED
      BY <1>2, <2>s, <2>t, <3>1, <3>2, <3>3 DEF StartedOnce, StartingSteps
  <2>2. CASE Serve(s)
    <3>1. pc[Preparer(s)] = "serve" /\ state' = state /\ pub'[s] \in {pub[s], "CREATED"}
      BY <2>t, <2>2 DEF Serve
    <3>3. pc'[Preparer(s)] = "notify"
      BY <2>2, PrepareMoves DEF Moved
    <3>2. pub[s] = "NONE"
      BY <2>g, <2>a, <3>1 DEF Start
    <3> QED
      BY <1>2, <2>s, <2>t, <3>1, <3>2, <3>3 DEF StartedOnce, StartingSteps
  <2>3. CASE CheckOutPrepared(Preparer(s))
    <3>1. /\ pc[Preparer(s)] = "notify" /\ pub' = pub /\ state' = state
          /\ outPrepared' = outPrepared
      BY <2>3 DEF CheckOutPrepared
    <3>2. \/ pc'[Preparer(s)] = "find" /\ s \notin outPrepared
          \/ pc'[Preparer(s)] = "decoders"
      BY <2>t, <2>d, <2>3, StartMoves DEF Moved
    <3>3. pub[s] = "STARTED" => s \in outPrepared
      BY <2>g, <2>a, <3>1 DEF Start
    <3> QED
      BY <1>2, <2>s, <2>t, <3>1, <3>2, <3>3 DEF StartedOnce, StartingSteps
  <2>4. CASE FindStream(Preparer(s))
    <3>1. /\ pc[Preparer(s)] = "find" /\ pub' = pub /\ state' = state
          /\ outPrepared' = outPrepared
      BY <2>4 DEF FindStream
    <3>2. pc'[Preparer(s)] \in {"start", "flag"}
      BY <2>t, <2>4, StartMoves DEF Moved
    <3>3. (pub[s] = "STARTED" => s \in outPrepared) /\ s \notin outPrepared
      BY <2>g, <2>a, <3>1 DEF Start, StartingSteps
    <3> QED
      BY <1>2, <2>s, <2>t, <3>1, <3>2, <3>3 DEF StartedOnce, StartingSteps
  <2>5. CASE StartStream(Preparer(s))
    <3>1. /\ pc[Preparer(s)] = "start" /\ state' = state /\ outPrepared' = outPrepared
      BY <2>5 DEF StartStream
    <3>2. pc'[Preparer(s)] = "flag"
      BY <2>t, <2>5, StartMoves DEF Moved
    <3>3. pub[s] # "STARTED" /\ s \notin outPrepared
      BY <2>g, <2>a, <3>1 DEF Start, StartingSteps
    <3> QED
      BY <1>2, <2>s, <2>t, <3>1, <3>2, <3>3 DEF StartedOnce, StartingSteps
  <2>6. CASE MarkOutPrepared(Preparer(s))
    <3>1. /\ pc[Preparer(s)] = "flag" /\ state' = state /\ pub' = pub
          /\ outPrepared' = outPrepared \cup {s}
      BY <2>t, <2>6 DEF MarkOutPrepared
    <3>2. pc'[Preparer(s)] = "decoders"
      BY <2>t, <2>d, <2>6, StartMoves DEF Moved
    <3> QED
      BY <1>2, <2>s, <2>t, <3>1, <3>2 DEF StartedOnce, StartingSteps
  <2>7. CASE PrepareInternal(s)
    <3>1. pc[Preparer(s)] = "decoders" /\ pub' = pub /\ outPrepared' = outPrepared
      BY <2>7 DEF PrepareInternal
    <3>2. pc'[Preparer(s)] = "ended"
      BY <2>7, PrepareMoves, Apart
    <3>3. pub[s] = "STARTED" => s \in outPrepared
      BY <2>g, <2>a, <3>1 DEF Start
    <3> QED
      BY <1>2, <2>s, <2>t, <3>1, <3>2, <3>3 DEF StartedOnce, StartingSteps
  <2> QED
    BY <2>1, <2>2, <2>3, <2>4, <2>5, <2>6, <2>7 DEF PrepareAsync, NotifyOutbound
<1> QED
  BY <1>1, <1>2

LEMMA OutboundStarts ==
  ASSUME TypeInv, GoneInv, StartInv, [Next]_vars, NEW r \in Streams, OutboundWorkerThread
  PROVE  Start(r)' /\ StartedOnce(r)
<1> USE ThreadFacts DEF provider, transcoder, router, publisher
<1>g. Start(r) /\ (Past(r) => Past(r)')
  BY PastStep DEF StartInv
<1>f. /\ pc'[InWorker] = pc[InWorker] /\ item'[InWorker] = item[InWorker]
      /\ pc'[Preparer(r)] = pc[Preparer(r)]
  BY OutboundFrame
<1>n. Flushing(r)' <=> Flushing(r)
  BY <1>f DEF Flushing, At
<1>1. state' = state
  BY DEF OutboundWorkerThread, PopOutbound, OnSendFrame, NotifyOutbound,
         CheckOutPrepared, FindStream, StartStream, MarkOutPrepared
<1>2. CASE PopOutbound
  <2>1. /\ outq' = Tail(outq) /\ outq # <<>> /\ outq \in Seq(Items) /\ pc[OutWorker] = "idle"
        /\ outPrepared' = outPrepared /\ pub' = pub
    BY <1>2 DEF PopOutbound, TypeInv, Data
  <2>2. /\ 1 \in 1..Len(outq) /\ Head(outq) = outq[1]
        /\ \A i \in 1..Len(outq') : i + 1 \in 1..Len(outq) /\ outq'[i] = outq[i + 1]
    BY <2>1, HeadTailProperties
  <2>3. \/ pc' = pc /\ item' = item
        \/ pc'[OutWorker] = "notify" /\ item'[OutWorker][1] = outq[1][1]
    BY <1>2, <2>2, OutboundMoves, Apart
  <2>4. NoneOut(r) => NoneOut(r)'
    BY <2>1, <2>2, <2>3 DEF NoneOut, At
  <2>5. pc'[OutWorker] \notin StartingSteps /\ pc[OutWorker] \notin StartingSteps
    BY <2>1, <2>3 DEF StartingSteps
  <2> QED
    BY <1>g, <1>f, <1>n, <1>1, <2>1, <2>4, <2>5 DEF Start, StartedOnce, StartingSteps
<1>3. CASE OnSendFrame
  <2>1. /\ outq' = outq /\ outPrepared' = outPrepared /\ pub' = pub
        /\ pc[OutWorker] = "send" /\ pc'[OutWorker] = "idle"
    BY <1>3, OutboundMoves, Apart DEF OnSendFrame
  <2>2. NoneOut(r) => NoneOut(r)'
    BY <2>1 DEF NoneOut, At
  <2> QED
    BY <1>g, <1>f, <1>n, <1>1, <2>1, <2>2 DEF Start, StartedOnce, StartingSteps
<1>4. CASE NotifyOutbound(OutWorker)
  <2>1. item' = item /\ outq' = outq /\ pc[OutWorker] \in {"notify", "find", "start", "flag"}
    BY <1>4 DEF NotifyOutbound, CheckOutPrepared, FindStream, StartStream, MarkOutPrepared
  <2>2. /\ OutWorker \in Starters /\ AfterPrepared(OutWorker) = "send"
        /\ StreamOf(OutWorker) \in Streams /\ At(OutWorker, StreamOf(OutWorker))
    BY <2>1, StarterFacts DEF Starters, At
  <2>s. PICK s \in Streams : s = StreamOf(OutWorker)
    BY <2>2
  <2>3. pc'[OutWorker] \in {"find", "start", "flag", "send"}
    BY <1>4, <2>2, StartMoves, Apart DEF NotifyOutbound
  <2>4. (At(OutWorker, r)' <=> At(OutWorker, r)) /\ (At(OutWorker, r) <=> r = s)
    BY <2>1, <2>2, <2>3, <2>s DEF At
  <2>5. NoneOut(r)' <=> NoneOut(r)
    BY <2>1, <2>4 DEF NoneOut
  <2>6. CASE r # s
    <3>1. pub'[r] = pub[r] /\ (r \in outPrepared' <=> r \in outPrepared)
      BY <1>4, <2>s, <2>6
      DEF NotifyOutbound, CheckOutPrepared, FindStream, StartStream, MarkOutPrepared,
          TypeInv, Data
    <3> QED
      BY <1>g, <1>f, <1>n, <1>1, <2>4, <2>5, <2>6, <3>1 DEF Start, StartedOnce
  <2>7. CASE r = s
    <3>a. Past(s) /\ pc[Preparer(s)] \in {"idle", "ended"}
      BY <2>4, <2>7, Alone
    <3>b. Past(s)' /\ pc'[Preparer(s)] = pc[Preparer(s)]
      BY <1>g, <1>f, <2>7, <3>a
    <3>g. Start(s) /\ At(OutWorker, s)' /\ At(OutWorker, s)
      BY <1>g, <2>4, <2>7
    <3>t. pub \in [Streams -> {"NONE", "CREATED", "STARTED", "ERROR", "STOPPED"}]
      BY DEF TypeInv, Data
    <3>s. ASSUME pc'[OutWorker] \in StartingSteps => s \notin outPrepared',
                 pub'[s] = "STARTED" => s \in outPrepared' \/ pc'[OutWorker] = "flag"
          PROVE  Start(s)'
      BY <3>a, <3>b, <3>g, <3>s DEF Start, StartingSteps
    <3>1. CASE CheckOutPrepared(OutWorker)
      <4>1. pc[OutWorker] = "notify" /\ pub' = pub /\ outPrepared' = outPrepared
        BY <3>1 DEF CheckOutPrepared
      <4>2. \/ pc'[OutWorker] = "find" /\ s \notin outPrepared
            \/ pc'[OutWorker] = "send"
        BY <2>2, <2>s, <3>1, StartMoves, Apart
      <4>3. pub[s] = "STARTED" => s \in outPrepared
        BY <3>a, <3>g, <4>1 DEF Start
      <4> QED
        BY <2>7, <3>s, <4>1, <4>2, <4>3 DEF StartedOnce, StartingSteps
    <3>2. CASE FindStream(OutWorker)
      <4>1. pc[OutWorker] = "find" /\ pub' = pub /\ outPrepared' = outPrepared
        BY <3>2 DEF FindStream
      <4>2. (pub[s] = "STARTED" => s \in outPrepared) /\ s \notin outPrepared
        BY <3>a, <3>g, <4>1 DEF Start, StartingSteps
      <4> QED
        BY <2>7, <3>s, <4>1, <4>2 DEF StartedOnce
    <3>3. CASE StartStream(OutWorker)
      <4>1. pc[OutWorker] = "start" /\ outPrepared' = outPrepared
        BY <3>3 DEF StartStream
      <4>2. pc'[OutWorker] = "flag"
        BY <2>2, <3>3, StartMoves, Apart
      <4>3. pub[s] # "STARTED" /\ s \notin outPrepared
        BY <3>a, <3>g, <4>1 DEF Start, StartingSteps
      <4> QED
        BY <2>7, <3>s, <4>1, <4>2, <4>3 DEF StartedOnce
    <3>4. CASE MarkOutPrepared(OutWorker)
      <4>1. pub' = pub /\ s \in outPrepared'
        BY <2>s, <3>4 DEF MarkOutPrepared
      <4>2. pc'[OutWorker] = "send"
        BY <2>2, <3>4, StartMoves, Apart
      <4> QED
        BY <2>7, <3>s, <4>1, <4>2 DEF StartedOnce, StartingSteps
    <3> QED
      BY <1>4, <3>1, <3>2, <3>3, <3>4 DEF NotifyOutbound
  <2> QED
    BY <2>6, <2>7
<1> QED
  BY <1>2, <1>3, <1>4 DEF OutboundWorkerThread

LEMMA InboundStarts ==
  ASSUME TypeInv, GoneInv, StartInv, [Next]_vars, NEW r \in Streams,
         PopInbound \/ Push \/ SendBufferedPackets \/ PushPacket
           \/ BufferMediaPacketUntilReadyToPlay
  PROVE  Start(r)' /\ StartedOnce(r)
<1> USE ThreadFacts DEF provider, transcoder, router, publisher
<1>g. Start(r) /\ (Past(r) => Past(r)')
  BY PastStep DEF StartInv
<1>f. state' = state /\ outPrepared' = outPrepared /\ pub' = pub
  BY DEF PopInbound, Push, SendBufferedPackets, PushPacket, BufferMediaPacketUntilReadyToPlay
<1>h. /\ pc'[OutWorker] = pc[OutWorker] /\ item'[OutWorker] = item[OutWorker]
      /\ pc'[Preparer(r)] = pc[Preparer(r)]
  <2>1. CASE SendBufferedPackets
    BY <2>1 DEF SendBufferedPackets
  <2> QED
    BY <2>1, InboundMoves, Apart
<1>a. At(OutWorker, r)' <=> At(OutWorker, r)
  BY <1>h DEF At
<1>1. CASE PopInbound \/ BufferMediaPacketUntilReadyToPlay
  <2>1. outq' = outq /\ pc'[InWorker] # "flush"
    BY <1>1, InboundMoves, Apart DEF PopInbound, BufferMediaPacketUntilReadyToPlay
  <2>2. (NoneOut(r) => NoneOut(r)') /\ (Flushing(r)' => Flushing(r))
    BY <1>a, <2>1 DEF NoneOut, Flushing
  <2> QED
    BY <1>g, <1>f, <1>h, <2>2, StartKept
<1>2. CASE Push
  <2>1. outq' = outq
    BY <1>2 DEF Push
  <2>2. NoneOut(r) => NoneOut(r)'
    BY <1>a, <2>1 DEF NoneOut
  <2>3. pc'[InWorker] = "flush" =>
          item' = item /\ state[StreamOf(InWorker)] = "STARTED" /\ pc[InWorker] = "send"
    BY <1>2, InboundMoves, Apart
  <2>4. ~Past(r) => ~Flushing(r)'
    <3>1. ASSUME Flushing(r)' PROVE state[r] = "STARTED"
      <4>1. /\ state[StreamOf(InWorker)] = "STARTED" /\ pc[InWorker] = "send"
            /\ item[InWorker][1] = r
        BY <2>3, <3>1 DEF Flushing, At
      <4> QED
        BY <4>1, StreamFacts
    <3> QED
      BY <1>g, <3>1 DEF Start
  <2> QED
    BY <1>g, <1>f, <1>h, <2>2, <2>4, StartKept
<1>3. CASE SendBufferedPackets \/ PushPacket
  <2>1. /\ pc[InWorker] = "flush" /\ item[InWorker] \in Items
        /\ StreamOf(InWorker) \in Streams /\ StreamOf(InWorker) = item[InWorker][1]
    BY <1>3, StreamFacts DEF SendBufferedPackets, PushPacket
  <2>2. PICK s \in Streams : s = StreamOf(InWorker)
    BY <2>1
  <2>3. At(InWorker, s) /\ Flushing(s) /\ Past(s)
    <3>1. Start(s)
      BY DEF StartInv
    <3> QED
      BY <2>1, <2>2, <3>1 DEF Flushing, At, Start
  <2>4. \E i \in Items : i[1] = s /\ ProcessPacket(i)
    <3>1. CASE PushPacket
      BY <2>1, <2>2, <3>1 DEF PushPacket
    <3>2. CASE SendBufferedPackets
      <4>1. /\ buffer[s] # <<>> /\ buffer[s] \in Seq(Items) /\ ProcessPacket(Head(buffer[s]))
            /\ Sorted(s)
        BY <2>2, <3>2 DEF SendBufferedPackets, TypeInv, Data, StartInv
      <4>2. Head(buffer[s]) \in Items /\ Head(buffer[s])[1] = s
        BY <4>1, HeadTailProperties DEF Sorted
      <4> QED
        BY <4>1, <4>2
    <3> QED
      BY <1>3, <3>1, <3>2
  <2>5. \A k \in 1..Len(outq') :
          outq'[k][1] = s \/ \E l \in 1..Len(outq) : outq'[k] = outq[l]
    <3>1. PICK i \in Items : i[1] = s /\ ProcessPacket(i)
      BY <2>4
    <3>2. outq \in Seq(Items)
      BY DEF TypeInv, Data
    <3>3. outq' \in {outq, <<i>> \o outq, Append(outq, i)}
      <4>1. i = <<i[1], i[2]>>
        BY DEF Items
      <4> QED
        BY <3>1, <4>1 DEF ProcessPacket, Enqueue
    <3>4. CASE outq' = outq
      BY <3>4
    <3>5. CASE outq' = <<i>> \o outq
      <4>1. <<i>> \in Seq(Items) /\ Len(<<i>>) = 1 /\ <<i>>[1] = i
        OBVIOUS
      <4>2. /\ Len(outq') = 1 + Len(outq) /\ outq'[1] = i
            /\ \A k \in 2..Len(outq') : outq'[k] = outq[k - 1] /\ k - 1 \in 1..Len(outq)
        BY <3>2, <3>5, <4>1, ConcatProperties
      <4> QED
        BY <3>1, <3>2, <4>2
    <3>6. CASE outq' = Append(outq, i)
      BY <3>1, <3>2, <3>6, AppendProperties
    <3> QED
      BY <3>3, <3>4, <3>5, <3>6
  <2>6. ~Past(r) /\ NoneOut(r) => NoneOut(r)'
    BY <1>a, <2>3, <2>5 DEF NoneOut
  <2>7. ~Past(r) => ~Flushing(r)'
    <3>1. CASE PushPacket
      BY <3>1, InboundMoves, Apart DEF Flushing
    <3>2. CASE SendBufferedPackets
      <4>1. Flushing(r)' <=> Flushing(r)
        BY <3>2 DEF SendBufferedPackets, Flushing, At
      <4> QED
        BY <1>g, <4>1 DEF Start
    <3> QED
      BY <1>3, <3>1, <3>2
  <2> QED
    BY <1>g, <1>f, <1>h, <2>6, <2>7, StartKept
<1> QED
  BY <1>1, <1>2, <1>3

\* The buffer of a stream only takes packets of that stream.
LEMMA SortedStep ==
  ASSUME TypeInv, StartInv, [Next]_vars, NEW r \in Streams
  PROVE  Sorted(r)'
<1> USE DEF provider, transcoder, router, publisher
<1>g. Sorted(r) /\ buffer \in [Streams -> Seq(Items)]
  BY DEF StartInv, TypeInv, Data
<1>1. CASE buffer'[r] = buffer[r]
  BY <1>g, <1>1 DEF Sorted
<1>2. CASE buffer'[r] = <<>>
  BY <1>2 DEF Sorted
<1>3. CASE SendBufferedPackets
  <2>1. CASE r = StreamOf(InWorker)
    <3>1. buffer'[r] = Tail(buffer[r]) /\ buffer[r] # <<>> /\ buffer[r] \in Seq(Items)
      BY <1>g, <1>3, <2>1 DEF SendBufferedPackets
    <3>2. \A i \in 1..Len(buffer'[r]) : i + 1 \in 1..Len(buffer[r]) /\ buffer'[r][i] = buffer[r][i + 1]
      BY <3>1, HeadTailProperties
    <3> QED
      BY <1>g, <3>2 DEF Sorted
  <2>2. CASE r # StreamOf(InWorker)
    BY <1>g, <1>1, <1>3, <2>2 DEF SendBufferedPackets
  <2> QED
    BY <2>1, <2>2
<1>4. CASE BufferMediaPacketUntilReadyToPlay
  <2>1. pc[InWorker] # "idle" /\ InWorker \in Workers
    BY <1>4, ThreadFacts DEF BufferMediaPacketUntilReadyToPlay
  <2>2. StreamOf(InWorker) \in Streams /\ item[InWorker] \in Items /\ item[InWorker][1] = StreamOf(InWorker)
    BY <2>1, StreamFacts
  <2>3. PICK s \in Streams, i \in Items : s = StreamOf(InWorker) /\ i = item[InWorker] /\ i[1] = s
    BY <2>2
  <2>4. buffer' = buffer \/ buffer' = [buffer EXCEPT ![s] = Append(Kept(s), i)]
    BY <1>4, <2>3 DEF BufferMediaPacketUntilReadyToPlay
  <2>5. CASE buffer' = [buffer EXCEPT ![s] = Append(Kept(s), i)] /\ r = s
    <3>1. Kept(s) \in Seq(Items) /\ buffer'[r] = Append(Kept(s), i) /\ buffer[r] \in Seq(Items)
      BY <1>g, <2>5, KeptType
    <3>2. \A k \in 1..Len(Kept(s)) : \E l \in 1..Len(buffer[r]) : Kept(s)[k] = buffer[r][l]
      <4>1. CASE Kept(s) = buffer[r]
        BY <4>1
      <4>2. CASE Kept(s) # buffer[r]
        <5>1. Kept(s) = Tail(buffer[r]) /\ buffer[r] # <<>>
          BY <2>5, <3>1, <4>2, RouteAssumption DEF Kept
        <5>2. \A k \in 1..Len(Kept(s)) : k + 1 \in 1..Len(buffer[r]) /\ Kept(s)[k] = buffer[r][k + 1]
          BY <3>1, <5>1, HeadTailProperties
        <5> QED
          BY <5>2
      <4> QED
        BY <4>1, <4>2
    <3>3. \A k \in 1..Len(buffer'[r]) :
            buffer'[r][k] = i \/ \E l \in 1..Len(buffer[r]) : buffer'[r][k] = buffer[r][l]
      BY <3>1, <3>2, AppendProperties
    <3>4. i[1] = r /\ \A l \in 1..Len(buffer[r]) : buffer[r][l][1] = r
      BY <1>g, <2>3, <2>5 DEF Sorted
    <3>5. \A k \in 1..Len(buffer'[r]) : buffer'[r][k][1] = r
      BY <3>3, <3>4
    <3> QED
      BY <3>5 DEF Sorted
  <2> QED
    BY <1>g, <1>1, <2>4, <2>5
<1>5. ASSUME NEW s \in Streams, Create(s) \/ DeleteStream(s) \/ TakeDown(s)
      PROVE  buffer'[r] \in {buffer[r], <<>>}
  BY <1>5, <1>g
  DEF Create, TakeDown, CreateInboundStream, OnStreamCreated, DeleteStream, OnStreamDeleted,
      JoinPrepareThread, StopServing, DeleteOutboundStream, EraseTranscoderStream,
      DeleteInboundStream
<1>6. ASSUME NEW t \in Notifiers, NotifyInbound(t) PROVE buffer' = buffer
  BY <1>6, NotifyFrame
<1>7. ASSUME NEW s \in Streams, PrepareAsync(s) PROVE buffer' = buffer
  BY <1>7, PreparerFrame
<1>8. ASSUME NEW s \in Streams, SendPacket(s) \/ SendEvent(s) PROVE buffer' = buffer
  BY <1>8 DEF SendPacket, SendEvent
<1>9. PopInbound \/ Push \/ PushPacket \/ PopStreamData \/ UNCHANGED vars => buffer' = buffer
  BY DEF PopInbound, Push, PushPacket, PopStreamData, vars
<1>10. OutboundWorkerThread => buffer' = buffer
  BY DEF OutboundWorkerThread, PopOutbound, OnSendFrame, NotifyOutbound,
         CheckOutPrepared, FindStream, StartStream, MarkOutPrepared
<1>z. InWorker \in Notifiers /\ \A s \in Streams : Creator(s) \in Notifiers
  BY ThreadFacts DEF Notifiers
<1> QED
  BY <1>1, <1>2, <1>3, <1>4, <1>5, <1>6, <1>7, <1>8, <1>9, <1>10, <1>z DEF Next, InboundWorkerThread

LEMMA StartStep ==
  ASSUME TypeInv, GoneInv, StartInv, [Next]_vars
  PROVE  StartInv' /\ \A s \in Streams : StartedOnce(s)
<1> SUFFICES ASSUME NEW r \in Streams PROVE Start(r)' /\ Sorted(r)' /\ StartedOnce(r)
  BY DEF StartInv
<1>g. Start(r) /\ (Past(r) => Past(r)')
  BY PastStep DEF StartInv
<1>1. ASSUME NEW s \in Streams, SendPacket(s) \/ SendEvent(s)
      PROVE  UNCHANGED <<pc, item, transcoder, router, publisher>>
  BY <1>1 DEF SendPacket, SendEvent
<1>2. PopStreamData \/ UNCHANGED vars =>
        UNCHANGED <<pc, item, state, outq, outPrepared, pub>>
  BY DEF PopStreamData, vars, transcoder, router, publisher
<1>3. ASSUME UNCHANGED <<pc, item, state, outq, outPrepared, pub>>
      PROVE  Start(r)' /\ StartedOnce(r)
  <2>1. (NoneOut(r)' <=> NoneOut(r)) /\ (Flushing(r)' <=> Flushing(r))
    BY <1>3 DEF NoneOut, Flushing, At
  <2> QED
    BY <1>g, <1>3, <2>1, StartKept
<1>z. InWorker \in Notifiers /\ \A s \in Streams : Creator(s) \in Notifiers
  BY ThreadFacts DEF Notifiers
<1>4. Start(r)' /\ StartedOnce(r)
  BY <1>1, <1>2, <1>3, <1>z, CreatorStarts, NotifierStarts, PreparerStarts, InboundStarts,
     OutboundStarts
  DEF Next, InboundWorkerThread, transcoder, router, publisher
<1> QED
  BY <1>4, SortedStep

LEMMA InitStart == Init => StartInv
<1> SUFFICES ASSUME Init PROVE StartInv
  OBVIOUS
<1>1. /\ \A s \in Streams : pc[Creator(s)] = "create" /\ pc[Preparer(s)] = "idle"
      /\ pc[InWorker] = "idle" /\ pc[OutWorker] = "idle" /\ outq = <<>>
  BY ThreadFacts DEF Init
<1>2. \A s \in Streams : state[s] = "CREATED" /\ buffer[s] = <<>> /\ pub[s] = "NONE"
  BY DEF Init
<1> QED
  BY <1>1, <1>2
  DEF StartInv, Start, Sorted, Past, GoneSteps, NoneOut, Flushing, At, StartingSteps

\* A stream that the publisher serves is started once, whoever finds it ready.
THEOREM StartedIsNotRestarted == Spec => NotStartedTwice
<1>1. TypeInv /\ LockInv /\ GoneInv /\ StartInv /\ [Next]_vars =>
        (TypeInv /\ LockInv /\ GoneInv /\ StartInv)'
  BY TypeStep, LockStep, GoneStep, StartStep
<1>2. TypeInv /\ GoneInv /\ StartInv /\ [Next]_vars =>
        [\A s \in Streams : pub[s] = "STARTED" => pub'[s] \in {"STARTED", "STOPPED"}]_vars
  BY StartStep DEF StartedOnce
<1> QED
  BY <1>1, <1>2, TypeInit, InitControl, InitStart, PTL DEF Spec, NotStartedTwice

-----------------------------------------------------------------------------
(* Sequences of packets *)

\* The number of x, if it is a packet of s, and those of the packets of s in q.
Number(x, s) == IF x[1] = s /\ x[2] # Event THEN {x[2]} ELSE {}
Numbers(q, s) == {q[i][2] : i \in {j \in 1..Len(q) : q[j][1] = s /\ q[j][2] # Event}}

Ascending(q, s) ==
  \A i, j \in 1..Len(q) :
    i < j /\ q[i][1] = s /\ q[j][1] = s /\ q[i][2] # Event /\ q[j][2] # Event =>
      q[i][2] < q[j][2]

LEMMA InNumbers ==
  ASSUME NEW q, NEW s, NEW n
  PROVE  n \in Numbers(q, s) <=>
           \E i \in 1..Len(q) : q[i][1] = s /\ q[i][2] # Event /\ q[i][2] = n
BY DEF Numbers

LEMMA NumberIs ==
  ASSUME NEW x, NEW s, NEW n
  PROVE  n \in Number(x, s) <=> x[1] = s /\ x[2] # Event /\ x[2] = n
BY DEF Number

\* The first packet goes, ...
LEMMA TailNumbers ==
  ASSUME NEW q \in Seq(Items), q # <<>>, NEW s
  PROVE  /\ Number(Head(q), s) \subseteq Numbers(q, s)
         /\ Numbers(Tail(q), s) \subseteq Numbers(q, s)
         /\ Ascending(q, s) =>
              /\ Ascending(Tail(q), s)
              /\ \A a \in Number(Head(q), s), b \in Numbers(Tail(q), s) : a < b
<1>1. /\ 1 \in 1..Len(q) /\ Head(q) = q[1] /\ Len(Tail(q)) = Len(q) - 1 /\ Len(q) \in Nat
      /\ \A i \in 1..Len(Tail(q)) : i + 1 \in 1..Len(q) /\ i + 1 # 1 /\ Tail(q)[i] = q[i + 1]
  BY HeadTailProperties
<1>2. Number(Head(q), s) \subseteq Numbers(q, s)
  <2>1. ASSUME NEW n \in Number(Head(q), s) PROVE n \in Numbers(q, s)
    <3>1. 1 \in 1..Len(q) /\ q[1][1] = s /\ q[1][2] # Event /\ q[1][2] = n
      BY <1>1, <2>1, NumberIs
    <3> QED
      BY <3>1, InNumbers
  <2> QED
    BY <2>1
<1>p. PICK p : p = Tail(q)
  OBVIOUS
<1>3. Numbers(p, s) \subseteq Numbers(q, s)
  <2>1. ASSUME NEW n \in Numbers(p, s) PROVE n \in Numbers(q, s)
    <3>1. PICK i \in 1..Len(p) : p[i][1] = s /\ p[i][2] # Event /\ p[i][2] = n
      BY <2>1, InNumbers
    <3>2. i + 1 \in 1..Len(q) /\ p[i] = q[i + 1]
      BY <1>1, <1>p
    <3> QED
      BY <3>1, <3>2, InNumbers
  <2> QED
    BY <2>1
<1>4. ASSUME Ascending(q, s)
      PROVE  /\ Ascending(Tail(q), s)
             /\ \A a \in Number(Head(q), s), b \in Numbers(Tail(q), s) : a < b
  <2>1. Ascending(Tail(q), s)
    <3>1. ASSUME NEW i \in 1..Len(Tail(q)), NEW j \in 1..Len(Tail(q)), i < j
          PROVE  /\ i + 1 \in 1..Len(q) /\ j + 1 \in 1..Len(q) /\ i + 1 < j + 1
                 /\ Tail(q)[i] = q[i + 1] /\ Tail(q)[j] = q[j + 1]
      BY <1>1, <3>1
    <3> QED
      BY <1>4, <3>1 DEF Ascending
  <2>2. ASSUME NEW a \in Number(Head(q), s), NEW b \in Numbers(p, s) PROVE a < b
    <3>1. PICK i \in 1..Len(p) : p[i][1] = s /\ p[i][2] # Event /\ p[i][2] = b
      BY <2>2, InNumbers
    <3>2. q[1][1] = s /\ q[1][2] # Event /\ q[1][2] = a
      BY <1>1, <2>2, NumberIs
    <3>3. i + 1 \in 1..Len(q) /\ 1 < i + 1 /\ p[i] = q[i + 1]
      BY <1>1, <1>p, <3>1
    <3> QED
      BY <1>1, <1>4, <3>1, <3>2, <3>3 DEF Ascending
  <2> QED
    BY <1>p, <2>1, <2>2
<1> QED
  BY <1>p, <1>2, <1>3, <1>4

\* ... a packet comes at the end, ...
LEMMA AppendNumbers ==
  ASSUME NEW q \in Seq(Items), NEW x \in Items, NEW s
  PROVE  /\ Numbers(Append(q, x), s) = Numbers(q, s) \cup Number(x, s)
         /\ Ascending(q, s) /\ (\A a \in Numbers(q, s), b \in Number(x, s) : a < b) =>
              Ascending(Append(q, x), s)
<1> DEFINE p == Append(q, x)
<1>1. /\ Len(p) = Len(q) + 1 /\ Len(q) \in Nat /\ p[Len(p)] = x
      /\ \A i \in 1..Len(q) : p[i] = q[i]
  BY AppendProperties
<1>2. \A i \in 1..Len(p) : i \in 1..Len(q) \/ i = Len(p)
  BY <1>1
<1> HIDE DEF p
<1>3. ASSUME NEW n \in Numbers(p, s) PROVE n \in Numbers(q, s) \cup Number(x, s)
  <2>1. PICK i \in 1..Len(p) : p[i][1] = s /\ p[i][2] # Event /\ p[i][2] = n
    BY <1>3, InNumbers
  <2>2. CASE i \in 1..Len(q)
    BY <1>1, <2>1, <2>2, InNumbers
  <2>3. CASE i = Len(p)
    BY <1>1, <2>1, <2>3, NumberIs
  <2> QED
    BY <1>2, <2>2, <2>3
<1>4. ASSUME NEW n \in Numbers(q, s) \cup Number(x, s) PROVE n \in Numbers(p, s)
  <2>1. CASE n \in Numbers(q, s)
    <3>1. PICK i \in 1..Len(q) : q[i][1] = s /\ q[i][2] # Event /\ q[i][2] = n
      BY <2>1, InNumbers
    <3>2. i \in 1..Len(p) /\ p[i] = q[i]
      BY <1>1
    <3> QED
      BY <3>1, <3>2, InNumbers
  <2>2. CASE n \in Number(x, s)
    <3>1. Len(p) \in 1..Len(p)
      BY <1>1
    <3> QED
      BY <1>1, <2>2, <3>1, InNumbers, NumberIs
  <2> QED
    BY <1>4, <2>1, <2>2
<1>5. ASSUME Ascending(q, s), \A a \in Numbers(q, s), b \in Number(x, s) : a < b
      PROVE  Ascending(p, s)
  <2>1. SUFFICES ASSUME NEW i \in 1..Len(p), NEW j \in 1..Len(p), i < j,
                        p[i][1] = s, p[j][1] = s, p[i][2] # Event, p[j][2] # Event
                 PROVE  p[i][2] < p[j][2]
    BY DEF Ascending
  <2>2. i \in 1..Len(q) /\ p[i] = q[i]
    BY <1>1, <2>1
  <2>3. CASE j \in 1..Len(q)
    BY <1>1, <1>5, <2>1, <2>2, <2>3 DEF Ascending
  <2>4. CASE j = Len(p)
    <3>1. q[i][2] \in Numbers(q, s)
      BY <2>1, <2>2, InNumbers
    <3>2. x[2] \in Number(x, s)
      BY <1>1, <2>1, <2>4, NumberIs
    <3> QED
      BY <1>1, <1>5, <2>2, <2>4, <3>1, <3>2
  <2> QED
    BY <1>2, <2>3, <2>4
<1> QED
  BY <1>3, <1>4, <1>5 DEF p

\* ... an event, or a packet of another stream, comes to the front.
LEMMA FrontNumbers ==
  ASSUME NEW q \in Seq(Items), NEW x \in Items, NEW s, Number(x, s) = {}
  PROVE  /\ Numbers(<<x>> \o q, s) = Numbers(q, s)
         /\ Ascending(q, s) => Ascending(<<x>> \o q, s)
<1> DEFINE p == <<x>> \o q
<1>1. /\ Len(p) = Len(q) + 1 /\ Len(q) \in Nat /\ p[1] = x
      /\ \A i \in 2..Len(p) : i - 1 \in 1..Len(q) /\ p[i] = q[i - 1]
  <2>1. <<x>> \in Seq(Items) /\ Len(<<x>>) = 1 /\ <<x>>[1] = x
    OBVIOUS
  <2> QED
    BY <2>1, ConcatProperties
<1>2. ~(x[1] = s /\ x[2] # Event)
  BY DEF Number
<1> HIDE DEF p
<1>3. ASSUME NEW i \in 1..Len(p), p[i][1] = s, p[i][2] # Event
      PROVE  i - 1 \in 1..Len(q) /\ p[i] = q[i - 1]
  <2>1. i # 1
    BY <1>1, <1>2, <1>3
  <2> QED
    BY <1>1, <2>1
<1>4. \A i \in 1..Len(q) : i + 1 \in 1..Len(p) /\ p[i + 1] = q[i]
  BY <1>1
<1>5. Numbers(p, s) = Numbers(q, s)
  <2>1. ASSUME NEW n \in Numbers(p, s) PROVE n \in Numbers(q, s)
    BY <1>3, InNumbers
  <2>2. ASSUME NEW n \in Numbers(q, s) PROVE n \in Numbers(p, s)
    BY <1>4, InNumbers
  <2> QED
    BY <2>1, <2>2
<1>6. ASSUME Ascending(q, s) PROVE Ascending(p, s)
  <2>1. SUFFICES ASSUME NEW i \in 1..Len(p), NEW j \in 1..Len(p), i < j,
                        p[i][1] = s, p[j][1] = s, p[i][2] # Event, p[j][2] # Event
                 PROVE  p[i][2] < p[j][2]
    BY DEF Ascending
  <2>2. /\ i - 1 \in 1..Len(q) /\ p[i] = q[i - 1] /\ j - 1 \in 1..Len(q) /\ p[j] = q[j - 1]
        /\ i - 1 < j - 1
    BY <1>3, <2>1
  <2> QED
    BY <1>6, <2>1, <2>2 DEF Ascending
<1> QED
  BY <1>5, <1>6 DEF p

LEMMA FewNumbers ==
  ASSUME NEW x \in Items, NEW s
  PROVE  /\ Numbers(<<>>, s) = {} /\ Ascending(<<>>, s)
         /\ Numbers(<<x>>, s) = Number(x, s) /\ Ascending(<<x>>, s)
<1>1. Numbers(<<>>, s) = {} /\ Ascending(<<>>, s)
  BY DEF Numbers, Ascending
<1>2. Len(<<x>>) = 1 /\ <<x>>[1] = x
  OBVIOUS
<1>3. Ascending(<<x>>, s)
  BY <1>2 DEF Ascending
<1>4. Numbers(<<x>>, s) = Number(x, s)
  <2>1. \A n : n \in Numbers(<<x>>, s) <=> n \in Number(x, s)
    BY <1>2, InNumbers, NumberIs
  <2> QED
    BY <2>1
<1> QED
  BY <1>1, <1>3, <1>4

-----------------------------------------------------------------------------
(* The way of a packet *)

Stages == 1..8

\* The packets of s on a way are in their order, and none is newer than n.
InLine(W, s, n) ==
  /\ \A k \in Stages : Ascending(W[k], s) /\ \A a \in Numbers(W[k], s) : a \in Nat /\ a <= n
  /\ \A k, l \in Stages : k < l => \A a \in Numbers(W[k], s), b \in Numbers(W[l], s) : a < b

\* On the way W that V becomes, x goes from stage j, whose first packet it is, to the end
\* of stage k, or nowhere; a packet of another stream, and an event, may go anywhere.
Passes(V, W, s, k, j, x) ==
  /\ \A m \in Stages : m = k \/ m = j \/ W[m] = V[m]
  /\ \/ V[j] # <<>> /\ x = Head(V[j]) /\ W[j] = Tail(V[j])
     \/ Number(x, s) = {} /\ W[j] = V[j]
  /\ \/ W[k] = V[k] \/ W[k] = Append(V[k], x)
     \/ Number(x, s) = {} /\ W[k] = <<x>> \o V[k]
  /\ Number(x, s) = {} \/ \A m \in Stages : k < m /\ m < j => V[m] = <<>>

IsWay(V) == \A m \in Stages : V[m] \in Seq(Items)

LEMMA WayMoves ==
  ASSUME NEW V, NEW W, IsWay(V), NEW s, NEW n \in Nat, InLine(V, s, n),
         NEW k \in Stages, NEW j \in Stages, k < j, NEW x \in Items, Passes(V, W, s, k, j, x)
  PROVE  InLine(W, s, n)
<1>p. /\ \A m \in Stages \ {k, j} : W[m] = V[m]
      /\ \/ V[j] # <<>> /\ x = Head(V[j]) /\ W[j] = Tail(V[j])
         \/ Number(x, s) = {} /\ W[j] = V[j]
      /\ \/ W[k] = V[k] \/ W[k] = Append(V[k], x)
         \/ Number(x, s) = {} /\ W[k] = <<x>> \o V[k]
      /\ Number(x, s) = {} \/ \A m \in Stages : k < m /\ m < j => V[m] = <<>>
  BY DEF Passes
<1>o. \A m \in Stages : V[m] \in Seq(Items)
  BY DEF IsWay
<1>a. \A m \in Stages : Ascending(V[m], s)
  BY DEF InLine
<1>b. \A m \in Stages : \A a \in Numbers(V[m], s) : a \in Nat /\ a <= n
  BY DEF InLine
<1>c. \A p, q \in Stages : p < q =>
        \A a \in Numbers(V[p], s), b \in Numbers(V[q], s) : a < b
  BY DEF InLine
<1>1. /\ Number(x, s) \subseteq Numbers(V[j], s) /\ Numbers(W[j], s) \subseteq Numbers(V[j], s)
      /\ Ascending(W[j], s) /\ \A a \in Number(x, s), b \in Numbers(W[j], s) : a < b
  BY <1>a, <1>o, <1>p, TailNumbers
<1>2. \A a \in Numbers(V[k], s), b \in Number(x, s) : a < b
  BY <1>1, <1>c
<1>3. Numbers(W[k], s) \subseteq Numbers(V[k], s) \cup Number(x, s) /\ Ascending(W[k], s)
  <2>1. Ascending(V[k], s) /\ V[k] \in Seq(Items)
    BY <1>a, <1>o
  <2>2. CASE W[k] = V[k]
    BY <2>1, <2>2
  <2>3. CASE W[k] = Append(V[k], x)
    BY <1>2, <2>1, <2>3, AppendNumbers
  <2>4. CASE Number(x, s) = {} /\ W[k] = <<x>> \o V[k]
    BY <2>1, <2>4, FrontNumbers
  <2> QED
    BY <1>p, <2>2, <2>3, <2>4
<1>4. \A m \in Stages \ {k, j} : Numbers(W[m], s) = Numbers(V[m], s) /\ Ascending(W[m], s)
  BY <1>a, <1>p
<1>5. \A m \in Stages : m # k => Numbers(W[m], s) \subseteq Numbers(V[m], s)
  BY <1>1, <1>4
<1>6. \A m \in Stages : Ascending(W[m], s)
  BY <1>1, <1>3, <1>4
<1>7. \A m \in Stages : \A a \in Numbers(W[m], s) : a \in Nat /\ a <= n
  BY <1>1, <1>3, <1>5, <1>b
<1>8. ASSUME NEW p \in Stages, NEW q \in Stages, p < q,
             NEW a \in Numbers(W[p], s), NEW b \in Numbers(W[q], s)
      PROVE  a < b
  <2>1. CASE a \in Numbers(V[p], s) /\ b \in Numbers(V[q], s)
    BY <1>8, <1>c, <2>1
  <2>2. CASE a \in Number(x, s) /\ p = k
    <3>1. CASE q = j
      BY <1>1, <2>2, <3>1
    <3>2. CASE q # j /\ ~(j < q)
      <4>1. V[q] = <<>> /\ b \in Numbers(V[q], s)
        BY <1>5, <1>8, <1>p, <2>2, <3>2 DEF Stages
      <4> QED
        BY <4>1, FewNumbers
    <3>3. CASE j < q
      <4>1. a \in Numbers(V[j], s) /\ b \in Numbers(V[q], s)
        BY <1>1, <1>5, <1>8, <2>2, <3>3 DEF Stages
      <4> QED
        BY <1>c, <3>3, <4>1
    <3> QED
      BY <3>1, <3>2, <3>3
  <2>3. CASE b \in Number(x, s) /\ q = k
    <3>1. p < j /\ a \in Numbers(V[p], s)
      BY <1>5, <1>8, <2>3 DEF Stages
    <3> QED
      BY <1>1, <1>c, <2>3, <3>1
  <2> QED
    BY <1>3, <1>5, <1>8, <2>1, <2>2, <2>3 DEF Stages
<1> QED
  BY <1>6, <1>7, <1>8 DEF InLine

\* Packets are dropped.
Loses(V, W) ==
  \A m \in Stages : \/ W[m] = V[m] \/ W[m] = <<>>
                    \/ V[m] # <<>> /\ W[m] = Tail(V[m])

LEMMA WayDrops ==
  ASSUME NEW V, NEW W, IsWay(V), NEW s, NEW n, InLine(V, s, n), Loses(V, W)
  PROVE  InLine(W, s, n)
<1>1. \A m \in Stages : Numbers(W[m], s) \subseteq Numbers(V[m], s) /\ Ascending(W[m], s)
  <2>1. SUFFICES ASSUME NEW m \in Stages
                 PROVE  Numbers(W[m], s) \subseteq Numbers(V[m], s) /\ Ascending(W[m], s)
    OBVIOUS
  <2>2. Numbers(<<>>, s) = {} /\ Ascending(<<>>, s)
    BY DEF Numbers, Ascending
  <2> QED
    BY <2>2, TailNumbers DEF InLine, IsWay, Loses
<1> QED
  BY <1>1 DEF InLine

\* The provider sends the packet o, or an event or a packet of another stream comes.
Grows(V, W, s, n, o, x) ==
  /\ \A m \in Stages : m = 8 \/ W[m] = V[m]
  /\ \/ W[8] = <<x>> \o V[8] /\ Number(x, s) = {}
     \/ W[8] = Append(V[8], x) /\ \A b \in Number(x, s) : b = o /\ n < o

LEMMA WayGrows ==
  ASSUME NEW V, NEW W, IsWay(V), NEW s, NEW n \in Nat, InLine(V, s, n),
         NEW o \in Nat, n <= o, NEW x \in Items, Grows(V, W, s, n, o, x)
  PROVE  InLine(W, s, o)
<1>p. /\ \A m \in Stages \ {8} : W[m] = V[m]
      /\ \/ W[8] = <<x>> \o V[8] /\ Number(x, s) = {}
         \/ W[8] = Append(V[8], x) /\ \A b \in Number(x, s) : b = o /\ n < o
  BY DEF Grows
<1>o. \A m \in Stages : V[m] \in Seq(Items)
  BY DEF IsWay
<1>a. 8 \in Stages /\ \A m \in Stages : Ascending(V[m], s)
  BY DEF InLine, Stages
<1>b. \A m \in Stages : \A a \in Numbers(V[m], s) : a \in Nat /\ a <= n
  BY DEF InLine
<1>c. \A p, q \in Stages : p < q =>
        \A a \in Numbers(V[p], s), b \in Numbers(V[q], s) : a < b
  BY DEF InLine
<1>1. ASSUME NEW m \in Stages, NEW a \in Numbers(V[m], s)
      PROVE  a \in Nat /\ a <= o /\ (n < o => a < o)
  <2>1. a \in Nat /\ a <= n
    BY <1>b
  <2> QED
    BY <2>1
<1>2. CASE W[8] = <<x>> \o V[8] /\ Number(x, s) = {}
  <2>1. Numbers(W[8], s) = Numbers(V[8], s) /\ Ascending(W[8], s)
    BY <1>a, <1>o, <1>2, FrontNumbers
  <2>2. \A m \in Stages : Numbers(W[m], s) = Numbers(V[m], s) /\ Ascending(W[m], s)
    BY <1>a, <1>p, <2>1
  <2> QED
    BY <1>1, <1>c, <2>2 DEF InLine
<1>3. CASE W[8] = Append(V[8], x) /\ \A b \in Number(x, s) : b = o /\ n < o
  <2>1. \A a \in Numbers(V[8], s), b \in Number(x, s) : a < b
    BY <1>a, <1>1, <1>3
  <2>2. Numbers(W[8], s) = Numbers(V[8], s) \cup Number(x, s) /\ Ascending(W[8], s)
    BY <1>a, <1>o, <1>3, <2>1, AppendNumbers
  <2>3. \A m \in Stages \ {8} : Numbers(W[m], s) = Numbers(V[m], s) /\ Ascending(W[m], s)
    BY <1>a, <1>p
  <2>4. ASSUME NEW m \in Stages
        PROVE  Ascending(W[m], s) /\ \A a \in Numbers(W[m], s) : a \in Nat /\ a <= o
    <3>1. CASE m = 8
      <4>1. ASSUME NEW a \in Numbers(V[8], s) PROVE a \in Nat /\ a <= o
        BY <1>a, <1>1
      <4>2. ASSUME NEW a \in Number(x, s) PROVE a \in Nat /\ a <= o
        BY <1>3
      <4> QED
        BY <2>2, <3>1, <4>1, <4>2
    <3>2. CASE m # 8
      BY <1>1, <2>3, <3>2
    <3> QED
      BY <3>1, <3>2
  <2>5. ASSUME NEW p \in Stages, NEW q \in Stages, p < q,
               NEW a \in Numbers(W[p], s), NEW b \in Numbers(W[q], s)
        PROVE  a < b
    <3>1. p # 8 /\ a \in Numbers(V[p], s)
      <4>1. p # 8
        BY <2>5 DEF Stages
      <4> QED
        BY <2>3, <2>5, <4>1
    <3>2. CASE b \in Numbers(V[q], s)
      BY <1>c, <2>5, <3>1, <3>2
    <3>3. CASE b \in Number(x, s)
      BY <1>1, <1>3, <3>1, <3>3
    <3> QED
      BY <2>2, <2>3, <2>5, <3>2, <3>3
  <2> QED
    BY <2>4, <2>5 DEF InLine
<1> QED
  BY <1>2, <1>3, <1>p

OrderInv == \A s \in Streams : InLine(Way(s), s, sent[s])

LEMMA WayStages ==
  ASSUME TypeInv, NEW s \in Streams
  PROVE  /\ Way(s)[1] = delivered[s] /\ Way(s)[2] = appq /\ Way(s)[3] = Held(OutWorker)
         /\ Way(s)[4] = Stashed(s)
         /\ Way(s)[5] = outq /\ Way(s)[6] = buffer[s] /\ Way(s)[7] = Held(InWorker)
         /\ Way(s)[8] = inq
         /\ DOMAIN Way(s) = Stages /\ IsWay(Way(s))
<1>1. /\ Way(s)[1] = delivered[s] /\ Way(s)[2] = appq /\ Way(s)[3] = Held(OutWorker)
      /\ Way(s)[4] = Stashed(s)
      /\ Way(s)[5] = outq /\ Way(s)[6] = buffer[s] /\ Way(s)[7] = Held(InWorker)
      /\ Way(s)[8] = inq /\ DOMAIN Way(s) = Stages
  BY DEF Way, Stages
<1>2. Stashed(s) \in Seq(Items) /\ \A t \in Workers : Held(t) \in Seq(Items)
  BY DEF Held, Stashed, TypeInv, Control, Data
<1>3. /\ delivered[s] \in Seq(Items) /\ appq \in Seq(Items) /\ outq \in Seq(Items)
      /\ buffer[s] \in Seq(Items) /\ inq \in Seq(Items)
  BY DEF TypeInv, Data
<1>4. Stages = {1, 2, 3, 4, 5, 6, 7, 8}
  BY DEF Stages
<1> QED
  BY <1>1, <1>2, <1>3, <1>4, ThreadFacts DEF IsWay

LEMMA OrderParts == TypeInv /\ OrderInv => InOrder
<1> SUFFICES ASSUME TypeInv, OrderInv, NEW s \in Streams,
                    NEW k \in DOMAIN Way(s), NEW l \in DOMAIN Way(s),
                    NEW i \in DOMAIN Way(s)[k], NEW j \in DOMAIN Way(s)[l],
                    Before(k, i, l, j), Way(s)[k][i][1] = s, Way(s)[l][j][1] = s,
                    Way(s)[k][i][2] # Event, Way(s)[l][j][2] # Event
             PROVE  Way(s)[k][i][2] < Way(s)[l][j][2]
  BY DEF InOrder
<1>1. PICK V, p, q : V = Way(s) /\ p = V[k] /\ q = V[l]
  OBVIOUS
<1>2. /\ k \in Stages /\ l \in Stages /\ p \in Seq(Items) /\ q \in Seq(Items)
  BY <1>1, WayStages DEF IsWay
<1>3. i \in 1..Len(p) /\ j \in 1..Len(q)
  BY <1>1, <1>2
<1>4. /\ Ascending(p, s)
      /\ k < l => \A a \in Numbers(p, s), b \in Numbers(q, s) : a < b
  BY <1>1, <1>2 DEF OrderInv, InLine
<1>5. CASE k < l
  <2>1. p[i][2] \in Numbers(p, s) /\ q[j][2] \in Numbers(q, s)
    BY <1>1, <1>3, InNumbers
  <2> QED
    BY <1>1, <1>4, <1>5, <2>1
<1>6. CASE k = l /\ i < j
  BY <1>1, <1>3, <1>4, <1>6 DEF Ascending
<1> QED
  BY <1>5, <1>6 DEF Before

\* A packet on the way of another stream is none of this one.
LEMMA Others ==
  ASSUME NEW x \in Items, NEW r, x[1] # r \/ x[2] = Event
  PROVE  Number(x, r) = {}
BY DEF Number

LEMMA ProcessIs ==
  ASSUME NEW i \in Items, NEW r, ProcessPacket(i)
  PROVE  \/ outq' = outq \/ outq' = Append(outq, i)
         \/ Number(i, r) = {} /\ outq' = <<i>> \o outq
<1>1. i = <<i[1], i[2]>>
  BY DEF Items
<1> QED
  BY <1>1, Others DEF ProcessPacket, Enqueue

LEMMA OrderStep ==
  ASSUME TypeInv, TypeInv', StartInv, OrderInv, [Next]_vars
  PROVE  OrderInv'
<1> SUFFICES ASSUME NEW r \in Streams PROVE InLine(Way(r)', r, sent'[r])
  BY DEF OrderInv
<1> USE ThreadFacts DEF provider, transcoder, router, publisher
<1>p. PICK V, W, n : V = Way(r) /\ W = Way(r)' /\ n = sent[r]
  OBVIOUS
<1>v. /\ V[1] = delivered[r] /\ V[2] = appq /\ V[3] = Held(OutWorker) /\ V[4] = Stashed(r)
      /\ V[5] = outq
      /\ V[6] = buffer[r] /\ V[7] = Held(InWorker) /\ V[8] = inq
      /\ IsWay(V)
  BY <1>p, WayStages
<1>w. /\ W[1] = delivered'[r] /\ W[2] = appq' /\ W[3] = Held(OutWorker)' /\ W[4] = Stashed(r)'
      /\ W[5] = outq'
      /\ W[6] = buffer'[r] /\ W[7] = Held(InWorker)' /\ W[8] = inq'
  BY <1>p DEF Way
<1>n. n \in Nat /\ InLine(V, r, n)
  BY <1>p, RouteAssumption DEF OrderInv, TypeInv, Data
<1>s. Stages = {1, 2, 3, 4, 5, 6, 7, 8}
  BY DEF Stages
<1>h. \A t \in Workers : /\ item'[t] = item[t] => Held(t)' = Held(t)
                         /\ item[t] \in Items => Held(t) = <<item[t]>>
                         /\ item[t] = None => Held(t) = <<>>
                         /\ item'[t] \in Items => Held(t)' = <<item'[t]>>
                         /\ item'[t] = None => Held(t)' = <<>>
  BY DEF Held
<1>k. /\ stash'[r] = stash[r] => Stashed(r)' = Stashed(r)
      /\ stash[r] \in Items => Stashed(r) = <<stash[r]>>
      /\ stash[r] = None => Stashed(r) = <<>>
      /\ stash'[r] \in Items => Stashed(r)' = <<stash'[r]>>
      /\ stash'[r] = None => Stashed(r)' = <<>>
  BY ThreadFacts DEF Stashed
<1>q. SUFFICES InLine(W, r, sent'[r])
  BY <1>p
<1>d. ASSUME sent' = sent, \A m \in Stages : W[m] = V[m] \/ W[m] = <<>>
      PROVE  InLine(W, r, sent'[r])
  BY <1>d, <1>p, <1>v, <1>n, WayDrops DEF Loses
<1>c. ASSUME NEW s \in Streams, Create(s) \/ DeleteStream(s) \/ TakeDown(s)
      PROVE  InLine(W, r, sent'[r])
  <2>1. /\ item' = item /\ inq' = inq /\ outq' = outq /\ appq' = appq
        /\ delivered' = delivered /\ sent' = sent
    BY <1>c, CreatorFrame
  <2>2. buffer' = buffer \/ buffer' = [buffer EXCEPT ![s] = <<>>]
    <3>1. CASE Create(s)
      BY <3>1 DEF Create, CreateInboundStream, OnStreamCreated
    <3>2. CASE DeleteStream(s)
      BY <3>2 DEF DeleteStream
    <3>3. CASE TakeDown(s)
      BY <3>3
      DEF TakeDown, OnStreamDeleted, JoinPrepareThread, StopServing, DeleteOutboundStream,
          EraseTranscoderStream, DeleteInboundStream
    <3> QED
      BY <1>c, <3>1, <3>2, <3>3
  <2>3. buffer'[r] = buffer[r] \/ buffer'[r] = <<>>
    BY <2>2 DEF TypeInv, Data
  <2>4. stash' = stash \/ stash' = [stash EXCEPT ![s] = None]
    BY <1>c
    DEF Create, TakeDown, CreateInboundStream, OnStreamCreated, DeleteStream, OnStreamDeleted,
        JoinPrepareThread, StopServing, DeleteOutboundStream, EraseTranscoderStream,
        DeleteInboundStream
  <2>5. stash'[r] = stash[r] \/ stash'[r] = None
    BY <2>4 DEF TypeInv, Data
  <2> QED
    BY <1>d, <1>h, <1>k, <1>s, <1>v, <1>w, <2>1, <2>3, <2>5
<1>e. ASSUME UNCHANGED <<sent, inq, outq, appq, delivered, buffer, stash, item>>
      PROVE  InLine(W, r, sent'[r])
  BY <1>d, <1>e, <1>h, <1>k, <1>s, <1>v, <1>w
<1>1. ASSUME NEW s \in Streams, SendPacket(s) PROVE InLine(W, r, sent'[r])
  <2>1. PICK x : x = <<s, sent[s] + 1>>
    OBVIOUS
  <2>2. x \in Items /\ x[2] # Event
    BY <1>1, <2>1, RouteAssumption DEF SendPacket, Event, Items, TypeInv, Data
  <2>3. /\ inq' = Append(inq, x) /\ sent' = [sent EXCEPT ![s] = @ + 1]
        /\ UNCHANGED <<outq, appq, delivered, buffer, stash, item>>
    BY <1>1, <2>1, <2>2 DEF SendPacket, Enqueue
  <2>4. /\ W[8] = Append(V[8], x) /\ \A m \in Stages : m = 8 \/ W[m] = V[m]
    BY <1>h, <1>k, <1>s, <1>v, <1>w, <2>3
  <2>5. CASE r = s
    <3>1. sent'[r] = n + 1 /\ Number(x, r) = {n + 1}
      BY <1>p, <2>1, <2>2, <2>3, <2>5 DEF Number, TypeInv, Data
    <3>2. n + 1 \in Nat /\ n < n + 1 /\ n <= n + 1
      BY <1>n
    <3> QED
      <4>1. Grows(V, W, r, n, n + 1, x)
        BY <2>4, <3>1, <3>2 DEF Grows
      <4> QED
        BY <1>v, <1>n, <2>2, <3>1, <3>2, <4>1, WayGrows
  <2>6. CASE r # s
    <3>1. sent'[r] = n /\ Number(x, r) = {}
      BY <1>p, <2>1, <2>2, <2>3, <2>6, Others DEF TypeInv, Data
    <3>2. n <= n
      BY <1>n
    <3> QED
      <4>1. Grows(V, W, r, n, n, x)
        BY <2>4, <3>1, <3>2 DEF Grows
      <4> QED
        BY <1>v, <1>n, <2>2, <3>1, <3>2, <4>1, WayGrows
  <2> QED
    BY <2>5, <2>6
<1>2. ASSUME NEW s \in Streams, SendEvent(s) PROVE InLine(W, r, sent'[r])
  <2>1. PICK x : x = <<s, Event>>
    OBVIOUS
  <2>2. x \in Items /\ x[2] = Event
    BY <2>1, RouteAssumption DEF Event, Items
  <2>3. inq' = <<x>> \o inq /\ UNCHANGED <<sent, outq, appq, delivered, buffer, stash, item>>
    BY <1>2, <2>1 DEF SendEvent, Enqueue
  <2>4. /\ W[8] = <<x>> \o V[8] /\ \A m \in Stages : m = 8 \/ W[m] = V[m]
    BY <1>h, <1>k, <1>s, <1>v, <1>w, <2>3
  <2>5. Number(x, r) = {} /\ sent'[r] = n /\ n <= n
    BY <1>p, <1>n, <2>2, <2>3, Others
  <2> QED
    <3>1. Grows(V, W, r, n, n, x)
      BY <2>4, <2>5 DEF Grows
    <3> QED
      BY <1>v, <1>n, <2>2, <2>5, <3>1, WayGrows
<1>3. ASSUME PopInbound PROVE InLine(W, r, sent'[r])
  <2>1. PICK x \in Items : x = Head(inq)
    BY <1>3, InboundMoves
  <2>2. /\ inq # <<>> /\ inq' = Tail(inq) /\ item[InWorker] = None
        /\ item'[InWorker] = x \/ item'[InWorker] = item[InWorker]
        /\ item'[OutWorker] = item[OutWorker]
        /\ UNCHANGED <<sent, outq, appq, delivered, buffer, stash>>
    BY <1>3, <2>1, InboundMoves DEF PopInbound, TypeInv, Control
  <2>3. /\ V[8] # <<>> /\ x = Head(V[8]) /\ W[8] = Tail(V[8])
        /\ W[7] = V[7] \/ W[7] = Append(V[7], x)
        /\ \A m \in Stages : m = 7 \/ m = 8 \/ W[m] = V[m]
    <3>1. V[7] = <<>> /\ (W[7] = <<x>> \/ W[7] = V[7])
      BY <1>h, <1>v, <1>w, <2>2
    <3>2. W[7] = V[7] \/ W[7] = Append(V[7], x)
      BY <3>1
    <3> QED
      BY <1>h, <1>k, <1>s, <1>v, <1>w, <2>1, <2>2, <3>2
  <2>4. \A m \in Stages : ~(7 < m /\ m < 8)
    BY <1>s
  <2>5. 7 \in Stages /\ 8 \in Stages /\ 7 < 8 /\ sent'[r] = n
    BY <1>p, <1>s, <2>2
  <2> QED
    <3>1. Passes(V, W, r, 7, 8, x)
      BY <2>3, <2>4, <2>5 DEF Passes
    <3> QED
      BY <1>v, <1>n, <2>5, <3>1, WayMoves
<1>4. ASSUME Push PROVE InLine(W, r, sent'[r])
  <2>1. /\ item'[InWorker] \in {item[InWorker], None} /\ item'[OutWorker] = item[OutWorker]
        /\ UNCHANGED <<sent, inq, outq, appq, delivered, buffer, stash>>
    BY <1>4, InboundMoves DEF Push
  <2> QED
    BY <1>d, <1>h, <1>k, <1>s, <1>v, <1>w, <2>1
<1>i. SendBufferedPackets \/ PushPacket \/ BufferMediaPacketUntilReadyToPlay =>
        \E s \in Streams, i \in Items :
          s = StreamOf(InWorker) /\ i = item[InWorker] /\ i[1] = s
  BY StreamFacts DEF SendBufferedPackets, PushPacket, BufferMediaPacketUntilReadyToPlay
<1>5. ASSUME SendBufferedPackets PROVE InLine(W, r, sent'[r])
  <2>1. PICK s \in Streams : s = StreamOf(InWorker)
    BY <1>5, <1>i
  <2>2. /\ buffer[s] # <<>> /\ buffer[s] \in Seq(Items) /\ ProcessPacket(Head(buffer[s]))
        /\ buffer' = [buffer EXCEPT ![s] = Tail(@)] /\ Sorted(s)
        /\ UNCHANGED <<sent, inq, appq, delivered, stash, item>>
    BY <1>5, <2>1 DEF SendBufferedPackets, StartInv, TypeInv, Data
  <2>3. PICK x \in Items : x = Head(buffer[s]) /\ x[1] = s
    BY <2>2, HeadTailProperties DEF Sorted
  <2>4. \/ W[5] = V[5] \/ W[5] = Append(V[5], x)
        \/ Number(x, r) = {} /\ W[5] = <<x>> \o V[5]
    BY <1>v, <1>w, <2>2, <2>3, ProcessIs
  <2>5. \A m \in Stages : m = 5 \/ m = 6 \/ W[m] = V[m]
    BY <1>h, <1>k, <1>s, <1>v, <1>w, <2>2
  <2>6. \/ V[6] # <<>> /\ x = Head(V[6]) /\ W[6] = Tail(V[6])
        \/ Number(x, r) = {} /\ W[6] = V[6]
    <3>1. CASE r = s
      BY <1>v, <1>w, <2>2, <2>3, <3>1 DEF TypeInv, Data
    <3>2. CASE r # s
      BY <1>v, <1>w, <2>2, <2>3, <3>2, Others DEF TypeInv, Data
    <3> QED
      BY <3>1, <3>2
  <2>7. /\ 5 \in Stages /\ 6 \in Stages /\ 5 < 6 /\ sent'[r] = n
        /\ \A m \in Stages : ~(5 < m /\ m < 6)
    BY <1>p, <1>s, <2>2
  <2> QED
    <3>1. Passes(V, W, r, 5, 6, x)
      BY <2>4, <2>5, <2>6, <2>7 DEF Passes
    <3> QED
      BY <1>v, <1>n, <2>7, <3>1, WayMoves
<1>6. ASSUME PushPacket PROVE InLine(W, r, sent'[r])
  <2>1. PICK s \in Streams, x \in Items : s = StreamOf(InWorker) /\ x = item[InWorker] /\ x[1] = s
    BY <1>6, <1>i
  <2>2. /\ buffer[s] = <<>> /\ ProcessPacket(x) /\ item'[InWorker] = None
        /\ item'[OutWorker] = item[OutWorker]
        /\ UNCHANGED <<sent, inq, appq, delivered, buffer, stash>>
    BY <1>6, <2>1, InboundMoves DEF PushPacket
  <2>3. \/ W[5] = V[5] \/ W[5] = Append(V[5], x)
        \/ Number(x, r) = {} /\ W[5] = <<x>> \o V[5]
    BY <1>v, <1>w, <2>2, ProcessIs
  <2>4. \A m \in Stages : m = 5 \/ m = 7 \/ W[m] = V[m]
    BY <1>h, <1>k, <1>s, <1>v, <1>w, <2>2
  <2>5. V[7] # <<>> /\ x = Head(V[7]) /\ W[7] = Tail(V[7])
    <3>1. V[7] = <<x>> /\ W[7] = <<>>
      BY <1>h, <1>v, <1>w, <2>1, <2>2
    <3> QED
      BY <3>1
  <2>6. Number(x, r) = {} \/ V[6] = <<>>
    BY <1>v, <2>1, <2>2, Others
  <2>7. /\ 5 \in Stages /\ 7 \in Stages /\ 5 < 7 /\ sent'[r] = n
        /\ \A m \in Stages : 5 < m /\ m < 7 => m = 6
    BY <1>p, <1>s, <2>2
  <2>8. Number(x, r) = {} \/ \A m \in Stages : 5 < m /\ m < 7 => V[m] = <<>>
    BY <2>6, <2>7
  <2> QED
    <3>1. Passes(V, W, r, 5, 7, x)
      BY <2>3, <2>4, <2>5, <2>7, <2>8 DEF Passes
    <3> QED
      BY <1>v, <1>n, <2>7, <3>1, WayMoves
<1>7. ASSUME BufferMediaPacketUntilReadyToPlay PROVE InLine(W, r, sent'[r])
  <2>1. PICK s \in Streams, x \in Items : s = StreamOf(InWorker) /\ x = item[InWorker] /\ x[1] = s
    BY <1>7, <1>i
  <2>2. /\ buffer' = buffer \/ buffer' = [buffer EXCEPT ![s] = Append(Kept(s), x)]
        /\ item'[InWorker] = None /\ item'[OutWorker] = item[OutWorker]
        /\ UNCHANGED <<sent, inq, outq, appq, delivered, stash>>
    BY <1>7, <2>1, InboundMoves DEF BufferMediaPacketUntilReadyToPlay
  <2>3. W[7] = <<>> /\ \A m \in Stages : m = 6 \/ m = 7 \/ W[m] = V[m]
    BY <1>h, <1>k, <1>s, <1>v, <1>w, <2>2
  <2>4. CASE W[6] = V[6]
    BY <1>d, <2>2, <2>3, <2>4
  <2>5. CASE r = s /\ W[6] = Append(Kept(s), x)
    <3>1. PICK U : U = [m \in Stages |-> IF m = 6 THEN Kept(s) ELSE V[m]]
      OBVIOUS
    <3>2. /\ 6 \in Stages /\ 7 \in Stages /\ 6 < 7 /\ sent'[r] = n
          /\ \A m \in Stages : ~(6 < m /\ m < 7)
      BY <1>p, <1>s, <2>2
    <3>3. U[6] = Kept(s) /\ \A m \in Stages : m = 6 \/ U[m] = V[m]
      BY <3>1, <3>2
    <3>4. Kept(s) \in Seq(Items) /\ (Kept(s) = V[6] \/ (V[6] # <<>> /\ Kept(s) = Tail(V[6])))
      <4>1. Kept(s) \in Seq(Items) /\ V[6] = buffer[s] /\ V[6] \in Seq(Items)
        BY <1>v, <2>5, <3>2, KeptType DEF IsWay
      <4>2. CASE Len(buffer[s]) >= MaxBuffer
        <5>1. buffer[s] # <<>> /\ Kept(s) = Tail(buffer[s])
          BY <4>2, RouteAssumption DEF Kept
        <5> QED
          BY <4>1, <5>1
      <4>3. CASE ~(Len(buffer[s]) >= MaxBuffer)
        BY <4>1, <4>3 DEF Kept
      <4> QED
        BY <4>2, <4>3
    <3>5. InLine(U, r, n) /\ IsWay(U)
      <4>1. \A m \in Stages : \/ U[m] = V[m] \/ U[m] = <<>>
                              \/ V[m] # <<>> /\ U[m] = Tail(V[m])
        BY <3>3, <3>4
      <4>2. \A m \in Stages : U[m] \in Seq(Items)
        BY <1>v, <3>3, <3>4 DEF IsWay
      <4> QED
        BY <1>v, <1>n, <4>1, <4>2, WayDrops DEF IsWay, Loses
    <3>6. U[7] # <<>> /\ x = Head(U[7]) /\ W[7] = Tail(U[7])
      <4>1. U[7] = <<x>>
        BY <1>h, <1>v, <2>1, <3>2, <3>3
      <4> QED
        BY <2>3, <4>1
    <3>7. W[6] = Append(U[6], x) /\ \A m \in Stages : m = 6 \/ m = 7 \/ W[m] = U[m]
      BY <2>3, <2>5, <3>3
    <3> QED
      <4>1. Passes(U, W, r, 6, 7, x)
        BY <3>2, <3>6, <3>7 DEF Passes
      <4> QED
        BY <1>n, <3>2, <3>5, <4>1, WayMoves
  <2>6. CASE buffer' = [buffer EXCEPT ![s] = Append(Kept(s), x)]
    <3>1. \/ buffer'[r] = buffer[r]
          \/ r = s /\ buffer'[r] = Append(Kept(s), x)
      BY <2>6 DEF TypeInv, Data
    <3> QED
      BY <1>v, <1>w, <2>4, <2>5, <3>1
  <2> QED
    BY <1>v, <1>w, <2>2, <2>4, <2>6
<1>8. ASSUME PopOutbound PROVE InLine(W, r, sent'[r])
  <2>1. PICK x \in Items : x = Head(outq)
    BY <1>8, OutboundMoves
  <2>s. PICK s \in Streams : s = x[1]
    BY DEF Items
  <2>2. /\ outq # <<>> /\ outq' = Tail(outq) /\ item[OutWorker] = None
        /\ item'[InWorker] = item[InWorker]
        /\ UNCHANGED <<sent, inq, appq, delivered, buffer>>
    BY <1>8, <2>1, OutboundMoves DEF PopOutbound, TypeInv, Control
  <2>3. \/ stash' = stash /\ item' = item
        \/ stash' = stash /\ item'[OutWorker] = x /\ ~Waits(x)
        \/ stash' = [stash EXCEPT ![s] = x] /\ item' = item
        \/ /\ stash' = [stash EXCEPT ![s] = x]
           /\ item'[OutWorker] = stash[s] /\ stash[s] \in Items /\ stash[s][1] = s
    BY <1>8, <2>1, <2>s, OutboundMoves DEF PopOutbound, Popped, TypeInv, Control
  <2>4. /\ V[5] # <<>> /\ x = Head(V[5]) /\ W[5] = Tail(V[5]) /\ V[3] = <<>>
        /\ \A m \in Stages : m \in {3, 4, 5} \/ W[m] = V[m]
    BY <1>h, <1>s, <1>v, <1>w, <2>1, <2>2
  <2>5. 3 \in Stages /\ 4 \in Stages /\ 5 \in Stages /\ sent'[r] = n
    BY <1>p, <1>s, <2>2
  <2>6. \A m \in Stages : (3 < m /\ m < 5 => m = 4) /\ ~(3 < m /\ m < 4) /\ ~(4 < m /\ m < 5)
    BY <1>s
  <2>t. stash \in [Streams -> Items \cup {None}]
    BY DEF TypeInv, Data
  <2>7. CASE stash' = stash /\ item' = item
    <3>1. Loses(V, W)
      BY <1>h, <1>k, <1>s, <1>v, <1>w, <2>4, <2>7 DEF Loses
    <3> QED
      BY <1>v, <1>n, <2>5, <3>1, WayDrops
  <2>8. CASE stash' = stash /\ item'[OutWorker] = x /\ ~Waits(x)
    <3>1. W[4] = V[4] /\ W[3] = <<x>> /\ W[3] = Append(V[3], x)
      BY <1>h, <1>k, <1>v, <1>w, <2>4, <2>8
    <3>2. Number(x, r) = {} \/ V[4] = <<>>
      <4>1. CASE x[1] # r \/ x[2] = Event
        BY <4>1, Others
      <4>2. CASE x[1] = r /\ x[2] # Event
        <5>1. stash[r] = None
          BY <2>8, <4>2 DEF Waits, TypeInv, Data
        <5> QED
          BY <1>k, <1>v, <5>1
      <4> QED
        BY <4>1, <4>2
    <3>3. \A m \in Stages : m = 3 \/ m = 5 \/ W[m] = V[m]
      BY <2>4, <3>1
    <3>4. Passes(V, W, r, 3, 5, x)
      BY <2>4, <2>6, <3>1, <3>2, <3>3 DEF Passes
    <3> QED
      BY <1>v, <1>n, <2>5, <3>4, WayMoves
  <2>9. CASE stash' = [stash EXCEPT ![s] = x] /\ item' = item
    <3>1. W[3] = V[3]
      BY <1>h, <1>v, <1>w, <2>9
    <3>2. CASE r = s
      <4>1. PICK U : U = [m \in Stages |-> IF m = 4 THEN <<>> ELSE V[m]]
        OBVIOUS
      <4>2. U[4] = <<>> /\ \A m \in Stages : m = 4 \/ U[m] = V[m]
        BY <2>5, <4>1
      <4>3. W[4] = <<x>> /\ W[4] = Append(U[4], x)
        BY <1>k, <1>w, <2>9, <2>t, <3>2, <4>2
      <4>4. Loses(V, U) /\ IsWay(U)
        <5>1. <<>> \in Seq(Items)
          BY EmptySeq
        <5> QED
          BY <1>v, <4>2, <5>1 DEF Loses, IsWay
      <4>5. InLine(U, r, n)
        BY <1>v, <1>n, <4>4, WayDrops
      <4>6. U[5] # <<>> /\ x = Head(U[5]) /\ W[5] = Tail(U[5])
        BY <2>4, <2>5, <4>2
      <4>7. \A m \in Stages : m = 4 \/ m = 5 \/ W[m] = U[m]
        BY <2>4, <3>1, <4>2
      <4>8. Passes(U, W, r, 4, 5, x)
        BY <2>6, <4>3, <4>6, <4>7 DEF Passes
      <4> QED
        BY <1>n, <2>5, <4>4, <4>5, <4>8, WayMoves
    <3>3. CASE r # s
      <4>1. W[4] = V[4]
        BY <1>k, <1>v, <1>w, <2>9, <2>t, <3>3
      <4>2. Loses(V, W)
        BY <2>4, <3>1, <4>1 DEF Loses
      <4> QED
        BY <1>v, <1>n, <2>5, <4>2, WayDrops
    <3> QED
      BY <3>2, <3>3
  <2>10. CASE /\ stash' = [stash EXCEPT ![s] = x]
              /\ item'[OutWorker] = stash[s] /\ stash[s] \in Items /\ stash[s][1] = s
    <3>y. PICK y \in Items : y = stash[s] /\ y[1] = s
      BY <2>10
    <3>1. W[3] = <<y>> /\ W[3] = Append(V[3], y)
      BY <1>h, <1>w, <2>4, <2>10, <3>y
    <3>2. CASE r = s
      <4>1. PICK U : U = [m \in Stages |-> IF m = 3 THEN <<y>> ELSE IF m = 4 THEN <<>> ELSE V[m]]
        OBVIOUS
      <4>2. U[3] = <<y>> /\ U[4] = <<>> /\ \A m \in Stages : m = 3 \/ m = 4 \/ U[m] = V[m]
        BY <2>5, <4>1
      <4>3. V[4] # <<>> /\ y = Head(V[4]) /\ U[4] = Tail(V[4])
        <5>1. V[4] = <<y>>
          BY <1>k, <1>v, <3>2, <3>y
        <5> QED
          BY <4>2, <5>1
      <4>4. W[4] = <<x>> /\ W[4] = Append(U[4], x)
        BY <1>k, <1>w, <2>10, <2>t, <3>2, <4>2
      <4>5. Passes(V, U, r, 3, 4, y)
        <5>1. U[3] = Append(V[3], y)
          BY <3>1, <4>2
        <5> QED
          BY <2>6, <4>2, <4>3, <5>1 DEF Passes
      <4>6. InLine(U, r, n)
        BY <1>v, <1>n, <2>5, <4>5, WayMoves
      <4>7. IsWay(U)
        <5>1. <<>> \in Seq(Items) /\ <<y>> \in Seq(Items)
          BY EmptySeq
        <5> QED
          BY <1>v, <4>2, <5>1 DEF IsWay
      <4>8. U[5] # <<>> /\ x = Head(U[5]) /\ W[5] = Tail(U[5])
        BY <2>4, <2>5, <4>2
      <4>9. \A m \in Stages : m = 4 \/ m = 5 \/ W[m] = U[m]
        BY <2>4, <3>1, <4>2
      <4>10. Passes(U, W, r, 4, 5, x)
        BY <2>6, <4>4, <4>8, <4>9 DEF Passes
      <4> QED
        BY <1>n, <2>5, <4>6, <4>7, <4>10, WayMoves
    <3>3. CASE r # s
      <4>1. W[4] = V[4] /\ Number(y, r) = {}
        BY <1>k, <1>v, <1>w, <2>10, <2>t, <3>3, <3>y, Others
      <4>2. PICK U : U = [m \in Stages |-> IF m = 5 THEN Tail(V[5]) ELSE V[m]]
        OBVIOUS
      <4>3. U[5] = Tail(V[5]) /\ \A m \in Stages : m = 5 \/ U[m] = V[m]
        BY <2>5, <4>2
      <4>4. Loses(V, U)
        BY <2>4, <4>3 DEF Loses
      <4>5. InLine(U, r, n)
        BY <1>v, <1>n, <4>4, WayDrops
      <4>6. IsWay(U)
        <5>1. V[5] \in Seq(Items) /\ Tail(V[5]) \in Seq(Items)
          BY <1>v, <2>4, <2>5, HeadTailProperties DEF IsWay
        <5> QED
          BY <1>v, <4>3, <5>1 DEF IsWay
      <4>7. W[3] = Append(U[3], y) /\ W[5] = U[5] /\ \A m \in Stages : m = 3 \/ m = 5 \/ W[m] = U[m]
        BY <2>4, <2>5, <3>1, <4>1, <4>3
      <4>8. Passes(U, W, r, 3, 5, y)
        BY <4>1, <4>7 DEF Passes
      <4> QED
        BY <1>n, <2>5, <4>5, <4>6, <4>8, WayMoves
    <3> QED
      BY <3>2, <3>3
  <2> QED
    BY <2>3, <2>7, <2>8, <2>9, <2>10
<1>9. ASSUME OnSendFrame PROVE InLine(W, r, sent'[r])
  <2>1. PICK x \in Items : x = item[OutWorker]
    BY <1>9, StreamFacts DEF OnSendFrame
  <2>2. /\ appq' = appq \/ appq' = Append(appq, x)
        /\ item'[OutWorker] = None /\ item'[InWorker] = item[InWorker]
        /\ UNCHANGED <<sent, inq, outq, delivered, buffer, stash>>
    BY <1>9, <2>1, OutboundMoves DEF OnSendFrame
  <2>3. \A m \in Stages : m = 2 \/ m = 3 \/ W[m] = V[m]
    BY <1>h, <1>k, <1>s, <1>v, <1>w, <2>2
  <2>4. V[3] # <<>> /\ x = Head(V[3]) /\ W[3] = Tail(V[3])
    <3>1. V[3] = <<x>> /\ W[3] = <<>>
      BY <1>h, <1>v, <1>w, <2>1, <2>2
    <3> QED
      BY <3>1
  <2>5. W[2] = V[2] \/ W[2] = Append(V[2], x)
    BY <1>v, <1>w, <2>2
  <2>6. /\ 2 \in Stages /\ 3 \in Stages /\ 2 < 3 /\ sent'[r] = n
        /\ \A m \in Stages : ~(2 < m /\ m < 3)
    BY <1>p, <1>s, <2>2
  <2> QED
    <3>1. Passes(V, W, r, 2, 3, x)
      BY <2>3, <2>4, <2>5, <2>6 DEF Passes
    <3> QED
      BY <1>v, <1>n, <2>6, <3>1, WayMoves
<1>10. ASSUME PopStreamData PROVE InLine(W, r, sent'[r])
  <2>1. appq # <<>> /\ appq \in Seq(Items)
    BY <1>10 DEF PopStreamData, TypeInv, Data
  <2>2. PICK x \in Items : x = Head(appq)
    BY <2>1, HeadTailProperties
  <2>3. PICK s \in Streams : s = x[1]
    BY DEF Items
  <2>4. /\ appq' = Tail(appq)
        /\ delivered' = delivered \/ delivered' = [delivered EXCEPT ![s] = Append(@, x)]
        /\ UNCHANGED <<sent, inq, outq, buffer, stash, item>>
    BY <1>10, <2>2, <2>3 DEF PopStreamData
  <2>5. /\ V[2] # <<>> /\ x = Head(V[2]) /\ W[2] = Tail(V[2])
        /\ \A m \in Stages : m = 1 \/ m = 2 \/ W[m] = V[m]
    BY <1>h, <1>k, <1>s, <1>v, <1>w, <2>1, <2>2, <2>4
  <2>6. W[1] = V[1] \/ W[1] = Append(V[1], x)
    <3>1. delivered'[r] = delivered[r] \/ delivered'[r] = Append(delivered[r], x)
      <4>1. delivered \in [Streams -> Seq(Items)]
        BY DEF TypeInv, Data
      <4>2. CASE delivered' = delivered
        BY <4>2
      <4>3. CASE delivered' = [delivered EXCEPT ![s] = Append(@, x)]
        BY <4>1, <4>3
      <4> QED
        BY <2>4, <4>2, <4>3
    <3> QED
      BY <1>v, <1>w, <3>1
  <2>7. /\ 1 \in Stages /\ 2 \in Stages /\ 1 < 2 /\ sent'[r] = n
        /\ \A m \in Stages : ~(1 < m /\ m < 2)
    BY <1>p, <1>s, <2>4
  <2> QED
    <3>1. Passes(V, W, r, 1, 2, x)
      BY <2>5, <2>6, <2>7 DEF Passes
    <3> QED
      BY <1>v, <1>n, <2>7, <3>1, WayMoves
<1>11. ASSUME NEW t \in Notifiers, NotifyInbound(t)
       PROVE  UNCHANGED <<sent, inq, outq, appq, delivered, buffer, stash, item>>
  BY <1>11, NotifyFrame
<1>12. ASSUME NEW s \in Streams, PrepareAsync(s)
       PROVE  UNCHANGED <<sent, inq, outq, appq, delivered, buffer, stash, item>>
  BY <1>12, PreparerFrame
<1>13. NotifyOutbound(OutWorker) \/ UNCHANGED vars =>
         UNCHANGED <<sent, inq, outq, appq, delivered, buffer, stash, item>>
  BY DEF NotifyOutbound, CheckOutPrepared, FindStream, StartStream, MarkOutPrepared, vars
<1>z. InWorker \in Notifiers /\ \A s \in Streams : Creator(s) \in Notifiers
  BY DEF Notifiers
<1> QED
  BY <1>c, <1>e, <1>1, <1>2, <1>3, <1>4, <1>5, <1>6, <1>7, <1>8, <1>9, <1>10, <1>11, <1>12,
     <1>13, <1>z
  DEF Next, InboundWorkerThread, OutboundWorkerThread

\* The packets of a stream keep their order from the provider to the publisher.
THEOREM OrderIsKept == Spec => []InOrder
<1>1. Init => OrderInv
  <2> SUFFICES ASSUME Init, NEW s \in Streams PROVE InLine(Way(s), s, sent[s])
    BY DEF OrderInv
  <2>1. TypeInv
    BY TypeInit
  <2>2. Stashed(s) = <<>> /\ \A t \in Workers : Held(t) = <<>>
    BY DEF Init, Held, Stashed
  <2>3. /\ delivered[s] = <<>> /\ appq = <<>> /\ outq = <<>> /\ buffer[s] = <<>> /\ inq = <<>>
    BY DEF Init
  <2>4. Stages = {1, 2, 3, 4, 5, 6, 7, 8}
    BY DEF Stages
  <2>5. \A k \in Stages : Way(s)[k] = <<>>
    BY <2>1, <2>2, <2>3, <2>4, WayStages, ThreadFacts
  <2>6. Numbers(<<>>, s) = {} /\ Ascending(<<>>, s)
    BY DEF Numbers, Ascending
  <2> QED
    BY <2>5, <2>6 DEF InLine
<1>2. TypeInv /\ LockInv /\ GoneInv /\ StartInv /\ OrderInv /\ [Next]_vars =>
        (TypeInv /\ LockInv /\ GoneInv /\ StartInv /\ OrderInv)'
  BY TypeStep, LockStep, GoneStep, StartStep, OrderStep
<1> QED
  BY <1>1, <1>2, TypeInit, InitControl, InitStart, OrderParts, PTL DEF Spec
=============================================================================
