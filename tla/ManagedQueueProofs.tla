------------------------- MODULE ManagedQueueProofs -------------------------
(* Proofs about ManagedQueue for every number of threads, threshold and      *)
(* bound on the items: types, the limit, and that no wake-up is lost.        *)
EXTENDS ManagedQueue, TLAPS

\* The value of pc that notify_all leaves is a function on the threads.
LEMMA NotifyType ==
  ASSUME TypeOK, NEW t \in Threads, NotifyAllAndReturn(t)
  PROVE  /\ pc' \in [Threads -> Places]
         /\ pc'[t] = "idle"
         /\ \A u \in Threads : pc'[u] # "waiting"
         /\ \A u \in Threads : u # t => (pc'[u] # "idle" <=> pc[u] # "idle")
BY DEF TypeOK, NotifyAllAndReturn, Places

\* A push adds the producer's node at one end.
LEMMA PushedType ==
  ASSUME TypeOK, NEW item \in Item
  PROVE  /\ Pushed(item) \in Seq(Item)
         /\ Len(Pushed(item)) = Len(queue) + 1
BY DEF TypeOK, Pushed

\* Types are preserved by every step.
LEMMA TypeStep == TypeOK /\ [Next]_vars => TypeOK'
<1> SUFFICES ASSUME TypeOK, [Next]_vars PROVE TypeOK'
  OBVIOUS
<1> USE DEF TypeOK
<1>1. ASSUME NEW p \in Producers, Enqueue(p) PROVE TypeOK'
  <2>1. \A urgent \in BOOLEAN :
          [from |-> p, n |-> created + 1, urgent |-> urgent] \in Item
    BY DEF Item
  <2>2. held' \in [Producers -> Item \cup {NoItem}] /\ held'[p] \in Item
    BY <1>1, <2>1 DEF Enqueue
  <2>3. \A q \in Producers \ {p} : held'[q] = held[q]
    BY <1>1 DEF Enqueue
  <2> QED BY <1>1, <2>2, <2>3 DEF Enqueue, Places, Threads
<1>2. ASSUME NEW p \in Producers, EnqueueInternal(p) PROVE TypeOK'
  <2> USE DEF EnqueueInternal, Threads
  <2>1. held[p] \in Item /\ p \in Threads
    BY <1>2
  <2>2. CASE Push(p)
    <3>1. pc' \in [Threads -> Places] /\ pc'[p] = "idle"
      BY <2>1, <2>2, NotifyType DEF Push, Return, Places
    <3>2. \A u \in Threads \ {p} : pc'[u] # "idle" <=> pc[u] # "idle"
      BY <2>1, <2>2, NotifyType DEF Push, Return
    <3>3. queue' \in Seq(Item)
      BY <2>1, <2>2, PushedType DEF Push
    <3> QED BY <1>2, <2>2, <3>1, <3>2, <3>3 DEF Push
  <2>3. CASE Drop(p)
    BY <1>2, <2>3 DEF Drop, Return, Places
  <2>4. CASE BlockOnFull(p)
    BY <1>2, <2>1, <2>4 DEF BlockOnFull, Wait, Places
  <2> QED BY <1>2, <2>2, <2>3, <2>4
<1>3. ASSUME NEW c \in Consumers, Dequeue(c) PROVE TypeOK'
  BY <1>3, QueueAssumption DEF Dequeue, Places, Threads
<1>4. ASSUME NEW c \in Consumers, DequeueLocked(c) PROVE TypeOK'
  <2> USE DEF DequeueLocked, Threads
  <2>0. c \in Threads /\ c \notin Producers
    BY QueueAssumption
  <2>1. CASE Take(c)
    <3>1. pc' \in [Threads -> Places]
      BY <2>0, <2>1, NotifyType DEF Take, Return, Places
    <3>2. \A u \in Producers : pc'[u] # "idle" <=> pc[u] # "idle"
      BY <2>0, <2>1, NotifyType DEF Take, Return
    <3>3. queue' \in Seq(Item) /\ Head(queue) \in Item
      BY <2>1 DEF Take, Available
    <3>4. taken' \in [Producers -> Nat]
      BY <2>1, <3>3 DEF Take, Item
    <3> QED BY <1>4, <3>1, <3>2, <3>3, <3>4
  <2>2. CASE GiveUp(c)
    BY <1>4, <2>0, <2>2 DEF GiveUp, Return, Places
  <2>3. CASE BlockOnEmpty(c)
    BY <1>4, <2>0, <2>3 DEF BlockOnEmpty, Wait, Places
  <2> QED BY <1>4, <2>1, <2>2, <2>3
<1>5. ASSUME NEW t \in Threads, SpuriousWake(t) \/ Expire(t) PROVE TypeOK'
  BY <1>5 DEF SpuriousWake, Expire, Places, Threads
<1>6. CASE Ripen
  BY <1>6 DEF Ripen
<1>7. CASE Clear
  BY <1>7 DEF Clear
<1>8. CASE Stop
  BY <1>8 DEF Stop, Places, Threads
<1>9. CASE UNCHANGED vars
  BY <1>9 DEF vars
<1> QED BY <1>1, <1>2, <1>3, <1>4, <1>5, <1>6, <1>7, <1>8, <1>9 DEF Next

\* The variables keep their types.
THEOREM TypeCorrect == Spec => []TypeOK
<1>1. Init => TypeOK
  <2> SUFFICES ASSUME Init PROVE TypeOK
    OBVIOUS
  <2>1. queue \in Seq(Item) /\ created \in Nat /\ ripened \in Nat
    BY DEF Init
  <2>2. pc \in [Threads -> Places] /\ \A p \in Producers : pc[p] = "idle"
    BY DEF Init, Places, Threads
  <2>3. held \in [Producers -> Item \cup {NoItem}] /\ taken \in [Producers -> Nat]
    BY DEF Init
  <2> QED BY <2>1, <2>2, <2>3 DEF Init, TypeOK
<1> QED BY <1>1, TypeStep, PTL DEF Spec

-----------------------------------------------------------------------------
\* The queue never holds more than the threshold when Enqueue waits for room.
THEOREM QueueBounded == Spec => []Bounded
<1>1. Init => Bounded
  BY QueueAssumption DEF Init, Bounded
<1>2. TypeOK /\ Bounded /\ [Next]_vars => Bounded'
  <2> SUFFICES ASSUME TypeOK, Bounded, [Next]_vars PROVE Bounded'
    OBVIOUS
  <2> USE QueueAssumption DEF Bounded
  <2>1. ASSUME NEW p \in Producers, EnqueueInternal(p) PROVE Bounded'
    <3>1. CASE Push(p)
      <4>1. held[p] \in Item
        BY <2>1 DEF EnqueueInternal, TypeOK
      <4>2. Len(queue') = Len(queue) + 1
        BY <3>1, <4>1, PushedType DEF Push
      <4> QED BY <2>1, <3>1, <4>2 DEF EnqueueInternal, Push, Full, TypeOK
    <3>2. CASE Drop(p) \/ BlockOnFull(p)
      BY <2>1, <3>2 DEF EnqueueInternal, Drop, BlockOnFull
    <3> QED BY <2>1, <3>1, <3>2 DEF EnqueueInternal
  <2>2. ASSUME NEW c \in Consumers, DequeueLocked(c) PROVE Bounded'
    <3>1. CASE Take(c)
      <4>1. queue # <<>> /\ queue' = Tail(queue)
        BY <3>1 DEF Take, Available
      <4>2. Len(queue') = Len(queue) - 1
        BY <4>1 DEF TypeOK
      <4> QED BY <2>2, <4>2 DEF DequeueLocked, TypeOK
    <3>2. CASE GiveUp(c) \/ BlockOnEmpty(c)
      BY <2>2, <3>2 DEF DequeueLocked, GiveUp, BlockOnEmpty
    <3> QED BY <2>2, <3>1, <3>2 DEF DequeueLocked
  <2>3. CASE Clear
    BY <2>3 DEF Clear
  <2>4. ASSUME NEW p \in Producers, Enqueue(p) PROVE Bounded'
    BY <2>4 DEF Enqueue
  <2>5. ASSUME NEW c \in Consumers, Dequeue(c) PROVE Bounded'
    BY <2>5 DEF Dequeue
  <2>6. ASSUME NEW t \in Threads, SpuriousWake(t) \/ Expire(t) PROVE Bounded'
    BY <2>6 DEF SpuriousWake, Expire
  <2>7. CASE Ripen \/ Stop \/ UNCHANGED vars
    BY <2>7 DEF Ripen, Stop, vars
  <2> QED BY <2>1, <2>2, <2>3, <2>4, <2>5, <2>6, <2>7 DEF Next
<1> QED BY <1>1, <1>2, TypeCorrect, PTL DEF Spec

-----------------------------------------------------------------------------
\* A step that blocks nobody new keeps the two wake-up invariants if what the
\* waiting threads wait for does not become true.
NobodyForgotten == ConsumerNotForgotten /\ ProducerNotForgotten

LEMMA NobodyWaits ==
  ASSUME \A t \in Threads : pc'[t] # "waiting"
  PROVE  NobodyForgotten'
BY DEF NobodyForgotten, ConsumerNotForgotten, ProducerNotForgotten, Threads

\* Neither side loses a wake-up: the steps that make an item or room available
\* notify all, and Stop and Clear are covered.
LEMMA WakeUpStep == TypeOK /\ NobodyForgotten /\ [Next]_vars => NobodyForgotten'
<1> SUFFICES ASSUME TypeOK, NobodyForgotten, [Next]_vars PROVE NobodyForgotten'
  OBVIOUS
<1> USE DEF TypeOK
<1>1. ASSUME NEW p \in Producers, EnqueueInternal(p) PROVE NobodyForgotten'
  <2> USE DEF EnqueueInternal, Threads
  <2>1. p \in Threads /\ p \notin Consumers /\ held[p] \in Item
    BY <1>1, QueueAssumption
  <2>2. CASE Push(p) /\ NotifyAllAndReturn(p)
    BY <2>1, <2>2, NotifyType, NobodyWaits
  <2>3. CASE Push(p) /\ ~NotifyAllAndReturn(p)
    <3>1. delayed /\ Return(p)
      BY <2>3 DEF Push, Ripe
    <3>2. Len(queue') = Len(queue) + 1
      BY <2>1, <2>3, PushedType DEF Push
    <3>3. Full => Full'
      BY <3>2, QueueAssumption DEF Full
    <3> QED BY <1>1, <3>1, <3>3
         DEF Return, NobodyForgotten, ConsumerNotForgotten, ProducerNotForgotten
  <2>4. CASE Drop(p)
    BY <1>1, <2>4 DEF Drop, Return, Full, NobodyForgotten, ConsumerNotForgotten,
                      ProducerNotForgotten
  <2>5. CASE BlockOnFull(p)
    BY <1>1, <2>1, <2>5 DEF BlockOnFull, Wait, Full, NobodyForgotten,
                      ConsumerNotForgotten, ProducerNotForgotten
  <2> QED BY <1>1, <2>2, <2>3, <2>4, <2>5
<1>2. ASSUME NEW c \in Consumers, DequeueLocked(c) PROVE NobodyForgotten'
  <2> USE DEF DequeueLocked, Threads
  <2>1. c \in Threads /\ c \notin Producers
    BY QueueAssumption
  <2>2. CASE Take(c) /\ exceedWait
    BY <2>1, <2>2, NotifyType, NobodyWaits DEF Take
  <2>3. CASE Take(c) /\ ~exceedWait
    <3>1. \A p \in Producers : pc'[p] # "waiting"
      BY <2>1, <2>3 DEF Take, Return, NobodyForgotten, ProducerNotForgotten
    <3>2. \A d \in Consumers : pc'[d] = "waiting" => pc[d] = "waiting"
      BY <2>1, <2>3 DEF Take, Return
    <3>3. \A d \in Consumers : pc[d] = "waiting" => delayed
      BY <2>3 DEF Take, Available, NobodyForgotten, ConsumerNotForgotten
    <3>4. ~stopped /\ stopped' = stopped /\ delayed' = delayed
      BY <1>2, <2>3 DEF Take
    <3> QED BY <3>1, <3>2, <3>3, <3>4
         DEF NobodyForgotten, ConsumerNotForgotten, ProducerNotForgotten
  <2>4. CASE GiveUp(c)
    BY <1>2, <2>4 DEF GiveUp, Return, Full, NobodyForgotten, ConsumerNotForgotten,
                      ProducerNotForgotten
  <2>5. CASE BlockOnEmpty(c)
    <3>1. ~delayed => queue = <<>>
      BY <2>5 DEF BlockOnEmpty, Available, Ripe
    <3> QED BY <1>2, <2>1, <2>5, <3>1 DEF BlockOnEmpty, Wait, Full, NobodyForgotten,
                      ConsumerNotForgotten, ProducerNotForgotten
  <2> QED BY <1>2, <2>2, <2>3, <2>4, <2>5
<1>3. ASSUME NEW p \in Producers, Enqueue(p) PROVE NobodyForgotten'
  BY <1>3 DEF Enqueue, Full, NobodyForgotten, ConsumerNotForgotten, ProducerNotForgotten
<1>4. ASSUME NEW c \in Consumers, Dequeue(c) PROVE NobodyForgotten'
  BY <1>4 DEF Dequeue, Full, NobodyForgotten, ConsumerNotForgotten, ProducerNotForgotten
<1>5. ASSUME NEW t \in Threads, SpuriousWake(t) \/ Expire(t) PROVE NobodyForgotten'
  BY <1>5 DEF SpuriousWake, Expire, Threads, Full, NobodyForgotten, ConsumerNotForgotten,
              ProducerNotForgotten
<1>6. CASE Stop
  <2>1. \A t \in Threads : pc'[t] # "waiting"
    BY <1>6 DEF Stop
  <2> QED BY <2>1, NobodyWaits
<1>7. CASE Clear
  BY <1>7 DEF Clear, NobodyForgotten, ConsumerNotForgotten, ProducerNotForgotten
<1>8. CASE Ripen
  BY <1>8 DEF Ripen, Full, NobodyForgotten, ConsumerNotForgotten, ProducerNotForgotten
<1>9. CASE UNCHANGED vars
  BY <1>9 DEF vars, Full, NobodyForgotten, ConsumerNotForgotten, ProducerNotForgotten
<1> QED BY <1>1, <1>2, <1>3, <1>4, <1>5, <1>6, <1>7, <1>8, <1>9 DEF Next

LEMMA NobodyForgottenAlways == Spec => []NobodyForgotten
<1>1. Init => NobodyForgotten
  BY DEF Init, Threads, NobodyForgotten, ConsumerNotForgotten, ProducerNotForgotten
<1> QED BY <1>1, WakeUpStep, TypeCorrect, PTL DEF Spec

\* No consumer stays blocked beside an item it could take, or after Stop.
THEOREM ConsumersAreWoken == Spec => []ConsumerNotForgotten
<1>1. NobodyForgotten => ConsumerNotForgotten
  BY DEF NobodyForgotten
<1> QED BY <1>1, NobodyForgottenAlways, PTL

\* No producer stays blocked on a queue with room, unless it was emptied by Clear.
THEOREM ProducersAreWoken == Spec => []ProducerNotForgotten
<1>1. NobodyForgotten => ProducerNotForgotten
  BY DEF NobodyForgotten
<1> QED BY <1>1, NobodyForgottenAlways, PTL

-----------------------------------------------------------------------------
\* DeliveryOrder is not inductive: what keeps the order is that a node still held by
\* its producer is younger than all that producer has in the queue or has delivered.
HeldIsYoungest ==
    \A p \in Producers : pc[p] # "idle" =>
      /\ held[p].from = p /\ held[p].n <= created /\ taken[p] < held[p].n
      /\ \A i \in DOMAIN queue : queue[i].from = p => queue[i].n < held[p].n

NumbersBounded ==
    /\ \A i \in DOMAIN queue : queue[i].n <= created
    /\ \A p \in Producers : taken[p] <= created

OrderInv == DeliveryOrder /\ HeldIsYoungest /\ NumbersBounded

\* Where the items of the queue are after a push, and after a pop.
LEMMA PushedElements ==
  ASSUME TypeOK, NEW item \in Item
  PROVE  /\ DOMAIN queue = 1..Len(queue) /\ DOMAIN Pushed(item) = 1..(Len(queue) + 1)
         /\ item.urgent => /\ Pushed(item)[1] = item
                           /\ \A i \in 2..(Len(queue) + 1) : Pushed(item)[i] = queue[i - 1]
         /\ ~item.urgent => /\ Pushed(item)[Len(queue) + 1] = item
                            /\ \A i \in 1..Len(queue) : Pushed(item)[i] = queue[i]
BY DEF TypeOK, Pushed

LEMMA QueueElements ==
  ASSUME TypeOK, NEW i \in DOMAIN queue
  PROVE  queue[i] \in Item /\ queue[i].n \in Nat /\ queue[i].from \in Producers
<1>1. queue \in Seq(Item)
  BY DEF TypeOK
<1>2. queue[i] \in Item
  BY <1>1
<1> QED BY <1>2 DEF Item

LEMMA TailElements ==
  ASSUME TypeOK, queue # <<>>
  PROVE  /\ DOMAIN queue = 1..Len(queue) /\ DOMAIN Tail(queue) = 1..(Len(queue) - 1)
         /\ \A i \in 1..(Len(queue) - 1) : Tail(queue)[i] = queue[i + 1]
         /\ Len(queue) \in Nat \ {0} /\ Head(queue) = queue[1]
         /\ \A i \in 1..Len(queue) : queue[i] \in Item
BY DEF TypeOK

\* A step that changes neither the items, nor who holds one, keeps the order.
LEMMA OrderUnchanged ==
  ASSUME OrderInv, UNCHANGED <<queue, held, created, taken>>,
         \A p \in Producers : pc[p] = "idle" => pc'[p] = "idle"
  PROVE  OrderInv'
BY DEF OrderInv, DeliveryOrder, HeldIsYoungest, NumbersBounded

LEMMA OrderPush ==
  ASSUME TypeOK, OrderInv, NEW p \in Producers, EnqueueInternal(p), Push(p)
  PROVE  OrderInv'
<1> DEFINE item == held[p]
<1> USE DEF EnqueueInternal
<1>1. item \in Item /\ pc[p] # "idle" /\ p \in Threads
  BY DEF TypeOK, Threads
<1>2. queue' = Pushed(item) /\ created' = created /\ taken' = taken
  BY DEF Push
<1>3. /\ pc'[p] = "idle"
      /\ \A q \in Producers \ {p} : pc'[q] # "idle" => pc[q] # "idle" /\ held'[q] = held[q]
  BY <1>1, NotifyType DEF Push, Return, TypeOK, Threads
<1>4. /\ item.from = p /\ item.n <= created /\ taken[p] < item.n
      /\ \A i \in DOMAIN queue : queue[i].from = p => queue[i].n < item.n
  BY <1>1 DEF OrderInv, HeldIsYoungest
<1>5. Len(queue) \in Nat /\ \A i \in 1..Len(queue) : queue[i] \in Item
  BY DEF TypeOK
<1> HIDE DEF item
<1>6. DeliveryOrder'
  <2>1. CASE item.urgent
    <3>1. \A i \in DOMAIN queue' :
            \/ i = 1 /\ queue'[i] = item
            \/ i - 1 \in DOMAIN queue /\ queue'[i] = queue[i - 1]
      <4>1. \A i \in 1..(Len(queue) + 1) :
              i = 1 \/ (i \in 2..(Len(queue) + 1) /\ i - 1 \in 1..Len(queue))
        BY <1>5
      <4> QED BY <1>1, <1>2, <2>1, <4>1, PushedElements
    <3>2. \A i \in DOMAIN queue' : i \in Nat /\ i >= 1
      BY <1>1, <1>2, <1>5, PushedElements
    <3> QED BY <1>2, <2>1, <3>1, <3>2 DEF OrderInv, DeliveryOrder
  <2>2. CASE ~item.urgent
    <3>1. \A i \in DOMAIN queue' :
            \/ i = Len(queue) + 1 /\ queue'[i] = item
            \/ i \in DOMAIN queue /\ i <= Len(queue) /\ queue'[i] = queue[i]
      BY <1>1, <1>2, <1>5, <2>2, PushedElements
    <3>2. \A i \in DOMAIN queue' : i \in Nat /\ i >= 1
      BY <1>1, <1>2, <1>5, PushedElements
    <3>3. \A i, j \in DOMAIN queue' : i < j => i \in DOMAIN queue /\ queue'[i] = queue[i]
      BY <1>5, <3>1, <3>2
    <3> QED BY <1>2, <1>4, <2>2, <3>1, <3>3 DEF OrderInv, DeliveryOrder
  <2> QED BY <2>1, <2>2
<1>7. \A i \in DOMAIN queue' : queue'[i] = item \/ \E j \in DOMAIN queue : queue'[i] = queue[j]
  <2>1. CASE item.urgent
    <3>1. \A i \in DOMAIN queue' :
            i = 1 \/ (i \in 2..(Len(queue) + 1) /\ i - 1 \in 1..Len(queue))
      BY <1>1, <1>2, <1>5, PushedElements
    <3> QED BY <1>1, <1>2, <2>1, <3>1, PushedElements
  <2>2. CASE ~item.urgent
    BY <1>1, <1>2, <1>5, <2>2, PushedElements
  <2> QED BY <2>1, <2>2
<1>8. HeldIsYoungest'
  BY <1>2, <1>3, <1>4, <1>7 DEF OrderInv, HeldIsYoungest
<1>9. NumbersBounded'
  BY <1>2, <1>4, <1>7 DEF OrderInv, NumbersBounded
<1> QED BY <1>6, <1>8, <1>9 DEF OrderInv

LEMMA OrderTake ==
  ASSUME TypeOK, OrderInv, NEW c \in Consumers, DequeueLocked(c), Take(c)
  PROVE  OrderInv'
<1> DEFINE item == Head(queue)
<1>1. queue # <<>> /\ queue' = Tail(queue) /\ held' = held /\ created' = created
  BY DEF DequeueLocked, Take, Available
<1>2. taken' = IF item.urgent THEN taken ELSE [taken EXCEPT ![item.from] = item.n]
  BY DEF Take
<1>3. \A p \in Producers : pc'[p] # "idle" => pc[p] # "idle"
  BY NotifyType, QueueAssumption DEF Take, Return, TypeOK, Threads
<1>4. item = queue[1] /\ item \in Item /\ 1 \in DOMAIN queue
  BY <1>1, TailElements
<1> HIDE DEF item
<1>5. \A p \in Producers : taken'[p] = taken[p] \/ (~item.urgent /\ p = item.from
                                                /\ taken'[p] = item.n)
  BY <1>2, <1>4 DEF TypeOK, Item
<1>6. DeliveryOrder'
  <2>1. /\ \A i, j \in DOMAIN queue' : i < j /\ queue'[j].urgent => queue'[i].urgent
        /\ \A i, j \in DOMAIN queue' :
             i < j /\ queue'[i].from = queue'[j].from /\ ~queue'[i].urgent
                /\ ~queue'[j].urgent => queue'[i].n < queue'[j].n
    <3>1. \A i \in DOMAIN queue' :
            /\ i \in Nat /\ i + 1 \in DOMAIN queue /\ queue'[i] = queue[i + 1]
      BY <1>1, TailElements
    <3>2. ASSUME NEW i \in DOMAIN queue', NEW j \in DOMAIN queue', i < j
          PROVE  i + 1 < j + 1
      BY <3>1, <3>2
    <3> QED BY <3>1, <3>2 DEF OrderInv, DeliveryOrder
  <2>2. ASSUME NEW i \in DOMAIN queue', ~queue'[i].urgent
        PROVE  taken'[queue'[i].from] < queue'[i].n
    <3>1. /\ queue'[i] = queue[i + 1] /\ i + 1 \in DOMAIN queue /\ 1 < i + 1
          /\ queue[i + 1] \in Item
      BY <1>1, TailElements
    <3>2. taken[queue[i + 1].from] < queue[i + 1].n
      BY <2>2, <3>1 DEF OrderInv, DeliveryOrder
    <3>3. ~item.urgent /\ queue[i + 1].from = item.from => item.n < queue[i + 1].n
      BY <1>4, <2>2, <3>1 DEF OrderInv, DeliveryOrder
    <3> QED BY <1>5, <3>1, <3>2, <3>3 DEF Item
  <2> QED BY <2>1, <2>2 DEF DeliveryOrder
<1>7. \A i \in DOMAIN queue' : \E j \in DOMAIN queue : queue'[i] = queue[j]
  BY <1>1, TailElements
<1>8. HeldIsYoungest'
  BY <1>1, <1>3, <1>4, <1>5, <1>7 DEF OrderInv, HeldIsYoungest
<1>9. NumbersBounded'
  BY <1>1, <1>4, <1>5, <1>7 DEF OrderInv, NumbersBounded
<1> QED BY <1>6, <1>8, <1>9 DEF OrderInv

LEMMA OrderStep == TypeOK /\ OrderInv /\ [Next]_vars => OrderInv'
<1> SUFFICES ASSUME TypeOK, OrderInv, [Next]_vars PROVE OrderInv'
  OBVIOUS
<1>1. ASSUME NEW p \in Producers, Enqueue(p) PROVE OrderInv'
  <2> USE <1>1 DEF Enqueue
  <2>1. DeliveryOrder'
    BY DEF OrderInv, DeliveryOrder
  <2>2. HeldIsYoungest'
    <3> SUFFICES ASSUME NEW q \in Producers, pc'[q] # "idle"
                 PROVE  /\ held'[q].from = q /\ held'[q].n <= created' /\ taken'[q] < held'[q].n
                        /\ \A i \in DOMAIN queue' :
                             queue'[i].from = q => queue'[i].n < held'[q].n
      BY DEF HeldIsYoungest
    <3>1. \A i \in DOMAIN queue : queue[i].n \in Nat /\ queue[i].n <= created
      BY QueueElements DEF OrderInv, NumbersBounded
    <3>2. CASE q = p
      <4>1. held'[p].from = p /\ held'[p].n = created + 1
        BY DEF TypeOK
      <4>2. taken[p] <= created /\ taken[p] \in Nat /\ created \in Nat
        BY DEF TypeOK, OrderInv, NumbersBounded
      <4> QED BY <3>1, <3>2, <4>1, <4>2
    <3>3. CASE q # p
      <4>1. held'[q] = held[q] /\ pc[q] # "idle" /\ held[q].n \in Nat /\ created \in Nat
        BY <3>3 DEF TypeOK, Item, Threads
      <4> QED BY <4>1 DEF OrderInv, HeldIsYoungest
    <3> QED BY <3>2, <3>3
  <2>3. NumbersBounded'
    BY QueueElements DEF TypeOK, OrderInv, NumbersBounded
  <2> QED BY <2>1, <2>2, <2>3 DEF OrderInv
<1>2. ASSUME NEW p \in Producers, EnqueueInternal(p) PROVE OrderInv'
  <2>1. CASE Push(p)
    BY <1>2, <2>1, OrderPush
  <2>2. CASE Drop(p)
    BY <1>2, <2>2 DEF EnqueueInternal, Drop, Return, TypeOK, Threads, OrderInv,
                      DeliveryOrder, HeldIsYoungest, NumbersBounded
  <2>3. CASE BlockOnFull(p)
    <3>1. \A q \in Producers : pc[q] = "idle" => pc'[q] = "idle"
      BY <1>2, <2>3 DEF EnqueueInternal, BlockOnFull, Wait, TypeOK, Threads
    <3> QED BY <1>2, <2>3, <3>1, OrderUnchanged DEF EnqueueInternal, BlockOnFull
  <2> QED BY <1>2, <2>1, <2>2, <2>3 DEF EnqueueInternal
<1>3. ASSUME NEW c \in Consumers, DequeueLocked(c) PROVE OrderInv'
  <2>1. CASE Take(c)
    BY <1>3, <2>1, OrderTake
  <2>2. CASE GiveUp(c) \/ BlockOnEmpty(c)
    <3>1. \A q \in Producers : pc[q] = "idle" => pc'[q] = "idle"
      BY <2>2, QueueAssumption DEF GiveUp, BlockOnEmpty, Return, Wait, TypeOK, Threads
    <3> QED BY <1>3, <2>2, <3>1, OrderUnchanged DEF DequeueLocked, GiveUp, BlockOnEmpty
  <2> QED BY <1>3, <2>1, <2>2 DEF DequeueLocked
<1>4. ASSUME NEW c \in Consumers, Dequeue(c) PROVE OrderInv'
  <2>1. \A q \in Producers : pc[q] = "idle" => pc'[q] = "idle"
    BY <1>4, QueueAssumption DEF Dequeue, TypeOK, Threads
  <2> QED BY <1>4, <2>1, OrderUnchanged DEF Dequeue
<1>5. ASSUME NEW t \in Threads, SpuriousWake(t) \/ Expire(t) PROVE OrderInv'
  <2>1. \A q \in Producers : pc[q] = "idle" => pc'[q] = "idle"
    BY <1>5 DEF SpuriousWake, Expire, TypeOK, Threads
  <2> QED BY <1>5, <2>1, OrderUnchanged DEF SpuriousWake, Expire
<1>6. CASE Stop
  <2>1. \A q \in Producers : pc[q] = "idle" => pc'[q] = "idle"
    BY <1>6 DEF Stop, TypeOK, Threads
  <2> QED BY <1>6, <2>1, OrderUnchanged DEF Stop
<1>7. CASE Ripen \/ UNCHANGED vars
  BY <1>7, OrderUnchanged DEF Ripen, vars
<1>8. CASE Clear
  BY <1>8 DEF Clear, OrderInv, DeliveryOrder, HeldIsYoungest, NumbersBounded
<1> QED BY <1>1, <1>2, <1>3, <1>4, <1>5, <1>6, <1>7, <1>8 DEF Next

\* Urgent items lead, and the non-urgent items of a producer are never reordered,
\* neither in the queue nor by the time they are delivered.
THEOREM DeliveredInOrder == Spec => []DeliveryOrder
<1>1. Init => OrderInv
  BY DEF Init, OrderInv, DeliveryOrder, HeldIsYoungest, NumbersBounded, Threads
<1>2. OrderInv => DeliveryOrder
  BY DEF OrderInv
<1> QED BY <1>1, <1>2, OrderStep, TypeCorrect, PTL DEF Spec
=============================================================================
