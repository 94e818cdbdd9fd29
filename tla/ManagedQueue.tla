---------------------------- MODULE ManagedQueue ----------------------------
(***************************************************************************)
(* ov::ManagedQueue, the queue between the threads of the media pipeline:  *)
(* one mutex, one condition variable shared by the producers and the       *)
(* consumers, an optional limit a producer waits for, and an optional      *)
(* delay an item stays in the queue for.  A thread's call is split where   *)
(* the code gives the mutex up: at the call itself and in wait_until().    *)
(***************************************************************************)
EXTENDS Naturals, Sequences

CONSTANTS Producers,  \* threads that call Enqueue
          Consumers,  \* threads that call Dequeue
          Threshold,  \* _threshold
          MaxItems    \* bound on the items ever created

ASSUME QueueAssumption ==
    /\ Producers \cap Consumers = {}
    /\ Threshold \in Nat \ {0}
    /\ MaxItems \in Nat

VARIABLES
    exceedWait,  \* _exceed_threshold_and_wait_enabled, set before the threads run
    delayed,     \* _buffering_delay # 0, set before the threads run
    queue,       \* the nodes from _front_node to _rear_node; Len(queue) is _size
    stopped,     \* _stop
    pc,          \* where each thread is in its call
    held,        \* the node a producer's unfinished call carries
    created,     \* nodes created so far: a node's number orders the _start stamps
    ripened,     \* the nodes up to this number are _buffering_delay old
    taken,       \* history: last non-urgent item of each producer Dequeue returned
    cleared      \* history: Clear has discarded items

vars == <<exceedWait, delayed, queue, stopped, pc, held, created, ripened, taken,
          cleared>>

Threads == Producers \cup Consumers
Item == [from : Producers, n : Nat, urgent : BOOLEAN]
NoItem == [n |-> 0]

\* "ready": runs as soon as it gets the mutex; "waiting": blocked in wait_until;
\* "expired": wait_until timed out and evaluates its predicate a last time.
Places == {"idle", "ready", "waiting", "expired"}

TypeOK ==
    /\ exceedWait \in BOOLEAN /\ delayed \in BOOLEAN /\ stopped \in BOOLEAN
    /\ cleared \in BOOLEAN
    /\ queue \in Seq(Item)
    /\ pc \in [Threads -> Places]
    /\ held \in [Producers -> Item \cup {NoItem}]
    /\ \A p \in Producers : pc[p] # "idle" => held[p] \in Item
    /\ created \in Nat /\ ripened \in Nat
    /\ taken \in [Producers -> Nat]

Init ==
    /\ exceedWait \in BOOLEAN /\ delayed \in BOOLEAN
    /\ queue = <<>> /\ stopped = FALSE /\ cleared = FALSE
    /\ pc = [t \in Threads |-> "idle"]
    /\ held = [p \in Producers |-> NoItem]
    /\ created = 0 /\ ripened = 0
    /\ taken = [p \in Producers |-> 0]

-----------------------------------------------------------------------------
\* The node's GetBufferedTimeMsInternal() has reached _buffering_delay.
Ripe(item) == ~delayed \/ item.urgent \/ item.n <= ripened

\* Mutant: the predicate leaves the last item in the queue.
AvailableBeyondOne == Len(queue) > 1 /\ Ripe(Head(queue))

\* What a consumer waits for.
Available == queue # <<>> /\ Ripe(Head(queue))

\* Mutant: the predicate compares with <= instead of <.
FullAboveThreshold == Len(queue) > Threshold

\* What a producer waits for is the negation.
Full == Len(queue) >= Threshold

\* Mutant: notify_one on the condition variable that both sides share.
NotifyOneAndReturn(t) ==
    LET waiters == {u \in Threads \ {t} : pc[u] = "waiting"} IN
      IF waiters = {} THEN pc' = [pc EXCEPT ![t] = "idle"]
      ELSE \E u \in waiters : pc' = [pc EXCEPT ![t] = "idle", ![u] = "ready"]

\* _condition.notify_all(), called by a thread that then returns.
NotifyAllAndReturn(t) ==
    pc' = [u \in Threads |->
             IF u = t THEN "idle" ELSE IF pc[u] = "waiting" THEN "ready" ELSE pc[u]]

Return(t) == pc' = [pc EXCEPT ![t] = "idle"]
Wait(t)   == pc' = [pc EXCEPT ![t] = "waiting"]

-----------------------------------------------------------------------------
(* Enqueue *)

\* A caller creates the node, which stamps it, and goes for the mutex.
Enqueue(p) ==
    /\ pc[p] = "idle" /\ created < MaxItems
    /\ \E urgent \in BOOLEAN :
         held' = [held EXCEPT ![p] = [from |-> p, n |-> created + 1, urgent |-> urgent]]
    /\ created' = created + 1
    /\ pc' = [pc EXCEPT ![p] = "ready"]
    /\ UNCHANGED <<exceedWait, delayed, queue, stopped, ripened, taken, cleared>>

\* Mutant: the urgent flag is ignored.
PushedBack(item) == Append(queue, item)

\* The result of PushBack or PushFront.
Pushed(item) == IF item.urgent THEN <<item>> \o queue ELSE Append(queue, item)

Push(p) ==
    /\ exceedWait => ~Full /\ ~stopped
    /\ queue' = Pushed(held[p])
    /\ IF Ripe(Head(queue')) THEN NotifyAllAndReturn(p) ELSE Return(p)
    /\ held' = [held EXCEPT ![p] = NoItem]

\* The wait for room ended by the timeout, or in a stopped queue: the node is dropped.
Drop(p) ==
    /\ exceedWait
    /\ IF Full THEN pc[p] = "expired" ELSE stopped
    /\ Return(p)
    /\ held' = [held EXCEPT ![p] = NoItem]
    /\ UNCHANGED queue

\* Mutant: the node is released when the wait starts.
BlockWithoutNode(p) ==
    /\ exceedWait /\ Full /\ pc[p] # "expired"
    /\ Wait(p)
    /\ held' = [held EXCEPT ![p] = NoItem]
    /\ UNCHANGED queue

BlockOnFull(p) ==
    /\ exceedWait /\ Full /\ pc[p] # "expired"
    /\ Wait(p)
    /\ UNCHANGED <<queue, held>>

\* The producer holds the mutex: at the call, notified, woken spuriously or timed out.
EnqueueInternal(p) ==
    /\ pc[p] \in {"ready", "expired"}
    /\ Push(p) \/ Drop(p) \/ BlockOnFull(p)
    /\ UNCHANGED <<exceedWait, delayed, stopped, created, ripened, taken, cleared>>

-----------------------------------------------------------------------------
(* Dequeue *)

Dequeue(c) ==
    /\ pc[c] = "idle"
    /\ pc' = [pc EXCEPT ![c] = "ready"]
    /\ UNCHANGED <<exceedWait, delayed, queue, stopped, held, created, ripened, taken,
                   cleared>>

\* Mutant: Dequeue makes room and tells no producer.
TakeQuietly(c) ==
    /\ ~stopped /\ Available
    /\ queue' = Tail(queue)
    /\ LET item == Head(queue) IN
         taken' = IF item.urgent THEN taken ELSE [taken EXCEPT ![item.from] = item.n]
    /\ Return(c)

Take(c) ==
    /\ ~stopped /\ Available
    /\ queue' = Tail(queue)
    /\ LET item == Head(queue) IN
         taken' = IF item.urgent THEN taken ELSE [taken EXCEPT ![item.from] = item.n]
    /\ IF exceedWait THEN NotifyAllAndReturn(c) ELSE Return(c)

\* Stop was called, or the timeout passed: the caller gets nothing.
GiveUp(c) ==
    /\ stopped \/ (~Available /\ pc[c] = "expired")
    /\ Return(c)
    /\ UNCHANGED <<queue, taken>>

BlockOnEmpty(c) ==
    /\ ~stopped /\ ~Available /\ pc[c] # "expired"
    /\ Wait(c)
    /\ UNCHANGED <<queue, taken>>

DequeueLocked(c) ==
    /\ pc[c] \in {"ready", "expired"}
    /\ Take(c) \/ GiveUp(c) \/ BlockOnEmpty(c)
    /\ UNCHANGED <<exceedWait, delayed, stopped, held, created, ripened, cleared>>

-----------------------------------------------------------------------------
(* The condition variable, the clock, and the owner of the queue *)

\* std::condition_variable may wake a waiter for no reason.
SpuriousWake(t) ==
    /\ pc[t] = "waiting"
    /\ pc' = [pc EXCEPT ![t] = "ready"]
    /\ UNCHANGED <<exceedWait, delayed, queue, stopped, held, created, ripened,
                   taken, cleared>>

\* The timeout of the call passes.  An Infinite one never does: Expire is not fair.
Expire(t) ==
    /\ pc[t] = "waiting"
    /\ pc' = [pc EXCEPT ![t] = "expired"]
    /\ UNCHANGED <<exceedWait, delayed, queue, stopped, held, created, ripened,
                   taken, cleared>>

\* Time passes: the oldest node that is younger than the delay reaches it.
Ripen ==
    /\ delayed /\ ripened < created
    /\ ripened' = ripened + 1
    /\ UNCHANGED <<exceedWait, delayed, queue, stopped, pc, held, created, taken,
                   cleared>>

\* Clear notifies nobody.
Clear ==
    /\ queue # <<>>
    /\ queue' = <<>> /\ cleared' = TRUE
    /\ UNCHANGED <<exceedWait, delayed, stopped, pc, held, created, ripened, taken>>

\* Mutant: Stop sets the flag and notifies nobody.
StopQuietly ==
    /\ ~stopped /\ stopped' = TRUE
    /\ UNCHANGED <<exceedWait, delayed, queue, pc, held, created, ripened, taken, cleared>>

Stop ==
    /\ ~stopped
    /\ stopped' = TRUE
    /\ pc' = [u \in Threads |-> IF pc[u] = "waiting" THEN "ready" ELSE pc[u]]
    /\ UNCHANGED <<exceedWait, delayed, queue, held, created, ripened, taken,
                   cleared>>

Next ==
    \/ \E p \in Producers : Enqueue(p) \/ EnqueueInternal(p)
    \/ \E c \in Consumers : Dequeue(c) \/ DequeueLocked(c)
    \/ \E t \in Threads : SpuriousWake(t) \/ Expire(t)
    \/ Ripen \/ Clear \/ Stop

Spec == Init /\ [][Next]_vars

\* Every thread gets the mutex in the end, a worker calls Dequeue again when it
\* returns, and time passes.  Nobody need call Enqueue, Clear or Stop, and no
\* timeout need pass: most callers wait with Infinite.
Fairness ==
    /\ \A p \in Producers : WF_vars(EnqueueInternal(p))
    /\ \A c \in Consumers : WF_vars(Dequeue(c)) /\ WF_vars(DequeueLocked(c))
    /\ WF_vars(Ripen)

FairSpec == Spec /\ Fairness
-----------------------------------------------------------------------------
(* Properties *)

\* With the wait enabled the queue never exceeds its threshold, whatever the
\* producers that wake up together find (EnqueueInternal, and the comment on
\* _exceed_threshold_and_wait_enabled).
Bounded == exceedWait => Len(queue) <= Threshold

\* No lost wake-up for a consumer of a queue without delay: nobody stays blocked in
\* Dequeue beside an item or after Stop.
ConsumerNotForgotten ==
    \A c \in Consumers : pc[c] = "waiting" => ~stopped /\ (delayed \/ queue = <<>>)

\* No lost wake-up for a producer: whoever is blocked in Enqueue is blocked on a full
\* queue, provided that nobody has called Clear.
ProducerNotForgotten ==
    \A p \in Producers : pc[p] = "waiting" => exceedWait /\ (Full \/ cleared)

\* Among the items of one producer the non-urgent ones leave in the order in which
\* Enqueue was called, and urgent items are always ahead of them.
DeliveryOrder ==
    /\ \A i, j \in DOMAIN queue : i < j /\ queue[j].urgent => queue[i].urgent
    /\ \A i, j \in DOMAIN queue :
         i < j /\ queue[i].from = queue[j].from /\ ~queue[i].urgent /\ ~queue[j].urgent
           => queue[i].n < queue[j].n
    /\ \A i \in DOMAIN queue : ~queue[i].urgent => taken[queue[i].from] < queue[i].n

\* Stop() ends every Dequeue that is blocked, however long its timeout.
StopReleasesConsumers == \A c \in Consumers : stopped ~> pc[c] = "idle"

InQueue(n) == \E i \in DOMAIN queue : queue[i].n = n

\* Without a delay whatever is in the queue leaves it while the queue is not stopped.
EventuallyDelivered ==
    \A n \in 1..MaxItems : InQueue(n) /\ ~delayed ~> ~InQueue(n) \/ stopped

\* The same for a queue with a delay: an item is held for a certain amount of time.
DelayedItemDelivered ==
    \A n \in 1..MaxItems : InQueue(n) /\ delayed ~> ~InQueue(n) \/ stopped
=============================================================================
