-------------------------- MODULE SchedulerProofs -------------------------
(***************************************************************************)
(* Proofs about TaskScheduler and SchedulerTelemetry for every set of      *)
(* tasks, concurrency, queue size and strategy: the scheduler's invariants *)
(* and its refinement of AbstractScheduler, then that the counters balance *)
(* with what is in flight.                                                 *)
(***************************************************************************)
EXTENDS TaskSchedulerRefinement, SchedulerTelemetry, FiniteSetTheorems, SequenceTheorems, TLAPS

(* What popping the front of a VecDeque leaves, element by element.        *)
LEMMA TailElements ==
  ASSUME NEW S, NEW q \in Seq(S), q # <<>>
  PROVE  /\ Head(q) = q[1] /\ Head(q) \in S
         /\ Tail(q) \in Seq(S)
         /\ Len(q) \in Nat \ {0}
         /\ Len(Tail(q)) = Len(q) - 1
         /\ \A i \in 1..Len(Tail(q)) : Tail(q)[i] = q[i + 1]
BY HeadTailProperties, EmptySeq, LenProperties, ElementOfSeq

(* What the discard of an enqueue leaves: the queue as it was, or the      *)
(* queue without its head; never max_queue elements, unless it is empty.   *)
LEMMA AfterDiscardCases ==
  ASSUME TypeOK
  PROVE  /\ AfterDiscard \in Seq(Tasks)
         /\ Len(AfterDiscard) \in Nat
         /\ AfterDiscard = <<>> \/ Len(AfterDiscard) < MaxQueue
                                \/ Len(AfterDiscard) < Len(queue)
         /\ \/ AfterDiscard = queue /\ Discarded = {}
            \/ /\ queue # <<>>
               /\ AfterDiscard = Tail(queue)
               /\ Discarded = {Head(queue)}
BY SchedulerAssumption, TailElements DEF TypeOK, AfterDiscard, Discarded

------------------------------------------------------------------------------
(* Every step keeps the variables within their types.                      *)
LEMMA TypeStep == TypeOK /\ [Next]_vars => TypeOK'
<1> SUFFICES ASSUME TypeOK, [Next]_vars PROVE TypeOK'
  OBVIOUS
<1> USE DEF TypeOK, Status, Proc, Move
<1>1. ASSUME NEW t \in Tasks, Actor(t) PROVE TypeOK'
  <2>1. CASE Start(t)
    BY <2>1 DEF Start
  <2>2. CASE Drop(t)
    BY <2>2 DEF Drop, vars
  <2>3. CASE DecideEnqueue(t)
    BY <2>3 DEF DecideEnqueue
  <2>4. CASE Enqueue(t)
    <3>1. queue' \in Seq(Tasks)
      BY <2>4, AfterDiscardCases, AppendProperties DEF Enqueue
    <3>2. status' \in [Tasks -> Status]
      BY <2>4 DEF Enqueue
    <3>3. QED BY <2>4, <3>1, <3>2 DEF Enqueue, NotifyOne
  <2>5. QED BY <1>1, <2>1, <2>2, <2>3, <2>4 DEF Actor
<1>2. CASE Processor
  <2>1. CASE Pop
    <3>1. Head(queue) \in Tasks /\ Tail(queue) \in Seq(Tasks)
      BY <2>1, TailElements DEF Pop
    <3>2. QED BY <2>1, <3>1 DEF Pop
  <2>2. CASE PopNothing
    BY <2>2 DEF PopNothing
  <2>3. CASE AwaitNotify
    BY <2>3 DEF AwaitNotify
  <2>4. CASE JoinWaiters
    BY <2>4 DEF JoinWaiters
  <2>5. ASSUME NEW t \in Tasks, AcquireFree(t) \/ TakeGranted(t) PROVE TypeOK'
    BY <2>5 DEF AcquireFree, TakeGranted
  <2>6. QED BY <1>2, <2>1, <2>2, <2>3, <2>4, <2>5 DEF Processor
<1>3. ASSUME NEW t \in Tasks, Handler(t) PROVE TypeOK'
  BY <1>3 DEF Handler, Settle, Release, ReturnPermit
<1>4. CASE UNCHANGED vars
  BY <1>4 DEF vars
<1>5. QED BY <1>1, <1>2, <1>3, <1>4 DEF Next

(* TaskScheduler is well typed for every value of its constants.           *)
THEOREM TypeCorrect == Spec => []TypeOK
<1>1. Init => TypeOK
  BY SchedulerAssumption, EmptySeq DEF Init, TypeOK, Status, Proc
<1>2. QED BY <1>1, TypeStep, PTL DEF Spec
------------------------------------------------------------------------------
(* A handler task starts: the set of permit owners grows by it.            *)
LEMMA RunningGrows ==
  ASSUME TypeOK, IsFiniteSet(Running), NEW t \in Tasks, t \notin Running,
         NEW to \in {"running", "running_q"}, Move(t, to)
  PROVE  IsFiniteSet(Running') /\ Cardinality(Running') = Cardinality(Running) + 1
<1>1. Running' = Running \cup {t}
  BY DEF Running, Move, TypeOK
<1>2. QED BY <1>1, FS_AddElement

(* A permit owner ends: the set of permit owners shrinks by it.            *)
LEMMA RunningShrinks ==
  ASSUME TypeOK, IsFiniteSet(Running), NEW t \in Running, Move(t, "idle")
  PROVE  IsFiniteSet(Running') /\ Cardinality(Running') = Cardinality(Running) - 1
<1>1. Running' = Running \ {t}
  BY DEF Running, Move, TypeOK
<1>2. QED BY <1>1, FS_RemoveElement

(* PermitConservation is inductive relative to TypeOK and the fact that    *)
(* the tasks in the queue and in the processor's hand own no permit.       *)
LEMMA PermitStep ==
  TypeOK /\ QueueAgrees /\ PermitConservation /\ [Next]_vars => PermitConservation'
<1> SUFFICES ASSUME TypeOK, QueueAgrees, PermitConservation, [Next]_vars
             PROVE  PermitConservation'
  OBVIOUS
<1> USE DEF PermitConservation
<1>0. /\ permits \in Nat /\ Concurrency \in Nat
      /\ IsFiniteSet(Running) /\ Cardinality(Running) \in Nat
  BY SchedulerAssumption, FS_CardinalityType DEF TypeOK
<1>1. ASSUME NEW t \in Tasks, Actor(t) PROVE PermitConservation'
  <2>1. CASE Start(t)
    <3>1. t \notin Running /\ Move(t, "running")
      BY <2>1 DEF Start, CanDispatch, Running
    <3>2. QED BY <1>0, <2>1, <3>1, RunningGrows DEF Start, Granted
  <2>2. CASE Drop(t)
    BY <2>2 DEF Drop, vars, Running, Granted
  <2>3. CASE DecideEnqueue(t)
    <3>1. Running' = Running
      BY <2>3 DEF DecideEnqueue, CanDispatch, Running, Move, TypeOK
    <3>2. QED BY <2>3, <3>1 DEF DecideEnqueue, Granted
  <2>4. CASE Enqueue(t)
    <3>1. \A u \in Discarded : u \in Tasks /\ status[u] = "queued"
      BY TailElements DEF Discarded, QueueAgrees, TypeOK
    <3>2. Running' = Running
      BY <2>4, <3>1 DEF Enqueue, Running, TypeOK
    <3>3. Granted' = Granted
      BY <2>4 DEF Enqueue, NotifyOne, Granted
    <3>4. QED BY <2>4, <3>2, <3>3 DEF Enqueue
  <2>5. QED BY <1>1, <2>1, <2>2, <2>3, <2>4 DEF Actor
<1>2. CASE Processor
  <2>1. CASE Pop
    <3>1. Head(queue) \in Tasks /\ status[Head(queue)] = "queued"
      BY <2>1, TailElements DEF Pop, QueueAgrees, TypeOK
    <3>2. Running' = Running
      BY <2>1, <3>1 DEF Pop, Running, Move, TypeOK
    <3>3. QED BY <2>1, <3>2 DEF Pop, Granted
  <2>2. CASE PopNothing \/ AwaitNotify \/ JoinWaiters
    <3>1. Running' = Running /\ Granted' = Granted /\ permits' = permits
      BY <2>2 DEF PopNothing, AwaitNotify, JoinWaiters, Running, Granted
    <3>2. QED BY <3>1
  <2>3. ASSUME NEW t \in Tasks, AcquireFree(t) \/ TakeGranted(t)
        PROVE  PermitConservation'
    <3>1. t \notin Running /\ Move(t, "running_q")
      BY <2>3 DEF AcquireFree, TakeGranted, Running
    <3>2. permits' + Granted' = permits + Granted - 1 /\ permits' + Granted' \in Nat
      BY <1>0, <2>3 DEF AcquireFree, TakeGranted, Granted
    <3>3. QED BY <1>0, <3>1, <3>2, RunningGrows DEF Granted
  <2>4. QED BY <1>2, <2>1, <2>2, <2>3 DEF Processor
<1>3. ASSUME NEW t \in Tasks, Handler(t) PROVE PermitConservation'
  <2>1. CASE Settle(t)
    <3>1. Running' = Running
      BY <2>1 DEF Settle, Running, Move, TypeOK
    <3>2. QED BY <2>1, <3>1 DEF Settle, Granted
  <2>2. CASE Release(t)
    <3>1. t \in Running /\ Move(t, "idle")
      BY <2>2 DEF Release, Running
    <3>2. permits' + Granted' = permits + Granted + 1
      BY <1>0, <2>2 DEF Release, ReturnPermit, Granted
    <3>3. QED BY <1>0, <3>1, <3>2, RunningShrinks DEF Granted
  <2>3. QED BY <1>3, <2>1, <2>2 DEF Handler
<1>4. CASE UNCHANGED vars
  BY <1>4 DEF vars, Running, Granted
<1>5. QED BY <1>1, <1>2, <1>3, <1>4 DEF Next
------------------------------------------------------------------------------
(* Pushing behind what the discard left keeps queue and statuses agreed.   *)
LEMMA EnqueueAgrees ==
  ASSUME TypeOK, QueueAgrees, NEW t \in Tasks, Enqueue(t)
  PROVE  QueueAgrees'
<1> DEFINE kept == AfterDiscard
           n    == Len(kept)
<1>1. /\ kept \in Seq(Tasks) /\ n \in Nat
      /\ queue' = Append(kept, t)
      /\ Len(queue') = n + 1
      /\ \A i \in 1..n : queue'[i] = kept[i] /\ kept[i] \in Tasks
      /\ queue'[n + 1] = t
  BY AfterDiscardCases, AppendProperties, ElementOfSeq DEF Enqueue
<1>2. /\ \A i \in 1..n : kept[i] # t /\ kept[i] \notin Discarded
                          /\ status[kept[i]] = "queued"
      /\ \A i, j \in 1..n : kept[i] = kept[j] => i = j
      /\ \A u \in Tasks \ Discarded : status[u] = "queued" => \E i \in 1..n : kept[i] = u
      /\ \A u \in Discarded : u \in Tasks /\ status[u] = "queued"
  <2>1. CASE kept = queue /\ Discarded = {}
    BY <2>1 DEF QueueAgrees, Enqueue
  <2>2. CASE queue # <<>> /\ kept = Tail(queue) /\ Discarded = {Head(queue)}
    <3>1. /\ Head(queue) = queue[1] /\ Head(queue) \in Tasks
          /\ Len(queue) \in Nat \ {0} /\ n = Len(queue) - 1
          /\ \A i \in 1..n : kept[i] = queue[i + 1]
      BY <2>2, TailElements DEF TypeOK
    <3>2. \A i \in 1..n : kept[i] # t /\ kept[i] \notin Discarded
                           /\ status[kept[i]] = "queued"
      BY <2>2, <3>1 DEF QueueAgrees, Enqueue
    <3>3. \A i, j \in 1..n : kept[i] = kept[j] => i = j
      BY <3>1 DEF QueueAgrees
    <3>4. ASSUME NEW u \in Tasks \ Discarded, status[u] = "queued"
          PROVE  \E i \in 1..n : kept[i] = u
      <4>1. PICK i \in 1..Len(queue) : queue[i] = u
        BY <3>4 DEF QueueAgrees
      <4>2. i # 1
        BY <2>2, <3>1, <3>4, <4>1
      <4>3. i - 1 \in 1..n /\ kept[i - 1] = u
        BY <3>1, <4>1, <4>2
      <4>4. QED BY <4>3
    <3>5. \A u \in Discarded : u \in Tasks /\ status[u] = "queued"
      BY <2>2, <3>1 DEF QueueAgrees
    <3>6. QED BY <3>2, <3>3, <3>4, <3>5
  <2>3. QED BY <2>1, <2>2, AfterDiscardCases
<1>3. /\ status'[t] = "queued" /\ status[t] = "enqueuing"
      /\ \A u \in Tasks \ {t} : status'[u] = IF u \in Discarded THEN "idle" ELSE status[u]
  BY DEF Enqueue
<1> HIDE DEF kept, n
<1>4. \A i \in 1..Len(queue') : status'[queue'[i]] = "queued"
  BY <1>1, <1>2, <1>3
<1>5. \A i, j \in 1..Len(queue') : queue'[i] = queue'[j] => i = j
  BY <1>1, <1>2
<1>6. ASSUME NEW u \in Tasks, status'[u] = "queued"
      PROVE  \E i \in 1..Len(queue') : queue'[i] = u
  <2>1. CASE u = t
    BY <1>1, <2>1
  <2>2. CASE u # t
    <3>1. u \notin Discarded /\ status[u] = "queued"
      BY <1>3, <1>6, <2>2
    <3>2. PICK i \in 1..n : kept[i] = u
      BY <1>2, <3>1
    <3>3. i \in 1..Len(queue') /\ queue'[i] = u
      BY <1>1, <3>2
    <3>4. QED BY <3>3
  <2>3. QED BY <2>1, <2>2
<1>7. \A u \in Tasks : status'[u] = "hand" <=> status[u] = "hand"
  BY <1>2, <1>3
<1>8. proc' \in {"acquire", "waiting", "granted"} <=> proc \in {"acquire", "waiting", "granted"}
  BY DEF Enqueue, NotifyOne
<1>9. QED BY <1>4, <1>5, <1>6, <1>7, <1>8 DEF QueueAgrees

(* Popping takes the head's status along with it.                          *)
LEMMA PopAgrees ==
  ASSUME TypeOK, QueueAgrees, Pop
  PROVE  QueueAgrees'
<1>1. /\ Head(queue) = queue[1] /\ Head(queue) \in Tasks
      /\ Len(queue) \in Nat \ {0} /\ Len(queue') = Len(queue) - 1
      /\ \A i \in 1..Len(queue') : queue'[i] = queue[i + 1]
  BY TailElements DEF Pop, TypeOK
<1>2. /\ status'[Head(queue)] = "hand"
      /\ \A u \in Tasks \ {Head(queue)} : status'[u] = status[u]
  BY <1>1 DEF Pop, Move, TypeOK
<1>3. \A i \in 1..Len(queue') : queue'[i] # Head(queue) /\ status'[queue'[i]] = "queued"
  <2> SUFFICES ASSUME NEW i \in 1..Len(queue')
               PROVE  queue'[i] # Head(queue) /\ status'[queue'[i]] = "queued"
    OBVIOUS
  <2>1. queue[i + 1] \in Tasks /\ queue[i + 1] # queue[1] /\ status[queue[i + 1]] = "queued"
    BY <1>1, ElementOfSeq DEF QueueAgrees, TypeOK
  <2>2. QED BY <1>1, <1>2, <2>1
<1>4. \A i, j \in 1..Len(queue') : queue'[i] = queue'[j] => i = j
  BY <1>1 DEF QueueAgrees
<1>5. ASSUME NEW u \in Tasks, status'[u] = "queued"
      PROVE  \E i \in 1..Len(queue') : queue'[i] = u
  <2>1. u # Head(queue) /\ status[u] = "queued"
    BY <1>1, <1>2, <1>5
  <2>2. PICK i \in 1..Len(queue) : queue[i] = u
    BY <2>1 DEF QueueAgrees
  <2>3. i - 1 \in 1..Len(queue') /\ queue'[i - 1] = u
    BY <1>1, <2>1, <2>2
  <2>4. QED BY <2>3
<1>6. \A u \in Tasks : status[u] # "hand"
  BY DEF QueueAgrees, Pop
<1>7. \A u \in Tasks : status'[u] = "hand" <=> u = Head(queue)
  BY <1>1, <1>2, <1>6
<1>8. proc' = "acquire"
  BY DEF Pop
<1>9. QED BY <1>1, <1>3, <1>4, <1>5, <1>7, <1>8 DEF QueueAgrees

(* A step that leaves the queue alone and neither makes a task queued nor  *)
(* takes one from the queue, and moves the processor to or from the states *)
(* in which it holds a task together with that task.                       *)
LEMMA AgreesElsewhere ==
  ASSUME TypeOK, QueueAgrees, queue' = queue,
         \A u \in Tasks : status'[u] = "queued" <=> status[u] = "queued",
         \A u \in Tasks : status'[u] = "hand" => status[u] = "hand",
         proc' \in {"acquire", "waiting", "granted"} <=> \E u \in Tasks : status'[u] = "hand"
  PROVE  QueueAgrees'
<1>1. \A i \in 1..Len(queue) : queue[i] \in Tasks
  BY ElementOfSeq DEF TypeOK
<1>2. QED BY <1>1 DEF QueueAgrees

(* Every step keeps the queue and the statuses agreed.                     *)
LEMMA AgreesStep == TypeOK /\ QueueAgrees /\ [Next]_vars => QueueAgrees'
<1> SUFFICES ASSUME TypeOK, QueueAgrees, [Next]_vars PROVE QueueAgrees'
  OBVIOUS
<1>0. proc \in {"acquire", "waiting", "granted"} <=> \E u \in Tasks : status[u] = "hand"
  BY DEF QueueAgrees
<1>1. ASSUME NEW t \in Tasks, Actor(t) PROVE QueueAgrees'
  <2>1. CASE Start(t)
    BY <1>0, <2>1, AgreesElsewhere DEF Start, CanDispatch, Move, TypeOK
  <2>2. CASE Drop(t)
    BY <1>0, <2>2, AgreesElsewhere DEF Drop, vars
  <2>3. CASE DecideEnqueue(t)
    BY <1>0, <2>3, AgreesElsewhere DEF DecideEnqueue, CanDispatch, Move, TypeOK
  <2>4. CASE Enqueue(t)
    BY <2>4, EnqueueAgrees
  <2>5. QED BY <1>1, <2>1, <2>2, <2>3, <2>4 DEF Actor
<1>2. CASE Processor
  <2>1. CASE Pop
    BY <2>1, PopAgrees
  <2>2. CASE PopNothing
    BY <1>0, <2>2, AgreesElsewhere DEF PopNothing
  <2>3. CASE AwaitNotify
    BY <1>0, <2>3, AgreesElsewhere DEF AwaitNotify
  <2>4. CASE JoinWaiters
    BY <1>0, <2>4, AgreesElsewhere DEF JoinWaiters
  <2>5. ASSUME NEW t \in Tasks, AcquireFree(t) \/ TakeGranted(t) PROVE QueueAgrees'
    <3>1. \A u \in Tasks : status[u] = "hand" => u = t
      BY <2>5 DEF QueueAgrees, AcquireFree, TakeGranted
    <3>2. /\ status[t] = "hand" /\ status'[t] = "running_q"
          /\ \A u \in Tasks \ {t} : status'[u] = status[u]
      BY <2>5 DEF AcquireFree, TakeGranted, Move, TypeOK
    <3>3. \A u \in Tasks : status'[u] # "hand"
      BY <3>1, <3>2
    <3>4. queue' = queue /\ proc' = "pop"
      BY <2>5 DEF AcquireFree, TakeGranted
    <3>5. \A u \in Tasks : status'[u] = "queued" <=> status[u] = "queued"
      BY <3>2
    <3>6. QED BY <3>3, <3>4, <3>5, AgreesElsewhere
  <2>6. QED BY <1>2, <2>1, <2>2, <2>3, <2>4, <2>5 DEF Processor
<1>3. ASSUME NEW t \in Tasks, Handler(t) PROVE QueueAgrees'
  <2>1. /\ queue' = queue
        /\ status[t] \in {"running", "running_q", "settled"}
        /\ status'[t] \in {"idle", "settled"}
        /\ \A u \in Tasks \ {t} : status'[u] = status[u]
    BY <1>3 DEF Handler, Settle, Release, Move, TypeOK
  <2>2. \A u \in Tasks : /\ status'[u] = "queued" <=> status[u] = "queued"
                         /\ status'[u] = "hand" <=> status[u] = "hand"
    BY <2>1
  <2>3. proc' \in {"acquire", "waiting", "granted"} <=> proc \in {"acquire", "waiting", "granted"}
    BY <1>3 DEF Handler, Settle, Release, ReturnPermit
  <2>4. QED BY <1>0, <2>1, <2>2, <2>3, AgreesElsewhere
<1>4. CASE UNCHANGED vars
  BY <1>0, <1>4, AgreesElsewhere DEF vars
<1>5. QED BY <1>1, <1>2, <1>3, <1>4 DEF Next
------------------------------------------------------------------------------
(* DropNewest never leaves the actor suspended on a queue it does not have;*)
(* the conjunct QueueBound needs to be inductive.                          *)
NoQueueNoEnqueuer == strategy = "DropNewest" => At("enqueuing") = {}

(* The inductive invariant.  PermitConservation needs QueueAgrees (a task  *)
(* that is discarded or popped owned no permit) and all need TypeOK.       *)
IInv ==
  /\ TypeOK
  /\ QueueAgrees
  /\ PermitConservation
  /\ NoLostWakeup
  /\ NoIdlePermitForWaiter
  /\ QueueBound
  /\ NoQueueNoEnqueuer

(* The notification: a push wakes a parked processor or stores a permit.   *)
LEMMA WakeupStep == TypeOK /\ NoLostWakeup /\ [Next]_vars => NoLostWakeup'
<1> SUFFICES ASSUME TypeOK, NoLostWakeup, [Next]_vars PROVE NoLostWakeup'
  OBVIOUS
<1> USE DEF NoLostWakeup
<1>1. ASSUME NEW t \in Tasks, Actor(t) PROVE NoLostWakeup'
  BY <1>1 DEF Actor, Start, Drop, DecideEnqueue, Enqueue, NotifyOne, vars
<1>2. CASE Processor
  BY <1>2 DEF Processor, Pop, PopNothing, AwaitNotify, JoinWaiters, AcquireFree,
              TakeGranted, TypeOK
<1>3. ASSUME NEW t \in Tasks, Handler(t) PROVE NoLostWakeup'
  BY <1>3 DEF Handler, Settle, Release, ReturnPermit
<1>4. CASE UNCHANGED vars
  BY <1>4 DEF vars
<1>5. QED BY <1>1, <1>2, <1>3, <1>4 DEF Next

(* The hand-over: a released permit goes to the waiting processor first.   *)
LEMMA WaiterStep == TypeOK /\ NoIdlePermitForWaiter /\ [Next]_vars => NoIdlePermitForWaiter'
<1> SUFFICES ASSUME TypeOK, NoIdlePermitForWaiter, [Next]_vars PROVE NoIdlePermitForWaiter'
  OBVIOUS
<1> USE DEF NoIdlePermitForWaiter
<1>1. ASSUME NEW t \in Tasks, Actor(t) PROVE NoIdlePermitForWaiter'
  BY <1>1 DEF Actor, Start, Drop, DecideEnqueue, Enqueue, NotifyOne, vars
<1>2. CASE Processor
  BY <1>2 DEF Processor, Pop, PopNothing, AwaitNotify, JoinWaiters, AcquireFree, TakeGranted
<1>3. ASSUME NEW t \in Tasks, Handler(t) PROVE NoIdlePermitForWaiter'
  BY <1>3 DEF Handler, Settle, Release, ReturnPermit
<1>4. CASE UNCHANGED vars
  BY <1>4 DEF vars
<1>5. QED BY <1>1, <1>2, <1>3, <1>4 DEF Next

(* The backlog bound: the discard makes room before the push.              *)
LEMMA BoundStep ==
  TypeOK /\ QueueAgrees /\ QueueBound /\ NoQueueNoEnqueuer /\ [Next]_vars
    => QueueBound' /\ NoQueueNoEnqueuer'
<1> SUFFICES ASSUME TypeOK, QueueAgrees, QueueBound, NoQueueNoEnqueuer, [Next]_vars
             PROVE  QueueBound' /\ NoQueueNoEnqueuer'
  OBVIOUS
<1> USE DEF QueueBound, NoQueueNoEnqueuer, At
<1>1. ASSUME NEW t \in Tasks, Actor(t) PROVE QueueBound' /\ NoQueueNoEnqueuer'
  <2>1. CASE Start(t) \/ Drop(t) \/ DecideEnqueue(t)
    BY <2>1 DEF Start, Drop, DecideEnqueue, CanDispatch, Move, vars, TypeOK
  <2>2. CASE Enqueue(t)
    <3>1. strategy # "DropNewest" /\ strategy' = strategy
      BY <2>2 DEF Enqueue
    <3>2. Len(queue') = Len(AfterDiscard) + 1
      BY <2>2, AfterDiscardCases, AppendProperties DEF Enqueue
    <3>3. Len(queue) \in Nat /\ Len(<<>>) = 0
      BY EmptySeq, LenProperties DEF TypeOK
    <3>4. Len(queue') <= IF MaxQueue = 0 THEN 1 ELSE MaxQueue
      BY <3>2, <3>3, AfterDiscardCases, SchedulerAssumption
    <3>5. QED BY <3>1, <3>4
  <2>3. QED BY <1>1, <2>1, <2>2 DEF Actor
<1>2. CASE Processor
  <2>1. CASE Pop
    <3>1. /\ Len(queue) \in Nat \ {0} /\ Len(queue') = Len(queue) - 1
          /\ Head(queue) \in Tasks
      BY <2>1, TailElements DEF Pop, TypeOK
    <3>2. strategy # "DropNewest" /\ strategy' = strategy
      BY <2>1 DEF Pop
    <3>3. QED BY <3>1, <3>2, SchedulerAssumption
  <2>2. CASE PopNothing \/ AwaitNotify \/ JoinWaiters
    BY <2>2 DEF PopNothing, AwaitNotify, JoinWaiters
  <2>3. ASSUME NEW t \in Tasks, AcquireFree(t) \/ TakeGranted(t)
        PROVE  QueueBound' /\ NoQueueNoEnqueuer'
    BY <2>3 DEF AcquireFree, TakeGranted
  <2>4. QED BY <1>2, <2>1, <2>2, <2>3 DEF Processor
<1>3. ASSUME NEW t \in Tasks, Handler(t) PROVE QueueBound' /\ NoQueueNoEnqueuer'
  BY <1>3 DEF Handler, Settle, Release, ReturnPermit, Move, TypeOK
<1>4. CASE UNCHANGED vars
  BY <1>4 DEF vars
<1>5. QED BY <1>1, <1>2, <1>3, <1>4 DEF Next

(* At the start all permits are free and the queue is empty.               *)
LEMMA InitIInv == Init => IInv
<1> SUFFICES ASSUME Init PROVE IInv
  OBVIOUS
<1>1. TypeOK
  BY SchedulerAssumption, EmptySeq DEF Init, TypeOK, Status, Proc
<1>2. QueueAgrees
  BY EmptySeq DEF Init, QueueAgrees
<1>3. PermitConservation
  <2>1. Running = {}
    BY DEF Init, Running
  <2>2. QED BY <2>1, FS_EmptySet, SchedulerAssumption DEF Init, PermitConservation, Granted
<1>4. NoLostWakeup /\ NoIdlePermitForWaiter /\ NoQueueNoEnqueuer
  BY DEF Init, NoLostWakeup, NoIdlePermitForWaiter, NoQueueNoEnqueuer, At
<1>5. QueueBound
  BY EmptySeq, SchedulerAssumption DEF Init, QueueBound
<1>6. QED BY <1>1, <1>2, <1>3, <1>4, <1>5 DEF IInv

(* The invariant holds in every reachable state.                           *)
THEOREM Invariance == Spec => []IInv
<1>1. IInv /\ [Next]_vars => IInv'
  BY TypeStep, AgreesStep, PermitStep, WakeupStep, WaiterStep, BoundStep DEF IInv
<1>2. QED BY InitIInv, <1>1, PTL DEF Spec

(* Permits are conserved whatever the concurrency, however dispatches, the *)
(* processor and ending handlers interleave.                               *)
THEOREM PermitsConserved == Spec => []PermitConservation
<1>1. IInv => PermitConservation
  BY DEF IInv
<1>2. QED BY <1>1, Invariance, PTL

(* A plugin never runs more handlers at once than RuntimeConfig allows.    *)
THEOREM ConcurrencyBound == Spec => [](Cardinality(Running) <= Concurrency)
<1>1. IInv => Cardinality(Running) <= Concurrency
  BY FS_CardinalityType, SchedulerAssumption DEF IInv, PermitConservation, Granted, TypeOK
<1>2. QED BY <1>1, Invariance, PTL

(* The processor never sleeps on a non-empty queue.                        *)
THEOREM WakeupNotLost == Spec => []NoLostWakeup
<1>1. IInv => NoLostWakeup
  BY DEF IInv
<1>2. QED BY <1>1, Invariance, PTL

(* No permit is idle while a queued handler waits for one.                 *)
THEOREM WaiterFirst == Spec => []NoIdlePermitForWaiter
<1>1. IInv => NoIdlePermitForWaiter
  BY DEF IInv
<1>2. QED BY <1>1, Invariance, PTL

(* The queue holds exactly the queued tasks, each once.                    *)
THEOREM QueueAgreement == Spec => []QueueAgrees
<1>1. IInv => QueueAgrees
  BY DEF IInv
<1>2. QED BY <1>1, Invariance, PTL

(* The backlog never exceeds max_queue (or one, for DropOldest(0)).        *)
THEOREM BacklogBound == Spec => []QueueBound
<1>1. IInv => QueueBound
  BY DEF IInv
<1>2. QED BY <1>1, Invariance, PTL
------------------------------------------------------------------------------
(* The abstract backlog: what one more future in front of a queue is.      *)
LEMMA InFront ==
  ASSUME NEW S, NEW h \in S, NEW q \in Seq(S)
  PROVE  /\ <<h>> \o q \in Seq(S) /\ <<h>> \o q # <<>>
         /\ Len(<<h>> \o q) = Len(q) + 1
         /\ Head(<<h>> \o q) = h
         /\ Tail(<<h>> \o q) = q
         /\ \A t \in S : Append(<<h>> \o q, t) = <<h>> \o Append(q, t)
         /\ \A i \in 1..Len(q) + 1 : (<<h>> \o q)[i] = IF i = 1 THEN h ELSE q[i - 1]
<1>1. /\ <<h>> \in Seq(S) /\ Len(<<h>>) = 1 /\ <<h>>[1] = h /\ Len(q) \in Nat
  BY LenProperties
<1>2. /\ <<h>> \o q \in Seq(S) /\ Len(<<h>> \o q) = Len(q) + 1
      /\ \A i \in 1..Len(q) + 1 : (<<h>> \o q)[i] = IF i = 1 THEN h ELSE q[i - 1]
  BY <1>1, ConcatProperties
<1>3. <<h>> \o q # <<>>
  BY <1>1, <1>2, EmptySeq
<1>4. Head(<<h>> \o q) = h
  BY <1>1, <1>2, <1>3, TailElements
<1>5. Tail(<<h>> \o q) = q
  <2>1. /\ Tail(<<h>> \o q) \in Seq(S) /\ Len(Tail(<<h>> \o q)) = Len(q)
        /\ \A i \in 1..Len(q) : Tail(<<h>> \o q)[i] = q[i]
    BY <1>1, <1>2, <1>3, TailElements
  <2>2. QED BY <2>1, SeqEqual
<1>6. ASSUME NEW t \in S PROVE Append(<<h>> \o q, t) = <<h>> \o Append(q, t)
  <2>1. <<t>> \in Seq(S)
    OBVIOUS
  <2>2. Append(<<h>> \o q, t) = (<<h>> \o q) \o <<t>> /\ Append(q, t) = q \o <<t>>
    BY <1>2, AppendIsConcat
  <2>3. (<<h>> \o q) \o <<t>> = <<h>> \o (q \o <<t>>)
    BY <1>1, <2>1, ConcatAssociative
  <2>4. QED BY <2>2, <2>3
<1>7. QED BY <1>2, <1>3, <1>4, <1>5, <1>6

(* A non-empty queue is its head in front of its tail.                     *)
LEMMA HeadInFront ==
  ASSUME NEW S, NEW q \in Seq(S), q # <<>>
  PROVE  <<Head(q)>> \o Tail(q) = q
<1>1. /\ Head(q) \in S /\ Tail(q) \in Seq(S) /\ Len(Tail(q)) = Len(q) - 1
      /\ Head(q) = q[1] /\ Len(q) \in Nat
      /\ \A i \in 1..Len(Tail(q)) : Tail(q)[i] = q[i + 1]
  BY TailElements
<1>2. /\ <<Head(q)>> \o Tail(q) \in Seq(S)
      /\ Len(<<Head(q)>> \o Tail(q)) = Len(q)
      /\ \A i \in 1..Len(q) :
           (<<Head(q)>> \o Tail(q))[i] = IF i = 1 THEN Head(q) ELSE Tail(q)[i - 1]
  BY <1>1, InFront
<1>3. \A i \in 1..Len(q) : (<<Head(q)>> \o Tail(q))[i] = q[i]
  BY <1>1, <1>2
<1>4. QED BY <1>2, <1>3, SeqEqual

(* What Hand is, before a step and after it.                               *)
LEMMA HandOf ==
  /\ InHand = {} => Hand = <<>>
  /\ \A t : InHand = {t} => Hand = <<t>>
  /\ InHand' = {} => Hand' = <<>>
  /\ \A t : InHand' = {t} => Hand' = <<t>>
<1>1. \A t : (CHOOSE u \in {t} : TRUE) = t
  OBVIOUS
<1>2. QED BY <1>1 DEF Hand

(* The abstract scheduler counts as this one does.                         *)
LEMMA SameCount == \A S : Abs!Cardinality(S) = Cardinality(S)
BY DEF Abs!Cardinality, Cardinality

(* Nobody in the processor's hand, or one future.                          *)
LEMMA HandCases ==
  ASSUME TypeOK, QueueAgrees
  PROVE  \/ InHand = {} /\ Hand = <<>> /\ Hand \o queue = queue
            /\ proc \notin {"acquire", "waiting", "granted"}
         \/ /\ proc \in {"acquire", "waiting", "granted"}
            /\ \E h \in Tasks : status[h] = "hand" /\ InHand = {h} /\ Hand = <<h>>
<1>1. CASE InHand = {}
  <2>1. Hand = <<>>
    BY <1>1, HandOf
  <2>2. <<>> \o queue = queue
    BY ConcatEmptySeq DEF TypeOK
  <2>3. QED BY <1>1, <2>1, <2>2 DEF QueueAgrees, InHand, At
<1>2. CASE InHand # {}
  <2>1. PICK h \in Tasks : status[h] = "hand"
    BY <1>2 DEF InHand, At
  <2>2. InHand = {h}
    BY <2>1 DEF InHand, At, QueueAgrees
  <2>3. QED BY <2>1, <2>2, HandOf DEF QueueAgrees
<1>3. QED BY <1>1, <1>2

(* Everything in the abstract backlog is queued or in hand, so a future    *)
(* that is neither is absent from it.                                      *)
LEMMA AbsentNow ==
  ASSUME TypeOK, QueueAgrees, NEW t \in Tasks, status[t] \in {"idle", "enqueuing"}
  PROVE  Abs!Absent(t)
<1>1. t \notin Running
  BY DEF Running
<1>2. \A i \in 1..Len(Hand \o queue) : (Hand \o queue)[i] # t
  <2>1. CASE Hand \o queue = queue
    BY <2>1 DEF QueueAgrees
  <2>2. ASSUME NEW h \in Tasks, status[h] = "hand", Hand = <<h>>
        PROVE  \A i \in 1..Len(Hand \o queue) : (Hand \o queue)[i] # t
    <3>1. /\ Len(queue) \in Nat
          /\ Len(Hand \o queue) = Len(queue) + 1
          /\ \A i \in 1..Len(queue) + 1 :
               (Hand \o queue)[i] = IF i = 1 THEN h ELSE queue[i - 1]
      BY <2>2, InFront, LenProperties DEF TypeOK
    <3>2. QED BY <2>2, <3>1, SMTT(60) DEF QueueAgrees
  <2>3. QED BY <2>1, <2>2, HandCases
<1>3. QED BY <1>1, <1>2 DEF Abs!Absent

(* A push into the backlog joins it or displaces.                          *)
LEMMA EnqueueJoins ==
  ASSUME IInv, NEW t \in Tasks, Enqueue(t)
  PROVE  Abs!JoinBacklog(t) \/ Abs!Displace(t)
<1>1. /\ TypeOK /\ QueueAgrees /\ QueueBound /\ Abs!Absent(t)
      /\ queue \in Seq(Tasks) /\ Len(queue) \in Nat /\ MaxQueue \in Nat
      /\ QueueRoom \in Nat /\ QueueRoom >= 1 /\ QueueRoom >= MaxQueue
  BY AbsentNow, LenProperties, SchedulerAssumption DEF IInv, Enqueue, TypeOK, QueueRoom
<1>2. \A u \in Discarded : status[u] = "queued"
  BY <1>1, TailElements DEF Discarded, QueueAgrees
<1>3. /\ \A u \in Tasks : status'[u] = "hand" <=> status[u] = "hand"
      /\ Running' = Running
  BY <1>1, <1>2 DEF Enqueue, Running, TypeOK
<1>4. InHand' = InHand
  BY <1>3 DEF InHand, At
<1>5. Hand' = Hand
  BY <1>4 DEF Hand
<1>6. CASE AfterDiscard = queue /\ Discarded = {}
  <2>1. Len(queue) < QueueRoom /\ queue' = Append(queue, t)
    BY <1>1, <1>6, AfterDiscardCases, EmptySeq DEF Enqueue
  <2>2. Len(Hand \o queue) < QueueRoom + 1 /\ Hand \o Append(queue, t) = Append(Hand \o queue, t)
    <3>1. CASE Hand = <<>> /\ Hand \o queue = queue
      <4>1. <<>> \o Append(queue, t) = Append(queue, t)
        BY <1>1, AppendProperties, ConcatEmptySeq
      <4>2. QED BY <1>1, <2>1, <3>1, <4>1
    <3>2. CASE \E h \in Tasks : Hand = <<h>>
      <4>1. PICK h \in Tasks : Hand = <<h>>
        BY <3>2
      <4>2. /\ Len(<<h>> \o queue) = Len(queue) + 1
            /\ Append(<<h>> \o queue, t) = <<h>> \o Append(queue, t)
        BY <1>1, InFront, SMTT(60)
      <4>3. QED BY <1>1, <2>1, <4>1, <4>2
    <3>3. QED BY <1>1, <3>1, <3>2, HandCases
  <2>3. QED BY <1>1, <1>3, <1>5, <2>1, <2>2 DEF Abs!JoinBacklog
<1>7. CASE /\ queue # <<>> /\ AfterDiscard = Tail(queue) /\ Discarded = {Head(queue)}
  <2>1. /\ Len(queue) = QueueRoom /\ queue' = Append(Tail(queue), t)
        /\ Tail(queue) \in Seq(Tasks)
    <3>1. queue' = Append(Tail(queue), t)
      BY <1>7 DEF Enqueue
    <3>2. Tail(queue) \in Seq(Tasks) /\ Len(queue) >= 1
      BY <1>1, <1>7, TailElements
    <3>3. Len(queue) >= MaxQueue
      BY <1>7 DEF Discarded
    <3>4. Len(queue) = QueueRoom
      BY <1>1, <3>2, <3>3 DEF QueueBound, QueueRoom
    <3>5. QED BY <3>1, <3>2, <3>4
  <2>2. CASE Hand = <<>> /\ Hand \o queue = queue
    <3>1. <<>> \o Append(Tail(queue), t) = Append(Tail(queue), t)
      BY <2>1, AppendProperties, ConcatEmptySeq
    <3>2. QED BY <1>1, <1>3, <1>5, <1>7, <2>1, <2>2, <3>1 DEF Abs!Displace
  <2>3. ASSUME NEW h \in Tasks, Hand = <<h>> PROVE Abs!Displace(t)
    <3>1. /\ Hand \o queue # <<>> /\ Len(Hand \o queue) = QueueRoom + 1
          /\ Head(Hand \o queue) = h /\ Tail(Hand \o queue) = queue
      BY <1>1, <2>1, <2>3, InFront
    <3>2. <<h>> \o Append(Tail(queue), t) = Append(<<h>> \o Tail(queue), t)
      BY <2>1, InFront
    <3>3. (Hand \o queue)' =
            Append(<<Head(Hand \o queue)>> \o Tail(Tail(Hand \o queue)), t)
      BY <1>5, <2>1, <2>3, <3>1, <3>2
    <3>4. QED BY <1>1, <1>3, <3>1, <3>3 DEF Abs!Displace
  <2>4. QED BY <1>1, <2>2, <2>3, HandCases
<1>8. QED BY <1>1, <1>6, <1>7, AfterDiscardCases

(* The popped future stays where it was, at the head of the backlog.       *)
LEMMA PopStutters ==
  ASSUME IInv, Pop
  PROVE  UNCHANGED <<Running, Hand \o queue>>
<1>1. /\ TypeOK /\ QueueAgrees /\ queue \in Seq(Tasks) /\ queue # <<>>
      /\ InHand = {} /\ Hand \o queue = queue
  BY HandCases DEF IInv, Pop, TypeOK
<1>2. /\ Head(queue) \in Tasks /\ status[Head(queue)] = "queued"
      /\ <<Head(queue)>> \o Tail(queue) = queue
  BY <1>1, TailElements, HeadInFront DEF QueueAgrees
<1>3. InHand' = {Head(queue)} /\ Running' = Running
  BY <1>1, <1>2 DEF Pop, Move, InHand, At, Running, TypeOK
<1>4. QED BY <1>1, <1>2, <1>3, HandOf DEF Pop

(* The processor spawns the oldest waiting future, in a free slot.         *)
LEMMA SpawnStartsOldest ==
  ASSUME IInv, NEW t \in Tasks, AcquireFree(t) \/ TakeGranted(t)
  PROVE  Abs!StartOldest
<1>1. /\ TypeOK /\ QueueAgrees /\ PermitConservation /\ queue \in Seq(Tasks)
      /\ status[t] = "hand" /\ queue' = queue /\ Move(t, "running_q")
  BY DEF IInv, AcquireFree, TakeGranted, TypeOK
<1>2. InHand = {t}
  BY <1>1 DEF QueueAgrees, InHand, At
<1>3. InHand' = {} /\ Running' = Running \cup {t}
  BY <1>1, <1>2 DEF Move, InHand, At, Running, TypeOK
<1>4. Hand = <<t>> /\ Hand' = <<>> /\ <<>> \o queue = queue
  BY <1>1, <1>2, <1>3, HandOf, ConcatEmptySeq
<1>5. Hand \o queue # <<>> /\ Head(Hand \o queue) = t /\ Tail(Hand \o queue) = queue
  BY <1>1, <1>4, InFront
<1>6. Cardinality(Running) < Concurrency
  BY <1>1, FS_CardinalityType, SchedulerAssumption
     DEF PermitConservation, Granted, AcquireFree, TakeGranted, TypeOK
<1>7. QED BY <1>1, <1>3, <1>4, <1>5, <1>6, SameCount DEF Abs!StartOldest

(* Every step of the scheduler is one of the abstract scheduler's or a     *)
(* stutter.                                                                *)
LEMMA StepImplements == IInv /\ [Next]_vars => [Abs!AbsNext]_(Abs!absVars)
<1> SUFFICES ASSUME IInv, [Next]_vars PROVE [Abs!AbsNext]_(Abs!absVars)
  OBVIOUS
<1>0. TypeOK /\ QueueAgrees /\ PermitConservation
  BY DEF IInv
<1>1. ASSUME NEW t \in Tasks, Start(t) PROVE Abs!StartNew(t)
  <2>1. status[t] = "idle" /\ Move(t, "running") /\ queue' = queue /\ permits > 0
    BY <1>1 DEF Start, CanDispatch
  <2>2. InHand' = InHand /\ Running' = Running \cup {t}
    BY <1>0, <2>1 DEF Move, InHand, At, Running, TypeOK
  <2>3. Hand' = Hand
    BY <2>2 DEF Hand
  <2>4. Cardinality(Running) < Concurrency
    BY <1>0, <2>1, FS_CardinalityType, SchedulerAssumption
       DEF PermitConservation, Granted, TypeOK
  <2>5. QED BY <1>0, <2>1, <2>2, <2>3, <2>4, AbsentNow, SameCount DEF Abs!StartNew
<1>2. ASSUME NEW t \in Tasks, Release(t) PROVE Abs!Finish(t)
  <2>1. status[t] = "settled" /\ Move(t, "idle") /\ queue' = queue
    BY <1>2 DEF Release
  <2>2. InHand' = InHand /\ Running' = Running \ {t} /\ t \in Running
    BY <1>0, <2>1 DEF Move, InHand, At, Running, TypeOK
  <2>3. Hand' = Hand
    BY <2>2 DEF Hand
  <2>4. QED BY <2>1, <2>2, <2>3 DEF Abs!Finish
<1>3. ASSUME NEW t \in Tasks, DecideEnqueue(t) \/ Settle(t)
      PROVE  UNCHANGED <<Running, Hand \o queue>>
  <2>1. queue' = queue /\ InHand' = InHand /\ Running' = Running
    BY <1>0, <1>3 DEF DecideEnqueue, CanDispatch, Settle, Move, InHand, At, Running, TypeOK
  <2>2. QED BY <2>1 DEF Hand
<1>4. ASSUME status' = status, queue' = queue
      PROVE  UNCHANGED <<Running, Hand \o queue>>
  BY <1>4 DEF Running, Hand, InHand, At
<1>5. ASSUME NEW t \in Tasks, Actor(t) \/ Handler(t)
      PROVE  Abs!AbsNext \/ UNCHANGED <<Running, Hand \o queue>>
  <2>1. CASE Drop(t)
    BY <1>4, <2>1 DEF Drop, vars
  <2>2. CASE Enqueue(t)
    BY <2>2, EnqueueJoins DEF Abs!AbsNext
  <2>3. QED BY <1>1, <1>2, <1>3, <1>5, <2>1, <2>2 DEF Actor, Handler, Abs!AbsNext
<1>6. CASE Processor
  <2>1. CASE PopNothing \/ AwaitNotify \/ JoinWaiters
    BY <1>4, <2>1 DEF PopNothing, AwaitNotify, JoinWaiters, Abs!absVars
  <2>2. CASE \E t \in Tasks : AcquireFree(t) \/ TakeGranted(t)
    BY <2>2, SpawnStartsOldest DEF Abs!AbsNext
  <2>3. QED BY <1>6, <2>1, <2>2, PopStutters DEF Processor, Abs!absVars
<1>7. CASE UNCHANGED vars
  BY <1>4, <1>7 DEF vars, Abs!absVars
<1>8. QED BY <1>5, <1>6, <1>7 DEF Next, Abs!absVars

(* The scheduler keeps the safety half of its promise for every set of     *)
(* futures and every bound: at most Concurrency handlers at once, a FIFO   *)
(* backlog of at most max_queue + 1, only the oldest or the one after it   *)
(* given up.                                                               *)
THEOREM ImplementsAbstractSafety == Spec => Abs!AbsSafety
<1>1. Init => Abs!AbsInit
  <2> SUFFICES ASSUME Init PROVE Abs!AbsInit
    OBVIOUS
  <2>1. Running = {} /\ InHand = {} /\ queue = <<>>
    BY DEF Init, Running, InHand, At
  <2>2. Hand = <<>>
    BY <2>1, HandOf
  <2>3. Hand \o queue = <<>>
    BY <2>1, <2>2, EmptySeq, ConcatEmptySeq
  <2>4. QED BY <2>1, <2>3 DEF Abs!AbsInit
<1>2. QED BY <1>1, Invariance, StepImplements, PTL DEF Spec, Abs!AbsSafety
------------------------------------------------------------------------------
(* The counters.                                                           *)
Flying == {"enqueuing", "queued", "hand", "running", "running_q"}

ViaQueueFlying == {"enqueuing", "queued", "hand", "running_q"}

(* The tasks an InFlight counts.                                           *)
Those(S) == {t \in Tasks : status[t] \in S}

One(e, S) == IF e \in S THEN 1 ELSE 0
------------------------------------------------------------------------------
(* Every counted step is one of the scheduler's, or leaves it alone.       *)
LEMMA NextStep == [TelNext]_telVars => [Next]_vars
BY DEF TelNext, telVars, vars, Next, Actor, Handler, Counted, CountedEnqueue,
       CountedSettle, Panic

(* The counters only add to the scheduler: without them every behaviour is *)
(* one of TaskScheduler.                                                   *)
THEOREM CountersOnlyCount == TelSpec => Spec
<1>1. TelInit => Init
  BY DEF TelInit
<1>2. QED BY <1>1, NextStep, PTL DEF TelSpec, Spec
------------------------------------------------------------------------------
(* What a fetch_add on some counters does to each of them.                 *)
LEMMA CountFacts ==
  ASSUME TelTypeOK, NEW names, Count(names)
  PROVE  /\ \A c \in Counters : tel'[c] = tel[c] + One(c, names)
         /\ tel' \in [Counters -> Nat] /\ panics' = panics
BY DEF TelTypeOK, Count, One

(* How a task that moves changes the number in flight.                     *)
LEMMA Moved ==
  ASSUME TypeOK, NEW S, IsFiniteSet(Those(S)), NEW t \in Tasks, NEW to, Move(t, to)
  PROVE  /\ IsFiniteSet(Those(S)')
         /\ Cardinality(Those(S)') =
              Cardinality(Those(S)) + One(to, S) - One(status[t], S)
<1>0. Cardinality(Those(S)) \in Nat
  BY FS_CardinalityType
<1>1. CASE to \in S /\ status[t] \notin S
  <2>1. Those(S)' = Those(S) \cup {t} /\ t \notin Those(S)
    BY <1>1 DEF Those, Move, TypeOK
  <2>2. QED BY <1>0, <1>1, <2>1, FS_AddElement DEF One
<1>2. CASE to \notin S /\ status[t] \in S
  <2>1. Those(S)' = Those(S) \ {t} /\ t \in Those(S)
    BY <1>2 DEF Those, Move, TypeOK
  <2>2. QED BY <1>0, <1>2, <2>1, FS_RemoveElement DEF One
<1>3. CASE (to \in S) = (status[t] \in S)
  <2>1. Those(S)' = Those(S)
    BY <1>3 DEF Those, Move, TypeOK
  <2>2. QED BY <1>0, <1>3, <2>1 DEF One
<1>4. QED BY <1>1, <1>2, <1>3

(* An enqueue moves two tasks: the new one and the one that is discarded,  *)
(* which had been in the queue.                                            *)
LEMMA MovedByEnqueue ==
  ASSUME TypeOK, QueueAgrees, NEW S, IsFiniteSet(Those(S)), NEW t \in Tasks, Enqueue(t),
         "enqueuing" \in S, "queued" \in S, "idle" \notin S, MaxQueue > 0
  PROVE  /\ IsFiniteSet(Those(S)')
         /\ Cardinality(Those(S)') =
              Cardinality(Those(S)) - (IF Len(queue) >= MaxQueue THEN 1 ELSE 0)
<1>0. Cardinality(Those(S)) \in Nat /\ Len(queue) \in Nat /\ MaxQueue \in Nat
  BY FS_CardinalityType, SchedulerAssumption DEF TypeOK
<1>1. CASE Len(queue) >= MaxQueue
  <2>1. queue # <<>>
    BY <1>0, <1>1, EmptySeq
  <2>2. Discarded = {Head(queue)} /\ Head(queue) = queue[1] /\ Head(queue) \in Tasks
        /\ 1 \in 1..Len(queue)
    BY <1>1, <2>1, TailElements DEF Discarded, TypeOK
  <2>3. status[Head(queue)] = "queued"
    BY <2>2 DEF QueueAgrees
  <2>4. Head(queue) # t
    BY <2>3 DEF Enqueue
  <2>5. Those(S)' = Those(S) \ {Head(queue)} /\ Head(queue) \in Those(S)
    BY <2>2, <2>3, <2>4 DEF Those, Enqueue, TypeOK
  <2>6. QED BY <1>0, <1>1, <2>5, FS_RemoveElement, SMTT(60)
<1>2. CASE ~(Len(queue) >= MaxQueue)
  <2>1. Discarded = {}
    BY <1>2 DEF Discarded
  <2>2. Those(S)' = Those(S)
    BY <2>1 DEF Those, Enqueue, TypeOK
  <2>3. QED BY <1>0, <1>2, <2>2
<1>3. QED BY <1>1, <1>2
------------------------------------------------------------------------------
(* The inductive invariant: both balances, over finite sets.               *)
Balanced ==
  /\ TelTypeOK
  /\ MaxQueue > 0 =>
       /\ IsFiniteSet(Those(Flying)) /\ IsFiniteSet(Those(ViaQueueFlying))
       /\ TelemetryBalance /\ QueueBalance

(* The two balances, in terms of Those.                                    *)
LEMMA BalanceIs ==
  ASSUME MaxQueue > 0
  PROVE  /\ TelemetryBalance <=>
              tel["handler_started"] =
                Direct + ViaQueue + tel["drop_newest_drops"] + Discards
                + panics["running"] + panics["running_q"] + Cardinality(Those(Flying))
         /\ QueueBalance <=>
              tel["drop_oldest_enqueues"] =
                ViaQueue + Discards + panics["running_q"]
                + Cardinality(Those(ViaQueueFlying))
BY DEF TelemetryBalance, QueueBalance, InFlight, Those, Flying, ViaQueueFlying

(* Every number that is added up is a natural one.                         *)
LEMMA Numbers ==
  ASSUME Balanced, MaxQueue > 0
  PROVE  /\ \A c \in Counters : tel[c] \in Nat
         /\ panics["running"] \in Nat /\ panics["running_q"] \in Nat
         /\ Cardinality(Those(Flying)) \in Nat /\ Cardinality(Those(ViaQueueFlying)) \in Nat
BY FS_CardinalityType DEF Balanced, TelTypeOK

(* A step that counts `names' and changes the numbers in flight by f and q *)
(* keeps both balances if it counts for both what it changes.              *)
LEMMA Counting ==
  ASSUME Balanced, MaxQueue > 0, NEW names, Count(names), NEW f \in Int, NEW q \in Int,
         IsFiniteSet(Those(Flying)'), IsFiniteSet(Those(ViaQueueFlying)'),
         Cardinality(Those(Flying)') = Cardinality(Those(Flying)) + f,
         Cardinality(Those(ViaQueueFlying)') = Cardinality(Those(ViaQueueFlying)) + q,
         One("handler_started", names) = f
           + One("handler_succeeded", names) + One("handler_failed", names)
           + One("handler_timed_out", names)
           + One("queued_handler_succeeded", names)
           + One("queued_handler_failed", names)
           + One("queued_handler_timed_out", names)
           + One("drop_newest_drops", names)
           + One("drop_oldest_oldest_discards", names),
         One("drop_oldest_enqueues", names) = q
           + One("queued_handler_succeeded", names)
           + One("queued_handler_failed", names)
           + One("queued_handler_timed_out", names)
           + One("drop_oldest_oldest_discards", names)
  PROVE  /\ IsFiniteSet(Those(Flying))' /\ IsFiniteSet(Those(ViaQueueFlying))'
         /\ TelemetryBalance' /\ QueueBalance'
<1>1. /\ \A c \in Counters : tel'[c] = tel[c] + One(c, names) /\ One(c, names) \in Int
      /\ panics' = panics
  BY CountFacts DEF Balanced, One
<1>2. /\ tel["handler_started"] =
           Direct + ViaQueue + tel["drop_newest_drops"] + Discards
           + panics["running"] + panics["running_q"] + Cardinality(Those(Flying))
      /\ tel["drop_oldest_enqueues"] =
           ViaQueue + Discards + panics["running_q"] + Cardinality(Those(ViaQueueFlying))
  BY BalanceIs DEF Balanced
<1>3. /\ TelemetryBalance' <=>
           tel'["handler_started"] =
             Direct' + ViaQueue' + tel'["drop_newest_drops"] + Discards'
             + panics["running"] + panics["running_q"] + Cardinality(Those(Flying)')
      /\ QueueBalance' <=>
           tel'["drop_oldest_enqueues"] =
             ViaQueue' + Discards' + panics["running_q"] + Cardinality(Those(ViaQueueFlying)')
  BY <1>1 DEF TelemetryBalance, QueueBalance, InFlight, Those, Flying, ViaQueueFlying
<1>4. \A c \in Counters :
        tel[c] \in Int /\ One(c, names) \in Int /\ tel'[c] = tel[c] + One(c, names)
  BY <1>1, Numbers
<1>5. /\ panics["running"] \in Int /\ panics["running_q"] \in Int
      /\ Cardinality(Those(Flying)) \in Int /\ Cardinality(Those(ViaQueueFlying)) \in Int
  BY Numbers
<1> DEFINE F == Cardinality(Those(Flying))
           Q == Cardinality(Those(ViaQueueFlying))
           F2 == Cardinality(Those(Flying)')
           Q2 == Cardinality(Those(ViaQueueFlying)')
           p == panics["running"]
           pq == panics["running_q"]
<1>6. F2 = F + f /\ Q2 = Q + q /\ F \in Int /\ Q \in Int /\ p \in Int /\ pq \in Int
  BY <1>5
<1> HIDE DEF F, Q, F2, Q2, p, pq
<1>7. /\ Direct \in Int /\ Direct' = Direct + One("handler_succeeded", names)
           + One("handler_failed", names) + One("handler_timed_out", names)
      /\ ViaQueue \in Int /\ ViaQueue' = ViaQueue + One("queued_handler_succeeded", names)
           + One("queued_handler_failed", names)
           + One("queued_handler_timed_out", names)
      /\ Discards \in Int
      /\ Discards' = Discards + One("drop_oldest_oldest_discards", names)
  BY <1>4 DEF Direct, ViaQueue, Discards, Counters
<1>8. \A c \in {"handler_started", "drop_newest_drops", "drop_oldest_enqueues"} :
        tel[c] \in Int /\ tel'[c] = tel[c] + One(c, names)
  BY <1>4 DEF Counters
<1>9. \A c \in Counters : One(c, names) \in Int
  BY <1>4
<1>10. tel'["handler_started"] =
        Direct' + ViaQueue' + tel'["drop_newest_drops"] + Discards' + p + pq + F2
  BY <1>2, <1>6, <1>7, <1>8, <1>9 DEF Counters, F, p, pq
<1>11. tel'["drop_oldest_enqueues"] = ViaQueue' + Discards' + pq + Q2
  BY <1>2, <1>6, <1>7, <1>8, <1>9 DEF Counters, Q, pq
<1> QED BY <1>3, <1>10, <1>11 DEF F2, Q2, p, pq

(* A task that moves, and what the code counts with it.                    *)
LEMMA CountedMove ==
  ASSUME Balanced, MaxQueue > 0, NEW t \in Tasks, NEW from, NEW to, status[t] = from,
         Move(t, to), NEW names, Count(names),
         One("handler_started", names) = One(to, Flying) - One(from, Flying)
           + One("handler_succeeded", names) + One("handler_failed", names)
           + One("handler_timed_out", names)
           + One("queued_handler_succeeded", names)
           + One("queued_handler_failed", names)
           + One("queued_handler_timed_out", names)
           + One("drop_newest_drops", names)
           + One("drop_oldest_oldest_discards", names),
         One("drop_oldest_enqueues", names) = One(to, ViaQueueFlying) - One(from, ViaQueueFlying)
           + One("queued_handler_succeeded", names)
           + One("queued_handler_failed", names)
           + One("queued_handler_timed_out", names)
           + One("drop_oldest_oldest_discards", names)
  PROVE  /\ IsFiniteSet(Those(Flying))' /\ IsFiniteSet(Those(ViaQueueFlying))'
         /\ TelemetryBalance' /\ QueueBalance'
<1> DEFINE f == One(to, Flying) - One(from, Flying)
           q == One(to, ViaQueueFlying) - One(from, ViaQueueFlying)
<1>1. f \in Int /\ q \in Int
  BY DEF One
<1>2. /\ IsFiniteSet(Those(Flying)') /\ IsFiniteSet(Those(ViaQueueFlying)')
      /\ Cardinality(Those(Flying)') = Cardinality(Those(Flying)) + f
      /\ Cardinality(Those(ViaQueueFlying)') = Cardinality(Those(ViaQueueFlying)) + q
  <2>1. /\ TypeOK /\ IsFiniteSet(Those(Flying)) /\ IsFiniteSet(Those(ViaQueueFlying))
        /\ Cardinality(Those(Flying)) \in Nat /\ Cardinality(Those(ViaQueueFlying)) \in Nat
    BY Numbers DEF Balanced, TelTypeOK
  <2>2. One(to, Flying) \in Int /\ One(from, Flying) \in Int
        /\ One(to, ViaQueueFlying) \in Int /\ One(from, ViaQueueFlying) \in Int
    BY DEF One
  <2>3. /\ IsFiniteSet(Those(Flying)')
        /\ Cardinality(Those(Flying)') =
             Cardinality(Those(Flying)) + One(to, Flying) - One(status[t], Flying)
    BY <2>1, Moved
  <2>4. /\ IsFiniteSet(Those(ViaQueueFlying)')
        /\ Cardinality(Those(ViaQueueFlying)') =
             Cardinality(Those(ViaQueueFlying)) + One(to, ViaQueueFlying)
               - One(status[t], ViaQueueFlying)
    BY <2>1, Moved
  <2>5. QED BY <2>1, <2>2, <2>3, <2>4
<1>3. /\ One("handler_started", names) = f
           + One("handler_succeeded", names) + One("handler_failed", names)
           + One("handler_timed_out", names)
           + One("queued_handler_succeeded", names)
           + One("queued_handler_failed", names)
           + One("queued_handler_timed_out", names)
           + One("drop_newest_drops", names)
           + One("drop_oldest_oldest_discards", names)
      /\ One("drop_oldest_enqueues", names) = q
           + One("queued_handler_succeeded", names)
           + One("queued_handler_failed", names)
           + One("queued_handler_timed_out", names)
           + One("drop_oldest_oldest_discards", names)
  OBVIOUS
<1> HIDE DEF f, q
<1> QED BY <1>1, <1>2, <1>3, Counting

(* Steps that move no task.                                                *)
LEMMA NobodyMoves ==
  ASSUME Balanced, MaxQueue > 0, status' = status, NEW names, Count(names),
         names \in {{}, {"handler_started", "drop_newest_drops"}}
  PROVE  /\ IsFiniteSet(Those(Flying))' /\ IsFiniteSet(Those(ViaQueueFlying))'
         /\ TelemetryBalance' /\ QueueBalance'
<1>1. Those(Flying)' = Those(Flying) /\ Those(ViaQueueFlying)' = Those(ViaQueueFlying)
  BY DEF Those
<1>2. /\ IsFiniteSet(Those(Flying)') /\ IsFiniteSet(Those(ViaQueueFlying)')
      /\ Cardinality(Those(Flying)') = Cardinality(Those(Flying)) + 0
      /\ Cardinality(Those(ViaQueueFlying)') = Cardinality(Those(ViaQueueFlying)) + 0
  BY <1>1, Numbers DEF Balanced
<1> QED BY <1>2, Counting DEF One

(* The step's balances, for each kind of step.                             *)
LEMMA BalancesStep ==
  ASSUME Balanced, QueueAgrees, MaxQueue > 0, [TelNext]_telVars
  PROVE  /\ IsFiniteSet(Those(Flying))' /\ IsFiniteSet(Those(ViaQueueFlying))'
         /\ TelemetryBalance' /\ QueueBalance'
<1> USE DEF Flying, ViaQueueFlying, One
<1>1. CASE Processor /\ Count({})
  <2>1. CASE Pop
    <3>1. /\ Head(queue) \in Tasks /\ Head(queue) = queue[1] /\ 1 \in 1..Len(queue)
      BY <2>1, TailElements DEF Pop, Balanced, TelTypeOK, TypeOK
    <3>2. status[Head(queue)] = "queued" /\ Move(Head(queue), "hand")
      BY <2>1, <3>1 DEF Pop, QueueAgrees
    <3>3. QED BY <1>1, <3>1, <3>2, CountedMove
  <2>2. CASE PopNothing \/ AwaitNotify \/ JoinWaiters
    <3>1. status' = status
      BY <2>2 DEF PopNothing, AwaitNotify, JoinWaiters
    <3>2. QED BY <1>1, <3>1, NobodyMoves
  <2>3. ASSUME NEW t \in Tasks, AcquireFree(t) \/ TakeGranted(t)
        PROVE  /\ IsFiniteSet(Those(Flying))' /\ IsFiniteSet(Those(ViaQueueFlying))'
               /\ TelemetryBalance' /\ QueueBalance'
    <3>1. status[t] = "hand" /\ Move(t, "running_q")
      BY <2>3 DEF AcquireFree, TakeGranted
    <3>2. QED BY <1>1, <3>1, CountedMove
  <2>4. QED BY <1>1, <2>1, <2>2, <2>3 DEF Processor
<1>2. ASSUME NEW t \in Tasks, Counted(t)
      PROVE  /\ IsFiniteSet(Those(Flying))' /\ IsFiniteSet(Those(ViaQueueFlying))'
             /\ TelemetryBalance' /\ QueueBalance'
  <2>1. CASE Start(t) /\ Count({"handler_started"})
    <3>1. status[t] = "idle" /\ Move(t, "running")
      BY <2>1 DEF Start, CanDispatch
    <3>2. QED BY <2>1, <3>1, CountedMove
  <2>2. CASE Drop(t) /\ Count({"handler_started", "drop_newest_drops"})
    <3>1. status' = status
      BY <2>2 DEF Drop, vars
    <3>2. QED BY <2>2, <3>1, NobodyMoves
  <2>3. CASE DecideEnqueue(t) /\ Count({"handler_started", "drop_oldest_enqueues"})
    <3>1. status[t] = "idle" /\ Move(t, "enqueuing")
      BY <2>3 DEF DecideEnqueue, CanDispatch
    <3>2. QED BY <2>3, <3>1, CountedMove
  <2>4. QED BY <1>2, <2>1, <2>2, <2>3 DEF Counted
<1>3. ASSUME NEW t \in Tasks, CountedEnqueue(t)
      PROVE  /\ IsFiniteSet(Those(Flying))' /\ IsFiniteSet(Those(ViaQueueFlying))'
             /\ TelemetryBalance' /\ QueueBalance'
  <2> DEFINE full == Len(queue) >= MaxQueue
             f == IF full THEN -1 ELSE 0
             names == IF full THEN {"drop_oldest_oldest_discards"} ELSE {}
  <2>1. /\ IsFiniteSet(Those(Flying)') /\ IsFiniteSet(Those(ViaQueueFlying)')
        /\ Cardinality(Those(Flying)') = Cardinality(Those(Flying)) + f
        /\ Cardinality(Those(ViaQueueFlying)') = Cardinality(Those(ViaQueueFlying)) + f
    <3>1. /\ TypeOK /\ IsFiniteSet(Those(Flying)) /\ IsFiniteSet(Those(ViaQueueFlying))
          /\ Cardinality(Those(Flying)) \in Nat /\ Cardinality(Those(ViaQueueFlying)) \in Nat
      BY Numbers DEF Balanced, TelTypeOK
    <3>2. Enqueue(t)
      BY <1>3 DEF CountedEnqueue
    <3>3. /\ IsFiniteSet(Those(Flying)')
          /\ Cardinality(Those(Flying)') = Cardinality(Those(Flying)) - (IF full THEN 1 ELSE 0)
      BY <3>1, <3>2, MovedByEnqueue
    <3>4. /\ IsFiniteSet(Those(ViaQueueFlying)')
          /\ Cardinality(Those(ViaQueueFlying)') =
               Cardinality(Those(ViaQueueFlying)) - (IF full THEN 1 ELSE 0)
      BY <3>1, <3>2, MovedByEnqueue
    <3>5. QED BY <3>1, <3>3, <3>4
  <2>2. Count(names) /\ f \in Int
    BY <1>3 DEF CountedEnqueue
  <2>3. /\ f = -One("drop_oldest_oldest_discards", names)
        /\ \A c \in Counters \ {"drop_oldest_oldest_discards"} : One(c, names) = 0
    OBVIOUS
  <2> HIDE DEF f, names
  <2>4. QED BY <2>1, <2>2, <2>3, Counting DEF Counters
<1>4. ASSUME NEW t \in Tasks, CountedSettle(t)
      PROVE  /\ IsFiniteSet(Those(Flying))' /\ IsFiniteSet(Those(ViaQueueFlying))'
             /\ TelemetryBalance' /\ QueueBalance'
  <2>1. PICK c \in OutcomeCounters(status[t]) : Count({c})
    BY <1>4 DEF CountedSettle
  <2>2. Move(t, "settled") /\ status[t] \in {"running", "running_q"}
    BY <1>4 DEF CountedSettle, Settle
  <2>3. CASE status[t] = "running"
    BY <2>1, <2>2, <2>3, CountedMove DEF OutcomeCounters
  <2>4. CASE status[t] = "running_q"
    BY <2>1, <2>2, <2>4, CountedMove DEF OutcomeCounters
  <2>5. QED BY <2>2, <2>3, <2>4
<1>5. ASSUME NEW t \in Tasks, Release(t), Count({})
      PROVE  /\ IsFiniteSet(Those(Flying))' /\ IsFiniteSet(Those(ViaQueueFlying))'
             /\ TelemetryBalance' /\ QueueBalance'
  <2>1. status[t] = "settled" /\ Move(t, "idle")
    BY <1>5 DEF Release
  <2>2. QED BY <1>5, <2>1, CountedMove
<1>6. ASSUME NEW t \in Tasks, Panic(t)
      PROVE  /\ IsFiniteSet(Those(Flying))' /\ IsFiniteSet(Those(ViaQueueFlying))'
             /\ TelemetryBalance' /\ QueueBalance'
  <2>1. Move(t, "settled") /\ status[t] \in {"running", "running_q"}
    BY <1>6 DEF Panic, Settle
  <2>2. /\ TypeOK /\ IsFiniteSet(Those(Flying)) /\ IsFiniteSet(Those(ViaQueueFlying))
        /\ Cardinality(Those(Flying)) \in Nat /\ Cardinality(Those(ViaQueueFlying)) \in Nat
    BY Numbers DEF Balanced, TelTypeOK
  <2>3. /\ IsFiniteSet(Those(Flying)')
        /\ Cardinality(Those(Flying)') = Cardinality(Those(Flying)) - 1
    <3>1. /\ IsFiniteSet(Those(Flying)')
          /\ Cardinality(Those(Flying)') =
               Cardinality(Those(Flying)) + One("settled", Flying) - One(status[t], Flying)
      BY <2>1, <2>2, Moved
    <3>2. QED BY <2>1, <2>2, <3>1
  <2>4. /\ IsFiniteSet(Those(ViaQueueFlying)')
        /\ Cardinality(Those(ViaQueueFlying)') =
             Cardinality(Those(ViaQueueFlying)) - One(status[t], ViaQueueFlying)
    <3>1. /\ IsFiniteSet(Those(ViaQueueFlying)')
          /\ Cardinality(Those(ViaQueueFlying)') =
               Cardinality(Those(ViaQueueFlying)) + One("settled", ViaQueueFlying)
                 - One(status[t], ViaQueueFlying)
      BY <2>1, <2>2, Moved
    <3>2. QED BY <2>1, <2>2, <3>1
  <2>5. /\ tel' = tel
        /\ panics'["running"] = panics["running"] + (IF status[t] = "running" THEN 1 ELSE 0)
        /\ panics'["running_q"] = panics["running_q"] + (IF status[t] = "running_q" THEN 1 ELSE 0)
    BY <1>6, <2>1 DEF Panic, Balanced, TelTypeOK
  <2>6. /\ Direct' = Direct /\ ViaQueue' = ViaQueue /\ Discards' = Discards
        /\ Direct \in Int /\ ViaQueue \in Int /\ Discards \in Int
        /\ tel["drop_newest_drops"] \in Int
        /\ panics["running"] \in Int /\ panics["running_q"] \in Int
    BY <2>5, Numbers DEF Direct, ViaQueue, Discards, Counters
  <2>7. /\ tel["handler_started"] =
             Direct + ViaQueue + tel["drop_newest_drops"] + Discards
             + panics["running"] + panics["running_q"] + Cardinality(Those(Flying))
        /\ tel["drop_oldest_enqueues"] =
             ViaQueue + Discards + panics["running_q"] + Cardinality(Those(ViaQueueFlying))
    BY BalanceIs DEF Balanced
  <2>8. TelemetryBalance'
    <3>1. TelemetryBalance' <=>
            tel["handler_started"] =
              Direct' + ViaQueue' + tel["drop_newest_drops"] + Discards'
              + panics'["running"] + panics'["running_q"] + Cardinality(Those(Flying)')
      BY <2>5 DEF TelemetryBalance, InFlight, Those
    <3>2. QED BY <2>1, <2>2, <2>3, <2>5, <2>6, <2>7, <3>1
  <2>9. QueueBalance'
    <3>1. QueueBalance' <=>
            tel["drop_oldest_enqueues"] =
              ViaQueue' + Discards' + panics'["running_q"] + Cardinality(Those(ViaQueueFlying)')
      BY <2>5 DEF QueueBalance, InFlight, Those
    <3>2. QED BY <2>1, <2>2, <2>4, <2>5, <2>6, <2>7, <3>1
  <2>10. QED BY <2>3, <2>4, <2>8, <2>9
<1>7. CASE UNCHANGED telVars
  BY <1>7 DEF telVars, Balanced, Those, TelemetryBalance, QueueBalance, InFlight, Direct,
              ViaQueue, Discards
<1>8. QED BY <1>1, <1>2, <1>3, <1>4, <1>5, <1>6, <1>7 DEF TelNext

(* The counters stay natural numbers.                                      *)
LEMMA TelTypeStep == TelTypeOK /\ [TelNext]_telVars => TelTypeOK'
<1> SUFFICES ASSUME TelTypeOK, [TelNext]_telVars PROVE TelTypeOK'
  OBVIOUS
<1>1. TypeOK'
  BY NextStep, TypeStep DEF TelTypeOK
<1>2. ASSUME NEW names, Count(names)
      PROVE  tel' \in [Counters -> Nat] /\ panics' \in [{"running", "running_q"} -> Nat]
  BY <1>2, CountFacts DEF TelTypeOK
<1>3. ASSUME NEW t \in Tasks, Panic(t)
      PROVE  tel' \in [Counters -> Nat] /\ panics' \in [{"running", "running_q"} -> Nat]
  BY <1>3 DEF TelTypeOK, Panic, Settle
<1>4. tel' \in [Counters -> Nat] /\ panics' \in [{"running", "running_q"} -> Nat]
  <2>1. CASE \E names : Count(names)
    BY <1>2, <2>1
  <2>2. CASE \E t \in Tasks : Panic(t)
    BY <1>3, <2>2
  <2>3. CASE UNCHANGED telVars
    BY <2>3 DEF telVars, TelTypeOK
  <2>4. QED BY <2>1, <2>2, <2>3 DEF TelNext, Counted, CountedEnqueue, CountedSettle
<1>5. QED BY <1>1, <1>4 DEF TelTypeOK

(* Both balances are inductive, given that queue and fates agree.          *)
THEOREM TelInvariance == TelSpec => []Balanced
<1>1. TelInit => Balanced
  <2> SUFFICES ASSUME TelInit PROVE Balanced
    OBVIOUS
  <2>1. TelTypeOK
    <3>1. TypeOK
      BY InitIInv DEF TelInit, IInv
    <3>2. QED BY <3>1 DEF TelInit, TelTypeOK
  <2>2. ASSUME MaxQueue > 0
        PROVE  /\ IsFiniteSet(Those(Flying)) /\ IsFiniteSet(Those(ViaQueueFlying))
               /\ TelemetryBalance /\ QueueBalance
    <3>1. Those(Flying) = {} /\ Those(ViaQueueFlying) = {}
      BY DEF TelInit, Init, Those, Flying, ViaQueueFlying
    <3>2. /\ IsFiniteSet(Those(Flying)) /\ IsFiniteSet(Those(ViaQueueFlying))
          /\ Cardinality(Those(Flying)) = 0 /\ Cardinality(Those(ViaQueueFlying)) = 0
      BY <3>1, FS_EmptySet
    <3>3. /\ \A c \in Counters : tel[c] = 0
          /\ panics["running"] = 0 /\ panics["running_q"] = 0
      BY DEF TelInit
    <3>4. Direct = 0 /\ ViaQueue = 0 /\ Discards = 0
      BY <3>3 DEF Direct, ViaQueue, Discards, Counters
    <3>5. QED BY <2>2, <3>2, <3>3, <3>4, BalanceIs DEF Counters
  <2>3. QED BY <2>1, <2>2 DEF Balanced
<1>2. Balanced /\ QueueAgrees /\ [TelNext]_telVars => Balanced'
  BY BalancesStep, TelTypeStep DEF Balanced
<1>3. TelSpec => []QueueAgrees
  BY CountersOnlyCount, QueueAgreement, PTL
<1>4. QED BY <1>1, <1>2, <1>3, PTL DEF TelSpec

(* The counters keep their types for every value of the constants.         *)
THEOREM TelTypeCorrect == TelSpec => []TelTypeOK
<1>1. Balanced => TelTypeOK
  BY DEF Balanced
<1>2. QED BY <1>1, TelInvariance, PTL

(* Every started handler is counted under one outcome, panicked, or is in  *)
(* flight, whatever interleaves with whatever.                             *)
THEOREM TelemetryBalances == TelSpec => []TelemetryBalance
<1>1. Balanced => TelemetryBalance
  BY DEF Balanced, TelemetryBalance
<1>2. QED BY <1>1, TelInvariance, PTL

(* An enqueued handler ends under a queued_ counter or as a discard.       *)
THEOREM QueueBalances == TelSpec => []QueueBalance
<1>1. Balanced => QueueBalance
  BY DEF Balanced, QueueBalance
<1>2. QED BY <1>1, TelInvariance, PTL
==============================================================================
