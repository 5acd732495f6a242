---------------------------- MODULE TaskScheduler ----------------------------
(***************************************************************************)
(* The per-plugin task scheduler of fish-runtime (actor/task_runner.rs).   *)
(*                                                                         *)
(* Three kinds of tokio tasks share its state: the plugin actor, which     *)
(* dispatches one handler future at a time; the queue processor, spawned   *)
(* only for DropOldest, which moves queued futures onto semaphore permits; *)
(* and one spawned task per running handler, which owns a permit until it  *)
(* ends.  What they share is a fair semaphore (`permits' is the free part  *)
(* of it), a mutex-protected VecDeque and a Notify that can store one      *)
(* permit.  The counters they bump are in SchedulerTelemetry.              *)
(*                                                                         *)
(* An element of Tasks names one dispatched handler future while it is in  *)
(* flight; once it is over the name is free for a later dispatch, so the   *)
(* behaviours are infinite although Tasks may be finite.                   *)
(***************************************************************************)
EXTENDS Naturals, Sequences, FiniteSets

CONSTANTS
  Tasks,        \* names of handler futures in flight
  Concurrency,  \* RuntimeConfig.concurrency, the semaphore's initial permits
  MaxQueue,     \* the argument of QueueStrategy::DropOldest
  Strategies    \* the queue strategies a run considers

ASSUME SchedulerAssumption ==
  /\ Concurrency \in Nat
  /\ MaxQueue \in Nat
  /\ Strategies \subseteq {"DropNewest", "DropOldest"}

VARIABLES
  strategy,  \* the configured strategy; never changes
  permits,   \* free permits of the semaphore
  queue,     \* pending_queue
  notify,    \* TRUE when queue_notify stores a permit
  proc,      \* where the queue processor is
  status     \* where each task is

vars == <<strategy, permits, queue, notify, proc, status>>

(* "enqueuing": the actor found no permit and waits for the queue's lock.  *)
(* "hand": popped by the processor, which does not have a permit yet.      *)
(* "settled": the outcome is known and counted, the permit not yet dropped.*)
Status == {"idle", "enqueuing", "queued", "hand", "running", "running_q", "settled"}

(* "pop": about to lock and pop.  "wait": found the queue empty, has not   *)
(* polled notified() yet.  "parked": registered as the Notify's waiter.    *)
(* "acquire": about to poll acquire_owned().  "waiting": in the            *)
(* semaphore's waiter list.  "granted": was assigned a released permit.    *)
Proc == {"off", "pop", "wait", "parked", "acquire", "waiting", "granted"}

At(s) == {t \in Tasks : status[t] = s}

(* The tasks that own a permit (the _permit of spawn_handler_task).        *)
Running == {t \in Tasks : status[t] \in {"running", "running_q", "settled"}}

(* TaskScheduler::new.  The processor exists only under DropOldest.        *)
Init ==
  /\ strategy \in Strategies
  /\ permits = Concurrency
  /\ queue = <<>>
  /\ notify = FALSE
  /\ proc = IF strategy = "DropOldest" THEN "pop" ELSE "off"
  /\ status = [t \in Tasks |-> "idle"]

Move(t, to) == status' = [status EXCEPT ![t] = to]
------------------------------------------------------------------------------
(* The actor: dispatch_task_or_enqueue.  The actor handles one message at  *)
(* a time and awaits each dispatch, so none starts while one is suspended  *)
(* on the queue's lock.                                                    *)

CanDispatch(t) == status[t] = "idle" /\ At("enqueuing") = {}

(* Mutant: takes a permit without looking whether there is one.            *)
StartBlindly(t) ==
  /\ CanDispatch(t)
  /\ permits' = permits - 1
  /\ Move(t, "running")
  /\ UNCHANGED <<strategy, queue, notify, proc>>

(* try_acquire_owned succeeds: the handler is spawned at once.             *)
Start(t) ==
  /\ CanDispatch(t)
  /\ permits > 0
  /\ permits' = permits - 1
  /\ Move(t, "running")
  /\ UNCHANGED <<strategy, queue, notify, proc>>

(* No permit, DropNewest: the future is dropped and nothing else happens.  *)
Drop(t) ==
  /\ CanDispatch(t)
  /\ permits = 0
  /\ strategy = "DropNewest"
  /\ UNCHANGED vars

(* No permit, DropOldest: the decision to enqueue is taken before          *)
(* `queue.lock().await'; permits may come free while the actor waits.      *)
DecideEnqueue(t) ==
  /\ CanDispatch(t)
  /\ permits = 0
  /\ strategy = "DropOldest"
  /\ Move(t, "enqueuing")
  /\ UNCHANGED <<strategy, permits, queue, notify, proc>>

(* Mutants: `>' for `>='; a discard that reports a future but keeps it.    *)
DiscardLate == IF Len(queue) > MaxQueue /\ queue # <<>> THEN Tail(queue) ELSE queue

DiscardNothing == queue

(* `if q.len() >= max_queue { q.pop_front() }': the queue that remains.    *)
AfterDiscard == IF Len(queue) >= MaxQueue /\ queue # <<>> THEN Tail(queue) ELSE queue

Discarded == IF Len(queue) >= MaxQueue /\ queue # <<>> THEN {Head(queue)} ELSE {}

(* Notify::notify_one: wakes the registered waiter, or stores one permit.  *)
NotifyOne ==
  IF proc = "parked"
  THEN proc' = "pop" /\ UNCHANGED notify
  ELSE notify' = TRUE /\ UNCHANGED proc

(* Mutant: notify_one only inside the branch that discards.                *)
EnqueueUnnoticed(t) ==
  /\ status[t] = "enqueuing"
  /\ queue' = Append(AfterDiscard, t)
  /\ status' = [u \in Tasks |-> IF u = t THEN "queued"
                                ELSE IF u \in Discarded THEN "idle" ELSE status[u]]
  /\ IF Discarded # {} THEN NotifyOne ELSE UNCHANGED <<notify, proc>>
  /\ UNCHANGED <<strategy, permits>>

(* The locked section: make room, push, notify while still holding it.     *)
Enqueue(t) ==
  /\ status[t] = "enqueuing"
  /\ queue' = Append(AfterDiscard, t)
  /\ status' = [u \in Tasks |-> IF u = t THEN "queued"
                                ELSE IF u \in Discarded THEN "idle" ELSE status[u]]
  /\ NotifyOne
  /\ UNCHANGED <<strategy, permits>>
------------------------------------------------------------------------------
(* The processor: the loop of spawn_queue_processor.                       *)

(* Mutant: pop_back, the newest future first.                              *)
PopNewest ==
  /\ proc = "pop"
  /\ queue # <<>>
  /\ queue' = SubSeq(queue, 1, Len(queue) - 1)
  /\ Move(queue[Len(queue)], "hand")
  /\ proc' = "acquire"
  /\ UNCHANGED <<strategy, permits, notify>>

Pop ==
  /\ proc = "pop"
  /\ queue # <<>>
  /\ queue' = Tail(queue)
  /\ Move(Head(queue), "hand")
  /\ proc' = "acquire"
  /\ UNCHANGED <<strategy, permits, notify>>

PopNothing ==
  /\ proc = "pop"
  /\ queue = <<>>
  /\ proc' = "wait"
  /\ UNCHANGED <<strategy, permits, queue, notify, status>>

(* `notify.notified().await': takes the stored permit or parks.            *)
AwaitNotify ==
  /\ proc = "wait"
  /\ notify' = FALSE
  /\ proc' = IF notify THEN "pop" ELSE "parked"
  /\ UNCHANGED <<strategy, permits, queue, status>>

(* acquire_owned() finds a free permit, then spawn_handler_task(.., true). *)
AcquireFree(t) ==
  /\ proc = "acquire"
  /\ status[t] = "hand"
  /\ permits > 0
  /\ permits' = permits - 1
  /\ Move(t, "running_q")
  /\ proc' = "pop"
  /\ UNCHANGED <<strategy, queue, notify>>

(* Mutants: waits for a handler to end whether or not a permit is free;    *)
(* repeats try_acquire_owned instead of waiting.                           *)
JoinBlindly ==
  /\ proc = "acquire"
  /\ proc' = "waiting"
  /\ UNCHANGED <<strategy, permits, queue, notify, status>>

TryAgain ==
  /\ proc = "acquire"
  /\ permits = 0
  /\ UNCHANGED vars

(* acquire_owned() finds none and joins the semaphore's waiter list.       *)
JoinWaiters ==
  /\ proc = "acquire"
  /\ permits = 0
  /\ proc' = "waiting"
  /\ UNCHANGED <<strategy, permits, queue, notify, status>>

(* acquire_owned() returns the permit a finished handler passed on.        *)
TakeGranted(t) ==
  /\ proc = "granted"
  /\ status[t] = "hand"
  /\ Move(t, "running_q")
  /\ proc' = "pop"
  /\ UNCHANGED <<strategy, permits, queue, notify>>
------------------------------------------------------------------------------
(* A handler task: the block spawned by spawn_handler_task.                *)

(* The future ends, fails, times out or panics; all but a panic count it.  *)
Settle(t) ==
  /\ status[t] \in {"running", "running_q"}
  /\ Move(t, "settled")
  /\ UNCHANGED <<strategy, permits, queue, notify, proc>>

(* Semaphore::add_permits: the head of the waiter list has precedence over *)
(* later try_acquire calls; only without a waiter does the permit go free. *)
ReturnPermit ==
  IF proc = "waiting"
  THEN proc' = "granted" /\ UNCHANGED permits
  ELSE permits' = permits + 1 /\ UNCHANGED proc

(* Mutant: the permit is forgotten when its handler ends.                  *)
ReleaseNothing(t) ==
  /\ status[t] = "settled"
  /\ Move(t, "idle")
  /\ UNCHANGED <<strategy, permits, queue, notify, proc>>

(* `_permit' is dropped at the end of the block (or by the unwinding).     *)
Release(t) ==
  /\ status[t] = "settled"
  /\ Move(t, "idle")
  /\ ReturnPermit
  /\ UNCHANGED <<strategy, queue, notify>>
------------------------------------------------------------------------------
Actor(t) == Start(t) \/ Drop(t) \/ DecideEnqueue(t) \/ Enqueue(t)

Processor == \/ Pop \/ PopNothing \/ AwaitNotify \/ JoinWaiters
             \/ \E t \in Tasks : AcquireFree(t) \/ TakeGranted(t)

Handler(t) == Settle(t) \/ Release(t)

Next == Processor \/ \E t \in Tasks : Actor(t) \/ Handler(t)

Spec == Init /\ [][Next]_vars

(* tokio polls every woken task again; the queue's lock is fair and held   *)
(* only for a moment; `tokio::time::timeout' ends every handler that       *)
(* yields.  Nothing forces a further dispatch.                             *)
Fairness ==
  /\ WF_vars(Processor)
  /\ \A t \in Tasks : WF_vars(Enqueue(t)) /\ WF_vars(Handler(t))

FairSpec == Spec /\ Fairness
------------------------------------------------------------------------------
TypeOK ==
  /\ strategy \in Strategies
  /\ permits \in Nat
  /\ queue \in Seq(Tasks)
  /\ notify \in BOOLEAN
  /\ proc \in Proc
  /\ status \in [Tasks -> Status]

(* No permit is ever lost or made: the free ones, those owned by handler   *)
(* tasks and the one on its way to the processor add up to the configured  *)
(* concurrency.  Covers task_runner.rs 77, 150 and 165 together.           *)
Granted == IF proc = "granted" THEN 1 ELSE 0

PermitConservation ==
  /\ IsFiniteSet(Running)
  /\ permits + Granted + Cardinality(Running) = Concurrency

(* No lost wakeup: the processor is never parked while a task is queued,   *)
(* and if it is about to wait with a task queued then the notification     *)
(* that will let it through is already stored.  Covers the gap between the *)
(* unlocked pop (145-146) and `notified().await' (157).                    *)
NoLostWakeup ==
  /\ proc = "parked" => queue = <<>>
  /\ proc = "wait" => queue = <<>> \/ notify

(* While the processor waits for a permit none is free, so no handler slot *)
(* stays unused behind a backlog and no later dispatch can slip past it.   *)
NoIdlePermitForWaiter == proc = "waiting" => permits = 0

(* The queue and the fates of the tasks agree: each queued task is in the  *)
(* queue exactly once and nothing else is, and the processor holds exactly *)
(* one task when, and only when, it wants a permit.  A task is therefore   *)
(* never both discarded and run, and never run twice.                      *)
QueueAgrees ==
  /\ \A i \in 1..Len(queue) : status[queue[i]] = "queued"
  /\ \A i, j \in 1..Len(queue) : queue[i] = queue[j] => i = j
  /\ \A t \in Tasks : status[t] = "queued" => \E i \in 1..Len(queue) : queue[i] = t
  /\ \A t, u \in Tasks : status[t] = "hand" /\ status[u] = "hand" => t = u
  /\ proc \in {"acquire", "waiting", "granted"} <=> \E t \in Tasks : status[t] = "hand"

(* The backlog is bounded: the pending queue by max_queue, except that     *)
(* DropOldest(0) behaves as DropOldest(1) because the push follows the     *)
(* discard; and DropNewest never has a backlog.                            *)
QueueBound ==
  /\ Len(queue) <= IF MaxQueue = 0 THEN 1 ELSE MaxQueue
  /\ strategy = "DropNewest" => queue = <<>> /\ proc = "off"

(* Every future that was accepted into the queue is eventually run or      *)
(* discarded, however many later dispatches compete for the permits.       *)
QueuedIsServed ==
  \A t \in Tasks :
    status[t] \in {"enqueuing", "queued", "hand"} ~> status[t] \in {"running_q", "idle"}
==============================================================================
