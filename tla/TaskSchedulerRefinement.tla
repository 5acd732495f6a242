----------------------- MODULE TaskSchedulerRefinement -----------------------
(***************************************************************************)
(* TaskScheduler implements AbstractScheduler.  A future waits from its    *)
(* push until the processor spawns it, so the one in the processor's hand  *)
(* is the head of the abstract backlog and the backlog has room for one    *)
(* more than max_queue.                                                    *)
(***************************************************************************)
EXTENDS TaskScheduler

InHand == At("hand")

Hand == IF InHand = {} THEN <<>> ELSE <<CHOOSE t \in InHand : TRUE>>

QueueRoom == IF MaxQueue = 0 THEN 1 ELSE MaxQueue

Abs == INSTANCE AbstractScheduler WITH
         Limit <- Concurrency, Room <- QueueRoom + 1,
         running <- Running, waiting <- Hand \o queue

(* The scheduler keeps its promise: at most Concurrency handlers at once,  *)
(* a FIFO backlog of at most max_queue + 1, only the oldest (or the one    *)
(* after it) given up, every waiting future served before newer waiting    *)
(* ones, and none passed over for ever.  Covers task_runner.rs 65-214.     *)
ImplementsAbstract == Abs!AbsSpec
==============================================================================
