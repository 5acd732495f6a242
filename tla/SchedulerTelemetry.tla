------------------------- MODULE SchedulerTelemetry -------------------------
(***************************************************************************)
(* TaskScheduler together with the counters it bumps (fish-core            *)
(* telemetry.rs, "PluginActor handler layer" and "Queue strategy").  Each  *)
(* action is the scheduler's action and the fetch_adds of the same code;   *)
(* adjacent fetch_adds of one call are one step.                           *)
(***************************************************************************)
EXTENDS TaskScheduler

CONSTANT MaxStarted  \* bound on handler_started, so that the counters stay finite

ASSUME TelemetryAssumption == MaxStarted \in Nat

VARIABLES
  tel,    \* the counters
  panics  \* panicked handlers, by how they were started; the code counts none

telVars == <<strategy, permits, queue, notify, proc, status, tel, panics>>

Counters == {
  "handler_started", "handler_succeeded", "handler_failed", "handler_timed_out",
  "drop_newest_drops", "drop_oldest_enqueues", "drop_oldest_oldest_discards",
  "queued_handler_succeeded", "queued_handler_failed", "queued_handler_timed_out"}

(* Mutant: the outcome counters do not depend on `queued'.                 *)
OutcomesTogether(s) == {"handler_succeeded", "handler_failed", "handler_timed_out"}

(* The counter of an outcome, chosen by spawn_handler_task's `queued'.     *)
OutcomeCounters(s) ==
  IF s = "running_q"
  THEN {"queued_handler_succeeded", "queued_handler_failed", "queued_handler_timed_out"}
  ELSE {"handler_succeeded", "handler_failed", "handler_timed_out"}

TelInit ==
  /\ Init
  /\ tel = [c \in Counters |-> 0]
  /\ panics = [s \in {"running", "running_q"} |-> 0]

Count(names) ==
  /\ tel' = [c \in Counters |-> IF c \in names THEN tel[c] + 1 ELSE tel[c]]
  /\ UNCHANGED panics

(* Mutant: handler_started is not bumped for an enqueued future.           *)
CountedMissingStart(t) ==
  \/ Start(t) /\ Count({"handler_started"})
  \/ Drop(t) /\ Count({"handler_started", "drop_newest_drops"})
  \/ DecideEnqueue(t) /\ Count({"drop_oldest_enqueues"})

Counted(t) ==
  \/ Start(t) /\ Count({"handler_started"})
  \/ Drop(t) /\ Count({"handler_started", "drop_newest_drops"})
  \/ DecideEnqueue(t) /\ Count({"handler_started", "drop_oldest_enqueues"})

(* The discard is counted whenever the queue is at max_queue, also when    *)
(* max_queue is 0 and there is nothing to pop.                             *)
CountedEnqueue(t) ==
  Enqueue(t) /\ Count(IF Len(queue) >= MaxQueue THEN {"drop_oldest_oldest_discards"} ELSE {})

CountedSettle(t) ==
  /\ Settle(t)
  /\ \E c \in OutcomeCounters(status[t]) : Count({c})

(* A panicking future unwinds through spawn_handler_task's block: the      *)
(* permit is dropped, no counter is touched.                               *)
Panic(t) ==
  /\ Settle(t)
  /\ panics' = [panics EXCEPT ![status[t]] = @ + 1]
  /\ UNCHANGED tel

TelNext ==
  \/ Processor /\ Count({})
  \/ \E t \in Tasks :
       \/ tel["handler_started"] < MaxStarted /\ Counted(t)
       \/ CountedEnqueue(t) \/ CountedSettle(t) \/ Panic(t)
       \/ Release(t) /\ Count({})

TelSpec == TelInit /\ [][TelNext]_telVars
------------------------------------------------------------------------------
TelTypeOK ==
  /\ TypeOK
  /\ tel \in [Counters -> Nat]
  /\ panics \in [{"running", "running_q"} -> Nat]

Direct == tel["handler_succeeded"] + tel["handler_failed"] + tel["handler_timed_out"]

ViaQueue == tel["queued_handler_succeeded"] + tel["queued_handler_failed"]
            + tel["queued_handler_timed_out"]

Discards == tel["drop_oldest_oldest_discards"]

InFlight(S) == Cardinality({t \in Tasks : status[t] \in S})

(* Nothing dispatched goes missing from the counters except panics: every  *)
(* started handler is counted under exactly one outcome, drop or discard,  *)
(* or is still queued or running, so that the counters give the number in  *)
(* flight at any moment.  Needs max_queue > 0 (see Discards).              *)
TelemetryBalance ==
  MaxQueue > 0 =>
    tel["handler_started"] =
      Direct + ViaQueue + tel["drop_newest_drops"] + Discards
      + panics["running"] + panics["running_q"]
      + InFlight({"enqueuing", "queued", "hand", "running", "running_q"})

(* The same for the queue alone: an enqueued handler ends under a queued_  *)
(* counter or as a discard, never under a handler_ counter.                *)
QueueBalance ==
  MaxQueue > 0 =>
    tel["drop_oldest_enqueues"] =
      ViaQueue + Discards + panics["running_q"]
      + InFlight({"enqueuing", "queued", "hand", "running_q"})
==============================================================================
