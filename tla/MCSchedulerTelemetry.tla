------------------------ MODULE MCSchedulerTelemetry ------------------------
(* SchedulerTelemetry on small sets of model values.                       *)
EXTENDS SchedulerTelemetry, TLC

Symmetry == Permutations(Tasks)
==============================================================================
