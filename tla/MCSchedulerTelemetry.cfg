CONSTANTS
  Tasks = {t1, t2, t3, t4, t5, t6}
  Concurrency = 2
  MaxQueue = 2
  MaxStarted = 6
  Strategies = {"DropNewest", "DropOldest"}
SYMMETRY Symmetry
SPECIFICATION TelSpec
INVARIANTS
  TelTypeOK
  PermitConservation
  NoLostWakeup
  NoIdlePermitForWaiter
  QueueAgrees
  QueueBound
  TelemetryBalance
  QueueBalance
CHECK_DEADLOCK FALSE
