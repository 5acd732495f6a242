CONSTANTS
  Tasks = {t1, t2, t3, t4, t5}
  Concurrency = 1
  MaxQueue = 2
  Strategies = {"DropNewest", "DropOldest"}
SPECIFICATION FairSpec
PROPERTIES
  QueuedIsServed
  ImplementsAbstract
