CONSTANTS
  Absent = Absent
  NotStr = NotStr
  MyId = "me"
  Bracketed = {"[tip]"}
  Tasks = {t1, t2}
  MaxStarts = 2
  Adapter = adapter
  Beat = beat
  Senders <- MCSenders
  MaxConns = 2
  Frames <- MCFrames
  Chains <- MCChains
  Capacity = 1
  MaxFrames = 2
SPECIFICATION FairSpec
INVARIANTS
  TypeOK
  StateIsolated
  ReadersSeeWhole
  RepliesBalance
  WireInOrder
  RepliesToSender
PROPERTIES
  WriterServes
CHECK_DEADLOCK FALSE
