CONSTANTS
  Builders <- AllBuilders
  Tasks = {p1, p2, p3}
  Capacity = 1
  MaxWatchers = 1
SPECIFICATION Spec
CHECK_DEADLOCK FALSE
INVARIANTS
  TypeOK
  NoSilentLoss
  HandledOnce
  SharedTopicServesNone
PROPERTIES
  PublicationEnds
