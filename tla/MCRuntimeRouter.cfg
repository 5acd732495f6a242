CONSTANTS
  Callers = {c1, c2}
  Texts <- MCTexts
  EventTypes = {"order"}
  Plugins = {1, 2}
  Configurations <- SinglePatterns
  ToSnakeCase <- SnakeCase
  Capacity = 2
  MaxArrivals = 2
SPECIFICATION FairSpec
INVARIANTS
  TypeOK
  EveryMatchOnce
  InOrder
  RoutingBalance
PROPERTIES
  DispatchEnds
CHECK_DEADLOCK FALSE
