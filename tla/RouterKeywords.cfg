CONSTANTS
  Callers = {c1, c2}
  Texts <- MCTexts
  EventTypes = {"order"}
  Plugins = {1, 2}
  Configurations <- TwoKeywords
  ToSnakeCase <- SnakeCase
  Capacity = 2
  MaxArrivals = 2
SPECIFICATION Spec
INVARIANT EveryMatchOnce
CHECK_DEADLOCK FALSE
