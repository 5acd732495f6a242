CONSTANTS
  HeartbeatInterval = 3
  HeartbeatTimeout = 1
  RegSleep = 1
  ReconnectSleep = 1
  MaxConns = 3
SPECIFICATION FairSpec
INVARIANTS
  TypeOK
  SilenceEndsHeartbeats
  BeatsOnTime
PROPERTIES
  AlwaysRetries
