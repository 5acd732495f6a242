CONSTANTS
  Messages <- MCMessages
  Trailing = {0, 193}
  Payloads <- MCPayloads
  Noise = {10, 45}
  Methods <- MCMethods
  MaxNoise = 2
  MaxMethods = 3
SPECIFICATION Spec
INVARIANTS
  DecodesEncodings
  PrefixRejected
  CleanRecovers
  HandlersCallMethods
CHECK_DEADLOCK FALSE
