CONSTANTS
  EnvCookies <- Envs
  MaxLogins = 3
SPECIFICATION Spec
INVARIANTS
  TypeOK
  RestartForgetsNothing
  DroppedStaysDropped
  NoOlderLogin
