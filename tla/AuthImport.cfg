CONSTANTS
  EnvCookies <- Envs
  MaxLogins = 3
SPECIFICATION Spec
INVARIANT ImportIsPersisted
