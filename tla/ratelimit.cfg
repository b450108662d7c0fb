CONSTANTS
  k = k
  Clients = {c1}
  Tokens = {k, stored}
  NoToken = NoToken
  Configs <- MCConfigs
  MaxAge = 7
SPECIFICATION Spec
INVARIANTS
  RefusedOnlyFull
PROPERTIES
  NeverOverLimit
  QuietForgotten
