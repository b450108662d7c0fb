CONSTANTS
  a = a
  b = b
  c = c
  fs = fs
  ip = ip
  Default = Default
  NoOne = NoOne
  Providers = {a, b, c, fs, ip}
  Registered = {a, b, fs, ip}
  FlareSolverr = fs
  InvisiblePlaywright = ip
  Requests = {r1}
  MaxConcurrent = 1
  Configs <- BreakerOff
  MaxAge = 0
  Routes <- WalkRoutes
  Standings <- WalkStandings
  ErrorRule <- WalkRules
  JudgedErrors = {"timeout", "other"}
  SessionsOn = TRUE
  CookieDir = TRUE
  Validated = TRUE
SPECIFICATION FairSpec
INVARIANTS
  FailsOnlyExhausted
  CallBudget
PROPERTIES
  NoRetryAfterError
  RequestsEnd
