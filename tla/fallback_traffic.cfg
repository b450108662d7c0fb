CONSTANTS
  a = a
  b = b
  c = c
  fs = fs
  ip = ip
  Default = Default
  NoOne = NoOne
  Providers = {a, b}
  Registered = {a, b}
  FlareSolverr = fs
  InvisiblePlaywright = ip
  Requests = {r1, r2}
  MaxConcurrent = 1
  Configs <- BreakerOn
  MaxAge = 1
  Routes <- TrafficRoutes
  Standings <- TrafficStandings
  ErrorRule <- TrafficRules
  JudgedErrors = {}
  SessionsOn = FALSE
  CookieDir = FALSE
  Validated = FALSE
SPECIFICATION FairSpec
INVARIANTS
  PermitsConserved
PROPERTIES
  RequestsEnd
  AdmissionRespectsCircuits
  HealthReturns
