CONSTANTS
  a = a
  b = b
  u = u
  v = v
  banned = banned
  p = p
  d = d
  direct = direct
  guest = guest
  own = own
  Callers = {guest, own}
  Proxies = {direct}
  AnyProxy = AnyProxy
  NoProfile = NoProfile
  NoTtl = NoTtl
  CacheOn = TRUE
  Validated = TRUE
  LoginWalls = TRUE
  Targets = {u}
  Hosts = {u}
  Providers = {a, b}
  Browsers = {}
  Domains = {d}
  Covers <- Site
  Profiles = {}
  Jars = {1}
  MaxLife = 0
  TtlRules <- AgingRules
  DefaultTtl = 0
  MaxAge = 2
  Requests = {r1, r2}
  Shapes <- AgingShapes
  Refused = {}
  Outbound <- Passes
  InjectionConfigs <- NoDetection
  Marks = {}
  MaxVersion = 2
SPECIFICATION FairSpec
PROPERTIES
  EventuallyCurrent
