CONSTANTS
  a = a
  b = b
  u = u
  v = v
  banned = banned
  p = p
  d = d
  direct = direct
  guest = guest
  own = own
  Callers = {guest, own}
  Proxies = {direct}
  AnyProxy = AnyProxy
  NoProfile = NoProfile
  NoTtl = NoTtl
  CacheOn = TRUE
  Validated = TRUE
  LoginWalls = TRUE
  Targets = {u, v}
  Hosts = {u, v}
  Providers = {a, b}
  Browsers = {a, b}
  Domains = {d}
  Covers <- Site
  Profiles = {p}
  Jars = {1, 2}
  MaxLife = 1
  TtlRules <- NoRules
  DefaultTtl = 1
  MaxAge = 1
  Requests = {r1, r2}
  Shapes <- SessionShapes
  Refused = {}
  Outbound <- Passes
  InjectionConfigs <- NoDetection
  Marks = {"wall"}
  MaxVersion = 0
SPECIFICATION Spec
INVARIANTS
  SessionsStayPrivate
PROPERTIES
  GoneStaysGone
