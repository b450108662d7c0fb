CONSTANTS
  a = a
  b = b
  u = u
  v = v
  banned = banned
  p = p
  d = d
  direct = direct
  guest = guest
  own = own
  Callers = {guest, own}
  Proxies = {direct}
  AnyProxy = AnyProxy
  NoProfile = NoProfile
  NoTtl = NoTtl
  CacheOn = TRUE
  Validated = TRUE
  LoginWalls = TRUE
  Targets = {u, v, banned}
  Hosts = {u, v, banned}
  Providers = {a}
  Browsers = {}
  Domains = {d}
  Covers <- Site
  Profiles = {}
  Jars = {1}
  MaxLife = 0
  TtlRules <- NoRules
  DefaultTtl = 1
  MaxAge = 1
  Requests = {r1, r2}
  Shapes <- CheckShapes
  Refused = {v}
  Outbound <- Screening
  InjectionConfigs <- Detection
  Marks = {"poor", "hostile", "leaky"}
  MaxVersion = 0
SPECIFICATION Spec
SYMMETRY Symmetry
INVARIANTS
  
  AuditedOnce

  
