SPECIFICATION Spec
CONSTANTS
    k1 = k1
    k2 = k2
    legacy = legacy
    bootstrap = bootstrap
    b1 = b1
    Ids <- MCIds
    ConfigKeys <- MCConfigKeys
    Configs <- MCConfigs
    Browsers <- MCBrowsers
    Seeded <- MCBrowsers
    HasBootstrap = TRUE
    KeepsSecret = FALSE
    SessionTTL = 2
    CsrfTTL = 1
    MaxClock = 3
    MaxRunning = 1
    MaxBoots = 1
SYMMETRY MCSymmetry
INVARIANTS
    TypeOK
    StaleAccessBounded
    AlwaysAnAdmin
PROPERTIES
    RevokedStaysOut
