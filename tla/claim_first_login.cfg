SPECIFICATION PatientSpec
CONSTANTS
    k1 = k1
    bootstrap = bootstrap
    b1 = b1
    Ids <- MCIds
    ConfigKeys = {}
    Configs <- MCConfigs
    Browsers <- MCBrowsers
    Seeded = {}
    HasBootstrap = TRUE
    KeepsSecret = TRUE
    SessionTTL = 2
    CsrfTTL = 1
    MaxClock = 3
    MaxRunning = 1
    MaxBoots = 1
PROPERTIES
    BootstrapLogsIn

