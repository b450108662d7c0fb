CONSTANTS
    Configs <- MCConfigs
    FirstConfig <- Scrubs
    Asks <- MCAsks
    Fetches <- MCFetches
    Stages <- MCStages
    DedupOn = TRUE
    Policies <- MCPolicies
    Digits <- MCDigits
    TypeOf <- MCTypeOf
    Veiled <- MCVeiled
    Markup = {"tag"}
    Boilerplate = {"cookies"}
    Priority <- MCPriority
    Scores = {0, 60, 90}
    Thresholds <- MCThresholds
    Numbers <- MCNumbers
    Callers = {c1, c2}
    Providers = {"searxng", "jina", "devdocs"}
    ApiKeys = {}
    Backends <- MCBackends
    CheckedSets <- MCCheckedSets
    HealthTtl = 2
    MaxProbe = 1
    MaxTime = 4
SYMMETRY MCSymmetry
SPECIFICATION MCSpec
INVARIANTS UnchangedMeansSame FlaggedNeverServed DetectedActedOn InboundCleared LuhnAgrees ReportedRecent
