\* Requests end and stop.
CHECK_DEADLOCK FALSE
CONSTANTS
    Reqs = {q1, q2}
    Asks <- MCAsks
    Configs <- MCConfigs
    FirstConfig <- On
    Policies <- MCPolicies
    Cards = {}
    Registered <- MCRegistered
    ApiKeys = {"exa"}
    Wire = {"good", "429"}
    Filters <- MCFilters
    Unknown = "ghost"
    Fallbacks = {"exa"}
    JudgeTtl = 0
    MaxClock = 1
    MaxReloads = 1
SYMMETRY MCSymmetry
SPECIFICATION Spec
INVARIANTS HeadCleared NoProviderFailsTwice JudgedOnlyOn
PROPERTY RuleGoesFirst
