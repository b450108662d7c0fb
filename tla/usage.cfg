SPECIFICATION Spec
CONSTANTS
    brave = brave
    zyte = zyte
    r1 = r1
    r2 = r2
    none = none
    NoLimit = none
    Providers <- MCProviders
    Requests <- MCRequests
    MonthlyLimit <- MCMonthly
    DailyLimit <- MCDaily
    AlertAt <- MCAlertAt
    Removes <- MCRemoves
    Redirects <- MCRedirects
    Configured <- MCConfigured
    Costs <- MCCosts
    Remaining <- MCRemaining
    Chains <- MCChains
    Subscribed <- MCSubscribed
    MaxCost = 1
    Owed = 1
    Suppress = 2
    Uptime = 2
    MaxTasks = 3
    TicksPerDay = 1
    DaysPerMonth = 2
    MaxDay = 2
    MaxUse <- MCMaxUse
    OtherEvents <- MCOther
    MaxBoots = 1
SYMMETRY MCSymmetry
INVARIANTS
    OvershootBounded
    ThresholdToldOnce
PROPERTIES
    WithheldOnlyCovered
    KeepsPromise
CHECK_DEADLOCK FALSE
