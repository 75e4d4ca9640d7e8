SPECIFICATION FairSpec
CONSTANTS
    t1 = t1
    t2 = t2
    s1 = s1
    s2 = s2
    c1 = c1
    Tokens = {t1}
    Service = {s1}
    Tools = {c1}
    ErrorBanThreshold = 1
    StBrowserRefresh = TRUE
    Operations <- RecoveryOps
    MaxErrors = 1
    MaxCrashes = 1
INVARIANTS HalfEnabledInFlight
PROPERTIES RenewedMemberReturns RateLimitEnds
CHECK_DEADLOCK FALSE
