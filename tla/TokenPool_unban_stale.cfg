SPECIFICATION Spec
CONSTANTS
    t1 = t1
    t2 = t2
    s1 = s1
    s2 = s2
    c1 = c1
    Tokens = {t1, t2}
    Service = {s1}
    Tools = {}
    ErrorBanThreshold = 2
    StBrowserRefresh = FALSE
    Operations <- RaceOps
    MaxErrors = 2
    MaxCrashes = 0
PROPERTIES OnlyRateLimitReleased
CHECK_DEADLOCK FALSE
