SPECIFICATION Spec
CONSTANTS
    t1 = t1
    t2 = t2
    s1 = s1
    s2 = s2
    c1 = c1
    Tokens = {t1}
    Service = {s1}
    Tools = {}
    ErrorBanThreshold = 2
    StBrowserRefresh = FALSE
    Operations <- RetireOps
    MaxErrors = 1
    MaxCrashes = 0
PROPERTIES RetiredStaysOut
CHECK_DEADLOCK FALSE
