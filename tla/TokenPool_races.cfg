SPECIFICATION Spec
CONSTANTS
    t1 = t1
    t2 = t2
    s1 = s1
    s2 = s2
    c1 = c1
    Tokens = {t1}
    Service = {s1, s2}
    Tools = {}
    ErrorBanThreshold = 2
    StBrowserRefresh = FALSE
    Operations <- RaceOps
    MaxErrors = 2
    MaxCrashes = 1
SYMMETRY Symmetry
INVARIANTS TypeOK ExpiredImpliesRetired CandidateIsLastHeard HalfEnabledInFlight
PROPERTIES FlipNeedsTwoInARow
CHECK_DEADLOCK FALSE
