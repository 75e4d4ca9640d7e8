SPECIFICATION Spec
CONSTANTS
    r1 = r1
    r2 = r2
    r3 = r3
    Tokens = {1}
    Requests = {r1, r2}
    Deployments <- Single
    Limits = {0}
    Demands <- Videos
    Changes = {}
    PreferHigher = TRUE
    MinCredits = 0
    MaxLeaks = 1
INVARIANTS NoSlotLeak
