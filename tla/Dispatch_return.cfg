SPECIFICATION FairSpec
CONSTANTS
    r1 = r1
    r2 = r2
    r3 = r3
    Tokens = {1}
    Requests = {r1, r2}
    Deployments <- Single
    Limits = {0}
    Demands <- SomeDemands
    Changes = {"expire", "renew", "recharge", "cool", "limit", "remove", "toggle"}
    PreferHigher = TRUE
    MinCredits = 0
    MaxLeaks = 1
PROPERTIES SlotsComeBack
