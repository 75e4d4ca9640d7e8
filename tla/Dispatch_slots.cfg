SPECIFICATION Spec
CONSTANTS
    r1 = r1
    r2 = r2
    r3 = r3
    Tokens = {1, 2, 3}
    Requests = {r1, r2}
    Deployments <- Fleets
    Limits = {0}
    Demands <- SomeDemands
    Changes = {"mode"}
    PreferHigher = TRUE
    MinCredits = 0
    MaxLeaks = 0
SYMMETRY Symmetry
INVARIANTS TypeOK PendingCountsHolders
PROPERTIES BurstOverflows FullLaps
