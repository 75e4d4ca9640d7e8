SPECIFICATION FairSpec
CONSTANTS
    c1 = c1
    c2 = c2
    None = None
    Callers = {c1, c2}
    Projects = {1}
    Slots = {1, 2, 3, 4}
    Pages = {1, 2, 3, 4, 5}
    Wraps = {1, 2, 3}
    Scenes <- AllScenes
    Permits = 1
    RecreateAt = 2
    RestartAt = 3
INVARIANTS TypeOK StrikesArePooled PagesDistinct PoolBounded
PROPERTIES BuildsFitPool CallsEnd
CHECK_DEADLOCK FALSE
