SPECIFICATION FairSpec
CONSTANTS
    Accounts = {1, 2}
    Proxies = {"p", "q"}
    Scenes <- AllScenes
INVARIANTS TypeOK ProfileExclusive IdleRunnersFit PausesEnd
PROPERTIES KeptAlive LetGo
