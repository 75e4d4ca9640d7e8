SPECIFICATION Spec
CONSTANTS
    Accounts = {1}
    Proxies = {"p"}
    Scenes <- SlowDisk
INVARIANTS OnlyTheThreadLeaks
