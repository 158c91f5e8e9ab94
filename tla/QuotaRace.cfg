INIT BusyInit
NEXT Next
CONSTANTS
    Accounts = {"a1", "a2"}
    Queues = {"q1", "q2"}
    MAX_CACHE = 4
    TARGET_CACHE_CLAIMING = 2
    TARGET_CACHE_RELEASING = 1
    Cost = 2
    Configs <- BusyConfigs
    MaxHandles = 1
    MaxItems = 12
INVARIANT NeverCrashes
CHECK_DEADLOCK FALSE
