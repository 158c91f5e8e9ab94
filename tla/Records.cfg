SPECIFICATION MCSpec
CONSTANTS
    Accounts = {"a1", "a2"}
    Queues = {"q1", "q2"}
    MAX_CACHE = 4
    TARGET_CACHE_CLAIMING = 2
    TARGET_CACHE_RELEASING = 1
    Cost = 2
    Configs <- SmallConfigs
    MaxHandles = 1
    MaxItems = 4
INVARIANTS
    UsedIsHeld
    TotalIsSum
    NeverAccusedOfLying
    ExploratoryHasRequest
    PublishedIsRecoverable
    AdvertisedAccepts
    LatestIsKept
PROPERTY NonPrimaryOnlyIfNeeded
CHECK_DEADLOCK FALSE
