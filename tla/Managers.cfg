SPECIFICATION MCSpec
CONSTANTS
    Callers = {"a", "b"}
    Key <- MCKey
    Isolation <- MCIsolation
    MAX_RECHECKS = 10
    RETAIN_CIRCUIT_AFTER_LAST_USE = 1
    RETAIN_DATA_AFTER_LAST_USE = 1
    MaxRecords = 2
    MaxTasks = 6
    MaxTime = 3
    MaxDeaths = 1
INVARIANTS ChannelTableSound TaskOwnsRecord OpenWillExpire
PROPERTIES EveryoneAnswered CallersAllAnswered
CHECK_DEADLOCK FALSE
