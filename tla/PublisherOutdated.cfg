SPECIFICATION MCSpec
CONSTANTS
    Netdirs <- MCNetdirs
    Changes = {"ipts"}
    MaxChanges = 2
    MaxFailures = 0
    MaxTasks = 2
INVARIANT CleanIsCurrent
CHECK_DEADLOCK FALSE
