SPECIFICATION MCSpec
CONSTANTS
    ConsensusInc = 2
    SendmeInc = 2
    CwndInit = 4
    CwndMin = 2
    CwndMax = 7
    CwndInc = 1
    CwndIncRate = 1
    CwndIncPctSs = 50
    Alpha = 1
    Beta = 2
    Delta = 3
    Gamma = 2
    SsCwndCap = 5
    SsCwndMax = 6
    CwndFullGap = 1
    CwndFullMinPct = 25
    CwndFullPerCwnd = 1
    EwmaCwndPct = 50
    EwmaMax = 10
    EwmaSsMax = 2
    RttResetPct = 100
    DiscrepancyRatioMax = 3
    MaxU32 = 60
    RawRtts = {0, 1, 2, 6}
    QueueSizes = {0, 3}
    MaxCells = 12
INVARIANTS
    NeverClosed
    CleanIsHeld
PROPERTIES
    BlockedIsTemporary
    
    
CHECK_DEADLOCK FALSE
