SPECIFICATION MCSpec
CONSTANTS
    Legs = {1, 2, 3}
    Cwnd = 2
    SendmeInc = 1
    HighThroughput = TRUE
    MaxU32 = 10
    OffPrimary = FALSE
    MaxCells = 4
INVARIANTS
    WindowsHold
    
    
    
PROPERTIES
    StopsAreTemporary
    DropReachesPeer
    DeliveredInOrder
    EverythingDelivered
    TunnelServes
CHECK_DEADLOCK FALSE
