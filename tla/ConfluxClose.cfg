SPECIFICATION Spec
CONSTANTS
    Legs = {1, 2}
    Cwnd = 2
    SendmeInc = 1
    HighThroughput = FALSE
    MaxU32 = 10
    OffPrimary = TRUE
    MaxCells = 4
PROPERTIES
    DeliveredInOrder
CHECK_DEADLOCK FALSE
