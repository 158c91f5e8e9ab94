SPECIFICATION MCSpec
CONSTANTS
    WINDOW_INIT = 4
    Increment = 2
    Cwnd = 5
    MaxData = 9
INVARIANTS
    NoFalseAlarm
    
    AnsweredOnce
PROPERTIES
    
    BothInOrder
CHECK_DEADLOCK FALSE
