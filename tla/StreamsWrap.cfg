SPECIFICATION Spec
CONSTANTS
    MaxId = 2
    MaxStreams = 3
    ClientData = 0
    ServiceData = 1
    IncomingBuffer = 2
    Dispositions = {"Accept", "CloseCircuit"}
    UsesStreamSendme = FALSE
    MultiThreaded = FALSE
INVARIANT Disjoint
CHECK_DEADLOCK FALSE
