SPECIFICATION MCSpec
CONSTANTS
    Requests = {"r1", "r2"}
    Usages <- MCUsages
    Policies = {{80}}
    MaxFailures = 2
    BuildErrors = {"Protocol"}
    Impatient = {"r2"}
    MaxBuilds = 2
    MaxTesting = 1
    MaxRetires = 1
INVARIANTS NoSharedIsolation UnusedIsUnused PeerNotBlamed CellsInOrder
PROPERTIES LaunchedAfterRetire RequestsAnswered PeerCircuitEnds 
CHECK_DEADLOCK FALSE
