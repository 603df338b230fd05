SPECIFICATION Spec
CONSTANTS
    c1 = c1
    c2 = c2
    r1 = r1
    r2 = r2
    Conns <- TwoConns
    Runs <- TwoRuns
    QueueCap = 1
    Scenarios <- ThreeScenarios
INVARIANTS
    BroadcastTypeOK
    HeardOnceOrForAReason
    TripsOnOthersOnly
PROPERTIES
    EndpointsSettle
CHECK_DEADLOCK FALSE
