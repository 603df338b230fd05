SPECIFICATION Spec
CONSTANTS
    a1 = a1
    a2 = a2
    n1 = n1
    r1 = r1
    r2 = r2
    Articles <- AllArticles
    Noise <- OneNoise
    Invalid = {}
    Runs <- TwoRuns
    Scenarios <- AllScenarios
    Horizon = 6
    Retention = 6
    Window = 4
    Period = 3
    JobLimit = 1
    PageSize = 2
    BatchSize = 1
    MaxChunks = 2
    NoDoc = NoDoc
INVARIANTS
    AgentTypeOK
    StoresAgree
    RunMissesNothing
    NothingMissed
PROPERTIES
    ProcessedIsFinal
    RunsEnd
CHECK_DEADLOCK FALSE
