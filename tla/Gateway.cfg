SPECIFICATION Spec
CONSTANTS
    t1 = t1
    t2 = t2
    t3 = t3
    t4 = t4
    w1 = w1
    w2 = w2
    None = None
    Main = main
    Submitters <- OnlyMain
    Tasks <- TwoTasks
    Workers <- TwoWorkers
    ResultsCap = 1
    PayloadCap = 1
    WireCap = 1
    MaxSendRetries = 1
    Unencodable <- OneUnencodable
INVARIANTS
    TypeOK
    EverySectionAccounted
    SubmitNeverMeetsClosedChannel
PROPERTIES
    DeliversAtMostOnce
    ShutdownCompletes
    QueuedIsSettled
