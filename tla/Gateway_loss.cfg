SPECIFICATION SafeSpec
CONSTANTS
    t1 = t1
    t2 = t2
    t3 = t3
    t4 = t4
    w1 = w1
    w2 = w2
    None = None
    Main = main
    Submitters <- OnlyMain
    Tasks <- FourTasks
    Workers <- OneWorker
    ResultsCap = 1
    PayloadCap = 1
    WireCap = 1
    MaxSendRetries = 1
    Unencodable <- NoneUnencodable
PROPERTY ZeroDataLoss
SYMMETRY GatewaySymmetry
