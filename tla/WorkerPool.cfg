SPECIFICATION PoolSpec
CONSTANTS
    t1 = t1
    t2 = t2
    t3 = t3
    t4 = t4
    t5 = t5
    w1 = w1
    s1 = s1
    s2 = s2
    None = None
    Tasks <- FiveTasks
    Workers <- OneWorker
    Submitters <- TwoSubmitters
INVARIANTS
    HandOffIsFIFO
    RunsAcceptedOnce
PROPERTIES
    QuietAfterStop
    CallsReturn
    AcceptedStarts
