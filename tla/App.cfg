SPECIFICATION Spec
CONSTANTS
    Scenarios <- AllScenarios
    Handlers <- AllHandlers
    HeroNodes <- TwoNodes
    WireCap = 1
    AgentScore = 75
    MinScore = 5000
    RestLimit = 1
    FeedCap = 2
    NewsCap = 6
    Cards = 3
    BootLogs = 2
    AlertCap = 1
    LogTexts = 2
    LogCap = 3
INVARIANTS
    AppTypeOK
    NothingOutlivesItsPage
    GoesBackOnce
    AnsweredAtMostOnce
    TimersKeepStep
PROPERTIES
    SummaryCatchesUp
    ShownLinesStay
    WhatStartsEnds
CHECK_DEADLOCK FALSE
