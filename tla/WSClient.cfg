SPECIFICATION Spec
CONSTANTS
    x1 = x1
    x2 = x2
    x3 = x3
    h1 = h1
    NoSocket = NoSocket
    Sockets <- ThreeSockets
    Handlers <- OneHandler
    Base = 1000
    MaxDelay = 30000
    MaxAttempts = 5
INVARIANTS
    TimersAccounted
    NextTryAhead
    OneConnection
    DestroyedIsQuiet
PROPERTIES
    BackoffDoubles
    IsAChannel
    Reconnects
