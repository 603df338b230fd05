SPECIFICATION HubFairSpec
CONSTANTS
    blank = blank
    short = short
    long = long
    Docs <- SomeDocs
    Size <- Sizes
    ChunkSize = 3
    Overlaps = {1, 3}
    BatchSize = 2
    Live = TRUE
    MaxMessages = 3
INVARIANTS AcknowledgedIsStored StoredAreTheWindows CountIsHonest
PROPERTY HubAnswers
