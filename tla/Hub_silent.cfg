SPECIFICATION HubSpec
CONSTANTS
    blank = blank
    short = short
    long = long
    Docs <- SomeDocs
    Size <- Sizes
    ChunkSize = 3
    Overlaps = {4}
    BatchSize = 2
    Live = TRUE
    MaxMessages = 3
INVARIANT LongTextIsSplit
