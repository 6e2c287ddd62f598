SPECIFICATION Spec
CONSTANTS
    Nodes <- TwoShards
    CreateArgs <- TwoShardsArgs
    BadAddrs <- Rejected
    Keys = {k1, k2}
    k1 = k1
    k2 = k2
    Values <- OneByte
    chash <- OwnerOf
    NodeNames <- SomeNames
    MigrationArgs <- NewShards
    Offsets <- SomeOffsets
    ItemLists <- Pairs
    Calls <- SingleCalls
    LostAnswers = FALSE
    MaxFds = 2
    MaxOutages = 1
    NoKey = NoKey
INVARIANT MigrationAllOrNone
