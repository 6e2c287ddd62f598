SPECIFICATION Spec
CONSTANTS
    Nodes <- TwoShardsLongerFirst
    CreateArgs <- LongerFirstArgs
    BadAddrs <- Rejected
    Keys = {k1, k2}
    k1 = k1
    k2 = k2
    Values <- TwoSizes
    chash <- OwnerOf
    NodeNames <- SomeNames
    MigrationArgs <- NewShards
    Offsets <- SomeOffsets
    ItemLists <- Pairs
    Calls <- SingleCalls
    LostAnswers = TRUE
    MaxFds = 2
    MaxOutages = 1
    NoKey = NoKey
INVARIANT RequestsReachOwner
