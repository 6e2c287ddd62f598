SPECIFICATION Spec
CONSTANTS
    Nodes <- TwoShards
    CreateArgs <- TwoShardsArgs
    BadAddrs <- Rejected
    Keys = {k1, k2}
    k1 = k1
    k2 = k2
    Values <- TwoBytes
    chash <- OwnerOf
    NodeNames <- SomeNames
    MigrationArgs <- NewShards
    Offsets <- SomeOffsets
    ItemLists <- Pairs
    Calls <- SingleCalls
    LostAnswers = TRUE
    MaxFds = 2
    MaxOutages = 1
    NoKey = NoKey
INVARIANT ClientTypeOK
INVARIANT RequestsReachOwner
INVARIANT ConnectionsAccounted
PROPERTY ConnectionKeptIffAnswered
PROPERTY ImplementsKeyStore
