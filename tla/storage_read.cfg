SPECIFICATION Spec
CONSTANTS
    BallotBits = 16
    Replicas <- ThreeReplicas
    num_peers = 3
    my_index <- OwnIndex
    Keys = {k1}
    CmdTypes = {SET}
    Data = {d1}
    InitLogs <- OneAhead
    Crashable <- NoReplicas
    ReadFaults <- LaterReplicas
    WriteFaults <- NoReplicas
    MaxSeq = 2
    MaxRuns <- LaterClients
    Threads = 1
    Lossy = FALSE
    MaxDups = 0
    NoCmd = NoCmd
    NoType = NoType
    NoData = NoData
    NoPeer = NoPeer
CHECK_DEADLOCK FALSE
PROPERTY OnlyLocalCommitLowersLog
