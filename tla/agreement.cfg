SPECIFICATION Spec
CONSTANTS
    BallotBits = 16
    Replicas <- ThreeReplicas
    num_peers = 3
    my_index <- OwnIndex
    Keys = {k1}
    CmdTypes = {SET, DEL}
    Data = {d1}
    InitLogs <- FreshLogs
    Crashable <- NoReplicas
    ReadFaults <- NoReplicas
    WriteFaults <- NoReplicas
    MaxSeq = 2
    MaxRuns <- TwoClients
    Threads = 1
    Lossy = FALSE
    MaxDups = 0
    NoCmd = NoCmd
    NoType = NoType
    NoData = NoData
    NoPeer = NoPeer
CHECK_DEADLOCK FALSE
INVARIANT SameSeqSameCommand
