SPECIFICATION Spec
CONSTANTS
    BallotBits = 16
    Replicas <- FourReplicas
    num_peers = 4
    my_index <- OwnIndex
    Keys = {k1}
    CmdTypes = {SET}
    Data = {d1}
    InitLogs <- FreshLogs
    Crashable <- NoReplicas
    ReadFaults <- NoReplicas
    WriteFaults <- NoReplicas
    MaxSeq = 2
    MaxRuns <- TwoClients
    Threads = 2
    Lossy = FALSE
    MaxDups = 1
    NoCmd = NoCmd
    NoType = NoType
    NoData = NoData
    NoPeer = NoPeer
CHECK_DEADLOCK FALSE
INVARIANT TypeOK
INVARIANT NewLogsStayAtSeqZero
INVARIANT WireFaithful
