SPECIFICATION ThreadsRun
CONSTANTS
    BallotBits = 16
    Replicas <- ThreeReplicas
    num_peers = 3
    my_index <- OwnIndex
    Keys = {k1}
    CmdTypes = {SET}
    Data = {d1}
    InitLogs <- OneAhead
    Crashable <- NoReplicas
    ReadFaults <- LaterReplicas
    WriteFaults <- LaterReplicas
    MaxSeq = 2
    MaxRuns <- LaterClients
    Threads = 2
    Lossy = FALSE
    MaxDups = 0
    NoCmd = NoCmd
    NoType = NoType
    NoData = NoData
    NoPeer = NoPeer
CHECK_DEADLOCK FALSE
INVARIANT TypeOK
PROPERTY AppliedBeforeRecorded
PROPERTY StartedCommitsFinish
