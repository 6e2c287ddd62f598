SPECIFICATION Spec
CONSTANTS
    BallotBits = 16
    Replicas <- ThreeReplicas
    num_peers = 3
    my_index <- OwnIndex
    Keys = {k1}
    CmdTypes = {SET}
    Data = {d1}
    InitLogs <- DriftedLogs
    Crashable <- FirstReplica
    ReadFaults <- NoReplicas
    WriteFaults <- NoReplicas
    MaxSeq = 4
    MaxRuns <- TwoClients
    Threads = 1
    Lossy = FALSE
    MaxDups = 0
    NoCmd = NoCmd
    NoType = NoType
    NoData = NoData
    NoPeer = NoPeer
CHECK_DEADLOCK FALSE
INVARIANT TypeOK
PROPERTY AppliedBeforeRecorded
PROPERTY EntrySeqNeverDecreases
PROPERTY RecoverNamesPeerAhead
