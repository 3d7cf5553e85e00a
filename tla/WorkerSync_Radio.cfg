SPECIFICATION FairSpec
CONSTANTS
    N = 2
    A = 4
    B = 2
    UniqueLimit = 1
    MaxBuffered = 1
    Period = 2
    NofSlots = 2
    Start = {0}
    PacketTime = {5, 9}
    MinGap = 3
    Error = {0, 1}
    Missable = TRUE
    ReportTime = {7}
    MaxReports = 1
    LastChunk = 2
INVARIANTS
    
    EveryPacketOnce
    NoDetectionLost
    BarrierHolds
PROPERTIES
    EveryChunkDone
    SyncShutdown
