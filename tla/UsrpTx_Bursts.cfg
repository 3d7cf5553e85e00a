SPECIFICATION FairSpec
CONSTANTS
    NofBuffers = 2
    Worker = {w1, w2}
    Packets <- MCPackets
    Symbol = 2
    Spp = 2
    Gap = 1
    Advance = 1
INVARIANTS
    SentAsAsked
PROPERTIES
    EveryPacketSent
    UsrpShutdown
