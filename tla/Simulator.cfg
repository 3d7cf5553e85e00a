SPECIFICATION RadioSpec
CONSTANTS
    N = 2
    MaxPacket <- MCMaxPacket
    LastWritten = 3
    NofBuffers = 2
    Worker = {w1, w2}
    Packets <- MCPackets
    Symbol = 2
    SppSize = 3
    Turnaround = 6
    LastTime = 36
INVARIANTS
    Superposition
    WrittenAsAskedOrCut
PROPERTIES
    TimePasses
    SilentShutdown
