SPECIFICATION FairSpec
CONSTANTS ServerConns <- OneConn
 ClientConns <- TwoConns
 N_datagram = 3
 NofLevels = 2
 MaxIngress = 3
 MaxEgress = 3
INVARIANTS
 InOrder
 LevelsMatch
PROPERTIES
 EveryDatagramForwarded
 ApplicationStops
