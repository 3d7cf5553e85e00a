SPECIFICATION FairSpec
CONSTANTS N_pt = 1
 BeaconPeriod = 5
 PrepareDuration = 2
 FirstBeacon = 2
 ValidAfterBeacon = 8
 ValidAfterNow = 6
 Turnaround = 1
 OffsetBeacon = 1
 Ul = 1
 Dl = 1
 N_resources = 2
 DissociationTime = 11
 max_simultaneous_tx_unicast = 2
 NofProcesses = 3
 N_TB = 2
 Sizes <- Fits
 QueueLength = 1
 MaxDelay = 1
 RxDelay = 0
INVARIANTS
 NoCollision
 Silence
PROPERTIES
 P2pStops
