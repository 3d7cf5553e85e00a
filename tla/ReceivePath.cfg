SPECIFICATION PathSpec
CONSTANTS
  Definitions <- MCDefinitions
  Strides <- MCStrides
  Transmissions <- MCTransmissions
  Signals <- MCSignals
  Pattern = 8
  Noise = 1
  PowerRange <- MCPowerRange
  LastChunk = 2
  Packets <- MCPackets
  Shipped <- MCShipped
  Builds <- MCBuilds
  rdc <- MCrdc
  mu = 1
  Octets = {0, 1, 2, 3, 5, 100}
  Ring = 25
  MaxNew = 3
  Unit = 5
  Prestream = 1
  Period = 4
  Reader <- OneReader
  Receives = {3}
  Jitter <- Rounding
  Gaps = {5}
  MaxDrops = 2
  UnitsInRow = {1, 2}
  Starts <- FromPast
INVARIANTS
  EveryCellOnce
  ReadsAsWritten
  CodeblocksAsEncoded
  PilotsAsExpected
  SamplesRightThrough
  SearchRight
  NoAssertionFails
  ReceivedAsSent
  SamplesRight
  WokenInTime
CHECK_DEADLOCK FALSE
