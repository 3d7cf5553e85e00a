SPECIFICATION Spec
CONSTANTS
  Turnaround = 2
  PacketLength = 1
  Late = 2
  Lag = 2
  NofProcesses = 2
  Variants = {"snr", "ratio", "mmie"}
  Parameters <- MCParameters
  Snrs = 2
  nof_experiment_per_snr = 2
  stt <- MCstt
  Jitter = 1
  Firmware = {"txrxdelay", "txrxagc", "chscanner"}
  Timings = {"front", "between"}
  measurement_spacing = 16
  P0 = 1
  P1 = 4
  Antennas = 2
  Frequencies = 2
  N_measurement = 3
  measurement_period = 4
  measurement_spacing_between_frequencies = 6
  Window = 2
  Ids = 3
  N_datagram = 3
  Probes = 2
  Timeout = 12
  PerPrint = 2
  Pause = 2
INVARIANT MeasurementsRight
PROPERTIES Finishes
CHECK_DEADLOCK FALSE
