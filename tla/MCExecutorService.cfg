SPECIFICATION FairSpec
CONSTANTS
  Items = {i1, i2}
  Slots = {1, 2}
  Lease = 3
  IdleTimeout = 2
  ObserveLimit = 2
  Chunks = 2
INVARIANTS
  OneWriter
  OneVerdictPerAttempt
  HostSawTheEvidence
PROPERTIES
  NoSilentDrop
  CyclesAreWorkers
  ServiceKeepsClaiming
CHECK_DEADLOCK FALSE
