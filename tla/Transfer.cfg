SPECIFICATION FairUTSpec
CONSTANTS
  None = none
  Setups = {s1, s2}
  FifoSize = 2
  Endpoints <- ControlEndpoints
  Control = 0
  DtdLists <- ShortLists
  MayTimeOut = {2}
  MaxTimeouts = 1
  SLOM = TRUE
  Discipline = {"prime", "direction", "write", "ack"}
INVARIANTS UTTypeOK AckedInOrder RemainingCounted CompleteMeansDelivered StatMeansLoaded
PROPERTIES TransferCompletes SetupDelivered CompletionReported
