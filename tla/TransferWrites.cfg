SPECIFICATION UTSpec
CONSTANTS
  None = none
  Setups = {s1, s2}
  FifoSize = 2
  Endpoints <- ControlEndpoints
  Control = 0
  DtdLists <- OneOrTwo
  MayTimeOut = {}
  MaxTimeouts = 0
  SLOM = TRUE
  Discipline = {"prime", "direction", "ack"}
INVARIANTS SetupStatMeansCopied
