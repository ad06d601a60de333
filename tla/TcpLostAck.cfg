CONSTANTS
  W = 64
  MSS = 2
  Pages = 14
  Retries = 2
  Client = client
  Server = server
  InitialSeq <- MCInitialSeq
  SendOutcomes <- MCSendWorks
  MaxBytes <- MCMaxBytes
  ClientBytes = 1
  ServerBytes = 0
  MaxTimeouts = 0
  MaxFaults = 1
  MaxOpens = 1
  Closers = {client}
  MayAbort = {}
  Hasty = FALSE
SPECIFICATION FairSpec
PROPERTY Delivered
CHECK_DEADLOCK FALSE
