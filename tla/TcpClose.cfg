CONSTANTS
  W = 64
  MSS = 2
  Pages = 14
  Retries = 2
  Client = client
  Server = server
  InitialSeq <- MCInitialSeq
  SendOutcomes <- MCSendWorks
  MaxBytes <- MCMaxBytes
  ClientBytes = 3
  ServerBytes = 0
  MaxTimeouts = 0
  MaxFaults = 0
  MaxOpens = 1
  Closers = {client}
  MayAbort = {}
  Hasty = FALSE
SPECIFICATION FairSpec
INVARIANT Polite
PROPERTIES Delivered Released
CHECK_DEADLOCK FALSE
