CONSTANTS
  W = 64
  MSS = 2
  Pages = 14
  Retries = 2
  Client = client
  Server = server
  InitialSeq <- MCInitialSeq
  SendOutcomes <- MCSendWorks
  MaxBytes <- MCMaxBytes
  ClientBytes = 2
  ServerBytes = 0
  MaxTimeouts = 1
  MaxFaults = 1
  MaxOpens = 1
  Closers = {client, server}
  MayAbort = {server}
  Hasty = TRUE
SPECIFICATION Spec
INVARIANTS TcpTypeOK AckedIsReceived FinMeansAll
PROPERTY StreamSpec
CHECK_DEADLOCK FALSE
