CONSTANTS
  Servers = {s1}
  Addrs = {a1, a2, a3}
  NoAddr = none
  Gateway = {s1}
  Taken = {a3}
  InitRetryTime = 4
  MaxRetryTime = 60
  MaxTries = 3
  MinRenewTime = 60
  LeaseTime = 480
  QueueSize = 2
  SendOutcomes <- MCSendWorks
  MaxStops = 1
  MaxLosses = 3
  MaxRefusals = 1
  MaxDuplicates = 0
  MaxTimeouts = 1
SPECIFICATION FairSpec
INVARIANTS DhcpTypeOK AckStaysQueued 
PROPERTY Acquires
CHECK_DEADLOCK FALSE
