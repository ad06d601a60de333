CONSTANTS
  Servers = {s1}
  Addrs = {a1, a2}
  NoAddr = none
  Gateway = {s1}
  Taken = {a1}
  InitRetryTime = 4
  MaxRetryTime = 60
  MaxTries = 3
  MinRenewTime = 60
  LeaseTime = 480
  QueueSize = 2
  SendOutcomes <- MCSendWorks
  MaxStops = 0
  MaxLosses = 0
  MaxRefusals = 0
  MaxDuplicates = 0
  MaxTimeouts = 0
SPECIFICATION Spec
INVARIANT BoundIsFree
CHECK_DEADLOCK FALSE
