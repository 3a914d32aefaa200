SPECIFICATION FairSpec
CONSTANTS
  IP = {ip1, ip2}
  Ports = {1, 2}
  Worker = {w1, w2}
  Configs <- TwoConfigs
  Ids = 2
  QueueCap = 1
  MaxFaults = 1
INVARIANTS
  OwnAnswer
  FailClosed
PROPERTY Served
