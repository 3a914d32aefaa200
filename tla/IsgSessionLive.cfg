SPECIFICATION FairSpec
CONSTANTS
  Obj = {o1, o2}
  IP = {ip1, ip2}
  Nl = {h1}
  Cpu = {c1}
  MaxSessions = 1
  MaxRequests = 2
  NoObj = NoObj
  NoIP = NoIP
PROPERTIES
  UnapprovedSettles
  DyingIsReclaimed
