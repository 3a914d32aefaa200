SPECIFICATION Spec
CONSTANTS
  Obj = {o1, o2}
  IP = {ip1, ip2}
  Nl = {h1, h2}
  Cpu = {c1, c2}
  MaxSessions = 2
  MaxRequests = 2
  NoObj = NoObj
  NoIP = NoIP
SYMMETRY Symmetry
INVARIANTS
  OneSessionPerIp
  
  PortsUnlessDoubleFree
  CountersExact
  
PROPERTY ImplementsTable
