SPECIFICATION Spec
CONSTANTS
  Slot = {o1, o2}
  IP = {ip1, ip2}
  NoIP = NoIP
  MaxSessions = 3
  Operator = {t1}
  Api = Api
  NoId = NoId
  Dir = {in, out}
  Limits <- OneOrNone
SYMMETRY Symmetry
 
PROPERTIES
  ReachesNamed
  
