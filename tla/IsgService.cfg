SPECIFICATION Spec
CONSTANTS
  Srv = {s1, s2}
  Nl = {h1, h2}
  Cpu = {c1, c2}
  None = None
SYMMETRY Symmetry
INVARIANTS
  
  
  ServicesMarked
 
CHECK_DEADLOCK FALSE
