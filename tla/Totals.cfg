SPECIFICATION FairSpec
CONSTANTS
  Obj = {o1, o2, o3, o4}
  Null = Null
  TopSize = 2
  Bytes = {1, 2, 3, 4}
INVARIANTS
  FindsUnlessStale
  
  TopUnlessMisread
 
CHECK_DEADLOCK FALSE
