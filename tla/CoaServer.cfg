SPECIFICATION CoaSpec
CONSTANTS
  N = 3
  policer = policer
  tagger = tagger
  c1 = c1
  c2 = c2
  Type <- Types
  Class <- Classes
  Conf <- FewDefinitions
INVARIANTS
  NoSharedClass
  OffForAReason
  ActiveApart
  
PROPERTY CommandAnswered
CHECK_DEADLOCK FALSE
