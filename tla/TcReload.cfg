SPECIFICATION FairSpec
CONSTANTS
  W = 3
  K = 2
  Prefix <- Nested
  Good <- Files
  Bad = Bad
  Broken = Broken
  None = None
  Pids = 3
  Budgets <- TwoOrThree
INVARIANTS
  LongestPrefix
  
  DaemonsApart
PROPERTY Converges
CHECK_DEADLOCK FALSE
