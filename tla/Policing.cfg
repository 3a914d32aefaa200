SPECIFICATION PoliceSpec
CONSTANTS
  Cpu = {c1, c2}
  NSEC_PER_USEC = 2
  USEC_PER_SEC = 2
  Rates <- SomeRates
  Lens = {1, 3}
  Word = 8
  Dir = "IN"
  Ticks = {1, 3}
  MaxTime = 4
  MaxChanges = 2
  NoCpu = NoCpu
SYMMETRY Symmetry
INVARIANTS
  RateLimit
  NoCreditAhead
