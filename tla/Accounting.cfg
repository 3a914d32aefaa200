SPECIFICATION FairAcctSpec
CONSTANTS
  Thread = {t1, t2, t3}
  Threshold = 2
  Penalty = 1
  Sess = {s1}
  Main = Main
INVARIANTS
  OpenAfterThreshold
  RowIsFinal
PROPERTY Recovers
