CONSTANTS
  IoThreads = {t1, t2}
  MAX_SENDQUE = 2
  MaxSends = 4

SPECIFICATION FairSpec
PROPERTIES
  OthersDeliver
CHECK_DEADLOCK FALSE
