CONSTANTS
  IoThreads = {t1, t2}
  MAX_SENDQUE = 2
  MaxSends = 4

SPECIFICATION FairSpec
INVARIANTS
  IInv
  
  DefinedUnlessRaced
  OneWriteUnlessRaced
  AttendedUnlessRaced
PROPERTIES
  DeliversInOrderUnlessRaced
  DeliveredUnlessRaced
CHECK_DEADLOCK FALSE
