CONSTANTS
  IoThreads = {t1, t2}
  HEAD_TOTAL_LEN = 1
  BUFFER_TOTAL_LEN = 1
  INT_LIMIT = 4
  SIZE = 64
  Lengths = {0, 2}
  MAX_SENDQUE = 1
  MaxMessages = 2

SPECIFICATION FairSpec
INVARIANTS
  IInv
  InStep
  
  ResponsesInRequestOrder
PROPERTIES
  PartsImplemented
  ServesPeer
  TestAnsweredUnlessRaced
CHECK_DEADLOCK FALSE
