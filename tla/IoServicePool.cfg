CONSTANTS
  size_ = 2
  MaxGets = 3
  MaxOps = 3

SPECIFICATION FairSpec
INVARIANTS
  IInv
  Balanced
  GuardsKeepRunning
  QuietAfterStop
PROPERTIES
  StopReturns
  HandlersRun
CHECK_DEADLOCK FALSE
