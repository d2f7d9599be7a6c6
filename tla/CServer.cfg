CONSTANTS
  MaxSessions = 2
  IoThreads = {t1, t2}

SPECIFICATION FairSpec
INVARIANTS
  IInv
  ConnectedIsKept
  OnlyEarlyLeaks
PROPERTIES
  KeepsAccepting
  ClosedIsReleased
CHECK_DEADLOCK FALSE
