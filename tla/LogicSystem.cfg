CONSTANTS
  Posters = {p1, p2}
  MaxPosts = 3

SPECIFICATION FairSpec
INVARIANTS
  IInv
  QueueExclusive
  NoLostWakeup
PROPERTIES
  HandledInPostOrder
  EveryPostHandled
  StopExitsUnlessMissed
CHECK_DEADLOCK FALSE
